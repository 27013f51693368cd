----------------------- MODULE PublicIPPoolController -----------------------
(***************************************************************************)
(* pkg/controller/publicippool: one worker that loads the spec of the pool *)
(* default-public-ippool into the allocator and records the generation it  *)
(* loaded in the pool's status.                                            *)
(*                                                                         *)
(* poolLog is the API server's history of the object as the informer still *)
(* has to see it: Head is the version in the informer's cache, Last the    *)
(* one the API server stores, and what lies between them are watch events  *)
(* in flight.  poolEvents are the notifications the shared informer has    *)
(* put in the channels of the service and the floating IP controller.      *)
(***************************************************************************)
EXTENDS PublicIPAllocator, SequencesExt

CONSTANTS
  NoPool,          \* the pool does not exist
  InitialPools,    \* what the API server may store when the process starts
  PoolOps,         \* what may happen: "create", "edit", "touch", "delete", "resync"
  Listeners,       \* the kinds whose controllers run beside this one
  MaxPoolOps,      \* bound on the number of such operations
  MaxPoolFaults,   \* bound on the number of failing requests and lost watches
  MaxRestarts,     \* bound on the number of times the process is restarted
  MaxRetries       \* maxRetries

ASSUME PoolAssumption ==
  /\ <<>> \in Addresses
  /\ Listeners \subseteq Kinds
  /\ NoPool \notin [addresses : Addresses, generation : Nat, observed : Nat]
  /\ InitialPools \subseteq
       [addresses : Addresses, generation : {1}, observed : {0, 1}] \cup {NoPool}
  /\ MaxPoolOps \in Nat /\ MaxPoolFaults \in Nat /\ MaxRestarts \in Nat /\ MaxRetries \in Nat

VARIABLES
  poolLog,             \* versions of the pool from the cached to the stored one
  poolQueued,          \* the pool's key is in the work queue
  poolDelayed,         \* ... will be put there by AddRateLimited
  poolRequeues,        \* NumRequeues(key)
  poolWork,            \* the worker: program counter and its copy of the pool
  observedGeneration,  \* the controller's field of that name
  poolEvents,          \* notifications pending for each other controller
  poolLeft             \* what is left of the bounds

poolQueueVars == <<poolQueued, poolDelayed, poolRequeues>>
poolCtlVars == <<poolQueueVars, poolWork, observedGeneration>>
poolVars == <<poolLog, poolCtlVars, poolEvents, poolLeft>>

\* spec.publicAddresses, metadata.generation and status.observedGeneration
Generations == 1 .. MaxPoolOps + 1
Pools == [addresses : Addresses, generation : Generations, observed : Generations \cup {0}]

\* fresh: the API server still stores the version the worker copied, so that
\* the copy's resourceVersion is accepted.
PoolIdle == [pc |-> "idle", pool |-> NoPool, fresh |-> FALSE]
PoolWorks == [pc : {"idle", "release", "load", "update"},
              pool : Pools \cup {NoPool}, fresh : BOOLEAN]

PoolTypeOK ==
  /\ TypeOK
  /\ poolLog \in Seq(Pools \cup {NoPool}) /\ poolLog # <<>>
  /\ poolQueued \in BOOLEAN /\ poolDelayed \in BOOLEAN
  /\ poolRequeues \in 0 .. MaxRetries
  /\ poolWork \in PoolWorks
  /\ observedGeneration \in Generations \cup {0}
  /\ poolEvents \in [Listeners -> Seq({"updated", "deleted"})]
  /\ poolLeft \in [ops : 0 .. MaxPoolOps, faults : 0 .. MaxPoolFaults, restarts : 0 .. MaxRestarts]

\* What a listener is told of version v.  The handlers of both controllers
\* return at once, and nothing is kept here, when generation and
\* observedGeneration differ.
Announced(v) == v.generation = v.observed
Notices(v) ==
  IF v = NoPool THEN <<"deleted">> ELSE IF Announced(v) THEN <<"updated">> ELSE <<>>

\* What it is told of the version the first list shows.
StartNotices(v) == IF v = NoPool THEN <<>> ELSE Notices(v)

\* The process starts, on a cluster that may have a pool already.
PoolInit ==
  \E v \in InitialPools :
    /\ poolLog = <<v>>
    /\ poolQueued = (v # NoPool) /\ poolDelayed = FALSE /\ poolRequeues = 0
    /\ poolWork = PoolIdle
    /\ observedGeneration = 0
    /\ poolEvents = [kind \in Listeners |-> StartNotices(v)]
    /\ poolLeft = [ops |-> MaxPoolOps, faults |-> MaxPoolFaults, restarts |-> MaxRestarts]

CachedPool == Head(poolLog)
StoredPool == Last(poolLog)
-----------------------------------------------------------------------------
(* The API server and its users.                                           *)

StorePool(v) ==
  /\ poolLog' = Append(poolLog, v)
  /\ poolWork' = [poolWork EXCEPT !.fresh = FALSE]

PoolFault ==
  /\ poolLeft.faults > 0
  /\ poolLeft' = [poolLeft EXCEPT !.faults = @ - 1]

UserPoolOp(op) ==
  /\ op \in PoolOps
  /\ poolLeft.ops > 0
  /\ poolLeft' = [poolLeft EXCEPT !.ops = @ - 1]
  /\ UNCHANGED <<poolQueueVars, observedGeneration, poolEvents, allocVars>>

\* A new object starts at generation 1 with an empty status.
PoolCreate ==
  /\ UserPoolOp("create")
  /\ StoredPool = NoPool
  /\ \E a \in Addresses : StorePool([addresses |-> a, generation |-> 1, observed |-> 0])

\* A change of the spec increments the generation.
PoolEdit ==
  /\ UserPoolOp("edit")
  /\ StoredPool # NoPool
  /\ \E a \in Addresses \ {StoredPool.addresses} :
       StorePool([StoredPool EXCEPT !.addresses = a, !.generation = @ + 1])

\* A label or annotation: a new resourceVersion, the same generation.
PoolTouch ==
  /\ UserPoolOp("touch")
  /\ StoredPool # NoPool
  /\ StorePool(StoredPool)

PoolDelete ==
  /\ UserPoolOp("delete")
  /\ StoredPool # NoPool
  /\ StorePool(NoPool)
-----------------------------------------------------------------------------
(* The informer.                                                           *)

\* The cache moves to v; every listener is told, this controller's by a key in
\* its queue (onPublicIPPoolUpdate, onPublicIPPoolDelete).
PoolNotify(v) ==
  /\ poolQueued' = TRUE
  /\ poolEvents' = [kind \in Listeners |-> poolEvents[kind] \o Notices(v)]
  /\ UNCHANGED <<poolDelayed, poolRequeues, poolWork, observedGeneration, allocVars>>

PoolDeliver ==
  /\ Len(poolLog) > 1
  /\ poolLog' = Tail(poolLog)
  /\ PoolNotify(poolLog[2])
  /\ UNCHANGED poolLeft

\* The watch was lost and the list that follows shows the stored version only.
PoolRelist ==
  /\ Len(poolLog) > 2
  /\ PoolFault
  /\ poolLog' = <<StoredPool>>
  /\ IF CachedPool = NoPool /\ StoredPool = NoPool
     THEN UNCHANGED <<poolCtlVars, poolEvents, allocVars>>
     ELSE PoolNotify(StoredPool)

\* The periodic resync repeats the cached version to every listener.
PoolResync ==
  /\ "resync" \in PoolOps
  /\ poolLeft.ops > 0
  /\ poolLeft' = [poolLeft EXCEPT !.ops = @ - 1]
  /\ CachedPool # NoPool
  /\ PoolNotify(CachedPool)
  /\ UNCHANGED poolLog
-----------------------------------------------------------------------------
(* The worker: processNextWorkItem, syncHandler and handleErr.             *)

\* handleErr(nil), with queue.Done
PoolDone ==
  /\ poolWork' = PoolIdle
  /\ poolRequeues' = 0
  /\ UNCHANGED <<poolQueued, poolDelayed>>

PoolFailed_Retries ==
  /\ poolWork' = PoolIdle
  /\ poolDelayed' = TRUE
  /\ UNCHANGED <<poolQueued, poolRequeues>>

\* handleErr(err), with queue.Done: try again later, or drop the key.
PoolFailed ==
  /\ poolWork' = PoolIdle
  /\ \/ /\ poolRequeues < MaxRetries
        /\ poolDelayed' = TRUE
        /\ poolRequeues' = poolRequeues + 1
     \/ /\ poolRequeues >= MaxRetries
        /\ poolRequeues' = 0
        /\ UNCHANGED poolDelayed
  /\ UNCHANGED poolQueued

PoolRetry ==
  /\ poolDelayed
  /\ poolDelayed' = FALSE
  /\ poolQueued' = TRUE
  /\ UNCHANGED <<poolLog, poolRequeues, poolWork, observedGeneration, poolEvents, poolLeft, allocVars>>

PoolGoto(pc) ==
  /\ poolWork' = [pc |-> pc, pool |-> CachedPool, fresh |-> Len(poolLog) = 1]
  /\ UNCHANGED <<poolDelayed, poolRequeues>>

PoolGet_TrustsStatus ==
  /\ poolWork.pc = "idle" /\ poolQueued
  /\ poolQueued' = FALSE
  /\ \/ /\ CachedPool = NoPool
        /\ PoolGoto("release")
     \/ /\ CachedPool # NoPool /\ ~Announced(CachedPool)
        /\ PoolGoto("load")
     \/ /\ CachedPool # NoPool /\ Announced(CachedPool)
        /\ poolRequeues' = 0
        /\ UNCHANGED <<poolWork, poolDelayed>>
  /\ UNCHANGED <<observedGeneration, poolLog, poolEvents, poolLeft, allocVars>>

\* Reads the cache and compares generations.
PoolGet ==
  /\ poolWork.pc = "idle" /\ poolQueued
  /\ poolQueued' = FALSE
  /\ \/ /\ CachedPool = NoPool
        /\ PoolGoto("release")
        /\ UNCHANGED observedGeneration
     \/ /\ CachedPool # NoPool /\ CachedPool.generation = observedGeneration
        /\ poolRequeues' = 0
        /\ UNCHANGED <<poolWork, poolDelayed, observedGeneration>>
     \/ /\ CachedPool # NoPool /\ CachedPool.generation > observedGeneration
        /\ PoolGoto("load")
        /\ UNCHANGED observedGeneration
     \/ /\ CachedPool # NoPool /\ CachedPool.generation < observedGeneration
        /\ PoolGoto("load")
        /\ observedGeneration' = 0
  /\ UNCHANGED <<poolLog, poolEvents, poolLeft, allocVars>>

PoolRelease_KeepsNets ==
  /\ poolWork.pc = "release"
  /\ PoolDone
  /\ UNCHANGED <<poolLog, observedGeneration, poolEvents, poolLeft, allocVars>>

\* The pool is gone: observedGeneration stays as it is.
PoolRelease ==
  /\ poolWork.pc = "release"
  /\ UpdateIPPool(<<>>)
  /\ PoolDone
  /\ UNCHANGED <<poolLog, observedGeneration, poolEvents, poolLeft>>

PoolLoad_IgnoresError ==
  /\ poolWork.pc = "load"
  /\ UpdateIPPool(poolWork.pool.addresses)
  /\ poolWork' = [poolWork EXCEPT !.pc = "update"]
  /\ UNCHANGED <<poolQueueVars, poolLog, observedGeneration, poolEvents, poolLeft>>

PoolLoad ==
  /\ poolWork.pc = "load"
  /\ UpdateIPPool(poolWork.pool.addresses)
  /\ \/ /\ Parses(poolWork.pool.addresses)
        /\ poolWork' = [poolWork EXCEPT !.pc = "update"]
        /\ UNCHANGED poolQueueVars
     \/ /\ ~Parses(poolWork.pool.addresses)
        /\ PoolFailed
  /\ UNCHANGED <<poolLog, observedGeneration, poolEvents, poolLeft>>

\* The request reached the API server, which stores nothing, and tells nobody,
\* when the status is what it was.
WriteObserved ==
  LET v == [poolWork.pool EXCEPT !.observed = poolWork.pool.generation]
  IN poolLog' = IF StoredPool = v THEN poolLog ELSE Append(poolLog, v)

PoolUpdateStatus_Forgiving ==
  /\ poolWork.pc = "update"
  /\ observedGeneration' = poolWork.pool.generation
  /\ PoolDone
  /\ \/ poolWork.fresh /\ WriteObserved /\ UNCHANGED poolLeft
     \/ ~poolWork.fresh /\ UNCHANGED <<poolLog, poolLeft>>
     \/ PoolFault /\ UNCHANGED poolLog
  /\ UNCHANGED <<poolEvents, allocVars>>

\* UpdateStatus: accepted; refused because the copy is not fresh (a conflict,
\* or not found); failed before, or after, it took effect.
PoolUpdateStatus ==
  /\ poolWork.pc = "update"
  /\ \/ /\ poolWork.fresh
        /\ WriteObserved
        /\ observedGeneration' = poolWork.pool.generation
        /\ PoolDone
        /\ UNCHANGED poolLeft
     \/ /\ ~poolWork.fresh
        /\ PoolFailed
        /\ UNCHANGED <<poolLog, observedGeneration, poolLeft>>
     \/ /\ PoolFault
        /\ PoolFailed
        /\ \/ UNCHANGED poolLog
           \/ poolWork.fresh /\ WriteObserved
        /\ UNCHANGED observedGeneration
  /\ UNCHANGED <<poolEvents, allocVars>>
-----------------------------------------------------------------------------
\* A new process lists the pool the API server stores; its status survives.
PoolRestart ==
  /\ poolLeft.restarts > 0
  /\ poolLeft' = [poolLeft EXCEPT !.restarts = @ - 1]
  /\ poolLog' = <<StoredPool>>
  /\ poolQueued' = (StoredPool # NoPool) /\ poolDelayed' = FALSE /\ poolRequeues' = 0
  /\ poolWork' = PoolIdle
  /\ observedGeneration' = 0
  /\ poolEvents' = [kind \in Listeners |-> StartNotices(StoredPool)]

PoolUser == PoolCreate \/ PoolEdit \/ PoolTouch \/ PoolDelete
PoolInformer == PoolDeliver \/ PoolRelist \/ PoolResync
PoolWorker == PoolGet \/ PoolRelease \/ PoolLoad \/ PoolUpdateStatus

PoolNext == PoolUser \/ PoolInformer \/ PoolWorker \/ PoolRetry

poolAllVars == <<allocVars, poolVars>>

\* The informer's reflector, the worker and the queue's timer run forever.
PoolFairness ==
  /\ WF_poolAllVars(PoolDeliver)
  /\ WF_poolAllVars(PoolWorker)
  /\ WF_poolAllVars(PoolRetry)

\* The controller alone, its process restarting with the allocator in it.
PoolSpec ==
  /\ Init /\ PoolInit
  /\ [][PoolNext \/ (PoolRestart /\ Crash)]_poolAllVars
  /\ PoolFairness
-----------------------------------------------------------------------------
(* Properties.                                                             *)

\* The other controllers act on the pool once its status records the spec's
\* generation, and what the allocator serves is then that very spec: the status
\* is written after the load, from a copy a concurrent edit makes stale.  (Not
\* across a restart: the status outlives the allocator.)
AnnouncedIsLoaded ==
  (StoredPool # NoPool /\ Announced(StoredPool) /\ poolLeft.restarts = MaxRestarts)
    => nets = TargetNets(StoredPool.addresses)

PoolSettled == poolWork.pc = "idle" /\ ~poolQueued /\ ~poolDelayed /\ Len(poolLog) = 1

\* A deleted pool does not stay in the allocator, whatever load was under way
\* or waiting for its retry when it was deleted (syncHandler's "Case DELETE").
ReleasedWhenGone == (PoolSettled /\ StoredPool = NoPool) => nets = <<>>

PoolParses == StoredPool # NoPool /\ Parses(StoredPool.addresses)
PoolIsLoaded == PoolParses => nets = TargetNets(StoredPool.addresses)
PoolIsAnnounced == PoolParses => Announced(StoredPool)

\* A pool that parses ends up in the allocator.
EventuallyLoaded == <>[]PoolIsLoaded

\* ... through conflicts, failed or lost status requests, lost watches and
\* restarts, if it is never deleted: the load comes before anything that can
\* use up the retries.
KeptIsLoaded == [](StoredPool # NoPool => [](StoredPool # NoPool)) => <>[]PoolIsLoaded

\* A pool that does not parse, or keeps conflicting, is not retried forever.
EventuallyQuiet == <>[]PoolSettled

\* A pool that is never deleted has its status end up recording the generation,
\* which is what makes the other controllers act on it.  (Unless a request
\* fails: failures are counted across versions, so one can find the retries
\* used up by conflicts.)
KeptIsAnnounced ==
  [](StoredPool # NoPool => [](StoredPool # NoPool))
    => <>[](PoolIsAnnounced \/ poolLeft.faults < MaxPoolFaults)
=============================================================================
