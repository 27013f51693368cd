-------------------------- MODULE ServiceController --------------------------
(***************************************************************************)
(* pkg/controller/service: one worker that gives every service of type     *)
(* LoadBalancer a public IP and writes it into the service's status.       *)
(*                                                                         *)
(* Each call of the allocator is a step of its own: the pool and the       *)
(* floating IP controllers call it in between.  svcLog[k] is the history   *)
(* of service k from the version in the informer's cache (Head) to the one *)
(* the API server stores (Last).                                           *)
(***************************************************************************)
EXTENDS PublicIPAllocator, SequencesExt

CONSTANTS
  SvcKeys,        \* the keys of services
  NoService,      \* the service does not exist
  NoIngress,      \* status.loadBalancer.ingress is empty
  InitialServices, \* what the API server may store when the process starts
  SvcOps,         \* what may happen: "create", "ip", "type", "touch", "status", "delete", "resync"
  MaxSvcOps,      \* bound on the number of such operations
  MaxSvcFaults,   \* bound on the number of failing status requests
  MaxSvcRetries   \* maxRetries

ASSUME SvcAssumption ==
  /\ SvcKeys \subseteq Keys
  /\ NoIngress \notin IPStrings \cup {NoIP}
  /\ InitialServices \subseteq
       [lb : BOOLEAN, want : IPStrings \cup {NoIP}, status : IPs \cup {NoIP, NoIngress}]
         \cup {NoService}
  /\ MaxSvcOps \in Nat /\ MaxSvcFaults \in Nat /\ MaxSvcRetries \in Nat

VARIABLES
  svcLog,        \* versions of each service from the cached to the stored one
  svcQueued,     \* keys in the work queue
  svcDelayed,    \* keys AddRateLimited will put there
  svcRequeues,   \* NumRequeues of each key
  svcWork,       \* the worker: program counter, key, its copy of the service
  svcLeft        \* what is left of the bounds

svcQueueVars == <<svcQueued, svcDelayed, svcRequeues>>
svcCtlVars == <<svcQueueVars, svcWork>>
svcVars == <<svcLog, svcCtlVars, svcLeft>>

\* spec.type is LoadBalancer, spec.loadBalancerIP and the status.  A status with
\* one ingress of IP "" (which the controller itself writes) is NoIP.
Services == [lb : BOOLEAN, want : IPStrings \cup {NoIP}, status : IPs \cup {NoIP, NoIngress}]

\* svc: the copy.  fresh: the API server still stores that version.  status:
\* what the copy's status will be.
SvcIdle == [pc |-> "idle", key |-> NoKey, svc |-> NoService, fresh |-> FALSE, status |-> NoIngress]

SvcPCs == {"idle", "deleted", "strip", "recheck", "reclaim", "clear",
           "allocate", "commit", "giveup", "update"}

SvcTypeOK ==
  /\ svcLog \in [SvcKeys -> Seq(Services \cup {NoService})]
  /\ \A k \in SvcKeys : svcLog[k] # <<>>
  /\ svcQueued \subseteq SvcKeys /\ svcDelayed \subseteq SvcKeys
  /\ svcRequeues \in [SvcKeys -> 0 .. MaxSvcRetries]
  /\ svcWork \in [pc : SvcPCs, key : SvcKeys \cup {NoKey}, svc : Services \cup {NoService},
                  fresh : BOOLEAN, status : IPs \cup {NoIP, NoIngress}]
  /\ svcLeft \in [ops : 0 .. MaxSvcOps, faults : 0 .. MaxSvcFaults]

\* The process starts: the informer lists and queues the services there are.
SvcInit ==
  \E stored \in [SvcKeys -> InitialServices] :
    /\ svcLog = [k \in SvcKeys |-> <<stored[k]>>]
    /\ svcQueued = {k \in SvcKeys : stored[k] # NoService}
    /\ svcDelayed = {} /\ svcRequeues = [k \in SvcKeys |-> 0]
    /\ svcWork = SvcIdle
    /\ svcLeft = [ops |-> MaxSvcOps, faults |-> MaxSvcFaults]

CachedService(k) == Head(svcLog[k])
StoredService(k) == Last(svcLog[k])
-----------------------------------------------------------------------------
(* The API server and its users.                                           *)

StoreService(k, v) ==
  /\ svcLog' = [svcLog EXCEPT ![k] = Append(@, v)]
  /\ svcWork' = [svcWork EXCEPT !.fresh = @ /\ svcWork.key # k]

UserSvcOp(op) ==
  /\ op \in SvcOps
  /\ svcLeft.ops > 0
  /\ svcLeft' = [svcLeft EXCEPT !.ops = @ - 1]
  /\ UNCHANGED <<svcQueueVars, allocVars>>

SvcCreate(k) ==
  /\ UserSvcOp("create")
  /\ StoredService(k) = NoService
  /\ \E want \in IPStrings \cup {NoIP} :
       StoreService(k, [lb |-> TRUE, want |-> want, status |-> NoIngress])

SvcSetIP(k) ==
  /\ UserSvcOp("ip")
  /\ StoredService(k) # NoService
  /\ \E want \in (IPStrings \cup {NoIP}) \ {StoredService(k).want} :
       StoreService(k, [StoredService(k) EXCEPT !.want = want])

SvcSetType(k) ==
  /\ UserSvcOp("type")
  /\ StoredService(k) # NoService
  /\ StoreService(k, [StoredService(k) EXCEPT !.lb = ~@])

\* Anything the controller does not look at: a new resourceVersion.
SvcTouch(k) ==
  /\ UserSvcOp("touch")
  /\ StoredService(k) # NoService
  /\ StoreService(k, StoredService(k))

\* Somebody else writes the status: the process that a rolling update is about to
\* end, which has an allocator of its own, or a user.
SvcSetStatus(k) ==
  /\ UserSvcOp("status")
  /\ StoredService(k) # NoService
  /\ \E status \in (IPs \cup {NoIP, NoIngress}) \ {StoredService(k).status} :
       StoreService(k, [StoredService(k) EXCEPT !.status = status])

SvcDelete(k) ==
  /\ UserSvcOp("delete")
  /\ StoredService(k) # NoService
  /\ StoreService(k, NoService)
-----------------------------------------------------------------------------
(* The informer and the event handlers.                                    *)

SvcDeliver_NoDelete(k) ==
  /\ Len(svcLog[k]) > 1
  /\ svcLog' = [svcLog EXCEPT ![k] = Tail(@)]
  /\ svcQueued' = IF svcLog[k][2] = NoService THEN svcQueued ELSE svcQueued \cup {k}
  /\ UNCHANGED <<svcDelayed, svcRequeues, svcWork, svcLeft, allocVars>>

\* onServiceUpdate and onServiceDelete
SvcDeliver(k) ==
  /\ Len(svcLog[k]) > 1
  /\ svcLog' = [svcLog EXCEPT ![k] = Tail(@)]
  /\ svcQueued' = svcQueued \cup {k}
  /\ UNCHANGED <<svcDelayed, svcRequeues, svcWork, svcLeft, allocVars>>

SvcSettled ==
  /\ svcWork.pc = "idle" /\ svcQueued = {} /\ svcDelayed = {}
  /\ \A k \in SvcKeys : Len(svcLog[k]) = 1

\* The informer's periodic resync sends every cached service to the handler
\* again.  It comes every 1800 s: whenever the controller is at rest, and as an
\* operation, MaxSvcOps times at most, before that.
SvcMayResync ==
  /\ "resync" \in SvcOps
  /\ \/ /\ SvcSettled
        /\ UNCHANGED svcLeft
     \/ /\ svcLeft.ops > 0
        /\ svcLeft' = [svcLeft EXCEPT !.ops = @ - 1]

SvcResync_SkipsUnchanged ==
  /\ SvcMayResync
  /\ UNCHANGED <<svcLog, svcCtlVars, allocVars>>

SvcResync ==
  /\ SvcMayResync
  /\ svcQueued' = svcQueued \cup {k \in SvcKeys : CachedService(k) # NoService}
  /\ UNCHANGED <<svcLog, svcDelayed, svcRequeues, svcWork, allocVars>>

CachedLoadBalancers == {k \in SvcKeys : CachedService(k) # NoService /\ CachedService(k).lb}

SvcOnPoolChange_None ==
  UNCHANGED <<svcLog, svcCtlVars, svcLeft, allocVars>>

\* onPublicIPPoolUpdate (of a pool whose status records its generation) and
\* onPublicIPPoolDelete do the same.
SvcOnPoolChange ==
  /\ svcQueued' = svcQueued \cup CachedLoadBalancers
  /\ UNCHANGED <<svcLog, svcDelayed, svcRequeues, svcWork, svcLeft, allocVars>>
-----------------------------------------------------------------------------
(* The work queue: handleErr, with queue.Done, and AddRateLimited's timer. *)

SvcDone ==
  /\ svcWork' = SvcIdle
  /\ svcRequeues' = [svcRequeues EXCEPT ![svcWork.key] = 0]
  /\ UNCHANGED <<svcQueued, svcDelayed>>

SvcFailed_Counts ==
  /\ svcWork' = SvcIdle
  /\ svcDelayed' = svcDelayed \cup {svcWork.key}
  /\ svcRequeues' = [svcRequeues EXCEPT ![svcWork.key] = @ + 1]
  /\ UNCHANGED svcQueued

SvcFailed ==
  /\ svcWork' = SvcIdle
  /\ \/ /\ svcRequeues[svcWork.key] < MaxSvcRetries
        /\ svcDelayed' = svcDelayed \cup {svcWork.key}
        /\ svcRequeues' = [svcRequeues EXCEPT ![svcWork.key] = @ + 1]
     \/ /\ svcRequeues[svcWork.key] >= MaxSvcRetries
        /\ svcRequeues' = [svcRequeues EXCEPT ![svcWork.key] = 0]
        /\ UNCHANGED svcDelayed
  /\ UNCHANGED svcQueued

SvcRetry(k) ==
  /\ k \in svcDelayed
  /\ svcDelayed' = svcDelayed \ {k}
  /\ svcQueued' = svcQueued \cup {k}
  /\ UNCHANGED <<svcLog, svcRequeues, svcWork, svcLeft, allocVars>>
-----------------------------------------------------------------------------
(* The worker: syncService and syncServiceStatus, one allocator call a     *)
(* step.  Calls of FreeService that directly follow one another are one    *)
(* step: nobody else allocates for the key.                                *)

SvcOwner == Service(svcWork.key)

SvcGoto(pc) ==
  /\ svcWork' = [svcWork EXCEPT !.pc = pc]
  /\ UNCHANGED svcQueueVars

\* The end of syncServiceStatus: the status is written only if it differs from
\* the cached one.
SvcSettle(status) ==
  \/ /\ status = svcWork.svc.status
     /\ SvcDone
  \/ /\ status # svcWork.svc.status
     /\ svcWork' = [svcWork EXCEPT !.pc = "update", !.status = status]
     /\ UNCHANGED svcQueueVars

SvcStart(k, pc) ==
  /\ svcWork' = [pc |-> pc, key |-> k, svc |-> CachedService(k),
                 fresh |-> Len(svcLog[k]) = 1, status |-> NoIngress]
  /\ UNCHANGED svcRequeues

\* queue.Get, the lister, and the branch on what the cache holds
SvcGet(k) ==
  /\ svcWork.pc = "idle" /\ k \in svcQueued
  /\ svcQueued' = svcQueued \ {k}
  /\ LET svc == CachedService(k)
         isLB == svc # NoService /\ svc.lb
         notLB == svc # NoService /\ ~svc.lb
     IN \/ svc = NoService /\ SvcStart(k, "deleted")
        \/ notLB /\ svc.status # NoIngress /\ SvcStart(k, "strip")
        \/ /\ notLB /\ svc.status = NoIngress
           /\ svcRequeues' = [svcRequeues EXCEPT ![k] = 0]
           /\ UNCHANGED svcWork
        \/ isLB /\ svc.status \in IPs /\ SvcStart(k, "recheck")
        \/ isLB /\ svc.status \notin IPs /\ SvcStart(k, "clear")
  /\ UNCHANGED <<svcDelayed, svcLog, svcLeft, allocVars>>

\* The service is gone: just release its public IP.
SvcFreeDeleted ==
  /\ svcWork.pc = "deleted"
  /\ FreeService(svcWork.key)
  /\ SvcDone
  /\ UNCHANGED <<svcLog, svcLeft>>

\* Not of type LoadBalancer, but with a status: clearServiceStatus.
SvcStrip ==
  /\ svcWork.pc = "strip"
  /\ FreeService(svcWork.key)
  /\ SvcSettle(NoIngress)
  /\ UNCHANGED <<svcLog, svcLeft>>

\* AllocateService of the status IP, up to containsIP
SvcRecheck ==
  /\ svcWork.pc = "recheck"
  /\ \/ /\ CheckDesiredIP(SvcOwner, svcWork.svc.status)
        /\ SvcGoto("reclaim")
     \/ /\ Rejected(svcWork.svc.status)
        /\ SvcGoto("clear")
        /\ UNCHANGED allocVars
  /\ UNCHANGED <<svcLog, svcLeft>>

DesiredChanged_Asked == svcWork.svc.want # NoIP

\* The user asked for another IP than the one in the status.  The
\* comparison is of strings, and the status is always in canonical form.
DesiredChanged == svcWork.svc.want \notin {NoIP, svcWork.svc.status}

SvcReclaim_KeepsOld ==
  /\ svcWork.pc = "reclaim"
  /\ AllocateServiceIP(svcWork.key)
  /\ \/ allocated'[SvcOwner] = svcWork.svc.status /\ SvcSettle(svcWork.svc.status)
     \/ allocated'[SvcOwner] # svcWork.svc.status /\ SvcGoto("clear")
  /\ UNCHANGED <<svcLog, svcLeft>>

SvcReclaim ==
  /\ svcWork.pc = "reclaim"
  /\ AllocateServiceIP(svcWork.key)
  /\ LET reclaimed == allocated'[SvcOwner] = svcWork.svc.status
     IN \/ reclaimed /\ ~DesiredChanged /\ SvcSettle(svcWork.svc.status)
        \/ ~reclaimed /\ SvcGoto("clear")
        \/ DesiredChanged /\ SvcGoto("clear")
  /\ UNCHANGED <<svcLog, svcLeft>>

SvcClear_StatusOnly ==
  /\ svcWork.pc = "clear"
  /\ SvcGoto("allocate")
  /\ UNCHANGED <<svcLog, svcLeft, allocVars>>

\* clearServiceStatus, before a public IP is allocated anew
SvcClear ==
  /\ svcWork.pc = "clear"
  /\ FreeService(svcWork.key)
  /\ SvcGoto("allocate")
  /\ UNCHANGED <<svcLog, svcLeft>>

\* AllocateService of spec.loadBalancerIP, up to containsIP if one is given
SvcAllocate ==
  /\ svcWork.pc = "allocate"
  /\ \/ /\ svcWork.svc.want = NoIP
        /\ AllocateServiceIPFromPool(svcWork.key)
        /\ IF allocated'[SvcOwner] # NoIP
           THEN SvcSettle(allocated'[SvcOwner])
           ELSE SvcGoto("giveup")
     \/ /\ svcWork.svc.want # NoIP
        /\ CheckDesiredIP(SvcOwner, svcWork.svc.want)
        /\ SvcGoto("commit")
     \/ /\ svcWork.svc.want # NoIP
        /\ Rejected(svcWork.svc.want)
        /\ SvcGoto("giveup")
        /\ UNCHANGED allocVars
  /\ UNCHANGED <<svcLog, svcLeft>>

SvcCommit ==
  /\ svcWork.pc = "commit"
  /\ AllocateServiceIP(svcWork.key)
  /\ LET desired == Canonical[svcWork.svc.want]
     IN \/ allocated'[SvcOwner] = desired /\ SvcSettle(desired)
        \/ allocated'[SvcOwner] # desired /\ SvcGoto("giveup")
  /\ UNCHANGED <<svcLog, svcLeft>>

\* Allocation failed: clearServiceStatus, and the status gets an empty IP.
SvcGiveUp ==
  /\ svcWork.pc = "giveup"
  /\ FreeService(svcWork.key)
  /\ SvcSettle(NoIP)
  /\ UNCHANGED <<svcLog, svcLeft>>

WriteSvcStatus ==
  svcLog' = [svcLog EXCEPT ![svcWork.key] = Append(@, [svcWork.svc EXCEPT !.status = svcWork.status])]

\* UpdateStatus: accepted; refused because the copy is not fresh; failed before,
\* or after, it took effect.
SvcUpdateStatus ==
  /\ svcWork.pc = "update"
  /\ \/ /\ svcWork.fresh
        /\ WriteSvcStatus
        /\ SvcDone
        /\ UNCHANGED svcLeft
     \/ /\ ~svcWork.fresh
        /\ SvcFailed
        /\ UNCHANGED <<svcLog, svcLeft>>
     \/ /\ svcLeft.faults > 0
        /\ svcLeft' = [svcLeft EXCEPT !.faults = @ - 1]
        /\ SvcFailed
        /\ \/ UNCHANGED svcLog
           \/ svcWork.fresh /\ WriteSvcStatus
  /\ UNCHANGED allocVars
-----------------------------------------------------------------------------
SvcUser ==
  \E k \in SvcKeys :
    \/ SvcCreate(k) \/ SvcSetIP(k) \/ SvcSetType(k) \/ SvcTouch(k)
    \/ SvcSetStatus(k) \/ SvcDelete(k)

SvcWorker ==
  \/ \E k \in SvcKeys : SvcGet(k)
  \/ SvcFreeDeleted \/ SvcStrip \/ SvcRecheck \/ SvcReclaim
  \/ SvcClear \/ SvcAllocate \/ SvcCommit \/ SvcGiveUp \/ SvcUpdateStatus

SvcNext ==
  \/ SvcUser
  \/ \E k \in SvcKeys : SvcDeliver(k) \/ SvcRetry(k)
  \/ SvcResync
  \/ SvcWorker

\* A new process: the services are listed and queued; their statuses survive.
SvcRestart ==
  /\ svcLog' = [k \in SvcKeys |-> <<StoredService(k)>>]
  /\ svcQueued' = {k \in SvcKeys : StoredService(k) # NoService}
  /\ svcDelayed' = {} /\ svcRequeues' = [k \in SvcKeys |-> 0]
  /\ svcWork' = SvcIdle
  /\ UNCHANGED svcLeft

=============================================================================
