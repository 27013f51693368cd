-------------------- MODULE PublicIPPoolControllerProofs --------------------
(***************************************************************************)
(* The types of the pool controller's state, and that the generation its   *)
(* status announces is the one the allocator serves, however many edits,   *)
(* deletions, failed requests and lost watches there are.                  *)
(***************************************************************************)
EXTENDS PublicIPPoolController, PublicIPAllocatorProofs

\* The generation a version may have, given the operations still to come.
PoolBudget(v) == v # NoPool => v.generation + poolLeft.ops <= MaxPoolOps + 1

PoolInFlight ==
  /\ \A i \in DOMAIN poolLog : PoolBudget(poolLog[i])
  /\ poolWork.pc \in {"load", "update"} =>
       /\ poolWork.pool \in Pools /\ poolWork.pool # NoPool
       /\ PoolBudget(poolWork.pool)

\* The controller's part of PoolTypeOK.
PoolVarsOK ==
  /\ poolLog \in Seq(Pools \cup {NoPool}) /\ poolLog # <<>>
  /\ poolQueued \in BOOLEAN /\ poolDelayed \in BOOLEAN
  /\ poolRequeues \in 0 .. MaxRetries
  /\ poolWork \in PoolWorks
  /\ observedGeneration \in Generations \cup {0}
  /\ poolEvents \in [Listeners -> Seq({"updated", "deleted"})]
  /\ poolLeft \in [ops : 0 .. MaxPoolOps, faults : 0 .. MaxPoolFaults, restarts : 0 .. MaxRestarts]

PoolInv == PoolVarsOK /\ PoolInFlight

LEMMA PoolTypes == PoolTypeOK <=> TypeOK /\ PoolVarsOK
  BY DEF PoolTypeOK, PoolVarsOK

LEMMA PoolVersions ==
  ASSUME PoolInv
  PROVE  /\ Len(poolLog) \in Nat \ {0} /\ DOMAIN poolLog = 1 .. Len(poolLog)
         /\ \A i \in 1 .. Len(poolLog) : poolLog[i] \in Pools \cup {NoPool} /\ PoolBudget(poolLog[i])
         /\ CachedPool = poolLog[1] /\ StoredPool = poolLog[Len(poolLog)]
         /\ CachedPool \in Pools \cup {NoPool} /\ PoolBudget(CachedPool)
         /\ StoredPool \in Pools \cup {NoPool} /\ PoolBudget(StoredPool)
<1>1. poolLog \in Seq(Pools \cup {NoPool}) /\ poolLog # <<>>
  BY DEF PoolInv, PoolVarsOK
<1>2. Len(poolLog) \in Nat \ {0} /\ DOMAIN poolLog = 1 .. Len(poolLog)
  BY <1>1, EmptySeq
<1>3. \A i \in 1 .. Len(poolLog) : poolLog[i] \in Pools \cup {NoPool} /\ PoolBudget(poolLog[i])
  BY <1>1, <1>2 DEF PoolInv, PoolInFlight
<1>4. CachedPool = poolLog[1] /\ StoredPool = poolLog[Len(poolLog)]
  BY <1>1, <1>2 DEF CachedPool, StoredPool, Last
<1> QED
  BY <1>2, <1>3, <1>4

LEMMA PoolNumbers ==
  ASSUME PoolInv
  PROVE  /\ MaxPoolOps \in Nat /\ poolLeft.ops \in 0 .. MaxPoolOps
         /\ \A v \in Pools : v.generation \in 1 .. MaxPoolOps + 1 /\ v.addresses \in Addresses
  BY PoolAssumption DEF PoolInv, PoolVarsOK, Pools, Generations

\* What may still happen, after an operation, a fault, and a restart.
LEMMA PoolOpCounted ==
  ASSUME PoolInv, poolLeft.ops > 0, poolLeft' = [poolLeft EXCEPT !.ops = @ - 1]
  PROVE  /\ poolLeft' \in [ops : 0 .. MaxPoolOps, faults : 0 .. MaxPoolFaults, restarts : 0 .. MaxRestarts]
         /\ poolLeft'.ops = poolLeft.ops - 1
<1>1. poolLeft \in [ops : 0 .. MaxPoolOps, faults : 0 .. MaxPoolFaults, restarts : 0 .. MaxRestarts]
  BY DEF PoolInv, PoolVarsOK
<1>2. poolLeft.ops - 1 \in 0 .. MaxPoolOps
  BY <1>1, PoolAssumption, OneLess
<1> QED
  BY <1>1, <1>2

LEMMA PoolFaultCounted ==
  ASSUME PoolInv, poolLeft.faults > 0, poolLeft' = [poolLeft EXCEPT !.faults = @ - 1]
  PROVE  /\ poolLeft' \in [ops : 0 .. MaxPoolOps, faults : 0 .. MaxPoolFaults, restarts : 0 .. MaxRestarts]
         /\ poolLeft'.ops = poolLeft.ops
<1>1. poolLeft \in [ops : 0 .. MaxPoolOps, faults : 0 .. MaxPoolFaults, restarts : 0 .. MaxRestarts]
  BY DEF PoolInv, PoolVarsOK
<1>2. poolLeft.faults - 1 \in 0 .. MaxPoolFaults
  BY <1>1, PoolAssumption, OneLess
<1> QED
  BY <1>1, <1>2

LEMMA PoolRestartCounted ==
  ASSUME PoolInv, poolLeft.restarts > 0, poolLeft' = [poolLeft EXCEPT !.restarts = @ - 1]
  PROVE  /\ poolLeft' \in [ops : 0 .. MaxPoolOps, faults : 0 .. MaxPoolFaults, restarts : 0 .. MaxRestarts]
         /\ poolLeft'.ops = poolLeft.ops
<1>1. poolLeft \in [ops : 0 .. MaxPoolOps, faults : 0 .. MaxPoolFaults, restarts : 0 .. MaxRestarts]
  BY DEF PoolInv, PoolVarsOK
<1>2. poolLeft.restarts - 1 \in 0 .. MaxRestarts
  BY <1>1, PoolAssumption, OneLess
<1> QED
  BY <1>1, <1>2
-----------------------------------------------------------------------------
(* Writes of the API server.                                               *)

LEMMA PoolWritten ==
  ASSUME PoolInv, NEW v \in Pools \cup {NoPool}, poolLog' = Append(poolLog, v),
         poolLeft'.ops \in Nat, poolLeft'.ops <= poolLeft.ops,
         v # NoPool => v.generation + poolLeft'.ops <= MaxPoolOps + 1
  PROVE  /\ poolLog' \in Seq(Pools \cup {NoPool}) /\ poolLog' # <<>>
         /\ \A i \in DOMAIN poolLog' : PoolBudget(poolLog[i])'
<1>1. /\ poolLog' \in Seq(Pools \cup {NoPool}) /\ poolLog' # <<>>
      /\ Len(poolLog') = Len(poolLog) + 1
      /\ \A i \in 1 .. Len(poolLog) : poolLog'[i] = poolLog[i]
      /\ poolLog'[Len(poolLog) + 1] = v
  BY AppendProperties DEF PoolInv, PoolVarsOK
<1>2. ASSUME NEW i \in DOMAIN poolLog'
      PROVE  PoolBudget(poolLog[i])'
  <2>1. i \in 1 .. Len(poolLog) + 1
    BY <1>1
  <2>2. CASE i = Len(poolLog) + 1
    BY <1>1, <2>2 DEF PoolBudget
  <2>3. CASE i \in 1 .. Len(poolLog)
    <3>1. poolLog[i] \in Pools \cup {NoPool} /\ PoolBudget(poolLog[i]) /\ poolLog'[i] = poolLog[i]
      BY <1>1, <2>3, PoolVersions
    <3>2. \A w \in Pools : w.generation \in Nat
      BY PoolNumbers
    <3> QED
      BY <3>1, <3>2, PoolNumbers DEF PoolBudget
  <2> QED
    BY <2>1, <2>2, <2>3, PoolVersions
<1> QED
  BY <1>1, <1>2

LEMMA PoolUserPreserves ==
  ASSUME PoolInv, PoolUser
  PROVE  PoolInv' /\ UNCHANGED allocVars
<1>1. /\ UNCHANGED <<poolQueueVars, observedGeneration, poolEvents, allocVars>>
      /\ poolLeft.ops > 0 /\ poolLeft' = [poolLeft EXCEPT !.ops = @ - 1]
  BY DEF PoolUser, PoolCreate, PoolEdit, PoolTouch, PoolDelete, UserPoolOp
<1>2. /\ poolLeft' \in [ops : 0 .. MaxPoolOps, faults : 0 .. MaxPoolFaults, restarts : 0 .. MaxRestarts]
      /\ poolLeft'.ops = poolLeft.ops - 1 /\ poolLeft'.ops \in Nat /\ poolLeft'.ops <= poolLeft.ops
  BY <1>1, PoolOpCounted, PoolNumbers
<1>3. \E v \in Pools \cup {NoPool} :
        StorePool(v) /\ (v # NoPool => v.generation + poolLeft'.ops <= MaxPoolOps + 1)
  <2>1. CASE PoolCreate
    <3>1. PICK a \in Addresses : StorePool([addresses |-> a, generation |-> 1, observed |-> 0])
      BY <2>1 DEF PoolCreate
    <3>2. [addresses |-> a, generation |-> 1, observed |-> 0] \in Pools
      BY PoolNumbers DEF Pools, Generations
    <3>3. 1 + poolLeft'.ops <= MaxPoolOps + 1
      BY <1>2, PoolNumbers
    <3> QED
      BY <3>1, <3>2, <3>3
  <2>2. CASE PoolEdit
    <3>1. PICK a \in Addresses :
            StorePool([StoredPool EXCEPT !.addresses = a, !.generation = @ + 1])
      BY <2>2 DEF PoolEdit
    <3> DEFINE v == [StoredPool EXCEPT !.addresses = a, !.generation = @ + 1]
    <3>2. StoredPool \in Pools /\ StoredPool.generation + poolLeft.ops <= MaxPoolOps + 1
      BY <2>2, PoolVersions DEF PoolEdit, PoolBudget
    <3>3. StoredPool.generation \in 1 .. MaxPoolOps + 1
      BY <3>2, PoolNumbers
    <3>4. v.generation = StoredPool.generation + 1
      BY <3>2 DEF Pools
    <3>5. StoredPool.generation + 1 \in 1 .. MaxPoolOps + 1
      BY <1>1, <3>2, <3>3, PoolNumbers
    <3>6. v \in Pools
      BY <3>2, <3>4, <3>5 DEF Pools, Generations
    <3>7. v.generation + poolLeft'.ops <= MaxPoolOps + 1
      BY <1>2, <3>2, <3>3, <3>4, PoolNumbers
    <3> QED
      BY <3>1, <3>6, <3>7
  <2>3. CASE PoolTouch
    <3>1. StorePool(StoredPool) /\ StoredPool \in Pools
          /\ StoredPool.generation + poolLeft.ops <= MaxPoolOps + 1
      BY <2>3, PoolVersions DEF PoolTouch, PoolBudget
    <3> QED
      BY <1>2, <3>1, PoolNumbers
  <2>4. CASE PoolDelete
    BY <2>4 DEF PoolDelete
  <2> QED
    BY <2>1, <2>2, <2>3, <2>4 DEF PoolUser
<1>4. PICK v \in Pools \cup {NoPool} :
        StorePool(v) /\ (v # NoPool => v.generation + poolLeft'.ops <= MaxPoolOps + 1)
  BY <1>3
<1>5. /\ poolLog' \in Seq(Pools \cup {NoPool}) /\ poolLog' # <<>>
      /\ \A i \in DOMAIN poolLog' : PoolBudget(poolLog[i])'
  BY <1>2, <1>4, PoolWritten DEF StorePool
<1>6. /\ poolWork' \in PoolWorks
      /\ poolWork'.pc = poolWork.pc /\ poolWork'.pool = poolWork.pool
  BY <1>4 DEF StorePool, PoolInv, PoolVarsOK, PoolWorks
<1>7. PoolVarsOK'
  BY <1>1, <1>2, <1>5, <1>6 DEF PoolInv, PoolVarsOK, poolQueueVars, Generations, Pools
<1>8. PoolInFlight'
  <2>1. ASSUME poolWork.pc \in {"load", "update"}
        PROVE  poolWork.pool \in Pools /\ poolWork.pool # NoPool /\ PoolBudget(poolWork.pool)'
    <3>1. poolWork.pool \in Pools /\ poolWork.pool # NoPool
          /\ poolWork.pool.generation + poolLeft.ops <= MaxPoolOps + 1
      BY <2>1 DEF PoolInv, PoolInFlight, PoolBudget
    <3> QED
      BY <1>2, <1>6, <3>1, PoolNumbers DEF PoolBudget
  <2> QED
    BY <1>5, <1>6, <2>1 DEF PoolInFlight
<1> QED
  BY <1>1, <1>7, <1>8 DEF PoolInv
-----------------------------------------------------------------------------
(* The informer and the queue.                                             *)

\* Whatever leaves the worker alone and only drops versions.
LEMMA PoolDropPreserves ==
  ASSUME PoolInv, poolLog' \in Seq(Pools \cup {NoPool}), poolLog' # <<>>,
         \A i \in DOMAIN poolLog' : \E j \in 1 .. Len(poolLog) : poolLog'[i] = poolLog[j],
         poolQueued' \in BOOLEAN, poolDelayed' \in BOOLEAN,
         UNCHANGED <<poolRequeues, poolWork, observedGeneration>>,
         poolEvents' \in [Listeners -> Seq({"updated", "deleted"})],
         poolLeft' \in [ops : 0 .. MaxPoolOps, faults : 0 .. MaxPoolFaults, restarts : 0 .. MaxRestarts],
         poolLeft'.ops <= poolLeft.ops
  PROVE  PoolInv'
<1>1. PoolVarsOK'
  BY DEF PoolInv, PoolVarsOK, Generations, Pools
<1>2. ASSUME NEW v \in Pools \cup {NoPool}, PoolBudget(v)
      PROVE  v # NoPool => v.generation + poolLeft'.ops <= MaxPoolOps + 1
  BY <1>2, PoolNumbers DEF PoolBudget
<1>3. \A i \in DOMAIN poolLog' : PoolBudget(poolLog[i])'
  BY <1>2, PoolVersions DEF PoolBudget
<1>4. poolWork.pc \in {"load", "update"} => PoolBudget(poolWork.pool)'
  BY <1>2 DEF PoolInv, PoolInFlight, PoolBudget
<1> QED
  BY <1>1, <1>3, <1>4 DEF PoolInv, PoolInFlight

LEMMA PoolNotices ==
  ASSUME PoolInv, NEW v
  PROVE  [kind \in Listeners |-> poolEvents[kind] \o Notices(v)] \in [Listeners -> Seq({"updated", "deleted"})]
<1> DEFINE Events == Seq({"updated", "deleted"})
<1>1. <<"updated">> \in Events /\ <<"deleted">> \in Events /\ <<>> \in Events
  OBVIOUS
<1>2. Notices(v) \in Events
  BY <1>1, Zenon DEF Notices
<1>3. \A kind \in Listeners : poolEvents[kind] \in Events
  BY DEF PoolInv, PoolVarsOK
<1>4. \A kind \in Listeners : poolEvents[kind] \o Notices(v) \in Events
  BY <1>2, <1>3, ConcatProperties
<1> QED
  BY <1>4

LEMMA PoolInformerPreserves ==
  ASSUME PoolInv, PoolInformer
  PROVE  PoolInv' /\ UNCHANGED <<poolWork, allocVars>>
<1>1. CASE PoolDeliver
  <2>1. /\ poolLog' = Tail(poolLog) /\ Len(poolLog) > 1 /\ PoolNotify(poolLog[2])
        /\ UNCHANGED poolLeft
    BY <1>1 DEF PoolDeliver
  <2>2. poolLog \in Seq(Pools \cup {NoPool}) /\ poolLog # <<>>
    BY DEF PoolInv, PoolVarsOK
  <2>3. poolLog' \in Seq(Pools \cup {NoPool}) /\ poolLog' # <<>>
    BY <2>1, <2>2, DeliveredLog
  <2>4. \A i \in DOMAIN poolLog' : i + 1 \in 1 .. Len(poolLog) /\ poolLog'[i] = poolLog[i + 1]
    BY <2>1, <2>2, PoolVersions
  <2>5. /\ poolQueued' \in BOOLEAN /\ poolDelayed' \in BOOLEAN
        /\ UNCHANGED <<poolRequeues, poolWork, observedGeneration, allocVars>>
        /\ poolEvents' \in [Listeners -> Seq({"updated", "deleted"})]
    BY <2>1, PoolNotices DEF PoolNotify, PoolInv, PoolVarsOK
  <2>6. /\ poolLeft' \in [ops : 0 .. MaxPoolOps, faults : 0 .. MaxPoolFaults, restarts : 0 .. MaxRestarts]
        /\ poolLeft'.ops <= poolLeft.ops
    BY <2>1, PoolNumbers DEF PoolInv, PoolVarsOK
  <2> QED
    BY <2>3, <2>4, <2>5, <2>6, PoolDropPreserves
<1>2. CASE PoolRelist
  <2>1. /\ poolLog' = <<StoredPool>>
        /\ PoolNotify(StoredPool) \/ UNCHANGED <<poolCtlVars, poolEvents, allocVars>>
        /\ poolLeft.faults > 0 /\ poolLeft' = [poolLeft EXCEPT !.faults = @ - 1]
    BY <1>2 DEF PoolRelist, PoolFault
  <2>2. /\ poolLeft' \in [ops : 0 .. MaxPoolOps, faults : 0 .. MaxPoolFaults, restarts : 0 .. MaxRestarts]
        /\ poolLeft'.ops = poolLeft.ops
    BY <2>1, PoolFaultCounted
  <2>3. poolLog' \in Seq(Pools \cup {NoPool}) /\ poolLog' # <<>>
    BY <2>1, PoolVersions
  <2>4. \A i \in DOMAIN poolLog' : poolLog'[i] = poolLog[Len(poolLog)]
    BY <2>1, PoolVersions
  <2>5. Len(poolLog) \in 1 .. Len(poolLog)
    BY PoolVersions
  <2>6. /\ poolQueued' \in BOOLEAN /\ poolDelayed' \in BOOLEAN
        /\ UNCHANGED <<poolRequeues, poolWork, observedGeneration, allocVars>>
        /\ poolEvents' \in [Listeners -> Seq({"updated", "deleted"})]
    BY <2>1, PoolNotices
    DEF PoolNotify, poolCtlVars, poolQueueVars, PoolInv, PoolVarsOK
  <2> QED
    BY <2>2, <2>3, <2>4, <2>5, <2>6, PoolDropPreserves, PoolNumbers
<1>3. CASE PoolResync
  <2>1. /\ poolLeft' \in [ops : 0 .. MaxPoolOps, faults : 0 .. MaxPoolFaults, restarts : 0 .. MaxRestarts]
        /\ poolLeft'.ops <= poolLeft.ops
    BY <1>3, PoolOpCounted, PoolNumbers DEF PoolResync
  <2>2. /\ PoolNotify(CachedPool) /\ poolLog' = poolLog
    BY <1>3 DEF PoolResync
  <2> QED
    BY <2>1, <2>2, PoolDropPreserves, PoolNotices, PoolVersions
    DEF PoolNotify, PoolInv, PoolVarsOK
<1> QED
  BY <1>1, <1>2, <1>3 DEF PoolInformer

LEMMA PoolRetryPreserves ==
  ASSUME PoolInv, PoolRetry
  PROVE  PoolInv' /\ UNCHANGED <<poolWork, allocVars>>
<1>1. poolLog' = poolLog /\ poolLeft' = poolLeft
  BY DEF PoolRetry
<1>2. \A i \in DOMAIN poolLog' : \E j \in 1 .. Len(poolLog) : poolLog'[i] = poolLog[j]
  BY <1>1, PoolVersions
<1>3. poolLeft'.ops <= poolLeft.ops
  BY <1>1, PoolNumbers
<1> QED
  BY <1>1, <1>2, <1>3, PoolDropPreserves DEF PoolRetry, PoolInv, PoolVarsOK
-----------------------------------------------------------------------------
(* The worker.                                                             *)

\* What a step of this controller is to the allocator.
PoolLoadCall == [PoolCall]_allocVars

LEMMA PoolIdleIsTyped == PoolIdle \in PoolWorks
  BY DEF PoolIdle, PoolWorks

LEMMA PoolEndPreserves ==
  ASSUME PoolInv, PoolDone \/ PoolFailed,
         poolLog' \in Seq(Pools \cup {NoPool}), poolLog' # <<>>,
         \A i \in DOMAIN poolLog' : PoolBudget(poolLog[i])',
         observedGeneration' \in Generations \cup {0}, UNCHANGED poolEvents,
         poolLeft' \in [ops : 0 .. MaxPoolOps, faults : 0 .. MaxPoolFaults, restarts : 0 .. MaxRestarts]
  PROVE  PoolInv' /\ poolWork'.pc = "idle"
<1>1. poolWork' = PoolIdle /\ poolQueued' = poolQueued /\ poolDelayed' \in BOOLEAN
  BY DEF PoolDone, PoolFailed, PoolInv, PoolVarsOK
<1>2. poolRequeues' \in 0 .. MaxRetries
  <2>1. MaxRetries \in Nat /\ poolRequeues \in 0 .. MaxRetries
    BY PoolAssumption DEF PoolInv, PoolVarsOK
  <2>2. \/ poolRequeues' = 0
        \/ poolRequeues < MaxRetries /\ poolRequeues' = poolRequeues + 1
    BY DEF PoolDone, PoolFailed
  <2> QED
    BY <2>1, <2>2
<1>3. PoolVarsOK'
  BY <1>1, <1>2, PoolIdleIsTyped DEF PoolInv, PoolVarsOK, Generations, Pools, PoolWorks
<1>4. PoolInFlight' /\ poolWork'.pc = "idle"
  BY <1>1 DEF PoolInFlight, PoolIdle
<1> QED
  BY <1>3, <1>4 DEF PoolInv

LEMMA PoolGetPreserves ==
  ASSUME PoolInv, PoolGet
  PROVE  PoolInv' /\ PoolLoadCall
<1>1. /\ UNCHANGED <<poolLog, poolEvents, poolLeft, allocVars>>
      /\ poolQueued' \in BOOLEAN /\ poolDelayed' = poolDelayed
  BY DEF PoolGet, PoolGoto
<1>2. poolRequeues' \in 0 .. MaxRetries
  BY PoolAssumption DEF PoolGet, PoolGoto, PoolInv, PoolVarsOK
<1>3. observedGeneration' \in Generations \cup {0}
  BY DEF PoolGet, PoolInv, PoolVarsOK
<1>4. \/ poolWork' = poolWork
      \/ \E pc \in {"release", "load"} :
           /\ poolWork' = [pc |-> pc, pool |-> CachedPool, fresh |-> Len(poolLog) = 1]
           /\ pc = "load" => CachedPool # NoPool
  BY DEF PoolGet, PoolGoto
<1>5. poolWork' \in PoolWorks
  <2>1. \A pc \in {"release", "load"}, v \in Pools \cup {NoPool}, fresh \in BOOLEAN :
          [pc |-> pc, pool |-> v, fresh |-> fresh] \in PoolWorks
    BY DEF PoolWorks
  <2>2. (Len(poolLog) = 1) \in BOOLEAN /\ poolWork \in PoolWorks
    BY DEF PoolInv, PoolVarsOK
  <2> QED
    BY <1>4, <2>1, <2>2, PoolVersions
<1>6. PoolVarsOK'
  BY <1>1, <1>2, <1>3, <1>5 DEF PoolInv, PoolVarsOK, Generations, Pools, PoolWorks
<1>7. \A i \in DOMAIN poolLog' : PoolBudget(poolLog[i])'
  BY <1>1 DEF PoolInv, PoolInFlight, PoolBudget
<1>8. poolWork'.pc \in {"load", "update"} =>
        poolWork'.pool \in Pools /\ poolWork'.pool # NoPool /\ PoolBudget(poolWork.pool)'
  <2>1. CASE poolWork' = poolWork
    BY <1>1, <2>1 DEF PoolInv, PoolInFlight, PoolBudget
  <2>2. ASSUME NEW pc \in {"release", "load"},
               poolWork' = [pc |-> pc, pool |-> CachedPool, fresh |-> Len(poolLog) = 1],
               pc = "load" => CachedPool # NoPool, poolWork'.pc \in {"load", "update"}
        PROVE  poolWork'.pool \in Pools /\ poolWork'.pool # NoPool /\ PoolBudget(poolWork.pool)'
    BY <1>1, <2>2, PoolVersions DEF PoolBudget
  <2> QED
    BY <1>4, <2>1, <2>2
<1> QED
  BY <1>1, <1>6, <1>7, <1>8 DEF PoolInv, PoolInFlight, Pools, Generations, PoolLoadCall

LEMMA PoolSameLog ==
  ASSUME PoolInv, UNCHANGED <<poolLog, poolLeft>>
  PROVE  /\ poolLog' \in Seq(Pools \cup {NoPool}) /\ poolLog' # <<>>
         /\ \A i \in DOMAIN poolLog' : PoolBudget(poolLog[i])'
         /\ poolLeft' \in [ops : 0 .. MaxPoolOps, faults : 0 .. MaxPoolFaults, restarts : 0 .. MaxRestarts]
  BY DEF PoolInv, PoolInFlight, PoolVarsOK, PoolBudget

LEMMA PoolReleasePreserves ==
  ASSUME PoolInv, PoolRelease
  PROVE  PoolInv' /\ PoolLoadCall
<1>1. UpdateIPPool(<<>>) /\ PoolDone /\ UNCHANGED <<poolLog, observedGeneration, poolEvents, poolLeft>>
  BY DEF PoolRelease
<1>2. PoolLoadCall
  BY <1>1, PoolAssumption DEF PoolLoadCall, PoolCall
<1>3. observedGeneration' \in Generations \cup {0}
  BY <1>1 DEF PoolInv, PoolVarsOK
<1> QED
  BY <1>1, <1>2, <1>3, PoolSameLog, PoolEndPreserves

LEMMA PoolLoadPreserves ==
  ASSUME PoolInv, PoolLoad
  PROVE  PoolInv' /\ PoolLoadCall
<1>1. /\ poolWork.pc = "load" /\ UpdateIPPool(poolWork.pool.addresses)
      /\ UNCHANGED <<poolLog, observedGeneration, poolEvents, poolLeft>>
  BY DEF PoolLoad
<1>2. poolWork.pool \in Pools
  BY <1>1 DEF PoolInv, PoolInFlight
<1>3. PoolLoadCall
  BY <1>1, <1>2, PoolNumbers DEF PoolLoadCall, PoolCall
<1>4. observedGeneration' \in Generations \cup {0}
  BY <1>1 DEF PoolInv, PoolVarsOK
<1>5. CASE PoolFailed
  BY <1>1, <1>3, <1>4, <1>5, PoolSameLog, PoolEndPreserves
<1>6. CASE poolWork' = [poolWork EXCEPT !.pc = "update"] /\ UNCHANGED poolQueueVars
  <2>1. /\ poolWork' \in PoolWorks
        /\ poolWork'.pool = poolWork.pool
    BY <1>6 DEF PoolInv, PoolVarsOK, PoolWorks
  <2>2. PoolVarsOK'
    BY <1>1, <1>4, <1>6, <2>1, PoolSameLog DEF PoolInv, PoolVarsOK, poolQueueVars
  <2>3. PoolBudget(poolWork.pool)' /\ poolWork.pool # NoPool
    BY <1>1, <2>1 DEF PoolInv, PoolInFlight, PoolBudget
  <2>4. PoolInFlight'
    BY <1>1, <1>2, <2>1, <2>3, PoolSameLog DEF PoolInFlight
  <2> QED
    BY <1>3, <2>2, <2>4 DEF PoolInv
<1> QED
  BY <1>5, <1>6 DEF PoolLoad

LEMMA PoolUpdateStatusPreserves ==
  ASSUME PoolInv, PoolUpdateStatus
  PROVE  PoolInv' /\ UNCHANGED allocVars
<1>1. poolWork.pc = "update" /\ (PoolDone \/ PoolFailed) /\ UNCHANGED <<poolEvents, allocVars>>
  BY DEF PoolUpdateStatus
<1>2. /\ poolWork.pool \in Pools /\ poolWork.pool.generation \in Generations
      /\ poolWork.pool.generation + poolLeft.ops <= MaxPoolOps + 1
  BY <1>1 DEF PoolInv, PoolInFlight, PoolBudget, Pools
<1>3. observedGeneration' \in Generations \cup {0}
  BY <1>2 DEF PoolUpdateStatus, PoolInv, PoolVarsOK
<1>4. /\ poolLeft' \in [ops : 0 .. MaxPoolOps, faults : 0 .. MaxPoolFaults, restarts : 0 .. MaxRestarts]
      /\ poolLeft'.ops = poolLeft.ops
  BY PoolAssumption DEF PoolUpdateStatus, PoolFault, PoolInv, PoolVarsOK
<1> DEFINE v == [poolWork.pool EXCEPT !.observed = poolWork.pool.generation]
<1>5. v \in Pools /\ v.generation = poolWork.pool.generation
  BY <1>2 DEF Pools
<1>6. poolLog' = poolLog \/ poolLog' = Append(poolLog, v)
  BY DEF PoolUpdateStatus, WriteObserved
<1>7. /\ poolLog' \in Seq(Pools \cup {NoPool}) /\ poolLog' # <<>>
      /\ \A i \in DOMAIN poolLog' : PoolBudget(poolLog[i])'
  <2>1. CASE poolLog' = poolLog
    BY <1>4, <2>1 DEF PoolInv, PoolVarsOK, PoolInFlight, PoolBudget
  <2>2. CASE poolLog' = Append(poolLog, v)
    <3>1. poolLeft'.ops \in Nat /\ poolLeft'.ops <= poolLeft.ops
      BY <1>4, PoolNumbers
    <3>2. v.generation + poolLeft'.ops <= MaxPoolOps + 1
      BY <1>2, <1>4, <1>5
    <3> HIDE DEF v
    <3> QED
      BY <1>5, <2>2, <3>1, <3>2, PoolWritten
  <2> QED
    BY <1>6, <2>1, <2>2
<1> QED
  BY <1>1, <1>3, <1>4, <1>7, PoolEndPreserves

LEMMA PoolNextPreserves ==
  ASSUME PoolInv, PoolNext
  PROVE  PoolInv' /\ PoolLoadCall
<1>1. CASE PoolUser \/ PoolInformer \/ PoolRetry
  BY <1>1, PoolUserPreserves, PoolInformerPreserves, PoolRetryPreserves DEF PoolLoadCall
<1>2. CASE PoolUpdateStatus
  BY <1>2, PoolUpdateStatusPreserves DEF PoolLoadCall
<1>3. CASE PoolGet \/ PoolRelease \/ PoolLoad
  BY <1>3, PoolGetPreserves, PoolReleasePreserves, PoolLoadPreserves
<1> QED
  BY <1>1, <1>2, <1>3 DEF PoolNext, PoolWorker

LEMMA PoolStartEvents ==
  ASSUME NEW v
  PROVE  [kind \in Listeners |-> StartNotices(v)] \in [Listeners -> Seq({"updated", "deleted"})]
<1> DEFINE Events == Seq({"updated", "deleted"})
<1>1. <<"updated">> \in Events /\ <<"deleted">> \in Events /\ <<>> \in Events
  OBVIOUS
<1>2. StartNotices(v) \in Events
  BY <1>1, Zenon DEF StartNotices, Notices
<1> QED
  BY <1>2

LEMMA PoolRestartPreserves ==
  ASSUME PoolInv, PoolRestart
  PROVE  PoolInv'
<1>1. /\ poolLog' = <<StoredPool>>
      /\ poolQueued' \in BOOLEAN /\ poolDelayed' = FALSE /\ poolRequeues' = 0
      /\ poolWork' = PoolIdle /\ observedGeneration' = 0
      /\ poolEvents' = [kind \in Listeners |-> StartNotices(StoredPool)]
  BY DEF PoolRestart
<1>2. /\ poolLeft' \in [ops : 0 .. MaxPoolOps, faults : 0 .. MaxPoolFaults, restarts : 0 .. MaxRestarts]
      /\ poolLeft'.ops = poolLeft.ops
  BY PoolRestartCounted DEF PoolRestart
<1>3. poolLog' \in Seq(Pools \cup {NoPool}) /\ poolLog' # <<>>
  BY <1>1, PoolVersions
<1>4. \A i \in DOMAIN poolLog' : PoolBudget(poolLog[i])'
  BY <1>1, <1>2, PoolVersions DEF PoolBudget
<1>5. poolEvents' \in [Listeners -> Seq({"updated", "deleted"})]
  BY <1>1, PoolStartEvents
<1>6. poolRequeues' \in 0 .. MaxRetries
  BY <1>1, PoolAssumption
<1>7. PoolVarsOK'
  BY <1>1, <1>2, <1>3, <1>5, <1>6, PoolIdleIsTyped
  DEF PoolVarsOK, Generations, Pools, PoolWorks
<1>8. PoolInFlight'
  BY <1>1, <1>4 DEF PoolInFlight, PoolIdle
<1> QED
  BY <1>7, <1>8 DEF PoolInv

LEMMA PoolInitInv == PoolInit => PoolInv
<1> SUFFICES ASSUME NEW v \in InitialPools, poolLog = <<v>>,
                    poolQueued = (v # NoPool), poolDelayed = FALSE, poolRequeues = 0,
                    poolWork = PoolIdle, observedGeneration = 0,
                    poolEvents = [kind \in Listeners |-> StartNotices(v)],
                    poolLeft = [ops |-> MaxPoolOps, faults |-> MaxPoolFaults, restarts |-> MaxRestarts]
             PROVE  PoolInv
  BY DEF PoolInit
<1>1. v \in Pools \cup {NoPool} /\ (v # NoPool => v.generation = 1)
  BY PoolAssumption DEF Pools, Generations
<1>2. poolLog \in Seq(Pools \cup {NoPool}) /\ poolLog # <<>>
  BY <1>1
<1>3. /\ poolQueued \in BOOLEAN /\ poolDelayed \in BOOLEAN
      /\ poolEvents \in [Listeners -> Seq({"updated", "deleted"})]
      /\ poolWork \in PoolWorks
  BY PoolStartEvents, PoolIdleIsTyped
<1>4. /\ poolLeft \in [ops : 0 .. MaxPoolOps, faults : 0 .. MaxPoolFaults, restarts : 0 .. MaxRestarts]
      /\ poolRequeues \in 0 .. MaxRetries
  BY PoolAssumption
<1>5. PoolVarsOK
  BY <1>2, <1>3, <1>4 DEF PoolVarsOK
<1>6. \A i \in DOMAIN poolLog : PoolBudget(poolLog[i])
  BY <1>1, PoolAssumption DEF PoolBudget
<1>7. PoolInFlight
  BY <1>6 DEF PoolInFlight, PoolIdle
<1> QED
  BY <1>5, <1>7 DEF PoolInv
-----------------------------------------------------------------------------
(* What the status announces is loaded.                                    *)

\* AnnouncedIsLoaded is inductive only together with what makes it so.  A copy
\* that is still fresh is all there is of the pool (FreshCopy), and is loaded
\* when its status is to be written (LoadedCopy).  A generation is announced by
\* that write alone, so no older version of an announced pool is left to be
\* delivered, and none is about to be loaded (AnnouncedIsAll).  And an edit of
\* the pool is not announced (ObservedBound).
FreshCopy ==
  (poolWork.fresh /\ poolWork.pc \in {"load", "update"}) => poolLog = <<poolWork.pool>>

LoadedCopy == poolWork.pc = "update" => nets = TargetNets(poolWork.pool.addresses)

AnnouncedIsAll ==
  (StoredPool # NoPool /\ Announced(StoredPool)) =>
    /\ \A i \in DOMAIN poolLog : poolLog[i] # NoPool /\ poolLog[i].addresses = StoredPool.addresses
    /\ poolWork.pc \in {"load", "update"} => poolWork.pool.addresses = StoredPool.addresses
    /\ poolWork.pc # "release"

ObservedBound == StoredPool # NoPool => StoredPool.observed <= StoredPool.generation

AnnouncedInv == FreshCopy /\ LoadedCopy /\ AnnouncedIsAll /\ ObservedBound /\ AnnouncedIsLoaded

\* The last version of a log that was written to, and the others.
LEMMA PoolAppended ==
  ASSUME PoolInv, NEW v \in Pools \cup {NoPool}, poolLog' = Append(poolLog, v)
  PROVE  /\ StoredPool' = v /\ DOMAIN poolLog' = 1 .. Len(poolLog) + 1
         /\ poolLog'[Len(poolLog) + 1] = v
         /\ \A i \in 1 .. Len(poolLog) : poolLog'[i] = poolLog[i]
<1>1. poolLog \in Seq(Pools \cup {NoPool}) /\ Len(poolLog) \in Nat
  BY DEF PoolInv, PoolVarsOK
<1>2. /\ Len(poolLog') = Len(poolLog) + 1
      /\ \A i \in 1 .. Len(poolLog) : poolLog'[i] = poolLog[i]
      /\ poolLog'[Len(poolLog) + 1] = v
      /\ poolLog' \in Seq(Pools \cup {NoPool})
  BY <1>1, AppendProperties
<1> QED
  BY <1>1, <1>2 DEF StoredPool, Last

\* A write by a user either leaves addresses and generations as they are, or
\* makes the stored version an unannounced one, or none.
LEMMA PoolUserAnnounced ==
  ASSUME PoolInv, AnnouncedInv, PoolUser
  PROVE  AnnouncedInv'
<1>1. PICK v \in Pools \cup {NoPool} :
        /\ StorePool(v)
        /\ \/ v = NoPool
           \/ v # NoPool /\ v.observed < v.generation
           \/ StoredPool # NoPool /\ v = StoredPool
  <2>1. CASE PoolCreate
    <3>1. PICK a \in Addresses : StorePool([addresses |-> a, generation |-> 1, observed |-> 0])
      BY <2>1 DEF PoolCreate
    <3> DEFINE v == [addresses |-> a, generation |-> 1, observed |-> 0]
    <3>2. v \in Pools /\ v.observed < v.generation
      BY PoolNumbers DEF Pools, Generations
    <3> QED
      BY <3>1, <3>2
  <2>2. CASE PoolEdit
    <3>1. PICK a \in Addresses :
            StorePool([StoredPool EXCEPT !.addresses = a, !.generation = @ + 1])
      BY <2>2 DEF PoolEdit
    <3> DEFINE v == [StoredPool EXCEPT !.addresses = a, !.generation = @ + 1]
    <3>2. StoredPool \in Pools /\ StoredPool # NoPool /\ poolLeft.ops > 0
          /\ StoredPool.generation + poolLeft.ops <= MaxPoolOps + 1
      BY <2>2, PoolVersions DEF PoolEdit, UserPoolOp, PoolBudget
    <3>3. StoredPool.generation \in 1 .. MaxPoolOps + 1
      BY <3>2, PoolNumbers
    <3>4. v.generation = StoredPool.generation + 1 /\ v.observed = StoredPool.observed
      BY <3>2 DEF Pools
    <3>5. v.generation \in 1 .. MaxPoolOps + 1
      BY <3>2, <3>3, <3>4, PoolNumbers
    <3>6. v \in Pools
      BY <3>2, <3>4, <3>5 DEF Pools, Generations
    <3>7. StoredPool.observed \in Nat /\ StoredPool.observed <= StoredPool.generation
      BY <3>2 DEF AnnouncedInv, ObservedBound, Pools, Generations
    <3>8. v.observed < v.generation
      BY <3>3, <3>4, <3>7, PoolNumbers
    <3> QED
      BY <3>1, <3>6, <3>8
  <2>3. CASE PoolTouch
    BY <2>3, PoolVersions DEF PoolTouch
  <2>4. CASE PoolDelete
    BY <2>4 DEF PoolDelete
  <2> QED
    BY <2>1, <2>2, <2>3, <2>4 DEF PoolUser
<1>2. /\ poolLog' = Append(poolLog, v)
      /\ poolWork'.fresh = FALSE /\ poolWork'.pc = poolWork.pc /\ poolWork'.pool = poolWork.pool
  BY <1>1 DEF StorePool, PoolInv, PoolVarsOK, PoolWorks
<1>3. /\ nets' = nets /\ poolLeft'.restarts = poolLeft.restarts
  BY DEF PoolUser, PoolCreate, PoolEdit, PoolTouch, PoolDelete, UserPoolOp, allocVars,
         PoolInv, PoolVarsOK
<1>4. FreshCopy' /\ LoadedCopy'
  BY <1>2, <1>3 DEF AnnouncedInv, FreshCopy, LoadedCopy, TargetNets
<1>5. CASE v = NoPool \/ (v # NoPool /\ v.observed < v.generation)
  <2>1. StoredPool' = v
    BY <1>2, PoolAppended
  <2>2. v # NoPool => v.observed \in Nat /\ v.generation \in Nat
    BY DEF Pools, Generations
  <2>3. ~(v # NoPool /\ Announced(v))
    BY <1>5, <2>2 DEF Announced
  <2>4. v # NoPool => v.observed <= v.generation
    BY <1>5, <2>2
  <2> QED
    BY <1>4, <2>1, <2>3, <2>4
    DEF AnnouncedInv, AnnouncedIsAll, AnnouncedIsLoaded, ObservedBound, Announced
<1>6. CASE StoredPool # NoPool /\ v = StoredPool
  <2>1. StoredPool' = StoredPool
    BY <1>2, <1>6, PoolAppended
  <2>2. AnnouncedIsLoaded' /\ ObservedBound'
    BY <1>3, <2>1 DEF AnnouncedInv, AnnouncedIsLoaded, ObservedBound, Announced, TargetNets
  <2>3. AnnouncedIsAll'
    BY <1>2, <1>6, <2>1, PoolAppended, PoolVersions DEF AnnouncedInv, AnnouncedIsAll, Announced
  <2> QED
    BY <1>4, <2>2, <2>3 DEF AnnouncedInv
<1> QED
  BY <1>1, <1>5, <1>6

\* The informer changes what is cached, not what is stored.
LEMMA PoolDropAnnounced ==
  ASSUME PoolInv, AnnouncedInv, UNCHANGED <<poolWork, nets>>, StoredPool' = StoredPool,
         poolLeft'.restarts = poolLeft.restarts,
         poolLog' = poolLog \/ Len(poolLog) # 1,
         \A i \in DOMAIN poolLog' : \E j \in 1 .. Len(poolLog) : poolLog'[i] = poolLog[j]
  PROVE  AnnouncedInv'
<1>1. FreshCopy'
  <2>1. \A v : Len(<<v>>) = 1
    OBVIOUS
  <2> QED
    BY <2>1 DEF AnnouncedInv, FreshCopy
<1>2. LoadedCopy'
  BY DEF AnnouncedInv, LoadedCopy, TargetNets
<1>3. AnnouncedIsAll'
  BY PoolVersions DEF AnnouncedInv, AnnouncedIsAll, Announced
<1>4. ObservedBound' /\ AnnouncedIsLoaded'
  BY DEF AnnouncedInv, ObservedBound, AnnouncedIsLoaded, Announced, TargetNets
<1> QED
  BY <1>1, <1>2, <1>3, <1>4 DEF AnnouncedInv

LEMMA PoolEventAnnounced ==
  ASSUME PoolInv, AnnouncedInv, PoolInformer \/ PoolRetry
  PROVE  AnnouncedInv'
<1>1. UNCHANGED <<poolWork, nets>>
  BY PoolInformerPreserves, PoolRetryPreserves DEF allocVars
<1>2. poolLeft'.restarts = poolLeft.restarts
  BY DEF PoolInformer, PoolDeliver, PoolRelist, PoolFault, PoolResync, PoolRetry, PoolInv, PoolVarsOK
<1>3. poolLog \in Seq(Pools \cup {NoPool}) /\ poolLog # <<>>
  BY DEF PoolInv, PoolVarsOK
<1>4. CASE PoolDeliver
  <2>1. poolLog' = Tail(poolLog) /\ Len(poolLog) > 1
    BY <1>4 DEF PoolDeliver
  <2>2. /\ Len(poolLog') = Len(poolLog) - 1
        /\ \A i \in DOMAIN poolLog' : i + 1 \in 1 .. Len(poolLog) /\ poolLog'[i] = poolLog[i + 1]
    BY <1>3, <2>1, PoolVersions
  <2>3. poolLog' \in Seq(Pools \cup {NoPool})
    BY <1>3, <2>1, DeliveredLog
  <2>4. Len(poolLog') \in DOMAIN poolLog'
    BY <2>1, <2>2, <2>3, PoolVersions
  <2>5. StoredPool' = StoredPool
    BY <2>2, <2>4, PoolVersions DEF StoredPool, Last
  <2>6. Len(poolLog) # 1
    BY <2>1, PoolVersions
  <2> QED
    BY <1>1, <1>2, <2>2, <2>5, <2>6, PoolDropAnnounced
<1>5. CASE PoolRelist
  <2>1. poolLog' = <<StoredPool>> /\ Len(poolLog) > 2
    BY <1>5 DEF PoolRelist
  <2>2. StoredPool' = StoredPool
    BY <2>1 DEF StoredPool, Last
  <2>3. \A i \in DOMAIN poolLog' : poolLog'[i] = poolLog[Len(poolLog)]
    BY <2>1, PoolVersions
  <2>4. Len(poolLog) \in 1 .. Len(poolLog) /\ Len(poolLog) # 1
    BY <2>1, PoolVersions
  <2> QED
    BY <1>1, <1>2, <2>2, <2>3, <2>4, PoolDropAnnounced
<1>6. CASE PoolResync \/ PoolRetry
  <2>1. poolLog' = poolLog
    BY <1>6 DEF PoolResync, PoolRetry
  <2>2. \A i \in DOMAIN poolLog' : \E j \in 1 .. Len(poolLog) : poolLog'[i] = poolLog[j]
    BY <2>1, PoolVersions
  <2>3. StoredPool' = StoredPool
    BY <2>1 DEF StoredPool
  <2> QED
    BY <1>1, <1>2, <2>1, <2>2, <2>3, PoolDropAnnounced
<1> QED
  BY <1>4, <1>5, <1>6 DEF PoolInformer

LEMMA PoolWorkerAnnounced ==
  ASSUME PoolInv, AnnouncedInv, PoolWorker
  PROVE  AnnouncedInv'
<1>1. CASE PoolGet
  <2>1. /\ UNCHANGED <<poolLog, poolLeft, nets>>
        /\ \/ poolWork' = poolWork
           \/ \E pc \in {"release", "load"} :
                /\ poolWork' = [pc |-> pc, pool |-> CachedPool, fresh |-> Len(poolLog) = 1]
                /\ pc = "release" <=> CachedPool = NoPool
    BY <1>1 DEF PoolGet, PoolGoto, allocVars
  <2>2. ObservedBound' /\ AnnouncedIsLoaded'
    BY <2>1 DEF AnnouncedInv, ObservedBound, AnnouncedIsLoaded, StoredPool, Announced, TargetNets
  <2>3. CASE poolWork' = poolWork
    BY <2>1, <2>2, <2>3
    DEF AnnouncedInv, FreshCopy, LoadedCopy, AnnouncedIsAll, StoredPool, Announced, TargetNets
  <2>4. ASSUME NEW pc \in {"release", "load"},
               poolWork' = [pc |-> pc, pool |-> CachedPool, fresh |-> Len(poolLog) = 1],
               pc = "release" <=> CachedPool = NoPool
        PROVE  AnnouncedInv'
    <3>1. FreshCopy'
      <4>1. Len(poolLog) = 1 => poolLog = <<poolLog[1]>>
        BY DEF PoolInv, PoolVarsOK
      <4> QED
        BY <2>1, <2>4, <4>1, PoolVersions DEF FreshCopy
    <3>2. LoadedCopy'
      BY <2>4 DEF LoadedCopy
    <3>3. AnnouncedIsAll'
      <4>1. CachedPool = poolLog[1] /\ 1 \in DOMAIN poolLog
        BY PoolVersions
      <4> QED
        BY <2>1, <2>4, <4>1 DEF AnnouncedInv, AnnouncedIsAll, StoredPool, Announced
    <3> QED
      BY <2>2, <3>1, <3>2, <3>3 DEF AnnouncedInv
  <2> QED
    BY <2>1, <2>3, <2>4
<1>2. CASE PoolRelease
  <2>1. /\ poolWork.pc = "release" /\ poolWork' = PoolIdle /\ UNCHANGED <<poolLog, poolLeft>>
    BY <1>2 DEF PoolRelease, PoolDone
  <2>2. ~(StoredPool # NoPool /\ Announced(StoredPool))
    BY <2>1 DEF AnnouncedInv, AnnouncedIsAll
  <2> QED
    BY <2>1, <2>2 DEF AnnouncedInv, FreshCopy, LoadedCopy, AnnouncedIsAll, ObservedBound,
                      AnnouncedIsLoaded, StoredPool, Announced, PoolIdle
<1>3. CASE PoolLoad
  <2>1. /\ poolWork.pc = "load" /\ UpdateIPPool(poolWork.pool.addresses)
        /\ UNCHANGED <<poolLog, poolLeft>>
    BY <1>3 DEF PoolLoad
  <2>2. ObservedBound'
    BY <2>1 DEF AnnouncedInv, ObservedBound, StoredPool
  <2>3. CASE Parses(poolWork.pool.addresses)
    <3>1. nets' = TargetNets(poolWork.pool.addresses)
      BY <2>1, <2>3 DEF UpdateIPPool
    <3>2. /\ poolWork'.pc = "update" /\ poolWork'.pool = poolWork.pool
          /\ poolWork'.fresh = poolWork.fresh
      BY <1>3, <2>3 DEF PoolLoad, PoolInv, PoolVarsOK, PoolWorks
    <3> QED
      BY <2>1, <2>2, <3>1, <3>2
      DEF AnnouncedInv, FreshCopy, LoadedCopy, AnnouncedIsAll, AnnouncedIsLoaded, StoredPool,
          Announced, TargetNets
  <2>4. CASE ~Parses(poolWork.pool.addresses)
    <3>1. nets' = nets /\ poolWork' = PoolIdle
      BY <1>3, <2>1, <2>4 DEF UpdateIPPool, PoolLoad, PoolFailed, allocVars
    <3> QED
      BY <2>1, <2>2, <3>1
      DEF AnnouncedInv, FreshCopy, LoadedCopy, AnnouncedIsAll, AnnouncedIsLoaded, StoredPool,
          Announced, TargetNets, PoolIdle
  <2> QED
    BY <2>3, <2>4
<1>4. CASE PoolUpdateStatus
  <2>1. /\ poolWork.pc = "update" /\ poolWork' = PoolIdle /\ nets' = nets
        /\ poolWork.pool \in Pools
    BY <1>4 DEF PoolUpdateStatus, PoolDone, PoolFailed, allocVars, PoolInv, PoolInFlight
  <2>2. poolLeft'.restarts = poolLeft.restarts
    BY <1>4 DEF PoolUpdateStatus, PoolFault, PoolInv, PoolVarsOK
  <2>3. FreshCopy' /\ LoadedCopy'
    BY <2>1 DEF FreshCopy, LoadedCopy, PoolIdle
  <2> DEFINE v == [poolWork.pool EXCEPT !.observed = poolWork.pool.generation]
  <2>4. CASE poolLog' = poolLog
    BY <2>1, <2>2, <2>3, <2>4
    DEF AnnouncedInv, AnnouncedIsAll, ObservedBound, AnnouncedIsLoaded, StoredPool,
        Announced, TargetNets, PoolIdle
  <2>5. CASE poolWork.fresh /\ poolLog' = Append(poolLog, v)
    <3>1. poolLog = <<poolWork.pool>> /\ poolWork.pool # NoPool
      BY <2>1, <2>5 DEF AnnouncedInv, FreshCopy, PoolInv, PoolInFlight
    <3>2. /\ v \in Pools /\ v.generation = poolWork.pool.generation
          /\ v.observed = v.generation /\ v.addresses = poolWork.pool.addresses
          /\ v.generation \in Nat
      BY <2>1 DEF Pools, Generations
    <3> HIDE DEF v
    <3>3. StoredPool' = v
      BY <2>5, <3>2, PoolAppended
    <3>4. /\ DOMAIN poolLog' = {1, 2}
          /\ poolLog'[1] = poolWork.pool /\ poolLog'[2] = v
      <4>1. Len(poolLog) = 1 /\ poolLog[1] = poolWork.pool
        BY <3>1
      <4>2. 1 .. 1 + 1 = {1, 2} /\ 1 \in 1 .. 1
        OBVIOUS
      <4> QED
        BY <2>5, <3>2, <4>1, <4>2, PoolAppended
    <3>5. nets' = TargetNets(v.addresses)
      BY <2>1, <3>2 DEF AnnouncedInv, LoadedCopy
    <3>6. AnnouncedIsLoaded' /\ ObservedBound'
      BY <3>2, <3>3, <3>5 DEF AnnouncedIsLoaded, ObservedBound, TargetNets
    <3>7. \A i \in DOMAIN poolLog' :
            \/ poolLog'[i] # NoPool /\ poolLog'[i].addresses = v.addresses
            \/ v = NoPool
      BY <3>1, <3>2, <3>4
    <3>8. AnnouncedIsAll'
      BY <2>1, <3>3, <3>7 DEF AnnouncedIsAll, PoolIdle
    <3> QED
      BY <2>3, <3>6, <3>8 DEF AnnouncedInv
  <2>6. poolLog' = poolLog \/ (poolWork.fresh /\ poolLog' = Append(poolLog, v))
    BY <1>4 DEF PoolUpdateStatus, WriteObserved
  <2> QED
    BY <2>4, <2>5, <2>6
<1> QED
  BY <1>1, <1>2, <1>3, <1>4 DEF PoolWorker

LEMMA PoolNextAnnounced ==
  ASSUME PoolInv, AnnouncedInv, PoolNext
  PROVE  AnnouncedInv'
  BY PoolUserAnnounced, PoolEventAnnounced, PoolWorkerAnnounced DEF PoolNext

LEMMA PoolRestartAnnounced ==
  ASSUME PoolInv, AnnouncedInv, PoolRestart
  PROVE  AnnouncedInv'
<1>1. poolLog' = <<StoredPool>> /\ poolWork' = PoolIdle
  BY DEF PoolRestart
<1>2. StoredPool' = StoredPool
  BY <1>1 DEF StoredPool, Last
<1>3. poolLeft'.restarts # MaxRestarts
  BY PoolAssumption DEF PoolRestart, PoolInv, PoolVarsOK
<1>4. ObservedBound' /\ AnnouncedIsLoaded'
  BY <1>2, <1>3 DEF AnnouncedInv, ObservedBound, AnnouncedIsLoaded
<1>5. FreshCopy' /\ LoadedCopy' /\ AnnouncedIsAll'
  BY <1>1, <1>2 DEF FreshCopy, LoadedCopy, AnnouncedIsAll, PoolIdle
<1> QED
  BY <1>4, <1>5 DEF AnnouncedInv

\* A process that finds a pool it has not loaded must not find it announced.
LEMMA PoolInitAnnounced ==
  ASSUME \A v \in InitialPools : v # NoPool => ~Announced(v), PoolInit
  PROVE  AnnouncedInv
<1>1. PICK v \in InitialPools : poolLog = <<v>> /\ poolWork = PoolIdle
  BY DEF PoolInit
<1>2. StoredPool = v
  BY <1>1 DEF StoredPool, Last
<1>3. v # NoPool => v.observed <= v.generation
  BY PoolAssumption
<1> QED
  BY <1>1, <1>2, <1>3
  DEF AnnouncedInv, FreshCopy, LoadedCopy, AnnouncedIsAll, ObservedBound, AnnouncedIsLoaded, PoolIdle

-----------------------------------------------------------------------------
(* A deleted pool is released.                                             *)

\* While the cache says that there is no pool, either the key is still to be
\* handled, or it has been, and no load of an older version came after: a load
\* that was under way when the deletion was delivered finds the key queued.
ReleasedInv ==
  CachedPool = NoPool =>
    \/ poolQueued
    \/ poolWork.pc = "release"
    \/ poolWork.pc = "idle" /\ nets = <<>>

\* A user's write changes neither the cache nor what is to be done.
LEMMA PoolUserReleased ==
  ASSUME PoolInv, ReleasedInv, PoolUser
  PROVE  ReleasedInv'
<1>1. poolQueued' = poolQueued /\ nets' = nets
  BY DEF PoolUser, PoolCreate, PoolEdit, PoolTouch, PoolDelete, UserPoolOp, poolQueueVars, allocVars
<1>2. \E v : StorePool(v)
  BY Zenon DEF PoolUser, PoolCreate, PoolEdit, PoolTouch, PoolDelete
<1>3. PICK v : poolLog' = Append(poolLog, v) /\ poolWork' = [poolWork EXCEPT !.fresh = FALSE]
  BY <1>2 DEF StorePool
<1>4. poolLog \in Seq(Pools \cup {NoPool}) /\ poolLog # <<>> /\ poolWork \in PoolWorks
  BY DEF PoolInv, PoolVarsOK
<1>5. CachedPool' = CachedPool
  BY <1>3, <1>4, WrittenHead DEF CachedPool
<1>6. poolWork'.pc = poolWork.pc
  BY <1>3, <1>4 DEF PoolWorks
<1> QED
  BY <1>1, <1>5, <1>6 DEF ReleasedInv

LEMMA PoolEventReleased ==
  ASSUME PoolInv, ReleasedInv, PoolInformer \/ PoolRetry
  PROVE  ReleasedInv'
<1>1. CASE poolQueued'
  BY <1>1 DEF ReleasedInv
<1>2. CASE ~poolQueued'
  <2>1. /\ CachedPool = NoPool /\ StoredPool = NoPool /\ poolLog' = <<StoredPool>>
        /\ UNCHANGED <<poolCtlVars, poolEvents, allocVars>>
    BY <1>2 DEF PoolInformer, PoolDeliver, PoolRelist, PoolResync, PoolRetry, PoolNotify
  <2> QED
    BY <2>1 DEF ReleasedInv, poolCtlVars, poolQueueVars, allocVars
<1> QED
  BY <1>1, <1>2

LEMMA PoolWorkerReleased ==
  ASSUME PoolInv, ReleasedInv, PoolWorker
  PROVE  ReleasedInv'
<1>1. CASE PoolGet
  <2>1. CachedPool' = CachedPool
    BY <1>1 DEF PoolGet, CachedPool
  <2>2. CachedPool = NoPool => poolWork'.pc = "release"
    BY <1>1 DEF PoolGet, PoolGoto
  <2> QED
    BY <2>1, <2>2 DEF ReleasedInv
<1>2. CASE PoolRelease
  <2>1. Parses(<<>>) /\ TargetNets(<<>>) = <<>>
    BY DEF Parses, TargetNets
  <2>2. nets' = <<>>
    BY <1>2, <2>1 DEF PoolRelease, UpdateIPPool
  <2>3. poolWork'.pc = "idle"
    BY <1>2 DEF PoolRelease, PoolDone, PoolIdle
  <2> QED
    BY <2>2, <2>3 DEF ReleasedInv
<1>3. CASE PoolLoad \/ PoolUpdateStatus
  <2>1. poolWork.pc \in {"load", "update"} /\ poolQueued' = poolQueued
    BY <1>3 DEF PoolLoad, PoolUpdateStatus, PoolDone, PoolFailed, poolQueueVars
  <2>2. CachedPool' = CachedPool
    <3>1. poolLog' = poolLog \/ \E v : poolLog' = Append(poolLog, v)
      BY <1>3 DEF PoolLoad, PoolUpdateStatus, WriteObserved
    <3>2. poolLog \in Seq(Pools \cup {NoPool}) /\ poolLog # <<>>
      BY DEF PoolInv, PoolVarsOK
    <3> QED
      BY <3>1, <3>2, WrittenHead DEF CachedPool
  <2> QED
    BY <2>1, <2>2 DEF ReleasedInv
<1> QED
  BY <1>1, <1>2, <1>3 DEF PoolWorker

LEMMA PoolNextReleased ==
  ASSUME PoolInv, ReleasedInv, PoolNext
  PROVE  ReleasedInv'
  BY PoolUserReleased, PoolEventReleased, PoolWorkerReleased DEF PoolNext

LEMMA PoolRestartReleased ==
  ASSUME PoolRestart, Crash
  PROVE  ReleasedInv'
  BY DEF PoolRestart, Crash, PoolIdle, ReleasedInv

LEMMA PoolInitReleased == Init /\ PoolInit => ReleasedInv
<1> SUFFICES ASSUME Init, PoolInit
             PROVE  ReleasedInv
  OBVIOUS
<1>1. poolWork.pc = "idle" /\ nets = <<>>
  BY DEF Init, PoolInit, PoolIdle
<1> QED
  BY <1>1 DEF ReleasedInv

\* At rest, what is cached is what is stored.
LEMMA ReleasedInvSuffices ==
  ASSUME PoolInv, ReleasedInv
  PROVE  ReleasedWhenGone
<1>1. PoolSettled => CachedPool = StoredPool
  BY PoolVersions DEF PoolSettled
<1> QED
  BY <1>1 DEF ReleasedWhenGone, ReleasedInv, PoolSettled

-----------------------------------------------------------------------------
(* PoolSpec.                                                               *)

LEMMA PoolStepPreserves ==
  ASSUME IInv, PoolInv, [PoolNext \/ (PoolRestart /\ Crash)]_poolAllVars
  PROVE  IInv' /\ PoolInv' /\ (AnnouncedInv => AnnouncedInv')
<1>1. CASE PoolNext
  <2>1. PoolInv' /\ PoolLoadCall
    BY <1>1, PoolNextPreserves
  <2>2. [Next]_allocVars
    BY <2>1 DEF PoolLoadCall, Next
  <2> QED
    BY <1>1, <2>1, <2>2, NextPreserves, PoolNextAnnounced
<1>2. CASE PoolRestart /\ Crash
  BY <1>2, CrashPreserves, PoolRestartPreserves, PoolRestartAnnounced
<1>3. CASE UNCHANGED poolAllVars
  BY <1>3 DEF poolAllVars, poolVars, poolCtlVars, poolQueueVars, allocVars, IInv, TypeOK,
              UsedByOwner, ExclusiveLease, PoolInv, PoolVarsOK, PoolInFlight, PoolBudget,
              AnnouncedInv, FreshCopy, LoadedCopy, AnnouncedIsAll, ObservedBound,
              AnnouncedIsLoaded, StoredPool, Announced, TargetNets
<1> QED
  BY <1>1, <1>2, <1>3

\* The pool controller's state, and the allocator's, hold what their types say.
THEOREM PoolTypeCorrect == PoolSpec => []PoolTypeOK
<1>1. Init /\ PoolInit => IInv /\ PoolInv
  BY InitIInv, PoolInitInv
<1>2. (IInv /\ PoolInv) /\ [PoolNext \/ (PoolRestart /\ Crash)]_poolAllVars => (IInv /\ PoolInv)'
  BY PoolStepPreserves
<1>3. IInv /\ PoolInv => PoolTypeOK
  BY PoolTypes DEF IInv, PoolInv
<1> QED
  BY <1>1, <1>2, <1>3, PTL DEF PoolSpec

\* What the status announces is what the allocator serves, until the process is
\* restarted, provided it did not find an announced pool when it started.
THEOREM AnnouncedPoolIsLoaded ==
  ASSUME \A v \in InitialPools : v # NoPool => ~Announced(v)
  PROVE  PoolSpec => []AnnouncedIsLoaded
<1>1. Init /\ PoolInit => IInv /\ PoolInv /\ AnnouncedInv
  BY InitIInv, PoolInitInv, PoolInitAnnounced
<1>2. /\ IInv /\ PoolInv /\ AnnouncedInv
      /\ [PoolNext \/ (PoolRestart /\ Crash)]_poolAllVars
      => (IInv /\ PoolInv /\ AnnouncedInv)'
  BY PoolStepPreserves
<1>3. IInv /\ PoolInv /\ AnnouncedInv => AnnouncedIsLoaded
  BY DEF AnnouncedInv
<1> QED
  BY <1>1, <1>2, <1>3, PTL DEF PoolSpec

\* A deleted pool does not stay in the allocator, whatever load was under way or
\* waiting for its retry, and over lost watches and restarts.
THEOREM DeletedPoolIsReleased == PoolSpec => []ReleasedWhenGone
<1>1. Init /\ PoolInit => IInv /\ PoolInv /\ ReleasedInv
  BY InitIInv, PoolInitInv, PoolInitReleased
<1>2. /\ IInv /\ PoolInv /\ ReleasedInv
      /\ [PoolNext \/ (PoolRestart /\ Crash)]_poolAllVars
      => (IInv /\ PoolInv /\ ReleasedInv)'
  <2> SUFFICES ASSUME IInv, PoolInv, ReleasedInv, [PoolNext \/ (PoolRestart /\ Crash)]_poolAllVars
               PROVE  ReleasedInv'
    BY PoolStepPreserves
  <2>1. CASE UNCHANGED poolAllVars
    BY <2>1 DEF poolAllVars, poolVars, poolCtlVars, poolQueueVars, allocVars, ReleasedInv, CachedPool
  <2> QED
    BY <2>1, PoolNextReleased, PoolRestartReleased
<1> QED
  BY <1>1, <1>2, ReleasedInvSuffices, PTL DEF PoolSpec
=============================================================================
