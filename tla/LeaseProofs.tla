----------------------------- MODULE LeaseProofs -----------------------------
(***************************************************************************)
(* When the process gives a lease up, for any objects, addresses and       *)
(* bounds: a deleted object's lease is released, whatever its key was      *)
(* doing when it was deleted, and no sync takes an IP of the pool from an  *)
(* object that shows it and is content with it.                            *)
(***************************************************************************)
EXTENDS StoneLBProofs

\* Specs spell their IPs as net.IP prints them, or not as IPs at all.
PlainStrings == \A s \in IPStrings : Canonical[s] \in {s, NoIP}

\* A key of a deleted object is queued or being released, unless it holds
\* nothing and no sync of an older version can give it something.
SvcReleased ==
  \A k \in SvcKeys : CachedService(k) = NoService =>
    \/ k \in svcQueued
    \/ svcWork.key = k /\ svcWork.pc = "deleted"
    \/ svcWork.key # k /\ allocated[Service(k)] = NoIP

FipReleased ==
  \A k \in FipKeys : CachedFloatingIP(k) = NoFloatingIP =>
    \/ k \in fipQueued
    \/ fipWork.key = k /\ fipWork.pc = "deleted"
    \/ fipWork.key # k /\ allocated[FloatingIP(k)] = NoIP

\* A worker about to free an IP does so for an object that is gone, or not
\* content, or has lost the IP already, or whose IP has left the pool.
SvcGivesUp ==
  /\ svcWork.pc = "deleted" => svcWork.svc = NoService
  /\ svcWork.pc = "strip" => ~svcWork.svc.lb
  /\ svcWork.pc = "reclaim" => /\ svcWork.svc.status \in IPs
                               /\ checked[SvcOwner] = svcWork.svc.status
  /\ svcWork.pc = "clear" =>
       \A ip \in IPs : SvcContent(svcWork.key, ip) => ~ContainsIP(ip) \/ allocated[SvcOwner] # ip
  /\ svcWork.pc = "commit" => /\ svcWork.svc.want \in IPStrings
                              /\ checked[SvcOwner] = Canonical[svcWork.svc.want]
  /\ svcWork.pc = "giveup" => allocated[SvcOwner] = NoIP

FipGivesUp ==
  /\ fipWork.pc = "deleted" => fipWork.fip = NoFloatingIP
  /\ fipWork.pc = "reclaim" => /\ fipWork.fip.status \in IPs
                               /\ checked[FipOwner] = fipWork.fip.status
  /\ fipWork.pc = "clear" =>
       \A ip \in IPs : FipContent(fipWork.key, ip) => ~ContainsIP(ip) \/ allocated[FipOwner] # ip
  /\ fipWork.pc = "commit" => /\ fipWork.fip.want \in IPStrings
                              /\ checked[FipOwner] = Canonical[fipWork.fip.want]
  /\ fipWork.pc = "giveup" => allocated[FipOwner] = NoIP

LEMMA NoKeyIsNone == NoKey \notin SvcKeys /\ NoKey \notin FipKeys
  BY SvcAssumption, FipAssumption, KeyAssumption
-----------------------------------------------------------------------------
(* Calls of the allocator are for one owner at a time.                     *)

CallFor(o) ==
  \/ AllocateIP(o) \/ AllocateFromPool(o) \/ Free(o)
  \/ \E s \in IPStrings : CheckDesiredIP(o, s)

LEMMA OthersUntouched ==
  ASSUME IInv, NEW o \in Owners, CallFor(o)
  PROVE  /\ \A p \in Owners \ {o} : allocated'[p] = allocated[p] /\ checked'[p] = checked[p]
         /\ nets' = nets
<1>1. allocated \in [Owners -> IPs \cup {NoIP}] /\ checked \in [Owners -> IPs \cup {NoIP}]
  BY DEF IInv, TypeOK
<1>2. (\E ip : allocated' = [allocated EXCEPT ![o] = ip]) \/ allocated' = allocated
  BY DEF CallFor, AllocateIP, AllocateFromPool, Free, CheckDesiredIP, Lease
<1>3. (\E ip : checked' = [checked EXCEPT ![o] = ip]) \/ checked' = checked
  BY DEF CallFor, AllocateIP, AllocateFromPool, Free, CheckDesiredIP
<1>4. nets' = nets
  BY DEF CallFor, AllocateIP, AllocateFromPool, Free, CheckDesiredIP
<1> QED
  BY <1>1, <1>2, <1>3, <1>4

LEMMA SvcWorkerCalls ==
  ASSUME SvcInv, SvcWorker
  PROVE  UNCHANGED allocVars \/ (svcWork.pc # "idle" /\ CallFor(SvcOwner))
<1>1. CASE \E k \in SvcKeys : SvcGet(k)
  BY <1>1 DEF SvcGet
<1>2. CASE SvcFreeDeleted \/ SvcStrip \/ SvcClear \/ SvcGiveUp
  BY <1>2 DEF SvcFreeDeleted, SvcStrip, SvcClear, SvcGiveUp, FreeService, SvcOwner, CallFor
<1>3. CASE SvcReclaim \/ SvcCommit
  BY <1>3 DEF SvcReclaim, SvcCommit, AllocateServiceIP, SvcOwner, CallFor
<1>4. CASE SvcRecheck
  <2>1. svcWork.pc = "recheck" /\ svcWork.svc.status \in IPStrings
    BY <1>4, IPAssumption DEF SvcRecheck, SvcInv, SvcInFlight
  <2> QED
    BY <1>4, <2>1 DEF SvcRecheck, CallFor
<1>5. CASE SvcAllocate
  <2>1. svcWork.pc = "allocate" /\ svcWork.svc.want \in IPStrings \cup {NoIP}
    BY <1>5 DEF SvcAllocate, SvcInv, SvcInFlight, Services
  <2> QED
    BY <1>5, <2>1 DEF SvcAllocate, CallFor, AllocateServiceIPFromPool, SvcOwner
<1>6. CASE SvcUpdateStatus
  BY <1>6 DEF SvcUpdateStatus
<1> QED
  BY <1>1, <1>2, <1>3, <1>4, <1>5, <1>6 DEF SvcWorker

LEMMA FipWorkerCalls ==
  ASSUME FipInv, FipWorker
  PROVE  UNCHANGED allocVars \/ (fipWork.pc # "idle" /\ CallFor(FipOwner))
<1>1. CASE \E k \in FipKeys : FipGet(k)
  BY <1>1 DEF FipGet
<1>2. CASE FipFreeDeleted \/ FipClear \/ FipGiveUp
  BY <1>2 DEF FipFreeDeleted, FipClear, FipGiveUp, FreeFloatingIP, FipOwner, CallFor
<1>3. CASE FipReclaim \/ FipCommit
  BY <1>3 DEF FipReclaim, FipCommit, AllocateFloatingIP, FipOwner, CallFor
<1>4. CASE FipRecheck
  <2>1. fipWork.pc = "recheck" /\ fipWork.fip.status \in IPStrings
    BY <1>4, IPAssumption DEF FipRecheck, FipInv, FipInFlight
  <2> QED
    BY <1>4, <2>1 DEF FipRecheck, CallFor
<1>5. CASE FipAllocate
  <2>1. fipWork.pc = "allocate" /\ fipWork.fip.want \in IPStrings \cup {NoIP}
    BY <1>5 DEF FipAllocate, FipInv, FipInFlight, FloatingIPs
  <2> QED
    BY <1>5, <2>1 DEF FipAllocate, CallFor, AllocateFloatingIPFromPool, FipOwner
<1>6. CASE FipUpdateStatus
  BY <1>6 DEF FipUpdateStatus
<1> QED
  BY <1>1, <1>2, <1>3, <1>4, <1>5, <1>6 DEF FipWorker
-----------------------------------------------------------------------------
(* Services: a deleted one holds nothing once its key has been handled.    *)

LEMMA SvcCacheKept ==
  ASSUME SvcInv, NEW k \in SvcKeys,
         \/ UNCHANGED svcLog
         \/ \E j \in SvcKeys : \E v : svcLog' = [svcLog EXCEPT ![j] = Append(@, v)]
  PROVE  CachedService(k)' = CachedService(k)
<1>1. svcLog \in [SvcKeys -> Seq(Services \cup {NoService})] /\ svcLog[k] # <<>>
  BY DEF SvcInv, SvcTypeOK
<1>2. CASE UNCHANGED svcLog
  BY <1>2 DEF CachedService
<1>3. ASSUME NEW j \in SvcKeys, NEW v, svcLog' = [svcLog EXCEPT ![j] = Append(@, v)]
      PROVE  CachedService(k)' = CachedService(k)
  <2>1. Head(Append(svcLog[k], v)) = Head(svcLog[k])
    BY <1>1, WrittenHead
  <2> QED
    BY <1>1, <1>3, <2>1 DEF CachedService
<1> QED
  BY <1>2, <1>3

\* A step of the worker that is not its first leaves the queue and the cache.
LEMMA SvcWorkerMoves ==
  ASSUME SvcInv, SvcWorker, \A k \in SvcKeys : ~SvcGet(k)
  PROVE  /\ svcWork.pc # "idle" /\ svcQueued' = svcQueued
         /\ svcWork'.key \in {svcWork.key, NoKey}
         /\ \A k \in SvcKeys : CachedService(k)' = CachedService(k)
         /\ svcWork.pc = "deleted" => FreeService(svcWork.key) /\ svcWork'.key = NoKey
<1>1. SvcFreeDeleted \/ SvcStrip \/ SvcRecheck \/ SvcReclaim \/ SvcClear \/ SvcAllocate \/ SvcCommit \/ SvcGiveUp \/ SvcUpdateStatus
  BY DEF SvcWorker
<1>2. svcWork.pc # "idle" /\ (svcWork.pc = "deleted" => SvcFreeDeleted)
  BY <1>1 DEF SvcFreeDeleted, SvcStrip, SvcRecheck, SvcReclaim, SvcClear, SvcAllocate, SvcCommit, SvcGiveUp, SvcUpdateStatus
<1>3. \/ SvcDone \/ SvcFailed
      \/ \E pc : SvcGoto(pc)
      \/ \E status : SvcSettle(status)
  BY <1>1, Zenon DEF SvcFreeDeleted, SvcStrip, SvcRecheck, SvcReclaim, SvcClear, SvcAllocate, SvcCommit, SvcGiveUp, SvcUpdateStatus
<1>4. svcQueued' = svcQueued /\ svcWork'.key \in {svcWork.key, NoKey}
  <2>1. CASE SvcDone \/ SvcFailed
    BY <2>1 DEF SvcDone, SvcFailed, SvcIdle
  <2>2. ASSUME NEW pc, SvcGoto(pc)
        PROVE  svcQueued' = svcQueued /\ svcWork'.key \in {svcWork.key, NoKey}
    BY <2>2 DEF SvcGoto, svcQueueVars, SvcInv, SvcTypeOK
  <2>3. ASSUME NEW status, SvcSettle(status)
        PROVE  svcQueued' = svcQueued /\ svcWork'.key \in {svcWork.key, NoKey}
    <3>1. CASE SvcDone
      BY <2>1, <3>1
    <3>2. CASE svcWork' = [svcWork EXCEPT !.pc = "update", !.status = status] /\ UNCHANGED svcQueueVars
      BY <3>2 DEF svcQueueVars, SvcInv, SvcTypeOK
    <3> QED
      BY <2>3, <3>1, <3>2 DEF SvcSettle
  <2> QED
    BY <1>3, <2>1, <2>2, <2>3
<1>5. ASSUME NEW k \in SvcKeys
      PROVE  CachedService(k)' = CachedService(k)
  <2>1. CASE UNCHANGED svcLog
    BY <2>1, SvcCacheKept
  <2>2. CASE WriteSvcStatus
    <3>1. svcWork.key \in SvcKeys
      BY <1>2 DEF SvcInv, SvcInFlight
    <3>2. \E j \in SvcKeys : \E v : svcLog' = [svcLog EXCEPT ![j] = Append(@, v)]
      BY <2>2, <3>1 DEF WriteSvcStatus
    <3> QED
      BY <3>2, SvcCacheKept
  <2> QED
    BY <1>1, <2>1, <2>2 DEF SvcFreeDeleted, SvcStrip, SvcRecheck, SvcReclaim, SvcClear, SvcAllocate, SvcCommit, SvcGiveUp, SvcUpdateStatus
<1>6. svcWork.pc = "deleted" => FreeService(svcWork.key) /\ svcWork'.key = NoKey
  BY <1>2 DEF SvcFreeDeleted, SvcDone, SvcIdle
<1> QED
  BY <1>2, <1>4, <1>5, <1>6

LEMMA SvcWorkerReleased ==
  ASSUME IInv, SvcInv, SvcReleased, SvcWorker
  PROVE  SvcReleased'
<1> SUFFICES ASSUME NEW k \in SvcKeys, CachedService(k)' = NoService
             PROVE  \/ k \in svcQueued'
                    \/ svcWork'.key = k /\ svcWork'.pc = "deleted"
                    \/ svcWork'.key # k /\ allocated'[Service(k)] = NoIP
  BY DEF SvcReleased, Service
<1>1. k \in Keys /\ k # NoKey /\ Service(k) \in Owners
  BY SvcAssumption, NoKeyIsNone DEF Service, Owners, Kinds
<1>2. ASSUME NEW j \in SvcKeys, SvcGet(j)
      PROVE  \/ k \in svcQueued'
             \/ svcWork'.key = k /\ svcWork'.pc = "deleted"
             \/ svcWork'.key # k /\ allocated'[Service(k)] = NoIP
  <2>1. /\ svcWork.pc = "idle" /\ svcQueued' = svcQueued \ {j}
        /\ UNCHANGED <<svcLog, allocated>>
    BY <1>2 DEF SvcGet, allocVars
  <2>2. CachedService(k) = NoService
    BY <2>1 DEF CachedService
  <2>3. CachedService(j) = NoService => svcWork'.key = j /\ svcWork'.pc = "deleted"
    BY <1>2 DEF SvcGet, SvcStart, SvcInv, SvcTypeOK
  <2>4. svcWork'.key \in {svcWork.key, j}
    BY <1>2 DEF SvcGet, SvcStart, SvcInv, SvcTypeOK
  <2> QED
    BY <2>1, <2>2, <2>3, <2>4 DEF SvcReleased
<1>3. CASE \A j \in SvcKeys : ~SvcGet(j)
  <2>1. /\ svcWork.pc # "idle" /\ svcQueued' = svcQueued
        /\ svcWork'.key \in {svcWork.key, NoKey}
        /\ CachedService(k) = NoService
        /\ svcWork.pc = "deleted" => FreeService(svcWork.key) /\ svcWork'.key = NoKey
    BY <1>3, SvcWorkerMoves
  <2>2. SvcOwner \in Owners /\ svcWork.key \in Keys
    BY <2>1, SvcOwnerIsOwner
  <2>3. CASE svcWork.key = k /\ svcWork.pc = "deleted"
    <3>1. Free(SvcOwner)
      BY <2>1, <2>3 DEF FreeService, SvcOwner
    <3>2. allocated'[SvcOwner] = NoIP
      BY <2>2, <3>1, CallsAreLocal
    <3> QED
      BY <1>1, <2>1, <2>3, <3>2 DEF SvcOwner
  <2>4. CASE svcWork.key # k /\ allocated[Service(k)] = NoIP
    <3>1. Service(k) # SvcOwner
      BY <2>4 DEF Service, SvcOwner
    <3>2. allocated'[Service(k)] = allocated[Service(k)]
      BY <1>1, <2>2, <3>1, SvcWorkerCalls, OthersUntouched DEF allocVars
    <3> QED
      BY <1>1, <2>1, <2>4, <3>2
  <2> QED
    BY <2>1, <2>3, <2>4 DEF SvcReleased
<1> QED
  BY <1>2, <1>3

\* Everything but the worker leaves it and the allocator alone, and queues the
\* key of an object that it removes from the cache.
LEMMA SvcQuietReleased ==
  ASSUME SvcReleased, UNCHANGED allocated, svcQueued \subseteq svcQueued',
         svcWork'.key = svcWork.key, svcWork'.pc = svcWork.pc,
         \A k \in SvcKeys : CachedService(k)' = CachedService(k) \/ k \in svcQueued'
  PROVE  SvcReleased'
  BY DEF SvcReleased, Service

LEMMA SvcEventReleased ==
  ASSUME SvcInv, SvcReleased,
         \/ \E k \in SvcKeys : SvcDeliver(k) \/ SvcRetry(k)
         \/ SvcResync
         \/ SvcOnPoolChange
  PROVE  SvcReleased'
<1>1. svcWork' = svcWork /\ UNCHANGED allocated /\ svcQueued \subseteq svcQueued'
  BY DEF SvcDeliver, SvcRetry, SvcResync, SvcOnPoolChange, svcCtlVars, allocVars
<1>2. ASSUME NEW k \in SvcKeys
      PROVE  CachedService(k)' = CachedService(k) \/ k \in svcQueued'
  BY DEF SvcDeliver, SvcRetry, SvcResync, SvcOnPoolChange, CachedService, SvcInv, SvcTypeOK
<1> QED
  BY <1>1, <1>2, SvcQuietReleased

LEMMA SvcUserKeeps ==
  ASSUME SvcInv, SvcUser
  PROVE  /\ svcWork'.key = svcWork.key /\ svcWork'.pc = svcWork.pc /\ svcWork'.svc = svcWork.svc
         /\ UNCHANGED allocVars /\ svcQueued' = svcQueued
         /\ \A k \in SvcKeys : CachedService(k)' = CachedService(k)
<1>1. /\ UNCHANGED allocVars /\ svcQueued' = svcQueued
      /\ \E k \in SvcKeys : \E v : StoreService(k, v)
  BY Zenon DEF SvcUser, SvcCreate, SvcSetIP, SvcSetType, SvcTouch, SvcSetStatus, SvcDelete, UserSvcOp, svcQueueVars
<1>2. PICK j \in SvcKeys : \E v : StoreService(j, v)
  BY <1>1
<1>3. \A k \in SvcKeys : CachedService(k)' = CachedService(k)
  BY <1>2, SvcCacheKept DEF StoreService
<1>4. /\ svcWork'.key = svcWork.key /\ svcWork'.pc = svcWork.pc /\ svcWork'.svc = svcWork.svc
  BY <1>2 DEF StoreService, SvcInv, SvcTypeOK
<1> QED
  BY <1>1, <1>3, <1>4

LEMMA SvcNextReleased ==
  ASSUME IInv, SvcInv, SvcReleased, SvcNext
  PROVE  SvcReleased'
<1>1. CASE SvcUser
  BY <1>1, SvcUserKeeps, SvcQuietReleased DEF allocVars
<1>2. CASE (\E k \in SvcKeys : SvcDeliver(k) \/ SvcRetry(k)) \/ SvcResync
  BY <1>2, SvcEventReleased
<1>3. CASE SvcWorker
  BY <1>3, SvcWorkerReleased
<1> QED
  BY <1>1, <1>2, <1>3 DEF SvcNext

\* The other controllers release everything or nothing.
LEMMA SvcStaysReleased ==
  ASSUME SvcReleased, UNCHANGED svcVars,
         \/ \A key \in Keys : allocated'[Service(key)] = allocated[Service(key)]
         \/ \A o \in Owners : allocated'[o] = NoIP
  PROVE  SvcReleased'
<1>1. \A k \in SvcKeys : k \in Keys /\ Service(k) \in Owners
  BY SvcAssumption DEF Service, Owners, Kinds
<1>2. svcWork' = svcWork /\ svcQueued' = svcQueued /\ \A k \in SvcKeys : CachedService(k)' = CachedService(k)
  BY DEF svcVars, svcCtlVars, svcQueueVars, CachedService
<1>3. \A k \in SvcKeys : Service(k)' = Service(k)
  BY DEF Service
<1> QED
  BY <1>1, <1>2, <1>3 DEF SvcReleased

LEMMA SvcRestartReleased ==
  ASSUME SvcInv, SvcRestart, Crash
  PROVE  SvcReleased'
<1> SUFFICES ASSUME NEW k \in SvcKeys, CachedService(k)' = NoService, k \notin svcQueued'
             PROVE  svcWork'.key # k /\ allocated'[Service(k)] = NoIP
  BY DEF SvcReleased, Service
<1>1. Service(k) \in Owners
  BY SvcAssumption DEF Service, Owners, Kinds
<1>2. allocated'[Service(k)] = NoIP
  BY <1>1 DEF Crash
<1>3. svcWork'.key # k
  BY NoKeyIsNone DEF SvcRestart, SvcIdle
<1> QED
  BY <1>2, <1>3

LEMMA SvcInitReleased == Init /\ SvcInit => SvcReleased
<1> SUFFICES ASSUME Init, SvcInit, NEW k \in SvcKeys, CachedService(k) = NoService
             PROVE  svcWork.key # k /\ allocated[Service(k)] = NoIP
  BY DEF SvcReleased
<1>1. Service(k) \in Owners
  BY SvcAssumption DEF Service, Owners, Kinds
<1>2. allocated[Service(k)] = NoIP
  BY <1>1 DEF Init
<1>3. svcWork.key # k
  BY NoKeyIsNone DEF SvcInit, SvcIdle
<1> QED
  BY <1>2, <1>3
-----------------------------------------------------------------------------
(* FloatingIPs: the same.                                                  *)

LEMMA FipCacheKept ==
  ASSUME FipInv, NEW k \in FipKeys,
         \/ UNCHANGED fipLog
         \/ \E j \in FipKeys : \E v : fipLog' = [fipLog EXCEPT ![j] = Append(@, v)]
  PROVE  CachedFloatingIP(k)' = CachedFloatingIP(k)
<1>1. fipLog \in [FipKeys -> Seq(FloatingIPs \cup {NoFloatingIP})] /\ fipLog[k] # <<>>
  BY DEF FipInv, FipTypeOK
<1>2. CASE UNCHANGED fipLog
  BY <1>2 DEF CachedFloatingIP
<1>3. ASSUME NEW j \in FipKeys, NEW v, fipLog' = [fipLog EXCEPT ![j] = Append(@, v)]
      PROVE  CachedFloatingIP(k)' = CachedFloatingIP(k)
  <2>1. Head(Append(fipLog[k], v)) = Head(fipLog[k])
    BY <1>1, WrittenHead
  <2> QED
    BY <1>1, <1>3, <2>1 DEF CachedFloatingIP
<1> QED
  BY <1>2, <1>3

\* A step of the worker that is not its first leaves the queue and the cache.
LEMMA FipWorkerMoves ==
  ASSUME FipInv, FipWorker, \A k \in FipKeys : ~FipGet(k)
  PROVE  /\ fipWork.pc # "idle" /\ fipQueued' = fipQueued
         /\ fipWork'.key \in {fipWork.key, NoKey}
         /\ \A k \in FipKeys : CachedFloatingIP(k)' = CachedFloatingIP(k)
         /\ fipWork.pc = "deleted" => FreeFloatingIP(fipWork.key) /\ fipWork'.key = NoKey
<1>1. FipFreeDeleted \/ FipRecheck \/ FipReclaim \/ FipClear \/ FipAllocate \/ FipCommit \/ FipGiveUp \/ FipUpdateStatus
  BY DEF FipWorker
<1>2. fipWork.pc # "idle" /\ (fipWork.pc = "deleted" => FipFreeDeleted)
  BY <1>1 DEF FipFreeDeleted, FipRecheck, FipReclaim, FipClear, FipAllocate, FipCommit, FipGiveUp, FipUpdateStatus
<1>3. \/ FipDone \/ FipFailed
      \/ \E pc : FipGoto(pc)
      \/ \E status : FipSettle(status)
  BY <1>1, Zenon DEF FipFreeDeleted, FipRecheck, FipReclaim, FipClear, FipAllocate, FipCommit, FipGiveUp, FipUpdateStatus
<1>4. fipQueued' = fipQueued /\ fipWork'.key \in {fipWork.key, NoKey}
  <2>1. CASE FipDone \/ FipFailed
    BY <2>1 DEF FipDone, FipFailed, FipIdle
  <2>2. ASSUME NEW pc, FipGoto(pc)
        PROVE  fipQueued' = fipQueued /\ fipWork'.key \in {fipWork.key, NoKey}
    BY <2>2 DEF FipGoto, fipQueueVars, FipInv, FipTypeOK
  <2>3. ASSUME NEW status, FipSettle(status)
        PROVE  fipQueued' = fipQueued /\ fipWork'.key \in {fipWork.key, NoKey}
    <3>1. CASE FipDone
      BY <2>1, <3>1
    <3>2. CASE fipWork' = [fipWork EXCEPT !.pc = "update", !.status = status] /\ UNCHANGED fipQueueVars
      BY <3>2 DEF fipQueueVars, FipInv, FipTypeOK
    <3> QED
      BY <2>3, <3>1, <3>2 DEF FipSettle
  <2> QED
    BY <1>3, <2>1, <2>2, <2>3
<1>5. ASSUME NEW k \in FipKeys
      PROVE  CachedFloatingIP(k)' = CachedFloatingIP(k)
  <2>1. CASE UNCHANGED fipLog
    BY <2>1, FipCacheKept
  <2>2. CASE WriteFipStatus
    <3>1. fipWork.key \in FipKeys
      BY <1>2 DEF FipInv, FipInFlight
    <3>2. \E j \in FipKeys : \E v : fipLog' = [fipLog EXCEPT ![j] = Append(@, v)]
      BY <2>2, <3>1 DEF WriteFipStatus
    <3> QED
      BY <3>2, FipCacheKept
  <2> QED
    BY <1>1, <2>1, <2>2 DEF FipFreeDeleted, FipRecheck, FipReclaim, FipClear, FipAllocate, FipCommit, FipGiveUp, FipUpdateStatus
<1>6. fipWork.pc = "deleted" => FreeFloatingIP(fipWork.key) /\ fipWork'.key = NoKey
  BY <1>2 DEF FipFreeDeleted, FipDone, FipIdle
<1> QED
  BY <1>2, <1>4, <1>5, <1>6

LEMMA FipWorkerReleased ==
  ASSUME IInv, FipInv, FipReleased, FipWorker
  PROVE  FipReleased'
<1> SUFFICES ASSUME NEW k \in FipKeys, CachedFloatingIP(k)' = NoFloatingIP
             PROVE  \/ k \in fipQueued'
                    \/ fipWork'.key = k /\ fipWork'.pc = "deleted"
                    \/ fipWork'.key # k /\ allocated'[FloatingIP(k)] = NoIP
  BY DEF FipReleased, FloatingIP
<1>1. k \in Keys /\ k # NoKey /\ FloatingIP(k) \in Owners
  BY FipAssumption, NoKeyIsNone DEF FloatingIP, Owners, Kinds
<1>2. ASSUME NEW j \in FipKeys, FipGet(j)
      PROVE  \/ k \in fipQueued'
             \/ fipWork'.key = k /\ fipWork'.pc = "deleted"
             \/ fipWork'.key # k /\ allocated'[FloatingIP(k)] = NoIP
  <2>1. /\ fipWork.pc = "idle" /\ fipQueued' = fipQueued \ {j}
        /\ UNCHANGED <<fipLog, allocated>>
    BY <1>2 DEF FipGet, allocVars
  <2>2. CachedFloatingIP(k) = NoFloatingIP
    BY <2>1 DEF CachedFloatingIP
  <2>3. CachedFloatingIP(j) = NoFloatingIP => fipWork'.key = j /\ fipWork'.pc = "deleted"
    BY <1>2 DEF FipGet
  <2>4. fipWork'.key \in {fipWork.key, j}
    BY <1>2 DEF FipGet
  <2> QED
    BY <2>1, <2>2, <2>3, <2>4 DEF FipReleased
<1>3. CASE \A j \in FipKeys : ~FipGet(j)
  <2>1. /\ fipWork.pc # "idle" /\ fipQueued' = fipQueued
        /\ fipWork'.key \in {fipWork.key, NoKey}
        /\ CachedFloatingIP(k) = NoFloatingIP
        /\ fipWork.pc = "deleted" => FreeFloatingIP(fipWork.key) /\ fipWork'.key = NoKey
    BY <1>3, FipWorkerMoves
  <2>2. FipOwner \in Owners /\ fipWork.key \in Keys
    BY <2>1, FipOwnerIsOwner
  <2>3. CASE fipWork.key = k /\ fipWork.pc = "deleted"
    <3>1. Free(FipOwner)
      BY <2>1, <2>3 DEF FreeFloatingIP, FipOwner
    <3>2. allocated'[FipOwner] = NoIP
      BY <2>2, <3>1, CallsAreLocal
    <3> QED
      BY <1>1, <2>1, <2>3, <3>2 DEF FipOwner
  <2>4. CASE fipWork.key # k /\ allocated[FloatingIP(k)] = NoIP
    <3>1. FloatingIP(k) # FipOwner
      BY <2>4 DEF FloatingIP, FipOwner
    <3>2. allocated'[FloatingIP(k)] = allocated[FloatingIP(k)]
      BY <1>1, <2>2, <3>1, FipWorkerCalls, OthersUntouched DEF allocVars
    <3> QED
      BY <1>1, <2>1, <2>4, <3>2
  <2> QED
    BY <2>1, <2>3, <2>4 DEF FipReleased
<1> QED
  BY <1>2, <1>3

\* Everything but the worker leaves it and the allocator alone, and queues the
\* key of an object that it removes from the cache.
LEMMA FipQuietReleased ==
  ASSUME FipReleased, UNCHANGED allocated, fipQueued \subseteq fipQueued',
         fipWork'.key = fipWork.key, fipWork'.pc = fipWork.pc,
         \A k \in FipKeys : CachedFloatingIP(k)' = CachedFloatingIP(k) \/ k \in fipQueued'
  PROVE  FipReleased'
  BY DEF FipReleased, FloatingIP

LEMMA FipEventReleased ==
  ASSUME FipInv, FipReleased,
         \/ \E k \in FipKeys : FipDeliver(k) \/ FipRetry(k)
         \/ FipResync
         \/ FipOnPoolChange
  PROVE  FipReleased'
<1>1. fipWork' = fipWork /\ UNCHANGED allocated /\ fipQueued \subseteq fipQueued'
  BY DEF FipDeliver, FipRetry, FipResync, FipOnPoolChange, fipCtlVars, allocVars
<1>2. ASSUME NEW k \in FipKeys
      PROVE  CachedFloatingIP(k)' = CachedFloatingIP(k) \/ k \in fipQueued'
  BY DEF FipDeliver, FipRetry, FipResync, FipOnPoolChange, CachedFloatingIP, FipInv, FipTypeOK
<1> QED
  BY <1>1, <1>2, FipQuietReleased

LEMMA FipUserKeeps ==
  ASSUME FipInv, FipUser
  PROVE  /\ fipWork'.key = fipWork.key /\ fipWork'.pc = fipWork.pc /\ fipWork'.fip = fipWork.fip
         /\ UNCHANGED allocVars /\ fipQueued' = fipQueued
         /\ \A k \in FipKeys : CachedFloatingIP(k)' = CachedFloatingIP(k)
<1>1. /\ UNCHANGED allocVars /\ fipQueued' = fipQueued
      /\ \E k \in FipKeys : \E v : StoreFloatingIP(k, v)
  BY Zenon DEF FipUser, FipCreate, FipSetIP, FipTouch, FipSetStatus, FipDelete, UserFipOp, fipQueueVars
<1>2. PICK j \in FipKeys : \E v : StoreFloatingIP(j, v)
  BY <1>1
<1>3. \A k \in FipKeys : CachedFloatingIP(k)' = CachedFloatingIP(k)
  BY <1>2, FipCacheKept DEF StoreFloatingIP
<1>4. /\ fipWork'.key = fipWork.key /\ fipWork'.pc = fipWork.pc /\ fipWork'.fip = fipWork.fip
  BY <1>2 DEF StoreFloatingIP, FipInv, FipTypeOK
<1> QED
  BY <1>1, <1>3, <1>4

LEMMA FipNextReleased ==
  ASSUME IInv, FipInv, FipReleased, FipNext
  PROVE  FipReleased'
<1>1. CASE FipUser
  BY <1>1, FipUserKeeps, FipQuietReleased DEF allocVars
<1>2. CASE (\E k \in FipKeys : FipDeliver(k) \/ FipRetry(k)) \/ FipResync
  BY <1>2, FipEventReleased
<1>3. CASE FipWorker
  BY <1>3, FipWorkerReleased
<1> QED
  BY <1>1, <1>2, <1>3 DEF FipNext

\* The other controllers release everything or nothing.
LEMMA FipStaysReleased ==
  ASSUME FipReleased, UNCHANGED fipVars,
         \/ \A key \in Keys : allocated'[FloatingIP(key)] = allocated[FloatingIP(key)]
         \/ \A o \in Owners : allocated'[o] = NoIP
  PROVE  FipReleased'
<1>1. \A k \in FipKeys : k \in Keys /\ FloatingIP(k) \in Owners
  BY FipAssumption DEF FloatingIP, Owners, Kinds
<1>2. fipWork' = fipWork /\ fipQueued' = fipQueued /\ \A k \in FipKeys : CachedFloatingIP(k)' = CachedFloatingIP(k)
  BY DEF fipVars, fipCtlVars, fipQueueVars, CachedFloatingIP
<1>3. \A k \in FipKeys : FloatingIP(k)' = FloatingIP(k)
  BY DEF FloatingIP
<1> QED
  BY <1>1, <1>2, <1>3 DEF FipReleased

LEMMA FipRestartReleased ==
  ASSUME FipInv, FipRestart, Crash
  PROVE  FipReleased'
<1> SUFFICES ASSUME NEW k \in FipKeys, CachedFloatingIP(k)' = NoFloatingIP, k \notin fipQueued'
             PROVE  fipWork'.key # k /\ allocated'[FloatingIP(k)] = NoIP
  BY DEF FipReleased, FloatingIP
<1>1. FloatingIP(k) \in Owners
  BY FipAssumption DEF FloatingIP, Owners, Kinds
<1>2. allocated'[FloatingIP(k)] = NoIP
  BY <1>1 DEF Crash
<1>3. fipWork'.key # k
  BY NoKeyIsNone DEF FipRestart, FipIdle
<1> QED
  BY <1>2, <1>3

LEMMA FipInitReleased == Init /\ FipInit => FipReleased
<1> SUFFICES ASSUME Init, FipInit, NEW k \in FipKeys, CachedFloatingIP(k) = NoFloatingIP
             PROVE  fipWork.key # k /\ allocated[FloatingIP(k)] = NoIP
  BY DEF FipReleased
<1>1. FloatingIP(k) \in Owners
  BY FipAssumption DEF FloatingIP, Owners, Kinds
<1>2. allocated[FloatingIP(k)] = NoIP
  BY <1>1 DEF Init
<1>3. fipWork.key # k
  BY NoKeyIsNone DEF FipInit, FipIdle
<1> QED
  BY <1>2, <1>3
-----------------------------------------------------------------------------
(* Services: none is given up that is content.                             *)

\* These end a sync, or begin an allocation or a check.
LEMMA SvcHarmlessPC ==
  ASSUME svcWork'.pc \in {"idle", "update", "allocate", "recheck"}
  PROVE  SvcGivesUp'
  BY DEF SvcGivesUp

LEMMA SvcSettleIsHarmless ==
  ASSUME SvcInv, NEW status, SvcSettle(status)
  PROVE  SvcGivesUp'
<1>1. CASE SvcDone
  BY <1>1, SvcHarmlessPC DEF SvcDone, SvcIdle
<1>2. CASE svcWork' = [svcWork EXCEPT !.pc = "update", !.status = status]
  BY <1>2, SvcHarmlessPC DEF SvcInv, SvcTypeOK
<1> QED
  BY <1>1, <1>2 DEF SvcSettle

LEMMA SvcGoesTo ==
  ASSUME SvcInv, NEW pc, SvcGoto(pc)
  PROVE  svcWork'.pc = pc /\ svcWork'.key = svcWork.key /\ svcWork'.svc = svcWork.svc
  BY DEF SvcGoto, SvcInv, SvcTypeOK

LEMMA SvcGetGivesUp ==
  ASSUME SvcInv, SvcGivesUp, NEW k \in SvcKeys, SvcGet(k)
  PROVE  SvcGivesUp'
<1>1. CachedService(k) \in Services \cup {NoService}
  BY SvcVersions
<1>2. \/ svcWork' = svcWork
      \/ \E pc \in {"deleted", "strip", "recheck", "clear"} :
           /\ SvcStart(k, pc)
           /\ pc = "deleted" => CachedService(k) = NoService
           /\ pc = "strip" => ~CachedService(k).lb
           /\ pc = "clear" => CachedService(k).status \notin IPs
  BY DEF SvcGet
<1>3. CASE svcWork' = svcWork
  BY <1>3, SvcHarmlessPC DEF SvcGet
<1>4. ASSUME NEW pc \in {"deleted", "strip", "recheck", "clear"}, SvcStart(k, pc),
             pc = "deleted" => CachedService(k) = NoService,
             pc = "strip" => ~CachedService(k).lb,
             pc = "clear" => CachedService(k).status \notin IPs
      PROVE  SvcGivesUp'
  <2>1. svcWork'.pc = pc /\ svcWork'.svc = CachedService(k)
    BY <1>4 DEF SvcStart
  <2> QED
    BY <1>4, <2>1 DEF SvcGivesUp, SvcContent
<1> QED
  BY <1>2, <1>3, <1>4

LEMMA SvcRecheckGivesUp ==
  ASSUME IInv, SvcInv, SvcRecheck
  PROVE  SvcGivesUp'
<1>1. /\ svcWork.pc = "recheck" /\ SvcOwner \in Owners
      /\ svcWork.svc.status \in IPs /\ Canonical[svcWork.svc.status] = svcWork.svc.status
      /\ svcWork.svc.status # NoIP
  BY SvcOwnerIsOwner, IPAssumption DEF SvcRecheck, SvcInv, SvcInFlight
<1>2. CASE CheckDesiredIP(SvcOwner, svcWork.svc.status) /\ SvcGoto("reclaim")
  <2>1. svcWork'.pc = "reclaim" /\ svcWork'.key = svcWork.key /\ svcWork'.svc = svcWork.svc
    BY <1>2, SvcGoesTo
  <2>2. checked'[SvcOwner] = svcWork.svc.status
    BY <1>1, <1>2 DEF CheckDesiredIP, IInv, TypeOK
  <2> QED
    BY <1>1, <2>1, <2>2 DEF SvcGivesUp, SvcOwner, Service
<1>3. CASE Rejected(svcWork.svc.status) /\ SvcGoto("clear") /\ UNCHANGED allocVars
  <2>1. svcWork'.pc = "clear" /\ svcWork'.key = svcWork.key /\ svcWork'.svc = svcWork.svc
    BY <1>3, SvcGoesTo
  <2>2. ~ContainsIP(svcWork.svc.status)'
    BY <1>1, <1>3, <2>1 DEF Rejected, ContainsIP, allocVars
  <2> QED
    BY <2>1, <2>2 DEF SvcGivesUp, SvcContent
<1> QED
  BY <1>2, <1>3 DEF SvcRecheck

LEMMA SvcReclaimGivesUp ==
  ASSUME PlainStrings, SvcInv, SvcReclaim
  PROVE  SvcGivesUp'
<1>1. CASE SvcSettle(svcWork.svc.status)
  BY <1>1, SvcSettleIsHarmless
<1>2. CASE SvcGoto("clear") /\ (allocated'[SvcOwner] # svcWork.svc.status \/ DesiredChanged)
  <2>1. svcWork'.pc = "clear" /\ svcWork'.key = svcWork.key /\ svcWork'.svc = svcWork.svc
    BY <1>2, SvcGoesTo
  <2>2. svcWork.svc.want \in IPStrings \cup {NoIP}
    BY DEF SvcReclaim, SvcInv, SvcInFlight, Services
  <2>3. ASSUME NEW ip \in IPs, SvcContent(svcWork.key, ip)'
        PROVE  allocated'[SvcOwner] # ip
    <3>1. svcWork.svc.status = ip /\ (svcWork.svc.want # NoIP => Canonical[svcWork.svc.want] = ip)
      BY <2>1, <2>3 DEF SvcContent, Grants
    <3>2. ip # NoIP
      BY IPAssumption
    <3>3. ~DesiredChanged
      BY <2>2, <3>1, <3>2 DEF DesiredChanged, PlainStrings
    <3> QED
      BY <1>2, <3>1, <3>3
  <2> QED
    BY <2>1, <2>3 DEF SvcGivesUp, SvcOwner, Service
<1> QED
  BY <1>1, <1>2 DEF SvcReclaim

LEMMA SvcAllocateGivesUp ==
  ASSUME IInv, SvcInv, SvcAsksEmptyHanded, SvcAllocate
  PROVE  SvcGivesUp'
<1>1. /\ svcWork.pc = "allocate" /\ SvcOwner \in Owners /\ allocated[SvcOwner] = NoIP
      /\ svcWork.svc.want \in IPStrings \cup {NoIP}
  BY SvcOwnerIsOwner DEF SvcAllocate, SvcAsksEmptyHanded, SvcInv, SvcInFlight, Services
<1>2. CASE SvcSettle(allocated'[SvcOwner])
  BY <1>2, SvcSettleIsHarmless
<1>3. CASE SvcGoto("giveup") /\ allocated'[SvcOwner] = NoIP
  <2>1. svcWork'.pc = "giveup" /\ svcWork'.key = svcWork.key
    BY <1>3, SvcGoesTo
  <2> QED
    BY <1>3, <2>1 DEF SvcGivesUp, SvcOwner, Service
<1>4. CASE /\ SvcGoto("commit") /\ svcWork.svc.want # NoIP
           /\ CheckDesiredIP(SvcOwner, svcWork.svc.want)
  <2>1. svcWork'.pc = "commit" /\ svcWork'.key = svcWork.key /\ svcWork'.svc = svcWork.svc
    BY <1>4, SvcGoesTo
  <2>2. checked'[SvcOwner] = Canonical[svcWork.svc.want]
    BY <1>1, <1>4 DEF CheckDesiredIP, IInv, TypeOK
  <2> QED
    BY <1>1, <1>4, <2>1, <2>2 DEF SvcGivesUp, SvcOwner, Service
<1> QED
  BY <1>1, <1>2, <1>3, <1>4 DEF SvcAllocate, allocVars

LEMMA SvcCommitGivesUp ==
  ASSUME IInv, SvcInv, SvcAsksEmptyHanded, SvcGivesUp, SvcCommit
  PROVE  SvcGivesUp'
<1> DEFINE desired == Canonical[svcWork.svc.want]
<1>1. /\ SvcOwner \in Owners /\ allocated[SvcOwner] = NoIP
      /\ checked[SvcOwner] = desired /\ AllocateIP(SvcOwner)
  BY SvcOwnerIsOwner DEF SvcCommit, SvcAsksEmptyHanded, SvcGivesUp, AllocateServiceIP, SvcOwner
<1>2. CASE SvcSettle(desired)
  BY <1>2, SvcSettleIsHarmless
<1>3. CASE SvcGoto("giveup") /\ allocated'[SvcOwner] # desired
  <2>1. svcWork'.pc = "giveup" /\ svcWork'.key = svcWork.key
    BY <1>3, SvcGoesTo
  <2>2. allocated'[SvcOwner] = NoIP
    BY <1>1, <1>3 DEF AllocateIP, Lease, IInv, TypeOK
  <2> QED
    BY <2>1, <2>2 DEF SvcGivesUp, SvcOwner, Service
<1> QED
  BY <1>2, <1>3 DEF SvcCommit

LEMMA SvcWorkerGivesUp ==
  ASSUME PlainStrings, IInv, SvcInv, SvcAsksEmptyHanded, SvcGivesUp, SvcWorker
  PROVE  SvcGivesUp'
<1>1. CASE SvcFreeDeleted \/ SvcUpdateStatus
  BY <1>1, SvcHarmlessPC DEF SvcFreeDeleted, SvcUpdateStatus, SvcDone, SvcFailed, SvcIdle
<1>2. CASE SvcStrip \/ SvcGiveUp
  BY <1>2, SvcSettleIsHarmless DEF SvcStrip, SvcGiveUp
<1>3. CASE SvcClear
  BY <1>3, SvcGoesTo, SvcHarmlessPC DEF SvcClear
<1> QED
  BY <1>1, <1>2, <1>3, SvcGetGivesUp, SvcRecheckGivesUp, SvcReclaimGivesUp, SvcAllocateGivesUp,
     SvcCommitGivesUp DEF SvcWorker

\* Other steps leave the worker's copy and its lease, or take all leases.
LEMMA SvcStillGivesUp ==
  ASSUME SvcInv, SvcGivesUp,
         svcWork'.key = svcWork.key, svcWork'.pc = svcWork.pc, svcWork'.svc = svcWork.svc,
         \A key \in Keys : checked'[Service(key)] = checked[Service(key)],
         \/ /\ \A key \in Keys : allocated'[Service(key)] = allocated[Service(key)]
            /\ UNCHANGED nets
         \/ \A o \in Owners : allocated'[o] = NoIP
  PROVE  SvcGivesUp'
<1>1. CASE svcWork.pc = "idle"
  BY <1>1, SvcHarmlessPC
<1>2. CASE svcWork.pc # "idle"
  <2>1. svcWork.key \in Keys /\ SvcOwner \in Owners /\ SvcOwner = Service(svcWork.key) /\ SvcOwner' = SvcOwner
    BY <1>2, SvcOwnerIsOwner DEF SvcOwner, Service
  <2>2. checked'[SvcOwner] = checked[SvcOwner]
    BY <2>1
  <2>3. allocated'[SvcOwner] = NoIP \/ (allocated'[SvcOwner] = allocated[SvcOwner] /\ UNCHANGED nets)
    BY <2>1
  <2>4. NoIP \notin IPs
    BY IPAssumption
  <2>5. ASSUME NEW ip \in IPs
        PROVE  SvcContent(svcWork.key, ip)' <=> SvcContent(svcWork.key, ip)
    BY DEF SvcContent
  <2>6. ASSUME svcWork.pc = "clear", NEW ip \in IPs, SvcContent(svcWork.key, ip)'
        PROVE  ~ContainsIP(ip)' \/ allocated'[SvcOwner] # ip
    <3>1. ~ContainsIP(ip) \/ allocated[SvcOwner] # ip
      BY <2>5, <2>6 DEF SvcGivesUp
    <3>2. UNCHANGED nets => (ContainsIP(ip)' <=> ContainsIP(ip))
      BY DEF ContainsIP
    <3> QED
      BY <2>3, <2>4, <3>1, <3>2
  <2> QED
    BY <2>1, <2>2, <2>3, <2>6 DEF SvcGivesUp
<1> QED
  BY <1>1, <1>2

LEMMA SvcEventKeepsCopy ==
  ASSUME \/ \E k \in SvcKeys : SvcDeliver(k) \/ SvcRetry(k)
         \/ SvcResync
         \/ SvcOnPoolChange
  PROVE  svcWork' = svcWork /\ UNCHANGED allocVars
  BY DEF SvcDeliver, SvcRetry, SvcResync, SvcOnPoolChange, svcCtlVars

LEMMA SvcWorkerKeeps ==
  ASSUME IInv, SvcInv, SvcAsksEmptyHanded, SvcGivesUp, SvcWorker,
         NEW ip \in IPs, ContainsIP(ip),
         NEW k \in SvcKeys, SvcContent(k, ip), allocated[Service(k)] = ip
  PROVE  allocated'[Service(k)] = ip
<1>1. /\ svcWork.key = k /\ SvcOwner = Service(k) /\ svcWork.svc # NoService /\ svcWork.svc.lb
      /\ svcWork.svc.status = ip /\ ip # NoIP
  BY IPAssumption DEF SvcContent, SvcOwner, Service
<1>2. svcWork.pc \notin {"deleted", "strip", "clear", "giveup", "allocate", "commit"}
  BY <1>1 DEF SvcGivesUp, SvcAsksEmptyHanded, SvcContent
<1>3. CASE \E j \in SvcKeys : SvcGet(j)
  BY <1>3 DEF SvcGet, allocVars
<1>4. CASE SvcRecheck
  BY <1>4 DEF SvcRecheck, CheckDesiredIP, allocVars
<1>5. CASE SvcReclaim
  <2>1. checked[SvcOwner] = ip /\ AllocateIP(SvcOwner)
    BY <1>1, <1>5 DEF SvcReclaim, SvcGivesUp, AllocateServiceIP, SvcOwner
  <2> QED
    BY <1>1, <2>1 DEF AllocateIP
<1>6. CASE SvcUpdateStatus
  BY <1>6 DEF SvcUpdateStatus, allocVars
<1> QED
  BY <1>2, <1>3, <1>4, <1>5, <1>6
  DEF SvcWorker, SvcFreeDeleted, SvcStrip, SvcClear, SvcAllocate, SvcCommit, SvcGiveUp
-----------------------------------------------------------------------------
(* FloatingIPs: the same.                                                  *)

\* These end a sync, or begin an allocation or a check.
LEMMA FipHarmlessPC ==
  ASSUME fipWork'.pc \in {"idle", "update", "allocate", "recheck"}
  PROVE  FipGivesUp'
  BY DEF FipGivesUp

LEMMA FipSettleIsHarmless ==
  ASSUME FipInv, NEW status, FipSettle(status)
  PROVE  FipGivesUp'
<1>1. CASE FipDone
  BY <1>1, FipHarmlessPC DEF FipDone, FipIdle
<1>2. CASE fipWork' = [fipWork EXCEPT !.pc = "update", !.status = status]
  BY <1>2, FipHarmlessPC DEF FipInv, FipTypeOK
<1> QED
  BY <1>1, <1>2 DEF FipSettle

LEMMA FipGoesTo ==
  ASSUME FipInv, NEW pc, FipGoto(pc)
  PROVE  fipWork'.pc = pc /\ fipWork'.key = fipWork.key /\ fipWork'.fip = fipWork.fip
  BY DEF FipGoto, FipInv, FipTypeOK

LEMMA FipGetGivesUp ==
  ASSUME FipInv, FipGivesUp, NEW k \in FipKeys, FipGet(k)
  PROVE  FipGivesUp'
<1>1. CachedFloatingIP(k) \in FloatingIPs \cup {NoFloatingIP}
  BY FipVersions
<1>2. /\ fipWork'.fip = CachedFloatingIP(k)
      /\ fipWork'.pc \in {"deleted", "recheck", "clear"}
      /\ fipWork'.pc = "deleted" => CachedFloatingIP(k) = NoFloatingIP
      /\ fipWork'.pc = "clear" => CachedFloatingIP(k).status \notin IPs
  BY DEF FipGet
<1> QED
  BY <1>2 DEF FipGivesUp, FipContent

LEMMA FipRecheckGivesUp ==
  ASSUME IInv, FipInv, FipRecheck
  PROVE  FipGivesUp'
<1>1. /\ fipWork.pc = "recheck" /\ FipOwner \in Owners
      /\ fipWork.fip.status \in IPs /\ Canonical[fipWork.fip.status] = fipWork.fip.status
      /\ fipWork.fip.status # NoIP
  BY FipOwnerIsOwner, IPAssumption DEF FipRecheck, FipInv, FipInFlight
<1>2. CASE CheckDesiredIP(FipOwner, fipWork.fip.status) /\ FipGoto("reclaim")
  <2>1. fipWork'.pc = "reclaim" /\ fipWork'.key = fipWork.key /\ fipWork'.fip = fipWork.fip
    BY <1>2, FipGoesTo
  <2>2. checked'[FipOwner] = fipWork.fip.status
    BY <1>1, <1>2 DEF CheckDesiredIP, IInv, TypeOK
  <2> QED
    BY <1>1, <2>1, <2>2 DEF FipGivesUp, FipOwner, FloatingIP
<1>3. CASE Rejected(fipWork.fip.status) /\ FipGoto("clear") /\ UNCHANGED allocVars
  <2>1. fipWork'.pc = "clear" /\ fipWork'.key = fipWork.key /\ fipWork'.fip = fipWork.fip
    BY <1>3, FipGoesTo
  <2>2. ~ContainsIP(fipWork.fip.status)'
    BY <1>1, <1>3, <2>1 DEF Rejected, ContainsIP, allocVars
  <2> QED
    BY <2>1, <2>2 DEF FipGivesUp, FipContent
<1> QED
  BY <1>2, <1>3 DEF FipRecheck

LEMMA FipReclaimGivesUp ==
  ASSUME PlainStrings, FipInv, FipReclaim
  PROVE  FipGivesUp'
<1>1. CASE FipSettle(fipWork.fip.status)
  BY <1>1, FipSettleIsHarmless
<1>2. CASE FipGoto("clear") /\ (allocated'[FipOwner] # fipWork.fip.status \/ FipDesiredChanged)
  <2>1. fipWork'.pc = "clear" /\ fipWork'.key = fipWork.key /\ fipWork'.fip = fipWork.fip
    BY <1>2, FipGoesTo
  <2>2. fipWork.fip.want \in IPStrings \cup {NoIP}
    BY DEF FipReclaim, FipInv, FipInFlight, FloatingIPs
  <2>3. ASSUME NEW ip \in IPs, FipContent(fipWork.key, ip)'
        PROVE  allocated'[FipOwner] # ip
    <3>1. fipWork.fip.status = ip /\ (fipWork.fip.want # NoIP => Canonical[fipWork.fip.want] = ip)
      BY <2>1, <2>3 DEF FipContent, Grants
    <3>2. ip # NoIP
      BY IPAssumption
    <3>3. ~FipDesiredChanged
      BY <2>2, <3>1, <3>2 DEF FipDesiredChanged, PlainStrings
    <3> QED
      BY <1>2, <3>1, <3>3
  <2> QED
    BY <2>1, <2>3 DEF FipGivesUp, FipOwner, FloatingIP
<1> QED
  BY <1>1, <1>2 DEF FipReclaim

LEMMA FipAllocateGivesUp ==
  ASSUME IInv, FipInv, FipAsksEmptyHanded, FipAllocate
  PROVE  FipGivesUp'
<1>1. /\ fipWork.pc = "allocate" /\ FipOwner \in Owners /\ allocated[FipOwner] = NoIP
      /\ fipWork.fip.want \in IPStrings \cup {NoIP}
  BY FipOwnerIsOwner DEF FipAllocate, FipAsksEmptyHanded, FipInv, FipInFlight, FloatingIPs
<1>2. CASE FipSettle(allocated'[FipOwner])
  BY <1>2, FipSettleIsHarmless
<1>3. CASE FipGoto("giveup") /\ allocated'[FipOwner] = NoIP
  <2>1. fipWork'.pc = "giveup" /\ fipWork'.key = fipWork.key
    BY <1>3, FipGoesTo
  <2> QED
    BY <1>3, <2>1 DEF FipGivesUp, FipOwner, FloatingIP
<1>4. CASE /\ FipGoto("commit") /\ fipWork.fip.want # NoIP
           /\ CheckDesiredIP(FipOwner, fipWork.fip.want)
  <2>1. fipWork'.pc = "commit" /\ fipWork'.key = fipWork.key /\ fipWork'.fip = fipWork.fip
    BY <1>4, FipGoesTo
  <2>2. checked'[FipOwner] = Canonical[fipWork.fip.want]
    BY <1>1, <1>4 DEF CheckDesiredIP, IInv, TypeOK
  <2> QED
    BY <1>1, <1>4, <2>1, <2>2 DEF FipGivesUp, FipOwner, FloatingIP
<1> QED
  BY <1>1, <1>2, <1>3, <1>4 DEF FipAllocate, allocVars

LEMMA FipCommitGivesUp ==
  ASSUME IInv, FipInv, FipAsksEmptyHanded, FipGivesUp, FipCommit
  PROVE  FipGivesUp'
<1> DEFINE desired == Canonical[fipWork.fip.want]
<1>1. /\ FipOwner \in Owners /\ allocated[FipOwner] = NoIP
      /\ checked[FipOwner] = desired /\ AllocateIP(FipOwner)
  BY FipOwnerIsOwner DEF FipCommit, FipAsksEmptyHanded, FipGivesUp, AllocateFloatingIP, FipOwner
<1>2. CASE FipSettle(desired)
  BY <1>2, FipSettleIsHarmless
<1>3. CASE FipGoto("giveup") /\ allocated'[FipOwner] # desired
  <2>1. fipWork'.pc = "giveup" /\ fipWork'.key = fipWork.key
    BY <1>3, FipGoesTo
  <2>2. allocated'[FipOwner] = NoIP
    BY <1>1, <1>3 DEF AllocateIP, Lease, IInv, TypeOK
  <2> QED
    BY <2>1, <2>2 DEF FipGivesUp, FipOwner, FloatingIP
<1> QED
  BY <1>2, <1>3 DEF FipCommit

LEMMA FipWorkerGivesUp ==
  ASSUME PlainStrings, IInv, FipInv, FipAsksEmptyHanded, FipGivesUp, FipWorker
  PROVE  FipGivesUp'
<1>1. CASE FipFreeDeleted \/ FipUpdateStatus
  BY <1>1, FipHarmlessPC DEF FipFreeDeleted, FipUpdateStatus, FipDone, FipFailed, FipIdle
<1>2. CASE FipGiveUp
  BY <1>2, FipSettleIsHarmless DEF FipGiveUp
<1>3. CASE FipClear
  BY <1>3, FipGoesTo, FipHarmlessPC DEF FipClear
<1> QED
  BY <1>1, <1>2, <1>3, FipGetGivesUp, FipRecheckGivesUp, FipReclaimGivesUp, FipAllocateGivesUp,
     FipCommitGivesUp DEF FipWorker

\* Other steps leave the worker's copy and its lease, or take all leases.
LEMMA FipStillGivesUp ==
  ASSUME FipInv, FipGivesUp,
         fipWork'.key = fipWork.key, fipWork'.pc = fipWork.pc, fipWork'.fip = fipWork.fip,
         \A key \in Keys : checked'[FloatingIP(key)] = checked[FloatingIP(key)],
         \/ /\ \A key \in Keys : allocated'[FloatingIP(key)] = allocated[FloatingIP(key)]
            /\ UNCHANGED nets
         \/ \A o \in Owners : allocated'[o] = NoIP
  PROVE  FipGivesUp'
<1>1. CASE fipWork.pc = "idle"
  BY <1>1, FipHarmlessPC
<1>2. CASE fipWork.pc # "idle"
  <2>1. fipWork.key \in Keys /\ FipOwner \in Owners /\ FipOwner = FloatingIP(fipWork.key) /\ FipOwner' = FipOwner
    BY <1>2, FipOwnerIsOwner DEF FipOwner, FloatingIP
  <2>2. checked'[FipOwner] = checked[FipOwner]
    BY <2>1
  <2>3. allocated'[FipOwner] = NoIP \/ (allocated'[FipOwner] = allocated[FipOwner] /\ UNCHANGED nets)
    BY <2>1
  <2>4. NoIP \notin IPs
    BY IPAssumption
  <2>5. ASSUME NEW ip \in IPs
        PROVE  FipContent(fipWork.key, ip)' <=> FipContent(fipWork.key, ip)
    BY DEF FipContent
  <2>6. ASSUME fipWork.pc = "clear", NEW ip \in IPs, FipContent(fipWork.key, ip)'
        PROVE  ~ContainsIP(ip)' \/ allocated'[FipOwner] # ip
    <3>1. ~ContainsIP(ip) \/ allocated[FipOwner] # ip
      BY <2>5, <2>6 DEF FipGivesUp
    <3>2. UNCHANGED nets => (ContainsIP(ip)' <=> ContainsIP(ip))
      BY DEF ContainsIP
    <3> QED
      BY <2>3, <2>4, <3>1, <3>2
  <2> QED
    BY <2>1, <2>2, <2>3, <2>6 DEF FipGivesUp
<1> QED
  BY <1>1, <1>2

LEMMA FipEventKeepsCopy ==
  ASSUME \/ \E k \in FipKeys : FipDeliver(k) \/ FipRetry(k)
         \/ FipResync
         \/ FipOnPoolChange
  PROVE  fipWork' = fipWork /\ UNCHANGED allocVars
  BY DEF FipDeliver, FipRetry, FipResync, FipOnPoolChange, fipCtlVars

LEMMA FipWorkerKeeps ==
  ASSUME IInv, FipInv, FipAsksEmptyHanded, FipGivesUp, FipWorker,
         NEW ip \in IPs, ContainsIP(ip),
         NEW k \in FipKeys, FipContent(k, ip), allocated[FloatingIP(k)] = ip
  PROVE  allocated'[FloatingIP(k)] = ip
<1>1. /\ fipWork.key = k /\ FipOwner = FloatingIP(k) /\ fipWork.fip # NoFloatingIP 
      /\ fipWork.fip.status = ip /\ ip # NoIP
  BY IPAssumption DEF FipContent, FipOwner, FloatingIP
<1>2. fipWork.pc \notin {"deleted", "clear", "giveup", "allocate", "commit"}
  BY <1>1 DEF FipGivesUp, FipAsksEmptyHanded, FipContent
<1>3. CASE \E j \in FipKeys : FipGet(j)
  BY <1>3 DEF FipGet, allocVars
<1>4. CASE FipRecheck
  BY <1>4 DEF FipRecheck, CheckDesiredIP, allocVars
<1>5. CASE FipReclaim
  <2>1. checked[FipOwner] = ip /\ AllocateIP(FipOwner)
    BY <1>1, <1>5 DEF FipReclaim, FipGivesUp, AllocateFloatingIP, FipOwner
  <2> QED
    BY <1>1, <2>1 DEF AllocateIP
<1>6. CASE FipUpdateStatus
  BY <1>6 DEF FipUpdateStatus, allocVars
<1> QED
  BY <1>2, <1>3, <1>4, <1>5, <1>6
  DEF FipWorker, FipFreeDeleted, FipClear, FipAllocate, FipCommit, FipGiveUp

\* The steps of the pool's worker that take leases end or go on with a sync.
LEMMA PoolLoadMoves ==
  ASSUME PoolInv, PoolRelease \/ PoolLoad
  PROVE  poolWork' # poolWork
<1>1. poolWork' = PoolIdle \/ (poolWork.pc = "load" /\ poolWork' = [poolWork EXCEPT !.pc = "update"])
  BY DEF PoolRelease, PoolLoad, PoolDone, PoolFailed
<1>2. poolWork.pc \in {"release", "load"} /\ poolWork \in PoolWorks
  BY DEF PoolRelease, PoolLoad, PoolInv, PoolVarsOK
<1> QED
  BY <1>1, <1>2 DEF PoolIdle, PoolWorks

-----------------------------------------------------------------------------
(* The process.                                                            *)

LeaseInv == SvcReleased /\ FipReleased
GivesUpInv == SvcGivesUp /\ FipGivesUp

\* What a step of one controller leaves to the others.
LEMMA SvcStepIsLocal ==
  ASSUME SystemInv, SvcStep
  PROVE  /\ \A key \in Keys : /\ allocated'[FloatingIP(key)] = allocated[FloatingIP(key)]
                              /\ checked'[FloatingIP(key)] = checked[FloatingIP(key)]
         /\ nets' = nets
<1>1. SvcNext
  BY DEF SvcStep
<1>2. CASE ~SvcWorker
  <2>1. UNCHANGED allocVars
    BY <1>1, <1>2, SvcUserKeeps, SvcEventPreserves DEF SvcNext, SystemInv
  <2> QED
    BY <2>1 DEF allocVars
<1>3. CASE UNCHANGED allocVars
  BY <1>3 DEF allocVars
<1>4. CASE svcWork.pc # "idle" /\ CallFor(SvcOwner)
  <2>1. SvcOwner \in Owners
    BY <1>4, SvcOwnerIsOwner DEF SystemInv
  <2>2. \A key \in Keys : FloatingIP(key) \in Owners \ {SvcOwner}
    BY DEF FloatingIP, SvcOwner, Service, Owners, Kinds
  <2> QED
    BY <1>4, <2>1, <2>2, OthersUntouched DEF SystemInv
<1> QED
  BY <1>2, <1>3, <1>4, SvcWorkerCalls DEF SystemInv

LEMMA FipStepIsLocal ==
  ASSUME SystemInv, FipStep
  PROVE  /\ \A key \in Keys : /\ allocated'[Service(key)] = allocated[Service(key)]
                              /\ checked'[Service(key)] = checked[Service(key)]
         /\ nets' = nets
<1>1. FipNext
  BY DEF FipStep
<1>2. CASE ~FipWorker
  <2>1. UNCHANGED allocVars
    BY <1>1, <1>2, FipUserKeeps, FipEventPreserves DEF FipNext, SystemInv
  <2> QED
    BY <2>1 DEF allocVars
<1>3. CASE UNCHANGED allocVars
  BY <1>3 DEF allocVars
<1>4. CASE fipWork.pc # "idle" /\ CallFor(FipOwner)
  <2>1. FipOwner \in Owners
    BY <1>4, FipOwnerIsOwner DEF SystemInv
  <2>2. \A key \in Keys : Service(key) \in Owners \ {FipOwner}
    BY DEF Service, FipOwner, FloatingIP, Owners, Kinds
  <2> QED
    BY <1>4, <2>1, <2>2, OthersUntouched DEF SystemInv
<1> QED
  BY <1>2, <1>3, <1>4, FipWorkerCalls DEF SystemInv

\* A load forgets all leases or nothing, and no call between two sections.
LEMMA PoolStepIsGlobal ==
  ASSUME SystemInv, PoolStep
  PROVE  /\ UNCHANGED <<svcVars, fipVars, checked>>
         /\ UNCHANGED allocVars \/ \A o \in Owners : allocated'[o] = NoIP
<1>1. PoolLoadCall /\ UNCHANGED <<svcVars, fipVars>>
  BY PoolNextPreserves DEF SystemInv, PoolStep
<1> QED
  BY <1>1 DEF PoolLoadCall, PoolCall, UpdateIPPool, allocVars

LEMMA SystemNextReleased == SystemInv /\ LeaseInv /\ [SystemNext]_vars => LeaseInv'
<1> SUFFICES ASSUME SystemInv, LeaseInv, [SystemNext]_vars
             PROVE  LeaseInv'
  OBVIOUS
<1>1. CASE PoolStep
  BY <1>1, PoolStepIsGlobal, SvcStaysReleased, FipStaysReleased DEF LeaseInv, allocVars
<1>2. CASE SvcStep
  <2>1. SvcReleased'
    BY <1>2, SvcNextReleased DEF SvcStep, SystemInv, LeaseInv
  <2> QED
    BY <1>2, <2>1, SvcStepIsLocal, FipStaysReleased DEF SvcStep, LeaseInv
<1>3. CASE FipStep
  <2>1. FipReleased'
    BY <1>3, FipNextReleased DEF FipStep, SystemInv, LeaseInv
  <2> QED
    BY <1>3, <2>1, FipStepIsLocal, SvcStaysReleased DEF FipStep, LeaseInv
<1>4. CASE SvcPoolEvent
  <2>1. SvcReleased' /\ UNCHANGED fipVars /\ UNCHANGED allocated
    BY <1>4, SvcEventReleased, PoolEventsPreserveSystem DEF SvcPoolEvent, SystemInv, LeaseInv, allocVars
  <2> QED
    BY <2>1, FipStaysReleased DEF LeaseInv
<1>5. CASE FipPoolEvent
  <2>1. FipReleased' /\ UNCHANGED svcVars /\ UNCHANGED allocated
    BY <1>5, FipEventReleased, PoolEventsPreserveSystem DEF FipPoolEvent, SystemInv, LeaseInv, allocVars
  <2> QED
    BY <2>1, SvcStaysReleased DEF LeaseInv
<1>6. CASE Restart
  BY <1>6, SvcRestartReleased, FipRestartReleased DEF Restart, SystemInv, LeaseInv
<1>7. CASE UNCHANGED vars
  BY <1>7, SvcStaysReleased, FipStaysReleased DEF vars, allocVars, LeaseInv
<1> QED
  BY <1>1, <1>2, <1>3, <1>4, <1>5, <1>6, <1>7 DEF SystemNext

LEMMA SystemNextGivesUp ==
  ASSUME PlainStrings
  PROVE  SystemInv /\ GivesUpInv /\ [SystemNext]_vars => GivesUpInv'
<1> SUFFICES ASSUME SystemInv, GivesUpInv, [SystemNext]_vars
             PROVE  GivesUpInv'
  OBVIOUS
<1>1. ASSUME UNCHANGED svcVars,
             \A key \in Keys : checked'[Service(key)] = checked[Service(key)],
             \/ /\ \A key \in Keys : allocated'[Service(key)] = allocated[Service(key)]
                /\ UNCHANGED nets
             \/ \A o \in Owners : allocated'[o] = NoIP
      PROVE  SvcGivesUp'
  BY <1>1, SvcStillGivesUp DEF svcVars, svcCtlVars, SystemInv, GivesUpInv
<1>2. ASSUME UNCHANGED fipVars,
             \A key \in Keys : checked'[FloatingIP(key)] = checked[FloatingIP(key)],
             \/ /\ \A key \in Keys : allocated'[FloatingIP(key)] = allocated[FloatingIP(key)]
                /\ UNCHANGED nets
             \/ \A o \in Owners : allocated'[o] = NoIP
      PROVE  FipGivesUp'
  BY <1>2, FipStillGivesUp DEF fipVars, fipCtlVars, SystemInv, GivesUpInv
<1>3. CASE PoolStep
  BY <1>1, <1>2, <1>3, PoolStepIsGlobal DEF GivesUpInv, allocVars
<1>4. CASE SvcStep
  <2>1. FipGivesUp'
    BY <1>2, <1>4, SvcStepIsLocal DEF SvcStep
  <2> SUFFICES SvcGivesUp'
    BY <2>1 DEF GivesUpInv
  <2>2. CASE SvcWorker
    BY <2>2, SvcWorkerGivesUp DEF SystemInv, GivesUpInv
  <2>3. CASE ~SvcWorker
    <3>1. /\ svcWork'.key = svcWork.key /\ svcWork'.pc = svcWork.pc /\ svcWork'.svc = svcWork.svc
          /\ UNCHANGED allocVars
      BY <1>4, <2>3, SvcUserKeeps, SvcEventKeepsCopy DEF SvcStep, SvcNext, SystemInv
    <3> QED
      BY <3>1, SvcStillGivesUp DEF SystemInv, GivesUpInv, allocVars
  <2> QED
    BY <2>2, <2>3
<1>5. CASE FipStep
  <2>1. SvcGivesUp'
    BY <1>1, <1>5, FipStepIsLocal DEF FipStep
  <2> SUFFICES FipGivesUp'
    BY <2>1 DEF GivesUpInv
  <2>2. CASE FipWorker
    BY <2>2, FipWorkerGivesUp DEF SystemInv, GivesUpInv
  <2>3. CASE ~FipWorker
    <3>1. /\ fipWork'.key = fipWork.key /\ fipWork'.pc = fipWork.pc /\ fipWork'.fip = fipWork.fip
          /\ UNCHANGED allocVars
      BY <1>5, <2>3, FipUserKeeps, FipEventKeepsCopy DEF FipStep, FipNext, SystemInv
    <3> QED
      BY <3>1, FipStillGivesUp DEF SystemInv, GivesUpInv, allocVars
  <2> QED
    BY <2>2, <2>3
<1>6. CASE SvcPoolEvent \/ FipPoolEvent
  <2>1. svcWork' = svcWork /\ fipWork' = fipWork /\ UNCHANGED allocVars
    BY <1>6, SvcEventKeepsCopy, FipEventKeepsCopy
    DEF SvcPoolEvent, FipPoolEvent, svcVars, svcCtlVars, fipVars, fipCtlVars
  <2> QED
    BY <2>1, SvcStillGivesUp, FipStillGivesUp DEF SystemInv, GivesUpInv, allocVars
<1>7. CASE Restart
  BY <1>7, SvcHarmlessPC, FipHarmlessPC DEF Restart, SvcRestart, FipRestart, SvcIdle, FipIdle, GivesUpInv
<1>8. CASE UNCHANGED vars
  BY <1>1, <1>2, <1>8 DEF vars, allocVars, GivesUpInv
<1> QED
  BY <1>3, <1>4, <1>5, <1>6, <1>7, <1>8 DEF SystemNext

\* A step takes an IP of the pool from an object that is content with it only if
\* it is one of the pool controller's worker.
LEMMA KeepsLeaseStep ==
  ASSUME SystemInv, GivesUpInv, SystemNext, UNCHANGED <<poolWork, poolLeft>>,
         NEW ip \in IPs, ContainsIP(ip)
  PROVE  /\ \A k \in SvcKeys :
              SvcContent(k, ip) /\ allocated[Service(k)] = ip => allocated'[Service(k)] = ip
         /\ \A k \in FipKeys :
              FipContent(k, ip) /\ allocated[FloatingIP(k)] = ip => allocated'[FloatingIP(k)] = ip
<1>1. (\A k \in SvcKeys : k \in Keys) /\ (\A k \in FipKeys : k \in Keys) /\ ip # NoIP
  BY SvcAssumption, FipAssumption, IPAssumption
<1>2. CASE PoolStep
  <2>1. ~PoolRelease /\ ~PoolLoad
    BY PoolLoadMoves DEF SystemInv
  <2>2. UNCHANGED allocVars
    BY <1>2, <2>1, PoolUserPreserves, PoolInformerPreserves
    DEF PoolStep, PoolNext, PoolWorker, PoolGet, PoolUpdateStatus, PoolRetry, SystemInv
  <2> QED
    BY <2>2 DEF allocVars
<1>3. CASE SvcStep
  <2>1. ASSUME NEW k \in FipKeys, FipContent(k, ip), allocated[FloatingIP(k)] = ip
        PROVE  allocated'[FloatingIP(k)] = ip
    BY <1>1, <1>3, <2>1, SvcStepIsLocal
  <2>2. ASSUME NEW k \in SvcKeys, SvcContent(k, ip), allocated[Service(k)] = ip
        PROVE  allocated'[Service(k)] = ip
    <3>1. CASE SvcWorker
      BY <2>2, <3>1, SvcWorkerKeeps DEF SystemInv, GivesUpInv
    <3>2. CASE ~SvcWorker
      BY <1>3, <2>2, <3>2, SvcUserKeeps, SvcEventKeepsCopy DEF SvcStep, SvcNext, SystemInv, allocVars
    <3> QED
      BY <3>1, <3>2
  <2> QED
    BY <2>1, <2>2
<1>4. CASE FipStep
  <2>1. ASSUME NEW k \in SvcKeys, SvcContent(k, ip), allocated[Service(k)] = ip
        PROVE  allocated'[Service(k)] = ip
    BY <1>1, <1>4, <2>1, FipStepIsLocal
  <2>2. ASSUME NEW k \in FipKeys, FipContent(k, ip), allocated[FloatingIP(k)] = ip
        PROVE  allocated'[FloatingIP(k)] = ip
    <3>1. CASE FipWorker
      BY <2>2, <3>1, FipWorkerKeeps DEF SystemInv, GivesUpInv
    <3>2. CASE ~FipWorker
      BY <1>4, <2>2, <3>2, FipUserKeeps, FipEventKeepsCopy DEF FipStep, FipNext, SystemInv, allocVars
    <3> QED
      BY <3>1, <3>2
  <2> QED
    BY <2>1, <2>2
<1>5. CASE SvcPoolEvent \/ FipPoolEvent
  BY <1>5, SvcEventKeepsCopy, FipEventKeepsCopy DEF SvcPoolEvent, FipPoolEvent, allocVars
<1>6. ~Restart
  BY PoolRestartCounted DEF Restart, PoolRestart, SystemInv, PoolInv, PoolVarsOK
<1> QED
  BY <1>2, <1>3, <1>4, <1>5, <1>6 DEF SystemNext
-----------------------------------------------------------------------------
(* The theorems.                                                           *)

\* When all is done, a deleted object holds no lease, whatever a sync of it was
\* doing at the time, and however many requests failed.
THEOREM DeletedObjectsHoldNothing == SystemSpec => []DeletedHoldsNothing
<1>1. SystemInit => LeaseInv
  BY SvcInitReleased, FipInitReleased DEF SystemInit, LeaseInv
<1>2. SystemInv /\ LeaseInv => DeletedHoldsNothing
  <2> SUFFICES ASSUME SystemInv, LeaseInv, Settled
               PROVE  /\ \A k \in SvcKeys : StoredService(k) = NoService => allocated[Service(k)] = NoIP
                      /\ \A k \in FipKeys :
                           StoredFloatingIP(k) = NoFloatingIP => allocated[FloatingIP(k)] = NoIP
    BY DEF DeletedHoldsNothing
  <2>1. ASSUME NEW k \in SvcKeys, StoredService(k) = NoService
        PROVE  allocated[Service(k)] = NoIP
    <3>1. Len(svcLog[k]) = 1 /\ svcQueued = {} /\ svcWork.pc = "idle"
      BY DEF Settled, SvcSettled
    <3>2. CachedService(k) = NoService
      BY <2>1, <3>1 DEF CachedService, StoredService, Last
    <3> QED
      BY <3>1, <3>2 DEF LeaseInv, SvcReleased
  <2>2. ASSUME NEW k \in FipKeys, StoredFloatingIP(k) = NoFloatingIP
        PROVE  allocated[FloatingIP(k)] = NoIP
    <3>1. Len(fipLog[k]) = 1 /\ fipQueued = {} /\ fipWork.pc = "idle"
      BY DEF Settled, FipSettled
    <3>2. CachedFloatingIP(k) = NoFloatingIP
      BY <2>2, <3>1 DEF CachedFloatingIP, StoredFloatingIP, Last
    <3> QED
      BY <3>1, <3>2 DEF LeaseInv, FipReleased
  <2> QED
    BY <2>1, <2>2
<1> QED
  BY <1>1, <1>2, SystemSpecInv, SystemNextReleased, PTL DEF SystemSpec

\* No sync takes an IP of the pool from an object that shows it and is content.
THEOREM ContentObjectsKeepTheirLease ==
  ASSUME PlainStrings
  PROVE  SystemSpec => KeepsLease
<1>1. SystemInit => GivesUpInv
  BY DEF SystemInit, SvcInit, FipInit, SvcIdle, FipIdle, GivesUpInv, SvcGivesUp, FipGivesUp
<1>2. SystemInv /\ GivesUpInv /\ [SystemNext]_vars =>
        [\A ip \in IPs : (ContainsIP(ip) /\ UNCHANGED <<poolWork, poolLeft>>) =>
           /\ \A k \in SvcKeys :
                SvcContent(k, ip) /\ allocated[Service(k)] = ip => allocated'[Service(k)] = ip
           /\ \A k \in FipKeys :
                FipContent(k, ip) /\ allocated[FloatingIP(k)] = ip => allocated'[FloatingIP(k)] = ip
        ]_vars
  BY KeepsLeaseStep
<1> QED
  BY <1>1, <1>2, SystemSpecInv, SystemNextGivesUp, PTL DEF SystemSpec, KeepsLease
=============================================================================
