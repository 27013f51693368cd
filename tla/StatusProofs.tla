---------------------------- MODULE StatusProofs ----------------------------
(***************************************************************************)
(* What the statuses show when all is done, for any objects, addresses and *)
(* bounds: the IP the spec asks for, an IP of the pool that is leased to   *)
(* the object, and no IP twice.                                            *)
(***************************************************************************)
EXTENDS LeaseProofs, FiniteSetTheorems

\* The worker's copy is the only version there is, or another is in the log or
\* was delivered, and its key queued, since the copy was made.
SvcCopied ==
  /\ svcWork.pc # "idle" =>
       IF svcWork.fresh THEN svcLog[svcWork.key] = <<svcWork.svc>>
       ELSE Len(svcLog[svcWork.key]) > 1 \/ svcWork.key \in svcQueued
  /\ svcWork.pc = "deleted" => svcWork.svc = NoService

FipCopied ==
  /\ fipWork.pc # "idle" =>
       IF fipWork.fresh THEN fipLog[fipWork.key] = <<fipWork.fip>>
       ELSE Len(fipLog[fipWork.key]) > 1 \/ fipWork.key \in fipQueued
  /\ fipWork.pc = "deleted" => fipWork.fip = NoFloatingIP

\* The key will be synced, or is being synced.
SvcComing(k) ==
  \/ k \in svcQueued \cup svcDelayed
  \/ Len(svcLog[k]) > 1
  \/ svcWork.pc # "idle" /\ svcWork.key = k

FipComing(k) ==
  \/ k \in fipQueued \cup fipDelayed
  \/ Len(fipLog[k]) > 1
  \/ fipWork.pc # "idle" /\ fipWork.key = k

SvcShown(k) == CachedService(k) # NoService /\ CachedService(k).status \in IPs
FipShown(k) == CachedFloatingIP(k) # NoFloatingIP /\ CachedFloatingIP(k).status \in IPs

\* An object that shows what its spec does not ask for will be synced.
SvcAskedInv ==
  \A k \in SvcKeys :
    SvcShown(k) => Grants(CachedService(k).want, CachedService(k).status) \/ SvcComing(k)
FipAskedInv ==
  \A k \in FipKeys :
    FipShown(k) => Grants(CachedFloatingIP(k).want, CachedFloatingIP(k).status) \/ FipComing(k)

\* The sync that ends granted the object the very IP it shows.
SvcGranted ==
  /\ svcWork.pc \in {"reclaim", "allocate", "commit"}
  /\ svcWork.svc.status \in IPs /\ allocated'[SvcOwner] = svcWork.svc.status
  /\ Grants(svcWork.svc.want, svcWork.svc.status)
  /\ svcWork.pc = "allocate" => ContainsIP(svcWork.svc.status)
  /\ svcWork.pc = "commit" => svcWork.svc.status = Canonical[svcWork.svc.want]
FipGranted ==
  /\ fipWork.pc \in {"reclaim", "allocate", "commit"}
  /\ fipWork.fip.status \in IPs /\ allocated'[FipOwner] = fipWork.fip.status
  /\ Grants(fipWork.fip.want, fipWork.fip.status)
  /\ fipWork.pc = "allocate" => ContainsIP(fipWork.fip.status)
  /\ fipWork.pc = "commit" => fipWork.fip.status = Canonical[fipWork.fip.want]
-----------------------------------------------------------------------------
(* Services: how a sync ends.                                              *)

LEMMA OneOrMore ==
  ASSUME NEW n \in Nat, n # 0
  PROVE  n = 1 \/ n > 1
  OBVIOUS

LEMMA SvcLogs ==
  ASSUME SvcInv, NEW k \in SvcKeys
  PROVE  /\ svcLog[k] \in Seq(Services \cup {NoService}) /\ svcLog[k] # <<>>
         /\ Len(svcLog[k]) = 1 \/ Len(svcLog[k]) > 1
         /\ Len(svcLog[k]) = 1 => svcLog[k] = <<CachedService(k)>> /\ StoredService(k) = CachedService(k)
         /\ \A v : svcLog[k] = <<v>> => CachedService(k) = v /\ ~(Len(svcLog[k]) > 1)
         /\ \A v : Len(Append(svcLog[k], v)) > 1
<1>1. svcLog[k] \in Seq(Services \cup {NoService}) /\ svcLog[k] # <<>>
  BY SvcVersions
<1>2. Len(svcLog[k]) = 1 \/ Len(svcLog[k]) > 1
  <2>1. Len(svcLog[k]) \in Nat /\ Len(svcLog[k]) # 0
    BY <1>1, EmptySeq
  <2> QED
    BY <2>1, OneOrMore, Zenon
<1>3. Len(svcLog[k]) = 1 => svcLog[k] = <<CachedService(k)>> /\ StoredService(k) = CachedService(k)
  BY <1>1 DEF CachedService, StoredService, Last
<1>4. \A v : svcLog[k] = <<v>> => CachedService(k) = v /\ ~(Len(svcLog[k]) > 1)
  BY DEF CachedService
<1>5. \A v : Len(Append(svcLog[k], v)) > 1
  BY <1>1, <1>2
<1> QED
  BY <1>1, <1>2, <1>3, <1>4, <1>5

\* The sync goes on with its copy.
SvcGoesOn ==
  /\ svcWork'.pc \notin {"idle", "deleted"} /\ UNCHANGED <<svcLog, svcQueued, svcDelayed>>
  /\ svcWork'.key = svcWork.key /\ svcWork'.svc = svcWork.svc /\ svcWork'.fresh = svcWork.fresh

LEMMA SvcGotoGoesOn ==
  ASSUME SvcInv, NEW pc, pc \notin {"idle", "deleted"}, SvcGoto(pc), UNCHANGED svcLog
  PROVE  SvcGoesOn /\ svcWork'.pc = pc
  BY DEF SvcGoto, SvcGoesOn, svcQueueVars, SvcInv, SvcTypeOK

LEMMA SvcSettleGoesOn ==
  ASSUME SvcInv, NEW status, SvcSettle(status), UNCHANGED svcLog
  PROVE  \/ SvcGoesOn /\ svcWork'.pc = "update"
         \/ SvcDone /\ status = svcWork.svc.status
<1>1. CASE svcWork' = [svcWork EXCEPT !.pc = "update", !.status = status] /\ UNCHANGED svcQueueVars
  BY <1>1 DEF SvcGoesOn, svcQueueVars, SvcInv, SvcTypeOK
<1> QED
  BY <1>1 DEF SvcSettle

\* A sync of key k ends with k to be synced again, or with a copy that is the
\* only version of its object, and which shows nothing or what was granted.
SvcEnds(k) ==
  /\ svcWork'.pc = "idle" /\ svcQueued' = svcQueued /\ svcDelayed \subseteq svcDelayed'
  /\ \/ SvcComing(k)'
     \/ /\ UNCHANGED svcLog /\ svcLog[k] = <<svcWork.svc>>
        /\ \/ svcWork.svc = NoService
           \/ svcWork.svc.status \notin IPs
           \/ SvcGranted

LEMMA SvcDoneEnds ==
  ASSUME SvcInv, SvcCopied, svcWork.pc # "idle", NEW k \in SvcKeys, svcWork.key = k,
         SvcDone, UNCHANGED svcLog,
         svcWork.svc = NoService \/ svcWork.svc.status \notin IPs \/ SvcGranted
  PROVE  SvcEnds(k)
<1>1. svcWork'.pc = "idle" /\ svcQueued' = svcQueued /\ svcDelayed' = svcDelayed
  BY DEF SvcDone, SvcIdle
<1>2. CASE svcWork.fresh
  BY <1>1, <1>2 DEF SvcEnds, SvcCopied
<1>3. CASE ~svcWork.fresh
  <2>1. Len(svcLog[k]) > 1 \/ k \in svcQueued
    BY <1>3 DEF SvcCopied
  <2>2. SvcComing(k)'
    BY <1>1, <2>1 DEF SvcComing
  <2> QED
    BY <1>1, <2>2 DEF SvcEnds
<1> QED
  BY <1>2, <1>3

LEMMA SvcUpdateEnds ==
  ASSUME SvcInv, SvcCopied, NEW k \in SvcKeys, svcWork.key = k,
         SvcUpdateStatus, svcLeft'.faults = svcLeft.faults
  PROVE  SvcEnds(k)
<1>1. svcWork.pc = "update" /\ svcLeft \in [ops : 0 .. MaxSvcOps, faults : 0 .. MaxSvcFaults]
  BY DEF SvcUpdateStatus, SvcInv, SvcTypeOK
<1>2. CASE svcWork.fresh /\ WriteSvcStatus /\ SvcDone
  <2>1. svcWork'.pc = "idle" /\ svcQueued' = svcQueued /\ svcDelayed' = svcDelayed
    BY <1>2 DEF SvcDone, SvcIdle
  <2>2. svcLog'[k] = Append(svcLog[k], [svcWork.svc EXCEPT !.status = svcWork.status])
    BY <1>2 DEF WriteSvcStatus, SvcInv, SvcTypeOK
  <2>3. Len(svcLog'[k]) > 1
    BY <2>2, SvcLogs
  <2> QED
    BY <2>1, <2>3 DEF SvcEnds, SvcComing
<1>3. CASE ~svcWork.fresh /\ SvcFailed /\ UNCHANGED svcLog
  <2>1. svcWork'.pc = "idle" /\ svcQueued' = svcQueued /\ svcDelayed \subseteq svcDelayed'
    BY <1>3 DEF SvcFailed, SvcIdle
  <2>2. Len(svcLog[k]) > 1 \/ k \in svcQueued
    BY <1>1, <1>3 DEF SvcCopied
  <2> QED
    BY <1>3, <2>1, <2>2 DEF SvcEnds, SvcComing
<1>4. ~(svcLeft' = [svcLeft EXCEPT !.faults = @ - 1])
  BY <1>1
<1> QED
  BY <1>2, <1>3, <1>4 DEF SvcUpdateStatus

LEMMA SvcGoesOnOrEnds ==
  ASSUME IInv, SvcInv, SvcAsksEmptyHanded, SvcCopied, SvcWorker, NEW k \in SvcKeys, svcWork.key = k,
         svcWork.pc # "idle", svcLeft'.faults = svcLeft.faults
  PROVE  SvcGoesOn \/ SvcEnds(k)
<1>1. /\ allocated \in [Owners -> IPs \cup {NoIP}] /\ SvcOwner \in Owners
      /\ NoIP \notin IPs /\ NoIngress \notin IPs
  BY SvcOwnerIsOwner, IPAssumption, SvcAssumption DEF IInv, TypeOK
<1>2. CASE SvcFreeDeleted
  <2>1. SvcDone /\ UNCHANGED svcLog /\ svcWork.pc = "deleted"
    BY <1>2 DEF SvcFreeDeleted
  <2> QED
    BY <2>1, SvcDoneEnds DEF SvcCopied
<1>3. CASE SvcStrip
  <2>1. SvcSettle(NoIngress) /\ UNCHANGED svcLog
    BY <1>3 DEF SvcStrip
  <2>2. SvcGoesOn \/ (SvcDone /\ svcWork.svc.status = NoIngress)
    BY <2>1, SvcSettleGoesOn
  <2> QED
    BY <1>1, <2>1, <2>2, SvcDoneEnds
<1>4. CASE SvcRecheck \/ SvcClear
  <2>1. UNCHANGED svcLog /\ (SvcGoto("reclaim") \/ SvcGoto("clear") \/ SvcGoto("allocate"))
    BY <1>4 DEF SvcRecheck, SvcClear
  <2> QED
    BY <2>1, SvcGotoGoesOn
<1>5. CASE SvcReclaim
  <2>1. UNCHANGED svcLog /\ svcWork.pc = "reclaim"
    BY <1>5 DEF SvcReclaim
  <2>2. CASE SvcGoto("clear")
    BY <2>1, <2>2, SvcGotoGoesOn
  <2>3. CASE allocated'[SvcOwner] = svcWork.svc.status /\ ~DesiredChanged /\ SvcSettle(svcWork.svc.status)
    <3>1. CASE svcWork.svc.status \in IPs /\ SvcDone
      <4>1. SvcGranted
        BY <2>1, <2>3, <3>1, IPAssumption DEF SvcGranted, DesiredChanged, Grants
      <4> QED
        BY <2>1, <3>1, <4>1, SvcDoneEnds
    <3> QED
      BY <2>1, <2>3, <3>1, SvcDoneEnds, SvcSettleGoesOn
  <2> QED
    BY <1>5, <2>2, <2>3 DEF SvcReclaim
<1>6. CASE SvcAllocate
  <2>1. UNCHANGED svcLog /\ svcWork.pc = "allocate" /\ allocated[SvcOwner] = NoIP
    BY <1>6 DEF SvcAllocate, SvcAsksEmptyHanded
  <2>2. CASE SvcGoto("giveup") \/ SvcGoto("commit")
    BY <2>1, <2>2, SvcGotoGoesOn
  <2>3. CASE /\ svcWork.svc.want = NoIP /\ AllocateServiceIPFromPool(svcWork.key)
             /\ allocated'[SvcOwner] # NoIP /\ SvcSettle(allocated'[SvcOwner])
    <3>1. CASE SvcDone /\ allocated'[SvcOwner] = svcWork.svc.status
      <4>1. PICK i \in DOMAIN nets : \E j \in DOMAIN nets[i] : Lease(SvcOwner, nets[i][j])
        BY <2>1, <2>3 DEF AllocateServiceIPFromPool, AllocateFromPool, SvcOwner
      <4>2. ContainsIP(svcWork.svc.status)
        BY <1>1, <3>1, <4>1 DEF Lease, ContainsIP
      <4>3. svcWork.svc.status \in IPs => SvcGranted
        BY <2>1, <2>3, <3>1, <4>2 DEF SvcGranted, Grants
      <4> QED
        BY <2>1, <3>1, <4>3, SvcDoneEnds
    <3> QED
      BY <2>1, <2>3, <3>1, SvcSettleGoesOn
  <2> QED
    BY <1>6, <2>2, <2>3 DEF SvcAllocate
<1>7. CASE SvcCommit
  <2>1. UNCHANGED svcLog /\ svcWork.pc = "commit"
    BY <1>7 DEF SvcCommit
  <2>2. CASE SvcGoto("giveup")
    BY <2>1, <2>2, SvcGotoGoesOn
  <2>3. CASE /\ allocated'[SvcOwner] = Canonical[svcWork.svc.want]
             /\ SvcSettle(Canonical[svcWork.svc.want])
    <3>1. CASE SvcDone /\ Canonical[svcWork.svc.want] = svcWork.svc.status
      <4>1. svcWork.svc.status \in IPs => SvcGranted
        BY <2>1, <2>3, <3>1 DEF SvcGranted, Grants
      <4> QED
        BY <2>1, <3>1, <4>1, SvcDoneEnds
    <3> QED
      BY <2>1, <2>3, <3>1, SvcSettleGoesOn
  <2> QED
    BY <1>7, <2>2, <2>3 DEF SvcCommit
<1>8. CASE SvcGiveUp
  <2>1. SvcSettle(NoIP) /\ UNCHANGED svcLog
    BY <1>8 DEF SvcGiveUp
  <2>2. SvcGoesOn \/ (SvcDone /\ svcWork.svc.status = NoIP)
    BY <2>1, SvcSettleGoesOn
  <2> QED
    BY <1>1, <2>1, <2>2, SvcDoneEnds
<1>9. CASE SvcUpdateStatus
  BY <1>9, SvcUpdateEnds
<1>10. ~ \E j \in SvcKeys : SvcGet(j)
  BY DEF SvcGet
<1> QED
  BY <1>2, <1>3, <1>4, <1>5, <1>6, <1>7, <1>8, <1>9, <1>10 DEF SvcWorker

\* What a step of the controller may mean for key k.
SvcOutcome(k) ==
  \/ SvcComing(k)'
  \/ /\ CachedService(k)' = CachedService(k)
     /\ \/ ~SvcComing(k) /\ allocated'[Service(k)] = allocated[Service(k)]
        \/ CachedService(k) = NoService \/ CachedService(k).status \notin IPs
        \/ /\ svcLog[k] = <<svcWork.svc>> /\ svcWork.key = k /\ SvcGranted
           /\ k \notin svcQueued

\* The worker writes the log of its own key only.
LEMMA SvcWorkerWrites ==
  ASSUME SvcInv, SvcWorker, NEW k \in SvcKeys, k # svcWork.key
  PROVE  svcLog'[k] = svcLog[k]
<1>1. UNCHANGED svcLog \/ WriteSvcStatus
  BY Zenon DEF SvcWorker, SvcGet, SvcFreeDeleted, SvcStrip, SvcRecheck, SvcReclaim, SvcClear, SvcAllocate, SvcCommit, SvcGiveUp, SvcUpdateStatus
<1> QED
  BY <1>1 DEF WriteSvcStatus, SvcInv, SvcTypeOK

LEMMA SvcSyncOutcome ==
  ASSUME IInv, SvcInv, SvcAsksEmptyHanded, SvcCopied, SvcWorker, \A j \in SvcKeys : ~SvcGet(j),
         svcLeft'.faults = svcLeft.faults
  PROVE  SvcCopied' /\ \A k \in SvcKeys : SvcOutcome(k)
<1>1. /\ svcWork.pc # "idle" /\ svcQueued' = svcQueued
      /\ \A k \in SvcKeys : CachedService(k)' = CachedService(k)
  BY SvcWorkerMoves
<1>2. svcWork.key \in SvcKeys /\ SvcOwner \in Owners
  BY <1>1, SvcOwnerIsOwner
<1>3. PICK i \in SvcKeys : i = svcWork.key
  BY <1>2
<1>4. SvcGoesOn \/ SvcEnds(i)
  BY <1>1, <1>3, SvcGoesOnOrEnds
<1>5. svcDelayed \subseteq svcDelayed'
  BY <1>4 DEF SvcGoesOn, SvcEnds
<1>6. SvcCopied'
  <2>1. CASE SvcGoesOn
    BY <1>1, <2>1 DEF SvcGoesOn, SvcCopied
  <2>2. CASE SvcEnds(i)
    BY <2>2 DEF SvcEnds, SvcCopied
  <2> QED
    BY <1>4, <2>1, <2>2
<1>7. SvcOutcome(i)
  <2>1. CASE SvcGoesOn
    BY <1>3, <2>1 DEF SvcGoesOn, SvcOutcome, SvcComing
  <2>2. CASE i \in svcQueued
    BY <1>1, <2>2 DEF SvcOutcome, SvcComing
  <2>3. CASE SvcEnds(i) /\ i \notin svcQueued
    <3>1. ASSUME svcLog[i] = <<svcWork.svc>>
          PROVE  CachedService(i) = svcWork.svc
      BY <3>1, SvcLogs
    <3> QED
      BY <1>1, <1>3, <2>3, <3>1 DEF SvcEnds, SvcOutcome
  <2> QED
    BY <1>4, <2>1, <2>2, <2>3
<1>8. ASSUME NEW k \in SvcKeys, k # i
      PROVE  SvcOutcome(k)
  <2>1. svcLog'[k] = svcLog[k]
    BY <1>3, <1>8, SvcWorkerWrites
  <2>2. SvcComing(k) => SvcComing(k)'
    BY <1>1, <1>3, <1>5, <1>8, <2>1 DEF SvcComing
  <2>3. Service(k) \in Owners /\ Service(k) # SvcOwner
    BY <1>3, <1>8, SvcAssumption DEF Service, SvcOwner, Owners, Kinds
  <2>4. allocated'[Service(k)] = allocated[Service(k)]
    BY <1>2, <2>3, SvcWorkerCalls, OthersUntouched DEF allocVars
  <2> QED
    BY <1>1, <2>2, <2>4 DEF SvcOutcome
<1> QED
  BY <1>6, <1>7, <1>8

LEMMA SvcGetOutcome ==
  ASSUME SvcInv, SvcCopied, NEW j \in SvcKeys, SvcGet(j)
  PROVE  SvcCopied' /\ \A k \in SvcKeys : SvcOutcome(k)
<1>1. /\ svcWork.pc = "idle" /\ svcQueued' = svcQueued \ {j}
      /\ UNCHANGED <<svcDelayed, svcLog, svcLeft, allocated>>
  BY DEF SvcGet, allocVars
<1>2. \/ /\ svcWork'.pc # "idle" /\ svcWork'.key = j /\ svcWork'.svc = CachedService(j)
         /\ svcWork'.fresh = (Len(svcLog[j]) = 1)
         /\ svcWork'.pc = "deleted" => CachedService(j) = NoService
      \/ /\ svcWork' = svcWork
         /\ CachedService(j).status = NoIngress
  <2>1. ASSUME NEW pc, SvcStart(j, pc)
        PROVE  /\ svcWork'.pc = pc /\ svcWork'.key = j /\ svcWork'.svc = CachedService(j)
               /\ svcWork'.fresh = (Len(svcLog[j]) = 1)
    BY <2>1 DEF SvcStart
  <2>2. \/ CachedService(j) = NoService /\ SvcStart(j, "deleted")
        \/ SvcStart(j, "strip") \/ SvcStart(j, "recheck") \/ SvcStart(j, "clear")
        \/ CachedService(j).status = NoIngress /\ svcWork' = svcWork
    BY DEF SvcGet
  <2> QED
    BY <2>1, <2>2
<1>3. \A k \in SvcKeys : CachedService(k)' = CachedService(k)
  BY <1>1 DEF CachedService
<1>4. NoIngress \notin IPs
  BY SvcAssumption, IPAssumption
<1>5. SvcCopied'
  <2>1. /\ Len(svcLog[j]) = 1 => svcLog[j] = <<CachedService(j)>>
        /\ svcLog' = svcLog
    BY <1>1, SvcLogs
  <2>2. Len(svcLog[j]) # 1 => Len(svcLog[j]) > 1
    BY SvcLogs
  <2>3. CASE svcWork' = svcWork
    BY <1>1, <2>3 DEF SvcCopied
  <2>4. CASE /\ svcWork'.key = j /\ svcWork'.svc = CachedService(j)
             /\ svcWork'.fresh = (Len(svcLog[j]) = 1)
             /\ svcWork'.pc = "deleted" => CachedService(j) = NoService
    <3>1. /\ svcWork'.fresh => svcLog'[j] = <<svcWork'.svc>>
          /\ ~svcWork'.fresh => Len(svcLog'[j]) > 1
      BY <2>1, <2>2, <2>4, Zenon
    <3> QED
      BY <2>4, <3>1 DEF SvcCopied
  <2> QED
    BY <1>2, <2>3, <2>4
<1>6. ASSUME NEW k \in SvcKeys
      PROVE  SvcOutcome(k)
  <2>1. CASE k = j
    BY <1>2, <1>3, <1>4, <2>1 DEF SvcOutcome, SvcComing
  <2>2. CASE k # j
    <3>1. SvcComing(k) => SvcComing(k)'
      BY <1>1, <2>2 DEF SvcComing
    <3> QED
      BY <1>1, <1>3, <3>1 DEF SvcOutcome, Service
  <2> QED
    BY <2>1, <2>2
<1> QED
  BY <1>5, <1>6

LEMMA SvcUserOutcome ==
  ASSUME SvcInv, SvcCopied, SvcUser
  PROVE  SvcCopied' /\ \A k \in SvcKeys : SvcOutcome(k)
<1>1. /\ svcWork'.key = svcWork.key /\ svcWork'.pc = svcWork.pc /\ svcWork'.svc = svcWork.svc
      /\ svcQueued' = svcQueued /\ UNCHANGED allocated
      /\ \A k \in SvcKeys : CachedService(k)' = CachedService(k)
  BY SvcUserKeeps DEF allocVars
<1>2. /\ svcDelayed' = svcDelayed
      /\ \E j \in SvcKeys : \E v : StoreService(j, v)
  BY Zenon DEF SvcUser, SvcCreate, SvcSetIP, SvcSetType, SvcTouch, SvcSetStatus, SvcDelete, UserSvcOp, svcQueueVars
<1>3. PICK j \in SvcKeys : \E v : StoreService(j, v)
  BY <1>2
<1>4. PICK v : StoreService(j, v)
  BY <1>3
<1>5. /\ svcLog'[j] = Append(svcLog[j], v)
      /\ \A k \in SvcKeys \ {j} : svcLog'[k] = svcLog[k]
  BY <1>4 DEF StoreService, SvcInv, SvcTypeOK
<1>6. Len(svcLog'[j]) > 1
  BY <1>5, SvcLogs
<1>7. svcWork'.fresh => svcWork.fresh /\ svcWork.key # j
  BY <1>4 DEF StoreService, SvcInv, SvcTypeOK
<1>8. svcWork.fresh /\ svcWork.key # j => svcWork'.fresh
  BY <1>4 DEF StoreService, SvcInv, SvcTypeOK
<1>9. SvcCopied'
  <2>1. svcWork.pc # "idle" => svcWork.key \in SvcKeys
    BY SvcOwnerIsOwner
  <2>2. CASE svcWork.key = j
    BY <1>1, <1>6, <1>7, <2>2 DEF SvcCopied
  <2>3. CASE svcWork.key # j
    BY <1>1, <1>5, <1>7, <1>8, <2>1, <2>3 DEF SvcCopied
  <2> QED
    BY <2>2, <2>3
<1>10. ASSUME NEW k \in SvcKeys
       PROVE  SvcOutcome(k)
  <2>1. CASE k = j
    BY <1>6, <2>1 DEF SvcOutcome, SvcComing
  <2>2. CASE k # j
    <3>1. svcLog'[k] = svcLog[k]
      BY <1>5, <2>2
    <3>2. SvcComing(k) => SvcComing(k)'
      BY <1>1, <1>2, <3>1 DEF SvcComing
    <3> QED
      BY <1>1, <3>2 DEF SvcOutcome, Service
  <2> QED
    BY <2>1, <2>2
<1> QED
  BY <1>9, <1>10

LEMMA SvcEventOutcome ==
  ASSUME SvcInv, SvcCopied,
         \/ \E k \in SvcKeys : SvcDeliver(k) \/ SvcRetry(k)
         \/ SvcResync
         \/ SvcOnPoolChange
  PROVE  SvcCopied' /\ \A k \in SvcKeys : SvcOutcome(k)
<1>1. svcWork' = svcWork /\ UNCHANGED allocated /\ svcQueued \subseteq svcQueued'
  BY DEF SvcDeliver, SvcRetry, SvcResync, SvcOnPoolChange, svcCtlVars, allocVars
<1>2. ASSUME NEW k \in SvcKeys
      PROVE  \/ svcLog'[k] = svcLog[k]
             \/ Len(svcLog[k]) > 1 /\ k \in svcQueued'
  BY DEF SvcDeliver, SvcRetry, SvcResync, SvcOnPoolChange, SvcInv, SvcTypeOK
<1>3. svcDelayed \subseteq svcDelayed' \cup svcQueued'
  BY DEF SvcDeliver, SvcRetry, SvcResync, SvcOnPoolChange, svcCtlVars, svcQueueVars
<1>4. SvcCopied'
  <2>1. svcWork.pc # "idle" => svcWork.key \in SvcKeys
    BY SvcOwnerIsOwner
  <2>2. CASE svcWork.pc # "idle"
    <3>1. svcWork.fresh => ~(Len(svcLog[svcWork.key]) > 1)
      BY <2>1, <2>2, SvcLogs DEF SvcCopied
    <3> QED
      BY <1>1, <1>2, <2>1, <2>2, <3>1 DEF SvcCopied
  <2> QED
    BY <1>1, <2>2 DEF SvcCopied
<1>5. ASSUME NEW k \in SvcKeys
      PROVE  SvcOutcome(k)
  <2>1. SvcComing(k) => SvcComing(k)'
    BY <1>1, <1>2, <1>3 DEF SvcComing
  <2>2. svcLog'[k] = svcLog[k] => CachedService(k)' = CachedService(k)
    BY DEF CachedService
  <2>3. k \in svcQueued' => SvcComing(k)'
    BY DEF SvcComing
  <2> QED
    BY <1>1, <1>2, <2>1, <2>2, <2>3 DEF SvcOutcome, Service
<1> QED
  BY <1>4, <1>5

LEMMA SvcNextOutcome ==
  ASSUME IInv, SvcInv, SvcAsksEmptyHanded, SvcCopied, SvcNext, svcLeft'.faults = svcLeft.faults
  PROVE  SvcCopied' /\ \A k \in SvcKeys : SvcOutcome(k)
<1>1. CASE SvcWorker
  <2>1. CASE \E j \in SvcKeys : SvcGet(j)
    BY <2>1, SvcGetOutcome
  <2> QED
    BY <1>1, <2>1, SvcSyncOutcome
<1> QED
  BY <1>1, SvcUserOutcome, SvcEventOutcome DEF SvcNext
-----------------------------------------------------------------------------
(* FloatingIPs: the same.                                                  *)

LEMMA FipLogs ==
  ASSUME FipInv, NEW k \in FipKeys
  PROVE  /\ fipLog[k] \in Seq(FloatingIPs \cup {NoFloatingIP}) /\ fipLog[k] # <<>>
         /\ Len(fipLog[k]) = 1 \/ Len(fipLog[k]) > 1
         /\ Len(fipLog[k]) = 1 => fipLog[k] = <<CachedFloatingIP(k)>> /\ StoredFloatingIP(k) = CachedFloatingIP(k)
         /\ \A v : fipLog[k] = <<v>> => CachedFloatingIP(k) = v /\ ~(Len(fipLog[k]) > 1)
         /\ \A v : Len(Append(fipLog[k], v)) > 1
<1>1. fipLog[k] \in Seq(FloatingIPs \cup {NoFloatingIP}) /\ fipLog[k] # <<>>
  BY FipVersions
<1>2. Len(fipLog[k]) = 1 \/ Len(fipLog[k]) > 1
  <2>1. Len(fipLog[k]) \in Nat /\ Len(fipLog[k]) # 0
    BY <1>1, EmptySeq
  <2> QED
    BY <2>1, OneOrMore, Zenon
<1>3. Len(fipLog[k]) = 1 => fipLog[k] = <<CachedFloatingIP(k)>> /\ StoredFloatingIP(k) = CachedFloatingIP(k)
  BY <1>1 DEF CachedFloatingIP, StoredFloatingIP, Last
<1>4. \A v : fipLog[k] = <<v>> => CachedFloatingIP(k) = v /\ ~(Len(fipLog[k]) > 1)
  BY DEF CachedFloatingIP
<1>5. \A v : Len(Append(fipLog[k], v)) > 1
  BY <1>1, <1>2
<1> QED
  BY <1>1, <1>2, <1>3, <1>4, <1>5

\* The sync goes on with its copy.
FipGoesOn ==
  /\ fipWork'.pc \notin {"idle", "deleted"} /\ UNCHANGED <<fipLog, fipQueued, fipDelayed>>
  /\ fipWork'.key = fipWork.key /\ fipWork'.fip = fipWork.fip /\ fipWork'.fresh = fipWork.fresh

LEMMA FipGotoGoesOn ==
  ASSUME FipInv, NEW pc, pc \notin {"idle", "deleted"}, FipGoto(pc), UNCHANGED fipLog
  PROVE  FipGoesOn /\ fipWork'.pc = pc
  BY DEF FipGoto, FipGoesOn, fipQueueVars, FipInv, FipTypeOK

LEMMA FipSettleGoesOn ==
  ASSUME FipInv, NEW status, FipSettle(status), UNCHANGED fipLog
  PROVE  \/ FipGoesOn /\ fipWork'.pc = "update"
         \/ FipDone /\ status = fipWork.fip.status
<1>1. CASE fipWork' = [fipWork EXCEPT !.pc = "update", !.status = status] /\ UNCHANGED fipQueueVars
  BY <1>1 DEF FipGoesOn, fipQueueVars, FipInv, FipTypeOK
<1> QED
  BY <1>1 DEF FipSettle

\* A sync of key k ends with k to be synced again, or with a copy that is the
\* only version of its object, and which shows nothing or what was granted.
FipEnds(k) ==
  /\ fipWork'.pc = "idle" /\ fipQueued' = fipQueued /\ fipDelayed \subseteq fipDelayed'
  /\ \/ FipComing(k)'
     \/ /\ UNCHANGED fipLog /\ fipLog[k] = <<fipWork.fip>>
        /\ \/ fipWork.fip = NoFloatingIP
           \/ fipWork.fip.status \notin IPs
           \/ FipGranted

LEMMA FipDoneEnds ==
  ASSUME FipInv, FipCopied, fipWork.pc # "idle", NEW k \in FipKeys, fipWork.key = k,
         FipDone, UNCHANGED fipLog,
         fipWork.fip = NoFloatingIP \/ fipWork.fip.status \notin IPs \/ FipGranted
  PROVE  FipEnds(k)
<1>1. fipWork'.pc = "idle" /\ fipQueued' = fipQueued /\ fipDelayed' = fipDelayed
  BY DEF FipDone, FipIdle
<1>2. CASE fipWork.fresh
  BY <1>1, <1>2 DEF FipEnds, FipCopied
<1>3. CASE ~fipWork.fresh
  <2>1. Len(fipLog[k]) > 1 \/ k \in fipQueued
    BY <1>3 DEF FipCopied
  <2>2. FipComing(k)'
    BY <1>1, <2>1 DEF FipComing
  <2> QED
    BY <1>1, <2>2 DEF FipEnds
<1> QED
  BY <1>2, <1>3

LEMMA FipUpdateEnds ==
  ASSUME FipInv, FipCopied, NEW k \in FipKeys, fipWork.key = k,
         FipUpdateStatus, fipLeft'.faults = fipLeft.faults
  PROVE  FipEnds(k)
<1>1. fipWork.pc = "update" /\ fipLeft \in [ops : 0 .. MaxFipOps, faults : 0 .. MaxFipFaults]
  BY DEF FipUpdateStatus, FipInv, FipTypeOK
<1>2. CASE fipWork.fresh /\ WriteFipStatus /\ FipDone
  <2>1. fipWork'.pc = "idle" /\ fipQueued' = fipQueued /\ fipDelayed' = fipDelayed
    BY <1>2 DEF FipDone, FipIdle
  <2>2. fipLog'[k] = Append(fipLog[k], [fipWork.fip EXCEPT !.status = fipWork.status])
    BY <1>2 DEF WriteFipStatus, FipInv, FipTypeOK
  <2>3. Len(fipLog'[k]) > 1
    BY <2>2, FipLogs
  <2> QED
    BY <2>1, <2>3 DEF FipEnds, FipComing
<1>3. CASE ~fipWork.fresh /\ FipFailed /\ UNCHANGED fipLog
  <2>1. fipWork'.pc = "idle" /\ fipQueued' = fipQueued /\ fipDelayed \subseteq fipDelayed'
    BY <1>3 DEF FipFailed, FipIdle
  <2>2. Len(fipLog[k]) > 1 \/ k \in fipQueued
    BY <1>1, <1>3 DEF FipCopied
  <2> QED
    BY <1>3, <2>1, <2>2 DEF FipEnds, FipComing
<1>4. ~(fipLeft' = [fipLeft EXCEPT !.faults = @ - 1])
  BY <1>1
<1> QED
  BY <1>2, <1>3, <1>4 DEF FipUpdateStatus

LEMMA FipGoesOnOrEnds ==
  ASSUME IInv, FipInv, FipAsksEmptyHanded, FipCopied, FipWorker, NEW k \in FipKeys, fipWork.key = k,
         fipWork.pc # "idle", fipLeft'.faults = fipLeft.faults
  PROVE  FipGoesOn \/ FipEnds(k)
<1>1. /\ allocated \in [Owners -> IPs \cup {NoIP}] /\ FipOwner \in Owners
      /\ NoIP \notin IPs
  BY FipOwnerIsOwner, IPAssumption DEF IInv, TypeOK
<1>2. CASE FipFreeDeleted
  <2>1. FipDone /\ UNCHANGED fipLog /\ fipWork.pc = "deleted"
    BY <1>2 DEF FipFreeDeleted
  <2> QED
    BY <2>1, FipDoneEnds DEF FipCopied
<1>4. CASE FipRecheck \/ FipClear
  <2>1. UNCHANGED fipLog /\ (FipGoto("reclaim") \/ FipGoto("clear") \/ FipGoto("allocate"))
    BY <1>4 DEF FipRecheck, FipClear
  <2> QED
    BY <2>1, FipGotoGoesOn
<1>5. CASE FipReclaim
  <2>1. UNCHANGED fipLog /\ fipWork.pc = "reclaim"
    BY <1>5 DEF FipReclaim
  <2>2. CASE FipGoto("clear")
    BY <2>1, <2>2, FipGotoGoesOn
  <2>3. CASE allocated'[FipOwner] = fipWork.fip.status /\ ~FipDesiredChanged /\ FipSettle(fipWork.fip.status)
    <3>1. CASE fipWork.fip.status \in IPs /\ FipDone
      <4>1. FipGranted
        BY <2>1, <2>3, <3>1, IPAssumption DEF FipGranted, FipDesiredChanged, Grants
      <4> QED
        BY <2>1, <3>1, <4>1, FipDoneEnds
    <3> QED
      BY <2>1, <2>3, <3>1, FipDoneEnds, FipSettleGoesOn
  <2> QED
    BY <1>5, <2>2, <2>3 DEF FipReclaim
<1>6. CASE FipAllocate
  <2>1. UNCHANGED fipLog /\ fipWork.pc = "allocate" /\ allocated[FipOwner] = NoIP
    BY <1>6 DEF FipAllocate, FipAsksEmptyHanded
  <2>2. CASE FipGoto("giveup") \/ FipGoto("commit")
    BY <2>1, <2>2, FipGotoGoesOn
  <2>3. CASE /\ fipWork.fip.want = NoIP /\ AllocateFloatingIPFromPool(fipWork.key)
             /\ allocated'[FipOwner] # NoIP /\ FipSettle(allocated'[FipOwner])
    <3>1. CASE FipDone /\ allocated'[FipOwner] = fipWork.fip.status
      <4>1. PICK i \in DOMAIN nets : \E j \in DOMAIN nets[i] : Lease(FipOwner, nets[i][j])
        BY <2>1, <2>3 DEF AllocateFloatingIPFromPool, AllocateFromPool, FipOwner
      <4>2. ContainsIP(fipWork.fip.status)
        BY <1>1, <3>1, <4>1 DEF Lease, ContainsIP
      <4>3. fipWork.fip.status \in IPs => FipGranted
        BY <2>1, <2>3, <3>1, <4>2 DEF FipGranted, Grants
      <4> QED
        BY <2>1, <3>1, <4>3, FipDoneEnds
    <3> QED
      BY <2>1, <2>3, <3>1, FipSettleGoesOn
  <2> QED
    BY <1>6, <2>2, <2>3 DEF FipAllocate
<1>7. CASE FipCommit
  <2>1. UNCHANGED fipLog /\ fipWork.pc = "commit"
    BY <1>7 DEF FipCommit
  <2>2. CASE FipGoto("giveup")
    BY <2>1, <2>2, FipGotoGoesOn
  <2>3. CASE /\ allocated'[FipOwner] = Canonical[fipWork.fip.want]
             /\ FipSettle(Canonical[fipWork.fip.want])
    <3>1. CASE FipDone /\ Canonical[fipWork.fip.want] = fipWork.fip.status
      <4>1. fipWork.fip.status \in IPs => FipGranted
        BY <2>1, <2>3, <3>1 DEF FipGranted, Grants
      <4> QED
        BY <2>1, <3>1, <4>1, FipDoneEnds
    <3> QED
      BY <2>1, <2>3, <3>1, FipSettleGoesOn
  <2> QED
    BY <1>7, <2>2, <2>3 DEF FipCommit
<1>8. CASE FipGiveUp
  <2>1. FipSettle(NoIP) /\ UNCHANGED fipLog
    BY <1>8 DEF FipGiveUp
  <2>2. FipGoesOn \/ (FipDone /\ fipWork.fip.status = NoIP)
    BY <2>1, FipSettleGoesOn
  <2> QED
    BY <1>1, <2>1, <2>2, FipDoneEnds
<1>9. CASE FipUpdateStatus
  BY <1>9, FipUpdateEnds
<1>10. ~ \E j \in FipKeys : FipGet(j)
  BY DEF FipGet
<1> QED
  BY <1>2, <1>4, <1>5, <1>6, <1>7, <1>8, <1>9, <1>10 DEF FipWorker

\* What a step of the controller may mean for key k.
FipOutcome(k) ==
  \/ FipComing(k)'
  \/ /\ CachedFloatingIP(k)' = CachedFloatingIP(k)
     /\ \/ ~FipComing(k) /\ allocated'[FloatingIP(k)] = allocated[FloatingIP(k)]
        \/ CachedFloatingIP(k) = NoFloatingIP \/ CachedFloatingIP(k).status \notin IPs
        \/ /\ fipLog[k] = <<fipWork.fip>> /\ fipWork.key = k /\ FipGranted
           /\ k \notin fipQueued

\* The worker writes the log of its own key only.
LEMMA FipWorkerWrites ==
  ASSUME FipInv, FipWorker, NEW k \in FipKeys, k # fipWork.key
  PROVE  fipLog'[k] = fipLog[k]
<1>1. UNCHANGED fipLog \/ WriteFipStatus
  BY Zenon DEF FipWorker, FipGet, FipFreeDeleted, FipRecheck, FipReclaim, FipClear, FipAllocate, FipCommit, FipGiveUp, FipUpdateStatus
<1> QED
  BY <1>1 DEF WriteFipStatus, FipInv, FipTypeOK

LEMMA FipSyncOutcome ==
  ASSUME IInv, FipInv, FipAsksEmptyHanded, FipCopied, FipWorker, \A j \in FipKeys : ~FipGet(j),
         fipLeft'.faults = fipLeft.faults
  PROVE  FipCopied' /\ \A k \in FipKeys : FipOutcome(k)
<1>1. /\ fipWork.pc # "idle" /\ fipQueued' = fipQueued
      /\ \A k \in FipKeys : CachedFloatingIP(k)' = CachedFloatingIP(k)
  BY FipWorkerMoves
<1>2. fipWork.key \in FipKeys /\ FipOwner \in Owners
  BY <1>1, FipOwnerIsOwner
<1>3. PICK i \in FipKeys : i = fipWork.key
  BY <1>2
<1>4. FipGoesOn \/ FipEnds(i)
  BY <1>1, <1>3, FipGoesOnOrEnds
<1>5. fipDelayed \subseteq fipDelayed'
  BY <1>4 DEF FipGoesOn, FipEnds
<1>6. FipCopied'
  <2>1. CASE FipGoesOn
    BY <1>1, <2>1 DEF FipGoesOn, FipCopied
  <2>2. CASE FipEnds(i)
    BY <2>2 DEF FipEnds, FipCopied
  <2> QED
    BY <1>4, <2>1, <2>2
<1>7. FipOutcome(i)
  <2>1. CASE FipGoesOn
    BY <1>3, <2>1 DEF FipGoesOn, FipOutcome, FipComing
  <2>2. CASE i \in fipQueued
    BY <1>1, <2>2 DEF FipOutcome, FipComing
  <2>3. CASE FipEnds(i) /\ i \notin fipQueued
    <3>1. ASSUME fipLog[i] = <<fipWork.fip>>
          PROVE  CachedFloatingIP(i) = fipWork.fip
      BY <3>1, FipLogs
    <3> QED
      BY <1>1, <1>3, <2>3, <3>1 DEF FipEnds, FipOutcome
  <2> QED
    BY <1>4, <2>1, <2>2, <2>3
<1>8. ASSUME NEW k \in FipKeys, k # i
      PROVE  FipOutcome(k)
  <2>1. fipLog'[k] = fipLog[k]
    BY <1>3, <1>8, FipWorkerWrites
  <2>2. FipComing(k) => FipComing(k)'
    BY <1>1, <1>3, <1>5, <1>8, <2>1 DEF FipComing
  <2>3. FloatingIP(k) \in Owners /\ FloatingIP(k) # FipOwner
    BY <1>3, <1>8, FipAssumption DEF FloatingIP, FipOwner, Owners, Kinds
  <2>4. allocated'[FloatingIP(k)] = allocated[FloatingIP(k)]
    BY <1>2, <2>3, FipWorkerCalls, OthersUntouched DEF allocVars
  <2> QED
    BY <1>1, <2>2, <2>4 DEF FipOutcome
<1> QED
  BY <1>6, <1>7, <1>8

LEMMA FipGetOutcome ==
  ASSUME FipInv, FipCopied, NEW j \in FipKeys, FipGet(j)
  PROVE  FipCopied' /\ \A k \in FipKeys : FipOutcome(k)
<1>1. /\ fipWork.pc = "idle" /\ fipQueued' = fipQueued \ {j}
      /\ UNCHANGED <<fipDelayed, fipLog, fipLeft, allocated>>
  BY DEF FipGet, allocVars
<1>2. /\ fipWork'.pc # "idle" /\ fipWork'.key = j /\ fipWork'.fip = CachedFloatingIP(j)
      /\ fipWork'.fresh = (Len(fipLog[j]) = 1)
      /\ fipWork'.pc = "deleted" => CachedFloatingIP(j) = NoFloatingIP
  BY DEF FipGet
<1>3. \A k \in FipKeys : CachedFloatingIP(k)' = CachedFloatingIP(k)
  BY <1>1 DEF CachedFloatingIP
<1>5. FipCopied'
  <2>1. /\ Len(fipLog[j]) = 1 => fipLog[j] = <<CachedFloatingIP(j)>>
        /\ fipLog' = fipLog
    BY <1>1, FipLogs
  <2>2. Len(fipLog[j]) # 1 => Len(fipLog[j]) > 1
    BY FipLogs
  <2>3. /\ fipWork'.fresh => fipLog'[j] = <<fipWork'.fip>>
        /\ ~fipWork'.fresh => Len(fipLog'[j]) > 1
    BY <1>2, <2>1, <2>2, Zenon
  <2> QED
    BY <1>2, <2>3 DEF FipCopied
<1>6. ASSUME NEW k \in FipKeys
      PROVE  FipOutcome(k)
  <2>1. CASE k = j
    BY <1>2, <2>1 DEF FipOutcome, FipComing
  <2>2. CASE k # j
    <3>1. FipComing(k) => FipComing(k)'
      BY <1>1, <2>2 DEF FipComing
    <3> QED
      BY <1>1, <1>3, <3>1 DEF FipOutcome, FloatingIP
  <2> QED
    BY <2>1, <2>2
<1> QED
  BY <1>5, <1>6

LEMMA FipUserOutcome ==
  ASSUME FipInv, FipCopied, FipUser
  PROVE  FipCopied' /\ \A k \in FipKeys : FipOutcome(k)
<1>1. /\ fipWork'.key = fipWork.key /\ fipWork'.pc = fipWork.pc /\ fipWork'.fip = fipWork.fip
      /\ fipQueued' = fipQueued /\ UNCHANGED allocated
      /\ \A k \in FipKeys : CachedFloatingIP(k)' = CachedFloatingIP(k)
  BY FipUserKeeps DEF allocVars
<1>2. /\ fipDelayed' = fipDelayed
      /\ \E j \in FipKeys : \E v : StoreFloatingIP(j, v)
  BY Zenon DEF FipUser, FipCreate, FipSetIP, FipTouch, FipSetStatus, FipDelete, UserFipOp, fipQueueVars
<1>3. PICK j \in FipKeys : \E v : StoreFloatingIP(j, v)
  BY <1>2
<1>4. PICK v : StoreFloatingIP(j, v)
  BY <1>3
<1>5. /\ fipLog'[j] = Append(fipLog[j], v)
      /\ \A k \in FipKeys \ {j} : fipLog'[k] = fipLog[k]
  BY <1>4 DEF StoreFloatingIP, FipInv, FipTypeOK
<1>6. Len(fipLog'[j]) > 1
  BY <1>5, FipLogs
<1>7. fipWork'.fresh => fipWork.fresh /\ fipWork.key # j
  BY <1>4 DEF StoreFloatingIP, FipInv, FipTypeOK
<1>8. fipWork.fresh /\ fipWork.key # j => fipWork'.fresh
  BY <1>4 DEF StoreFloatingIP, FipInv, FipTypeOK
<1>9. FipCopied'
  <2>1. fipWork.pc # "idle" => fipWork.key \in FipKeys
    BY FipOwnerIsOwner
  <2>2. CASE fipWork.key = j
    BY <1>1, <1>6, <1>7, <2>2 DEF FipCopied
  <2>3. CASE fipWork.key # j
    BY <1>1, <1>5, <1>7, <1>8, <2>1, <2>3 DEF FipCopied
  <2> QED
    BY <2>2, <2>3
<1>10. ASSUME NEW k \in FipKeys
       PROVE  FipOutcome(k)
  <2>1. CASE k = j
    BY <1>6, <2>1 DEF FipOutcome, FipComing
  <2>2. CASE k # j
    <3>1. fipLog'[k] = fipLog[k]
      BY <1>5, <2>2
    <3>2. FipComing(k) => FipComing(k)'
      BY <1>1, <1>2, <3>1 DEF FipComing
    <3> QED
      BY <1>1, <3>2 DEF FipOutcome, FloatingIP
  <2> QED
    BY <2>1, <2>2
<1> QED
  BY <1>9, <1>10

LEMMA FipEventOutcome ==
  ASSUME FipInv, FipCopied,
         \/ \E k \in FipKeys : FipDeliver(k) \/ FipRetry(k)
         \/ FipResync
         \/ FipOnPoolChange
  PROVE  FipCopied' /\ \A k \in FipKeys : FipOutcome(k)
<1>1. fipWork' = fipWork /\ UNCHANGED allocated /\ fipQueued \subseteq fipQueued'
  BY DEF FipDeliver, FipRetry, FipResync, FipOnPoolChange, fipCtlVars, allocVars
<1>2. ASSUME NEW k \in FipKeys
      PROVE  \/ fipLog'[k] = fipLog[k]
             \/ Len(fipLog[k]) > 1 /\ k \in fipQueued'
  BY DEF FipDeliver, FipRetry, FipResync, FipOnPoolChange, FipInv, FipTypeOK
<1>3. fipDelayed \subseteq fipDelayed' \cup fipQueued'
  BY DEF FipDeliver, FipRetry, FipResync, FipOnPoolChange, fipCtlVars, fipQueueVars
<1>4. FipCopied'
  <2>1. fipWork.pc # "idle" => fipWork.key \in FipKeys
    BY FipOwnerIsOwner
  <2>2. CASE fipWork.pc # "idle"
    <3>1. fipWork.fresh => ~(Len(fipLog[fipWork.key]) > 1)
      BY <2>1, <2>2, FipLogs DEF FipCopied
    <3> QED
      BY <1>1, <1>2, <2>1, <2>2, <3>1 DEF FipCopied
  <2> QED
    BY <1>1, <2>2 DEF FipCopied
<1>5. ASSUME NEW k \in FipKeys
      PROVE  FipOutcome(k)
  <2>1. FipComing(k) => FipComing(k)'
    BY <1>1, <1>2, <1>3 DEF FipComing
  <2>2. fipLog'[k] = fipLog[k] => CachedFloatingIP(k)' = CachedFloatingIP(k)
    BY DEF CachedFloatingIP
  <2>3. k \in fipQueued' => FipComing(k)'
    BY DEF FipComing
  <2> QED
    BY <1>1, <1>2, <2>1, <2>2, <2>3 DEF FipOutcome, FloatingIP
<1> QED
  BY <1>4, <1>5

LEMMA FipNextOutcome ==
  ASSUME IInv, FipInv, FipAsksEmptyHanded, FipCopied, FipNext, fipLeft'.faults = fipLeft.faults
  PROVE  FipCopied' /\ \A k \in FipKeys : FipOutcome(k)
<1>1. CASE FipWorker
  <2>1. CASE \E j \in FipKeys : FipGet(j)
    BY <2>1, FipGetOutcome
  <2> QED
    BY <1>1, <2>1, FipSyncOutcome
<1> QED
  BY <1>1, FipUserOutcome, FipEventOutcome DEF FipNext
-----------------------------------------------------------------------------
(* The pool: the others are told of every version that is loaded.          *)

\* The pool is not deleted, and is not touched, between two loads of the same
\* version, while a load after a restart is under way.
PoolIsKept ==
  /\ "delete" \notin PoolOps
  /\ "touch" \in PoolOps =>
       MaxRestarts = 0 /\ \A v \in InitialPools : v # NoPool => ~Announced(v)

\* The stored version is not announced yet.
Due == StoredPool # NoPool /\ ~Announced(StoredPool)

\* A listener has been told of a version, or an announced one is on its way.
PoolNews(kind) ==
  \/ poolEvents[kind] # <<>>
  \/ \E i \in DOMAIN poolLog : i > 1 /\ Announced(poolLog[i])
PoolTells(kind) == Due \/ PoolNews(kind)

\* Generations only grow, and the last one observed has been announced.
PoolHistory ==
  /\ \A i \in DOMAIN poolLog :
       /\ i > 1 => poolLog[i] # NoPool
       /\ poolLog[i] # NoPool => /\ StoredPool # NoPool
                                 /\ poolLog[i].generation <= StoredPool.generation
                                 /\ observedGeneration <= poolLog[i].generation
  /\ StoredPool = NoPool => observedGeneration = 0
  /\ StoredPool # NoPool => StoredPool.observed <= StoredPool.generation
  /\ (StoredPool # NoPool /\ StoredPool.generation = observedGeneration) => Announced(StoredPool)

PoolLoading == poolWork.pc \in {"load", "update"}

\* The worker loads a version that has not been observed, the only one of the
\* log unless the key is queued for a later one.
PoolCopy ==
  /\ (poolQueued \/ poolDelayed) => CachedPool # NoPool
  /\ poolWork.pc # "release"
  /\ FreshCopy
  /\ PoolLoading =>
       /\ CachedPool # NoPool /\ StoredPool # NoPool
       /\ observedGeneration < poolWork.pool.generation
       /\ poolWork.pool.generation <= StoredPool.generation
       /\ ~poolWork.fresh => Len(poolLog) > 1 \/ poolQueued

\* A version that was announced before the restart is loaded once, and nothing
\* is served before.
Reload == StoredPool # NoPool /\ Announced(StoredPool) /\ observedGeneration < StoredPool.generation
ReloadedOnce ==
  Reload =>
    /\ "touch" \notin PoolOps
    /\ Len(poolLog) = 1
    /\ PoolLoading => poolWork.fresh
    /\ poolWork.pc = "update" \/ nets = <<>>

\* A version that can be announced is loaded, or will be.
StoredParses == StoredPool # NoPool => Parses(StoredPool.addresses)
DueIsTaken ==
  (Due /\ StoredParses) => poolQueued \/ poolDelayed \/ Len(poolLog) > 1 \/ PoolLoading

ToldInv == PoolHistory /\ PoolCopy /\ ReloadedOnce /\ DueIsTaken

\* What a step of the pool controller means to a listener.
PoolOutcome(kind) ==
  /\ PoolTells(kind) => PoolTells(kind)'
  /\ UNCHANGED <<nets, allocated>> \/ PoolTells(kind)' \/ nets = <<>>

LEMMA PoolUserStores ==
  ASSUME PoolInv, PoolHistory, PoolUser, PoolIsKept
  PROVE  /\ UNCHANGED <<poolQueued, poolDelayed, observedGeneration, poolEvents, nets, allocated>>
         /\ \E v \in Pools \ {NoPool} :
              /\ StorePool(v)
              /\ StoredPool = NoPool => v.generation > 0
              /\ \/ /\ v.observed < v.generation
                    /\ StoredPool # NoPool => StoredPool.generation < v.generation
                 \/ StoredPool # NoPool /\ v = StoredPool /\ "touch" \in PoolOps
<1>1. UNCHANGED <<poolQueued, poolDelayed, observedGeneration, poolEvents, nets, allocated>>
  BY DEF PoolUser, PoolCreate, PoolEdit, PoolTouch, PoolDelete, UserPoolOp, poolQueueVars, allocVars
<1>2. CASE PoolCreate
  <2>1. PICK a \in Addresses : StorePool([addresses |-> a, generation |-> 1, observed |-> 0])
    BY <1>2 DEF PoolCreate
  <2> DEFINE v == [addresses |-> a, generation |-> 1, observed |-> 0]
  <2>2. v \in Pools /\ v.observed < v.generation /\ v.generation > 0
    BY PoolNumbers DEF Pools, Generations
  <2>3. v # NoPool
    BY PoolAssumption
  <2>4. StoredPool = NoPool
    BY <1>2 DEF PoolCreate
  <2> QED
    BY <1>1, <2>1, <2>2, <2>3, <2>4
<1>3. CASE PoolEdit
  <2>1. PICK a \in Addresses : StorePool([StoredPool EXCEPT !.addresses = a, !.generation = @ + 1])
    BY <1>3 DEF PoolEdit
  <2> DEFINE v == [StoredPool EXCEPT !.addresses = a, !.generation = @ + 1]
  <2>2. /\ StoredPool \in Pools /\ StoredPool # NoPool /\ poolLeft.ops > 0
        /\ StoredPool.generation + poolLeft.ops <= MaxPoolOps + 1
    BY <1>3, PoolVersions DEF PoolEdit, UserPoolOp, PoolBudget
  <2>3. StoredPool.generation \in 1 .. MaxPoolOps + 1
    BY <2>2, PoolNumbers
  <2>4. /\ v.generation = StoredPool.generation + 1 /\ v.observed = StoredPool.observed
        /\ v.addresses = a
    BY <2>2 DEF Pools
  <2>5. v.generation \in 1 .. MaxPoolOps + 1
    BY <2>2, <2>3, <2>4, PoolNumbers
  <2>6. v \in Pools
    BY <2>2, <2>4, <2>5 DEF Pools, Generations
  <2>7. v \in [addresses : Addresses, generation : Nat, observed : Nat]
    BY <2>6, PoolAssumption DEF Pools, Generations
  <2>8. v # NoPool
    BY <2>7, PoolAssumption
  <2>9. StoredPool.observed \in Nat /\ StoredPool.observed <= StoredPool.generation
    BY <2>2 DEF PoolHistory, Pools, Generations
  <2>10. v.observed < v.generation /\ StoredPool.generation < v.generation
    BY <2>3, <2>4, <2>9, PoolNumbers
  <2> HIDE DEF v
  <2> QED
    BY <1>1, <2>1, <2>2, <2>6, <2>8, <2>10 DEF v
<1>4. CASE PoolTouch
  <2>1. StorePool(StoredPool) /\ StoredPool # NoPool /\ "touch" \in PoolOps
    BY <1>4 DEF PoolTouch, UserPoolOp
  <2>2. StoredPool \in Pools
    BY <2>1, PoolVersions
  <2> QED
    BY <1>1, <2>1, <2>2
<1>5. ~PoolDelete
  BY DEF PoolDelete, UserPoolOp, PoolIsKept
<1> QED
  BY <1>2, <1>3, <1>4, <1>5 DEF PoolUser

LEMMA PoolGenerations ==
  ASSUME PoolInv
  PROVE  /\ observedGeneration \in Nat
         /\ \A v \in Pools : v.generation \in Nat /\ v.observed \in Nat
         /\ StoredPool # NoPool => StoredPool \in Pools
         /\ CachedPool # NoPool => CachedPool \in Pools
         /\ PoolLoading => poolWork.pool \in Pools
         /\ \A i \in DOMAIN poolLog : poolLog[i] # NoPool => poolLog[i] \in Pools
  BY PoolVersions DEF PoolInv, PoolVarsOK, PoolInFlight, PoolLoading, Pools, Generations

LEMMA PoolUserTold ==
  ASSUME PoolInv, ToldInv, PoolUser, PoolIsKept
  PROVE  ToldInv' /\ \A kind \in Listeners : PoolOutcome(kind)
<1>1. PoolHistory /\ PoolCopy /\ ReloadedOnce /\ DueIsTaken
  BY DEF ToldInv
<1>2. /\ UNCHANGED <<poolQueued, poolDelayed, observedGeneration, poolEvents, nets, allocated>>
  BY <1>1, PoolUserStores
<1>3. PICK v \in Pools \ {NoPool} :
         /\ StorePool(v)
         /\ StoredPool = NoPool => v.generation > 0
         /\ \/ /\ v.observed < v.generation
               /\ StoredPool # NoPool => StoredPool.generation < v.generation
            \/ StoredPool # NoPool /\ v = StoredPool /\ "touch" \in PoolOps
  BY <1>1, PoolUserStores
<1>4. /\ v.generation \in Nat /\ v.observed \in Nat /\ observedGeneration \in Nat
      /\ StoredPool # NoPool => StoredPool.generation \in Nat
      /\ PoolLoading => poolWork.pool.generation \in Nat
  BY PoolGenerations
<1>5. /\ StoredPool' = v /\ v # NoPool /\ DOMAIN poolLog' = 1 .. Len(poolLog) + 1
      /\ poolLog'[Len(poolLog) + 1] = v
      /\ \A i \in 1 .. Len(poolLog) : poolLog'[i] = poolLog[i]
      /\ Len(poolLog) \in Nat \ {0} /\ DOMAIN poolLog = 1 .. Len(poolLog)
      /\ StoredPool = poolLog[Len(poolLog)] /\ CachedPool = poolLog[1]
  BY <1>3, PoolAppended, PoolVersions DEF StorePool
<1>6. /\ poolWork'.fresh = FALSE /\ poolWork'.pc = poolWork.pc /\ poolWork'.pool = poolWork.pool
  BY <1>3 DEF StorePool, PoolInv, PoolVarsOK, PoolWorks
<1>7. Len(poolLog') > 1
  <2>1. poolLog \in Seq(Pools \cup {NoPool}) /\ poolLog' = Append(poolLog, v)
    BY <1>3 DEF StorePool, PoolInv, PoolVarsOK
  <2> QED
    BY <1>5, <2>1
<1>8. CachedPool' = CachedPool
  <2>1. poolLog \in Seq(Pools \cup {NoPool}) /\ poolLog # <<>> /\ poolLog' = Append(poolLog, v)
    BY <1>3 DEF StorePool, PoolInv, PoolVarsOK
  <2> QED
    BY <2>1, WrittenHead DEF CachedPool
<1>9. StoredPool # NoPool => StoredPool.generation <= v.generation /\ observedGeneration <= StoredPool.generation
  BY <1>1, <1>3, <1>4, <1>5 DEF PoolHistory
<1>10. observedGeneration <= v.generation /\ v.observed <= v.generation
  BY <1>1, <1>3, <1>4, <1>9 DEF PoolHistory
<1>11. v.generation = observedGeneration => Announced(v)
  BY <1>1, <1>3, <1>4, <1>9 DEF PoolHistory
<1>12. Announced(v) => StoredPool # NoPool /\ v = StoredPool /\ ~Reload
  BY <1>1, <1>3, <1>4 DEF Announced, ReloadedOnce
<1>13. PoolHistory'
  <2>1. ASSUME NEW i \in DOMAIN poolLog'
        PROVE  /\ i > 1 => poolLog'[i] # NoPool
               /\ poolLog'[i] # NoPool => /\ poolLog'[i].generation <= v.generation
                                          /\ observedGeneration <= poolLog'[i].generation
    <3>1. CASE i = Len(poolLog) + 1
      BY <1>4, <1>5, <1>10, <3>1
    <3>2. CASE i # Len(poolLog) + 1
      <4>1. i \in DOMAIN poolLog /\ poolLog'[i] = poolLog[i]
        BY <1>5, <3>2
      <4>2. poolLog[i] # NoPool => /\ StoredPool # NoPool /\ poolLog[i].generation \in Nat
                                   /\ poolLog[i].generation <= StoredPool.generation
                                   /\ observedGeneration <= poolLog[i].generation
        BY <1>1, <4>1, PoolGenerations DEF PoolHistory
      <4>3. i > 1 => poolLog[i] # NoPool
        BY <1>1, <4>1 DEF PoolHistory
      <4> QED
        BY <1>4, <1>9, <4>1, <4>2, <4>3
    <3> QED
      BY <3>1, <3>2
  <2> QED
    BY <1>2, <1>5, <1>10, <1>11, <2>1 DEF PoolHistory, Announced
<1>14. PoolCopy'
  <2>1. FreshCopy'
    BY <1>6 DEF FreshCopy
  <2> QED
    BY <1>1, <1>2, <1>4, <1>5, <1>6, <1>7, <1>8, <1>9, <2>1 DEF PoolCopy, PoolLoading
<1>15. ReloadedOnce'
  BY <1>2, <1>5, <1>12 DEF ReloadedOnce, Reload, Announced
<1>16. DueIsTaken'
  BY <1>7 DEF DueIsTaken
<1>17. ASSUME NEW kind \in Listeners
       PROVE  PoolOutcome(kind)
  <2>1. Due => Due'
    BY <1>5, <1>12 DEF Due, Announced
  <2>2. PoolNews(kind) => PoolNews(kind)'
    BY <1>2, <1>5 DEF PoolNews, Announced
  <2> QED
    BY <1>2, <2>1, <2>2 DEF PoolOutcome, PoolTells
<1> QED
  BY <1>13, <1>14, <1>15, <1>16, <1>17 DEF ToldInv

\* Tail and a longer sequence of notices.
LEMMA PoolDelivered ==
  ASSUME PoolInv, Len(poolLog) > 1, poolLog' = Tail(poolLog)
  PROVE  /\ StoredPool' = StoredPool /\ CachedPool' = poolLog[2]
         /\ DOMAIN poolLog' = 1 .. Len(poolLog) - 1
         /\ \A i \in 1 .. Len(poolLog) - 1 : poolLog'[i] = poolLog[i + 1]
<1>1. poolLog \in Seq(Pools \cup {NoPool}) /\ poolLog # <<>>
  BY DEF PoolInv, PoolVarsOK
<1>2. /\ poolLog' \in Seq(Pools \cup {NoPool}) /\ Len(poolLog') = Len(poolLog) - 1
      /\ \A i \in 1 .. Len(poolLog) - 1 : poolLog'[i] = poolLog[i + 1]
  BY <1>1, HeadTailProperties
<1>3. Len(poolLog) \in Nat
  BY <1>1
<1>4. DOMAIN poolLog' = 1 .. Len(poolLog) - 1
  BY <1>2
<1>5. 1 \in 1 .. Len(poolLog) - 1 /\ Len(poolLog) - 1 \in 1 .. Len(poolLog) - 1
  BY <1>3
<1>6. StoredPool' = poolLog[Len(poolLog) - 1 + 1] /\ CachedPool' = poolLog[1 + 1]
  BY <1>2, <1>5 DEF StoredPool, CachedPool, Last
<1>7. Len(poolLog) - 1 + 1 = Len(poolLog) /\ 1 + 1 = 2
  BY <1>3
<1> QED
  BY <1>2, <1>4, <1>6, <1>7 DEF StoredPool, Last

LEMMA MoreNotices ==
  ASSUME NEW S, NEW s \in Seq(S), NEW t \in Seq(S), s # <<>> \/ t # <<>>
  PROVE  s \o t # <<>>
<1>1. Len(s \o t) = Len(s) + Len(t)
  BY ConcatProperties
<1>2. Len(s) \in Nat /\ Len(t) \in Nat
  OBVIOUS
<1>3. Len(s) # 0 \/ Len(t) # 0
  BY EmptySeq
<1>4. Len(s \o t) # 0
  BY <1>1, <1>2, <1>3
<1> QED
  BY <1>4

LEMMA PoolNotified ==
  ASSUME PoolInv, NEW v, PoolNotify(v), NEW kind \in Listeners
  PROVE  /\ poolEvents[kind] # <<>> => poolEvents'[kind] # <<>>
         /\ (v # NoPool /\ Announced(v)) => poolEvents'[kind] # <<>>
<1> DEFINE Events == {"updated", "deleted"}
<1>1. poolEvents[kind] \in Seq(Events) /\ poolEvents'[kind] = poolEvents[kind] \o Notices(v)
  <2>1. poolEvents \in [Listeners -> Seq(Events)]
    BY DEF PoolInv, PoolVarsOK
  <2> QED
    BY <2>1 DEF PoolNotify
<1>2. <<"updated">> \in Seq(Events) /\ <<"deleted">> \in Seq(Events) /\ <<>> \in Seq(Events)
  OBVIOUS
<1>3. Notices(v) \in Seq(Events)
  BY <1>2, Zenon DEF Notices
<1>4. (v # NoPool /\ Announced(v)) => Notices(v) # <<>>
  BY DEF Notices
<1> QED
  BY <1>1, <1>3, <1>4, MoreNotices

\* The pool's faults are still to come.
LEMMA PoolNoFault ==
  ASSUME PoolInv, poolLeft'.faults = poolLeft.faults
  PROVE  ~PoolFault
<1>1. poolLeft \in [ops : 0 .. MaxPoolOps, faults : 0 .. MaxPoolFaults, restarts : 0 .. MaxRestarts]
  BY DEF PoolInv, PoolVarsOK
<1> QED
  BY <1>1 DEF PoolFault

LEMMA PoolDeliverTold ==
  ASSUME PoolInv, ToldInv, PoolDeliver
  PROVE  ToldInv' /\ \A kind \in Listeners : PoolOutcome(kind)
<1>1. PoolHistory /\ PoolCopy /\ ReloadedOnce
  BY DEF ToldInv
<1>2. /\ poolLog' = Tail(poolLog) /\ Len(poolLog) > 1 /\ PoolNotify(poolLog[2])
  BY DEF PoolDeliver
<1>3. /\ poolQueued' = TRUE
      /\ UNCHANGED <<poolDelayed, poolWork, observedGeneration, nets, allocated>>
  BY <1>2 DEF PoolNotify, allocVars
<1>4. /\ StoredPool' = StoredPool /\ CachedPool' = poolLog[2]
      /\ DOMAIN poolLog' = 1 .. Len(poolLog) - 1
      /\ \A i \in 1 .. Len(poolLog) - 1 : poolLog'[i] = poolLog[i + 1]
  BY <1>2, PoolDelivered
<1>5. /\ Len(poolLog) \in Nat /\ DOMAIN poolLog = 1 .. Len(poolLog)
  BY PoolVersions
<1>6. \A i \in DOMAIN poolLog' : i + 1 \in DOMAIN poolLog /\ i + 1 > 1 /\ poolLog'[i] = poolLog[i + 1]
  BY <1>4, <1>5
<1>7. poolLog[2] # NoPool /\ ~Reload
  <2>1. 2 \in DOMAIN poolLog /\ 2 > 1 /\ Len(poolLog) # 1
    BY <1>2, <1>5
  <2> QED
    BY <1>1, <2>1 DEF PoolHistory, ReloadedOnce
<1>8. PoolHistory'
  <2>1. \A i \in DOMAIN poolLog' :
          /\ poolLog'[i] # NoPool
          /\ StoredPool # NoPool
          /\ poolLog'[i].generation <= StoredPool.generation
          /\ observedGeneration <= poolLog'[i].generation
    BY <1>1, <1>6 DEF PoolHistory
  <2> QED
    BY <1>1, <1>3, <1>4, <2>1 DEF PoolHistory, Announced
<1>9. PoolCopy'
  <2>1. ~(poolWork.fresh /\ PoolLoading)
    <3>1. \A v : Len(<<v>>) = 1
      OBVIOUS
    <3> QED
      BY <1>1, <1>2, <1>5, <3>1 DEF PoolCopy, FreshCopy, PoolLoading
  <2>2. FreshCopy'
    BY <1>3, <2>1 DEF FreshCopy, PoolLoading
  <2> QED
    BY <1>1, <1>3, <1>4, <1>7, <2>2 DEF PoolCopy, PoolLoading
<1>10. ReloadedOnce' /\ DueIsTaken'
  BY <1>3, <1>4, <1>7 DEF ReloadedOnce, Reload, Announced, DueIsTaken
<1>11. ASSUME NEW kind \in Listeners
       PROVE  PoolOutcome(kind)
  <2>1. Due => Due'
    BY <1>4 DEF Due, Announced
  <2>2. poolEvents[kind] # <<>> => poolEvents'[kind] # <<>>
    BY <1>2, PoolNotified
  <2>3. ASSUME NEW i \in DOMAIN poolLog, i > 1, Announced(poolLog[i])
        PROVE  PoolNews(kind)'
    <3>1. CASE i = 2
      BY <1>2, <1>7, <2>3, <3>1, PoolNotified DEF PoolNews
    <3>2. CASE i # 2
      <4>1. i - 1 \in DOMAIN poolLog' /\ i - 1 > 1 /\ i - 1 + 1 = i
        BY <1>4, <1>5, <2>3, <3>2
      <4> QED
        BY <1>6, <2>3, <4>1 DEF PoolNews, Announced
    <3> QED
      BY <3>1, <3>2
  <2> QED
    BY <1>3, <2>1, <2>2, <2>3 DEF PoolOutcome, PoolTells, PoolNews
<1> QED
  BY <1>8, <1>9, <1>10, <1>11 DEF ToldInv

\* The key is queued again, and the log stays.
LEMMA PoolAgainTold ==
  ASSUME PoolInv, ToldInv, PoolResync \/ PoolRetry
  PROVE  ToldInv' /\ \A kind \in Listeners : PoolOutcome(kind)
<1>1. PoolHistory /\ PoolCopy /\ ReloadedOnce
  BY DEF ToldInv
<1>2. /\ poolQueued' = TRUE /\ CachedPool # NoPool
      /\ UNCHANGED <<poolLog, poolWork, observedGeneration, nets, allocated>>
  BY <1>1 DEF PoolResync, PoolRetry, PoolNotify, allocVars, PoolCopy
<1>3. CachedPool' = CachedPool /\ StoredPool' = StoredPool
  BY <1>2 DEF CachedPool, StoredPool
<1>4. PoolHistory' /\ ReloadedOnce' /\ DueIsTaken'
  BY <1>1, <1>2, <1>3 DEF PoolHistory, ReloadedOnce, Reload, DueIsTaken, Announced, PoolLoading
<1>5. PoolCopy'
  BY <1>1, <1>2, <1>3 DEF PoolCopy, FreshCopy, PoolLoading
<1>6. ASSUME NEW kind \in Listeners
      PROVE  PoolOutcome(kind)
  <2>1. poolEvents[kind] # <<>> => poolEvents'[kind] # <<>>
    BY PoolNotified DEF PoolResync, PoolRetry
  <2> QED
    BY <1>2, <1>3, <2>1 DEF PoolOutcome, PoolTells, PoolNews, Due, Announced
<1> QED
  BY <1>4, <1>5, <1>6 DEF ToldInv

LEMMA PoolGetTold ==
  ASSUME PoolInv, ToldInv, PoolGet
  PROVE  ToldInv' /\ \A kind \in Listeners : PoolOutcome(kind)
<1>1. PoolHistory /\ PoolCopy /\ ReloadedOnce /\ DueIsTaken
  BY DEF ToldInv
<1>2. /\ poolWork.pc = "idle" /\ poolQueued /\ poolQueued' = FALSE
      /\ UNCHANGED <<poolLog, poolEvents, nets, allocated, poolDelayed>>
  BY DEF PoolGet, PoolGoto, allocVars
<1>3. CachedPool' = CachedPool /\ StoredPool' = StoredPool /\ CachedPool # NoPool
  BY <1>1, <1>2 DEF CachedPool, StoredPool, PoolCopy
<1>4. /\ StoredPool # NoPool /\ observedGeneration <= CachedPool.generation
      /\ CachedPool.generation <= StoredPool.generation
      /\ CachedPool.generation \in Nat /\ observedGeneration \in Nat
  <2>1. 1 \in DOMAIN poolLog /\ CachedPool = poolLog[1]
    BY PoolVersions
  <2> QED
    BY <1>1, <1>3, <2>1, PoolGenerations DEF PoolHistory
<1>5. \/ UNCHANGED <<poolWork, observedGeneration>> /\ CachedPool.generation = observedGeneration
      \/ /\ CachedPool.generation > observedGeneration
         /\ UNCHANGED observedGeneration
         /\ poolWork' = [pc |-> "load", pool |-> CachedPool, fresh |-> Len(poolLog) = 1]
  BY <1>3, <1>4 DEF PoolGet, PoolGoto
<1>6. /\ Len(poolLog) = 1 => StoredPool = CachedPool /\ poolLog = <<CachedPool>>
      /\ Len(poolLog) = 1 \/ Len(poolLog) > 1
  <2>1. Len(poolLog) \in Nat /\ Len(poolLog) # 0
    BY PoolVersions
  <2>2. poolLog \in Seq(Pools \cup {NoPool})
    BY DEF PoolInv, PoolVarsOK
  <2>3. Len(poolLog) = 1 => poolLog = <<poolLog[1]>>
    BY <2>2
  <2> QED
    BY <2>1, <2>3, OneOrMore, PoolVersions, Zenon
<1>7. PoolHistory'
  BY <1>1, <1>2, <1>3, <1>5 DEF PoolHistory, Announced
<1>8. ASSUME NEW kind \in Listeners
      PROVE  PoolOutcome(kind)
  BY <1>2, <1>3 DEF PoolOutcome, PoolTells, PoolNews, Due, Announced
<1>9. CASE UNCHANGED <<poolWork, observedGeneration>> /\ CachedPool.generation = observedGeneration
  <2>1. PoolCopy' /\ ReloadedOnce'
    BY <1>1, <1>2, <1>3, <1>9 DEF PoolCopy, FreshCopy, PoolLoading, ReloadedOnce, Reload, Announced
  <2>2. Due => Len(poolLog) # 1
    BY <1>1, <1>6, <1>9 DEF PoolHistory, Due
  <2>3. DueIsTaken'
    BY <1>2, <1>6, <2>2 DEF DueIsTaken, Due, StoredPool, Announced
  <2> QED
    BY <1>7, <1>8, <2>1, <2>3 DEF ToldInv
<1>10. CASE /\ CachedPool.generation > observedGeneration
           /\ UNCHANGED observedGeneration
           /\ poolWork' = [pc |-> "load", pool |-> CachedPool, fresh |-> Len(poolLog) = 1]
  <2>1. /\ poolWork'.pc = "load" /\ poolWork'.pool = CachedPool
        /\ poolWork'.fresh = (Len(poolLog) = 1)
    BY <1>10
  <2>2. /\ poolWork'.fresh => poolLog = <<CachedPool>>
        /\ ~poolWork'.fresh => Len(poolLog) > 1
        /\ Len(poolLog) = 1 => poolWork'.fresh
    BY <1>6, <2>1, Zenon
  <2>3. FreshCopy'
    BY <1>2, <2>1, <2>2 DEF FreshCopy
  <2>4. PoolCopy'
    BY <1>1, <1>2, <1>3, <1>4, <1>10, <2>1, <2>2, <2>3 DEF PoolCopy, PoolLoading
  <2>5. ReloadedOnce'
    BY <1>1, <1>2, <1>3, <1>10, <2>2 DEF ReloadedOnce, Reload, Announced, PoolLoading
  <2>6. DueIsTaken'
    BY <2>1 DEF DueIsTaken, PoolLoading
  <2> QED
    BY <1>7, <1>8, <2>4, <2>5, <2>6 DEF ToldInv
<1> QED
  BY <1>5, <1>9, <1>10

LEMMA OneVersion ==
  ASSUME NEW v
  PROVE  Last(<<v>>) = v /\ Head(<<v>>) = v
  BY DEF Last

LEMMA PoolLoadTold ==
  ASSUME PoolInv, ToldInv, PoolLoad
  PROVE  ToldInv' /\ \A kind \in Listeners : PoolOutcome(kind)
<1>1. PoolHistory /\ PoolCopy /\ ReloadedOnce /\ DueIsTaken
  BY DEF ToldInv
<1>2. /\ poolWork.pc = "load" /\ UpdateIPPool(poolWork.pool.addresses)
      /\ UNCHANGED <<poolLog, observedGeneration, poolEvents>>
  BY DEF PoolLoad
<1>3. CachedPool' = CachedPool /\ StoredPool' = StoredPool /\ poolQueued' = poolQueued
  BY <1>2 DEF CachedPool, StoredPool, PoolLoad, poolQueueVars, PoolFailed
<1>4. PoolHistory'
  BY <1>1, <1>2, <1>3 DEF PoolHistory, Announced
<1>5. /\ CachedPool # NoPool /\ StoredPool # NoPool
      /\ observedGeneration < StoredPool.generation
  <2>1. /\ CachedPool # NoPool /\ StoredPool # NoPool
        /\ observedGeneration < poolWork.pool.generation
        /\ poolWork.pool.generation <= StoredPool.generation
    BY <1>1, <1>2 DEF PoolCopy, PoolLoading
  <2>2. /\ poolWork.pool.generation \in Nat /\ StoredPool.generation \in Nat
        /\ observedGeneration \in Nat
    BY <1>2, <2>1, PoolGenerations DEF PoolLoading
  <2> QED
    BY <2>1, <2>2
<1>6. ASSUME NEW kind \in Listeners
      PROVE  PoolOutcome(kind)
  <2>1. PoolTells(kind)' = PoolTells(kind)
    BY <1>2, <1>3 DEF PoolTells, PoolNews, Due, Announced
  <2>2. Announced(StoredPool) => nets = <<>>
    BY <1>1, <1>2, <1>5 DEF ReloadedOnce, Reload
  <2>3. ~Announced(StoredPool) => PoolTells(kind)
    BY <1>5 DEF PoolTells, Due
  <2> QED
    BY <2>1, <2>2, <2>3 DEF PoolOutcome
<1>7. CASE Parses(poolWork.pool.addresses)
  <2>1. /\ poolWork'.pc = "update" /\ poolWork'.pool = poolWork.pool
        /\ poolWork'.fresh = poolWork.fresh /\ poolDelayed' = poolDelayed
    BY <1>7 DEF PoolLoad, PoolInv, PoolVarsOK, PoolWorks, poolQueueVars
  <2>2. PoolCopy'
    BY <1>1, <1>2, <1>3, <2>1 DEF PoolCopy, FreshCopy, PoolLoading
  <2>3. ReloadedOnce' /\ DueIsTaken'
    BY <1>1, <1>2, <1>3, <2>1 DEF ReloadedOnce, Reload, DueIsTaken, PoolLoading, Announced
  <2> QED
    BY <1>4, <1>6, <2>2, <2>3 DEF ToldInv
<1>8. CASE ~Parses(poolWork.pool.addresses)
  <2>1. poolWork' = PoolIdle /\ nets' = nets
    BY <1>2, <1>8 DEF PoolLoad, PoolFailed, UpdateIPPool, allocVars
  <2>2. PoolCopy' /\ ReloadedOnce'
    BY <1>1, <1>2, <1>3, <1>5, <2>1
    DEF PoolCopy, FreshCopy, PoolLoading, PoolIdle, ReloadedOnce, Reload, Announced
  <2>3. poolWork.fresh => StoredPool = poolWork.pool
    <3>1. poolWork.fresh => poolLog = <<poolWork.pool>>
      BY <1>1, <1>2 DEF PoolCopy, FreshCopy
    <3> QED
      BY <3>1, OneVersion, Zenon DEF StoredPool
  <2>4. DueIsTaken'
    <3>1. CASE poolWork.fresh
      BY <1>3, <1>5, <1>8, <2>3, <3>1 DEF DueIsTaken, StoredParses, Parses
    <3>2. CASE ~poolWork.fresh
      BY <1>1, <1>2, <1>3, <3>2 DEF DueIsTaken, PoolCopy, PoolLoading
    <3> QED
      BY <3>1, <3>2
  <2> QED
    BY <1>4, <1>6, <2>2, <2>4 DEF ToldInv
<1> QED
  BY <1>7, <1>8

LEMMA PoolUpdateStatusTold ==
  ASSUME PoolInv, ToldInv, PoolUpdateStatus, poolLeft'.faults = poolLeft.faults
  PROVE  ToldInv' /\ \A kind \in Listeners : PoolOutcome(kind)
<1>1. PoolHistory /\ PoolCopy /\ ReloadedOnce /\ DueIsTaken
  BY DEF ToldInv
<1>2. /\ poolWork.pc = "update" /\ poolWork' = PoolIdle /\ poolQueued' = poolQueued
      /\ UNCHANGED <<poolEvents, nets, allocated>>
  BY DEF PoolUpdateStatus, PoolDone, PoolFailed, allocVars
<1>3. /\ CachedPool # NoPool /\ StoredPool # NoPool
      /\ ~poolWork.fresh => Len(poolLog) > 1 \/ poolQueued
      /\ poolWork.fresh => poolLog = <<poolWork.pool>>
  BY <1>1, <1>2 DEF PoolCopy, FreshCopy, PoolLoading
<1>4. CASE ~poolWork.fresh /\ UNCHANGED <<poolLog, observedGeneration>>
  <2>1. CachedPool' = CachedPool /\ StoredPool' = StoredPool
    BY <1>4 DEF CachedPool, StoredPool
  <2>2. PoolHistory'
    BY <1>1, <1>4, <2>1 DEF PoolHistory, Announced
  <2>3. PoolCopy'
    BY <1>1, <1>2, <1>3, <2>1 DEF PoolCopy, FreshCopy, PoolLoading, PoolIdle
  <2>4. ~Reload
    BY <1>1, <1>2, <1>4 DEF ReloadedOnce, PoolLoading
  <2>5. ReloadedOnce' /\ DueIsTaken'
    BY <1>2, <1>3, <1>4, <2>1, <2>4 DEF ReloadedOnce, Reload, DueIsTaken, Announced
  <2>6. ASSUME NEW kind \in Listeners
        PROVE  PoolOutcome(kind)
    BY <1>2, <1>4, <2>1 DEF PoolOutcome, PoolTells, PoolNews, Due, Announced
  <2> QED
    BY <2>2, <2>3, <2>5, <2>6 DEF ToldInv
<1>5. CASE /\ poolWork.fresh /\ WriteObserved
           /\ observedGeneration' = poolWork.pool.generation /\ PoolDone
  <2> DEFINE v == [poolWork.pool EXCEPT !.observed = poolWork.pool.generation]
  <2>1. poolWork.pool \in Pools /\ poolWork.pool.generation \in Nat \ {0}
    BY <1>2, PoolGenerations DEF PoolLoading, Pools, Generations
  <2>2. /\ v \in Pools /\ v.observed = v.generation /\ v.generation = poolWork.pool.generation
        /\ v # NoPool
    <3>1. v \in [addresses : Addresses, generation : Nat, observed : Nat]
      BY <2>1, PoolAssumption DEF Pools, Generations
    <3> QED
      BY <2>1, <3>1, PoolAssumption DEF Pools, Generations
  <2>3. poolLog = <<poolWork.pool>> /\ StoredPool = poolWork.pool /\ CachedPool = poolWork.pool
    BY <1>3, <1>5, OneVersion, Zenon DEF StoredPool, CachedPool
  <2> HIDE DEF v
  <2>4. /\ StoredPool' = v /\ CachedPool' = poolWork.pool
        /\ \A i \in DOMAIN poolLog' : poolLog'[i] \in {poolWork.pool, v}
        /\ poolLog' # poolLog => \E i \in DOMAIN poolLog' : i > 1 /\ poolLog'[i] = v
    <3>1. CASE poolLog' = poolLog /\ StoredPool = v
      BY <2>3, <3>1 DEF StoredPool, CachedPool, Last
    <3>2. CASE poolLog' = Append(poolLog, v)
      <4>1. poolLog \in Seq(Pools \cup {NoPool}) /\ poolLog # <<>>
        BY DEF PoolInv, PoolVarsOK
      <4>2. CachedPool' = CachedPool
        BY <3>2, <4>1, WrittenHead DEF CachedPool
      <4>3. Len(poolLog) = 1 /\ poolLog[1] = poolWork.pool
        BY <2>3
      <4>4. 1 .. 1 + 1 = {1, 2} /\ 1 \in 1 .. 1
        OBVIOUS
      <4>5. /\ StoredPool' = v /\ DOMAIN poolLog' = {1, 2}
            /\ poolLog'[1] = poolWork.pool /\ poolLog'[2] = v
        BY <2>2, <3>2, <4>3, <4>4, PoolAppended
      <4> QED
        BY <2>3, <4>2, <4>5
    <3> QED
      BY <1>5, <3>1, <3>2 DEF WriteObserved, v
  <2>5. PoolHistory'
    <3>1. \A i \in DOMAIN poolLog' : poolLog'[i] # NoPool /\ poolLog'[i].generation = v.generation
      BY <1>3, <2>2, <2>3, <2>4
    <3>2. observedGeneration' = v.generation /\ v.generation \in Nat /\ Announced(v)
      BY <1>5, <2>1, <2>2 DEF Announced
    <3> QED
      BY <2>2, <2>4, <3>1, <3>2 DEF PoolHistory, Announced
  <2>6. PoolCopy'
    BY <1>1, <1>2, <1>3, <1>5, <2>3, <2>4 DEF PoolCopy, FreshCopy, PoolLoading, PoolIdle, PoolDone
  <2>7. ~Due' /\ ~Reload'
    BY <1>5, <2>1, <2>2, <2>4 DEF Due, Reload, Announced
  <2>8. ASSUME NEW kind \in Listeners
        PROVE  PoolOutcome(kind)
    <3>1. CASE poolLog' = poolLog
      BY <1>2, <3>1 DEF PoolOutcome, PoolTells, PoolNews, Due, StoredPool, Announced
    <3>2. CASE poolLog' # poolLog
      <4>1. PoolNews(kind)'
        BY <2>2, <2>4, <3>2 DEF PoolNews, Announced
      <4> QED
        BY <4>1 DEF PoolOutcome, PoolTells
    <3> QED
      BY <3>1, <3>2
  <2> QED
    BY <2>5, <2>6, <2>7, <2>8 DEF ToldInv, ReloadedOnce, DueIsTaken
<1> QED
  BY <1>4, <1>5, PoolNoFault DEF PoolUpdateStatus

LEMMA PoolNextTold ==
  ASSUME PoolInv, ToldInv, PoolNext, PoolIsKept, poolLeft'.faults = poolLeft.faults
  PROVE  ToldInv' /\ \A kind \in Listeners : PoolOutcome(kind)
<1>1. ~PoolRelist
  BY PoolNoFault DEF PoolRelist
<1>2. ~PoolRelease
  BY DEF PoolRelease, ToldInv, PoolCopy
<1> QED
  BY <1>1, <1>2, PoolUserTold, PoolDeliverTold, PoolAgainTold, PoolGetTold, PoolLoadTold,
     PoolUpdateStatusTold DEF PoolNext, PoolInformer, PoolWorker

LEMMA PoolRestartTold ==
  ASSUME PoolInv, ToldInv, PoolIsKept, PoolRestart, Crash
  PROVE  ToldInv'
<1>1. /\ poolLog' = <<StoredPool>> /\ poolQueued' = (StoredPool # NoPool) /\ poolDelayed' = FALSE
      /\ poolWork' = PoolIdle /\ observedGeneration' = 0 /\ nets' = <<>>
  BY DEF PoolRestart, Crash
<1>2. StoredPool' = StoredPool /\ CachedPool' = StoredPool /\ Len(poolLog') = 1
  BY <1>1 DEF StoredPool, CachedPool, Last
<1>3. StoredPool # NoPool => StoredPool.generation \in Nat \ {0}
  BY PoolGenerations DEF Pools, Generations
<1>4. DOMAIN poolLog' = {1} /\ poolLog'[1] = StoredPool
  BY <1>1
<1>5. StoredPool # NoPool => StoredPool.observed <= StoredPool.generation
  BY DEF ToldInv, PoolHistory
<1>6. PoolHistory'
  BY <1>1, <1>2, <1>3, <1>4, <1>5 DEF PoolHistory
<1>7. PoolCopy'
  BY <1>1, <1>2 DEF PoolCopy, FreshCopy, PoolLoading, PoolIdle
<1>8. "touch" \notin PoolOps
  <2>1. poolLeft.restarts > 0 /\ poolLeft.restarts \in 0 .. MaxRestarts
    BY DEF PoolRestart, PoolInv, PoolVarsOK
  <2> QED
    BY <2>1 DEF PoolIsKept
<1>9. ReloadedOnce' /\ DueIsTaken'
  BY <1>1, <1>2, <1>8 DEF ReloadedOnce, DueIsTaken, Due, PoolLoading, PoolIdle
<1> QED
  BY <1>6, <1>7, <1>9 DEF ToldInv

LEMMA PoolInitTold ==
  ASSUME PoolIsKept, Init, PoolInit
  PROVE  ToldInv
<1>1. PICK v \in InitialPools :
        /\ poolLog = <<v>> /\ poolQueued = (v # NoPool) /\ poolDelayed = FALSE
        /\ poolWork = PoolIdle /\ observedGeneration = 0
  BY DEF PoolInit
<1>2. StoredPool = v /\ CachedPool = v /\ Len(poolLog) = 1 /\ nets = <<>>
  BY <1>1 DEF StoredPool, CachedPool, Last, Init
<1>3. v # NoPool => v.generation = 1 /\ v.observed \in {0, 1}
  BY PoolAssumption
<1>4. DOMAIN poolLog = {1} /\ poolLog[1] = v
  BY <1>1
<1>5. PoolHistory
  BY <1>1, <1>2, <1>3, <1>4 DEF PoolHistory
<1>6. PoolCopy
  BY <1>1, <1>2 DEF PoolCopy, FreshCopy, PoolLoading, PoolIdle
<1>7. ReloadedOnce /\ DueIsTaken
  BY <1>1, <1>2 DEF ReloadedOnce, Reload, DueIsTaken, Due, PoolLoading, PoolIdle, PoolIsKept
<1> QED
  BY <1>5, <1>6, <1>7 DEF ToldInv
-----------------------------------------------------------------------------
(* Services: what is asked for, and what is leased.                        *)

LEMMA SvcOutcomeAsked ==
  ASSUME SvcInv, SvcAskedInv, \A k \in SvcKeys : SvcOutcome(k)
  PROVE  SvcAskedInv'
<1> SUFFICES ASSUME NEW k \in SvcKeys, SvcShown(k)', ~SvcComing(k)'
             PROVE  Grants(CachedService(k).want, CachedService(k).status)'
  BY DEF SvcAskedInv
<1>1. /\ CachedService(k)' = CachedService(k)
      /\ ~SvcComing(k) \/ (svcLog[k] = <<svcWork.svc>> /\ SvcGranted)
  BY DEF SvcOutcome, SvcShown
<1>2. CASE ~SvcComing(k)
  BY <1>1, <1>2 DEF SvcAskedInv, SvcShown, Grants
<1>3. CASE svcLog[k] = <<svcWork.svc>> /\ SvcGranted
  <2>1. CachedService(k) = svcWork.svc
    BY <1>3, SvcLogs
  <2> QED
    BY <1>1, <1>3, <2>1 DEF SvcGranted, Grants
<1> QED
  BY <1>1, <1>2, <1>3

\* The allocator has recorded, and the pool has, the IP the object shows.
SvcLeased(k) ==
  /\ allocated[Service(k)] = CachedService(k).status
  /\ ContainsIP(CachedService(k).status)

\* An object that shows an IP that is not leased will be synced, or the pool
\* controller will tell its listeners.
SvcLeasedInv ==
  \A k \in SvcKeys : SvcShown(k) =>
    \/ CachedService(k).lb /\ (SvcLeased(k) \/ PoolTells("Service"))
    \/ SvcComing(k)

\* The same of an IP that was found in the pool and is not leased yet.
SvcFound(ip) == ContainsIP(ip) \/ PoolTells("Service") \/ svcWork.key \in svcQueued
SvcLoadedInv ==
  /\ svcWork.pc \in {"recheck", "reclaim", "clear", "allocate", "commit", "giveup"} =>
       svcWork.svc # NoService /\ svcWork.svc.lb
  /\ (svcWork.pc = "reclaim" /\ svcWork.fresh) => SvcFound(svcWork.svc.status)
  /\ (svcWork.pc = "commit" /\ svcWork.fresh) => SvcFound(Canonical[svcWork.svc.want])

LEMMA SvcOutcomeLeased ==
  ASSUME SvcInv, SvcCopied, SvcLeasedInv, SvcLoadedInv, \A k \in SvcKeys : SvcOutcome(k),
         UNCHANGED <<nets, poolLog, poolEvents>>
  PROVE  SvcLeasedInv'
<1>1. PoolTells("Service")' = PoolTells("Service")
  BY DEF PoolTells, PoolNews, Due, StoredPool, Announced
<1>2. ASSUME NEW ip, ContainsIP(ip)
      PROVE  ContainsIP(ip)'
  BY <1>2 DEF ContainsIP
<1> SUFFICES ASSUME NEW k \in SvcKeys, SvcShown(k)', ~SvcComing(k)'
             PROVE  CachedService(k)'.lb /\ (SvcLeased(k)' \/ PoolTells("Service"))
  BY <1>1 DEF SvcLeasedInv
<1>3. /\ CachedService(k)' = CachedService(k) /\ SvcShown(k)
      /\ \/ ~SvcComing(k) /\ allocated'[Service(k)] = allocated[Service(k)]
         \/ /\ svcLog[k] = <<svcWork.svc>> /\ svcWork.key = k /\ SvcGranted
            /\ k \notin svcQueued
  BY DEF SvcOutcome, SvcShown
<1>4. CASE ~SvcComing(k) /\ allocated'[Service(k)] = allocated[Service(k)]
  <2>1. CachedService(k).lb /\ (SvcLeased(k) \/ PoolTells("Service"))
    BY <1>3, <1>4 DEF SvcLeasedInv
  <2>2. SvcLeased(k) => SvcLeased(k)'
    BY <1>2, <1>3, <1>4 DEF SvcLeased, Service
  <2> QED
    BY <1>3, <2>1, <2>2
<1>5. CASE /\ svcLog[k] = <<svcWork.svc>> /\ svcWork.key = k /\ SvcGranted
           /\ k \notin svcQueued
  <2>1. CachedService(k) = svcWork.svc /\ ~(Len(svcLog[k]) > 1)
    BY <1>5, SvcLogs
  <2>2. svcWork.fresh /\ svcWork.svc.lb
    BY <1>5, <2>1 DEF SvcCopied, SvcGranted, SvcLoadedInv
  <2>3. ContainsIP(svcWork.svc.status) \/ PoolTells("Service")
    BY <1>5, <2>2 DEF SvcGranted, SvcLoadedInv, SvcFound
  <2>4. allocated'[Service(k)] = CachedService(k).status
    BY <1>5, <2>1 DEF SvcGranted, SvcOwner
  <2>5. ContainsIP(svcWork.svc.status) => SvcLeased(k)'
    BY <1>2, <1>3, <2>1, <2>4 DEF SvcLeased, Service
  <2> QED
    BY <1>3, <2>1, <2>2, <2>3, <2>5
<1> QED
  BY <1>3, <1>4, <1>5

\* A step that leaves the worker leaves what it has found.
LEMMA SvcStillLoaded ==
  ASSUME SvcLoadedInv,
         svcWork'.key = svcWork.key, svcWork'.pc = svcWork.pc, svcWork'.svc = svcWork.svc,
         svcWork'.fresh => svcWork.fresh, svcQueued \subseteq svcQueued',
         \A ip : ContainsIP(ip) => ContainsIP(ip)' \/ PoolTells("Service")',
         PoolTells("Service") => PoolTells("Service")'
  PROVE  SvcLoadedInv'
<1>1. \A ip : SvcFound(ip) => SvcFound(ip)'
  BY DEF SvcFound
<1> QED
  BY <1>1 DEF SvcLoadedInv

LEMMA SvcWorkerLoaded ==
  ASSUME SvcInv, SvcLoadedInv, SvcWorker
  PROVE  SvcLoadedInv'
<1>1. ASSUME NEW k \in SvcKeys, SvcGet(k)
      PROVE  SvcLoadedInv'
  <2>1. ASSUME NEW pc, SvcStart(k, pc)
        PROVE  svcWork'.pc = pc /\ svcWork'.svc = CachedService(k)
    BY <2>1 DEF SvcStart
  <2>2. \/ SvcStart(k, "deleted") \/ SvcStart(k, "strip")
        \/ /\ CachedService(k) # NoService /\ CachedService(k).lb
           /\ SvcStart(k, "recheck") \/ SvcStart(k, "clear")
        \/ svcWork.pc = "idle" /\ svcWork' = svcWork
    BY <1>1 DEF SvcGet
  <2> QED
    BY <2>1, <2>2 DEF SvcLoadedInv
<1>2. ASSUME NEW pc \in {"clear", "allocate", "giveup"}, SvcGoto(pc),
             svcWork.pc \in {"recheck", "reclaim", "clear", "allocate", "commit"}
      PROVE  SvcLoadedInv'
  <2>1. svcWork'.pc = pc /\ svcWork'.svc = svcWork.svc
    BY <1>2 DEF SvcGoto, SvcInv, SvcTypeOK
  <2> QED
    BY <1>2, <2>1 DEF SvcLoadedInv
<1>3. ASSUME NEW status, SvcSettle(status)
      PROVE  SvcLoadedInv'
  <2>1. SvcDone => svcWork'.pc = "idle"
    BY DEF SvcDone, SvcIdle
  <2>2. ~SvcDone => svcWork'.pc = "update"
    BY <1>3 DEF SvcSettle, SvcInv, SvcTypeOK
  <2> QED
    BY <2>1, <2>2 DEF SvcLoadedInv
<1>4. CASE SvcDone \/ SvcFailed
  BY <1>4 DEF SvcDone, SvcFailed, SvcIdle, SvcLoadedInv
<1>5. CASE SvcFreeDeleted \/ SvcStrip \/ SvcGiveUp \/ SvcUpdateStatus
  BY <1>3, <1>4, <1>5 DEF SvcFreeDeleted, SvcStrip, SvcGiveUp, SvcUpdateStatus
<1>6. CASE SvcRecheck
  <2>1. CASE SvcGoto("clear")
    BY <1>2, <1>6, <2>1 DEF SvcRecheck
  <2>2. CASE CheckDesiredIP(SvcOwner, svcWork.svc.status) /\ SvcGoto("reclaim")
    <3>1. svcWork'.pc = "reclaim" /\ svcWork'.svc = svcWork.svc /\ svcWork.svc.status \in IPs
      BY <1>6, <2>2 DEF SvcRecheck, SvcGoto, SvcInv, SvcTypeOK, SvcInFlight
    <3>2. ContainsIP(svcWork.svc.status) /\ nets' = nets
      BY <2>2, <3>1, IPAssumption DEF CheckDesiredIP, Rejected
    <3>3. SvcFound(svcWork.svc.status)'
      BY <3>1, <3>2 DEF SvcFound, ContainsIP
    <3> QED
      BY <1>6, <3>1, <3>3 DEF SvcLoadedInv, SvcRecheck
  <2> QED
    BY <1>6, <2>1, <2>2 DEF SvcRecheck
<1>7. CASE SvcReclaim \/ SvcClear \/ SvcCommit
  BY <1>2, <1>3, <1>7 DEF SvcReclaim, SvcClear, SvcCommit
<1>8. CASE SvcAllocate
  <2>1. CASE SvcGoto("giveup")
    BY <1>2, <1>8, <2>1 DEF SvcAllocate
  <2>2. CASE CheckDesiredIP(SvcOwner, svcWork.svc.want) /\ SvcGoto("commit")
    <3>1. svcWork'.pc = "commit" /\ svcWork'.svc = svcWork.svc
      BY <2>2 DEF SvcGoto, SvcInv, SvcTypeOK
    <3>2. ContainsIP(Canonical[svcWork.svc.want]) /\ nets' = nets
      BY <2>2 DEF CheckDesiredIP, Rejected
    <3>3. SvcFound(Canonical[svcWork.svc.want])'
      BY <3>1, <3>2 DEF SvcFound, ContainsIP
    <3> QED
      BY <1>8, <3>1, <3>3 DEF SvcLoadedInv, SvcAllocate
  <2> QED
    BY <1>3, <1>8, <2>1, <2>2 DEF SvcAllocate
<1> QED
  BY <1>1, <1>5, <1>6, <1>7, <1>8 DEF SvcWorker

LEMMA SvcNextLoaded ==
  ASSUME SvcInv, SvcLoadedInv, SvcNext, UNCHANGED <<poolLog, poolEvents>>
  PROVE  SvcLoadedInv'
<1>1. PoolTells("Service")' = PoolTells("Service")
  BY DEF PoolTells, PoolNews, Due, StoredPool, Announced
<1>2. CASE SvcUser
  <2>1. nets' = nets /\ svcQueued' = svcQueued
    BY <1>2, SvcUserKeeps DEF allocVars
  <2>2. \E k \in SvcKeys : \E v : StoreService(k, v)
    BY <1>2, Zenon DEF SvcUser, SvcCreate, SvcSetIP, SvcSetType, SvcTouch, SvcSetStatus, SvcDelete
  <2>3. svcWork'.fresh => svcWork.fresh
    BY <2>2 DEF StoreService, SvcInv, SvcTypeOK
  <2> QED
    BY <1>1, <1>2, <2>1, <2>3, SvcUserKeeps, SvcStillLoaded DEF ContainsIP
<1>3. CASE (\E k \in SvcKeys : SvcDeliver(k) \/ SvcRetry(k)) \/ SvcResync
  <2>1. nets' = nets /\ svcWork' = svcWork /\ svcQueued \subseteq svcQueued'
    BY <1>3 DEF SvcDeliver, SvcRetry, SvcResync, svcCtlVars, allocVars
  <2> QED
    BY <1>1, <2>1, SvcStillLoaded DEF ContainsIP
<1> QED
  BY <1>2, <1>3, SvcWorkerLoaded DEF SvcNext

\* Steps of the others.
LEMMA SvcStays ==
  ASSUME SvcCopied, SvcAskedInv, UNCHANGED svcVars
  PROVE  SvcCopied' /\ SvcAskedInv'
  BY DEF svcVars, svcCtlVars, svcQueueVars, SvcCopied, SvcAskedInv, SvcShown, SvcComing,
         CachedService, Grants

LEMMA SvcStaysLeased ==
  ASSUME SvcLeasedInv, SvcLoadedInv, UNCHANGED svcVars,
         PoolTells("Service") => PoolTells("Service")',
         \/ /\ UNCHANGED nets
            /\ \A key \in Keys : allocated'[Service(key)] = allocated[Service(key)]
         \/ PoolTells("Service")'
         \/ nets = <<>>
  PROVE  SvcLeasedInv' /\ SvcLoadedInv'
<1>1. /\ svcWork' = svcWork /\ svcQueued' = svcQueued
      /\ \A k \in SvcKeys : /\ CachedService(k)' = CachedService(k)
                            /\ SvcComing(k)' = SvcComing(k) /\ SvcShown(k)' = SvcShown(k)
  BY DEF svcVars, svcCtlVars, svcQueueVars, CachedService, SvcComing, SvcShown
<1>2. ASSUME NEW ip, ContainsIP(ip)
      PROVE  ContainsIP(ip)' \/ PoolTells("Service")'
  <2>1. nets # <<>>
    BY <1>2 DEF ContainsIP
  <2> QED
    BY <1>2, <2>1 DEF ContainsIP
<1>3. ASSUME NEW k \in SvcKeys, SvcLeased(k)
      PROVE  SvcLeased(k)' \/ PoolTells("Service")'
  <2>1. nets # <<>> /\ k \in Keys
    BY <1>3, SvcAssumption DEF SvcLeased, ContainsIP
  <2> QED
    BY <1>1, <1>2, <1>3, <2>1 DEF SvcLeased, Service
<1>4. SvcLeasedInv'
  BY <1>1, <1>3 DEF SvcLeasedInv
<1>5. SvcLoadedInv'
  BY <1>1, <1>2, SvcStillLoaded
<1> QED
  BY <1>4, <1>5

\* The listener queues every load balancer.
LEMMA SvcOnPoolChangeLeased ==
  ASSUME SvcInv, SvcCopied, SvcLeasedInv, SvcLoadedInv, SvcOnPoolChange
  PROVE  SvcLeasedInv' /\ SvcLoadedInv'
<1>1. /\ svcQueued' = svcQueued \cup CachedLoadBalancers
      /\ UNCHANGED <<svcLog, svcDelayed, svcWork>>
      /\ \A k \in SvcKeys : CachedService(k)' = CachedService(k) /\ SvcShown(k)' = SvcShown(k)
  BY DEF SvcOnPoolChange, CachedService, SvcShown
<1>2. ASSUME NEW k \in SvcKeys, SvcShown(k)
      PROVE  SvcComing(k)'
  <2>1. SvcComing(k) => SvcComing(k)'
    BY <1>1 DEF SvcComing
  <2>2. CachedService(k).lb => k \in svcQueued'
    BY <1>1, <1>2 DEF SvcShown, CachedLoadBalancers
  <2> QED
    BY <1>2, <2>1, <2>2 DEF SvcLeasedInv, SvcComing
<1>3. ASSUME svcWork.pc \in {"reclaim", "commit"}, svcWork.fresh
      PROVE  svcWork.key \in svcQueued'
  <2>1. svcWork.key \in SvcKeys /\ svcWork.svc # NoService /\ svcWork.svc.lb
    BY <1>3, SvcOwnerIsOwner DEF SvcLoadedInv
  <2>2. svcLog[svcWork.key] = <<svcWork.svc>>
    BY <1>3 DEF SvcCopied
  <2>3. CachedService(svcWork.key) = svcWork.svc
    BY <2>1, <2>2, SvcLogs
  <2> QED
    BY <1>1, <2>1, <2>3 DEF CachedLoadBalancers
<1>4. SvcLoadedInv'
  BY <1>1, <1>3 DEF SvcLoadedInv, SvcFound
<1> QED
  BY <1>1, <1>2, <1>4 DEF SvcLeasedInv

\* A new process syncs every service.
LEMMA SvcRestartLeased ==
  ASSUME SvcInv, SvcRestart
  PROVE  SvcCopied' /\ SvcAskedInv' /\ SvcLeasedInv' /\ SvcLoadedInv'
<1>1. svcWork'.pc = "idle"
  BY DEF SvcRestart, SvcIdle
<1>2. ASSUME NEW k \in SvcKeys, SvcShown(k)'
      PROVE  SvcComing(k)'
  <2>1. CachedService(k)' = StoredService(k)
    BY DEF SvcRestart, CachedService
  <2> QED
    BY <1>2, <2>1 DEF SvcRestart, SvcShown, SvcComing
<1> QED
  BY <1>1, <1>2 DEF SvcCopied, SvcAskedInv, SvcLeasedInv, SvcLoadedInv

LEMMA SvcInitLeased ==
  ASSUME SvcInit
  PROVE  SvcCopied /\ SvcAskedInv /\ SvcLeasedInv /\ SvcLoadedInv
<1>1. svcWork.pc = "idle"
  BY DEF SvcInit, SvcIdle
<1>2. ASSUME NEW k \in SvcKeys, SvcShown(k)
      PROVE  SvcComing(k)
  BY <1>2 DEF SvcInit, CachedService, SvcShown, SvcComing
<1> QED
  BY <1>1, <1>2 DEF SvcCopied, SvcAskedInv, SvcLeasedInv, SvcLoadedInv

LEMMA SvcFaults ==
  ASSUME SvcInv, SvcNext
  PROVE  svcLeft'.faults = MaxSvcFaults => svcLeft.faults = MaxSvcFaults
<1>1. /\ svcLeft.faults \in 0 .. MaxSvcFaults /\ MaxSvcFaults \in Nat
      /\ svcLeft \in [ops : 0 .. MaxSvcOps, faults : 0 .. MaxSvcFaults]
  BY SvcAssumption DEF SvcInv, SvcTypeOK
<1>2. \/ svcLeft' = svcLeft
      \/ svcLeft' = [svcLeft EXCEPT !.ops = @ - 1]
      \/ svcLeft.faults > 0 /\ svcLeft' = [svcLeft EXCEPT !.faults = @ - 1]
  BY Zenon DEF SvcNext, SvcUser, SvcCreate, SvcSetIP, SvcSetType, SvcTouch, SvcSetStatus, SvcDelete,
     UserSvcOp, SvcDeliver, SvcRetry, SvcResync, SvcMayResync, SvcWorker, SvcGet, SvcFreeDeleted,
     SvcStrip, SvcRecheck, SvcReclaim, SvcClear, SvcAllocate, SvcCommit, SvcGiveUp, SvcUpdateStatus
<1> QED
  BY <1>1, <1>2
-----------------------------------------------------------------------------
(* FloatingIPs: the same.                                                  *)

LEMMA FipOutcomeAsked ==
  ASSUME FipInv, FipAskedInv, \A k \in FipKeys : FipOutcome(k)
  PROVE  FipAskedInv'
<1> SUFFICES ASSUME NEW k \in FipKeys, FipShown(k)', ~FipComing(k)'
             PROVE  Grants(CachedFloatingIP(k).want, CachedFloatingIP(k).status)'
  BY DEF FipAskedInv
<1>1. /\ CachedFloatingIP(k)' = CachedFloatingIP(k)
      /\ ~FipComing(k) \/ (fipLog[k] = <<fipWork.fip>> /\ FipGranted)
  BY DEF FipOutcome, FipShown
<1>2. CASE ~FipComing(k)
  BY <1>1, <1>2 DEF FipAskedInv, FipShown, Grants
<1>3. CASE fipLog[k] = <<fipWork.fip>> /\ FipGranted
  <2>1. CachedFloatingIP(k) = fipWork.fip
    BY <1>3, FipLogs
  <2> QED
    BY <1>1, <1>3, <2>1 DEF FipGranted, Grants
<1> QED
  BY <1>1, <1>2, <1>3

\* The allocator has recorded, and the pool has, the IP the object shows.
FipLeased(k) ==
  /\ allocated[FloatingIP(k)] = CachedFloatingIP(k).status
  /\ ContainsIP(CachedFloatingIP(k).status)

\* An object that shows an IP that is not leased will be synced, or the pool
\* controller will tell its listeners.
FipLeasedInv ==
  \A k \in FipKeys : FipShown(k) =>
    FipLeased(k) \/ PoolTells("FloatingIP") \/ FipComing(k)

\* The same of an IP that was found in the pool and is not leased yet.
FipFound(ip) == ContainsIP(ip) \/ PoolTells("FloatingIP") \/ fipWork.key \in fipQueued
FipLoadedInv ==
  /\ fipWork.pc \in {"recheck", "reclaim", "clear", "allocate", "commit", "giveup"} =>
       fipWork.fip # NoFloatingIP
  /\ (fipWork.pc = "reclaim" /\ fipWork.fresh) => FipFound(fipWork.fip.status)
  /\ (fipWork.pc = "commit" /\ fipWork.fresh) => FipFound(Canonical[fipWork.fip.want])

LEMMA FipOutcomeLeased ==
  ASSUME FipInv, FipCopied, FipLeasedInv, FipLoadedInv, \A k \in FipKeys : FipOutcome(k),
         UNCHANGED <<nets, poolLog, poolEvents>>
  PROVE  FipLeasedInv'
<1>1. PoolTells("FloatingIP")' = PoolTells("FloatingIP")
  BY DEF PoolTells, PoolNews, Due, StoredPool, Announced
<1>2. ASSUME NEW ip, ContainsIP(ip)
      PROVE  ContainsIP(ip)'
  BY <1>2 DEF ContainsIP
<1> SUFFICES ASSUME NEW k \in FipKeys, FipShown(k)', ~FipComing(k)'
             PROVE  FipLeased(k)' \/ PoolTells("FloatingIP")
  BY <1>1 DEF FipLeasedInv
<1>3. /\ CachedFloatingIP(k)' = CachedFloatingIP(k) /\ FipShown(k)
      /\ \/ ~FipComing(k) /\ allocated'[FloatingIP(k)] = allocated[FloatingIP(k)]
         \/ /\ fipLog[k] = <<fipWork.fip>> /\ fipWork.key = k /\ FipGranted
            /\ k \notin fipQueued
  BY DEF FipOutcome, FipShown
<1>4. CASE ~FipComing(k) /\ allocated'[FloatingIP(k)] = allocated[FloatingIP(k)]
  <2>1. FipLeased(k) \/ PoolTells("FloatingIP")
    BY <1>3, <1>4 DEF FipLeasedInv
  <2>2. FipLeased(k) => FipLeased(k)'
    BY <1>2, <1>3, <1>4 DEF FipLeased, FloatingIP
  <2> QED
    BY <1>3, <2>1, <2>2
<1>5. CASE /\ fipLog[k] = <<fipWork.fip>> /\ fipWork.key = k /\ FipGranted
           /\ k \notin fipQueued
  <2>1. CachedFloatingIP(k) = fipWork.fip /\ ~(Len(fipLog[k]) > 1)
    BY <1>5, FipLogs
  <2>2. fipWork.fresh
    BY <1>5, <2>1 DEF FipCopied, FipGranted, FipLoadedInv
  <2>3. ContainsIP(fipWork.fip.status) \/ PoolTells("FloatingIP")
    BY <1>5, <2>2 DEF FipGranted, FipLoadedInv, FipFound
  <2>4. allocated'[FloatingIP(k)] = CachedFloatingIP(k).status
    BY <1>5, <2>1 DEF FipGranted, FipOwner
  <2>5. ContainsIP(fipWork.fip.status) => FipLeased(k)'
    BY <1>2, <1>3, <2>1, <2>4 DEF FipLeased, FloatingIP
  <2> QED
    BY <1>3, <2>1, <2>2, <2>3, <2>5
<1> QED
  BY <1>3, <1>4, <1>5

\* A step that leaves the worker leaves what it has found.
LEMMA FipStillLoaded ==
  ASSUME FipLoadedInv,
         fipWork'.key = fipWork.key, fipWork'.pc = fipWork.pc, fipWork'.fip = fipWork.fip,
         fipWork'.fresh => fipWork.fresh, fipQueued \subseteq fipQueued',
         \A ip : ContainsIP(ip) => ContainsIP(ip)' \/ PoolTells("FloatingIP")',
         PoolTells("FloatingIP") => PoolTells("FloatingIP")'
  PROVE  FipLoadedInv'
<1>1. \A ip : FipFound(ip) => FipFound(ip)'
  BY DEF FipFound
<1> QED
  BY <1>1 DEF FipLoadedInv

LEMMA FipWorkerLoaded ==
  ASSUME FipInv, FipLoadedInv, FipWorker
  PROVE  FipLoadedInv'
<1>1. ASSUME NEW k \in FipKeys, FipGet(k)
      PROVE  FipLoadedInv'
  <2>1. /\ fipWork'.fip = CachedFloatingIP(k)
        /\ fipWork'.pc \in {"deleted", "recheck", "clear"}
        /\ fipWork'.pc # "deleted" => CachedFloatingIP(k) # NoFloatingIP
    BY <1>1 DEF FipGet
  <2> QED
    BY <2>1 DEF FipLoadedInv
<1>2. ASSUME NEW pc \in {"clear", "allocate", "giveup"}, FipGoto(pc),
             fipWork.pc \in {"recheck", "reclaim", "clear", "allocate", "commit"}
      PROVE  FipLoadedInv'
  <2>1. fipWork'.pc = pc /\ fipWork'.fip = fipWork.fip
    BY <1>2 DEF FipGoto, FipInv, FipTypeOK
  <2> QED
    BY <1>2, <2>1 DEF FipLoadedInv
<1>3. ASSUME NEW status, FipSettle(status)
      PROVE  FipLoadedInv'
  <2>1. FipDone => fipWork'.pc = "idle"
    BY DEF FipDone, FipIdle
  <2>2. ~FipDone => fipWork'.pc = "update"
    BY <1>3 DEF FipSettle, FipInv, FipTypeOK
  <2> QED
    BY <2>1, <2>2 DEF FipLoadedInv
<1>4. CASE FipDone \/ FipFailed
  BY <1>4 DEF FipDone, FipFailed, FipIdle, FipLoadedInv
<1>5. CASE FipFreeDeleted \/ FipGiveUp \/ FipUpdateStatus
  BY <1>3, <1>4, <1>5 DEF FipFreeDeleted, FipGiveUp, FipUpdateStatus
<1>6. CASE FipRecheck
  <2>1. CASE FipGoto("clear")
    BY <1>2, <1>6, <2>1 DEF FipRecheck
  <2>2. CASE CheckDesiredIP(FipOwner, fipWork.fip.status) /\ FipGoto("reclaim")
    <3>1. fipWork'.pc = "reclaim" /\ fipWork'.fip = fipWork.fip /\ fipWork.fip.status \in IPs
      BY <1>6, <2>2 DEF FipRecheck, FipGoto, FipInv, FipTypeOK, FipInFlight
    <3>2. ContainsIP(fipWork.fip.status) /\ nets' = nets
      BY <2>2, <3>1, IPAssumption DEF CheckDesiredIP, Rejected
    <3>3. FipFound(fipWork.fip.status)'
      BY <3>1, <3>2 DEF FipFound, ContainsIP
    <3> QED
      BY <1>6, <3>1, <3>3 DEF FipLoadedInv, FipRecheck
  <2> QED
    BY <1>6, <2>1, <2>2 DEF FipRecheck
<1>7. CASE FipReclaim \/ FipClear \/ FipCommit
  BY <1>2, <1>3, <1>7 DEF FipReclaim, FipClear, FipCommit
<1>8. CASE FipAllocate
  <2>1. CASE FipGoto("giveup")
    BY <1>2, <1>8, <2>1 DEF FipAllocate
  <2>2. CASE CheckDesiredIP(FipOwner, fipWork.fip.want) /\ FipGoto("commit")
    <3>1. fipWork'.pc = "commit" /\ fipWork'.fip = fipWork.fip
      BY <2>2 DEF FipGoto, FipInv, FipTypeOK
    <3>2. ContainsIP(Canonical[fipWork.fip.want]) /\ nets' = nets
      BY <2>2 DEF CheckDesiredIP, Rejected
    <3>3. FipFound(Canonical[fipWork.fip.want])'
      BY <3>1, <3>2 DEF FipFound, ContainsIP
    <3> QED
      BY <1>8, <3>1, <3>3 DEF FipLoadedInv, FipAllocate
  <2> QED
    BY <1>3, <1>8, <2>1, <2>2 DEF FipAllocate
<1> QED
  BY <1>1, <1>5, <1>6, <1>7, <1>8 DEF FipWorker

LEMMA FipNextLoaded ==
  ASSUME FipInv, FipLoadedInv, FipNext, UNCHANGED <<poolLog, poolEvents>>
  PROVE  FipLoadedInv'
<1>1. PoolTells("FloatingIP")' = PoolTells("FloatingIP")
  BY DEF PoolTells, PoolNews, Due, StoredPool, Announced
<1>2. CASE FipUser
  <2>1. nets' = nets /\ fipQueued' = fipQueued
    BY <1>2, FipUserKeeps DEF allocVars
  <2>2. \E k \in FipKeys : \E v : StoreFloatingIP(k, v)
    BY <1>2, Zenon DEF FipUser, FipCreate, FipSetIP, FipTouch, FipSetStatus, FipDelete
  <2>3. fipWork'.fresh => fipWork.fresh
    BY <2>2 DEF StoreFloatingIP, FipInv, FipTypeOK
  <2> QED
    BY <1>1, <1>2, <2>1, <2>3, FipUserKeeps, FipStillLoaded DEF ContainsIP
<1>3. CASE (\E k \in FipKeys : FipDeliver(k) \/ FipRetry(k)) \/ FipResync
  <2>1. nets' = nets /\ fipWork' = fipWork /\ fipQueued \subseteq fipQueued'
    BY <1>3 DEF FipDeliver, FipRetry, FipResync, fipCtlVars, allocVars
  <2> QED
    BY <1>1, <2>1, FipStillLoaded DEF ContainsIP
<1> QED
  BY <1>2, <1>3, FipWorkerLoaded DEF FipNext

\* Steps of the others.
LEMMA FipStays ==
  ASSUME FipCopied, FipAskedInv, UNCHANGED fipVars
  PROVE  FipCopied' /\ FipAskedInv'
  BY DEF fipVars, fipCtlVars, fipQueueVars, FipCopied, FipAskedInv, FipShown, FipComing,
         CachedFloatingIP, Grants

LEMMA FipStaysLeased ==
  ASSUME FipLeasedInv, FipLoadedInv, UNCHANGED fipVars,
         PoolTells("FloatingIP") => PoolTells("FloatingIP")',
         \/ /\ UNCHANGED nets
            /\ \A key \in Keys : allocated'[FloatingIP(key)] = allocated[FloatingIP(key)]
         \/ PoolTells("FloatingIP")'
         \/ nets = <<>>
  PROVE  FipLeasedInv' /\ FipLoadedInv'
<1>1. /\ fipWork' = fipWork /\ fipQueued' = fipQueued
      /\ \A k \in FipKeys : /\ CachedFloatingIP(k)' = CachedFloatingIP(k)
                            /\ FipComing(k)' = FipComing(k) /\ FipShown(k)' = FipShown(k)
  BY DEF fipVars, fipCtlVars, fipQueueVars, CachedFloatingIP, FipComing, FipShown
<1>2. ASSUME NEW ip, ContainsIP(ip)
      PROVE  ContainsIP(ip)' \/ PoolTells("FloatingIP")'
  <2>1. nets # <<>>
    BY <1>2 DEF ContainsIP
  <2> QED
    BY <1>2, <2>1 DEF ContainsIP
<1>3. ASSUME NEW k \in FipKeys, FipLeased(k)
      PROVE  FipLeased(k)' \/ PoolTells("FloatingIP")'
  <2>1. nets # <<>> /\ k \in Keys
    BY <1>3, FipAssumption DEF FipLeased, ContainsIP
  <2> QED
    BY <1>1, <1>2, <1>3, <2>1 DEF FipLeased, FloatingIP
<1>4. FipLeasedInv'
  BY <1>1, <1>3 DEF FipLeasedInv
<1>5. FipLoadedInv'
  BY <1>1, <1>2, FipStillLoaded
<1> QED
  BY <1>4, <1>5

\* The listener queues every object.
LEMMA FipOnPoolChangeLeased ==
  ASSUME FipInv, FipCopied, FipLeasedInv, FipLoadedInv, FipOnPoolChange
  PROVE  FipLeasedInv' /\ FipLoadedInv'
<1>1. /\ fipQueued' = fipQueued \cup CachedFloatingIPs
      /\ UNCHANGED <<fipLog, fipDelayed, fipWork>>
      /\ \A k \in FipKeys : CachedFloatingIP(k)' = CachedFloatingIP(k) /\ FipShown(k)' = FipShown(k)
  BY DEF FipOnPoolChange, CachedFloatingIP, FipShown
<1>2. ASSUME NEW k \in FipKeys, FipShown(k)
      PROVE  FipComing(k)'
  <2>1. k \in fipQueued'
    BY <1>1, <1>2 DEF FipShown, CachedFloatingIPs
  <2> QED
    BY <2>1 DEF FipComing
<1>3. ASSUME fipWork.pc \in {"reclaim", "commit"}, fipWork.fresh
      PROVE  fipWork.key \in fipQueued'
  <2>1. fipWork.key \in FipKeys /\ fipWork.fip # NoFloatingIP
    BY <1>3, FipOwnerIsOwner DEF FipLoadedInv
  <2>2. fipLog[fipWork.key] = <<fipWork.fip>>
    BY <1>3 DEF FipCopied
  <2>3. CachedFloatingIP(fipWork.key) = fipWork.fip
    BY <2>1, <2>2, FipLogs
  <2> QED
    BY <1>1, <2>1, <2>3 DEF CachedFloatingIPs
<1>4. FipLoadedInv'
  BY <1>1, <1>3 DEF FipLoadedInv, FipFound
<1> QED
  BY <1>1, <1>2, <1>4 DEF FipLeasedInv

\* A new process syncs every object.
LEMMA FipRestartLeased ==
  ASSUME FipInv, FipRestart
  PROVE  FipCopied' /\ FipAskedInv' /\ FipLeasedInv' /\ FipLoadedInv'
<1>1. fipWork'.pc = "idle"
  BY DEF FipRestart, FipIdle
<1>2. ASSUME NEW k \in FipKeys, FipShown(k)'
      PROVE  FipComing(k)'
  <2>1. CachedFloatingIP(k)' = StoredFloatingIP(k)
    BY DEF FipRestart, CachedFloatingIP
  <2> QED
    BY <1>2, <2>1 DEF FipRestart, FipShown, FipComing
<1> QED
  BY <1>1, <1>2 DEF FipCopied, FipAskedInv, FipLeasedInv, FipLoadedInv

LEMMA FipInitLeased ==
  ASSUME FipInit
  PROVE  FipCopied /\ FipAskedInv /\ FipLeasedInv /\ FipLoadedInv
<1>1. fipWork.pc = "idle"
  BY DEF FipInit, FipIdle
<1>2. ASSUME NEW k \in FipKeys, FipShown(k)
      PROVE  FipComing(k)
  BY <1>2 DEF FipInit, CachedFloatingIP, FipShown, FipComing
<1> QED
  BY <1>1, <1>2 DEF FipCopied, FipAskedInv, FipLeasedInv, FipLoadedInv

LEMMA FipFaults ==
  ASSUME FipInv, FipNext
  PROVE  fipLeft'.faults = MaxFipFaults => fipLeft.faults = MaxFipFaults
<1>1. /\ fipLeft.faults \in 0 .. MaxFipFaults /\ MaxFipFaults \in Nat
      /\ fipLeft \in [ops : 0 .. MaxFipOps, faults : 0 .. MaxFipFaults]
  BY FipAssumption DEF FipInv, FipTypeOK
<1>2. \/ fipLeft' = fipLeft
      \/ fipLeft' = [fipLeft EXCEPT !.ops = @ - 1]
      \/ fipLeft.faults > 0 /\ fipLeft' = [fipLeft EXCEPT !.faults = @ - 1]
  BY Zenon DEF FipNext, FipUser, FipCreate, FipSetIP, FipTouch, FipSetStatus, FipDelete,
     UserFipOp, FipDeliver, FipRetry, FipResync, FipMayResync, FipWorker, FipGet, FipFreeDeleted,
     FipRecheck, FipReclaim, FipClear, FipAllocate, FipCommit, FipGiveUp, FipUpdateStatus
<1> QED
  BY <1>1, <1>2
-----------------------------------------------------------------------------
(* The process.                                                            *)

\* No request has failed so far; no status request has.
Unfailed ==
  /\ poolLeft.faults = MaxPoolFaults
  /\ svcLeft.faults = MaxSvcFaults /\ fipLeft.faults = MaxFipFaults
StatusesWritten == svcLeft.faults = MaxSvcFaults /\ fipLeft.faults = MaxFipFaults

AskedInv ==
  StatusesWritten =>
    /\ SvcCopied /\ SvcAskedInv
    /\ FipCopied /\ FipAskedInv
LeasedInv ==
  Unfailed =>
    /\ ToldInv
    /\ "Service" \in Listeners => SvcLeasedInv /\ SvcLoadedInv
    /\ "FloatingIP" \in Listeners => FipLeasedInv /\ FipLoadedInv
StatusInv == AskedInv /\ LeasedInv

\* A fault is never undone.
LEMMA SystemFaults ==
  ASSUME SystemInv, [SystemNext]_vars
  PROVE  /\ poolLeft'.faults = MaxPoolFaults => poolLeft.faults = MaxPoolFaults
         /\ svcLeft'.faults = MaxSvcFaults => svcLeft.faults = MaxSvcFaults
         /\ fipLeft'.faults = MaxFipFaults => fipLeft.faults = MaxFipFaults
<1>1. CASE PoolStep
  <2>1. /\ poolLeft \in [ops : 0 .. MaxPoolOps, faults : 0 .. MaxPoolFaults, restarts : 0 .. MaxRestarts]
        /\ MaxPoolFaults \in Nat
    BY PoolAssumption DEF SystemInv, PoolInv, PoolVarsOK
  <2>2. \/ poolLeft' = poolLeft
        \/ poolLeft' = [poolLeft EXCEPT !.ops = @ - 1]
        \/ PoolFault
    BY <1>1, Zenon DEF PoolStep, PoolNext, PoolUser, PoolCreate, PoolEdit, PoolTouch, PoolDelete,
       UserPoolOp, PoolInformer, PoolDeliver, PoolRelist, PoolResync, PoolRetry, PoolWorker,
       PoolGet, PoolRelease, PoolLoad, PoolUpdateStatus
  <2>3. poolLeft'.faults = MaxPoolFaults => poolLeft.faults = MaxPoolFaults
    BY <2>1, <2>2 DEF PoolFault
  <2> QED
    BY <1>1, <2>3 DEF PoolStep, svcVars, fipVars
<1>2. CASE SvcStep
  BY <1>2, SvcFaults DEF SvcStep, SystemInv, poolVars, fipVars
<1>3. CASE FipStep
  BY <1>3, FipFaults DEF FipStep, SystemInv, poolVars, svcVars
<1>4. CASE SvcPoolEvent \/ FipPoolEvent
  BY <1>4 DEF SvcPoolEvent, FipPoolEvent, PoolEvent, SvcOnPoolChange, FipOnPoolChange, svcVars, fipVars
<1>5. CASE Restart
  BY <1>5 DEF Restart, PoolRestart, SvcRestart, FipRestart, SystemInv, PoolInv, PoolVarsOK
<1>6. CASE UNCHANGED vars
  BY <1>6 DEF vars, poolVars, svcVars, fipVars
<1> QED
  BY <1>1, <1>2, <1>3, <1>4, <1>5, <1>6 DEF SystemNext

LEMMA SystemInitStatus ==
  ASSUME PoolIsKept, SystemInit
  PROVE  LeasedInv
  BY PoolInitTold, SvcInitLeased, FipInitLeased DEF SystemInit, LeasedInv

LEMMA SystemNextAsked == SystemInv /\ AskedInv /\ [SystemNext]_vars => AskedInv'
<1> SUFFICES ASSUME SystemInv, AskedInv, [SystemNext]_vars, StatusesWritten'
             PROVE  SvcCopied' /\ SvcAskedInv' /\ FipCopied' /\ FipAskedInv'
  BY DEF AskedInv
<1>1. /\ svcLeft.faults = MaxSvcFaults /\ svcLeft'.faults = svcLeft.faults
      /\ fipLeft.faults = MaxFipFaults /\ fipLeft'.faults = fipLeft.faults
  BY SystemFaults DEF StatusesWritten
<1>2. SvcCopied /\ SvcAskedInv /\ FipCopied /\ FipAskedInv
  BY <1>1 DEF AskedInv, StatusesWritten
<1>3. UNCHANGED svcVars => SvcCopied' /\ SvcAskedInv'
  BY <1>2, SvcStays
<1>4. UNCHANGED fipVars => FipCopied' /\ FipAskedInv'
  BY <1>2, FipStays
<1>5. CASE SvcStep
  <2>1. SvcNext /\ UNCHANGED fipVars
    BY <1>5 DEF SvcStep
  <2>2. SvcCopied' /\ \A k \in SvcKeys : SvcOutcome(k)
    BY <1>1, <1>2, <2>1, SvcNextOutcome DEF SystemInv
  <2> QED
    BY <1>2, <1>4, <2>1, <2>2, SvcOutcomeAsked DEF SystemInv
<1>6. CASE FipStep
  <2>1. FipNext /\ UNCHANGED svcVars
    BY <1>6 DEF FipStep
  <2>2. FipCopied' /\ \A k \in FipKeys : FipOutcome(k)
    BY <1>1, <1>2, <2>1, FipNextOutcome DEF SystemInv
  <2> QED
    BY <1>2, <1>3, <2>1, <2>2, FipOutcomeAsked DEF SystemInv
<1>7. CASE SvcPoolEvent
  <2>1. SvcOnPoolChange /\ UNCHANGED fipVars
    BY <1>7 DEF SvcPoolEvent
  <2>2. SvcCopied' /\ \A k \in SvcKeys : SvcOutcome(k)
    BY <1>2, <2>1, SvcEventOutcome DEF SystemInv
  <2> QED
    BY <1>2, <1>4, <2>1, <2>2, SvcOutcomeAsked DEF SystemInv
<1>8. CASE FipPoolEvent
  <2>1. FipOnPoolChange /\ UNCHANGED svcVars
    BY <1>8 DEF FipPoolEvent
  <2>2. FipCopied' /\ \A k \in FipKeys : FipOutcome(k)
    BY <1>2, <2>1, FipEventOutcome DEF SystemInv
  <2> QED
    BY <1>2, <1>3, <2>1, <2>2, FipOutcomeAsked DEF SystemInv
<1>9. CASE Restart
  BY <1>9, SvcRestartLeased, FipRestartLeased DEF Restart, SystemInv
<1>10. CASE PoolStep \/ UNCHANGED vars
  BY <1>3, <1>4, <1>10 DEF PoolStep, vars
<1> QED
  BY <1>5, <1>6, <1>7, <1>8, <1>9, <1>10 DEF SystemNext

\* What the listeners are told, by a step that is not one of the pool's.
LEMMA ToldStays ==
  ASSUME ToldInv, UNCHANGED <<poolLog, poolCtlVars, nets>>
  PROVE  ToldInv'
<1>1. /\ UNCHANGED <<poolLog, poolQueued, poolDelayed, poolWork, observedGeneration, nets>>
      /\ StoredPool' = StoredPool /\ CachedPool' = CachedPool
  BY DEF poolCtlVars, poolQueueVars, StoredPool, CachedPool
<1>2. PoolHistory' /\ PoolCopy'
  BY <1>1 DEF ToldInv, PoolHistory, PoolCopy, PoolLoading, FreshCopy, Announced
<1>3. ReloadedOnce' /\ DueIsTaken'
  BY <1>1 DEF ToldInv, ReloadedOnce, Reload, DueIsTaken, StoredParses, Due, PoolLoading, Announced
<1> QED
  BY <1>2, <1>3 DEF ToldInv

LEMMA TellsStay ==
  ASSUME NEW kind, UNCHANGED poolLog, poolEvents'[kind] = poolEvents[kind]
  PROVE  PoolTells(kind)' = PoolTells(kind)
  BY DEF PoolTells, PoolNews, Due, StoredPool, Announced

LEMMA PoolStepLeased ==
  ASSUME PoolIsKept, SystemInv, ToldInv, PoolStep, poolLeft'.faults = poolLeft.faults,
         "Service" \in Listeners => SvcLeasedInv /\ SvcLoadedInv,
         "FloatingIP" \in Listeners => FipLeasedInv /\ FipLoadedInv
  PROVE  /\ ToldInv'
         /\ "Service" \in Listeners => SvcLeasedInv' /\ SvcLoadedInv'
         /\ "FloatingIP" \in Listeners => FipLeasedInv' /\ FipLoadedInv'
<1>1. PoolNext /\ UNCHANGED svcVars /\ UNCHANGED fipVars
  BY DEF PoolStep
<1>2. ToldInv' /\ \A kind \in Listeners : PoolOutcome(kind)
  BY <1>1, PoolNextTold DEF SystemInv
<1>3. ASSUME NEW kind \in Listeners
      PROVE  /\ PoolTells(kind) => PoolTells(kind)'
             /\ UNCHANGED <<nets, allocated>> \/ PoolTells(kind)' \/ nets = <<>>
  BY <1>2 DEF PoolOutcome
<1>4. "Service" \in Listeners => SvcLeasedInv' /\ SvcLoadedInv'
  BY <1>1, <1>3, SvcStaysLeased
<1>5. "FloatingIP" \in Listeners => FipLeasedInv' /\ FipLoadedInv'
  BY <1>1, <1>3, FipStaysLeased
<1> QED
  BY <1>2, <1>4, <1>5

LEMMA SystemNextLeased ==
  ASSUME PoolIsKept
  PROVE  SystemInv /\ StatusInv /\ [SystemNext]_vars => LeasedInv'
<1> SUFFICES ASSUME SystemInv, StatusInv, [SystemNext]_vars, Unfailed'
             PROVE  /\ ToldInv'
                    /\ "Service" \in Listeners => SvcLeasedInv' /\ SvcLoadedInv'
                    /\ "FloatingIP" \in Listeners => FipLeasedInv' /\ FipLoadedInv'
  BY DEF LeasedInv
<1>1. /\ poolLeft.faults = MaxPoolFaults /\ poolLeft'.faults = poolLeft.faults
      /\ svcLeft.faults = MaxSvcFaults /\ svcLeft'.faults = svcLeft.faults
      /\ fipLeft.faults = MaxFipFaults /\ fipLeft'.faults = fipLeft.faults
  BY SystemFaults DEF Unfailed
<1>2. /\ SvcCopied /\ FipCopied /\ ToldInv
      /\ "Service" \in Listeners => SvcLeasedInv /\ SvcLoadedInv
      /\ "FloatingIP" \in Listeners => FipLeasedInv /\ FipLoadedInv
  BY <1>1 DEF StatusInv, AskedInv, LeasedInv, StatusesWritten, Unfailed
<1>3. CASE PoolStep
  BY <1>1, <1>2, <1>3, PoolStepLeased
<1>4. CASE SvcStep
  <2>1. SvcNext /\ UNCHANGED poolVars /\ UNCHANGED fipVars
    BY <1>4 DEF SvcStep
  <2>2. /\ nets' = nets
        /\ \A key \in Keys : allocated'[FloatingIP(key)] = allocated[FloatingIP(key)]
    BY <1>4, SvcStepIsLocal
  <2>3. UNCHANGED <<poolLog, poolCtlVars, poolEvents>>
    BY <2>1 DEF poolVars
  <2>4. \A k \in SvcKeys : SvcOutcome(k)
    BY <1>1, <1>2, <2>1, SvcNextOutcome DEF SystemInv, StatusInv
  <2>5. "Service" \in Listeners => SvcLeasedInv' /\ SvcLoadedInv'
    BY <1>2, <2>1, <2>2, <2>3, <2>4, SvcOutcomeLeased, SvcNextLoaded DEF SystemInv
  <2>6. "FloatingIP" \in Listeners => FipLeasedInv' /\ FipLoadedInv'
    BY <1>2, <2>1, <2>2, <2>3, TellsStay, FipStaysLeased
  <2> QED
    BY <1>2, <2>2, <2>3, <2>5, <2>6, ToldStays
<1>5. CASE FipStep
  <2>1. FipNext /\ UNCHANGED poolVars /\ UNCHANGED svcVars
    BY <1>5 DEF FipStep
  <2>2. /\ nets' = nets
        /\ \A key \in Keys : allocated'[Service(key)] = allocated[Service(key)]
    BY <1>5, FipStepIsLocal
  <2>3. UNCHANGED <<poolLog, poolCtlVars, poolEvents>>
    BY <2>1 DEF poolVars
  <2>4. \A k \in FipKeys : FipOutcome(k)
    BY <1>1, <1>2, <2>1, FipNextOutcome DEF SystemInv, StatusInv
  <2>5. "FloatingIP" \in Listeners => FipLeasedInv' /\ FipLoadedInv'
    BY <1>2, <2>1, <2>2, <2>3, <2>4, FipOutcomeLeased, FipNextLoaded DEF SystemInv
  <2>6. "Service" \in Listeners => SvcLeasedInv' /\ SvcLoadedInv'
    BY <1>2, <2>1, <2>2, <2>3, TellsStay, SvcStaysLeased
  <2> QED
    BY <1>2, <2>2, <2>3, <2>5, <2>6, ToldStays
<1>6. CASE SvcPoolEvent
  <2>1. /\ SvcOnPoolChange /\ UNCHANGED fipVars /\ PoolEvent("Service")
    BY <1>6 DEF SvcPoolEvent
  <2>2. /\ UNCHANGED <<poolLog, poolCtlVars, nets, allocated>>
        /\ "FloatingIP" \in Listeners => poolEvents'["FloatingIP"] = poolEvents["FloatingIP"]
    BY <2>1 DEF PoolEvent, SvcOnPoolChange, allocVars, SystemInv, PoolInv, PoolVarsOK
  <2>3. "Service" \in Listeners => SvcLeasedInv' /\ SvcLoadedInv'
    BY <1>2, <2>1, SvcOnPoolChangeLeased DEF SystemInv
  <2>4. "FloatingIP" \in Listeners => FipLeasedInv' /\ FipLoadedInv'
    BY <1>2, <2>1, <2>2, TellsStay, FipStaysLeased
  <2> QED
    BY <1>2, <2>2, <2>3, <2>4, ToldStays
<1>7. CASE FipPoolEvent
  <2>1. /\ FipOnPoolChange /\ UNCHANGED svcVars /\ PoolEvent("FloatingIP")
    BY <1>7 DEF FipPoolEvent
  <2>2. /\ UNCHANGED <<poolLog, poolCtlVars, nets, allocated>>
        /\ "Service" \in Listeners => poolEvents'["Service"] = poolEvents["Service"]
    BY <2>1 DEF PoolEvent, FipOnPoolChange, allocVars, SystemInv, PoolInv, PoolVarsOK
  <2>3. "FloatingIP" \in Listeners => FipLeasedInv' /\ FipLoadedInv'
    BY <1>2, <2>1, FipOnPoolChangeLeased DEF SystemInv
  <2>4. "Service" \in Listeners => SvcLeasedInv' /\ SvcLoadedInv'
    BY <1>2, <2>1, <2>2, TellsStay, SvcStaysLeased
  <2> QED
    BY <1>2, <2>2, <2>3, <2>4, ToldStays
<1>8. CASE Restart
  BY <1>2, <1>8, PoolRestartTold, SvcRestartLeased, FipRestartLeased DEF Restart, SystemInv
<1>9. CASE UNCHANGED vars
  <2>1. UNCHANGED <<poolLog, poolCtlVars, poolEvents, nets, allocated>> /\ UNCHANGED svcVars /\ UNCHANGED fipVars
    BY <1>9 DEF vars, allocVars, poolVars
  <2> QED
    BY <1>2, <2>1, TellsStay, ToldStays, SvcStaysLeased, FipStaysLeased
<1> QED
  BY <1>3, <1>4, <1>5, <1>6, <1>7, <1>8, <1>9 DEF SystemNext
-----------------------------------------------------------------------------
(* The theorems.                                                           *)

\* When all is done, every object's cached version is the stored one, and no sync
\* of it is to come.
LEMMA SettledObjects ==
  ASSUME SystemInv, Settled
  PROVE  /\ \A k \in SvcKeys : StoredService(k) = CachedService(k) /\ ~SvcComing(k)
         /\ \A k \in FipKeys : StoredFloatingIP(k) = CachedFloatingIP(k) /\ ~FipComing(k)
<1>1. ASSUME NEW k \in SvcKeys
      PROVE  StoredService(k) = CachedService(k) /\ ~SvcComing(k)
  <2>1. Len(svcLog[k]) = 1 /\ svcQueued = {} /\ svcDelayed = {} /\ svcWork.pc = "idle"
    BY DEF Settled, SvcSettled
  <2> QED
    BY <2>1, SvcLogs DEF SystemInv, SvcComing
<1>2. ASSUME NEW k \in FipKeys
      PROVE  StoredFloatingIP(k) = CachedFloatingIP(k) /\ ~FipComing(k)
  <2>1. Len(fipLog[k]) = 1 /\ fipQueued = {} /\ fipDelayed = {} /\ fipWork.pc = "idle"
    BY DEF Settled, FipSettled
  <2> QED
    BY <2>1, FipLogs DEF SystemInv, FipComing
<1> QED
  BY <1>1, <1>2

\* When all is done, nobody is still to be told of a load.
LEMMA SettledPool ==
  ASSUME SystemInv, Settled, ToldInv, StoredParses, NEW kind \in Listeners
  PROVE  ~PoolTells(kind)
<1>1. /\ poolEvents[kind] = <<>> /\ ~poolQueued /\ ~poolDelayed /\ poolWork.pc = "idle"
      /\ Len(poolLog) = 1
  BY DEF Settled, PoolSettled
<1>2. ~Due
  BY <1>1 DEF ToldInv, DueIsTaken, PoolLoading
<1>3. ~PoolNews(kind)
  <2>1. DOMAIN poolLog = 1 .. 1
    BY <1>1, PoolVersions DEF SystemInv
  <2> QED
    BY <1>1, <2>1 DEF PoolNews
<1> QED
  BY <1>2, <1>3 DEF PoolTells

LEMMA SystemSpecAsked == SystemSpec => []AskedInv
<1>1. SystemInit => AskedInv
  BY SvcInitLeased, FipInitLeased DEF SystemInit, AskedInv
<1> QED
  BY <1>1, SystemSpecInv, SystemNextAsked, PTL DEF SystemSpec

\* When all is done, an object shows the IP its spec asks for, if it shows one,
\* whatever was edited while it was synced: unless a status request failed,
\* which handleErr may give up on.
THEOREM ShownIsAsked == SystemSpec => [](StatusesWritten => StatusAsAsked)
<1>1. SystemInv /\ AskedInv => (StatusesWritten => StatusAsAsked)
  <2> SUFFICES ASSUME SystemInv, AskedInv, StatusesWritten, Settled, NEW ip \in IPs
               PROVE  /\ \A k \in SvcKeys : SvcShows(k, ip) => Grants(StoredService(k).want, ip)
                      /\ \A k \in FipKeys : FipShows(k, ip) => Grants(StoredFloatingIP(k).want, ip)
    BY DEF StatusAsAsked
  <2>1. ASSUME NEW k \in SvcKeys, SvcShows(k, ip)
        PROVE  Grants(StoredService(k).want, ip)
    BY <2>1, SettledObjects DEF AskedInv, SvcAskedInv, SvcShown, SvcShows
  <2>2. ASSUME NEW k \in FipKeys, FipShows(k, ip)
        PROVE  Grants(StoredFloatingIP(k).want, ip)
    BY <2>2, SettledObjects DEF AskedInv, FipAskedInv, FipShown, FipShows
  <2> QED
    BY <2>1, <2>2
<1> QED
  BY <1>1, SystemSpecInv, SystemSpecAsked, PTL

\* The kinds of objects there are have a controller that listens to the pool.
Listening ==
  /\ SvcKeys # {} => "Service" \in Listeners
  /\ FipKeys # {} => "FloatingIP" \in Listeners

LEMMA SystemSpecLeased ==
  ASSUME PoolIsKept
  PROVE  SystemSpec => []LeasedInv
<1>1. SystemInit => LeasedInv
  BY SystemInitStatus
<1>2. SystemInv /\ AskedInv /\ LeasedInv /\ [SystemNext]_vars => LeasedInv'
  BY SystemNextLeased DEF StatusInv
<1> QED
  BY <1>1, <1>2, SystemSpecInv, SystemSpecAsked, PTL DEF SystemSpec

LEMMA SettledIsLeased ==
  ASSUME Listening, SystemInv, LeasedInv, Unfailed, StoredParses, Settled
  PROVE  AllLeased
<1> SUFFICES ASSUME NEW ip \in IPs
             PROVE  /\ \A k \in SvcKeys :
                         SvcShows(k, ip) => allocated[Service(k)] = ip /\ ContainsIP(ip)
                    /\ \A k \in FipKeys :
                         FipShows(k, ip) => allocated[FloatingIP(k)] = ip /\ ContainsIP(ip)
  BY DEF AllLeased
<1>1. ToldInv
  BY DEF LeasedInv
<1>2. ASSUME NEW k \in SvcKeys, SvcShows(k, ip)
      PROVE  allocated[Service(k)] = ip /\ ContainsIP(ip)
  <2>1. "Service" \in Listeners /\ SvcLeasedInv
    BY <1>2 DEF Listening, LeasedInv
  <2> QED
    BY <1>1, <1>2, <2>1, SettledObjects, SettledPool DEF SvcLeasedInv, SvcLeased, SvcShown, SvcShows
<1>3. ASSUME NEW k \in FipKeys, FipShows(k, ip)
      PROVE  allocated[FloatingIP(k)] = ip /\ ContainsIP(ip)
  <2>1. "FloatingIP" \in Listeners /\ FipLeasedInv
    BY <1>3 DEF Listening, LeasedInv
  <2> QED
    BY <1>1, <1>3, <2>1, SettledObjects, SettledPool DEF FipLeasedInv, FipLeased, FipShown, FipShows
<1> QED
  BY <1>2, <1>3

\* When all is done, every IP shown is an IP of the pool that is leased to the
\* object: every load, which forgets all leases, is followed by syncs that renew
\* them.  If no request failed, the pool parses, and it was neither deleted nor,
\* after a restart, touched.
THEOREM ShownIsLeased ==
  ASSUME PoolIsKept, Listening
  PROVE  SystemSpec => []((Unfailed /\ StoredParses) => StatusIsLeased)
<1>1. SystemInv /\ LeasedInv => ((Unfailed /\ StoredParses) => StatusIsLeased)
  BY SettledIsLeased DEF StatusIsLeased
<1> QED
  BY <1>1, SystemSpecInv, SystemSpecLeased, PTL

\* Objects that lease the same IP are the same.
LEMMA OneShows ==
  ASSUME SystemInv, AllLeased, NEW ip \in IPs
  PROVE  Cardinality({k \in SvcKeys : SvcShows(k, ip)}) + Cardinality({k \in FipKeys : FipShows(k, ip)}) <= 1
<1> DEFINE S == {k \in SvcKeys : SvcShows(k, ip)}
           F == {k \in FipKeys : FipShows(k, ip)}
<1>1. /\ \A k \in S : k \in Keys /\ Service(k) \in Owners /\ allocated[Service(k)] = ip
      /\ \A k \in F : k \in Keys /\ FloatingIP(k) \in Owners /\ allocated[FloatingIP(k)] = ip
  BY SvcAssumption, FipAssumption DEF AllLeased, Service, FloatingIP, Owners, Kinds
<1>2. \A o, p \in Owners : (allocated[o] = ip /\ allocated[p] = ip) => o = p
  BY IPAssumption DEF SystemInv, IInv, ExclusiveLease
<1>3. \A k, j \in S : k = j
  BY <1>1, <1>2 DEF Service
<1>4. \A k, j \in F : k = j
  BY <1>1, <1>2 DEF FloatingIP
<1>5. \A k \in S, j \in F : FALSE
  BY <1>1, <1>2 DEF Service, FloatingIP
<1>6. S = {} \/ \E k : S = {k}
  BY <1>3
<1>7. F = {} \/ \E k : F = {k}
  BY <1>4
<1>8. Cardinality({}) = 0 /\ \A k : Cardinality({k}) = 1
  BY FS_EmptySet, FS_Singleton
<1>9. S = {} \/ F = {}
  BY <1>5
<1> HIDE DEF S, F
<1>10. Cardinality(S) \in {0, 1} /\ (S = {} => Cardinality(S) = 0)
  BY <1>6, <1>8
<1>11. Cardinality(F) \in {0, 1} /\ (F = {} => Cardinality(F) = 0)
  BY <1>7, <1>8
<1>12. Cardinality(S) + Cardinality(F) <= 1
  BY <1>9, <1>10, <1>11
<1> QED
  BY <1>12 DEF S, F

\* When all is done, no public IP is shown by two objects, under the same
\* conditions: what is shown is leased, and a lease has one owner.
THEOREM ShownIsExclusive ==
  ASSUME PoolIsKept, Listening
  PROVE  SystemSpec => []((Unfailed /\ StoredParses) => NoSharedIP)
<1>1. SystemInv /\ LeasedInv => ((Unfailed /\ StoredParses) => NoSharedIP)
  BY SettledIsLeased, OneShows DEF NoSharedIP
<1> QED
  BY <1>1, SystemSpecInv, SystemSpecLeased, PTL
=============================================================================
