----------------------- MODULE ServiceControllerProofs -----------------------
(***************************************************************************)
(* What one step of the service controller preserves, whatever the others  *)
(* have done before: the types of its state, and that its worker holds     *)
(* nothing when it asks for a new IP.  And what the step is to the         *)
(* allocator: a call for a service, or nothing.                            *)
(***************************************************************************)
EXTENDS ServiceController, PublicIPAllocatorProofs

\* What the program counter tells of the worker's copy.
SvcInFlight ==
  /\ svcWork.pc # "idle" => svcWork.key \in SvcKeys
  /\ svcWork.pc \notin {"idle", "deleted"} => svcWork.svc \in Services
  /\ svcWork.pc = "recheck" => svcWork.svc.status \in IPs

SvcInv == SvcTypeOK /\ SvcInFlight

SvcAsksEmptyHanded == svcWork.pc \in {"allocate", "commit"} => allocated[SvcOwner] = NoIP

\* The program counters between the first allocator call and the last.
SvcBusy == SvcPCs \ {"idle", "deleted"}

LEMMA SvcOwnerIsOwner ==
  ASSUME SvcInv, svcWork.pc # "idle"
  PROVE  svcWork.key \in SvcKeys /\ svcWork.key \in Keys /\ SvcOwner \in Owners
  BY SvcAssumption DEF SvcInv, SvcInFlight, SvcOwner, Service, Owners, Kinds
-----------------------------------------------------------------------------
(* The ends of the worker's steps.                                         *)

LEMMA SvcGotoPreserves ==
  ASSUME SvcInv, svcWork.pc \in SvcBusy, NEW pc \in SvcBusy \ {"recheck"},
         SvcGoto(pc), UNCHANGED <<svcLog, svcLeft>>
  PROVE  SvcInv' /\ svcWork'.pc = pc /\ SvcOwner' = SvcOwner
<1>1. svcWork' = [svcWork EXCEPT !.pc = pc] /\ UNCHANGED svcQueueVars
  BY DEF SvcGoto
<1>2. svcWork' \in [pc : SvcPCs, key : SvcKeys \cup {NoKey}, svc : Services \cup {NoService},
                    fresh : BOOLEAN, status : IPs \cup {NoIP, NoIngress}]
  BY <1>1 DEF SvcInv, SvcTypeOK, SvcBusy
<1>3. svcWork'.pc = pc /\ svcWork'.key = svcWork.key /\ svcWork'.svc = svcWork.svc
  BY <1>1 DEF SvcInv, SvcTypeOK
<1>4. SvcTypeOK'
  BY <1>1, <1>2 DEF SvcInv, SvcTypeOK, svcQueueVars
<1>5. SvcInFlight'
  BY <1>3 DEF SvcInv, SvcInFlight, SvcBusy
<1> QED
  BY <1>3, <1>4, <1>5 DEF SvcInv, SvcOwner

LEMMA SvcIdleIsTyped ==
  SvcIdle \in [pc : SvcPCs, key : SvcKeys \cup {NoKey}, svc : Services \cup {NoService},
               fresh : BOOLEAN, status : IPs \cup {NoIP, NoIngress}]
  BY DEF SvcIdle, SvcPCs

\* The queue's side of the end of a sync.
LEMMA SvcEndPreserves ==
  ASSUME SvcInv, svcWork.pc # "idle", SvcDone \/ SvcFailed,
         svcLog' \in [SvcKeys -> Seq(Services \cup {NoService})],
         \A k \in SvcKeys : svcLog'[k] # <<>>,
         svcLeft' \in [ops : 0 .. MaxSvcOps, faults : 0 .. MaxSvcFaults]
  PROVE  SvcInv' /\ svcWork'.pc = "idle"
<1>1. svcWork' = SvcIdle
  BY DEF SvcDone, SvcFailed
<1>2. svcWork.key \in SvcKeys
  BY SvcOwnerIsOwner
<1>3. svcRequeues' \in [SvcKeys -> 0 .. MaxSvcRetries]
  <2>1. CASE SvcDone
    BY <1>2, <2>1, SvcAssumption DEF SvcDone, SvcInv, SvcTypeOK
  <2>2. CASE SvcFailed
    <3>1. /\ svcRequeues \in [SvcKeys -> 0 .. MaxSvcRetries]
          /\ 0 \in 0 .. MaxSvcRetries
          /\ svcRequeues[svcWork.key] \in 0 .. MaxSvcRetries
      BY <1>2, SvcAssumption DEF SvcInv, SvcTypeOK
    <3>2. \E n \in 0 .. MaxSvcRetries : svcRequeues' = [svcRequeues EXCEPT ![svcWork.key] = n]
      BY <2>2, <3>1, SvcAssumption DEF SvcFailed
    <3> QED
      BY <3>1, <3>2
  <2> QED
    BY <2>1, <2>2
<1>4. svcQueued' \subseteq SvcKeys /\ svcDelayed' \subseteq SvcKeys
  BY <1>2 DEF SvcDone, SvcFailed, SvcInv, SvcTypeOK
<1>5. SvcTypeOK'
  BY <1>1, <1>3, <1>4, SvcIdleIsTyped DEF SvcTypeOK
<1>6. SvcInFlight' /\ svcWork'.pc = "idle"
  BY <1>1 DEF SvcInFlight, SvcIdle
<1> QED
  BY <1>5, <1>6 DEF SvcInv

LEMMA SvcSettlePreserves ==
  ASSUME SvcInv, svcWork.pc \in SvcBusy, NEW status \in IPs \cup {NoIP, NoIngress},
         SvcSettle(status), UNCHANGED <<svcLog, svcLeft>>
  PROVE  SvcInv' /\ svcWork'.pc \in {"idle", "update"}
<1>1. CASE SvcDone
  BY <1>1, SvcEndPreserves DEF SvcInv, SvcTypeOK, SvcBusy
<1>2. CASE svcWork' = [svcWork EXCEPT !.pc = "update", !.status = status] /\ UNCHANGED svcQueueVars
  <2>1. svcWork' \in [pc : SvcPCs, key : SvcKeys \cup {NoKey}, svc : Services \cup {NoService},
                      fresh : BOOLEAN, status : IPs \cup {NoIP, NoIngress}]
    BY <1>2 DEF SvcInv, SvcTypeOK, SvcPCs
  <2>2. svcWork'.pc = "update" /\ svcWork'.key = svcWork.key /\ svcWork'.svc = svcWork.svc
    BY <1>2 DEF SvcInv, SvcTypeOK
  <2>3. SvcTypeOK'
    BY <1>2, <2>1 DEF SvcInv, SvcTypeOK, svcQueueVars
  <2> QED
    BY <2>2, <2>3 DEF SvcInv, SvcInFlight, SvcBusy
<1> QED
  BY <1>1, <1>2 DEF SvcSettle
-----------------------------------------------------------------------------
(* Versions of the services.                                               *)

LEMMA SvcVersions ==
  ASSUME SvcInv, NEW k \in SvcKeys
  PROVE  /\ svcLog[k] \in Seq(Services \cup {NoService}) /\ svcLog[k] # <<>>
         /\ CachedService(k) \in Services \cup {NoService}
         /\ StoredService(k) \in Services \cup {NoService}
<1>1. svcLog[k] \in Seq(Services \cup {NoService}) /\ svcLog[k] # <<>>
  BY DEF SvcInv, SvcTypeOK
<1> QED
  BY <1>1, LogEnds DEF CachedService, StoredService

LEMMA StoreServicePreserves ==
  ASSUME SvcInv, NEW k \in SvcKeys, NEW v \in Services \cup {NoService}, StoreService(k, v),
         UNCHANGED svcQueueVars, svcLeft' \in [ops : 0 .. MaxSvcOps, faults : 0 .. MaxSvcFaults]
  PROVE  SvcInv' /\ svcWork'.pc = svcWork.pc /\ SvcOwner' = SvcOwner
<1>1. Append(svcLog[k], v) \in Seq(Services \cup {NoService}) /\ Append(svcLog[k], v) # <<>>
  BY SvcVersions, WrittenLog
<1>2. /\ svcLog' \in [SvcKeys -> Seq(Services \cup {NoService})]
      /\ \A j \in SvcKeys : svcLog'[j] # <<>>
  BY <1>1 DEF StoreService, SvcInv, SvcTypeOK
<1>3. /\ svcWork' \in [pc : SvcPCs, key : SvcKeys \cup {NoKey}, svc : Services \cup {NoService},
                       fresh : BOOLEAN, status : IPs \cup {NoIP, NoIngress}]
      /\ svcWork'.pc = svcWork.pc /\ svcWork'.key = svcWork.key /\ svcWork'.svc = svcWork.svc
  BY DEF StoreService, SvcInv, SvcTypeOK
<1>4. SvcTypeOK'
  BY <1>2, <1>3 DEF SvcInv, SvcTypeOK, svcQueueVars
<1> QED
  BY <1>3, <1>4 DEF SvcInv, SvcInFlight, SvcOwner

LEMMA SvcUserPreserves ==
  ASSUME SvcInv, SvcUser
  PROVE  SvcInv' /\ svcWork'.pc = svcWork.pc /\ SvcOwner' = SvcOwner /\ UNCHANGED allocVars
<1>1. PICK k \in SvcKeys :
        \/ SvcCreate(k) \/ SvcSetIP(k) \/ SvcSetType(k) \/ SvcTouch(k)
        \/ SvcSetStatus(k) \/ SvcDelete(k)
  BY DEF SvcUser
<1>2. PICK op \in SvcOps : UserSvcOp(op)
  BY <1>1 DEF SvcCreate, SvcSetIP, SvcSetType, SvcTouch, SvcSetStatus, SvcDelete, UserSvcOp
<1>3. UNCHANGED <<svcQueueVars, allocVars>>
  BY <1>2 DEF UserSvcOp
<1>4. svcLeft' \in [ops : 0 .. MaxSvcOps, faults : 0 .. MaxSvcFaults]
  BY <1>2, SvcAssumption, OperationCounted DEF UserSvcOp, SvcInv, SvcTypeOK
<1>5. \E v \in Services \cup {NoService} : StoreService(k, v)
  <2>1. CASE SvcCreate(k)
    <3>1. PICK want \in IPStrings \cup {NoIP} :
            StoreService(k, [lb |-> TRUE, want |-> want, status |-> NoIngress])
      BY <2>1 DEF SvcCreate
    <3>2. [lb |-> TRUE, want |-> want, status |-> NoIngress] \in Services
      BY DEF Services
    <3> QED
      BY <3>1, <3>2
  <2>2. CASE SvcSetIP(k)
    <3>1. PICK want \in IPStrings \cup {NoIP} :
            StoreService(k, [StoredService(k) EXCEPT !.want = want])
      BY <2>2 DEF SvcSetIP
    <3>2. StoredService(k) \in Services
      BY <2>2, SvcVersions DEF SvcSetIP
    <3>3. [StoredService(k) EXCEPT !.want = want] \in Services
      BY <3>2 DEF Services
    <3> QED
      BY <3>1, <3>3
  <2>3. CASE SvcSetType(k)
    <3>1. StoredService(k) \in Services
      BY <2>3, SvcVersions DEF SvcSetType
    <3>2. [StoredService(k) EXCEPT !.lb = ~@] \in Services
      BY <3>1 DEF Services
    <3> QED
      BY <2>3, <3>2 DEF SvcSetType
  <2>4. CASE SvcTouch(k)
    BY <2>4, SvcVersions DEF SvcTouch
  <2>5. CASE SvcDelete(k)
    BY <2>5 DEF SvcDelete
  <2>6. CASE SvcSetStatus(k)
    <3>1. PICK status \in IPs \cup {NoIP, NoIngress} :
            StoreService(k, [StoredService(k) EXCEPT !.status = status])
      BY <2>6 DEF SvcSetStatus
    <3>2. StoredService(k) \in Services
      BY <2>6, SvcVersions DEF SvcSetStatus
    <3>3. [StoredService(k) EXCEPT !.status = status] \in Services
      BY <3>2 DEF Services
    <3> QED
      BY <3>1, <3>3
  <2> QED
    BY <1>1, <2>1, <2>2, <2>3, <2>4, <2>5, <2>6
<1> QED
  BY <1>3, <1>4, <1>5, StoreServicePreserves

\* Deliveries, resyncs, pool events and timers: nothing but keys in the queue.
LEMMA SvcQueuedPreserves ==
  ASSUME SvcInv, UNCHANGED <<svcRequeues, svcWork>>,
         svcQueued' \subseteq SvcKeys, svcDelayed' \subseteq svcDelayed,
         svcLog' \in [SvcKeys -> Seq(Services \cup {NoService})],
         \A k \in SvcKeys : svcLog'[k] # <<>>,
         svcLeft' \in [ops : 0 .. MaxSvcOps, faults : 0 .. MaxSvcFaults]
  PROVE  SvcInv' /\ svcWork'.pc = svcWork.pc /\ SvcOwner' = SvcOwner
<1>1. SvcTypeOK'
  BY DEF SvcInv, SvcTypeOK
<1> QED
  BY <1>1 DEF SvcInv, SvcInFlight, SvcOwner

LEMMA SvcEventPreserves ==
  ASSUME SvcInv,
         \/ \E k \in SvcKeys : SvcDeliver(k) \/ SvcRetry(k)
         \/ SvcResync
         \/ SvcOnPoolChange
  PROVE  SvcInv' /\ svcWork'.pc = svcWork.pc /\ SvcOwner' = SvcOwner /\ UNCHANGED allocVars
<1>1. ASSUME NEW k \in SvcKeys, SvcDeliver(k)
      PROVE  SvcInv' /\ svcWork'.pc = svcWork.pc /\ SvcOwner' = SvcOwner /\ UNCHANGED allocVars
  <2>1. Tail(svcLog[k]) \in Seq(Services \cup {NoService}) /\ Tail(svcLog[k]) # <<>>
    BY <1>1, SvcVersions, DeliveredLog DEF SvcDeliver
  <2>2. /\ svcLog' \in [SvcKeys -> Seq(Services \cup {NoService})]
        /\ \A j \in SvcKeys : svcLog'[j] # <<>>
    BY <1>1, <2>1 DEF SvcDeliver, SvcInv, SvcTypeOK
  <2> QED
    BY <1>1, <2>2, SvcQueuedPreserves DEF SvcDeliver, SvcInv, SvcTypeOK
<1>2. ASSUME NEW k \in SvcKeys, SvcRetry(k)
      PROVE  SvcInv' /\ svcWork'.pc = svcWork.pc /\ SvcOwner' = SvcOwner /\ UNCHANGED allocVars
  BY <1>2, SvcQueuedPreserves DEF SvcRetry, SvcInv, SvcTypeOK
<1>3. CASE SvcResync
  <2>1. svcLeft' \in [ops : 0 .. MaxSvcOps, faults : 0 .. MaxSvcFaults]
    <3>1. CASE UNCHANGED svcLeft
      BY <3>1 DEF SvcInv, SvcTypeOK
    <3>2. CASE svcLeft.ops > 0 /\ svcLeft' = [svcLeft EXCEPT !.ops = @ - 1]
      BY <3>2, SvcAssumption, OperationCounted DEF SvcInv, SvcTypeOK
    <3> QED
      BY <1>3, <3>1, <3>2 DEF SvcResync, SvcMayResync
  <2> QED
    BY <1>3, <2>1, SvcQueuedPreserves DEF SvcResync, SvcInv, SvcTypeOK
<1>4. CASE SvcOnPoolChange
  BY <1>4, SvcQueuedPreserves DEF SvcOnPoolChange, CachedLoadBalancers, SvcInv, SvcTypeOK
<1> QED
  BY <1>1, <1>2, <1>3, <1>4
-----------------------------------------------------------------------------
(* The worker's steps.                                                     *)

\* What a step of this controller is to the allocator.
SvcCall ==
  /\ [ServiceCall \/ DesiredIPCheck]_allocVars
  /\ \A key \in Keys : allocated'[FloatingIP(key)] = allocated[FloatingIP(key)]

LEMMA SvcCallPreserves ==
  ASSUME IInv, SvcCall
  PROVE  IInv'
  BY NextPreserves DEF SvcCall, Next

LEMMA SvcCalls ==
  ASSUME IInv, SvcInv, svcWork.pc # "idle",
         \/ AllocateServiceIP(svcWork.key)
         \/ AllocateServiceIPFromPool(svcWork.key)
         \/ FreeService(svcWork.key)
  PROVE  /\ SvcCall /\ allocated'[SvcOwner] \in IPs \cup {NoIP}
         /\ FreeService(svcWork.key) => allocated'[SvcOwner] = NoIP
<1>1. svcWork.key \in Keys /\ SvcOwner \in Owners
  BY SvcOwnerIsOwner
<1>2. AllocateIP(SvcOwner) \/ AllocateFromPool(SvcOwner) \/ Free(SvcOwner)
  BY DEF SvcOwner, AllocateServiceIP, AllocateServiceIPFromPool, FreeService
<1>3. \A key \in Keys : FloatingIP(key) \in Owners \ {SvcOwner}
  BY DEF FloatingIP, SvcOwner, Service, Owners, Kinds
<1>4. SvcCall
  BY <1>1, <1>2, <1>3, CallsAreLocal DEF SvcCall, ServiceCall
<1>5. allocated'[SvcOwner] \in IPs \cup {NoIP}
  BY <1>1, <1>4, SvcCallPreserves DEF IInv, TypeOK
<1> QED
  BY <1>1, <1>2, <1>4, <1>5, CallsAreLocal DEF FreeService, SvcOwner

LEMMA SvcChecks ==
  ASSUME SvcInv, svcWork.pc # "idle", NEW s \in IPStrings, CheckDesiredIP(SvcOwner, s)
  PROVE  SvcCall /\ allocated' = allocated
  BY SvcOwnerIsOwner DEF SvcCall, DesiredIPCheck, CheckDesiredIP

LEMMA SvcNoCall ==
  ASSUME UNCHANGED allocVars
  PROVE  SvcCall
  BY DEF SvcCall, allocVars

LEMMA SvcGetPreserves ==
  ASSUME SvcInv, NEW k \in SvcKeys, SvcGet(k)
  PROVE  /\ SvcInv' /\ UNCHANGED allocVars
         /\ svcWork'.pc \notin {"allocate", "commit"}
<1> DEFINE svc == CachedService(k)
<1>1. svc \in Services \cup {NoService}
  BY SvcVersions
<1>2. \/ /\ svcWork' = svcWork
         /\ svcRequeues' = [svcRequeues EXCEPT ![k] = 0]
      \/ \E pc \in {"deleted", "strip", "recheck", "clear"} :
           /\ SvcStart(k, pc)
           /\ pc # "deleted" => svc # NoService
           /\ pc = "recheck" => svc.status \in IPs
  BY DEF SvcGet
<1>3. /\ svcQueued' \subseteq SvcKeys
      /\ UNCHANGED <<svcDelayed, svcLog, svcLeft, allocVars>>
  BY DEF SvcGet, SvcInv, SvcTypeOK
<1>4. CASE svcWork' = svcWork /\ svcRequeues' = [svcRequeues EXCEPT ![k] = 0]
  <2>1. svcRequeues' \in [SvcKeys -> 0 .. MaxSvcRetries]
    BY <1>4, SvcAssumption DEF SvcInv, SvcTypeOK
  <2>2. SvcTypeOK' /\ SvcInFlight'
    BY <1>3, <1>4, <2>1 DEF SvcInv, SvcTypeOK, SvcInFlight
  <2> QED
    BY <1>3, <1>4, <2>2 DEF SvcInv, SvcGet
<1>5. ASSUME NEW pc \in {"deleted", "strip", "recheck", "clear"}, SvcStart(k, pc),
             pc # "deleted" => svc # NoService, pc = "recheck" => svc.status \in IPs
      PROVE  SvcInv' /\ svcWork'.pc \notin {"allocate", "commit"}
  <2>1. /\ svcWork' = [pc |-> pc, key |-> k, svc |-> svc,
                       fresh |-> Len(svcLog[k]) = 1, status |-> NoIngress]
        /\ svcRequeues' = svcRequeues
    BY <1>5 DEF SvcStart
  <2>2. svcWork' \in [pc : SvcPCs, key : SvcKeys \cup {NoKey}, svc : Services \cup {NoService},
                      fresh : BOOLEAN, status : IPs \cup {NoIP, NoIngress}]
    BY <1>1, <2>1 DEF SvcPCs
  <2>3. SvcTypeOK'
    BY <1>3, <2>1, <2>2 DEF SvcInv, SvcTypeOK
  <2>4. SvcInFlight'
    BY <1>1, <1>5, <2>1 DEF SvcInFlight
  <2> QED
    BY <2>1, <2>3, <2>4 DEF SvcInv
<1> QED
  BY <1>2, <1>3, <1>4, <1>5

LEMMA SvcUpdateStatusPreserves ==
  ASSUME SvcInv, SvcUpdateStatus
  PROVE  SvcInv' /\ svcWork'.pc = "idle" /\ UNCHANGED allocVars
<1>1. svcWork.pc = "update" /\ (SvcDone \/ SvcFailed) /\ UNCHANGED allocVars
  BY DEF SvcUpdateStatus
<1>2. svcWork.key \in SvcKeys /\ svcWork.svc \in Services
  BY <1>1 DEF SvcInv, SvcInFlight
<1>3. svcWork.status \in IPs \cup {NoIP, NoIngress}
  BY DEF SvcInv, SvcTypeOK
<1>4. [svcWork.svc EXCEPT !.status = svcWork.status] \in Services
  BY <1>2, <1>3 DEF Services
<1>5. /\ svcLog' \in [SvcKeys -> Seq(Services \cup {NoService})]
      /\ \A k \in SvcKeys : svcLog'[k] # <<>>
  <2>1. CASE WriteSvcStatus
    <3> DEFINE v == [svcWork.svc EXCEPT !.status = svcWork.status]
    <3>1. /\ Append(svcLog[svcWork.key], v) \in Seq(Services \cup {NoService})
          /\ Append(svcLog[svcWork.key], v) # <<>>
      BY <1>2, <1>4, SvcVersions, WrittenLog
    <3> QED
      BY <1>2, <2>1, <3>1 DEF WriteSvcStatus, SvcInv, SvcTypeOK
  <2>2. CASE UNCHANGED svcLog
    BY <2>2 DEF SvcInv, SvcTypeOK
  <2> QED
    BY <2>1, <2>2 DEF SvcUpdateStatus
<1>6. svcLeft' \in [ops : 0 .. MaxSvcOps, faults : 0 .. MaxSvcFaults]
  BY SvcAssumption DEF SvcUpdateStatus, SvcInv, SvcTypeOK
<1> QED
  BY <1>1, <1>5, <1>6, SvcEndPreserves

LEMMA SvcWorkerPreserves ==
  ASSUME IInv, SvcInv, SvcAsksEmptyHanded, SvcWorker
  PROVE  SvcInv' /\ SvcAsksEmptyHanded' /\ SvcCall
<1>1. ASSUME NEW k \in SvcKeys, SvcGet(k)
      PROVE  SvcInv' /\ SvcAsksEmptyHanded' /\ SvcCall
  BY <1>1, SvcGetPreserves, SvcNoCall DEF SvcAsksEmptyHanded
<1>2. CASE SvcFreeDeleted
  <2>1. svcWork.pc # "idle" /\ FreeService(svcWork.key) /\ SvcDone /\ UNCHANGED <<svcLog, svcLeft>>
    BY <1>2 DEF SvcFreeDeleted
  <2> QED
    BY <2>1, SvcCalls, SvcEndPreserves DEF SvcAsksEmptyHanded, SvcInv, SvcTypeOK
<1>3. CASE SvcStrip
  <2>1. /\ svcWork.pc = "strip" /\ FreeService(svcWork.key)
        /\ SvcSettle(NoIngress) /\ UNCHANGED <<svcLog, svcLeft>>
    BY <1>3 DEF SvcStrip
  <2> QED
    BY <2>1, SvcCalls, SvcSettlePreserves DEF SvcAsksEmptyHanded, SvcBusy, SvcPCs
<1>4. CASE SvcRecheck
  <2>1. svcWork.pc = "recheck" /\ svcWork.svc.status \in IPStrings
    BY <1>4, IPAssumption DEF SvcRecheck, SvcInv, SvcInFlight
  <2>2. SvcCall
    BY <1>4, <2>1, SvcChecks, SvcNoCall DEF SvcRecheck
  <2>3. (SvcGoto("reclaim") \/ SvcGoto("clear")) /\ UNCHANGED <<svcLog, svcLeft>>
    BY <1>4 DEF SvcRecheck
  <2> QED
    BY <2>1, <2>2, <2>3, SvcGotoPreserves DEF SvcAsksEmptyHanded, SvcBusy, SvcPCs
<1>5. CASE SvcReclaim
  <2>1. svcWork.pc = "reclaim" /\ svcWork.svc.status \in IPs \cup {NoIP, NoIngress}
    BY <1>5 DEF SvcReclaim, SvcInv, SvcInFlight, Services
  <2>2. SvcCall
    BY <1>5, <2>1, SvcCalls DEF SvcReclaim
  <2>3. (SvcSettle(svcWork.svc.status) \/ SvcGoto("clear")) /\ UNCHANGED <<svcLog, svcLeft>>
    BY <1>5 DEF SvcReclaim
  <2> QED
    BY <2>1, <2>2, <2>3, SvcGotoPreserves, SvcSettlePreserves
    DEF SvcAsksEmptyHanded, SvcBusy, SvcPCs
<1>6. CASE SvcClear
  <2>1. /\ svcWork.pc = "clear" /\ FreeService(svcWork.key)
        /\ SvcGoto("allocate") /\ UNCHANGED <<svcLog, svcLeft>>
    BY <1>6 DEF SvcClear
  <2>2. SvcCall /\ allocated'[SvcOwner] = NoIP
    BY <2>1, SvcCalls
  <2>3. SvcInv' /\ SvcOwner' = SvcOwner
    BY <2>1, SvcGotoPreserves DEF SvcBusy, SvcPCs
  <2> QED
    BY <2>2, <2>3 DEF SvcAsksEmptyHanded
<1>7. CASE SvcAllocate
  <2>1. /\ svcWork.pc = "allocate" /\ allocated[SvcOwner] = NoIP
        /\ svcWork.svc.want \in IPStrings \cup {NoIP} /\ UNCHANGED <<svcLog, svcLeft>>
    BY <1>7 DEF SvcAllocate, SvcAsksEmptyHanded, SvcInv, SvcInFlight, Services
  <2>2. CASE /\ AllocateServiceIPFromPool(svcWork.key)
             /\ IF allocated'[SvcOwner] # NoIP
                THEN SvcSettle(allocated'[SvcOwner])
                ELSE SvcGoto("giveup")
    <3>1. SvcCall /\ allocated'[SvcOwner] \in IPs \cup {NoIP}
      BY <2>1, <2>2, SvcCalls
    <3> QED
      BY <2>1, <2>2, <3>1, SvcGotoPreserves, SvcSettlePreserves
      DEF SvcAsksEmptyHanded, SvcBusy, SvcPCs
  <2>3. CASE /\ svcWork.svc.want # NoIP /\ CheckDesiredIP(SvcOwner, svcWork.svc.want)
             /\ SvcGoto("commit")
    <3>1. SvcCall /\ allocated' = allocated
      BY <2>1, <2>3, SvcChecks
    <3>2. SvcInv' /\ SvcOwner' = SvcOwner
      BY <2>1, <2>3, SvcGotoPreserves DEF SvcBusy, SvcPCs
    <3> QED
      BY <2>1, <3>1, <3>2 DEF SvcAsksEmptyHanded
  <2>4. CASE SvcGoto("giveup") /\ UNCHANGED allocVars
    BY <2>1, <2>4, SvcNoCall, SvcGotoPreserves DEF SvcAsksEmptyHanded, SvcBusy, SvcPCs
  <2> QED
    BY <1>7, <2>2, <2>3, <2>4 DEF SvcAllocate
<1>8. CASE SvcCommit
  <2>1. svcWork.pc = "commit" /\ AllocateServiceIP(svcWork.key) /\ UNCHANGED <<svcLog, svcLeft>>
    BY <1>8 DEF SvcCommit
  <2>2. SvcCall /\ allocated'[SvcOwner] \in IPs \cup {NoIP}
    BY <2>1, SvcCalls
  <2>3. SvcSettle(allocated'[SvcOwner]) \/ SvcGoto("giveup")
    BY <1>8 DEF SvcCommit
  <2> QED
    BY <2>1, <2>2, <2>3, SvcGotoPreserves, SvcSettlePreserves
    DEF SvcAsksEmptyHanded, SvcBusy, SvcPCs
<1>9. CASE SvcGiveUp
  <2>1. /\ svcWork.pc = "giveup" /\ FreeService(svcWork.key)
        /\ SvcSettle(NoIP) /\ UNCHANGED <<svcLog, svcLeft>>
    BY <1>9 DEF SvcGiveUp
  <2> QED
    BY <2>1, SvcCalls, SvcSettlePreserves DEF SvcAsksEmptyHanded, SvcBusy, SvcPCs
<1>10. CASE SvcUpdateStatus
  BY <1>10, SvcUpdateStatusPreserves, SvcNoCall DEF SvcAsksEmptyHanded
<1> QED
  BY <1>1, <1>2, <1>3, <1>4, <1>5, <1>6, <1>7, <1>8, <1>9, <1>10 DEF SvcWorker
-----------------------------------------------------------------------------
(* The controller's steps as a whole.                                      *)

LEMMA SvcNextPreserves ==
  ASSUME IInv, SvcInv, SvcAsksEmptyHanded, SvcNext
  PROVE  SvcInv' /\ SvcAsksEmptyHanded' /\ SvcCall
<1>1. CASE SvcUser
  BY <1>1, SvcUserPreserves, SvcNoCall DEF SvcAsksEmptyHanded, allocVars
<1>2. CASE (\E k \in SvcKeys : SvcDeliver(k) \/ SvcRetry(k)) \/ SvcResync
  BY <1>2, SvcEventPreserves, SvcNoCall DEF SvcAsksEmptyHanded, allocVars
<1>3. CASE SvcWorker
  BY <1>3, SvcWorkerPreserves
<1> QED
  BY <1>1, <1>2, <1>3 DEF SvcNext

\* The start of a process.
LEMMA SvcStartInv ==
  ASSUME NEW log \in [SvcKeys -> Services \cup {NoService}]
  PROVE  /\ [k \in SvcKeys |-> <<log[k]>>] \in [SvcKeys -> Seq(Services \cup {NoService})]
         /\ \A k \in SvcKeys : [j \in SvcKeys |-> <<log[j]>>][k] # <<>>
         /\ [k \in SvcKeys |-> 0] \in [SvcKeys -> 0 .. MaxSvcRetries]
  BY SvcAssumption

LEMMA SvcInitInv == SvcInit => SvcInv /\ SvcAsksEmptyHanded
<1> SUFFICES ASSUME NEW stored \in [SvcKeys -> InitialServices],
                    svcLog = [k \in SvcKeys |-> <<stored[k]>>],
                    svcQueued = {k \in SvcKeys : stored[k] # NoService},
                    svcDelayed = {}, svcRequeues = [k \in SvcKeys |-> 0],
                    svcWork = SvcIdle,
                    svcLeft = [ops |-> MaxSvcOps, faults |-> MaxSvcFaults]
             PROVE  SvcInv /\ SvcAsksEmptyHanded
  BY DEF SvcInit
<1>1. stored \in [SvcKeys -> Services \cup {NoService}]
  BY SvcAssumption DEF Services
<1>2. SvcTypeOK
  BY <1>1, SvcStartInv, SvcIdleIsTyped, SvcAssumption DEF SvcTypeOK
<1> QED
  BY <1>2 DEF SvcInv, SvcInFlight, SvcAsksEmptyHanded, SvcIdle

LEMMA SvcRestartInv ==
  ASSUME SvcInv, SvcRestart
  PROVE  SvcInv' /\ SvcAsksEmptyHanded'
<1> DEFINE stored == [k \in SvcKeys |-> StoredService(k)]
<1>1. stored \in [SvcKeys -> Services \cup {NoService}]
  BY SvcVersions
<1>2. svcLog' = [k \in SvcKeys |-> <<stored[k]>>]
  BY DEF SvcRestart
<1>3. /\ svcQueued' \subseteq SvcKeys /\ svcDelayed' = {} /\ svcRequeues' = [k \in SvcKeys |-> 0]
      /\ svcWork' = SvcIdle /\ svcLeft' = svcLeft
  BY DEF SvcRestart
<1>4. SvcTypeOK'
  BY <1>1, <1>2, <1>3, SvcStartInv, SvcIdleIsTyped DEF SvcTypeOK, SvcInv
<1> QED
  BY <1>3, <1>4 DEF SvcInv, SvcInFlight, SvcAsksEmptyHanded, SvcIdle
=============================================================================
