--------------------- MODULE FloatingIPControllerProofs ---------------------
(***************************************************************************)
(* What one step of the FloatingIP controller preserves: as for services,  *)
(* the types of its state, and that its worker holds nothing when it asks  *)
(* for a new IP; and that the step is a call for a FloatingIP, or none.    *)
(***************************************************************************)
EXTENDS FloatingIPController, PublicIPAllocatorProofs

\* What the program counter tells of the worker's copy.
FipInFlight ==
  /\ fipWork.pc # "idle" => fipWork.key \in FipKeys
  /\ fipWork.pc \notin {"idle", "deleted"} => fipWork.fip \in FloatingIPs
  /\ fipWork.pc = "recheck" => fipWork.fip.status \in IPs

FipInv == FipTypeOK /\ FipInFlight

FipAsksEmptyHanded == fipWork.pc \in {"allocate", "commit"} => allocated[FipOwner] = NoIP

\* The program counters between the first allocator call and the last.
FipBusy == FipPCs \ {"idle", "deleted"}

LEMMA FipOwnerIsOwner ==
  ASSUME FipInv, fipWork.pc # "idle"
  PROVE  fipWork.key \in FipKeys /\ fipWork.key \in Keys /\ FipOwner \in Owners
  BY FipAssumption DEF FipInv, FipInFlight, FipOwner, FloatingIP, Owners, Kinds
-----------------------------------------------------------------------------
(* The ends of the worker's steps.                                         *)

LEMMA FipGotoPreserves ==
  ASSUME FipInv, fipWork.pc \in FipBusy, NEW pc \in FipBusy \ {"recheck"},
         FipGoto(pc), UNCHANGED <<fipLog, fipLeft>>
  PROVE  FipInv' /\ fipWork'.pc = pc /\ FipOwner' = FipOwner
<1>1. fipWork' = [fipWork EXCEPT !.pc = pc] /\ UNCHANGED fipQueueVars
  BY DEF FipGoto
<1>2. fipWork' \in [pc : FipPCs, key : FipKeys \cup {NoKey}, fip : FloatingIPs \cup {NoFloatingIP},
                    fresh : BOOLEAN, status : IPs \cup {NoIP}]
  BY <1>1 DEF FipInv, FipTypeOK, FipBusy
<1>3. fipWork'.pc = pc /\ fipWork'.key = fipWork.key /\ fipWork'.fip = fipWork.fip
  BY <1>1 DEF FipInv, FipTypeOK
<1>4. FipTypeOK'
  BY <1>1, <1>2 DEF FipInv, FipTypeOK, fipQueueVars
<1>5. FipInFlight'
  BY <1>3 DEF FipInv, FipInFlight, FipBusy
<1> QED
  BY <1>3, <1>4, <1>5 DEF FipInv, FipOwner

LEMMA FipIdleIsTyped ==
  FipIdle \in [pc : FipPCs, key : FipKeys \cup {NoKey}, fip : FloatingIPs \cup {NoFloatingIP},
               fresh : BOOLEAN, status : IPs \cup {NoIP}]
  BY DEF FipIdle, FipPCs

\* The queue's side of the end of a sync.
LEMMA FipEndPreserves ==
  ASSUME FipInv, fipWork.pc # "idle", FipDone \/ FipFailed,
         fipLog' \in [FipKeys -> Seq(FloatingIPs \cup {NoFloatingIP})],
         \A k \in FipKeys : fipLog'[k] # <<>>,
         fipLeft' \in [ops : 0 .. MaxFipOps, faults : 0 .. MaxFipFaults]
  PROVE  FipInv' /\ fipWork'.pc = "idle"
<1>1. fipWork' = FipIdle
  BY DEF FipDone, FipFailed
<1>2. fipWork.key \in FipKeys
  BY FipOwnerIsOwner
<1>3. fipRequeues' \in [FipKeys -> 0 .. MaxFipRetries]
  <2>1. CASE FipDone
    BY <1>2, <2>1, FipAssumption DEF FipDone, FipInv, FipTypeOK
  <2>2. CASE FipFailed
    <3>1. /\ fipRequeues \in [FipKeys -> 0 .. MaxFipRetries]
          /\ 0 \in 0 .. MaxFipRetries
          /\ fipRequeues[fipWork.key] \in 0 .. MaxFipRetries
      BY <1>2, FipAssumption DEF FipInv, FipTypeOK
    <3>2. \E n \in 0 .. MaxFipRetries : fipRequeues' = [fipRequeues EXCEPT ![fipWork.key] = n]
      BY <2>2, <3>1, FipAssumption DEF FipFailed
    <3> QED
      BY <3>1, <3>2
  <2> QED
    BY <2>1, <2>2
<1>4. fipQueued' \subseteq FipKeys /\ fipDelayed' \subseteq FipKeys
  BY <1>2 DEF FipDone, FipFailed, FipInv, FipTypeOK
<1>5. FipTypeOK'
  BY <1>1, <1>3, <1>4, FipIdleIsTyped DEF FipTypeOK
<1>6. FipInFlight' /\ fipWork'.pc = "idle"
  BY <1>1 DEF FipInFlight, FipIdle
<1> QED
  BY <1>5, <1>6 DEF FipInv

LEMMA FipSettlePreserves ==
  ASSUME FipInv, fipWork.pc \in FipBusy, NEW status \in IPs \cup {NoIP},
         FipSettle(status), UNCHANGED <<fipLog, fipLeft>>
  PROVE  FipInv' /\ fipWork'.pc \in {"idle", "update"}
<1>1. CASE FipDone
  BY <1>1, FipEndPreserves DEF FipInv, FipTypeOK, FipBusy
<1>2. CASE fipWork' = [fipWork EXCEPT !.pc = "update", !.status = status] /\ UNCHANGED fipQueueVars
  <2>1. fipWork' \in [pc : FipPCs, key : FipKeys \cup {NoKey}, fip : FloatingIPs \cup {NoFloatingIP},
                      fresh : BOOLEAN, status : IPs \cup {NoIP}]
    BY <1>2 DEF FipInv, FipTypeOK, FipPCs
  <2>2. fipWork'.pc = "update" /\ fipWork'.key = fipWork.key /\ fipWork'.fip = fipWork.fip
    BY <1>2 DEF FipInv, FipTypeOK
  <2>3. FipTypeOK'
    BY <1>2, <2>1 DEF FipInv, FipTypeOK, fipQueueVars
  <2> QED
    BY <2>2, <2>3 DEF FipInv, FipInFlight, FipBusy
<1> QED
  BY <1>1, <1>2 DEF FipSettle
-----------------------------------------------------------------------------
(* Versions of the objects.                                                *)

LEMMA FipVersions ==
  ASSUME FipInv, NEW k \in FipKeys
  PROVE  /\ fipLog[k] \in Seq(FloatingIPs \cup {NoFloatingIP}) /\ fipLog[k] # <<>>
         /\ CachedFloatingIP(k) \in FloatingIPs \cup {NoFloatingIP}
         /\ StoredFloatingIP(k) \in FloatingIPs \cup {NoFloatingIP}
<1>1. fipLog[k] \in Seq(FloatingIPs \cup {NoFloatingIP}) /\ fipLog[k] # <<>>
  BY DEF FipInv, FipTypeOK
<1> QED
  BY <1>1, LogEnds DEF CachedFloatingIP, StoredFloatingIP

LEMMA StoreFloatingIPPreserves ==
  ASSUME FipInv, NEW k \in FipKeys, NEW v \in FloatingIPs \cup {NoFloatingIP}, StoreFloatingIP(k, v),
         UNCHANGED fipQueueVars, fipLeft' \in [ops : 0 .. MaxFipOps, faults : 0 .. MaxFipFaults]
  PROVE  FipInv' /\ fipWork'.pc = fipWork.pc /\ FipOwner' = FipOwner
<1>1. Append(fipLog[k], v) \in Seq(FloatingIPs \cup {NoFloatingIP}) /\ Append(fipLog[k], v) # <<>>
  BY FipVersions, WrittenLog
<1>2. /\ fipLog' \in [FipKeys -> Seq(FloatingIPs \cup {NoFloatingIP})]
      /\ \A j \in FipKeys : fipLog'[j] # <<>>
  BY <1>1 DEF StoreFloatingIP, FipInv, FipTypeOK
<1>3. /\ fipWork' \in [pc : FipPCs, key : FipKeys \cup {NoKey}, fip : FloatingIPs \cup {NoFloatingIP},
                       fresh : BOOLEAN, status : IPs \cup {NoIP}]
      /\ fipWork'.pc = fipWork.pc /\ fipWork'.key = fipWork.key /\ fipWork'.fip = fipWork.fip
  BY DEF StoreFloatingIP, FipInv, FipTypeOK
<1>4. FipTypeOK'
  BY <1>2, <1>3 DEF FipInv, FipTypeOK, fipQueueVars
<1> QED
  BY <1>3, <1>4 DEF FipInv, FipInFlight, FipOwner

LEMMA FipUserPreserves ==
  ASSUME FipInv, FipUser
  PROVE  FipInv' /\ fipWork'.pc = fipWork.pc /\ FipOwner' = FipOwner /\ UNCHANGED allocVars
<1>1. PICK k \in FipKeys :
        FipCreate(k) \/ FipSetIP(k) \/ FipTouch(k) \/ FipSetStatus(k) \/ FipDelete(k)
  BY DEF FipUser
<1>2. PICK op \in FipOps : UserFipOp(op)
  BY <1>1 DEF FipCreate, FipSetIP, FipTouch, FipSetStatus, FipDelete, UserFipOp
<1>3. UNCHANGED <<fipQueueVars, allocVars>>
  BY <1>2 DEF UserFipOp
<1>4. fipLeft' \in [ops : 0 .. MaxFipOps, faults : 0 .. MaxFipFaults]
  BY <1>2, FipAssumption, OperationCounted DEF UserFipOp, FipInv, FipTypeOK
<1>5. \E v \in FloatingIPs \cup {NoFloatingIP} : StoreFloatingIP(k, v)
  <2>1. CASE FipCreate(k)
    <3>1. PICK want \in IPStrings \cup {NoIP} :
            StoreFloatingIP(k, [want |-> want, status |-> NoIP])
      BY <2>1 DEF FipCreate
    <3>2. [want |-> want, status |-> NoIP] \in FloatingIPs
      BY DEF FloatingIPs
    <3> QED
      BY <3>1, <3>2
  <2>2. CASE FipSetIP(k)
    <3>1. PICK want \in IPStrings \cup {NoIP} :
            StoreFloatingIP(k, [StoredFloatingIP(k) EXCEPT !.want = want])
      BY <2>2 DEF FipSetIP
    <3>2. StoredFloatingIP(k) \in FloatingIPs
      BY <2>2, FipVersions DEF FipSetIP
    <3>3. [StoredFloatingIP(k) EXCEPT !.want = want] \in FloatingIPs
      BY <3>2 DEF FloatingIPs
    <3> QED
      BY <3>1, <3>3
  <2>3. CASE FipTouch(k)
    BY <2>3, FipVersions DEF FipTouch
  <2>4. CASE FipDelete(k)
    BY <2>4 DEF FipDelete
  <2>5. CASE FipSetStatus(k)
    <3>1. PICK status \in IPs \cup {NoIP} :
            StoreFloatingIP(k, [StoredFloatingIP(k) EXCEPT !.status = status])
      BY <2>5 DEF FipSetStatus
    <3>2. StoredFloatingIP(k) \in FloatingIPs
      BY <2>5, FipVersions DEF FipSetStatus
    <3>3. [StoredFloatingIP(k) EXCEPT !.status = status] \in FloatingIPs
      BY <3>2 DEF FloatingIPs
    <3> QED
      BY <3>1, <3>3
  <2> QED
    BY <1>1, <2>1, <2>2, <2>3, <2>4, <2>5
<1> QED
  BY <1>3, <1>4, <1>5, StoreFloatingIPPreserves

\* Deliveries, resyncs, pool events and timers: nothing but keys in the queue.
LEMMA FipQueuedPreserves ==
  ASSUME FipInv, UNCHANGED <<fipRequeues, fipWork>>,
         fipQueued' \subseteq FipKeys, fipDelayed' \subseteq fipDelayed,
         fipLog' \in [FipKeys -> Seq(FloatingIPs \cup {NoFloatingIP})],
         \A k \in FipKeys : fipLog'[k] # <<>>,
         fipLeft' \in [ops : 0 .. MaxFipOps, faults : 0 .. MaxFipFaults]
  PROVE  FipInv' /\ fipWork'.pc = fipWork.pc /\ FipOwner' = FipOwner
<1>1. FipTypeOK'
  BY DEF FipInv, FipTypeOK
<1> QED
  BY <1>1 DEF FipInv, FipInFlight, FipOwner

LEMMA FipEventPreserves ==
  ASSUME FipInv,
         \/ \E k \in FipKeys : FipDeliver(k) \/ FipRetry(k)
         \/ FipResync
         \/ FipOnPoolChange
  PROVE  FipInv' /\ fipWork'.pc = fipWork.pc /\ FipOwner' = FipOwner /\ UNCHANGED allocVars
<1>1. ASSUME NEW k \in FipKeys, FipDeliver(k)
      PROVE  FipInv' /\ fipWork'.pc = fipWork.pc /\ FipOwner' = FipOwner /\ UNCHANGED allocVars
  <2>1. Tail(fipLog[k]) \in Seq(FloatingIPs \cup {NoFloatingIP}) /\ Tail(fipLog[k]) # <<>>
    BY <1>1, FipVersions, DeliveredLog DEF FipDeliver
  <2>2. /\ fipLog' \in [FipKeys -> Seq(FloatingIPs \cup {NoFloatingIP})]
        /\ \A j \in FipKeys : fipLog'[j] # <<>>
    BY <1>1, <2>1 DEF FipDeliver, FipInv, FipTypeOK
  <2> QED
    BY <1>1, <2>2, FipQueuedPreserves DEF FipDeliver, FipInv, FipTypeOK
<1>2. ASSUME NEW k \in FipKeys, FipRetry(k)
      PROVE  FipInv' /\ fipWork'.pc = fipWork.pc /\ FipOwner' = FipOwner /\ UNCHANGED allocVars
  BY <1>2, FipQueuedPreserves DEF FipRetry, FipInv, FipTypeOK
<1>3. CASE FipResync
  <2>1. fipLeft' \in [ops : 0 .. MaxFipOps, faults : 0 .. MaxFipFaults]
    BY <1>3, FipAssumption, OperationCounted DEF FipResync, FipMayResync, FipInv, FipTypeOK
  <2> QED
    BY <1>3, <2>1, FipQueuedPreserves DEF FipResync, CachedFloatingIPs, FipInv, FipTypeOK
<1>4. CASE FipOnPoolChange
  BY <1>4, FipQueuedPreserves DEF FipOnPoolChange, CachedFloatingIPs, FipInv, FipTypeOK
<1> QED
  BY <1>1, <1>2, <1>3, <1>4
-----------------------------------------------------------------------------
(* The worker's steps.                                                     *)

\* What a step of this controller is to the allocator.
FipCall ==
  /\ [FloatingIPCall \/ DesiredIPCheck]_allocVars
  /\ \A key \in Keys : allocated'[Service(key)] = allocated[Service(key)]

LEMMA FipCallPreserves ==
  ASSUME IInv, FipCall
  PROVE  IInv'
  BY NextPreserves DEF FipCall, Next

LEMMA FipCalls ==
  ASSUME IInv, FipInv, fipWork.pc # "idle",
         \/ AllocateFloatingIP(fipWork.key)
         \/ AllocateFloatingIPFromPool(fipWork.key)
         \/ FreeFloatingIP(fipWork.key)
  PROVE  /\ FipCall /\ allocated'[FipOwner] \in IPs \cup {NoIP}
         /\ FreeFloatingIP(fipWork.key) => allocated'[FipOwner] = NoIP
<1>1. fipWork.key \in Keys /\ FipOwner \in Owners
  BY FipOwnerIsOwner
<1>2. AllocateIP(FipOwner) \/ AllocateFromPool(FipOwner) \/ Free(FipOwner)
  BY DEF FipOwner, AllocateFloatingIP, AllocateFloatingIPFromPool, FreeFloatingIP
<1>3. \A key \in Keys : Service(key) \in Owners \ {FipOwner}
  BY DEF Service, FipOwner, FloatingIP, Owners, Kinds
<1>4. FipCall
  BY <1>1, <1>2, <1>3, CallsAreLocal DEF FipCall, FloatingIPCall
<1>5. allocated'[FipOwner] \in IPs \cup {NoIP}
  BY <1>1, <1>4, FipCallPreserves DEF IInv, TypeOK
<1> QED
  BY <1>1, <1>2, <1>4, <1>5, CallsAreLocal DEF FreeFloatingIP, FipOwner

LEMMA FipChecks ==
  ASSUME FipInv, fipWork.pc # "idle", NEW s \in IPStrings, CheckDesiredIP(FipOwner, s)
  PROVE  FipCall /\ allocated' = allocated
  BY FipOwnerIsOwner DEF FipCall, DesiredIPCheck, CheckDesiredIP

LEMMA FipNoCall ==
  ASSUME UNCHANGED allocVars
  PROVE  FipCall
  BY DEF FipCall, allocVars

LEMMA FipGetPreserves ==
  ASSUME FipInv, NEW k \in FipKeys, FipGet(k)
  PROVE  /\ FipInv' /\ UNCHANGED allocVars
         /\ fipWork'.pc \notin {"allocate", "commit"}
<1> DEFINE fip == CachedFloatingIP(k)
<1>1. fip \in FloatingIPs \cup {NoFloatingIP}
  BY FipVersions
<1>2. PICK pc \in {"deleted", "recheck", "clear"} :
        /\ fipWork' = [pc |-> pc, key |-> k, fip |-> fip,
                       fresh |-> Len(fipLog[k]) = 1, status |-> NoIP]
        /\ pc # "deleted" => fip # NoFloatingIP
        /\ pc = "recheck" => fip.status \in IPs
  BY DEF FipGet
<1>3. /\ fipQueued' \subseteq FipKeys
      /\ UNCHANGED <<fipDelayed, fipRequeues, fipLog, fipLeft, allocVars>>
  BY DEF FipGet, FipInv, FipTypeOK
<1>4. fipWork' \in [pc : FipPCs, key : FipKeys \cup {NoKey}, fip : FloatingIPs \cup {NoFloatingIP},
                    fresh : BOOLEAN, status : IPs \cup {NoIP}]
  BY <1>1, <1>2 DEF FipPCs
<1>5. FipTypeOK'
  BY <1>3, <1>4 DEF FipInv, FipTypeOK
<1>6. FipInFlight'
  BY <1>1, <1>2 DEF FipInFlight
<1> QED
  BY <1>2, <1>3, <1>5, <1>6 DEF FipInv

LEMMA FipUpdateStatusPreserves ==
  ASSUME FipInv, FipUpdateStatus
  PROVE  FipInv' /\ fipWork'.pc = "idle" /\ UNCHANGED allocVars
<1>1. fipWork.pc = "update" /\ (FipDone \/ FipFailed) /\ UNCHANGED allocVars
  BY DEF FipUpdateStatus
<1>2. fipWork.key \in FipKeys /\ fipWork.fip \in FloatingIPs
  BY <1>1 DEF FipInv, FipInFlight
<1>3. fipWork.status \in IPs \cup {NoIP}
  BY DEF FipInv, FipTypeOK
<1>4. [fipWork.fip EXCEPT !.status = fipWork.status] \in FloatingIPs
  BY <1>2, <1>3 DEF FloatingIPs
<1>5. /\ fipLog' \in [FipKeys -> Seq(FloatingIPs \cup {NoFloatingIP})]
      /\ \A k \in FipKeys : fipLog'[k] # <<>>
  <2>1. CASE WriteFipStatus
    <3> DEFINE v == [fipWork.fip EXCEPT !.status = fipWork.status]
    <3>1. /\ Append(fipLog[fipWork.key], v) \in Seq(FloatingIPs \cup {NoFloatingIP})
          /\ Append(fipLog[fipWork.key], v) # <<>>
      BY <1>2, <1>4, FipVersions, WrittenLog
    <3> QED
      BY <1>2, <2>1, <3>1 DEF WriteFipStatus, FipInv, FipTypeOK
  <2>2. CASE UNCHANGED fipLog
    BY <2>2 DEF FipInv, FipTypeOK
  <2> QED
    BY <2>1, <2>2 DEF FipUpdateStatus
<1>6. fipLeft' \in [ops : 0 .. MaxFipOps, faults : 0 .. MaxFipFaults]
  BY FipAssumption DEF FipUpdateStatus, FipInv, FipTypeOK
<1> QED
  BY <1>1, <1>5, <1>6, FipEndPreserves

LEMMA FipWorkerPreserves ==
  ASSUME IInv, FipInv, FipAsksEmptyHanded, FipWorker
  PROVE  FipInv' /\ FipAsksEmptyHanded' /\ FipCall
<1>1. ASSUME NEW k \in FipKeys, FipGet(k)
      PROVE  FipInv' /\ FipAsksEmptyHanded' /\ FipCall
  BY <1>1, FipGetPreserves, FipNoCall DEF FipAsksEmptyHanded
<1>2. CASE FipFreeDeleted
  <2>1. fipWork.pc # "idle" /\ FreeFloatingIP(fipWork.key) /\ FipDone /\ UNCHANGED <<fipLog, fipLeft>>
    BY <1>2 DEF FipFreeDeleted
  <2> QED
    BY <2>1, FipCalls, FipEndPreserves DEF FipAsksEmptyHanded, FipInv, FipTypeOK
<1>3. CASE FipRecheck
  <2>1. fipWork.pc = "recheck" /\ fipWork.fip.status \in IPStrings
    BY <1>3, IPAssumption DEF FipRecheck, FipInv, FipInFlight
  <2>2. FipCall
    BY <1>3, <2>1, FipChecks, FipNoCall DEF FipRecheck
  <2>3. (FipGoto("reclaim") \/ FipGoto("clear")) /\ UNCHANGED <<fipLog, fipLeft>>
    BY <1>3 DEF FipRecheck
  <2> QED
    BY <2>1, <2>2, <2>3, FipGotoPreserves DEF FipAsksEmptyHanded, FipBusy, FipPCs
<1>4. CASE FipReclaim
  <2>1. fipWork.pc = "reclaim" /\ fipWork.fip.status \in IPs \cup {NoIP}
    BY <1>4 DEF FipReclaim, FipInv, FipInFlight, FloatingIPs
  <2>2. FipCall
    BY <1>4, <2>1, FipCalls DEF FipReclaim
  <2>3. (FipSettle(fipWork.fip.status) \/ FipGoto("clear")) /\ UNCHANGED <<fipLog, fipLeft>>
    BY <1>4 DEF FipReclaim
  <2> QED
    BY <2>1, <2>2, <2>3, FipGotoPreserves, FipSettlePreserves
    DEF FipAsksEmptyHanded, FipBusy, FipPCs
<1>5. CASE FipClear
  <2>1. /\ fipWork.pc = "clear" /\ FreeFloatingIP(fipWork.key)
        /\ FipGoto("allocate") /\ UNCHANGED <<fipLog, fipLeft>>
    BY <1>5 DEF FipClear
  <2>2. FipCall /\ allocated'[FipOwner] = NoIP
    BY <2>1, FipCalls
  <2>3. FipInv' /\ FipOwner' = FipOwner
    BY <2>1, FipGotoPreserves DEF FipBusy, FipPCs
  <2> QED
    BY <2>2, <2>3 DEF FipAsksEmptyHanded
<1>6. CASE FipAllocate
  <2>1. /\ fipWork.pc = "allocate" /\ allocated[FipOwner] = NoIP
        /\ fipWork.fip.want \in IPStrings \cup {NoIP} /\ UNCHANGED <<fipLog, fipLeft>>
    BY <1>6 DEF FipAllocate, FipAsksEmptyHanded, FipInv, FipInFlight, FloatingIPs
  <2>2. CASE /\ AllocateFloatingIPFromPool(fipWork.key)
             /\ IF allocated'[FipOwner] # NoIP
                THEN FipSettle(allocated'[FipOwner])
                ELSE FipGoto("giveup")
    <3>1. FipCall /\ allocated'[FipOwner] \in IPs \cup {NoIP}
      BY <2>1, <2>2, FipCalls
    <3> QED
      BY <2>1, <2>2, <3>1, FipGotoPreserves, FipSettlePreserves
      DEF FipAsksEmptyHanded, FipBusy, FipPCs
  <2>3. CASE /\ fipWork.fip.want # NoIP /\ CheckDesiredIP(FipOwner, fipWork.fip.want)
             /\ FipGoto("commit")
    <3>1. FipCall /\ allocated' = allocated
      BY <2>1, <2>3, FipChecks
    <3>2. FipInv' /\ FipOwner' = FipOwner
      BY <2>1, <2>3, FipGotoPreserves DEF FipBusy, FipPCs
    <3> QED
      BY <2>1, <3>1, <3>2 DEF FipAsksEmptyHanded
  <2>4. CASE FipGoto("giveup") /\ UNCHANGED allocVars
    BY <2>1, <2>4, FipNoCall, FipGotoPreserves DEF FipAsksEmptyHanded, FipBusy, FipPCs
  <2> QED
    BY <1>6, <2>2, <2>3, <2>4 DEF FipAllocate
<1>7. CASE FipCommit
  <2>1. fipWork.pc = "commit" /\ AllocateFloatingIP(fipWork.key) /\ UNCHANGED <<fipLog, fipLeft>>
    BY <1>7 DEF FipCommit
  <2>2. FipCall /\ allocated'[FipOwner] \in IPs \cup {NoIP}
    BY <2>1, FipCalls
  <2>3. FipSettle(allocated'[FipOwner]) \/ FipGoto("giveup")
    BY <1>7 DEF FipCommit
  <2> QED
    BY <2>1, <2>2, <2>3, FipGotoPreserves, FipSettlePreserves
    DEF FipAsksEmptyHanded, FipBusy, FipPCs
<1>8. CASE FipGiveUp
  <2>1. /\ fipWork.pc = "giveup" /\ FreeFloatingIP(fipWork.key)
        /\ FipSettle(NoIP) /\ UNCHANGED <<fipLog, fipLeft>>
    BY <1>8 DEF FipGiveUp
  <2> QED
    BY <2>1, FipCalls, FipSettlePreserves DEF FipAsksEmptyHanded, FipBusy, FipPCs
<1>9. CASE FipUpdateStatus
  BY <1>9, FipUpdateStatusPreserves, FipNoCall DEF FipAsksEmptyHanded
<1> QED
  BY <1>1, <1>2, <1>3, <1>4, <1>5, <1>6, <1>7, <1>8, <1>9 DEF FipWorker
-----------------------------------------------------------------------------
(* The controller's steps as a whole.                                      *)

LEMMA FipNextPreserves ==
  ASSUME IInv, FipInv, FipAsksEmptyHanded, FipNext
  PROVE  FipInv' /\ FipAsksEmptyHanded' /\ FipCall
<1>1. CASE FipUser
  BY <1>1, FipUserPreserves, FipNoCall DEF FipAsksEmptyHanded, allocVars
<1>2. CASE (\E k \in FipKeys : FipDeliver(k) \/ FipRetry(k)) \/ FipResync
  BY <1>2, FipEventPreserves, FipNoCall DEF FipAsksEmptyHanded, allocVars
<1>3. CASE FipWorker
  BY <1>3, FipWorkerPreserves
<1> QED
  BY <1>1, <1>2, <1>3 DEF FipNext

\* The start of a process.
LEMMA FipStartInv ==
  ASSUME NEW log \in [FipKeys -> FloatingIPs \cup {NoFloatingIP}]
  PROVE  /\ [k \in FipKeys |-> <<log[k]>>] \in [FipKeys -> Seq(FloatingIPs \cup {NoFloatingIP})]
         /\ \A k \in FipKeys : [j \in FipKeys |-> <<log[j]>>][k] # <<>>
         /\ [k \in FipKeys |-> 0] \in [FipKeys -> 0 .. MaxFipRetries]
  BY FipAssumption

LEMMA FipInitInv == FipInit => FipInv /\ FipAsksEmptyHanded
<1> SUFFICES ASSUME NEW stored \in [FipKeys -> InitialFloatingIPs],
                    fipLog = [k \in FipKeys |-> <<stored[k]>>],
                    fipQueued = {k \in FipKeys : stored[k] # NoFloatingIP},
                    fipDelayed = {}, fipRequeues = [k \in FipKeys |-> 0],
                    fipWork = FipIdle,
                    fipLeft = [ops |-> MaxFipOps, faults |-> MaxFipFaults]
             PROVE  FipInv /\ FipAsksEmptyHanded
  BY DEF FipInit
<1>1. stored \in [FipKeys -> FloatingIPs \cup {NoFloatingIP}]
  BY FipAssumption DEF FloatingIPs
<1>2. FipTypeOK
  BY <1>1, FipStartInv, FipIdleIsTyped, FipAssumption DEF FipTypeOK
<1> QED
  BY <1>2 DEF FipInv, FipInFlight, FipAsksEmptyHanded, FipIdle

LEMMA FipRestartInv ==
  ASSUME FipInv, FipRestart
  PROVE  FipInv' /\ FipAsksEmptyHanded'
<1> DEFINE stored == [k \in FipKeys |-> StoredFloatingIP(k)]
<1>1. stored \in [FipKeys -> FloatingIPs \cup {NoFloatingIP}]
  BY FipVersions
<1>2. fipLog' = [k \in FipKeys |-> <<stored[k]>>]
  BY DEF FipRestart
<1>3. /\ fipQueued' \subseteq FipKeys /\ fipDelayed' = {} /\ fipRequeues' = [k \in FipKeys |-> 0]
      /\ fipWork' = FipIdle /\ fipLeft' = fipLeft
  BY DEF FipRestart
<1>4. FipTypeOK'
  BY <1>1, <1>2, <1>3, FipStartInv, FipIdleIsTyped DEF FipTypeOK, FipInv
<1> QED
  BY <1>3, <1>4 DEF FipInv, FipInFlight, FipAsksEmptyHanded, FipIdle
=============================================================================
