---------------------------- MODULE StoneLBProofs ----------------------------
(***************************************************************************)
(* The whole process, for any objects, addresses and bounds: to the        *)
(* allocator the three controllers are such clients as its own             *)
(* specification allows, so its theorems hold of them; and a worker asks   *)
(* for an IP only while its object holds none.                             *)
(***************************************************************************)
EXTENDS StoneLB, PublicIPPoolControllerProofs, ServiceControllerProofs,
        FloatingIPControllerProofs

SystemInv ==
  /\ IInv /\ PoolInv /\ SvcInv /\ FipInv
  /\ SvcAsksEmptyHanded /\ FipAsksEmptyHanded

LEMMA SystemInitInv == SystemInit => SystemInv
  BY InitIInv, PoolInitInv, SvcInitInv, FipInitInv DEF SystemInit, SystemInv
-----------------------------------------------------------------------------
(* What a controller does not touch stays as it should be.                 *)

LEMMA PoolUntouched ==
  ASSUME PoolInv, UNCHANGED poolVars
  PROVE  PoolInv'
  BY DEF PoolInv, PoolVarsOK, PoolInFlight, PoolBudget, poolVars, poolCtlVars, poolQueueVars,
         Generations, Pools, PoolWorks

LEMMA SvcUntouched ==
  ASSUME SvcInv, UNCHANGED svcVars
  PROVE  SvcInv' /\ SvcOwner' = SvcOwner /\ svcWork' = svcWork
  BY DEF SvcInv, SvcTypeOK, SvcInFlight, SvcOwner, svcVars, svcCtlVars, svcQueueVars

LEMMA FipUntouched ==
  ASSUME FipInv, UNCHANGED fipVars
  PROVE  FipInv' /\ FipOwner' = FipOwner /\ fipWork' = fipWork
  BY DEF FipInv, FipTypeOK, FipInFlight, FipOwner, fipVars, fipCtlVars, fipQueueVars

\* A worker that holds nothing still does after somebody else's step.
LEMMA SvcStillEmptyHanded ==
  ASSUME SvcInv, SvcAsksEmptyHanded, UNCHANGED svcVars,
         \/ \A key \in Keys : allocated'[Service(key)] = allocated[Service(key)]
         \/ \A o \in Owners : allocated'[o] = NoIP
  PROVE  SvcAsksEmptyHanded'
<1> SUFFICES ASSUME svcWork.pc \in {"allocate", "commit"}
             PROVE  allocated'[SvcOwner] = NoIP
  BY SvcUntouched DEF SvcAsksEmptyHanded
<1>1. svcWork.key \in Keys /\ SvcOwner \in Owners
  BY SvcOwnerIsOwner
<1> QED
  BY <1>1 DEF SvcAsksEmptyHanded, SvcOwner

LEMMA FipStillEmptyHanded ==
  ASSUME FipInv, FipAsksEmptyHanded, UNCHANGED fipVars,
         \/ \A key \in Keys : allocated'[FloatingIP(key)] = allocated[FloatingIP(key)]
         \/ \A o \in Owners : allocated'[o] = NoIP
  PROVE  FipAsksEmptyHanded'
<1> SUFFICES ASSUME fipWork.pc \in {"allocate", "commit"}
             PROVE  allocated'[FipOwner] = NoIP
  BY FipUntouched DEF FipAsksEmptyHanded
<1>1. fipWork.key \in Keys /\ FipOwner \in Owners
  BY FipOwnerIsOwner
<1> QED
  BY <1>1 DEF FipAsksEmptyHanded, FipOwner

\* A load forgets all leases or none.
LEMMA LoadsAreForAll ==
  ASSUME PoolLoadCall
  PROVE  allocated' = allocated \/ \A o \in Owners : allocated'[o] = NoIP
  BY DEF PoolLoadCall, PoolCall, UpdateIPPool, allocVars
-----------------------------------------------------------------------------
(* The steps of the process.                                               *)

LEMMA PoolStepPreservesSystem ==
  ASSUME SystemInv, PoolStep
  PROVE  SystemInv' /\ [Next]_allocVars
<1>1. PoolInv' /\ PoolLoadCall /\ UNCHANGED svcVars /\ UNCHANGED fipVars
  BY PoolNextPreserves DEF SystemInv, PoolStep
<1>2. [Next]_allocVars
  BY <1>1 DEF PoolLoadCall, Next
<1>3. IInv'
  BY <1>2, NextPreserves DEF SystemInv
<1>4. SvcInv' /\ FipInv'
  BY <1>1, SvcUntouched, FipUntouched DEF SystemInv
<1>5. SvcAsksEmptyHanded' /\ FipAsksEmptyHanded'
  BY <1>1, LoadsAreForAll, SvcStillEmptyHanded, FipStillEmptyHanded DEF SystemInv
<1> QED
  BY <1>1, <1>2, <1>3, <1>4, <1>5 DEF SystemInv

LEMMA SvcStepPreservesSystem ==
  ASSUME SystemInv, SvcStep
  PROVE  SystemInv' /\ [Next]_allocVars /\ nets' = nets
<1>1. /\ SvcInv' /\ SvcAsksEmptyHanded' /\ SvcCall
      /\ UNCHANGED poolVars /\ UNCHANGED fipVars
  BY SvcNextPreserves DEF SystemInv, SvcStep
<1>2. [Next]_allocVars
  BY <1>1 DEF SvcCall, Next
<1>3. IInv' /\ PoolInv' /\ FipInv'
  BY <1>1, <1>2, NextPreserves, PoolUntouched, FipUntouched DEF SystemInv
<1>4. FipAsksEmptyHanded'
  BY <1>1, FipStillEmptyHanded DEF SystemInv, SvcCall
<1>5. nets' = nets
  BY <1>1 DEF SvcCall, ServiceCall, DesiredIPCheck, CheckDesiredIP, AllocateServiceIP,
              AllocateServiceIPFromPool, FreeService, AllocateIP, AllocateFromPool, Free, allocVars
<1> QED
  BY <1>1, <1>2, <1>3, <1>4, <1>5 DEF SystemInv

LEMMA FipStepPreservesSystem ==
  ASSUME SystemInv, FipStep
  PROVE  SystemInv' /\ [Next]_allocVars /\ nets' = nets
<1>1. /\ FipInv' /\ FipAsksEmptyHanded' /\ FipCall
      /\ UNCHANGED poolVars /\ UNCHANGED svcVars
  BY FipNextPreserves DEF SystemInv, FipStep
<1>2. [Next]_allocVars
  BY <1>1 DEF FipCall, Next
<1>3. IInv' /\ PoolInv' /\ SvcInv'
  BY <1>1, <1>2, NextPreserves, PoolUntouched, SvcUntouched DEF SystemInv
<1>4. SvcAsksEmptyHanded'
  BY <1>1, SvcStillEmptyHanded DEF SystemInv, FipCall
<1>5. nets' = nets
  BY <1>1 DEF FipCall, FloatingIPCall, DesiredIPCheck, CheckDesiredIP, AllocateFloatingIP,
              AllocateFloatingIPFromPool, FreeFloatingIP, AllocateIP, AllocateFromPool, Free, allocVars
<1> QED
  BY <1>1, <1>2, <1>3, <1>4, <1>5 DEF SystemInv

LEMMA PoolEventPreserves ==
  ASSUME PoolInv, NEW kind, PoolEvent(kind)
  PROVE  PoolInv' /\ UNCHANGED <<poolLog, poolWork, poolLeft>>
<1>1. /\ kind \in Listeners /\ poolEvents[kind] # <<>>
      /\ poolEvents' = [poolEvents EXCEPT ![kind] = Tail(@)]
      /\ UNCHANGED <<poolLog, poolQueued, poolDelayed, poolRequeues, poolWork,
                     observedGeneration, poolLeft>>
  BY DEF PoolEvent, poolCtlVars, poolQueueVars
<1>2. Tail(poolEvents[kind]) \in Seq({"updated", "deleted"})
  BY <1>1, HeadTailProperties DEF PoolInv, PoolVarsOK
<1>3. poolEvents' \in [Listeners -> Seq({"updated", "deleted"})]
  BY <1>1, <1>2 DEF PoolInv, PoolVarsOK
<1> QED
  BY <1>1, <1>3 DEF PoolInv, PoolVarsOK, PoolInFlight, PoolBudget, Generations, Pools, PoolWorks

LEMMA PoolEventsPreserveSystem ==
  ASSUME SystemInv, SvcPoolEvent \/ FipPoolEvent
  PROVE  SystemInv' /\ UNCHANGED <<allocVars, poolLog, poolWork, poolLeft>>
<1>1. CASE SvcPoolEvent
  <2>1. PoolInv' /\ UNCHANGED <<poolLog, poolWork, poolLeft>> /\ UNCHANGED fipVars
    BY <1>1, PoolEventPreserves DEF SvcPoolEvent, SystemInv
  <2>2. SvcInv' /\ svcWork'.pc = svcWork.pc /\ SvcOwner' = SvcOwner /\ UNCHANGED allocVars
    BY <1>1, SvcEventPreserves DEF SvcPoolEvent, SystemInv
  <2>3. IInv' /\ FipInv'
    BY <2>1, <2>2, NextPreserves, FipUntouched DEF SystemInv
  <2>4. SvcAsksEmptyHanded' /\ FipAsksEmptyHanded'
    BY <2>1, <2>2, FipUntouched DEF SystemInv, SvcAsksEmptyHanded, FipAsksEmptyHanded, allocVars
  <2> QED
    BY <2>1, <2>2, <2>3, <2>4 DEF SystemInv
<1>2. CASE FipPoolEvent
  <2>1. PoolInv' /\ UNCHANGED <<poolLog, poolWork, poolLeft>> /\ UNCHANGED svcVars
    BY <1>2, PoolEventPreserves DEF FipPoolEvent, SystemInv
  <2>2. FipInv' /\ fipWork'.pc = fipWork.pc /\ FipOwner' = FipOwner /\ UNCHANGED allocVars
    BY <1>2, FipEventPreserves DEF FipPoolEvent, SystemInv
  <2>3. IInv' /\ SvcInv'
    BY <2>1, <2>2, NextPreserves, SvcUntouched DEF SystemInv
  <2>4. SvcAsksEmptyHanded' /\ FipAsksEmptyHanded'
    BY <2>1, <2>2, SvcUntouched DEF SystemInv, SvcAsksEmptyHanded, FipAsksEmptyHanded, allocVars
  <2> QED
    BY <2>1, <2>2, <2>3, <2>4 DEF SystemInv
<1> QED
  BY <1>1, <1>2

LEMMA RestartPreservesSystem ==
  ASSUME SystemInv, Restart
  PROVE  SystemInv' /\ [Next]_allocVars
  BY CrashPreserves, PoolRestartPreserves, SvcRestartInv, FipRestartInv
  DEF SystemInv, Restart, Next

LEMMA SystemNextPreserves == SystemInv /\ [SystemNext]_vars => SystemInv' /\ [Next]_allocVars
<1> SUFFICES ASSUME SystemInv, [SystemNext]_vars
             PROVE  SystemInv' /\ [Next]_allocVars
  OBVIOUS
<1>1. CASE UNCHANGED vars
  <2>1. UNCHANGED allocVars /\ UNCHANGED poolVars /\ UNCHANGED svcVars /\ UNCHANGED fipVars
    BY <1>1 DEF vars
  <2>2. IInv' /\ PoolInv' /\ SvcInv' /\ FipInv'
    BY <2>1, NextPreserves, PoolUntouched, SvcUntouched, FipUntouched DEF SystemInv
  <2>3. SvcAsksEmptyHanded' /\ FipAsksEmptyHanded'
    BY <2>1, SvcStillEmptyHanded, FipStillEmptyHanded DEF SystemInv, allocVars
  <2> QED
    BY <2>1, <2>2, <2>3 DEF SystemInv
<1>2. CASE SvcPoolEvent \/ FipPoolEvent
  BY <1>2, PoolEventsPreserveSystem
<1> QED
  BY <1>1, <1>2, PoolStepPreservesSystem, SvcStepPreservesSystem, FipStepPreservesSystem,
     RestartPreservesSystem DEF SystemNext

LEMMA SystemSpecInv == SystemSpec => []SystemInv
  BY SystemInitInv, SystemNextPreserves, PTL DEF SystemSpec

\* The other controllers never change what is loaded.
LEMMA SystemNextAnnounced == SystemInv /\ AnnouncedInv /\ [SystemNext]_vars => AnnouncedInv'
<1> SUFFICES ASSUME SystemInv, AnnouncedInv, [SystemNext]_vars
             PROVE  AnnouncedInv'
  OBVIOUS
<1>1. ASSUME UNCHANGED <<nets, poolLog, poolWork, poolLeft>>
      PROVE  AnnouncedInv'
  BY <1>1 DEF AnnouncedInv, FreshCopy, LoadedCopy, AnnouncedIsAll, ObservedBound,
              AnnouncedIsLoaded, StoredPool, Announced, TargetNets
<1>2. CASE PoolStep
  BY <1>2, PoolNextAnnounced DEF PoolStep, SystemInv
<1>3. CASE SvcStep \/ FipStep
  BY <1>1, <1>3, SvcStepPreservesSystem, FipStepPreservesSystem DEF SvcStep, FipStep, poolVars, poolCtlVars
<1>4. CASE SvcPoolEvent \/ FipPoolEvent
  BY <1>1, <1>4, PoolEventsPreserveSystem DEF allocVars
<1>5. CASE Restart
  BY <1>5, PoolRestartAnnounced DEF Restart, SystemInv
<1>6. CASE UNCHANGED vars
  BY <1>1, <1>6 DEF vars, allocVars, poolVars, poolCtlVars
<1> QED
  BY <1>2, <1>3, <1>4, <1>5, <1>6 DEF SystemNext

\* Nor do they come between the deletion of the pool and its release.
LEMMA SystemNextPoolReleased == SystemInv /\ ReleasedInv /\ [SystemNext]_vars => ReleasedInv'
<1> SUFFICES ASSUME SystemInv, ReleasedInv, [SystemNext]_vars
             PROVE  ReleasedInv'
  OBVIOUS
<1>1. ASSUME UNCHANGED <<nets, poolLog, poolQueued, poolWork>>
      PROVE  ReleasedInv'
  BY <1>1 DEF ReleasedInv, CachedPool
<1>2. CASE PoolStep
  BY <1>2, PoolNextReleased DEF PoolStep, SystemInv
<1>3. CASE SvcStep \/ FipStep
  BY <1>1, <1>3, SvcStepPreservesSystem, FipStepPreservesSystem
  DEF SvcStep, FipStep, poolVars, poolCtlVars, poolQueueVars
<1>4. CASE SvcPoolEvent \/ FipPoolEvent
  BY <1>1, <1>4, PoolEventsPreserveSystem
  DEF SvcPoolEvent, FipPoolEvent, PoolEvent, poolCtlVars, poolQueueVars, allocVars
<1>5. CASE Restart
  BY <1>5, PoolRestartReleased DEF Restart
<1>6. CASE UNCHANGED vars
  BY <1>1, <1>6 DEF vars, allocVars, poolVars, poolCtlVars, poolQueueVars
<1> QED
  BY <1>2, <1>3, <1>4, <1>5, <1>6 DEF SystemNext
-----------------------------------------------------------------------------
(* The theorems.                                                           *)

\* The process's state holds what its types say.
THEOREM SystemTypeCorrect == SystemSpec => []SystemTypeOK
<1>1. SystemInv => SystemTypeOK
  BY PoolTypes DEF SystemInv, SystemTypeOK, IInv, PoolInv, SvcInv, FipInv
<1> QED
  BY <1>1, SystemSpecInv, PTL

\* A service or FloatingIP asks for a new IP only while it holds none, whatever
\* loads and other syncs come between the calls of its own.
THEOREM WorkersAskEmptyHanded == SystemSpec => []AsksEmptyHanded
<1>1. SystemInv => AsksEmptyHanded
  BY DEF SystemInv, AsksEmptyHanded, SvcAsksEmptyHanded, FipAsksEmptyHanded
<1> QED
  BY <1>1, SystemSpecInv, PTL

\* The controllers are clients as the allocator's specification allows.
THEOREM SystemImplementsAllocator == SystemSpec => Spec
<1>1. SystemInit => Init
  BY DEF SystemInit
<1> QED
  BY <1>1, SystemSpecInv, SystemNextPreserves, PTL DEF SystemSpec, Spec

\* No address is leased twice by the process.
THEOREM SystemLeasesAreExclusive == SystemSpec => []ExclusiveLease
  BY SystemImplementsAllocator, LeasesAreExclusive, PTL

\* The process as a whole is a lease table: every step of it grants an address
\* nobody holds, releases one, revokes all, or leaves the leases alone.
THEOREM SystemImplementsLeases == SystemSpec => ImplementsLeases
  BY SystemImplementsAllocator, AllocatorImplementsLeases, PTL

\* What the pool's status announces is loaded, with the other controllers too.
THEOREM SystemAnnouncesWhatIsLoaded ==
  ASSUME \A v \in InitialPools : v # NoPool => ~Announced(v)
  PROVE  SystemSpec => []AnnouncedIsLoaded
<1>1. SystemInit => AnnouncedInv
  BY PoolInitAnnounced DEF SystemInit
<1>2. AnnouncedInv => AnnouncedIsLoaded
  BY DEF AnnouncedInv
<1> QED
  BY <1>1, <1>2, SystemSpecInv, SystemNextAnnounced, PTL DEF SystemSpec

\* A deleted pool does not stay in the allocator, with the other controllers too.
THEOREM SystemReleasesDeletedPool == SystemSpec => []ReleasedWhenGone
<1>1. SystemInit => ReleasedInv
  BY PoolInitReleased DEF SystemInit
<1>2. SystemInv /\ ReleasedInv => ReleasedWhenGone
  BY ReleasedInvSuffices DEF SystemInv
<1> QED
  BY <1>1, <1>2, SystemSpecInv, SystemNextPoolReleased, PTL DEF SystemSpec
=============================================================================
