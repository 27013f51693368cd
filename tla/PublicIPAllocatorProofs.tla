----------------------- MODULE PublicIPAllocatorProofs -----------------------
(***************************************************************************)
(* The allocator's invariants, and its implementation of the lease table,  *)
(* for any pool, any set of keys and any order of calls.                   *)
(***************************************************************************)
EXTENDS PublicIPAllocator, Integers, SequencesExt, SequenceTheorems, TLAPS

\* ExclusiveLease is not inductive alone: a free IP is one that usedIPs does
\* not list, so usedIPs must list all that is leased (UsedByOwner), and Free
\* keeps that only while no other owner has the same IP.
IInv == TypeOK /\ UsedByOwner /\ ExclusiveLease

\* What the assumptions say of the constants.
LEMMA Constants ==
  /\ NoIP \notin IPs
  /\ NoKey \notin Keys
  /\ \A s \in IPStrings : Canonical[s] \in IPs \cup {NoIP}
  /\ \A o \in Owners : KeyOf(o) \in Keys
  BY IPAssumption, KeyAssumption DEF Owners, KeyOf

\* A list without malformed entries stands for a sequence of blocks.
LEMMA TargetNetsType ==
  ASSUME NEW addresses \in Addresses, Parses(addresses)
  PROVE  TargetNets(addresses) \in Seq(Seq(IPs))
<1>1. addresses \in Seq(Entries)
  BY EntryAssumption
<1>2. \A i \in 1 .. Len(addresses) : ParseCIDR[addresses[i]] \in Seq(IPs)
  BY <1>1, EntryAssumption DEF Parses
<1>3. TargetNets(addresses) = [i \in 1 .. Len(addresses) |-> ParseCIDR[addresses[i]]]
  BY <1>1 DEF TargetNets
<1>4. Len(addresses) \in Nat
  BY <1>1
<1> QED
  BY <1>2, <1>3, <1>4

\* An IP that usedIPs does not list is nobody's, and may be leased.
LEMMA LeasePreserves ==
  ASSUME IInv, NEW o \in Owners, NEW ip \in IPs, usedIPs[ip] = NoKey, Lease(o, ip)
  PROVE  /\ allocated' \in [Owners -> IPs \cup {NoIP}]
         /\ usedIPs' \in [IPs -> Keys \cup {NoKey}]
         /\ UsedByOwner' /\ ExclusiveLease'
<1>1. \A p \in Owners : allocated[p] # ip
  BY Constants DEF IInv, UsedByOwner
<1>2. /\ allocated' \in [Owners -> IPs \cup {NoIP}]
      /\ usedIPs' \in [IPs -> Keys \cup {NoKey}]
  BY Constants DEF IInv, TypeOK, Lease
<1>3. UsedByOwner'
  BY <1>1, Constants DEF IInv, TypeOK, UsedByOwner, Lease
<1>4. ExclusiveLease'
  BY <1>1, Constants DEF IInv, TypeOK, ExclusiveLease, Lease
<1> QED
  BY <1>2, <1>3, <1>4

LEMMA InitIInv == Init => IInv
<1> SUFFICES ASSUME Init
             PROVE  IInv
  OBVIOUS
<1>1. <<>> \in Seq(Seq(IPs))
  OBVIOUS
<1> QED
  BY <1>1 DEF Init, IInv, TypeOK, UsedByOwner, ExclusiveLease

LEMMA UpdateIPPoolPreserves ==
  ASSUME IInv, NEW addresses \in Addresses, UpdateIPPool(addresses)
  PROVE  IInv'
<1>1. CASE Parses(addresses) /\ nets' = TargetNets(addresses)
           /\ usedIPs' = [ip \in IPs |-> NoKey]
           /\ allocated' = [o \in Owners |-> NoIP]
           /\ UNCHANGED checked
  <2>1. nets' \in Seq(Seq(IPs))
    BY <1>1, TargetNetsType
  <2> QED
    BY <1>1, <2>1 DEF IInv, TypeOK, UsedByOwner, ExclusiveLease
<1>2. CASE UNCHANGED allocVars
  BY <1>2 DEF IInv, TypeOK, UsedByOwner, ExclusiveLease, allocVars
<1> QED
  BY <1>1, <1>2 DEF UpdateIPPool

LEMMA CheckPreserves ==
  ASSUME IInv, NEW o \in Owners, NEW s \in IPStrings, CheckDesiredIP(o, s)
  PROVE  IInv'
<1>1. checked' \in [Owners -> IPs \cup {NoIP}]
  BY Constants DEF IInv, TypeOK, CheckDesiredIP
<1> QED
  BY <1>1 DEF IInv, TypeOK, UsedByOwner, ExclusiveLease, CheckDesiredIP

LEMMA AllocateIPPreserves ==
  ASSUME IInv, NEW o \in Owners, AllocateIP(o)
  PROVE  IInv'
<1>1. checked[o] \in IPs /\ nets' = nets
  BY DEF IInv, TypeOK, AllocateIP
<1>2. checked' \in [Owners -> IPs \cup {NoIP}]
  BY DEF IInv, TypeOK, AllocateIP
<1>3. CASE usedIPs[checked[o]] = NoKey /\ Lease(o, checked[o])
  BY <1>1, <1>2, <1>3, LeasePreserves DEF IInv, TypeOK
<1>4. CASE UNCHANGED <<usedIPs, allocated>>
  BY <1>1, <1>2, <1>4 DEF IInv, TypeOK, UsedByOwner, ExclusiveLease
<1> QED
  BY <1>3, <1>4 DEF AllocateIP

LEMMA AllocateFromPoolPreserves ==
  ASSUME IInv, NEW o \in Owners, AllocateFromPool(o)
  PROVE  IInv'
<1>1. nets' = nets /\ checked' = checked
  BY DEF AllocateFromPool
<1>2. CASE \E i \in DOMAIN nets : \E j \in DOMAIN nets[i] :
             FirstUnused(i, j) /\ Lease(o, nets[i][j])
  <2>1. PICK i \in DOMAIN nets : \E j \in DOMAIN nets[i] :
               FirstUnused(i, j) /\ Lease(o, nets[i][j])
    BY <1>2
  <2>2. PICK j \in DOMAIN nets[i] : FirstUnused(i, j) /\ Lease(o, nets[i][j])
    BY <2>1
  <2>3. nets[i] \in Seq(IPs)
    BY DEF IInv, TypeOK
  <2>4. nets[i][j] \in IPs
    BY <2>3
  <2>5. usedIPs[nets[i][j]] = NoKey
    BY <2>2 DEF FirstUnused
  <2> QED
    BY <1>1, <2>2, <2>4, <2>5, LeasePreserves DEF IInv, TypeOK
<1>3. CASE UNCHANGED <<usedIPs, allocated>>
  BY <1>1, <1>3 DEF IInv, TypeOK, UsedByOwner, ExclusiveLease
<1> QED
  BY <1>2, <1>3 DEF AllocateFromPool

LEMMA FreePreserves ==
  ASSUME IInv, NEW o \in Owners, Free(o)
  PROVE  IInv'
<1>1. CASE /\ allocated[o] # NoIP
           /\ usedIPs' = [usedIPs EXCEPT ![allocated[o]] = NoKey]
           /\ allocated' = [allocated EXCEPT ![o] = NoIP]
           /\ UNCHANGED <<nets, checked>>
  <2>1. TypeOK'
    BY <1>1 DEF IInv, TypeOK
  <2>2. UsedByOwner'
    BY <1>1, Constants DEF IInv, TypeOK, UsedByOwner, ExclusiveLease
  <2>3. ExclusiveLease'
    BY <1>1 DEF IInv, TypeOK, ExclusiveLease
  <2> QED
    BY <2>1, <2>2, <2>3 DEF IInv
<1>2. CASE UNCHANGED allocVars
  BY <1>2 DEF IInv, TypeOK, UsedByOwner, ExclusiveLease, allocVars
<1> QED
  BY <1>1, <1>2 DEF Free, allocVars

LEMMA CrashPreserves ==
  ASSUME Crash
  PROVE  IInv'
<1>1. <<>> \in Seq(Seq(IPs))
  OBVIOUS
<1> QED
  BY <1>1 DEF Crash, IInv, TypeOK, UsedByOwner, ExclusiveLease

\* The wrappers of the two kinds are calls for an owner.
LEMMA CallsAreForOwners ==
  /\ ServiceCall => \E o \in Owners : AllocateIP(o) \/ AllocateFromPool(o) \/ Free(o)
  /\ FloatingIPCall => \E o \in Owners : AllocateIP(o) \/ AllocateFromPool(o) \/ Free(o)
<1>1. \A key \in Keys : Service(key) \in Owners /\ FloatingIP(key) \in Owners
  BY DEF Owners, Kinds, Service, FloatingIP
<1> QED
  BY <1>1 DEF ServiceCall, FloatingIPCall, AllocateServiceIP, AllocateServiceIPFromPool,
              FreeService, AllocateFloatingIP, AllocateFloatingIPFromPool, FreeFloatingIP

\* A call leaves the leases of other owners alone, and Free leaves none.
LEMMA CallsAreLocal ==
  ASSUME IInv, NEW o \in Owners, AllocateIP(o) \/ AllocateFromPool(o) \/ Free(o)
  PROVE  /\ \A p \in Owners \ {o} : allocated'[p] = allocated[p]
         /\ Free(o) => allocated'[o] = NoIP
<1>1. allocated \in [Owners -> IPs \cup {NoIP}]
  BY DEF IInv, TypeOK
<1>2. \/ \E ip : allocated' = [allocated EXCEPT ![o] = ip]
      \/ allocated' = allocated
  BY DEF AllocateIP, AllocateFromPool, Free, Lease
<1>3. Free(o) => allocated'[o] = NoIP
  BY <1>1 DEF Free
<1> QED
  BY <1>1, <1>2, <1>3

LEMMA NextPreserves == IInv /\ [Next]_allocVars => IInv'
<1> SUFFICES ASSUME IInv, [Next]_allocVars
             PROVE  IInv'
  OBVIOUS
<1>1. CASE DesiredIPCheck
  BY <1>1, CheckPreserves DEF DesiredIPCheck
<1>2. CASE ServiceCall \/ FloatingIPCall
  BY <1>2, CallsAreForOwners, AllocateIPPreserves, AllocateFromPoolPreserves, FreePreserves
<1>3. CASE PoolCall
  BY <1>3, UpdateIPPoolPreserves DEF PoolCall
<1>4. CASE Crash
  BY <1>4, CrashPreserves
<1>5. CASE UNCHANGED allocVars
  BY <1>5 DEF IInv, TypeOK, UsedByOwner, ExclusiveLease, allocVars
<1> QED
  BY <1>1, <1>2, <1>3, <1>4, <1>5 DEF Next

LEMMA SpecIInv == Spec => []IInv
  BY InitIInv, NextPreserves, PTL DEF Spec

\* The allocator's maps hold what their types say.
THEOREM TypeCorrect == Spec => []TypeOK
<1>1. IInv => TypeOK
  BY DEF IInv
<1> QED
  BY <1>1, SpecIInv, PTL

\* A leased IP is marked used under its owner's key: the "[FIXME]" branch of
\* allocateServiceIPFromPool and allocateFloatingIPFromPool is never taken.
THEOREM LeasesAreUsed == Spec => []UsedByOwner
<1>1. IInv => UsedByOwner
  BY DEF IInv
<1> QED
  BY <1>1, SpecIInv, PTL

\* No IP is allocated to two owners, whether services or floating IPs.
THEOREM LeasesAreExclusive == Spec => []ExclusiveLease
<1>1. IInv => ExclusiveLease
  BY DEF IInv
<1> QED
  BY <1>1, SpecIInv, PTL
-----------------------------------------------------------------------------
(* The implementation of IPLeases.                                         *)

\* A call for an owner changes that owner's lease only, and takes an IP only
\* while nobody has it.
LEMMA CallIsLeaseStep ==
  ASSUME IInv, NEW o \in Owners, AllocateIP(o) \/ AllocateFromPool(o) \/ Free(o)
  PROVE  [Leases!Next]_allocated
<1>1. ASSUME NEW ip \in IPs, usedIPs[ip] = NoKey, Lease(o, ip)
      PROVE  Leases!Next
  <2>1. \A p \in Owners : allocated[p] # ip
    BY <1>1, Constants DEF IInv, UsedByOwner
  <2>2. Leases!Grant(o, ip)
    BY <1>1, <2>1 DEF Lease, Leases!Grant
  <2> QED
    BY <2>2 DEF Leases!Next
<1>2. CASE AllocateIP(o)
  <2>1. checked[o] \in IPs
    BY <1>2 DEF IInv, TypeOK, AllocateIP
  <2> QED
    BY <1>1, <1>2, <2>1 DEF AllocateIP
<1>3. CASE AllocateFromPool(o)
  <2>1. \A i \in DOMAIN nets : \A j \in DOMAIN nets[i] : nets[i][j] \in IPs
    BY DEF IInv, TypeOK
  <2> QED
    BY <1>1, <1>3, <2>1 DEF AllocateFromPool, FirstUnused
<1>4. CASE Free(o)
  BY <1>4 DEF Free, Leases!Next, Leases!Release
<1> QED
  BY <1>2, <1>3, <1>4

LEMMA NextIsLeaseStep == IInv /\ [Next]_allocVars => [Leases!Next]_allocated
<1> SUFFICES ASSUME IInv, [Next]_allocVars
             PROVE  [Leases!Next]_allocated
  OBVIOUS
<1>1. CASE DesiredIPCheck
  BY <1>1 DEF DesiredIPCheck, CheckDesiredIP
<1>2. CASE ServiceCall \/ FloatingIPCall
  BY <1>2, CallsAreForOwners, CallIsLeaseStep
<1>3. CASE PoolCall
  BY <1>3 DEF PoolCall, UpdateIPPool, allocVars, Leases!Next, Leases!RevokeAll
<1>4. CASE Crash
  BY <1>4 DEF Crash, Leases!Next, Leases!RevokeAll
<1>5. CASE UNCHANGED allocVars
  BY <1>5 DEF allocVars
<1> QED
  BY <1>1, <1>2, <1>3, <1>4, <1>5 DEF Next

\* The allocator implements the lease table: whatever the order of the calls,
\* of pool updates between the two halves of a call, and of crashes.
THEOREM AllocatorImplementsLeases == Spec => ImplementsLeases
<1>1. Init => Leases!Init
  BY DEF Init, Leases!Init
<1> QED
  BY <1>1, SpecIInv, NextIsLeaseStep, PTL DEF Spec, ImplementsLeases, Leases!Spec
-----------------------------------------------------------------------------
(* Facts the controllers' proofs share, about the logs of their objects    *)
(* (non-empty sequences of an object's versions, from the cached to the    *)
(* stored one) and their counters of what may still happen.                *)

\* A write of the API server.
LEMMA WrittenLog ==
  ASSUME NEW S, NEW log \in Seq(S), NEW v \in S
  PROVE  Append(log, v) \in Seq(S) /\ Append(log, v) # <<>>
  BY AppendProperties

\* A delivery to the informer leaves the versions after the cached one.
LEMMA DeliveredLog ==
  ASSUME NEW S, NEW log \in Seq(S), Len(log) > 1
  PROVE  Tail(log) \in Seq(S) /\ Tail(log) # <<>>
<1>1. log # <<>>
  OBVIOUS
<1>2. Tail(log) \in Seq(S) /\ Len(Tail(log)) = Len(log) - 1
  BY <1>1, HeadTailProperties
<1>3. Len(log) \in Nat
  OBVIOUS
<1>4. Len(Tail(log)) # 0
  BY <1>2, <1>3
<1> QED
  BY <1>2, <1>4, EmptySeq

\* The cached and the stored version.
LEMMA LogEnds ==
  ASSUME NEW S, NEW log \in Seq(S), log # <<>>
  PROVE  Head(log) \in S /\ Last(log) \in S
<1>1. Len(log) \in Nat \ {0}
  BY EmptySeq
<1> QED
  BY <1>1 DEF Last

\* A write of the API server does not change what the cache holds.
LEMMA WrittenHead ==
  ASSUME NEW S, NEW log \in Seq(S), log # <<>>, NEW v
  PROVE  Head(Append(log, v)) = Head(log)
<1>1. Len(log) \in Nat \ {0}
  BY EmptySeq
<1> QED
  BY <1>1

\* One operation fewer is left.
LEMMA OneLess ==
  ASSUME NEW m \in Nat, NEW n \in 0 .. m, n > 0
  PROVE  n - 1 \in 0 .. m
  OBVIOUS

LEMMA OperationCounted ==
  ASSUME NEW m \in Nat, NEW S, NEW left \in [ops : 0 .. m, faults : S], left.ops > 0
  PROVE  [left EXCEPT !.ops = @ - 1] \in [ops : 0 .. m, faults : S]
<1>1. left.ops - 1 \in 0 .. m
  BY OneLess
<1> QED
  BY <1>1
=============================================================================
