------------------------- MODULE PublicIPAllocator -------------------------
(***************************************************************************)
(* pkg/allocator: the in-memory allocator the three controllers share.     *)
(*                                                                         *)
(* Every exported method is one critical section of p.mutex, except        *)
(* AllocateService/AllocateFloatingIP with a desired IP: containsIP takes  *)
(* and releases the read lock before the write lock is taken.  That call   *)
(* is two actions here, CheckDesiredIP and AllocateIP, and checked[o] is   *)
(* the caller's stack between them.                                        *)
(*                                                                         *)
(* service.go and floatingip.go are the same text over two maps, so an     *)
(* owner is a pair <<kind, key>> and allocated is both maps at once.       *)
(* usedIPs is shared by the two kinds and, as in the code, remembers the   *)
(* key only: a service and a floating IP may have the same key.            *)
(***************************************************************************)
EXTENDS Naturals, Sequences

CONSTANTS
  IPs,         \* the public IPs, each standing for its canonical string
  IPStrings,   \* every non-empty string an object may carry as an IP
  Canonical,   \* net.ParseIP(s).String() of each string, NoIP if malformed
  NoIP,        \* "" : no IP wanted, no IP allocated
  Keys,        \* "namespace/name" keys
  NoKey,       \* no entry in usedIPs
  Entries,     \* the CIDRs and ranges a pool may list
  Addresses,   \* the publicAddresses lists a pool may have
  ParseCIDR,   \* the addresses of each entry in cursor order, or Malformed
  Malformed    \* parseCIDR returned an error

ASSUME IPAssumption ==
  /\ IPs \subseteq IPStrings
  /\ NoIP \notin IPStrings
  /\ Canonical \in [IPStrings -> IPs \cup {NoIP}]
  /\ \A ip \in IPs : Canonical[ip] = ip

ASSUME KeyAssumption == NoKey \notin Keys

ASSUME EntryAssumption ==
  /\ Addresses \subseteq Seq(Entries)
  /\ \A e \in Entries : ParseCIDR[e] = Malformed \/ ParseCIDR[e] \in Seq(IPs)

VARIABLES
  nets,        \* the blocks of the loaded pool, in order
  usedIPs,     \* the key recorded for each IP
  allocated,   \* allocatedServices and allocatedFloatingIPs
  checked      \* the desired IP of a call between its two critical sections

allocVars == <<nets, usedIPs, allocated, checked>>

Kinds == {"Service", "FloatingIP"}
Owners == Kinds \X Keys
KeyOf(o) == o[2]

TypeOK ==
  /\ nets \in Seq(Seq(IPs))
  /\ usedIPs \in [IPs -> Keys \cup {NoKey}]
  /\ allocated \in [Owners -> IPs \cup {NoIP}]
  /\ checked \in [Owners -> IPs \cup {NoIP}]

Init ==
  /\ nets = <<>>
  /\ usedIPs = [ip \in IPs |-> NoKey]
  /\ allocated = [o \in Owners |-> NoIP]
  /\ checked = [o \in Owners |-> NoIP]
-----------------------------------------------------------------------------
(* The pool.                                                               *)

ContainsIP(ip) ==
  \E i \in DOMAIN nets : \E j \in DOMAIN nets[i] : nets[i][j] = ip

Parses(addresses) == \A i \in DOMAIN addresses : ParseCIDR[addresses[i]] # Malformed

TargetNets(addresses) == [i \in DOMAIN addresses |-> ParseCIDR[addresses[i]]]

UpdateIPPool_Unparsed(addresses) ==
  /\ nets' = TargetNets(addresses)
  /\ usedIPs' = [ip \in IPs |-> NoKey]
  /\ allocated' = [o \in Owners |-> NoIP]
  /\ UNCHANGED checked

UpdateIPPool_ForgetsUsed(addresses) ==
  /\ Parses(addresses)
  /\ nets' = TargetNets(addresses)
  /\ usedIPs' = [ip \in IPs |-> NoKey]
  /\ UNCHANGED <<allocated, checked>>

\* All maps are emptied with the pool; a malformed entry leaves everything as
\* it was.  The separate branch for an empty list has the same effect.
UpdateIPPool(addresses) ==
  \/ /\ Parses(addresses)
     /\ nets' = TargetNets(addresses)
     /\ usedIPs' = [ip \in IPs |-> NoKey]
     /\ allocated' = [o \in Owners |-> NoIP]
     /\ UNCHANGED checked
  \/ /\ ~Parses(addresses)
     /\ UNCHANGED allocVars
-----------------------------------------------------------------------------
(* Allocation and release, for either kind of owner.                       *)

Lease(o, ip) ==
  /\ allocated' = [allocated EXCEPT ![o] = ip]
  /\ usedIPs' = [usedIPs EXCEPT ![ip] = KeyOf(o)]

\* net.ParseIP or containsIP turns the desired IP down.
Rejected(s) == Canonical[s] = NoIP \/ ~ContainsIP(Canonical[s])

CheckDesiredIP(o, s) ==
  /\ checked[o] = NoIP
  /\ ~Rejected(s)
  /\ checked' = [checked EXCEPT ![o] = Canonical[s]]
  /\ UNCHANGED <<nets, usedIPs, allocated>>

AllocateIP_Unguarded(o) ==
  /\ checked[o] # NoIP
  /\ Lease(o, checked[o])
  /\ checked' = [checked EXCEPT ![o] = NoIP]
  /\ UNCHANGED nets

\* The call's second critical section.  It succeeded iff allocated'[o] is the
\* desired IP.  An IP the owner held before stays in usedIPs.
AllocateIP(o) ==
  /\ checked[o] # NoIP
  /\ \/ /\ allocated[o] # checked[o]
        /\ usedIPs[checked[o]] = NoKey
        /\ Lease(o, checked[o])
     \/ /\ allocated[o] = checked[o] \/ usedIPs[checked[o]] # NoKey
        /\ UNCHANGED <<usedIPs, allocated>>
  /\ checked' = [checked EXCEPT ![o] = NoIP]
  /\ UNCHANGED nets

\* Position <<i, j>> is the first one of the pool that is not in use.
FirstUnused(i, j) ==
  /\ usedIPs[nets[i][j]] = NoKey
  /\ \A m \in 1 .. i : \A n \in DOMAIN nets[m] :
       (m < i \/ n < j) => usedIPs[nets[m][n]] # NoKey

Depleted == \A i \in DOMAIN nets : \A j \in DOMAIN nets[i] : usedIPs[nets[i][j]] # NoKey

\* Returns allocated'[o], or an error if that is NoIP.
AllocateFromPool(o) ==
  /\ checked[o] = NoIP
  /\ \/ /\ allocated[o] = NoIP
        /\ \E i \in DOMAIN nets : \E j \in DOMAIN nets[i] :
             FirstUnused(i, j) /\ Lease(o, nets[i][j])
     \/ /\ allocated[o] # NoIP \/ Depleted
        /\ UNCHANGED <<usedIPs, allocated>>
  /\ UNCHANGED <<nets, checked>>

Free_ByKey(o) ==
  /\ checked[o] = NoIP
  /\ usedIPs' = [ip \in IPs |-> IF usedIPs[ip] = KeyOf(o) THEN NoKey ELSE usedIPs[ip]]
  /\ allocated' = [allocated EXCEPT ![o] = NoIP]
  /\ UNCHANGED <<nets, checked>>

Free(o) ==
  /\ checked[o] = NoIP
  /\ \/ /\ allocated[o] # NoIP
        /\ usedIPs' = [usedIPs EXCEPT ![allocated[o]] = NoKey]
        /\ allocated' = [allocated EXCEPT ![o] = NoIP]
     \/ /\ allocated[o] = NoIP
        /\ UNCHANGED <<usedIPs, allocated>>
  /\ UNCHANGED <<nets, checked>>
-----------------------------------------------------------------------------
(* The methods under their names.                                          *)

Service(key) == <<"Service", key>>
FloatingIP(key) == <<"FloatingIP", key>>

AllocateServiceIP(key) == AllocateIP(Service(key))
AllocateServiceIPFromPool(key) == AllocateFromPool(Service(key))
FreeService(key) == Free(Service(key))

AllocateFloatingIP(key) == AllocateIP(FloatingIP(key))
AllocateFloatingIPFromPool(key) == AllocateFromPool(FloatingIP(key))
FreeFloatingIP(key) == Free(FloatingIP(key))

\* The process is killed and started again: the allocator is in memory only.
Crash ==
  /\ nets' = <<>>
  /\ usedIPs' = [ip \in IPs |-> NoKey]
  /\ allocated' = [o \in Owners |-> NoIP]
  /\ checked' = [o \in Owners |-> NoIP]
-----------------------------------------------------------------------------
(* The allocator under any client whose calls for one owner do not overlap *)
(* (a work queue never hands out a key that is being processed).           *)

DesiredIPCheck == \E o \in Owners, s \in IPStrings : CheckDesiredIP(o, s)

ServiceCall ==
  \E key \in Keys :
    \/ AllocateServiceIP(key)
    \/ AllocateServiceIPFromPool(key)
    \/ FreeService(key)

FloatingIPCall ==
  \E key \in Keys :
    \/ AllocateFloatingIP(key)
    \/ AllocateFloatingIPFromPool(key)
    \/ FreeFloatingIP(key)

PoolCall == \E addresses \in Addresses : UpdateIPPool(addresses)

Next == DesiredIPCheck \/ ServiceCall \/ FloatingIPCall \/ PoolCall \/ Crash

Spec == Init /\ [][Next]_allocVars
-----------------------------------------------------------------------------
(* Properties.                                                             *)

\* usedIPs never loses a lease: the IP recorded for a service or floating IP
\* is marked used, under that object's key (the "[FIXME] key != p.used[prevIP]"
\* branch of allocateServiceIPFromPool is dead).
UsedByOwner ==
  \A o \in Owners : allocated[o] # NoIP => usedIPs[allocated[o]] = KeyOf(o)

\* No public IP is leased twice, not even to a service and a floating IP of
\* the same namespace and name, which share their usedIPs entries.
ExclusiveLease ==
  \A o, p \in Owners : (o # p /\ allocated[o] # NoIP) => allocated[o] # allocated[p]

\* The two maps, the index and the pool together implement the lease table.
Leases == INSTANCE IPLeases WITH holds <- allocated
ImplementsLeases == Leases!Spec
=============================================================================
