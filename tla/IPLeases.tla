------------------------------ MODULE IPLeases ------------------------------
(***************************************************************************)
(* What the public IP allocator promises its callers, with no index and no *)
(* lock: every owner (a service or a floating IP) holds at most one public *)
(* IP, and an IP is granted only while nobody holds it.                    *)
(***************************************************************************)
CONSTANTS
  Owners,   \* the objects a public IP can be leased to
  IPs,      \* the public IPs
  NoIP      \* "holds no IP"

VARIABLE holds

TypeOK == holds \in [Owners -> IPs \cup {NoIP}]

Init == holds = [o \in Owners |-> NoIP]

\* An owner that held another IP gives it up by taking the new one.
Grant(o, ip) ==
  /\ \A p \in Owners : holds[p] # ip
  /\ holds' = [holds EXCEPT ![o] = ip]

Release(o) == holds' = [holds EXCEPT ![o] = NoIP]

\* The pool was replaced: every lease ends.
RevokeAll == holds' = [o \in Owners |-> NoIP]

Next ==
  \/ \E o \in Owners, ip \in IPs : Grant(o, ip)
  \/ \E o \in Owners : Release(o)
  \/ RevokeAll

Spec == Init /\ [][Next]_holds
=============================================================================
