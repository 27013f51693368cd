----------------------------- MODULE MCStoneLB -----------------------------
(***************************************************************************)
(* The whole process on two addresses and at most two objects.  Specs ask  *)
(* for an address, or (in AnyString) also for a second spelling of ip1 or  *)
(* for junk.  left can be edited into left and right, and back, or into    *)
(* nothing, so that addresses come and go under the leases; torn does not  *)
(* parse.                                                                  *)
(***************************************************************************)
EXTENDS StoneLB, TLC

CONSTANTS ip1, ip2, long1, junk, left, right, torn, k1, k2

MCIPs == {ip1, ip2}
AnyString == MCIPs \cup {long1, junk}
MCCanonical == [ip \in MCIPs |-> ip]
AnyCanonical == (long1 :> ip1) @@ (junk :> NoIP) @@ MCCanonical
MCParseCIDR == (left :> <<ip1>>) @@ (right :> <<ip2>>)
MCEntries == {left, right}
MCAddresses == {<<>>, <<left>>, <<left, right>>}
TornEntries == MCEntries \cup {torn}
TornParseCIDR == (torn :> Malformed) @@ MCParseCIDR
TornAddresses == MCAddresses \cup {<<torn>>}
NewPool == [addresses |-> <<left>>, generation |-> 1, observed |-> 0]
NewService == [lb |-> TRUE, want |-> NoIP, status |-> NoIngress]
NewFip == [want |-> NoIP, status |-> NoIP]
NewOrNoFips == {NewFip, NoFloatingIP}
OnlyNewFips == {NewFip}
TwoIPPools == {[NewPool EXCEPT !.addresses = <<left, right>>]}
OnlyNewPool == {NewPool}
NewOrAnnounced ==
  {[NewPool EXCEPT !.addresses = <<left, right>>], [NewPool EXCEPT !.observed = 1]}
AnnouncedPools == {[NewPool EXCEPT !.observed = 1]}
NewOrNoServices == {NewService, NoService}
OnlyNewServices == {NewService}
ServiceOnly == {"Service"}
FloatingIPOnly == {"FloatingIP"}
Both == {"Service", "FloatingIP"}
=============================================================================
