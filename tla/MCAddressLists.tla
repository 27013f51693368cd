--------------------------- MODULE MCAddressLists ---------------------------
(***************************************************************************)
(* Six-bit addresses, of which 16 .. 31 are IPv4: every CIDR and every     *)
(* range of them.                                                          *)
(***************************************************************************)
EXTENDS AddressLists

MCBits == 6
MCBits4 == 4
MCSize == [h \in 0 .. MCBits |-> 2 ^ h]
MCBase4 == 16
MCV4 == 16 .. 31

\* CIDRs are aligned to their size, in one family, and in the family's own form;
\* or IPv4 in the form of IPv6.
MCCIDRs ==
  {c \in [ip : 0 .. 63, host : 0 .. 5, long : BOOLEAN] :
     /\ c.ip % MCSize[c.host] = 0
     /\ c.long <=> c.ip \notin MCV4
     /\ c.long => c.ip .. c.ip + MCSize[c.host] - 1 \cap MCV4 = {}}

MappedCIDRs == {[ip |-> 20, host |-> 2, long |-> TRUE]}

MCRanges ==
  {r \in [first : 0 .. 63, last : 0 .. 63] :
     (r.first \notin MCV4 /\ r.last \notin MCV4) => (r.first < 16 <=> r.last < 16)}
=============================================================================
