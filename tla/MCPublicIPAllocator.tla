------------------------ MODULE MCPublicIPAllocator ------------------------
(***************************************************************************)
(* Three addresses and two keys, so that a pool can be depleted, a block   *)
(* can be dropped while its addresses are leased, and a service and a      *)
(* floating IP can have the same key.                                      *)
(***************************************************************************)
EXTENDS PublicIPAllocator, TLC

CONSTANTS ip1, ip2, ip3,    \* canonical addresses
          long1,            \* another spelling of ip1
          junk,             \* not an address
          k1, k2,
          left, right, bad  \* a two-address CIDR, a range, a typo

MCIPs == {ip1, ip2, ip3}
MCIPStrings == MCIPs \cup {long1, junk}
MCCanonical == (long1 :> ip1) @@ (junk :> NoIP) @@ [ip \in MCIPs |-> ip]
MCEntries == {left, right, bad}
MCParseCIDR == (left :> <<ip1, ip2>>) @@ (right :> <<ip3>>) @@ (bad :> Malformed)
MCAddresses == {<<>>, <<left>>, <<left, right>>, <<right, bad>>, <<right>>}
MCKeys == {k1, k2}
KeySymmetry == Permutations(MCKeys)
=============================================================================
