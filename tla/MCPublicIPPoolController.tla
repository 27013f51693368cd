---------------------- MODULE MCPublicIPPoolController ----------------------
(***************************************************************************)
(* The pool controller alone: lists that differ, one empty, one with an    *)
(* entry that does not parse.  No key is needed, the leases are not the    *)
(* question here.                                                          *)
(***************************************************************************)
EXTENDS PublicIPPoolController, TLC

CONSTANTS ip1, ip2, left, right, bad, k1

MCIPs == {ip1, ip2}
MCCanonical == [ip \in MCIPs |-> ip]
MCParseCIDR == (left :> <<ip1, ip2>>) @@ (right :> <<ip2>>) @@ (bad :> Malformed)
MCEntries == {left, right, bad}
MCAddresses == {<<>>, <<left>>, <<right, bad>>}
NoPools == {NoPool}
MCKeys == {k1}
=============================================================================
