---------------------------- MODULE AddressLists ----------------------------
(***************************************************************************)
(* What an entry of a pool lists: parseCIDR makes prefixes of it, with     *)
(* ipaddr.Summarize if it is a range, and an allocation walks them with a  *)
(* cursor until it meets an address that is not used.                      *)
(*                                                                         *)
(* An address is its 16-byte integer; ::ffff:0:0/96 holds the IPv4 ones,   *)
(* which net.IP takes for 4-byte integers.  host is the number of host     *)
(* bits of a prefix, that is, what the code counts as IPv4PrefixLen - n or *)
(* IPv6PrefixLen - n.                                                      *)
(***************************************************************************)
EXTENDS Integers, Sequences

CONSTANTS
  Bits,      \* IPv6PrefixLen
  Bits4,     \* IPv4PrefixLen
  Size,      \* 2^h for each number of host bits h
  Base4,     \* the integer of ::ffff:0.0.0.0
  CIDRs,     \* the CIDRs a pool may list, and
  Ranges     \* the ranges

Address == 0 .. Size[Bits] - 1
IsV4(a) == Base4 <= a /\ a < Base4 + Size[Bits4]

\* A prefix, by its first address; long: its mask has 16 bytes.
Prefixes == [ip : Address, host : 0 .. Bits, long : BOOLEAN]

ASSUME SizeAssumption ==
  /\ Bits \in Nat /\ Bits4 \in 1 .. Bits
  /\ Size \in [0 .. Bits -> Nat \ {0}]
  /\ Size[0] = 1
  /\ \A h \in 0 .. Bits - 1 : Size[h + 1] = 2 * Size[h]
  /\ Base4 \in Nat /\ Base4 + Size[Bits4] <= Size[Bits]

\* net.ParseCIDR masks the address, and gives a CIDR the mask of the form it is
\* written in: ::ffff:a.b.c.d/n lists IPv4 addresses under a 16-byte mask.  An
\* IPv6 entry that runs into the IPv4 block, 2^32 addresses later, is left out.
ASSUME EntryAssumption ==
  /\ CIDRs \subseteq Prefixes
  /\ Ranges \subseteq [first : Address, last : Address]
  /\ \A c \in CIDRs :
       /\ c.ip + Size[c.host] <= Size[Bits]
       /\ ~IsV4(c.ip) => c.long
       /\ IsV4(c.ip) => c.ip + Size[c.host] <= Base4 + Size[Bits4]
       /\ ~IsV4(c.ip) => c.ip + Size[c.host] <= Base4 \/ Base4 + Size[Bits4] <= c.ip
  /\ \A r \in Ranges :
       (~IsV4(r.first) /\ ~IsV4(r.last)) => (r.first < Base4 <=> r.last < Base4)

VARIABLES
  pc,        \* where the code is: Summarize's loops, the cursor's, or done
  first, last, \* the ends of the entry
  fi,        \* the first address not yet in a prefix, as the family's integer
  host,      \* n: host bits of the prefix Summarize is widening
  prefixes,  \* what parseCIDR returns
  pi, curr,  \* the prefix the allocation is at, and its cursor's position
  tried      \* the addresses found used

vars == <<pc, first, last, fi, host, prefixes, pi, curr, tried>>

\* A family's integers start at Base and have Width bits.
Base(a) == IF IsV4(a) THEN Base4 ELSE 0
Width(a) == IF IsV4(a) THEN Bits4 ELSE Bits
EOR(a) == Size[Width(a)] - 1

\* x & mask and x | ^mask, of a mask with h host bits
Low(x, h) == x - (x % Size[h])
High(x, h) == Low(x, h) + Size[h] - 1

\* lastIPv4Int, lastIPv6Int
LastOf(p) == p.ip + Size[p.host] - 1

CursorEnd_Next(p) == LastOf(p) + 1

\* lastIPv4MappedIPv6Int takes the mask for one of 4 bytes: mask32 of a length
\* of more than 32 is 0, and its complement every bit.
CursorEnd(p) == IF IsV4(p.ip) /\ p.long THEN Base4 + Size[Bits4] - 1 ELSE LastOf(p)

\* net.IPNet.Contains: never of an address of the other family
Contains(p, a) == (IsV4(p.ip) <=> IsV4(a)) /\ p.ip <= a /\ a <= LastOf(p)
ContainsIP(a) == \E i \in DOMAIN prefixes : Contains(prefixes[i], a)
-----------------------------------------------------------------------------
(* parseCIDR: a CIDR is a prefix already.                                  *)

InitCIDR(c) ==
  /\ pc = "scan" /\ first = c.ip /\ last = LastOf(c)
  /\ prefixes = <<c>> /\ curr = c.ip

SameFamily_V4(r) == IsV4(r.first) => IsV4(r.last)

\* Summarize returns nothing for a range with ends of different families.
SameFamily(r) == IsV4(r.first) <=> IsV4(r.last)

\* Neither does its loop run for one whose ends are reversed.
InitRange(r) ==
  /\ first = r.first /\ last = r.last
  /\ pc = IF SameFamily(r) /\ r.first <= r.last THEN "widen" ELSE "depleted"
  /\ prefixes = <<>> /\ curr = 0

Init ==
  /\ (\E c \in CIDRs : InitCIDR(c)) \/ (\E r \in Ranges : InitRange(r))
  /\ fi = first - Base(first) /\ host = 0
  /\ pi = 1 /\ tried = {}
-----------------------------------------------------------------------------
(* summarizeIPv4 and summarizeIPv6, on the integers of the range's family. *)

li == last - Base(first)

Fits_Overshoots(h) == Low(fi, h) = fi

\* The inner loop goes on: a prefix twice as long starts at fi and ends by li.
Fits(h) == Low(fi, h) = fi /\ High(fi, h) <= li

Widen ==
  /\ pc = "widen"
  /\ host < Width(first) /\ Fits(host + 1)
  /\ host' = host + 1
  /\ UNCHANGED <<pc, first, last, fi, prefixes, pi, curr, tried>>

NewPrefix_Single ==
  [ip |-> Base(first) + fi, host |-> 0, long |-> ~IsV4(first)]

NewPrefix == [ip |-> Base(first) + Low(fi, host), host |-> host, long |-> ~IsV4(first)]

\* No break at the last address of the family
Emit_NoEOR ==
  /\ pc = "widen"
  /\ ~(host < Width(first) /\ Fits(host + 1))
  /\ prefixes' = Append(prefixes, NewPrefix)
  /\ fi' = LastOf(NewPrefix) - Base(first) + 1
  /\ \/ /\ fi' <= li
        /\ host' = 0
        /\ UNCHANGED <<pc, curr>>
     \/ /\ fi' > li
        /\ pc' = "scan" /\ curr' = prefixes'[1].ip
        /\ UNCHANGED host
  /\ UNCHANGED <<first, last, pi, tried>>

\* It breaks: the prefix is appended, and fi goes on after it unless it ends
\* with the family's last address, which fi++ would wrap to 0.
Emit ==
  /\ pc = "widen"
  /\ ~(host < Width(first) /\ Fits(host + 1))
  /\ prefixes' = Append(prefixes, NewPrefix)
  /\ LET end == LastOf(NewPrefix) - Base(first)
     IN /\ fi' = IF end = EOR(first) THEN end ELSE end + 1
        /\ \/ /\ end # EOR(first) /\ fi' <= li
              /\ host' = 0
              /\ UNCHANGED <<pc, curr>>
           \/ /\ end = EOR(first) \/ fi' > li
              /\ pc' = "scan" /\ curr' = prefixes'[1].ip
              /\ UNCHANGED host
  /\ UNCHANGED <<first, last, pi, tried>>
-----------------------------------------------------------------------------
(* The allocation: a cursor per prefix, First and Next.                    *)

Take ==
  /\ pc = "scan"
  /\ pc' = "found"
  /\ UNCHANGED <<first, last, fi, host, prefixes, pi, curr, tried>>

\* The address is used.
Skip ==
  /\ pc = "scan"
  /\ tried' = tried \cup {curr}
  /\ \/ /\ curr # CursorEnd(prefixes[pi])
        /\ curr' = IF curr = Size[Bits] - 1 THEN 0 ELSE curr + 1
        /\ UNCHANGED <<pc, pi>>
     \/ /\ curr = CursorEnd(prefixes[pi])
        /\ pi < Len(prefixes)
        /\ pi' = pi + 1 /\ curr' = prefixes[pi + 1].ip
        /\ UNCHANGED pc
     \/ /\ curr = CursorEnd(prefixes[pi])
        /\ pi = Len(prefixes)
        /\ pc' = "depleted"
        /\ UNCHANGED <<pi, curr>>
  /\ UNCHANGED <<first, last, fi, host, prefixes>>

Next == Widen \/ Emit \/ Take \/ Skip

Spec == Init /\ [][Next]_vars
-----------------------------------------------------------------------------
(* Properties.                                                             *)

TypeOK ==
  /\ pc \in {"widen", "scan", "found", "depleted"}
  /\ first \in Address /\ last \in Address
  /\ fi \in Address /\ host \in 0 .. Bits
  /\ prefixes \in Seq(Prefixes)
  /\ pi \in Nat \ {0} /\ curr \in Address /\ tried \subseteq Address

\* The addresses an entry means to list.
Listed == IF IsV4(first) <=> IsV4(last) THEN first .. last ELSE {}

\* At every turn of Summarize's loop the prefixes cover the range from its first
\* address up to fi, without a gap or an overlap, and none of it beyond the last.
Tiles ==
  /\ prefixes # <<>> => prefixes[1].ip = first
  /\ \A i \in DOMAIN prefixes :
       i < Len(prefixes) => prefixes[i + 1].ip = LastOf(prefixes[i]) + 1
  /\ \A i \in DOMAIN prefixes : LastOf(prefixes[i]) <= last
  /\ pc = "widen" =>
       Base(first) + fi = IF prefixes = <<>> THEN first ELSE LastOf(prefixes[Len(prefixes)]) + 1

\* Summarize ends after a few prefixes, also for a range that ends with the
\* family's last address, after which fi would start again at 0.
FewPrefixes == Len(prefixes) <= 2 * Width(first)

\* containsIP, which decides on an address that is asked for or shown in a
\* status, accepts the addresses the entry lists and no others.
ContainsListed == pc # "widen" => \A a \in Address : ContainsIP(a) <=> a \in Listed

\* The allocation tries every address the entry lists, each once and in order,
\* and no other: what it hands out passes containsIP at the next sync, and the
\* pool is depleted only when all of it is used.
ScansInOrder ==
  /\ pc \in {"scan", "found"} => curr \in Listed /\ tried = {a \in Listed : a < curr}
  /\ pc = "depleted" => tried = Listed
=============================================================================
