------------------------- MODULE AddressListsProofs -------------------------
(***************************************************************************)
(* Address lists of any width: what Summarize returns covers the range and *)
(* nothing else, and the allocation tries exactly its addresses, in order. *)
(***************************************************************************)
EXTENDS AddressLists, TLAPS

\* No CIDR of IPv4 addresses has a mask of 16 bytes.
PlainCIDRs == \A c \in CIDRs : IsV4(c.ip) => ~c.long

\* The two ends are of one family, and so is what lies between them.
OneFamily ==
  /\ first <= last
  /\ IsV4(first) <=> IsV4(last)
  /\ ~IsV4(first) => (first < Base4 <=> last < Base4)

\* While Summarize widens a prefix, it starts at fi and does not pass the end.
Widening ==
  pc = "widen" =>
    /\ OneFamily /\ pi = 1 /\ tried = {}
    /\ Base(first) + fi <= last
    /\ Low(fi, host) = fi /\ fi + Size[host] - 1 <= li

\* The prefixes lie in the range, and in its family.
Within ==
  \A i \in DOMAIN prefixes :
    /\ first <= prefixes[i].ip
    /\ prefixes[i].long <=> ~IsV4(first)

\* Every address up to where Summarize is lies in one of them.
Done == IF pc = "widen" THEN Base(first) + fi - 1 ELSE last
Covers ==
  prefixes # <<>> =>
    \A a \in Address : (first <= a /\ a <= Done) =>
      \E i \in DOMAIN prefixes : prefixes[i].ip <= a /\ a <= LastOf(prefixes[i])

\* The list is complete, and the cursor is in its current prefix.
Scanning ==
  /\ pc \in {"scan", "found"} =>
       /\ pi \in DOMAIN prefixes
       /\ prefixes[pi].ip <= curr /\ curr <= LastOf(prefixes[pi])
       /\ tried = first .. curr - 1
  /\ pc = "depleted" => tried = Listed
  /\ pc # "widen" =>
       \/ prefixes = <<>> /\ pc = "depleted" /\ Listed = {}
       \/ prefixes # <<>> /\ OneFamily /\ LastOf(prefixes[Len(prefixes)]) = last

ListInv == TypeOK /\ Widening /\ Tiles /\ Within /\ Covers /\ Scanning
-----------------------------------------------------------------------------
\* Facts about sizes and prefixes that every step uses.
LEMMA Sizes ==
  /\ Bits \in Nat /\ Bits4 \in Nat /\ Bits4 <= Bits /\ Base4 \in Nat
  /\ \A h \in 0 .. Bits : Size[h] \in Nat /\ Size[h] > 0
  /\ Size[Bits] \in Nat /\ Size[Bits4] \in Nat /\ Size[Bits] > 0 /\ Size[Bits4] > 0
  /\ Base4 + Size[Bits4] <= Size[Bits]
  /\ Size[0] = 1
BY SizeAssumption

LEMMA LastOfType ==
  ASSUME NEW p \in Prefixes
  PROVE  /\ p.ip \in Nat /\ p.host \in 0 .. Bits /\ p.long \in BOOLEAN
         /\ LastOf(p) \in Nat /\ p.ip <= LastOf(p)
BY Sizes DEF Prefixes, Address, LastOf

\* An address between two of one family is of that family.
LEMMA Between ==
  ASSUME TypeOK, OneFamily, NEW a \in Int, first <= a, a <= last
  PROVE  (IsV4(a) <=> IsV4(first)) /\ a \in Address
BY Sizes DEF TypeOK, OneFamily, IsV4, Address

\* The family's integers.
LEMMA Families ==
  ASSUME TypeOK, OneFamily
  PROVE  /\ Base(first) \in Nat /\ Width(first) \in 0 .. Bits
         /\ Base(first) <= first /\ li \in Nat
         /\ EOR(first) \in Nat /\ li <= EOR(first)
         /\ Base(first) + li = last
         /\ Base(first) + EOR(first) < Size[Bits]
<1>1. first \in Nat /\ last \in Nat /\ first <= last /\ last < Size[Bits]
  BY Sizes DEF TypeOK, OneFamily, Address
<1>2. CASE IsV4(first)
  <2>1. Base4 <= first /\ last < Base4 + Size[Bits4]
    BY <1>2 DEF OneFamily, IsV4
  <2>2. Base(first) = Base4 /\ Width(first) = Bits4
    BY <1>2 DEF Base, Width
  <2> QED
    BY <1>1, <2>1, <2>2, Sizes DEF EOR, li
<1>3. CASE ~IsV4(first)
  BY <1>1, <1>3, Sizes DEF Base, Width, EOR, li
<1> QED
  BY <1>2, <1>3

LEMMA InitList ==
  ASSUME PlainCIDRs
  PROVE  Init => ListInv
<1> SUFFICES ASSUME Init PROVE ListInv
  OBVIOUS
<1>1. ASSUME NEW c \in CIDRs, InitCIDR(c) PROVE ListInv
  <2>1. /\ c \in Prefixes /\ c.ip + Size[c.host] <= Size[Bits]
        /\ c.long <=> ~IsV4(c.ip)
        /\ c.ip \in Nat /\ Size[c.host] \in Nat /\ Size[c.host] > 0
        /\ LastOf(c) = c.ip + Size[c.host] - 1
    BY EntryAssumption, Sizes, LastOfType DEF PlainCIDRs, Prefixes, LastOf
  <2>2. OneFamily
    BY <1>1, <2>1, EntryAssumption, Sizes DEF InitCIDR, OneFamily, IsV4, LastOf
  <2>3. first \in Address /\ last \in Address /\ fi \in Address
    BY <1>1, <2>1, Sizes DEF InitCIDR, Init, Address, Base, IsV4
  <2>4. TypeOK
    BY <1>1, <2>1, <2>3, Sizes DEF InitCIDR, Init, TypeOK, Address
  <2>5. Listed = first .. last
    BY <2>2 DEF OneFamily, Listed
  <2>6. Scanning
    <3>1. tried = first .. curr - 1
      BY <1>1, <2>1 DEF InitCIDR, Init
    <3> QED
      BY <3>1, <1>1, <2>1, <2>2 DEF InitCIDR, Init, Scanning
  <2>7. Covers
    BY <1>1, <2>1 DEF InitCIDR, Covers, Done
  <2> QED
    BY <1>1, <2>1, <2>4, <2>6, <2>7 DEF InitCIDR, ListInv, Widening, Tiles, Within
<1>2. ASSUME NEW r \in Ranges, InitRange(r) PROVE ListInv
  <2>1. /\ first \in Address /\ last \in Address
        /\ (~IsV4(first) /\ ~IsV4(last)) => (first < Base4 <=> last < Base4)
    BY <1>2, EntryAssumption DEF InitRange
  <2>2. fi \in Address
    BY <2>1, Sizes DEF Init, Address, Base, IsV4
  <2>3. TypeOK
    BY <1>2, <2>1, <2>2, Sizes DEF InitRange, Init, TypeOK, Address
  <2>4. prefixes = <<>> /\ tried = {} /\ host = 0 /\ Base(first) + fi = first
    BY <1>2, <2>1, Sizes DEF InitRange, Init, Base, Address
  <2>5. Widening
    <3> SUFFICES ASSUME pc = "widen" PROVE Widening
      BY DEF Widening
    <3>1. OneFamily
      BY <1>2, <2>1 DEF InitRange, SameFamily, OneFamily
    <3>2. fi % 1 = 0
      BY <2>2 DEF Address
    <3>3. Low(fi, host) = fi
      BY <2>2, <2>4, <3>2, Sizes DEF Low, Address
    <3> QED
      <4>1. /\ Base(first) \in Nat /\ li \in Nat /\ Base(first) + li = last
            /\ first \in Nat /\ last \in Nat /\ fi \in Nat /\ first <= last
        <5>1. first <= last
          BY <3>1 DEF OneFamily
        <5>2. /\ Base(first) \in Nat /\ li \in Nat /\ Base(first) + li = last
          BY <2>3, <3>1, Families
        <5> QED
          BY <2>1, <2>2, <5>1, <5>2, Sizes DEF Address
      <4>2. Base(first) + fi <= last /\ fi + Size[host] - 1 <= li
        BY <2>4, <4>1, Sizes
      <4>3. pi = 1 /\ tried = {}
        BY DEF Init
      <4> QED
        BY <3>1, <3>3, <4>2, <4>3 DEF Widening
  <2>6. Scanning
    <3> SUFFICES ASSUME pc # "widen" PROVE Scanning
      BY <1>2 DEF Scanning, InitRange
    <3>1. pc = "depleted" /\ ~(SameFamily(r) /\ first <= last)
      BY <1>2 DEF InitRange
    <3>2. Listed = {}
      BY <1>2, <2>1, <3>1 DEF InitRange, SameFamily, Listed, Address
    <3> QED
      BY <2>4, <3>1, <3>2 DEF Scanning
  <2> QED
    BY <1>2, <2>3, <2>4, <2>5, <2>6 DEF ListInv, Tiles, Within, Covers
<1> QED
  BY <1>1, <1>2 DEF Init

LEMMA WidenList == ListInv /\ Widen => ListInv'
<1> SUFFICES ASSUME ListInv, Widen PROVE ListInv'
  OBVIOUS
<1>0. TypeOK /\ OneFamily
  BY DEF ListInv, Widening, Widen
<1>1. host + 1 \in 0 .. Bits /\ Size[host + 1] \in Nat /\ fi \in Nat /\ OneFamily
  <2>1. Width(first) \in 0 .. Bits
    BY <1>0, Families
  <2>2. host \in 0 .. Bits /\ fi \in Nat
    BY <1>0, Sizes DEF TypeOK, Address
  <2> QED
    BY <1>0, <2>1, <2>2, Sizes DEF Widen
<1>2. TypeOK'
  BY <1>1 DEF ListInv, TypeOK, Widen, Address
<1>3. Widening'
  <2>1. Low(fi, host') = fi /\ fi + Size[host'] - 1 <= li
    BY <1>1 DEF Widen, Fits, High
  <2> QED
    BY <2>1 DEF ListInv, Widening, Widen, OneFamily, li, Low, IsV4, Base
<1>4. Tiles' /\ Within'
  BY DEF ListInv, Widen, Tiles, Within, LastOf, IsV4, Base
<1>5. Covers'
  BY DEF ListInv, Widen, Covers, Done, LastOf, IsV4, Base
<1>6. Scanning'
  BY DEF ListInv, Widen, Scanning
<1> QED
  BY <1>2, <1>3, <1>4, <1>5, <1>6 DEF ListInv

\* What the list becomes when a prefix is appended.
LEMMA EmitList == ListInv /\ Emit => ListInv'
<1> SUFFICES ASSUME ListInv, Emit PROVE ListInv'
  OBVIOUS
<1> DEFINE p == NewPrefix
           n == Len(prefixes)
           end == LastOf(p) - Base(first)
<1>1. /\ prefixes' = Append(prefixes, p) /\ prefixes' # <<>>
      /\ Len(prefixes') = n + 1 /\ DOMAIN prefixes' = 1 .. n + 1 /\ DOMAIN prefixes = 1 .. n
      /\ n \in Nat
      /\ \A i \in 1 .. n : prefixes'[i] = prefixes[i]
      /\ prefixes'[n + 1] = p
  BY DEF ListInv, TypeOK, Emit
<1>n. n \in Nat
  BY <1>1
<1>t. TypeOK /\ OneFamily /\ Low(fi, host) = fi /\ fi + Size[host] - 1 <= li
  BY DEF ListInv, Widening, Emit
<1>2. /\ fi \in Nat /\ host \in 0 .. Bits /\ Size[host] \in Nat /\ Size[host] > 0
      /\ first \in Nat /\ last \in Nat /\ last < Size[Bits] /\ Size[Bits] \in Nat
  BY <1>t, Sizes DEF TypeOK, Address
<1>b. /\ Base(first) \in Nat /\ Base(first) <= first
      /\ li \in Nat /\ Base(first) + li = last
      /\ EOR(first) \in Nat /\ li <= EOR(first) /\ Base(first) + EOR(first) < Size[Bits]
  BY <1>t, Families
<1>3. /\ p \in Prefixes /\ p.ip = Base(first) + fi /\ p.host = host
      /\ p.long <=> ~IsV4(first)
      /\ LastOf(p) = Base(first) + fi + Size[host] - 1
      /\ LastOf(p) <= last /\ end = fi + Size[host] - 1 /\ end <= li /\ end \in Nat
  <2>1. p.ip = Base(first) + fi /\ p.host = host /\ p.long = ~IsV4(first)
    BY <1>t DEF NewPrefix
  <2>2. p = [ip |-> Base(first) + fi, host |-> host, long |-> ~IsV4(first)]
    BY <1>t DEF NewPrefix
  <2>3. Base(first) + fi \in Address
    BY <1>t, <1>2, <1>b DEF Address
  <2>b. (~IsV4(first)) \in BOOLEAN
    OBVIOUS
  <2>4. p \in Prefixes
    BY <1>2, <2>2, <2>3, <2>b DEF Prefixes
  <2>5. LastOf(p) = Base(first) + fi + Size[host] - 1
    BY <2>1 DEF LastOf
  <2>6. LastOf(p) <= last /\ end = fi + Size[host] - 1 /\ end <= li /\ end \in Nat
    BY <1>t, <1>2, <1>b, <2>5
  <2> QED
    BY <2>1, <2>4, <2>5, <2>6
<1>4. UNCHANGED <<first, last, pi, tried>>
  BY DEF Emit
<1>5. \/ pc' = "widen" /\ fi' = end + 1 /\ host' = 0 /\ end + 1 <= li /\ curr' = curr
      \/ /\ pc' = "scan" /\ curr' = prefixes'[1].ip /\ end = li /\ host' = host
         /\ fi' \in {end, end + 1} /\ fi' <= EOR(first)
  <2>1. /\ fi' = IF end = EOR(first) THEN end ELSE end + 1
        /\ \/ /\ end # EOR(first) /\ fi' <= li
              /\ host' = 0
              /\ UNCHANGED <<pc, curr>>
           \/ /\ end = EOR(first) \/ fi' > li
              /\ pc' = "scan" /\ curr' = prefixes'[1].ip
              /\ UNCHANGED host
    BY DEF Emit
  <2>2. pc = "widen"
    BY DEF Emit
  <2> QED
    BY <1>b, <1>3, <2>1, <2>2
<1>6. first = prefixes'[1].ip
  BY <1>1, <1>3 DEF ListInv, Tiles, Emit
<1>7. TypeOK'
  <2>1. prefixes' \in Seq(Prefixes)
    BY <1>1, <1>3, <1>t DEF TypeOK
  <2>2. fi' \in Address /\ host' \in 0 .. Bits
    BY <1>2, <1>b, <1>3, <1>5, Sizes DEF Address
  <2>3. curr' \in Address /\ pc' \in {"widen", "scan"}
    BY <1>5, <1>6, <1>t DEF TypeOK
  <2> QED
    BY <1>4, <1>t, <2>1, <2>2, <2>3 DEF TypeOK
<1>8. Widening'
  <2>1. CASE pc' = "widen"
    <3>1. fi' % 1 = 0 /\ fi' \in Nat
      BY <1>2, <1>3, <1>5, <2>1
    <3>2. Low(fi', host') = fi'
      BY <1>5, <2>1, <3>1, Sizes DEF Low
    <3>3. Base(first)' = Base(first) /\ li' = li /\ OneFamily'
      BY <1>4, <1>t DEF OneFamily, li, Base, IsV4
    <3>4. fi' <= li /\ Base(first) + fi' <= last
      BY <1>5, <1>2, <1>b, <1>3, <2>1, <3>1
    <3>5. fi' + Size[host'] - 1 <= li
      BY <1>5, <2>1, <3>1, <3>4, Sizes
    <3>6. pi' = 1 /\ tried' = {}
      BY <1>4 DEF ListInv, Widening, Emit
    <3> QED
      BY <1>4, <3>2, <3>3, <3>4, <3>5, <3>6 DEF Widening
  <2> QED
    BY <1>5, <2>1 DEF Widening
<1>f. Base(first)' = Base(first) /\ IsV4(first)' = IsV4(first) /\ OneFamily'
  BY <1>4, <1>t DEF Base, IsV4, OneFamily
<1>m. pc = "widen"
  BY DEF Emit
<1>9. Tiles'
  <2>1. prefixes # <<>> => n \in 1 .. n /\ prefixes'[n] = prefixes[n]
    <3>1. prefixes # <<>> => n > 0
      BY <1>t DEF TypeOK
    <3>2. n > 0 => n \in 1 .. n
      BY <1>n
    <3> QED
      BY <1>1, <3>1, <3>2
  <2>2. prefixes # <<>> => p.ip = LastOf(prefixes[n]) + 1
    BY <1>m, <1>3 DEF ListInv, Tiles
  <2>3. ASSUME NEW i \in 1 .. n + 1, i < n + 1
        PROVE  prefixes'[i + 1].ip = LastOf(prefixes'[i]) + 1
    <3>1. CASE i < n
      BY <1>1, <2>3, <3>1 DEF ListInv, Tiles
    <3>2. CASE i = n
      <4>1. prefixes # <<>>
        BY <1>1, <2>3, <3>2
      <4> QED
        BY <1>1, <2>1, <2>2, <3>2, <4>1
    <3>3. i < n \/ i = n
      BY <1>n, <2>3
    <3> QED
      BY <3>1, <3>2, <3>3
  <2>4. ASSUME NEW i \in 1 .. n + 1 PROVE LastOf(prefixes'[i]) <= last
    <3>1. CASE i \in 1 .. n
      BY <1>1, <3>1 DEF ListInv, Tiles
    <3>2. CASE i = n + 1
      BY <1>1, <1>3, <3>2
    <3> QED
      BY <1>1, <3>1, <3>2
  <2>5. pc' = "widen" => Base(first) + fi' = LastOf(prefixes'[n + 1]) + 1
    <3>1. pc' = "widen" => fi' = LastOf(p) - Base(first) + 1
      BY <1>5
    <3>2. prefixes'[n + 1] = p
      BY <1>1
    <3>3. LastOf(p) \in Int
      BY <1>2, <1>b, <1>3
    <3> QED
      BY <1>b, <3>1, <3>2, <3>3
  <2> QED
    BY <1>1, <1>4, <1>6, <1>f, <2>3, <2>4, <2>5 DEF Tiles, LastOf
<1>10. Within'
  <2>1. first <= p.ip
    <3>1. CASE prefixes = <<>>
      BY <1>m, <1>2, <1>3, <3>1 DEF ListInv, Tiles
    <3>2. CASE prefixes # <<>>
      <4>1. n \in 1 .. n /\ prefixes[n] \in Prefixes
        BY <1>1, <1>t, <3>2 DEF TypeOK
      <4>2. first <= prefixes[n].ip /\ p.ip = LastOf(prefixes[n]) + 1
        BY <1>m, <1>1, <1>3, <3>2, <4>1 DEF ListInv, Within, Tiles
      <4> QED
        BY <1>2, <1>3, <4>1, <4>2, LastOfType
    <3> QED
      BY <3>1, <3>2
  <2>2. ASSUME NEW i \in 1 .. n + 1
        PROVE  first <= prefixes'[i].ip /\ (prefixes'[i].long <=> ~IsV4(first))
    <3>1. CASE i \in 1 .. n
      BY <1>1, <3>1 DEF ListInv, Within
    <3>2. CASE i = n + 1
      BY <1>1, <1>3, <2>1, <3>2
    <3> QED
      BY <1>1, <3>1, <3>2
  <2> QED
    BY <1>1, <1>4, <1>f, <2>2 DEF Within
<1>11. Covers'
  <2>1. Done' = LastOf(p)
    BY <1>2, <1>b, <1>3, <1>4, <1>5, <1>f DEF Done
  <2> SUFFICES ASSUME NEW a \in Address, first <= a, a <= LastOf(p)
               PROVE  \E i \in 1 .. n + 1 : prefixes'[i].ip <= a /\ a <= LastOf(prefixes'[i])
    BY <1>1, <1>4, <2>1 DEF Covers, LastOf
  <2>2. CASE p.ip <= a
    BY <1>1, <2>2
  <2>3. CASE ~(p.ip <= a)
    <3>1. prefixes # <<>>
      BY <1>m, <1>3, <2>3 DEF ListInv, Tiles
    <3>2. a <= Base(first) + fi - 1
      BY <1>2, <1>b, <1>3, <2>3, Sizes DEF Address
    <3>3. PICK i \in 1 .. n : prefixes[i].ip <= a /\ a <= LastOf(prefixes[i])
      BY <1>m, <1>1, <3>1, <3>2 DEF ListInv, Covers, Done
    <3> QED
      BY <1>1, <3>3
  <2> QED
    BY <2>2, <2>3
<1>12. Scanning'
  <2>1. CASE pc' = "widen"
    BY <2>1 DEF Scanning
  <2>2. CASE pc' = "scan"
    <3>1. LastOf(prefixes'[n + 1]) = last
      BY <1>1, <1>2, <1>b, <1>3, <1>5, <2>2
    <3>2. tried' = {} /\ pi' = 1
      BY <1>m, <1>4 DEF ListInv, Widening
    <3>3. prefixes'[1] \in Prefixes
      BY <1>1, <1>7 DEF TypeOK
    <3>4. 1 \in DOMAIN prefixes' /\ curr' = prefixes'[1].ip /\ curr' <= LastOf(prefixes'[1])
      BY <1>1, <1>5, <2>2, <3>3, LastOfType
    <3>5. tried' = first' .. curr' - 1
      BY <1>2, <1>4, <1>6, <3>2, <3>4
    <3> QED
      BY <1>1, <1>3, <1>f, <1>4, <2>2, <3>1, <3>2, <3>3, <3>4, <3>5, LastOfType DEF Scanning, LastOf
  <2> QED
    BY <1>5, <1>m, <2>1, <2>2
<1> QED
  BY <1>7, <1>8, <1>9, <1>10, <1>11, <1>12 DEF ListInv

LEMMA TakeList == ListInv /\ Take => ListInv'
<1> SUFFICES ASSUME ListInv, Take PROVE ListInv'
  OBVIOUS
<1>1. /\ UNCHANGED <<first, last, fi, host, prefixes, pi, curr, tried>>
      /\ pc = "scan" /\ pc' = "found"
  BY DEF Take
<1>2. TypeOK' /\ Widening' /\ Tiles' /\ Within'
  BY <1>1 DEF ListInv, TypeOK, Widening, Tiles, Within, LastOf, IsV4
<1>3. Covers'
  BY <1>1 DEF ListInv, Covers, Done, LastOf
<1>4. Scanning'
  BY <1>1 DEF ListInv, Scanning, OneFamily, Listed, LastOf, IsV4
<1> QED
  BY <1>2, <1>3, <1>4 DEF ListInv

\* Where the cursor stands: in its prefix, whose last address is where it turns.
LEMMA CursorInPrefix ==
  ASSUME ListInv, pc = "scan"
  PROVE  /\ pi \in 1 .. Len(prefixes) /\ prefixes[pi] \in Prefixes
         /\ CursorEnd(prefixes[pi]) = LastOf(prefixes[pi])
         /\ prefixes[pi].ip <= curr /\ curr <= LastOf(prefixes[pi])
         /\ LastOf(prefixes[pi]) <= last /\ first <= prefixes[pi].ip
         /\ prefixes # <<>> /\ OneFamily /\ LastOf(prefixes[Len(prefixes)]) = last
         /\ tried = first .. curr - 1 /\ Listed = first .. last
         /\ first \in Nat /\ last \in Nat /\ curr \in Nat /\ last < Size[Bits]
<1>1. /\ pi \in DOMAIN prefixes /\ tried = first .. curr - 1
      /\ prefixes[pi].ip <= curr /\ curr <= LastOf(prefixes[pi])
      /\ prefixes # <<>> /\ OneFamily /\ LastOf(prefixes[Len(prefixes)]) = last
  BY DEF ListInv, Scanning
<1>2. /\ LastOf(prefixes[pi]) <= last /\ first <= prefixes[pi].ip
      /\ prefixes[pi].long <=> ~IsV4(first)
  BY <1>1 DEF ListInv, Tiles, Within
<1>3. TypeOK
  BY DEF ListInv
<1>4. pi \in 1 .. Len(prefixes) /\ prefixes[pi] \in Prefixes
  BY <1>1, <1>3 DEF TypeOK
<1>5. first \in Nat /\ last \in Nat /\ curr \in Nat /\ last < Size[Bits]
  BY <1>3, Sizes DEF TypeOK, Address
<1>6. IsV4(prefixes[pi].ip) <=> IsV4(first)
  <2>1. prefixes[pi].ip \in Int /\ prefixes[pi].ip <= last
    BY <1>2, <1>4, <1>5, LastOfType
  <2> QED
    BY <1>1, <1>2, <1>3, <2>1, Between
<1>7. Listed = first .. last
  BY <1>1 DEF OneFamily, Listed
<1> QED
  BY <1>1, <1>2, <1>4, <1>5, <1>6, <1>7 DEF CursorEnd

LEMMA SkipList == ListInv /\ Skip => ListInv'
<1> SUFFICES ASSUME ListInv, Skip PROVE ListInv'
  OBVIOUS
<1>1. /\ UNCHANGED <<first, last, fi, host, prefixes>>
      /\ pc = "scan" /\ tried' = tried \cup {curr}
  BY DEF Skip
<1> DEFINE p == prefixes[pi]
<1>2. /\ pi \in 1 .. Len(prefixes) /\ p \in Prefixes
      /\ CursorEnd(p) = LastOf(p) /\ p.ip <= curr /\ curr <= LastOf(p)
      /\ LastOf(p) <= last /\ first <= p.ip
      /\ prefixes # <<>> /\ OneFamily /\ LastOf(prefixes[Len(prefixes)]) = last
      /\ tried = first .. curr - 1 /\ Listed = first .. last
      /\ first \in Nat /\ last \in Nat /\ curr \in Nat /\ last < Size[Bits]
  BY <1>1, CursorInPrefix
<1>3. p.ip \in Nat /\ LastOf(p) \in Nat /\ Size[Bits] \in Nat
  BY <1>2, LastOfType, Sizes
<1>4. TypeOK
  BY DEF ListInv
<1>5. tried' = first .. curr
  BY <1>1, <1>2, <1>3
<1>6. /\ pc' \in {"scan", "depleted"}
      /\ pc' = "scan" =>
           /\ curr' = curr + 1 /\ curr' <= last
           /\ pi' \in 1 .. Len(prefixes)
           /\ prefixes[pi'].ip <= curr' /\ curr' <= LastOf(prefixes[pi'])
      /\ pc' = "depleted" => curr = last /\ curr' = curr /\ pi' = pi
  <2>1. CASE curr # CursorEnd(p) /\ UNCHANGED <<pc, pi>>
             /\ curr' = IF curr = Size[Bits] - 1 THEN 0 ELSE curr + 1
    <3>1. curr < LastOf(p)
      BY <1>2, <1>3, <2>1
    <3>2. curr' = curr + 1 /\ curr' <= last
      BY <1>2, <1>3, <2>1, <3>1
    <3> QED
      BY <1>1, <1>2, <1>3, <2>1, <3>1, <3>2
  <2>2. CASE curr = CursorEnd(p) /\ pi < Len(prefixes) /\ UNCHANGED pc
             /\ pi' = pi + 1 /\ curr' = prefixes[pi + 1].ip
    <3>1. pi' \in 1 .. Len(prefixes)
      BY <1>2, <1>4, <2>2 DEF TypeOK
    <3>2. prefixes[pi'] \in Prefixes
      BY <1>4, <3>1 DEF TypeOK
    <3>3. curr' = LastOf(p) + 1 /\ curr' = prefixes[pi'].ip
      BY <1>2, <2>2 DEF ListInv, Tiles
    <3>4. LastOf(prefixes[pi']) <= last
      BY <3>1 DEF ListInv, Tiles
    <3>5. prefixes[pi'].ip \in Nat /\ prefixes[pi'].ip <= LastOf(prefixes[pi'])
          /\ LastOf(prefixes[pi']) \in Nat
      BY <3>2, LastOfType
    <3> QED
      BY <1>1, <1>2, <1>3, <2>2, <3>1, <3>3, <3>4, <3>5
  <2>3. CASE curr = CursorEnd(p) /\ pi = Len(prefixes) /\ pc' = "depleted"
             /\ UNCHANGED <<pi, curr>>
    BY <1>2, <2>3
  <2> QED
    BY <2>1, <2>2, <2>3 DEF Skip
<1>7. TypeOK'
  <2>1. curr' \in Address
    BY <1>2, <1>3, <1>6 DEF Address
  <2>2. pi' \in Nat \ {0}
    BY <1>2, <1>6
  <2>3. tried' \subseteq Address
    BY <1>2, <1>3, <1>5 DEF Address
  <2> QED
    BY <1>1, <1>4, <1>6, <2>1, <2>2, <2>3 DEF TypeOK
<1>8. Widening' /\ Tiles' /\ Within'
  BY <1>1, <1>6 DEF ListInv, Widening, Tiles, Within, LastOf, IsV4
<1>9. Covers'
  BY <1>1, <1>6 DEF ListInv, Covers, Done, LastOf
<1>10. Scanning'
  <2>1. /\ Listed' = Listed /\ OneFamily' /\ LastOf(prefixes[Len(prefixes)])' = last'
        /\ prefixes' # <<>>
    BY <1>1, <1>2 DEF Listed, OneFamily, LastOf, IsV4
  <2>2. CASE pc' = "scan"
    <3>1. tried' = first' .. curr' - 1
      BY <1>1, <1>2, <1>5, <1>6, <2>2
    <3>2. pi' \in DOMAIN prefixes' /\ prefixes'[pi'].ip <= curr' /\ curr' <= LastOf(prefixes'[pi'])
      BY <1>1, <1>4, <1>6, <2>2 DEF TypeOK
    <3> QED
      BY <2>1, <2>2, <3>1, <3>2 DEF Scanning, LastOf
  <2>3. CASE pc' = "depleted"
    BY <1>2, <1>5, <1>6, <2>1, <2>3 DEF Scanning
  <2> QED
    BY <1>6, <2>2, <2>3
<1> QED
  BY <1>7, <1>8, <1>9, <1>10 DEF ListInv

LEMMA StutterList == ListInv /\ UNCHANGED vars => ListInv'
<1> SUFFICES ASSUME ListInv, UNCHANGED vars PROVE ListInv'
  OBVIOUS
<1>1. UNCHANGED <<pc, first, last, fi, host, prefixes, pi, curr, tried>>
  BY DEF vars
<1>2. TypeOK' /\ Tiles' /\ Within' /\ Covers'
  BY <1>1 DEF ListInv, TypeOK, Tiles, Within, Covers, Done, LastOf, IsV4, Base
<1>3. Widening'
  BY <1>1 DEF ListInv, Widening, OneFamily, Low, li, IsV4, Base
<1>4. Scanning'
  BY <1>1 DEF ListInv, Scanning, OneFamily, Listed, LastOf, IsV4
<1> QED
  BY <1>2, <1>3, <1>4 DEF ListInv

LEMMA ListInvariant ==
  ASSUME PlainCIDRs
  PROVE  Spec => []ListInv
<1>1. Init => ListInv
  BY InitList
<1>2. ListInv /\ [Next]_vars => ListInv'
  BY WidenList, EmitList, TakeList, SkipList, StutterList DEF Next
<1> QED
  BY <1>1, <1>2, PTL DEF Spec
-----------------------------------------------------------------------------
(* How many prefixes: those from the range's start grow, and then those    *)
(* towards its end shrink.                                                 *)

LEMMA Quotient ==
  ASSUME NEW s \in Nat \ {0}, NEW a \in Nat, a % s = 0
  PROVE  \E k \in Nat : a = k * s
<1>1. a \div s \in Nat /\ a = s * (a \div s) + (a % s)
  OBVIOUS
<1> QED
  BY <1>1

LEMMA Multiples ==
  ASSUME NEW s \in Nat \ {0}, NEW k \in Nat
  PROVE  (k * s) % s = 0
  OBVIOUS

LEMMA SumOfMultiples ==
  ASSUME NEW s \in Nat \ {0}, NEW a \in Nat, NEW b \in Nat, a % s = 0, b % s = 0
  PROVE  (a + b) % s = 0
<1>1. PICK k \in Nat : a = k * s
  BY Quotient
<1>2. PICK m \in Nat : b = m * s
  BY Quotient
<1>3. a + b = (k + m) * s /\ k + m \in Nat
  BY <1>1, <1>2
<1> QED
  BY <1>3, Multiples

\* After an odd multiple of s comes an even one.
LEMMA OddMultiple ==
  ASSUME NEW s \in Nat \ {0}, NEW a \in Nat, a % s = 0, a % (2 * s) # 0
  PROVE  (a + s) % (2 * s) = 0
<1>1. PICK k \in Nat : a = k * s
  BY Quotient
<1>2. PICK m \in Nat : k = 2 * m \/ k = 2 * m + 1
  <2>1. k \div 2 \in Nat /\ (k = 2 * (k \div 2) \/ k = 2 * (k \div 2) + 1)
    OBVIOUS
  <2> QED
    BY <2>1
<1>3. k # 2 * m
  <2>1. SUFFICES ASSUME k = 2 * m PROVE FALSE
    OBVIOUS
  <2>2. a = m * (2 * s) /\ 2 * s \in Nat \ {0}
    BY <1>1, <2>1
  <2> QED
    BY <2>2, Multiples
<1>4. a + s = (m + 1) * (2 * s) /\ m + 1 \in Nat /\ 2 * s \in Nat \ {0}
  BY <1>1, <1>2, <1>3
<1> QED
  BY <1>4, Multiples

LEMMA MultipleIsLarger ==
  ASSUME NEW s \in Nat \ {0}, NEW a \in Nat \ {0}, a % s = 0
  PROVE  s <= a
  OBVIOUS

\* A prefix of h host bits, or of fewer, may start at fi.
Aligned(h) == \A j \in 0 .. h : fi % Size[j] = 0

\* The sizes up to that of the prefix divide it.
Divided == Aligned(host) /\ \A j \in 0 .. host : Size[host] % Size[j] = 0

\* Every prefix so far was ended by the alignment, and the next one is longer; or
\* one was ended by the range's end, and all after it are shorter.
Growing == Len(prefixes) <= Width(first) /\ Aligned(Len(prefixes))
Shrinking ==
  \E r \in 0 .. Width(first) :
    /\ Aligned(r) /\ li - fi + 1 < Size[r]
    /\ Len(prefixes) + r <= 2 * Width(first)

FewInv == FewPrefixes /\ (pc = "widen" => Divided /\ (Growing \/ Shrinking))

LEMMA Widths == Width(first) \in 1 .. Bits
  BY SizeAssumption DEF Width

LEMMA WidenFew == ListInv /\ FewInv /\ Widen => FewInv'
<1> SUFFICES ASSUME ListInv, FewInv, Widen PROVE FewInv'
  OBVIOUS
<1>1. /\ pc = "widen" /\ host' = host + 1 /\ Fits(host + 1)
      /\ UNCHANGED <<first, last, fi, prefixes>>
  BY DEF Widen
<1>2. /\ host \in Nat /\ host + 1 \in 0 .. Bits /\ fi \in Nat
      /\ \A h \in 0 .. Bits : Size[h] \in Nat \ {0}
  BY Widths, Sizes DEF ListInv, TypeOK, Address, Widen
<1>3. Size[host + 1] = 2 * Size[host]
  BY <1>2, SizeAssumption
<1>4. fi % Size[host + 1] = 0
  BY <1>1, <1>2 DEF Fits, Low
<1>5. \A j \in 0 .. host + 1 : j \in 0 .. host \/ j = host + 1
  BY <1>2
<1>6. Aligned(host)'
  BY <1>1, <1>4, <1>5 DEF FewInv, Divided, Aligned
<1>7. ASSUME NEW j \in 0 .. host'
      PROVE  Size[host'] % Size[j] = 0
  <2>1. CASE j \in 0 .. host
    <3>1. Size[host] % Size[j] = 0
      BY <1>1, <2>1 DEF FewInv, Divided
    <3>2. Size[j] \in Nat \ {0} /\ Size[host] \in Nat
      <4>1. j \in 0 .. Bits /\ host \in 0 .. Bits
        BY <1>2, <2>1, SizeAssumption
      <4> QED
        BY <1>2, <4>1
    <3>3. (Size[host] + Size[host]) % Size[j] = 0
      BY <3>1, <3>2, SumOfMultiples
    <3>4. 2 * Size[host] = Size[host] + Size[host]
      BY <3>2
    <3> QED
      BY <1>1, <1>3, <3>3, <3>4
  <2>2. CASE j = host + 1
    BY <1>1, <1>2, <2>2
  <2> QED
    BY <1>1, <1>5, <2>1, <2>2
<1>8. (Growing \/ Shrinking)'
  BY <1>1 DEF FewInv, Growing, Shrinking, Aligned, li, Width, Base, IsV4
<1>9. FewPrefixes'
  BY <1>1 DEF FewInv, FewPrefixes, Width, IsV4
<1> QED
  BY <1>6, <1>7, <1>8, <1>9 DEF FewInv, Divided

LEMMA EmitFew == ListInv /\ FewInv /\ Emit => FewInv'
<1> SUFFICES ASSUME ListInv, FewInv, Emit PROVE FewInv'
  OBVIOUS
<1> DEFINE n == Len(prefixes)
           W == Width(first)
           s == Size[host]
<1>1. pc = "widen" /\ UNCHANGED <<first, last>> /\ ~(host < W /\ Fits(host + 1))
  BY DEF Emit
<1>2. TypeOK /\ OneFamily /\ fi + s - 1 <= li /\ Low(fi, host) = fi
  BY <1>1 DEF ListInv, Widening
<1>3. /\ fi \in Nat /\ host \in Nat /\ host <= Bits /\ n \in Nat /\ Bits \in Nat /\ W \in Nat
      /\ 1 <= W /\ W <= Bits /\ li \in Nat /\ EOR(first) \in Nat /\ EOR(first) = Size[W] - 1
      /\ li <= EOR(first) /\ Base(first) \in Nat
      /\ \A h \in 0 .. Bits : Size[h] \in Nat \ {0}
  <2>1. /\ li \in Nat /\ EOR(first) \in Nat /\ EOR(first) = Size[W] - 1
        /\ li <= EOR(first) /\ Base(first) \in Nat
    BY <1>2, Families DEF EOR
  <2>2. fi \in Nat /\ host \in Nat /\ host <= Bits /\ n \in Nat
    BY <1>2, Sizes DEF TypeOK, Address
  <2> QED
    BY <2>1, <2>2, Widths, Sizes
<1>4. s \in Nat \ {0}
  BY <1>3
<1>5. /\ LastOf(NewPrefix) - Base(first) = fi + s - 1
  BY <1>2, <1>3, <1>4 DEF NewPrefix, LastOf
<1>6. /\ Len(prefixes') = n + 1
      /\ \/ pc' = "widen" /\ host' = 0 /\ fi' = fi + s /\ fi + s <= li
         \/ pc' = "scan"
  <2>1. Len(prefixes') = n + 1
    BY <1>2 DEF Emit, TypeOK
  <2>2. \/ pc' = "scan"
        \/ fi' = fi + s - 1 + 1 /\ fi' <= li /\ host' = 0 /\ pc' = pc
    BY <1>5 DEF Emit
  <2> QED
    BY <1>1, <1>3, <1>4, <2>1, <2>2
<1>7. Width(first)' = W /\ li' = li
  BY <1>1 DEF Width, IsV4, li, Base
<1>8. Aligned(host) /\ \A j \in 0 .. host : s % Size[j] = 0
  BY <1>1 DEF FewInv, Divided
\* fi' may start a prefix as long as this one,
<1>9. ASSUME NEW j \in 0 .. host
      PROVE  (fi + s) % Size[j] = 0
  <2>1. fi % Size[j] = 0 /\ s % Size[j] = 0 /\ Size[j] \in Nat \ {0}
    BY <1>3, <1>8 DEF Aligned
  <2> QED
    BY <1>3, <1>4, <2>1, SumOfMultiples
\* and one twice as long if the alignment ended it.
<1>10. ASSUME host < W, fi % Size[host + 1] # 0
       PROVE  (fi + s) % Size[host + 1] = 0
  <2>1. Size[host + 1] = 2 * s
    BY <1>3, <1>10, SizeAssumption
  <2>2. fi % s = 0
    BY <1>3, <1>8 DEF Aligned
  <2> QED
    BY <1>3, <1>4, <1>10, <2>1, <2>2, OddMultiple
\* If the range's end did, less than this prefix is left.
<1>11. ASSUME host < W, fi % Size[host + 1] = 0
       PROVE  li - (fi + s) + 1 < s
  <2>1. Size[host + 1] = 2 * s
    BY <1>3, <1>11, SizeAssumption
  <2>2. Low(fi, host + 1) = fi
    BY <1>3, <1>11 DEF Low
  <2>3. ~(fi + 2 * s - 1 <= li)
    BY <1>1, <1>11, <2>1, <2>2 DEF Fits, High
  <2> QED
    BY <1>3, <1>4, <2>3
<1> HIDE DEF n, W, s
<1>12. ASSUME pc' = "widen"
       PROVE  host < W
  <2>1. SUFFICES ASSUME W <= host PROVE FALSE
    BY <1>3
  <2>2. W \in 0 .. host /\ s % Size[W] = 0 /\ Size[W] \in Nat \ {0}
    BY <1>3, <1>8, <2>1
  <2>3. Size[W] <= s
    BY <1>4, <2>2, MultipleIsLarger
  <2> QED
    BY <1>3, <1>4, <1>6, <1>12, <2>2, <2>3
<1>13. ASSUME pc' = "widen"
       PROVE  Divided'
  <2>1. host' = 0 /\ fi' \in Nat
    BY <1>3, <1>4, <1>6, <1>13
  <2>2. fi' % 1 = 0 /\ 1 % 1 = 0 /\ 0 .. 0 = {0}
    <3>1. \A x \in Nat : x % 1 = 0
      OBVIOUS
    <3>2. 0 .. 0 = {0}
      OBVIOUS
    <3> QED
      BY <2>1, <3>1, <3>2
  <2>3. Size[0] = 1
    BY SizeAssumption
  <2> QED
    BY <2>1, <2>2, <2>3 DEF Divided, Aligned
<1>14. CASE Growing
  <2>1. n <= W /\ Aligned(n)
    BY <1>14 DEF Growing, n, W
  <2>2. FewPrefixes'
    BY <1>3, <1>6, <1>7, <2>1 DEF FewPrefixes
  <2>3. ASSUME pc' = "widen"
        PROVE  (Growing \/ Shrinking)'
    <3>1. fi' = fi + s /\ host < W
      BY <1>6, <1>12, <2>3
    <3>2. CASE fi % Size[host + 1] # 0
      <4>1. n <= host
        <5>1. SUFFICES ASSUME host < n PROVE FALSE
          BY <1>3
        <5>2. host + 1 \in 0 .. n
          BY <1>3, <5>1
        <5> QED
          BY <2>1, <3>2, <5>2 DEF Aligned
      <4>2. ASSUME NEW j \in 0 .. n + 1
            PROVE  fi' % Size[j] = 0
        <5>1. j \in 0 .. host \/ j = host + 1
          BY <1>3, <4>1
        <5> QED
          BY <1>9, <1>10, <3>1, <3>2, <5>1
      <4>3. n + 1 <= W
        BY <1>3, <3>1, <4>1
      <4> QED
        BY <1>6, <1>7, <4>2, <4>3 DEF Growing, Aligned
    <3>3. CASE fi % Size[host + 1] = 0
      <4>1. li - fi' + 1 < Size[host]
        BY <1>11, <3>1, <3>3 DEF s
      <4>2. \A j \in 0 .. host : fi' % Size[j] = 0
        BY <1>9, <3>1
      <4>3. host \in 0 .. W /\ n + 1 + host <= 2 * W
        BY <1>3, <2>1, <3>1
      <4> QED
        BY <1>6, <1>7, <4>1, <4>2, <4>3 DEF Shrinking, Aligned
    <3> QED
      BY <3>2, <3>3
  <2> QED
    BY <1>13, <2>2, <2>3 DEF FewInv
<1>15. CASE Shrinking
  <2>1. PICK r \in 0 .. W : Aligned(r) /\ li - fi + 1 < Size[r] /\ n + r <= 2 * W
    BY <1>15 DEF Shrinking, n, W
  <2>2. host < r
    <3>1. SUFFICES ASSUME r <= host PROVE FALSE
      BY <1>3
    <3>2. r \in 0 .. host /\ s % Size[r] = 0 /\ Size[r] \in Nat \ {0}
      BY <1>3, <1>8, <3>1
    <3>3. Size[r] <= s
      BY <1>4, <3>2, MultipleIsLarger
    <3> QED
      BY <1>2, <1>3, <1>4, <2>1, <3>2, <3>3 DEF s
  <2>3. n + 1 + host <= 2 * W /\ n + 1 <= 2 * W
    BY <1>3, <2>1, <2>2
  <2>4. FewPrefixes'
    BY <1>6, <1>7, <2>3 DEF FewPrefixes
  <2>5. ASSUME pc' = "widen"
        PROVE  Shrinking'
    <3>1. fi' = fi + s
      BY <1>6, <2>5
    <3>2. fi % Size[host + 1] = 0 /\ host < W
      BY <1>3, <2>1, <2>2 DEF Aligned
    <3>3. li - fi' + 1 < Size[host]
      BY <1>11, <3>1, <3>2 DEF s
    <3>4. \A j \in 0 .. host : fi' % Size[j] = 0
      BY <1>9, <3>1
    <3>5. host \in 0 .. W
      BY <1>3, <3>2
    <3> QED
      BY <1>6, <1>7, <2>3, <3>3, <3>4, <3>5 DEF Shrinking, Aligned
  <2> QED
    BY <1>13, <2>4, <2>5 DEF FewInv
<1> QED
  BY <1>1, <1>14, <1>15 DEF FewInv

LEMMA InitFew ==
  ASSUME Init
  PROVE  FewInv
<1>1. /\ Width(first) \in Nat /\ 1 <= Width(first)
      /\ Len(prefixes) = 0 \/ (Len(prefixes) = 1 /\ pc # "widen")
  <2>1. Bits \in Nat
    BY SizeAssumption
  <2>2. Len(prefixes) = 0 \/ (Len(prefixes) = 1 /\ pc # "widen")
    BY DEF Init, InitCIDR, InitRange
  <2> QED
    BY <2>1, <2>2, Widths
<1>2. 0 .. 0 = {0} /\ Size[0] = 1 /\ host = 0
  BY SizeAssumption DEF Init
<1>3. fi \in Int
  BY Sizes, EntryAssumption DEF Init, InitCIDR, InitRange, Prefixes, Address, Base
<1>4. fi % 1 = 0 /\ 1 % 1 = 0
  BY <1>3
<1>5. FewPrefixes
  <2>1. \A w \in Nat : 1 <= w => 0 <= 2 * w /\ 1 <= 2 * w
    OBVIOUS
  <2> QED
    BY <1>1, <2>1 DEF FewPrefixes
<1>6. Divided
  BY <1>2, <1>4 DEF Divided, Aligned
<1>7. ASSUME pc = "widen"
      PROVE  Growing
  BY <1>1, <1>2, <1>4, <1>7 DEF Growing, Aligned
<1> QED
  BY <1>5, <1>6, <1>7 DEF FewInv

LEMMA NextFew == ListInv /\ FewInv /\ [Next]_vars => FewInv'
<1> SUFFICES ASSUME ListInv, FewInv, [Next]_vars PROVE FewInv'
  OBVIOUS
<1>1. ASSUME UNCHANGED <<first, last, fi, host, prefixes>>, pc' = "widen" => pc = "widen"
      PROVE  FewInv'
  BY <1>1 DEF FewInv, FewPrefixes, Divided, Growing, Shrinking, Aligned, li, Width, Base, IsV4
<1>2. CASE Take \/ Skip
  BY <1>1, <1>2 DEF Take, Skip
<1>3. CASE UNCHANGED vars
  BY <1>1, <1>3 DEF vars
<1> QED
  BY <1>2, <1>3, WidenFew, EmitFew DEF Next

-----------------------------------------------------------------------------
\* The integers of the code's loops never leave their width.
THEOREM ListTypeCorrect ==
  ASSUME PlainCIDRs
  PROVE  Spec => []TypeOK
BY ListInvariant, PTL DEF ListInv

\* Summarize's prefixes cover the range up to where it is, exactly, whatever the
\* ends of the range and the width of the addresses.
THEOREM SummarizeTiles ==
  ASSUME PlainCIDRs
  PROVE  Spec => []Tiles
BY ListInvariant, PTL DEF ListInv

\* The allocation tries the entry's addresses, all of them, in order, and no
\* other.
THEOREM AllocationScansInOrder ==
  ASSUME PlainCIDRs
  PROVE  Spec => []ScansInOrder
<1>1. ListInv => ScansInOrder
  <2> SUFFICES ASSUME ListInv PROVE ScansInOrder
    OBVIOUS
  <2>1. TypeOK /\ (pc = "depleted" => tried = Listed)
    BY DEF ListInv, Scanning
  <2>2. ASSUME pc \in {"scan", "found"}
        PROVE  curr \in Listed /\ tried = {a \in Listed : a < curr}
    <3>1. /\ OneFamily /\ pi \in DOMAIN prefixes /\ prefixes[pi].ip <= curr
          /\ curr <= LastOf(prefixes[pi]) /\ tried = first .. curr - 1
      BY <2>2 DEF ListInv, Scanning
    <3>2. first <= prefixes[pi].ip /\ LastOf(prefixes[pi]) <= last
      BY <3>1 DEF ListInv, Within, Tiles
    <3>3. prefixes[pi] \in Prefixes
      BY <2>1, <3>1 DEF TypeOK
    <3>4. first \in Nat /\ last \in Nat /\ curr \in Nat
      BY <2>1, Sizes DEF TypeOK, Address
    <3>5. first <= curr /\ curr <= last
      BY <3>1, <3>2, <3>3, <3>4, LastOfType
    <3>6. Listed = first .. last
      BY <3>1 DEF OneFamily, Listed
    <3> QED
      BY <3>1, <3>4, <3>5, <3>6
  <2> QED
    BY <2>1, <2>2 DEF ScansInOrder
<1> QED
  BY <1>1, ListInvariant, PTL

\* containsIP accepts the entry's addresses, and no other.
THEOREM ContainsWhatIsListed ==
  ASSUME PlainCIDRs
  PROVE  Spec => []ContainsListed
<1>1. ListInv => ContainsListed
  <2> SUFFICES ASSUME ListInv, pc # "widen", NEW a \in Address
               PROVE  ContainsIP(a) <=> a \in Listed
    BY DEF ContainsListed
  <2>1. CASE prefixes = <<>>
    BY <2>1 DEF ListInv, Scanning, ContainsIP
  <2>2. CASE prefixes # <<>>
    <3>1. OneFamily /\ TypeOK
      BY <2>2 DEF ListInv, Scanning
    <3>2. first \in Nat /\ last \in Nat /\ a \in Nat
      BY <3>1, Sizes DEF TypeOK, Address
    <3>3. Listed = first .. last
      BY <3>1 DEF OneFamily, Listed
    <3>4. ASSUME NEW i \in DOMAIN prefixes
          PROVE  /\ first <= prefixes[i].ip /\ LastOf(prefixes[i]) <= last
                 /\ prefixes[i].ip \in Nat /\ LastOf(prefixes[i]) \in Nat
                 /\ IsV4(prefixes[i].ip) <=> IsV4(first)
      <4>1. first <= prefixes[i].ip /\ LastOf(prefixes[i]) <= last
        BY <3>4 DEF ListInv, Within, Tiles
      <4>2. prefixes[i] \in Prefixes
        BY <3>1, <3>4 DEF TypeOK
      <4>3. /\ prefixes[i].ip \in Nat /\ LastOf(prefixes[i]) \in Nat
            /\ prefixes[i].ip <= LastOf(prefixes[i])
        BY <4>2, LastOfType
      <4> QED
        BY <3>1, <3>2, <4>1, <4>3, Between
    <3>5. ASSUME ContainsIP(a) PROVE a \in Listed
      <4>1. PICK i \in DOMAIN prefixes : prefixes[i].ip <= a /\ a <= LastOf(prefixes[i])
        BY <3>5 DEF ContainsIP, Contains
      <4> QED
        BY <3>2, <3>3, <3>4, <4>1
    <3>6. ASSUME a \in Listed PROVE ContainsIP(a)
      <4>1. first <= a /\ a <= last
        BY <3>2, <3>3, <3>6
      <4>2. PICK i \in DOMAIN prefixes : prefixes[i].ip <= a /\ a <= LastOf(prefixes[i])
        BY <2>2, <4>1 DEF ListInv, Covers, Done
      <4>3. IsV4(a) <=> IsV4(first)
        BY <3>1, <3>2, <4>1, Between
      <4> QED
        BY <3>4, <4>2, <4>3 DEF ContainsIP, Contains
    <3> QED
      BY <3>5, <3>6
  <2> QED
    BY <2>1, <2>2
<1> QED
  BY <1>1, ListInvariant, PTL

\* Summarize ends after at most twice as many prefixes as the family has bits,
\* whatever the range: not, as a list of single addresses would, after 2^128.
THEOREM SummarizeEndsSoon ==
  ASSUME PlainCIDRs
  PROVE  Spec => []FewPrefixes
<1>1. Init => FewInv
  BY InitFew
<1>2. FewInv => FewPrefixes
  BY DEF FewInv
<1> QED
  BY <1>1, <1>2, ListInvariant, NextFew, PTL DEF Spec
=============================================================================
