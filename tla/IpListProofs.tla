---------------------------- MODULE IpListProofs ----------------------------
(***************************************************************************)
(* Proofs about IpListStore, for all address widths, entries, files and    *)
(* numbers of concurrent lookups.                                          *)
(***************************************************************************)
EXTENDS IpListStore, TLAPS

\* What a lookup in progress knows: lists only grow, so a read that has been
\* done cannot contradict what was listed before the call.
ReaderOk(r) ==
    LET s == reader[r]
    IN  /\ s.at # "idle" /\ s.clearedBefore => Listed(added.white, s.ip)
        /\ s.at # "idle" /\ s.listedBefore => Listed(added.black, s.ip)
        /\ s.at = "first" => ~s.black
        /\ s.at \in {"first", "second", "third"} => s.ip \in Ips \ {Bad}
        /\ s.at = "second" => ~s.black /\ ~s.clearedBefore
        /\ s.at = "third" /\ s.clearedBefore => ~s.black
        /\ s.at = "third" /\ s.listedBefore => s.black \/ Listed(added.white, s.ip)
        /\ s.at = "done" /\ s.clearedBefore => ~s.black /\ s.white
        /\ s.at = "done" /\ s.listedBefore => s.black \/ s.white

ReadersOk == \A r \in Readers : ReaderOk(r)

IpInv == IpTypeOK /\ SplitIsExact /\ ReadersOk

\* A network of full length covers exactly its own address.
LEMMA HostCoversItself ==
    ASSUME NEW n \in Entries \ {Bad}, n.len = Width[n.fam], NEW ip \in Ips \ {Bad}
    PROVE  Covers(n, ip) <=> ip = Host(n)
<1>1. n \in Network /\ ip \in Address /\ Width[n.fam] \in Nat
  <2>1. n \in Network /\ ip \in Address /\ Width \in [Families -> Nat]
    BY IpListAssumption
  <2> QED
    BY <2>1 DEF Network
<1>2. 2 ^ (Width[n.fam] - n.len) = 1
  <2>1. Width[n.fam] - n.len = 0
    BY <1>1
  <2>2. 2 ^ 0 = 1
    OBVIOUS
  <2> QED
    BY <2>1, <2>2
<1>3. n.num \div 1 = n.num /\ ip.num \div 1 = ip.num
  BY <1>1 DEF Network, Address
<1> QED
  BY <1>1, <1>2, <1>3 DEF Covers, Host, Network, Address

\* Inserting entries adds exactly the addresses they cover.
LEMMA InsertAdds ==
    ASSUME NEW set, NEW es \in SUBSET Entries, NEW ip \in Ips \ {Bad}
    PROVE  Contains(Insert(set, es), ip) <=> Contains(set, ip) \/ Listed(es, ip)
<1> DEFINE nets == es \ {Bad}
           hosts == {n \in nets : n.len = Width[n.fam]}
<1>1. \A n \in hosts : Covers(n, ip) <=> ip = Host(n)
  BY HostCoversItself
<1>2. Contains(Insert(set, es), ip) <=>
          \/ ip \in set.exact \/ \E n \in hosts : ip = Host(n)
          \/ \E n \in set.cidrs : Covers(n, ip)
          \/ \E n \in nets \ hosts : Covers(n, ip)
  BY DEF Contains, Insert
<1> QED
  BY <1>1, <1>2 DEF Contains, Listed

\* Listing is monotone and splits over unions.
LEMMA ListedUnion ==
    ASSUME NEW es, NEW fs, NEW ip
    PROVE  Listed(es \union fs, ip) <=> Listed(es, ip) \/ Listed(fs, ip)
  BY DEF Listed

\* Insert keeps hosts and networks apart.
LEMMA InsertTyped ==
    ASSUME NEW set \in [exact : SUBSET Address, cidrs : SUBSET Network],
           NEW es \in SUBSET Entries
    PROVE  Insert(set, es) \in [exact : SUBSET Address, cidrs : SUBSET Network]
<1> DEFINE nets == es \ {Bad}
           hosts == {n \in nets : n.len = Width[n.fam]}
<1>1. nets \subseteq Network
  BY IpListAssumption
<1>2. {Host(n) : n \in hosts} \subseteq Address
  BY <1>1 DEF Host, Address, Network
<1> QED
  BY <1>1, <1>2 DEF Insert

\* Both kinds of write keep the split exact and the lists growing.
LEMMA WriteStep ==
    ASSUME IpTypeOK, SplitIsExact, NEW es \in SUBSET Entries,
           Blacklist(es) \/ Whitelist(es)
    PROVE  /\ IpTypeOK'
           /\ SplitIsExact'
           /\ \A ip : Listed(added.white, ip) => Listed(added.white, ip)'
           /\ \A ip : Listed(added.black, ip) => Listed(added.black, ip)'
           /\ reader' = reader
<1>1. CASE Blacklist(es)
  <2>1. /\ added' = [black |-> added.black \union es, white |-> added.white]
        /\ blacklist' = Insert(blacklist, es)
        /\ whitelist' = whitelist
        /\ reader' = reader
    BY <1>1 DEF Blacklist, IpTypeOK
  <2>2. IpTypeOK'
    BY <2>1, InsertTyped DEF IpTypeOK
  <2>3. SplitIsExact'
    BY <2>1, InsertAdds, ListedUnion DEF SplitIsExact
  <2> QED
    BY <2>1, <2>2, <2>3, ListedUnion
<1>2. CASE Whitelist(es)
  <2>1. /\ added' = [black |-> added.black, white |-> added.white \union es]
        /\ whitelist' = Insert(whitelist, es)
        /\ blacklist' = blacklist
        /\ reader' = reader
    BY <1>2 DEF Whitelist, IpTypeOK
  <2>2. IpTypeOK'
    BY <2>1, InsertTyped DEF IpTypeOK
  <2>3. SplitIsExact'
    BY <2>1, InsertAdds, ListedUnion DEF SplitIsExact
  <2> QED
    BY <2>1, <2>2, <2>3, ListedUnion
<1> QED
  BY <1>1, <1>2

\* The steps of one lookup.
LEMMA ReadStep ==
    ASSUME IpInv, NEW r \in Readers,
           \/ \E ip \in Ips : Begin(r, ip)
           \/ FirstRead(r) \/ SecondRead(r) \/ ThirdRead(r) \/ Return(r)
    PROVE  IpInv'
<1> USE DEF IpInv
<1> DEFINE Lookup == [at : {"idle", "first", "second", "third", "done"},
                      ip : Ips \union {Bad}, black : BOOLEAN, white : BOOLEAN,
                      listedBefore : BOOLEAN, clearedBefore : BOOLEAN]
<1>1. reader[r] \in Lookup
  BY DEF IpTypeOK
<1>2. UNCHANGED <<blacklist, whitelist, added>>
  BY DEF Begin, FirstRead, SecondRead, ThirdRead, Return
<1>3. SUFFICES reader' \in [Readers -> Lookup] /\ ReadersOk'
  BY <1>2 DEF IpTypeOK, SplitIsExact
<1>4. \A ip \in Ips \ {Bad} :
          /\ Contains(blacklist, ip) <=> Listed(added.black, ip)
          /\ Contains(whitelist, ip) <=> Listed(added.white, ip)
  BY DEF SplitIsExact
<1>5. ASSUME NEW s \in Lookup, reader' = [reader EXCEPT ![r] = s], ReaderOk(r)'
      PROVE  reader' \in [Readers -> Lookup] /\ ReadersOk'
  <2>1. reader' \in [Readers -> Lookup]
    BY <1>5 DEF IpTypeOK
  <2>2. \A q \in Readers \ {r} : reader'[q] = reader[q]
    BY <1>5 DEF IpTypeOK
  <2>3. ASSUME NEW q \in Readers PROVE ReaderOk(q)'
    <3>1. CASE q = r
      BY <1>5, <3>1
    <3>2. CASE q # r
      BY <1>2, <2>2, <3>2 DEF ReaderOk, ReadersOk
    <3> QED
      BY <3>1, <3>2
  <2> QED
    BY <2>1, <2>3 DEF ReadersOk
<1>6. ASSUME NEW ip \in Ips, Begin(r, ip)
      PROVE  reader' \in [Readers -> Lookup] /\ ReadersOk'
  <2> DEFINE s == [Idle EXCEPT !.at = IF ip = Bad THEN "done" ELSE "first",
                                !.ip = ip,
                                !.listedBefore = Listed(added.black, ip),
                                !.clearedBefore = Listed(added.white, ip)]
  <2>1. s \in Lookup
    BY DEF Idle, Listed
  <2>2. reader' = [reader EXCEPT ![r] = s] /\ reader'[r] = s
    BY <1>6 DEF Begin, IpTypeOK
  <2>3. ReaderOk(r)'
    <3>1. /\ reader'[r].at = IF ip = Bad THEN "done" ELSE "first"
          /\ reader'[r].ip = ip
          /\ reader'[r].black = FALSE
          /\ reader'[r].listedBefore = Listed(added.black, ip)
          /\ reader'[r].clearedBefore = Listed(added.white, ip)
      <4>1. /\ s.at = IF ip = Bad THEN "done" ELSE "first"
            /\ s.ip = ip
        BY DEF Idle
      <4>2. s.black = FALSE
        BY DEF Idle
      <4>3. s.listedBefore = Listed(added.black, ip)
        BY DEF Idle
      <4>4. s.clearedBefore = Listed(added.white, ip)
        BY DEF Idle
      <4> QED
        BY <2>2, <4>1, <4>2, <4>3, <4>4
    <3>2. added' = added
      BY <1>2
    <3>3. ip = Bad => ~Listed(added.black, ip) /\ ~Listed(added.white, ip)
      BY DEF Listed
    <3> QED
      BY <3>1, <3>2, <3>3 DEF ReaderOk
  <2> QED
    BY <1>5, <2>1, <2>2, <2>3
<1>7. CASE FirstRead(r)
  <2> DEFINE s == [reader[r] EXCEPT !.at =
                      IF Contains(whitelist, reader[r].ip) THEN "third" ELSE "second"]
  <2>1. s \in Lookup
    BY <1>1
  <2>2. reader' = [reader EXCEPT ![r] = s] /\ reader'[r] = s
    BY <1>7 DEF FirstRead, IpTypeOK
  <2>3. ReaderOk(r)'
    BY <1>1, <1>2, <1>4, <1>7, <2>2 DEF ReaderOk, ReadersOk, FirstRead
  <2> QED
    BY <1>5, <2>1, <2>2, <2>3
<1>8. CASE SecondRead(r)
  <2> DEFINE s == [reader[r] EXCEPT !.at = "third",
                                    !.black = Contains(blacklist, reader[r].ip)]
  <2>1. s \in Lookup
    BY <1>1 DEF Contains
  <2>2. reader' = [reader EXCEPT ![r] = s] /\ reader'[r] = s
    BY <1>8 DEF SecondRead, IpTypeOK
  <2>3. ReaderOk(r)'
    BY <1>1, <1>2, <1>4, <1>8, <2>2 DEF ReaderOk, ReadersOk, SecondRead
  <2> QED
    BY <1>5, <2>1, <2>2, <2>3
<1>9. CASE ThirdRead(r)
  <2> DEFINE s == [reader[r] EXCEPT !.at = "done",
                                    !.white = Contains(whitelist, reader[r].ip)]
  <2>1. s \in Lookup
    BY <1>1 DEF Contains
  <2>2. reader' = [reader EXCEPT ![r] = s] /\ reader'[r] = s
    BY <1>9 DEF ThirdRead, IpTypeOK
  <2>3. ReaderOk(r)'
    BY <1>1, <1>2, <1>4, <1>9, <2>2 DEF ReaderOk, ReadersOk, ThirdRead
  <2> QED
    BY <1>5, <2>1, <2>2, <2>3
<1>10. CASE Return(r)
  <2>1. Idle \in Lookup
    BY DEF Idle
  <2>2. reader' = [reader EXCEPT ![r] = Idle] /\ reader'[r] = Idle
    BY <1>10 DEF Return, IpTypeOK
  <2>3. ReaderOk(r)'
    BY <2>2 DEF ReaderOk, Idle
  <2> QED
    BY <1>5, <2>1, <2>2, <2>3
<1> QED
  BY <1>6, <1>7, <1>8, <1>9, <1>10

\* IpInv is an inductive invariant of the two lists and their readers.
THEOREM IpInvariant == Spec => []IpInv
<1>1. Init => IpInv
  <2> SUFFICES ASSUME Init PROVE IpInv
    OBVIOUS
  <2>1. IpTypeOK
    BY DEF Init, IpTypeOK, Idle, EmptySet
  <2>2. SplitIsExact
    BY DEF Init, SplitIsExact, Contains, Listed, EmptySet
  <2>3. ReadersOk
    BY DEF Init, ReadersOk, ReaderOk, Idle
  <2> QED
    BY <2>1, <2>2, <2>3 DEF IpInv
<1>2. IpInv /\ [Next]_vars => IpInv'
  <2> SUFFICES ASSUME IpInv, [Next]_vars PROVE IpInv'
    OBVIOUS
  <2>1. ASSUME NEW es \in SUBSET Entries, Blacklist(es) \/ Whitelist(es) PROVE IpInv'
    <3>1. /\ IpTypeOK' /\ SplitIsExact' /\ reader' = reader
          /\ \A ip : Listed(added.white, ip) => Listed(added.white, ip)'
          /\ \A ip : Listed(added.black, ip) => Listed(added.black, ip)'
      BY <2>1, WriteStep DEF IpInv
    <3>2. ReadersOk'
      BY <3>1 DEF IpInv, ReadersOk, ReaderOk
    <3> QED
      BY <3>1, <3>2 DEF IpInv
  <2>2. CASE \E e \in Entries : add_to_blacklist(e) \/ add_to_whitelist(e)
    BY <2>1, <2>2 DEF add_to_blacklist, add_to_whitelist
  <2>3. CASE \E file \in IpFiles :
               load_blacklist_from_file(file) \/ load_whitelist_from_file(file)
    BY <2>1, <2>3, IpListAssumption DEF load_blacklist_from_file, load_whitelist_from_file
  <2>4. CASE UNCHANGED vars
    BY <2>4 DEF vars, IpInv, IpTypeOK, SplitIsExact, ReadersOk, ReaderOk
  <2> QED
    BY <2>2, <2>3, <2>4, ReadStep DEF Next
<1> QED
  BY <1>1, <1>2, PTL DEF Spec

\* Hosts and networks stay apart in both lists, and what does not parse
\* reaches neither.
THEOREM IpTypeCorrect == Spec => []IpTypeOK
<1>1. IpInv => IpTypeOK
  BY DEF IpInv
<1> QED
  BY IpInvariant, <1>1, PTL

\* Both lists answer as if the entries had been kept in one plain set.
THEOREM ListsAnswerExactly == Spec => []SplitIsExact
<1>1. IpInv => SplitIsExact
  BY DEF IpInv
<1> QED
  BY IpInvariant, <1>1, PTL

\* A lookup never contradicts a write that finished before it began.
THEOREM EarlierWritesAreSeen == Spec => []LookupsRespectEarlierWrites
<1>1. IpInv => LookupsRespectEarlierWrites
  BY DEF IpInv, ReadersOk, ReaderOk, LookupsRespectEarlierWrites
<1> QED
  BY IpInvariant, <1>1, PTL
=============================================================================
