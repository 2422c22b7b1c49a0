----------------------------- MODULE IpListStore -----------------------------
(***************************************************************************)
(* waf-engine lists/ip_list.rs and lists/blacklist_plugin.rs: a blacklist  *)
(* and a whitelist, each behind its own lock.  Entries are added one by    *)
(* one or a file at a time and are never removed.  A lookup takes the two  *)
(* locks one after the other, so writers may run between its reads.        *)
(***************************************************************************)
EXTENDS Naturals, FiniteSets

CONSTANTS
    Families,  \* address families (V4, V6)
    Width,     \* family -> bits of an address, 32 and 128 in the code
    Bad,       \* an entry, or an address, that does not parse
    Entries,   \* what callers add: networks and Bad
    IpFiles,   \* what can be loaded: the sets of entries of a file
    Ips,       \* what callers look up: addresses and Bad
    Readers    \* concurrent lookups

\* A network keeps the host bits it was written with; a bare address is a
\* network of full length.
Address == [fam : Families, num : Nat]

Network == [fam : Families, num : Nat, len : Nat]

ASSUME IpListAssumption ==
    /\ Width \in [Families -> Nat]
    /\ Entries \subseteq Network \union {Bad}
    /\ \A e \in Entries \ {Bad} : e.len <= Width[e.fam]
    /\ IpFiles \subseteq SUBSET Entries
    /\ Ips \subseteq Address \union {Bad}

VARIABLES
    blacklist, whitelist,  \* IpSet: [exact, cidrs]
    reader,                \* reader -> its lookup
    added                  \* history: the entries given to each list

vars == <<blacklist, whitelist, reader, added>>

-----------------------------------------------------------------------------
(***************************************************************************)
(* IpSet                                                                   *)
(***************************************************************************)
EmptySet == [exact |-> {}, cidrs |-> {}]

Host(net) == [fam |-> net.fam, num |-> net.num]

\* IpNet::contains: the leading len bits agree (external: crate ipnet).
Covers(net, ip) ==
    LET block == 2 ^ (Width[net.fam] - net.len)
    IN  net.fam = ip.fam /\ net.num \div block = ip.num \div block

\* Mutant: entries are stored as they are parsed, unparsed ones included.
InsertUnparsed(set, es) == [set EXCEPT !.cidrs = @ \union es]

\* Mutant: the host length of one family is taken for that of the other.
InsertNarrow(set, es) ==
    LET nets == es \ {Bad}
        hosts == {n \in nets : \E f \in Families : n.len = Width[f]}
    IN  [exact |-> set.exact \union {Host(n) : n \in hosts},
         cidrs |-> set.cidrs \union (nets \ hosts)]

\* IpSet::insert for each of es: host routes go to the hash set, other
\* networks to the CIDR list, the rest is skipped.
Insert(set, es) ==
    LET nets == es \ {Bad}
        hosts == {n \in nets : n.len = Width[n.fam]}
    IN  [exact |-> set.exact \union {Host(n) : n \in hosts},
         cidrs |-> set.cidrs \union (nets \ hosts)]

Contains(set, ip) == ip \in set.exact \/ \E n \in set.cidrs : Covers(n, ip)

\* What the callers asked for.
Listed(es, ip) == ip # Bad /\ \E n \in es \ {Bad} : Covers(n, ip)

-----------------------------------------------------------------------------
(***************************************************************************)
(* Writers.  add_to_* inserts one entry; load_*_from_file all of a file    *)
(* under one write lock, and nothing if the file cannot be read.           *)
(***************************************************************************)
Blacklist(es) ==
    /\ blacklist' = Insert(blacklist, es)
    /\ added' = [added EXCEPT !.black = @ \union es]
    /\ UNCHANGED <<whitelist, reader>>

Whitelist(es) ==
    /\ whitelist' = Insert(whitelist, es)
    /\ added' = [added EXCEPT !.white = @ \union es]
    /\ UNCHANGED <<blacklist, reader>>

add_to_blacklist(e) == Blacklist({e})

add_to_whitelist(e) == Whitelist({e})

load_blacklist_from_file(file) == Blacklist(file)

load_whitelist_from_file(file) == Whitelist(file)

-----------------------------------------------------------------------------
(***************************************************************************)
(* Readers.  enrich calls is_blacklisted (whitelist, then blacklist) and   *)
(* is_whitelisted (whitelist again).                                       *)
(***************************************************************************)
Idle == [at |-> "idle", ip |-> Bad, black |-> FALSE, white |-> FALSE,
         listedBefore |-> FALSE, clearedBefore |-> FALSE]

\* A call starts; the history fields remember what the lists say now.
Begin(r, ip) ==
    /\ reader[r].at = "idle"
    /\ reader' = [reader EXCEPT ![r] =
                     [Idle EXCEPT !.at = IF ip = Bad THEN "done" ELSE "first",
                                  !.ip = ip,
                                  !.listedBefore = Listed(added.black, ip),
                                  !.clearedBefore = Listed(added.white, ip)]]
    /\ UNCHANGED <<blacklist, whitelist, added>>

\* Mutant: the blacklist is read first and decides alone.
FirstReadSkipped(r) ==
    /\ reader[r].at = "first"
    /\ reader' = [reader EXCEPT ![r].at = "second"]
    /\ UNCHANGED <<blacklist, whitelist, added>>

\* is_blacklisted, first read: the whitelist overrides.
FirstRead(r) ==
    /\ reader[r].at = "first"
    /\ reader' = [reader EXCEPT ![r].at =
                     IF Contains(whitelist, reader[r].ip) THEN "third" ELSE "second"]
    /\ UNCHANGED <<blacklist, whitelist, added>>

\* is_blacklisted, second read.
SecondRead(r) ==
    /\ reader[r].at = "second"
    /\ reader' = [reader EXCEPT ![r].at = "third",
                                ![r].black = Contains(blacklist, reader[r].ip)]
    /\ UNCHANGED <<blacklist, whitelist, added>>

\* is_whitelisted
ThirdRead(r) ==
    /\ reader[r].at = "third"
    /\ reader' = [reader EXCEPT ![r].at = "done",
                                ![r].white = Contains(whitelist, reader[r].ip)]
    /\ UNCHANGED <<blacklist, whitelist, added>>

Return(r) ==
    /\ reader[r].at = "done"
    /\ reader' = [reader EXCEPT ![r] = Idle]
    /\ UNCHANGED <<blacklist, whitelist, added>>

Init ==
    /\ blacklist = EmptySet
    /\ whitelist = EmptySet
    /\ reader = [r \in Readers |-> Idle]
    /\ added = [black |-> {}, white |-> {}]

Next ==
    \/ \E e \in Entries : add_to_blacklist(e) \/ add_to_whitelist(e)
    \/ \E file \in IpFiles : load_blacklist_from_file(file) \/ load_whitelist_from_file(file)
    \/ \E r \in Readers :
          \/ \E ip \in Ips : Begin(r, ip)
          \/ FirstRead(r)
          \/ SecondRead(r)
          \/ ThirdRead(r)
          \/ Return(r)

Spec == Init /\ [][Next]_vars

-----------------------------------------------------------------------------
IpTypeOK ==
    /\ {blacklist, whitelist} \subseteq [exact : SUBSET Address, cidrs : SUBSET Network]
    /\ added \in [black : SUBSET Entries, white : SUBSET Entries]
    /\ reader \in [Readers -> [at : {"idle", "first", "second", "third", "done"},
                               ip : Ips \union {Bad}, black : BOOLEAN, white : BOOLEAN,
                               listedBefore : BOOLEAN, clearedBefore : BOOLEAN]]

\* The split into hosts and networks loses nothing: at all times an address is
\* in a list exactly if some entry given to it covers the address, whatever
\* the family, the order and the host bits of the entries (ip_list.rs:20-45).
SplitIsExact ==
    \A ip \in Ips \ {Bad} :
        /\ Contains(blacklist, ip) <=> Listed(added.black, ip)
        /\ Contains(whitelist, ip) <=> Listed(added.white, ip)

\* An address that was on the whitelist when the call began is not reported as
\* blacklisted, and one that was on the blacklist is reported by one of the
\* two answers of enrich, whatever writers do between the reads.
LookupsRespectEarlierWrites ==
    \A r \in Readers :
        reader[r].at = "done" =>
            /\ reader[r].clearedBefore => ~reader[r].black /\ reader[r].white
            /\ reader[r].listedBefore => reader[r].black \/ reader[r].white
==============================================================================
