--------------------------- MODULE MCConsulRules ---------------------------
(* Two processes that seed, a watcher, one old key, one further key, a    *)
(* custom rule and two default rules, one of which changes from release   *)
(* to release.                                                            *)
EXTENDS ConsulRules

Stored(id, dflt, body) == [id |-> id, dflt |-> dflt, body |-> body, extra |-> Absent, ms |-> 0]
Shipped(id, body, extra) == [id |-> id, body |-> body, extra |-> extra]
Listing(rs) == [form |-> "list", rules |-> rs]
Object(rs) == [form |-> "object", rules |-> rs]

MCOldKeys == <<"critical.yaml">>

Custom == Stored("c", FALSE, "b1")
Default == [Stored("d", TRUE, "b1") EXCEPT !.extra = "x"]

\* A release, a later one in which two files carry the same id, and one whose
\* files could not be read.
MCReleases == {
    <<Shipped("d", "b1", "x"), Shipped("e", "b1", Absent)>>,
    <<Shipped("d", "b2", Absent), Shipped("d", "b1", Absent)>>,
    << >>}

\* An operator's version of a default rule, and a file stored beside.
MCEdits == {
    [key |-> "rules.yaml", value |-> Listing(<<Stored("d", FALSE, "b3"), Custom>>)],
    [key |-> "global.yaml", value |-> Object(<<Stored("g", FALSE, "b1")>>)]}

Contents(unified, old, other) ==
    [k \in Keys |-> CASE k = Unified -> unified [] k \in OtherKeys -> other [] OTHER -> old]

\* Nothing yet; split keys of an older version beside an operator's rules; a
\* seeded list with a rule that no longer loads; values the loader ignores, and
\* a further key that repeats the id of a default rule.
MCInitialKVs == {
    Contents(Absent, Absent, Absent),
    Contents(Listing(<<Custom, Default>>), Object(<<Stored("d", FALSE, "b1")>>), Absent),
    Contents(Listing(<<Stored("c", FALSE, "bad"), Stored("c", FALSE, "invalid")>>),
             [form |-> "binary", rules |-> << >>], Listing(<<Stored("g", FALSE, "b2")>>)),
    Contents(Object(<<Custom>>), [form |-> "text", rules |-> << >>],
             Listing(<<Stored("e", FALSE, "b1")>>))}

MCBootRules == {Stored("d", FALSE, "b1")}
=============================================================================
