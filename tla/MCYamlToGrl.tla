----------------------------- MODULE MCYamlToGrl -----------------------------
(***************************************************************************)
(* All condition trees of depth two, in both notations, with lists of up   *)
(* to two members; every scope; rules with a part missing or a literal     *)
(* that does not lex beside good ones; and pairs of rules with every       *)
(* combination of priority and routing.                                    *)
(***************************************************************************)
EXTENDS YamlToGrl

MCAtoms == {"a", "b", "tier", "session"}

MCIgnored == {"session"}

Node(k, f, s) == [kind |-> k, fmt |-> f, atom |-> "a", other |-> "b", subs |-> s]

Leaves == {Node("atom", "legacy", <<>>), Node("pair", "legacy", <<>>),
           [Node("atom", "new", <<>>) EXCEPT !.atom = "b"], Node("false", "new", <<>>),
           Node("true", "legacy", <<>>)}

Faulty == {Node(k, f, <<>>) : k \in {"bad", "unlexed"}, f \in {"new", "legacy"}}

Lists(S) == {<<>>} \union {<<x>> : x \in S} \union {<<x, y>> : x, y \in S}

Above(L) == {Node(k, f, s) : k \in {"and", "or"}, f \in {"new", "legacy"}, s \in L}

Nots(S) == {Node("not", "legacy", <<x>>) : x \in S}

Shallow == Leaves \union Above(Lists(Leaves)) \union Nots(Leaves)

Deep == Above({<<x, y>> : x \in Shallow, y \in Leaves}) \union Nots(Shallow)
        \union Above({<<x, y>> : x \in {Node("atom", "legacy", <<>>)},
                                 y \in Above({<<u, v>> : u, v \in Leaves})})
        \union Faulty \union Nots(Faulty)
        \union Above({<<x, y>> : x \in Leaves \union Faulty, y \in Faulty})

Rule(id, c, sc, p, u) ==
    [id |-> id, cond |-> c, scope |-> sc, priority |-> p, upstream |-> u,
     complete |-> TRUE, lexes |-> TRUE]

Sample == {Node("atom", "new", <<>>), Node("and", "legacy", <<>>),
           Node("or", "new", <<Node("pair", "legacy", <<>>)>>),
           Node("and", "legacy", <<Node("pair", "legacy", <<>>), Node("true", "legacy", <<>>)>>)}

MCDocs ==
    {<<Rule("r1", c, "global", 90, FALSE)>> : c \in Deep}
    \union {<<Rule("r1", c, s, 90, FALSE)>> : c \in Shallow, s \in {"tier", "session", "route_all"}}
    \union {<<r, Rule("r2", c, "tier", 90, FALSE)>> :
               c \in Sample \union Faulty,
               r \in {[Rule("r1", d, "session", 90, FALSE) EXCEPT !.complete = x, !.lexes = y] :
                         d \in Sample \union Faulty, x, y \in BOOLEAN}}
    \union {<<Rule("r1", c, "tier", p, u), Rule("r2", d, "global", q, v)>> :
               c, d \in Sample, p, q \in {60, 850, 900, 3500}, u, v \in BOOLEAN}
==============================================================================
