--------------------------- MODULE MCRuleEngines ---------------------------
(* Two rule files and another one, rules that meet every match type, and all *)
(* globs and texts of up to three tokens.                                    *)
EXTENDS RuleEngines

MCLowerOf == ("A" :> "a") @@ ("H" :> "h") @@ ("HIGH" :> "high") @@ ("CATCH_ALL" :> "catch_all")

\* Addresses of two and three bits instead of 32 and 128.
MCWidth == [v4 |-> 2, v6 |-> 3]
MCIpOf ==
    [t \in {<<"v4.0">>, <<"v4.1">>, <<"v4.3">>, <<"v6.1">>, <<"v6.5">>} |->
        CASE t = <<"v4.0">> -> [fam |-> "v4", bits |-> 0]
          [] t = <<"v4.1">> -> [fam |-> "v4", bits |-> 1]
          [] t = <<"v4.3">> -> [fam |-> "v4", bits |-> 3]
          [] t = <<"v6.1">> -> [fam |-> "v6", bits |-> 1]
          [] t = <<"v6.5">> -> [fam |-> "v6", bits |-> 5]]
MCClassOf == "[ab]" :> {"a", "b"}
MCPrefixOf == [n0 |-> 0, n1 |-> 1, n2 |-> 2, n3 |-> 3, n9 |-> 9]

MCFileNames == <<"global.yaml", "high.yaml">>
MCConfigKey == [High |-> "high", CatchAll |-> "catch_all"]
MCDebugName == [High |-> "high", CatchAll |-> "catchall"]

Leaf(field, match, value) ==
    [kind |-> "Leaf", field |-> field, match_type |-> match, value |-> value,
     name |-> None, case_sensitive |-> FALSE, negate |-> FALSE, key |-> None]
Exactly(l) == [l EXCEPT !.case_sensitive = TRUE]
Not(l) == [l EXCEPT !.negate = TRUE]
Named(l, name) == [l EXCEPT !.name = name]
Branch(kind, children) == [kind |-> kind, children |-> children]

Conditions == {
    Leaf("Path", "Exact", <<"A">>),
    Exactly(Leaf("Path", "Wildcard", <<"a", "*">>)),
    Leaf("Path", "Wildcard", <<"?", "b">>),
    Exactly(Leaf("Path", "Wildcard", <<"[ab]", "*">>)),
    Exactly(Leaf("Path", "Wildcard", <<"a", "/", "*", "*", "/", "b", "*">>)),
    Not(Leaf("Path", "Regex", <<"a">>)),
    Branch("Or", <<Exactly(Leaf("Path", "Regex", <<"a">>)),
                   Leaf("Path", "Regex", <<"(?i)", "b">>),
                   Leaf("Path", "Regex", <<"a">>)>>),
    Branch("And", <<Exactly(Leaf("Path", "Regex", <<"b">>)),
                    Not(Exactly(Leaf("Payload", "Exact", <<"a">>)))>>),
    Leaf("Path", "Regex", <<"(">>),
    Leaf("Ip", "Cidr", <<"v4.0", "/", "n1">>),
    Leaf("Ip", "Cidr", <<"v4.3", "/", "x">>),
    Leaf("Ip", "Cidr", <<"v4.1">>),
    Named(Leaf("Header", "Absence", << >>), "h"),
    Named(Not(Exactly(Leaf("Cookie", "Exact", <<"a">>))), "k"),
    Leaf("ContentType", "Presence", << >>),
    Leaf("Payload", "Presence", << >>)}

Raw(id, priority, condition, action) ==
    [id |-> id, enabled |-> TRUE, priority |-> priority, condition |-> condition,
     action |-> action, delta |-> 0, tier |-> None]

Match == Exactly(Leaf("Path", "Wildcard", <<"*">>))

\* One rule per condition, and the rules that differ in something else.
OneRule ==
    {Raw("r", 1, c, "Block") : c \in Conditions} \union
    {Raw("s", 2, c, "Allow") : c \in Conditions}
OtherRules == {
    <<Raw("t", 2, Match, "Block"), Raw("u", 1, Match, "Log")>>,
    <<Raw("t", 1, Match, "Block"), Raw("u", 1, Match, "Challenge")>>,
    <<[Raw("t", 1, Match, "Block") EXCEPT !.tier = "CATCH_ALL"],
      [Raw("u", 3, Match, "Block") EXCEPT !.tier = "HIGH"]>>,
    <<[Raw("t", 1, Match, "Block") EXCEPT !.enabled = FALSE]>>,
    <<[Raw("t", 1, Match, "Block") EXCEPT !.delta = 101]>>,
    <<Raw("t", 0, Match, "RateLimit")>>,
    << >>}

Holding(lists) == {[kind |-> "rules", rules |-> rs] : rs \in lists}
Broken == {[kind |-> k, rules |-> << >>] : k \in {"norules", "bad"}}

MCContents ==
    ("global.yaml" :> Holding({<<r>> : r \in {o \in OneRule : o.id = "r"}} \union OtherRules) \union Broken) @@
    ("high.yaml" :> Holding({<<r>> : r \in OneRule} \union OtherRules)) @@
    ("custom.yaml" :> Holding({<<Raw("v", 2, Match, "Block")>>}) \union Broken)

Request(path, ip, payload, headers, cookies, tier) ==
    [plain |-> [Path |-> path, Ip |-> ip, Method |-> <<"G">>, SessionId |-> << >>,
                DeviceFp |-> << >>],
     payload |-> payload, headers |-> headers, cookies |-> cookies, tier |-> tier,
     content_type |-> IF payload = << >> THEN None ELSE <<"t">>]

NoNames == [n \in {} |-> << >>]
MCContexts == {
    Request(<<"a">>, <<"v4.1">>, << >>, NoNames, NoNames, "High"),
    Request(<<"a", "/", "b">>, <<"v4.0">>, << >>, NoNames, NoNames, "High"),
    Request(<<"A", "b">>, <<"v4.3">>, <<"a">>, [H |-> <<"a">>], [k |-> <<"a">>], "CatchAll"),
    Request(<<"b">>, <<"v6.1">>, <<"bad">>, [h |-> <<"bad">>], [k |-> <<"b">>], "High")}

MCSkips == {{}, {"r"}}

Upto(S, n) == UNION {[1 .. k -> S] : k \in 0 .. n}
MCSamples ==
    (Upto({"a", "*", "?"}, 4) \X Upto({"a", "b"}, 3)) \union
    ({<<i, "/", n>> : i \in {"v4.0", "v4.1", "v4.3", "v6.1", "zz"},
                      n \in {"n0", "n1", "n2", "n3", "n9", "x"}} \X
     {<<i>> : i \in {"v4.0", "v4.1", "v4.3", "v6.1", "v6.5", "zz"}})
=============================================================================
