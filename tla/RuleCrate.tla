----------------------------- MODULE RuleCrate -----------------------------
(***************************************************************************)
(* crates/rule: src/rule without Consul, globset and http.  Wildcards are  *)
(* matched by hand, headers are a map with exact names, and a tier goes by *)
(* its Debug name.  What is the same text in both is taken from there.     *)
(***************************************************************************)
EXTENDS RuleTexts

CONSTANTS FileNames, DebugName   \* tier -> its Debug name in lower case

Rule == INSTANCE RuleEngine WITH ConfigKey <- DebugName

-----------------------------------------------------------------------------
RegexesOk(node) == Rule!RegexesOk(node)

compile(raw) ==
    IF \/ \E i, j \in DOMAIN raw : i # j /\ raw[i].id = raw[j].id
       \/ \E i \in DOMAIN raw :
            \/ raw[i].delta \notin -100 .. 100
            \/ raw[i].priority = 0
            \/ ~RegexesOk(raw[i].condition)
    THEN {Err}
    ELSE SortedByPriority(raw)

load_from_path(dir) ==
    IF \E n \in ToSet(FileNames) : dir[n].kind # "rules" THEN {Err}
    ELSE compile(FlattenSeq([i \in DOMAIN FileNames |-> dir[FileNames[i]].rules]))

-----------------------------------------------------------------------------
\* Mutant: a star has to take something.
RECURSIVE match_some(_, _)
match_some(p, t) ==
    IF p = << >> THEN t = << >>
    ELSE CASE p[1] = "*" -> t # << >> /\ (match_some(Tail(p), Tail(t)) \/ match_some(p, Tail(t)))
           [] p[1] = "?" -> t # << >> /\ match_some(Tail(p), Tail(t))
           [] OTHER -> t # << >> /\ t[1] = p[1] /\ match_some(Tail(p), Tail(t))

RECURSIVE match_recursive(_, _)
match_recursive(p, t) ==
    IF p = << >> THEN t = << >>
    ELSE CASE p[1] = "*" -> \/ match_recursive(Tail(p), t)
                            \/ t # << >> /\ match_recursive(p, Tail(t))
           [] p[1] = "?" -> t # << >> /\ match_recursive(Tail(p), Tail(t))
           [] OTHER -> t # << >> /\ t[1] = p[1] /\ match_recursive(Tail(p), Tail(t))

simple_glob_match(pattern, text, case_insensitive) ==
    IF case_insensitive
    THEN match_recursive(to_lowercase(pattern), to_lowercase(text))
    ELSE match_recursive(pattern, text)

\* The loop of glob_match in lib.rs: it ends with either of the two, and a star
\* that is not last tries the rest at every place but the end.
RECURSIVE glob_match(_, _)
glob_match(p, t) ==
    IF p = << >> \/ t = << >> THEN p = << >> /\ t = << >>
    ELSE CASE p[1] = "*" ->
                \/ Len(p) = 1
                \/ \E i \in 1 .. Len(t) : glob_match(Tail(p), SubSeq(t, i, Len(t)))
           [] OTHER -> (p[1] = "?" \/ p[1] = t[1]) /\ glob_match(Tail(p), Tail(t))

cidr_contains(cidr, ip) == Rule!cidr_contains(cidr, ip)

match_value(subject, leaf) ==
    CASE leaf.match_type = "Wildcard" ->
           simple_glob_match(leaf.value, subject, ~leaf.case_sensitive)
      [] leaf.match_type = "Cidr" -> cidr_contains(leaf.value, subject)
      [] OTHER -> Rule!match_value(subject, leaf)

Subject(leaf, ctx) ==
    IF leaf.field # "Header" THEN Rule!Subject(leaf, ctx)
    ELSE IF leaf.name \in DOMAIN ctx.headers THEN ctx.headers[leaf.name] ELSE << >>

eval_leaf(leaf, ctx) == leaf.negate # match_value(Subject(leaf, ctx), leaf)

RECURSIVE eval_node(_, _)
eval_node(node, ctx) ==
    CASE node.kind = "And" -> \A i \in DOMAIN node.children : eval_node(node.children[i], ctx)
      [] node.kind = "Or" -> \E i \in DOMAIN node.children : eval_node(node.children[i], ctx)
      [] node.kind = "Leaf" -> eval_leaf(node, ctx)

evaluate(rules, ctx, skip_rules) ==
    LET hits == {i \in DOMAIN rules :
                   /\ ~Rule!Skipped(rules[i], ctx, skip_rules)
                   /\ eval_node(rules[i].condition, ctx)
                   /\ rules[i].action # "Log"}
    IN  IF hits = {} THEN None
        ELSE rules[CHOOSE i \in hits : \A j \in hits : i <= j].id
=============================================================================
