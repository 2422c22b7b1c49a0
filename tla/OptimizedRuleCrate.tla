------------------------- MODULE OptimizedRuleCrate -------------------------
(***************************************************************************)
(* crates/optimized_rule: an evaluator of its own over the same rules.  It *)
(* takes every YAML file of the directory, keeps case as it is, knows      *)
(* neither tiers nor skipped rules, and stops at the first match of any    *)
(* action.                                                                 *)
(***************************************************************************)
EXTENDS RuleTexts

-----------------------------------------------------------------------------
validate_rule_structure(raw) == raw.id # "" /\ raw.priority # 0

\* The cache maps a pattern, as it is written, to itself.
RECURSIVE collect_regex_patterns(_)
collect_regex_patterns(node) ==
    IF node.kind = "Leaf"
    THEN IF node.match_type = "Regex" THEN {node.value} ELSE {}
    ELSE UNION {collect_regex_patterns(node.children[i]) : i \in DOMAIN node.children}

RECURSIVE populate_regex_keys(_, _)
populate_regex_keys(node, patterns) ==
    IF node.kind # "Leaf"
    THEN [node EXCEPT !.children =
            [i \in DOMAIN @ |-> populate_regex_keys(@[i], patterns)]]
    ELSE IF node.match_type = "Regex" /\ node.value \in patterns
    THEN [node EXCEPT !.key = node.value]
    ELSE node

\* The sort is stable.
StableSort(rs) ==
    LET before(i, j) == \/ rs[i].priority < rs[j].priority
                        \/ rs[i].priority = rs[j].priority /\ i < j
        order == SetToSortSeq(DOMAIN rs, before)
    IN  [k \in DOMAIN order |-> rs[order[k]]]

\* The files in the order the directory lists them.  One that does not parse
\* is an error, one without a list of rules is passed over.
load_from_path(dir) ==
    LET present == {n \in DOMAIN dir : dir[n].kind # "missing"}
        Result(order) ==
            LET raw == FlattenSeq([i \in DOMAIN order |-> dir[order[i]].rules])
                patterns == UNION {collect_regex_patterns(raw[i].condition) : i \in DOMAIN raw}
            IN  IF \/ \E i \in DOMAIN raw : ~validate_rule_structure(raw[i])
                   \/ \E p \in patterns : ~RegexOk(p)
                THEN Err
                ELSE [rules |-> StableSort([i \in DOMAIN raw |->
                         [raw[i] EXCEPT !.condition = populate_regex_keys(@, patterns)]]),
                      cache |-> patterns]
    IN  IF \E n \in present : dir[n].kind = "bad" THEN {Err}
        ELSE {Result(order) : order \in SetToSeqs(present)}

-----------------------------------------------------------------------------
\* str::find: the first place, counted from 0, or None.
Find(text, part) ==
    LET at == {i \in 0 .. Len(text) - Len(part) : SubSeq(text, i + 1, i + Len(part)) = part}
    IN  IF at = {} THEN None ELSE CHOOSE i \in at : \A j \in at : i <= j

\* split('*')
RECURSIVE SplitStars(_)
SplitStars(p) ==
    IF "*" \notin ToSet(p) THEN <<p>>
    ELSE LET at == CHOOSE i \in DOMAIN p : p[i] = "*" /\ \A j \in 1 .. i - 1 : p[j] # "*"
         IN  <<SubSeq(p, 1, at - 1)>> \o SplitStars(SubSeq(p, at + 1, Len(p)))

\* What is left of the text after the first place of the part.
AfterPart(remaining, part) ==
    IF remaining = None \/ Find(remaining, part) = None THEN None
    ELSE SubSeq(remaining, Find(remaining, part) + Len(part) + 1, Len(remaining))

glob_match(pattern, text) ==
    LET parts == SplitStars(pattern)
    IN  /\ IsPrefix(parts[1], text)
        /\ FoldLeft(AfterPart, SubSeq(text, Len(parts[1]) + 1, Len(text)), Tail(parts)) # None

cidr_match(cidr, ip) == IpNetContains(cidr, ip)

match_value(value, leaf, cache) ==
    CASE leaf.match_type = "Exact" -> value = leaf.value
      [] leaf.match_type = "Wildcard" -> glob_match(leaf.value, value)
      [] leaf.match_type = "Regex" ->
           leaf.key # None /\ leaf.key \in cache /\ RegexMatches(leaf.key, value)
      [] leaf.match_type = "Cidr" -> cidr_match(leaf.value, value)
      [] leaf.match_type = "Presence" -> value # << >>
      [] leaf.match_type = "Absence" -> value = << >>

\* A header, cookie or content type that is not there matches nothing, not even
\* the absence of it; negation comes after.
Subject(leaf, ctx) ==
    CASE leaf.field = "Header" ->
           IF leaf.name \in DOMAIN ctx.headers THEN ctx.headers[leaf.name] ELSE None
      [] leaf.field = "Cookie" ->
           IF leaf.name \in DOMAIN ctx.cookies THEN ctx.cookies[leaf.name] ELSE None
      [] leaf.field = "ContentType" -> ctx.content_type
      [] leaf.field = "Payload" -> Utf8Lossy(ctx.payload)
      [] OTHER -> ctx.plain[leaf.field]

eval_leaf(leaf, ctx, cache) ==
    LET value == Subject(leaf, ctx)
    IN  leaf.negate # (value # None /\ match_value(value, leaf, cache))

RECURSIVE eval(_, _, _)
eval(node, ctx, cache) ==
    CASE node.kind = "And" -> \A i \in DOMAIN node.children : eval(node.children[i], ctx, cache)
      [] node.kind = "Or" -> \E i \in DOMAIN node.children : eval(node.children[i], ctx, cache)
      [] node.kind = "Leaf" -> eval_leaf(node, ctx, cache)

evaluate(set, ctx) ==
    LET hits == {i \in DOMAIN set.rules :
                   set.rules[i].enabled /\ eval(set.rules[i].condition, ctx, set.cache)}
    IN  IF hits = {} THEN None
        ELSE set.rules[CHOOSE i \in hits : \A j \in hits : i <= j].id
=============================================================================
