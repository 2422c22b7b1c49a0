-------------------------- MODULE CachedRuleEngine --------------------------
(***************************************************************************)
(* src/optimized_rule: the evaluator of src/rule with its regular          *)
(* expressions compiled once, at load time, into a cache that leaves point *)
(* into.  What is the same text in both sources is taken from there.       *)
(***************************************************************************)
EXTENDS RuleTexts

CONSTANTS FileNames, ConfigKey

Rule == INSTANCE RuleEngine

-----------------------------------------------------------------------------
RECURSIVE Leaves(_)
Leaves(node) ==
    IF node.kind = "Leaf" THEN <<node>>
    ELSE FlattenSeq([i \in DOMAIN node.children |-> Leaves(node.children[i])])

\* The pattern under which a leaf is cached.
CachedPattern(leaf) == Rule!Pattern(leaf)

\* Mutant: leaves share an entry if they are written alike.
collect_by_value(cache, leaf) ==
    IF leaf.match_type # "Regex" \/ \E i \in DOMAIN cache : cache[i].value = leaf.value
    THEN cache
    ELSE Append(cache, [pattern |-> CachedPattern(leaf), value |-> leaf.value])

\* One leaf: a pattern that is not in the cache gets the next key ("regex_" and
\* the number of entries), here its place in the list.
collect_regex_patterns(cache, leaf) ==
    IF leaf.match_type # "Regex" \/ \E i \in DOMAIN cache : cache[i].pattern = CachedPattern(leaf)
    THEN cache
    ELSE Append(cache, [pattern |-> CachedPattern(leaf), value |-> leaf.value])

CacheOf(raw) ==
    FoldLeft(collect_regex_patterns, << >>,
             FlattenSeq([i \in DOMAIN raw |-> Leaves(raw[i].condition)]))

\* A leaf is given the key of its pattern; None if the cache does not have it.
KeyOf(leaf, cache) ==
    LET keys == {i \in DOMAIN cache : cache[i].pattern = CachedPattern(leaf)}
    IN  IF keys = {} THEN None ELSE CHOOSE i \in keys : TRUE

RECURSIVE populate_regex_keys(_, _)
populate_regex_keys(node, cache) ==
    IF node.kind # "Leaf"
    THEN [node EXCEPT !.children =
            [i \in DOMAIN @ |-> populate_regex_keys(@[i], cache)]]
    ELSE IF node.match_type = "Regex" THEN [node EXCEPT !.key = KeyOf(node, cache)]
    ELSE node

\* The patterns are compiled first, those of a rule that is refused later too.
compile(raw) ==
    LET cache == CacheOf(raw)
        leaves == FlattenSeq([i \in DOMAIN raw |-> Leaves(raw[i].condition)])
        keyed == [i \in DOMAIN raw |->
                    [raw[i] EXCEPT !.condition = populate_regex_keys(@, cache)]]
    IN  IF \/ \E i \in DOMAIN cache : ~RegexOk(cache[i].pattern)
           \/ \E i, j \in DOMAIN raw : i # j /\ raw[i].id = raw[j].id
           \/ \E i \in DOMAIN raw : raw[i].delta \notin -100 .. 100 \/ raw[i].priority = 0
           \/ \E i \in DOMAIN leaves :
                leaves[i].match_type = "Regex" /\ KeyOf(leaves[i], cache) = None
        THEN {Err}
        ELSE {[rules |-> s, cache |-> cache] : s \in SortedByPriority(keyed)}

load_from_path(dir) ==
    IF \E n \in ToSet(FileNames) : dir[n].kind # "rules" THEN {Err}
    ELSE compile(FlattenSeq([i \in DOMAIN FileNames |-> dir[FileNames[i]].rules]))

-----------------------------------------------------------------------------
cidr_contains(cidr, ip) == Rule!cidr_contains(cidr, ip)

match_value(subject, leaf, cache) ==
    IF leaf.match_type = "Regex"
    THEN leaf.key \in DOMAIN cache /\ RegexMatches(cache[leaf.key].pattern, subject)
    ELSE Rule!match_value(subject, leaf)

eval_leaf(leaf, ctx, cache) ==
    leaf.negate # match_value(Rule!Subject(leaf, ctx), leaf, cache)

RECURSIVE eval_node(_, _, _)
eval_node(node, ctx, cache) ==
    CASE node.kind = "And" ->
           \A i \in DOMAIN node.children : eval_node(node.children[i], ctx, cache)
      [] node.kind = "Or" ->
           \E i \in DOMAIN node.children : eval_node(node.children[i], ctx, cache)
      [] node.kind = "Leaf" -> eval_leaf(node, ctx, cache)

evaluate(set, ctx, skip_rules) ==
    LET hits == {i \in DOMAIN set.rules :
                   /\ ~Rule!Skipped(set.rules[i], ctx, skip_rules)
                   /\ eval_node(set.rules[i].condition, ctx, set.cache)
                   /\ set.rules[i].action # "Log"}
    IN  IF hits = {} THEN None
        ELSE set.rules[CHOOSE i \in hits : \A j \in hits : i <= j].id
=============================================================================
