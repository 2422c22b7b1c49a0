----------------------------- MODULE RuleEngine -----------------------------
(***************************************************************************)
(* src/rule: the rule evaluator that compiles its regular expressions on   *)
(* every request.                                                          *)
(***************************************************************************)
EXTENDS RuleTexts

CONSTANTS
    FileNames,   \* the five rule files, in the order they are read
    ConfigKey    \* tier -> its key in the configuration (engine::tier)

-----------------------------------------------------------------------------
\* validate_condition_regexes: the patterns as they are written.
RECURSIVE RegexesOk(_)
RegexesOk(node) ==
    IF node.kind = "Leaf"
    THEN node.match_type = "Regex" => RegexOk(node.value)
    ELSE \A i \in DOMAIN node.children : RegexesOk(node.children[i])

\* What compile may return: one of the sorted lists, or an error for a repeated
\* id or a rule that does not validate.
compile(raw) ==
    IF \/ \E i, j \in DOMAIN raw : i # j /\ raw[i].id = raw[j].id
       \/ \E i \in DOMAIN raw :
            \/ raw[i].delta \notin -100 .. 100
            \/ raw[i].priority = 0
            \/ ~RegexesOk(raw[i].condition)
    THEN {Err}
    ELSE SortedByPriority(raw)

\* All of the files have to be there and to parse.
load_from_path(dir) ==
    IF \E n \in ToSet(FileNames) : dir[n].kind # "rules" THEN {Err}
    ELSE compile(FlattenSeq([i \in DOMAIN FileNames |-> dir[FileNames[i]].rules]))

-----------------------------------------------------------------------------
\* Mutant: the mask is shifted by one too many.
cidr_contains_shifted(cidr, ip) ==
    LET addr == ParseIp(ip)
        parts == SplitOnce(cidr)
    IN  /\ addr # None
        /\ IF parts = None
           THEN ParseIp(cidr) = addr
           ELSE LET net == ParseIp(parts[1])
                    parsed == ParseU8(parts[2])
                    prefix == IF parsed = None THEN 0 ELSE parsed
                    kept == IF prefix > Width[addr.fam] THEN Width[addr.fam] ELSE prefix
                    unit == 2 ^ (Width[addr.fam] - kept + 1)
                IN  /\ net # None /\ net.fam = addr.fam
                    /\ prefix = 0 \/ net.bits \div unit = addr.bits \div unit

cidr_contains(cidr, ip) ==
    LET addr == ParseIp(ip)
        parts == SplitOnce(cidr)
    IN  /\ addr # None
        /\ IF parts = None
           THEN ParseIp(cidr) = addr
           ELSE LET net == ParseIp(parts[1])
                    parsed == ParseU8(parts[2])
                    prefix == IF parsed = None THEN 0 ELSE parsed
                    kept == IF prefix > Width[addr.fam] THEN Width[addr.fam] ELSE prefix
                    unit == 2 ^ (Width[addr.fam] - kept)  \* the mask clears below it
                IN  /\ net # None /\ net.fam = addr.fam
                    /\ prefix = 0 \/ net.bits \div unit = addr.bits \div unit

\* The pattern as evaluated: case-insensitive unless the leaf says otherwise.
Pattern(leaf) ==
    IF ~leaf.case_sensitive /\ (leaf.value = << >> \/ Head(leaf.value) # "(?i)")
    THEN <<"(?i)">> \o leaf.value
    ELSE leaf.value

match_value(subject, leaf) ==
    CASE leaf.match_type = "Exact" ->
           IF leaf.case_sensitive THEN subject = leaf.value
           ELSE to_lowercase(subject) = to_lowercase(leaf.value)
      [] leaf.match_type = "Wildcard" ->
           IF leaf.case_sensitive THEN GlobsetMatches(leaf.value, subject)
           ELSE GlobsetMatches(to_lowercase(leaf.value), to_lowercase(subject))
      [] leaf.match_type = "Regex" ->
           RegexOk(Pattern(leaf)) /\ RegexMatches(Pattern(leaf), subject)
      [] leaf.match_type = "Cidr" -> cidr_contains(leaf.value, subject)
      [] leaf.match_type = "Presence" -> subject # << >>
      [] leaf.match_type = "Absence" -> subject = << >>

\* http::HeaderMap: names without regard to case; to_str refuses opaque bytes.
HeaderValue(ctx, name) ==
    IF name # None /\ \E n \in DOMAIN ctx.headers : Lower(n) = Lower(name)
    THEN Utf8OrEmpty(ctx.headers[CHOOSE n \in DOMAIN ctx.headers : Lower(n) = Lower(name)])
    ELSE << >>

Subject(leaf, ctx) ==
    CASE leaf.field = "Header" -> HeaderValue(ctx, leaf.name)
      [] leaf.field = "Cookie" ->
           IF leaf.name \in DOMAIN ctx.cookies THEN ctx.cookies[leaf.name] ELSE << >>
      [] leaf.field = "ContentType" ->
           IF ctx.content_type = None THEN << >> ELSE ctx.content_type
      [] leaf.field = "Payload" ->  \* present or absent as bytes, matched as text
           IF leaf.match_type \in {"Presence", "Absence"} THEN ctx.payload
           ELSE Utf8OrEmpty(ctx.payload)
      [] OTHER -> ctx.plain[leaf.field]

eval_leaf(leaf, ctx) == leaf.negate # match_value(Subject(leaf, ctx), leaf)

RECURSIVE eval_node(_, _)
eval_node(node, ctx) ==
    CASE node.kind = "And" -> \A i \in DOMAIN node.children : eval_node(node.children[i], ctx)
      [] node.kind = "Or" -> \E i \in DOMAIN node.children : eval_node(node.children[i], ctx)
      [] node.kind = "Leaf" -> eval_leaf(node, ctx)

\* The rules an evaluation passes over without looking at their condition.
Skipped(rule, ctx, skip_rules) ==
    \/ ~rule.enabled
    \/ rule.id \in skip_rules
    \/ rule.tier # None /\ Lower(rule.tier) \notin {"global", ConfigKey[ctx.tier]}

\* Mutant: a rule that only logs ends the evaluation.
evaluate_stops_at_log(rules, ctx, skip_rules) ==
    LET hits == {i \in DOMAIN rules :
                   ~Skipped(rules[i], ctx, skip_rules) /\ eval_node(rules[i].condition, ctx)}
    IN  IF hits = {} THEN None
        ELSE rules[CHOOSE i \in hits : \A j \in hits : i <= j].id

\* Mutant: the action is reported in place of the id.
evaluate_action(rules, ctx, skip_rules) ==
    LET hits == {i \in DOMAIN rules :
                   ~Skipped(rules[i], ctx, skip_rules) /\ eval_node(rules[i].condition, ctx)}
    IN  IF hits = {} THEN None
        ELSE rules[CHOOSE i \in hits : \A j \in hits : i <= j].action

\* The first match that does more than log.
evaluate(rules, ctx, skip_rules) ==
    LET hits == {i \in DOMAIN rules :
                   /\ ~Skipped(rules[i], ctx, skip_rules)
                   /\ eval_node(rules[i].condition, ctx)
                   /\ rules[i].action # "Log"}
    IN  IF hits = {} THEN None
        ELSE rules[CHOOSE i \in hits : \A j \in hits : i <= j].id
=============================================================================
