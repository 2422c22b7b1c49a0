---------------------------- MODULE RuleEngines ----------------------------
(***************************************************************************)
(* The four rule evaluators side by side, as the compare_* programs run    *)
(* them: rule files are written, every evaluator loads the directory, and  *)
(* a request is put to all of them, or the matchers are tried alone.       *)
(***************************************************************************)
EXTENDS RuleTexts, FiniteSets

CONSTANTS
    FileNames, ConfigKey, DebugName,
    ExtraFile,   \* a YAML file in the directory besides FileNames
    Contents,    \* what each file may hold: file -> set of [kind, rules]
    Contexts,    \* requests
    Skips,       \* lists of rules to skip, as sets of ids
    Samples      \* patterns and texts put to the matchers alone

Plain == INSTANCE RuleEngine
Cached == INSTANCE CachedRuleEngine
Crate == INSTANCE RuleCrate
Opt == INSTANCE OptimizedRuleCrate

VARIABLES
    pc,       \* "edit", "sample", "loaded", "asked"
    dir,      \* file -> [kind, rules]
    sets,     \* evaluator -> the rule set it has loaded, or Err
    request,  \* [ctx, skip], or None
    answers,  \* evaluator -> the id it reports, None, or Err without rules
    sample

vars == <<pc, dir, sets, request, answers, sample>>

Engines == {"plain", "cached", "crate", "opt"}
Files == ToSet(FileNames) \union {ExtraFile}
NoFile == [kind |-> "missing", rules |-> << >>]

-----------------------------------------------------------------------------
Init ==
    /\ pc = "edit"
    /\ dir = [n \in Files |-> NoFile]
    /\ sets = [e \in Engines |-> Err]
    /\ request = None
    /\ answers = [e \in Engines |-> Err]
    /\ sample = None

WriteFile ==
    /\ pc = "edit"
    /\ \E n \in Files : \E c \in Contents[n] : dir[n] = NoFile /\ dir' = [dir EXCEPT ![n] = c]
    /\ UNCHANGED <<pc, sets, request, answers, sample>>

LoadAll ==
    /\ pc = "edit"
    /\ \E p \in Plain!load_from_path(dir), c \in Cached!load_from_path(dir),
          r \in Crate!load_from_path(dir), o \in Opt!load_from_path(dir) :
         sets' = [plain |-> p, cached |-> c, crate |-> r, opt |-> o]
    /\ pc' = "loaded"
    /\ UNCHANGED <<dir, request, answers, sample>>

Ask ==
    /\ pc = "loaded"
    /\ \E ctx \in Contexts, skip \in Skips :
         /\ request' = [ctx |-> ctx, skip |-> skip]
         /\ answers' =
              [plain  |-> IF sets.plain = Err THEN Err ELSE Plain!evaluate(sets.plain, ctx, skip),
               cached |-> IF sets.cached = Err THEN Err ELSE Cached!evaluate(sets.cached, ctx, skip),
               crate  |-> IF sets.crate = Err THEN Err ELSE Crate!evaluate(sets.crate, ctx, skip),
               opt    |-> IF sets.opt = Err THEN Err ELSE Opt!evaluate(sets.opt, ctx)]
    /\ pc' = "asked"
    /\ UNCHANGED <<dir, sets, sample>>

\* The matchers alone: a pattern or network, and a text or address.
Sample ==
    /\ pc = "edit" /\ \A n \in Files : dir[n] = NoFile
    /\ sample' \in Samples
    /\ pc' = "sample"
    /\ UNCHANGED <<dir, sets, request, answers>>

Next == WriteFile \/ LoadAll \/ Ask \/ Sample

Spec == Init /\ [][Next]_vars

-----------------------------------------------------------------------------
(***************************************************************************)
(* Properties                                                              *)
(***************************************************************************)
Written(names) == UNION {ToSet(dir[n].rules) : n \in names}
Read == Written(ToSet(FileNames))

\* Type invariant: rules as types.rs declares them, and answers that name a
\* rule of the directory.
RuleTypeOK ==
    /\ pc \in {"edit", "sample", "loaded", "asked"}
    /\ \A n \in Files : \A r \in ToSet(dir[n].rules) :
         IsRaw(r) /\ \A l \in ToSet(Cached!Leaves(r.condition)) : IsLeaf(l)
    /\ \A e \in Engines : answers[e] \in {r.id : r \in Written(Files)} \union {None, Err}

Apart(rs) == \A r, s \in rs : r # s => r.priority # s.priority

\* The regex cache is transparent: the evaluators of src/rule and of
\* src/optimized_rule accept the same files and, unless two rules have the
\* same priority, report the same rule (compile, populate_regex_keys).
CacheIsTransparent ==
    /\ (sets.plain = Err) = (sets.cached = Err)
    /\ pc = "asked" /\ Apart(Read) => answers.plain = answers.cached

\* The rule reported applies and does more than log, and no other such rule
\* has precedence over it ("lower = higher precedence", "first non-log
\* match"), whatever the unstable sort did (compile, evaluate).
HighestPrecedence ==
    pc = "asked" =>
      LET ctx == request.ctx
          InPlain(r) == /\ ~Plain!Skipped(r, ctx, request.skip) /\ r.action # "Log"
                        /\ Plain!eval_node(r.condition, ctx)
          InCrate(r) == /\ ~Crate!Rule!Skipped(r, ctx, request.skip) /\ r.action # "Log"
                        /\ Crate!eval_node(r.condition, ctx)
          Best(e, Applies(_)) ==
            LET cands == {r \in Read : Applies(r)}
            IN  \/ sets[e] = Err
                \/ answers[e] = None /\ cands = {}
                \/ \E r \in cands : r.id = answers[e] /\ \A s \in cands : r.priority <= s.priority
      IN  Best("plain", InPlain) /\ Best("crate", InCrate)

\* What globset reads in a glob beside single stars, and the crates do not.
GlobsetSyntax == DOMAIN ClassOf \union {"?", "[", "]", "{", "}", "\\"}

\* What all four read alike.  A leaf: case-sensitive, a glob of characters and
\* single stars that ends in a star, a network that parses, a field the request
\* has.
CoreLeaf(l, ctx) ==
    /\ l.match_type \in {"Exact", "Wildcard", "Regex"} => l.case_sensitive
    /\ l.match_type = "Wildcard" =>
         /\ ToSet(l.value) \intersect GlobsetSyntax = {}
         /\ l.value # << >> /\ Last(l.value) = "*"
         /\ \A i \in 2 .. Len(l.value) : l.value[i] # "*" \/ l.value[i - 1] # "*"
    /\ l.match_type = "Cidr" =>
         LET parts == SplitOnce(l.value)
         IN  parts # None /\ ParseIp(parts[1]) # None /\ ParseU8(parts[2]) # None
             /\ ParseU8(parts[2]) <= Width[ParseIp(parts[1]).fam]
    /\ l.field = "Header" => l.name \in DOMAIN ctx.headers /\ "bad" \notin ToSet(ctx.headers[l.name])
    /\ l.field = "Cookie" => l.name \in DOMAIN ctx.cookies
    /\ l.field = "ContentType" => ctx.content_type # None
    /\ l.field = "Payload" => "bad" \notin ToSet(ctx.payload)

\* A rule: not a logging one, in no tier, not skipped.
CoreRule(r, ctx, skip) ==
    /\ r.action # "Log" /\ r.tier = None /\ r.id \notin skip /\ r.id # ""
    /\ r.delta \in -100 .. 100
    /\ \A l \in ToSet(Cached!Leaves(r.condition)) : CoreLeaf(l, ctx)

\* On that common core, with every file there and none besides, the four
\* evaluators accept the same files and give the same answer: elsewhere they
\* are four different languages.
EnginesAgree ==
    /\ pc = "asked"
    /\ \A n \in ToSet(FileNames) : dir[n].kind = "rules"
    /\ dir[ExtraFile].kind = "missing"
    /\ \A r \in Read : CoreRule(r, request.ctx, request.skip)
    /\ Apart(Read) /\ \A r, s \in Read : r # s => r.id # s.id
    /\ Len(FlattenSeq([i \in DOMAIN FileNames |-> dir[FileNames[i]].rules])) = Cardinality(Read)
    => \A e, f \in Engines : answers[e] = answers[f]

\* The hand-written globs against the notation their comments give.  The
\* backtracking one of crates/rule, which its evaluator calls, is exact
\* (simple_glob_match).  The two others err at the end of a pattern only: the
\* helper in lib.rs, which nothing calls, never matches more, and as much unless
\* the pattern ends in a star (that star has to take something); the one of
\* crates/optimized_rule never matches less, and no more if the pattern ends in a
\* star (otherwise it ignores the rest of the text).
GlobsMean ==
    sample # None =>
      LET pattern == sample[1]
          text == sample[2]
          means == GlobMatches(pattern, text)
          open == pattern # << >> /\ Last(pattern) = "*"
          lib == Crate!glob_match(pattern, text)
          opt == Opt!glob_match(pattern, text)
      IN  /\ Crate!simple_glob_match(pattern, text, FALSE) = means
          /\ (lib => means) /\ (~open => lib = means)
          /\ "?" \notin ToSet(pattern) => (means => opt) /\ (open => opt = means)

\* cidr_contains against ipnet: they agree on every network that parses; a
\* prefix that does not parse means the whole family instead of nothing, and
\* one that is too long the address itself.
CidrMeans ==
    sample # None /\ SplitOnce(sample[1]) # None =>
      LET net == ParseIp(SplitOnce(sample[1])[1])
          prefix == ParseU8(SplitOnce(sample[1])[2])
          ip == ParseIp(sample[2])
      IN  Plain!cidr_contains(sample[1], sample[2]) =
            (/\ net # None /\ ip # None
             /\ IF prefix = None THEN net.fam = ip.fam
                ELSE IF prefix > Width[net.fam] THEN net = ip
                ELSE IpNetContains(sample[1], sample[2]))
=============================================================================
