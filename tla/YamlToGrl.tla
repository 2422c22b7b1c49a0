------------------------------ MODULE YamlToGrl ------------------------------
(***************************************************************************)
(* waf-engine: the way of one YAML rule file into the RETE network.        *)
(*   grl/converter.rs  YAML rules to GRL text   (here: sequences of tokens) *)
(*   grl/parser.rs     GRL text to rule ASTs                                *)
(*   rete/mod.rs       ASTs to terminals over interned alpha nodes          *)
(*                                                                         *)
(* A comparison or a function call is one token, an atom; a request is the *)
(* set of the atoms that are true of it.  Functions that recurse over a    *)
(* tree are written by level: f[n] is the function on trees of up to n     *)
(* levels, and uses f[n - 1] below the root.                               *)
(***************************************************************************)
EXTENDS Integers, Sequences, FiniteSets, Functions

CONSTANTS
    Atoms,      \* comparisons and calls
    Ignored,    \* those a scope may name and the converter writes no guard for
    Docs,       \* YAML documents: sequences of rules
    Base,       \* 1000 in the code
    Cap,        \* 150 in the code
    I32,        \* number of values of an i32, 2^32 in the code
    MaxDepth,   \* bound: levels of a condition (serde_yaml has one)
    MaxTokens   \* bound: tokens of a condition as text

VARIABLES
    doc,        \* the YAML document
    stage,      \* "yaml", "grl", "ast", "compiled" or "skipped"
    at,         \* rules of the document, or of asts, that are done
    src,        \* the text of each converted rule: [id, salience, when, lexes]
    asts,       \* what the parser made of it
    alphas,     \* keys of the alpha nodes; the index is the AlphaId
    terminals   \* terminals: [name, salience, guard]

vars == <<doc, stage, at, src, asts, alphas, terminals>>

-----------------------------------------------------------------------------
(***************************************************************************)
(* converter.rs.  A condition is a leaf, a node "and"/"or" with subs, or   *)
(* "not" with one sub; fmt tells the field/match/value notation ("new")    *)
(* from the type notation ("legacy").  A leaf is an "atom", a "pair" (a    *)
(* pattern looked for in two places), "true", "false", "bad" (not a map,   *)
(* no type, a list or an inner condition that is missing) or "unlexed" (a  *)
(* literal that does not end where it was written: a value that ends in a  *)
(* backslash, a quote in the prefix of a wildcard).  Err is a failed       *)
(* conversion, "junk" what such a literal makes of the text.               *)
(***************************************************************************)
Token == Atoms \union {"true", "false", "(", ")", "!", "&&", "||", "junk"}

Err == <<"error">>

Conditions(below) ==
    {c \in [kind : {"atom", "pair", "true", "false", "bad", "unlexed", "and", "or", "not"},
            fmt : {"new", "legacy"}, atom : Atoms, other : Atoms, subs : Seq(below)] :
        CASE c.kind \in {"and", "or"} -> TRUE
          [] c.kind = "not"           -> c.fmt = "legacy" /\ Len(c.subs) = 1
          [] OTHER                    -> c.subs = << >>}

Cond[d \in 0 .. MaxDepth] == IF d = 0 THEN {} ELSE Conditions(Cond[d - 1])

leaf_to_grl(c) ==
    CASE c.kind = "atom"    -> <<c.atom>>
      [] c.kind = "pair"    -> <<"(", c.atom, "||", c.other, ")">>
      [] c.kind = "bad"     -> Err
      [] c.kind = "unlexed" -> <<"junk">>
      [] OTHER              -> <<c.kind>>

\* parts.join(sep); an empty list gives an empty text.
Joined(parts, sep) ==
    LET text[i \in 0 .. Len(parts)] ==
            IF i = 0 THEN << >>
            ELSE IF i = 1 THEN parts[1]
            ELSE text[i - 1] \o (<<sep>> \o parts[i])
    IN  text[Len(parts)]

Paren(t) == <<"(">> \o (t \o <<")">>)

\* Mutant: the joined list is not put in parentheses.
JoinBare(parts, sep) ==
    IF \E i \in DOMAIN parts : parts[i] = Err THEN Err ELSE Joined(parts, sep)

\* A list in parentheses, unless a member could not be converted.
Join(parts, sep) ==
    IF \E i \in DOMAIN parts : parts[i] = Err THEN Err
    ELSE Paren(Joined(parts, sep))

Symbol(kind) == IF kind = "and" THEN "&&" ELSE "||"

\* new_cond_to_grl of a condition whose members it turned into parts.
new_text(c, parts) ==
    IF c.fmt # "new" THEN Err
    ELSE IF c.kind \in {"and", "or"} THEN Join(parts, Symbol(c.kind))
    ELSE leaf_to_grl(c)

new_cond_to_grl[d \in 0 .. MaxDepth] ==
    IF d = 0 THEN << >>
    ELSE [c \in Cond[d] |->
            new_text(c, [i \in DOMAIN c.subs |-> new_cond_to_grl[d - 1][c.subs[i]]])]

\* The new notation first, then the legacy one.  A new-notation node with a
\* legacy member has no "type" either.
legacy_text(c, new, parts) ==
    IF new # Err THEN new
    ELSE IF c.fmt = "new" THEN Err
    ELSE CASE c.kind \in {"and", "or"} -> Join(parts, Symbol(c.kind))
           [] c.kind = "not" -> IF parts[1] = Err THEN Err ELSE <<"!">> \o Paren(parts[1])
           [] OTHER -> leaf_to_grl(c)

cond_to_grl[d \in 0 .. MaxDepth] ==
    IF d = 0 THEN << >>
    ELSE [c \in Cond[d] |->
            legacy_text(c, new_cond_to_grl[d][c],
                        [i \in DOMAIN c.subs |-> cond_to_grl[d - 1][c.subs[i]]])]

\* A scope is an atom (a tier, a route, a client address, a session, a device),
\* "route_all" or "global".  No guard for "global", and for the kinds and the
\* notations the converter does not know.
scope_to_grl(scope) ==
    CASE scope \in Atoms \ Ignored -> <<scope>>
      [] scope = "route_all"       -> <<"true">>
      [] OTHER                     -> << >>

wrap32(n) == ((n + (I32 \div 2)) % I32) - (I32 \div 2)

clamp(n, lo, hi) == IF n < lo THEN lo ELSE IF n > hi THEN hi ELSE n

\* The priority is what as_u64 finds, 500 if there is none.
salience(r) ==
    IF r.upstream THEN clamp(Base - r.priority, 1, Cap) ELSE wrap32(Base - r.priority)

\* complete: there are an id and a condition.
when_to_grl(r) ==
    LET scope == scope_to_grl(r.scope)
        cond  == cond_to_grl[MaxDepth][r.cond]
    IN  IF ~r.complete \/ cond = Err THEN Err
        ELSE IF scope = << >> THEN cond
        ELSE Paren(scope) \o (<<"&&">> \o Paren(cond))

\* lexes: the literals of the scope and of the statements end where they were
\* written (the backend and an unknown action are written without escapes).
rule_to_grl(r) ==
    [id |-> r.id, salience |-> salience(r), when |-> when_to_grl(r), lexes |-> r.lexes]

-----------------------------------------------------------------------------
(***************************************************************************)
(* parser.rs and grl.pest: recursive descent over the tokens.  A parser is *)
(* a function from the input to the tree and the rest of the input, or to  *)
(* NoParse; inner is the parser of what is in parentheses.                 *)
(***************************************************************************)
NoParse == [ok |-> FALSE]

Parsed(tree, rest) == [ok |-> TRUE, tree |-> tree, rest |-> rest]

Expressions(below) ==
    [op : Atoms \union {"true", "false"}]
    \union [op : {"not"}, expr : below]
    \union [op : {"&&", "||"}, left : below, right : below]

Expr[n \in 0 .. MaxTokens] == IF n = 0 THEN {} ELSE Expressions(Expr[n - 1])

Binary(op, l, r) == [op |-> op, left |-> l, right |-> r]
Unary(e) == [op |-> "not", expr |-> e]

Starts(t, token) == t # << >> /\ t[1] = token

\* e and a closing parenthesis.
Closed(e) ==
    IF e.ok /\ Starts(e.rest, ")") THEN Parsed(e.tree, Tail(e.rest)) ELSE NoParse

primary(inner, t) ==
    IF t # << >> /\ t[1] \in Atoms \union {"true", "false"}
    THEN Parsed([op |-> t[1]], Tail(t))
    ELSE IF Starts(t, "(") THEN LET e == inner[Tail(t)] IN Closed(e)
    ELSE NoParse

Negated(e) == IF e.ok THEN Parsed(Unary(e.tree), e.rest) ELSE NoParse

parse_not(inner) ==
    [t \in Seq(Token) |->
        IF Starts(t, "!") THEN LET e == primary(inner, Tail(t)) IN Negated(e)
        ELSE primary(inner, t)]

Joins(op, acc, e) == IF e.ok THEN Parsed(Binary(op, acc.tree, e.tree), e.rest) ELSE acc

\* One more operator and operand, if they follow.  An operator that has no
\* operand is left unread.
onward(operand, op, acc) ==
    IF ~acc.ok \/ ~Starts(acc.rest, op) THEN acc
    ELSE LET e == operand[Tail(acc.rest)] IN Joins(op, acc, e)

\* The input t after an operand and up to rounds more of them, associating to
\* the left.
rounds_of(operand, op, t, rounds) ==
    LET after[i \in 0 .. rounds] ==
            IF i = 0 THEN operand[t]
            ELSE LET acc == after[i - 1] IN onward(operand, op, acc)
    IN  after[rounds]

\* operand (op operand)*: no more rounds than there are operators.
chain(operand, op) ==
    [t \in Seq(Token) |->
        rounds_of(operand, op, t, Cardinality({i \in DOMAIN t : t[i] = op}))]

parse_and(inner) == chain(parse_not(inner), "&&")

parse_or(inner) == chain(parse_and(inner), "||")

parse_expr[n \in 0 .. MaxTokens] ==
    IF n = 0 THEN [t \in Seq(Token) |-> NoParse] ELSE parse_or(parse_expr[n - 1])

\* A condition is the whole text between "when" and "then".
parse_when(t) == parse_or(parse_expr[MaxTokens])[t]

\* One rule that does not parse fails the whole file.
parse_ok(texts) ==
    \A i \in DOMAIN texts :
        texts[i].lexes /\ LET e == parse_when(texts[i].when) IN e.ok /\ e.rest = << >>

parse(texts) ==
    [i \in DOMAIN texts |-> [name |-> texts[i].id, salience |-> texts[i].salience,
                             when |-> parse_when(texts[i].when).tree]]

-----------------------------------------------------------------------------
(***************************************************************************)
(* rete/mod.rs: compile_guard threads the interned alphas.                 *)
(***************************************************************************)
Guards(below) ==
    [g : {"alpha"}, id : Nat]
    \union [g : {"true", "false"}]
    \union [g : {"not"}, arg : below]
    \union [g : {"&&", "||"}, gs : Seq(below)]

Guard[n \in 0 .. MaxTokens] == IF n = 0 THEN {} ELSE Guards(Guard[n - 1])

\* merge_and and merge_or flatten nested guards of the same operator.
Operands(op, guard) == IF guard.g = op THEN guard.gs ELSE <<guard>>

merge(op, l, r) == [g |-> op, gs |-> Operands(op, l) \o Operands(op, r)]

intern_alpha(net, key) ==
    IF \E i \in DOMAIN net : net[i] = key
    THEN [net |-> net, id |-> CHOOSE i \in DOMAIN net : net[i] = key]
    ELSE [net |-> Append(net, key), id |-> Len(net) + 1]

Compiled(net, guard) == [net |-> net, guard |-> guard]

\* The guard of an expression, and the alphas, given those there are already
\* and what becomes of the expressions below.
guard_of(e, net, below) ==
    CASE e.op \in {"&&", "||"} ->
            LET l == below[e.left][net]
                r == below[e.right][l.net]
            IN  Compiled(r.net, merge(e.op, l.guard, r.guard))
      [] e.op = "not" ->
            LET x == below[e.expr][net]
            IN  Compiled(x.net, [g |-> "not", arg |-> x.guard])
      [] e.op \in {"true", "false"} -> Compiled(net, [g |-> e.op])
      [] OTHER ->
            LET x == intern_alpha(net, e.op)
            IN  Compiled(x.net, [g |-> "alpha", id |-> x.id])

compile_guard[n \in 0 .. MaxTokens] ==
    IF n = 0 THEN << >>
    ELSE [e \in Expr[n] |-> [net \in Seq(Atoms) |-> guard_of(e, net, compile_guard[n - 1])]]

\* Guard::eval: an alpha vector is the set of the ids that are true, an id out
\* of range is false; a guard stands for the vectors it is true of.
true_of(guard, vec, below) ==
    CASE guard.g = "alpha" -> guard.id \in vec
      [] guard.g = "&&"    -> \A i \in DOMAIN guard.gs : vec \in below[guard.gs[i]]
      [] guard.g = "||"    -> \E i \in DOMAIN guard.gs : vec \in below[guard.gs[i]]
      [] guard.g = "not"   -> vec \notin below[guard.arg]
      [] OTHER             -> guard.g = "true"

eval[n \in 0 .. MaxTokens] ==
    IF n = 0 THEN << >>
    ELSE [guard \in Guard[n] |-> {vec \in SUBSET Nat : true_of(guard, vec, eval[n - 1])}]

\* Mutant: ascending.
sorted_ascending(ts, order) ==
    \A k, l \in DOMAIN order : k < l =>
        \/ ts[order[k]].salience < ts[order[l]].salience
        \/ ts[order[k]].salience = ts[order[l]].salience /\ order[k] < order[l]

\* sort_by is stable: salience descending, source order among equals.
sorted_by_salience(ts, order) ==
    \A k, l \in DOMAIN order : k < l =>
        \/ ts[order[k]].salience > ts[order[l]].salience
        \/ ts[order[k]].salience = ts[order[l]].salience /\ order[k] < order[l]

-----------------------------------------------------------------------------
Init ==
    /\ doc \in Docs
    /\ stage = "yaml"
    /\ at = 0
    /\ src = << >>
    /\ asts = << >>
    /\ alphas = << >>
    /\ terminals = << >>

\* Mutant: the first rule that cannot be converted ends the file.
ConvertRuleOrStop ==
    /\ stage = "yaml" /\ at < Len(doc)
    /\ LET text == rule_to_grl(doc[at + 1])
       IN  IF text.when = Err THEN at' = Len(doc) /\ UNCHANGED src
           ELSE at' = at + 1 /\ src' = Append(src, text)
    /\ UNCHANGED <<doc, stage, asts, alphas, terminals>>

\* A rule that cannot be converted is skipped.
ConvertRule ==
    /\ stage = "yaml" /\ at < Len(doc)
    /\ LET text == rule_to_grl(doc[at + 1])
       IN  src' = IF text.when = Err THEN src ELSE Append(src, text)
    /\ at' = at + 1
    /\ UNCHANGED <<doc, stage, asts, alphas, terminals>>

EndConvert ==
    /\ stage = "yaml" /\ at = Len(doc)
    /\ stage' = "grl"
    /\ UNCHANGED <<doc, at, src, asts, alphas, terminals>>

Parse ==
    /\ stage = "grl"
    /\ parse_ok(src)
    /\ stage' = "ast"
    /\ asts' = parse(src)
    /\ at' = 0
    /\ UNCHANGED <<doc, src, alphas, terminals>>

\* The loader warns and goes on with the next file.
Skip ==
    /\ stage = "grl"
    /\ ~parse_ok(src)
    /\ stage' = "skipped"
    /\ UNCHANGED <<doc, at, src, asts, alphas, terminals>>

CompileRule ==
    /\ stage = "ast" /\ at < Len(asts)
    /\ LET r == asts[at + 1]
           x == compile_guard[MaxTokens][r.when][alphas]
       IN  /\ alphas' = x.net
           /\ terminals' = Append(terminals, [name |-> r.name, salience |-> r.salience,
                                              guard |-> x.guard])
    /\ at' = at + 1
    /\ UNCHANGED <<doc, stage, src, asts>>

Sort ==
    /\ stage = "ast" /\ at = Len(asts)
    /\ \E order \in [DOMAIN terminals -> DOMAIN terminals] :
          /\ IsInjective(order)
          /\ sorted_by_salience(terminals, order)
          /\ terminals' = [k \in DOMAIN terminals |-> terminals[order[k]]]
    /\ stage' = "compiled"
    /\ UNCHANGED <<doc, at, src, asts, alphas>>

Next == ConvertRule \/ EndConvert \/ Parse \/ Skip \/ CompileRule \/ Sort

Spec == Init /\ [][Next]_vars

-----------------------------------------------------------------------------
(***************************************************************************)
(* The meaning of a YAML condition, as the set of the requests it is true  *)
(* of: and, or and not as in matcher.rs evaluate; a leaf means what the    *)
(* converter writes for it.  A scope restricts a rule to the requests it   *)
(* names (rule.rs RuleScope).                                              *)
(***************************************************************************)
Requests == SUBSET Atoms

matches(c, env, subs) ==
    CASE c.kind = "atom" -> c.atom \in env
      [] c.kind = "pair" -> c.atom \in env \/ c.other \in env
      [] c.kind = "and"  -> \A i \in DOMAIN subs : env \in subs[i]
      [] c.kind = "or"   -> \E i \in DOMAIN subs : env \in subs[i]
      [] c.kind = "not"  -> env \notin subs[1]
      [] OTHER           -> c.kind = "true"

evaluate[d \in 0 .. MaxDepth] ==
    IF d = 0 THEN << >>
    ELSE [c \in Cond[d] |->
            {env \in Requests :
                matches(c, env, [i \in DOMAIN c.subs |-> evaluate[d - 1][c.subs[i]]])}]

Applies(r) ==
    {env \in evaluate[MaxDepth][r.cond] : r.scope \in Atoms => r.scope \in env}

\* A condition and all that is below it.
Nodes[d \in 0 .. MaxDepth] ==
    IF d = 0 THEN << >>
    ELSE [c \in Cond[d] |->
            {c} \union UNION {Nodes[d - 1][c.subs[i]] : i \in DOMAIN c.subs}]

\* No list of the condition is empty, and its literals end where they should.
Filled(c) ==
    \A x \in Nodes[MaxDepth][c] :
        x.kind # "unlexed" /\ (x.kind \in {"and", "or"} => x.subs # << >>)

\* No part of the condition is missing, and the notations are not mixed below a
\* new-notation node.
Pure(c) ==
    \A x \in Nodes[MaxDepth][c] :
        x.kind # "bad" /\ (x.fmt = "new" => \A i \in DOMAIN x.subs : x.subs[i].fmt = "new")

\* The rules that become text, and those whose text is GRL.
Converts(r) == r.complete /\ Pure(r.cond)
IsGrl(r) == r.lexes /\ Filled(r.cond)

ASSUME YamlAssumption ==
    /\ Base \in Nat /\ Cap \in 1 .. Base
    /\ I32 \in Nat \ {0} /\ Base < I32 - (I32 \div 2)
    /\ MaxDepth \in Nat /\ MaxTokens \in Nat
    /\ Atoms \subseteq STRING /\ Ignored \subseteq Atoms
    /\ Atoms \intersect {"true", "false", "(", ")", "!", "&&", "||", "junk", "not", "error",
                         "global", "route_all"} = {}
    /\ \A d \in Docs : \A i \in DOMAIN d :
          /\ d[i].cond \in Cond[MaxDepth]
          /\ d[i].priority \in Nat /\ d[i].upstream \in BOOLEAN
          /\ Len(when_to_grl(d[i])) <= MaxTokens
    /\ Docs \subseteq Seq([id : STRING, cond : Cond[MaxDepth],
                           scope : Atoms \union {"global", "route_all"}, priority : Nat,
                           upstream : BOOLEAN, complete : BOOLEAN, lexes : BOOLEAN])

\* Which rule of the document each terminal is: another one each, of its name.
Origins ==
    {of \in [DOMAIN terminals -> DOMAIN doc] :
        IsInjective(of) /\ \A k \in DOMAIN terminals : terminals[k].name = doc[of[k]].id}

Vector(net, env) == {i \in DOMAIN net : net[i] \in env}

Fires(t, env) == Vector(alphas, env) \in eval[MaxTokens][t.guard]

\* Every terminal's guard, evaluated over the alpha vector of a request, says
\* what its YAML rule says of that request: parentheses, precedence, the
\* flattening of guards and the sharing of alpha nodes between rules lose
\* nothing on the way (converter.rs:262-267, parser.rs:69-130, mod.rs:57-131).
\* A rule with a scope the converter ignores fires where it applies, and
\* elsewhere too (ScopesRestrict).
GuardsMean ==
    stage = "compiled" =>
        \E of \in Origins : \A k \in DOMAIN terminals, env \in Requests :
            LET r == doc[of[k]]
            IN  /\ env \in Applies(r) => Fires(terminals[k], env)
                /\ Fires(terminals[k], env) /\ r.scope \notin Ignored => env \in Applies(r)

\* A rule fires on no request outside its scope, whatever the kind of the scope.
\* rule.rs:21: the scope is "Where the rule applies"; docs/req.md:46: "Rule scope:
\* global, per-tier, per-route-pattern, per-IP, per-session, per-device".
ScopesRestrict ==
    stage = "compiled" =>
        \E of \in Origins : \A k \in DOMAIN terminals, env \in Requests :
            Fires(terminals[k], env) => env \in Applies(doc[of[k]])

\* A rule without id or condition, and one whose condition misses a part or
\* mixes notations, is left out alone; an empty list and a literal that does not
\* lex are not noticed before the parser and cost the whole file; no other rule
\* is lost (converter.rs:25-30, loader.rs:69-75).
OnlyBadRulesAreLost ==
    LET good == {i \in DOMAIN doc : Converts(doc[i])}
    IN  /\ stage = "compiled" => \E of \in Origins : Range(of) = good
        /\ stage \in {"ast", "compiled", "skipped"} =>
              (stage = "skipped" <=> \E i \in good : ~IsGrl(doc[i]))

\* A rule that has to run before another.
Precedes(q, r) ==
    \/ /\ ~q.upstream /\ ~r.upstream /\ q.priority < r.priority
       /\ r.priority <= Base + I32 \div 2
    \/ ~q.upstream /\ r.upstream /\ q.priority < Base - Cap

\* Detection rules run in the order of their priorities, and before every
\* routing rule if their priority is below Base - Cap (converter.rs:41-48).  At
\* Base - Cap the saliences may be equal and the file decides; above it a routing
\* rule may run first.
PriorityOrder ==
    stage = "compiled" =>
        \E of \in Origins : \A k, l \in DOMAIN terminals :
            Precedes(doc[of[k]], doc[of[l]]) => k < l
==============================================================================
