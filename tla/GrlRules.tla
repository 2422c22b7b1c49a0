------------------------------ MODULE GrlRules ------------------------------
(***************************************************************************)
(* The vocabulary of GRL rules: guards, statements, the working memory a   *)
(* request is evaluated in and the effect of one statement on it.          *)
(***************************************************************************)
EXTENDS Integers, Sequences

CONSTANTS
    Names,      \* rule names (strings): the identity used by `fired` and retract
    Paths,      \* GRL paths a rule reads or assigns, e.g. Request.RiskScore
    NoPath,     \* the absent source path of an assignment of a literal
    RuleSets,   \* the rule lists the loader can hand to Network::compile
    Facts,      \* the requests: what resolve() gives for every path
    MaxCycles,  \* engine.rs MAX_CYCLES, 16 in the code
    U64         \* number of values of a u64, 2^64 in the code

(***************************************************************************)
(* GRL: a leaf of a `when` clause compares a path with a literal, a guard  *)
(* is the set of its disjuncts, each a set of leaves that must hold and a  *)
(* set that must not; TRUE is {Always} and FALSE is {}.                    *)
(***************************************************************************)
Alpha == [path : Paths, cmp : {"ge", "lt", "eq"}, val : Int]

Clause == [pos : SUBSET Alpha, neg : SUBSET Alpha]

Always == [pos |-> {}, neg |-> {}]

Ops == {"assign", "block", "allow", "challenge", "rate_limit", "log",
        "retract", "unknown"}

Stmt == [op : Ops, path : Paths, src : Paths \union {NoPath}, val : Int,
         arg : STRING]

RuleAst == [name : Names, salience : Int, guard : SUBSET Clause,
            actions : Seq(Stmt)]

ASSUME ConstantsAssumption ==
    /\ Names \subseteq STRING
    /\ NoPath \notin Paths
    /\ RuleSets \subseteq Seq(RuleAst)
    /\ Facts \subseteq [Paths -> Int]
    /\ MaxCycles \in Nat \ {0}
    /\ U64 \in Nat \ {0}

(***************************************************************************)
(* The mutable part of a WorkingMemory: the overlay of assigned values     *)
(* (`assigned` is its key set) and the outcome.  rate_limit_secs = -1 is   *)
(* None; log_messages only counts what was logged.                         *)
(***************************************************************************)
Outcome == [block : BOOLEAN, allow : BOOLEAN, challenge : {"none", "js", "pow"},
            rate_limit_secs : Int, log_messages : Nat]

NoOutcome == [block |-> FALSE, allow |-> FALSE, challenge |-> "none",
              rate_limit_secs |-> -1, log_messages |-> 0]

Scratch == [assigned : SUBSET Paths, value : [Paths -> Int]]

EmptyScratch == [assigned |-> {}, value |-> [p \in Paths |-> 0]]

read_path(fact, scratch, p) ==
    IF p \in scratch.assigned THEN scratch.value[p] ELSE fact[p]

write_path(scratch, p, v) ==
    [assigned |-> scratch.assigned \union {p},
     value    |-> [scratch.value EXCEPT ![p] = v]]

eval_alpha(fact, scratch, a) ==
    LET v == read_path(fact, scratch, a.path)
    IN  \/ a.cmp = "ge" /\ v >= a.val
        \/ a.cmp = "lt" /\ v < a.val
        \/ a.cmp = "eq" /\ v = a.val

\* The meaning of a `when` clause on the current working memory.
When(fact, scratch, guard) ==
    \E c \in guard : /\ \A a \in c.pos : eval_alpha(fact, scratch, a)
                     /\ \A a \in c.neg : ~eval_alpha(fact, scratch, a)

eval_expr(fact, scratch, s) ==
    s.val + IF s.src = NoPath THEN 0 ELSE read_path(fact, scratch, s.src)

(***************************************************************************)
(* One statement of a `then` block: its effect on overlay, outcome and     *)
(* the set of names that may not fire any more.                            *)
(***************************************************************************)
run_scratch(fact, scratch, s) ==
    IF s.op = "assign" THEN write_path(scratch, s.path, eval_expr(fact, scratch, s))
                       ELSE scratch

run_action(fact, scratch, out, s) ==
    CASE s.op = "block"      -> [out EXCEPT !.block = TRUE]
      [] s.op = "allow"      -> [out EXCEPT !.allow = TRUE]
      [] s.op = "challenge"  -> [out EXCEPT !.challenge =
                                     IF s.arg = "pow" THEN "pow" ELSE "js"]
      [] s.op = "rate_limit" -> [out EXCEPT !.rate_limit_secs =
                                     IF s.arg = "none" THEN 60 % U64
                                     ELSE eval_expr(fact, scratch, s) % U64]
      [] s.op \in {"log", "unknown"} -> [out EXCEPT !.log_messages = @ + 1]
      [] OTHER               -> out

run_fired(fired, s) == IF s.op = "retract" THEN fired \union {s.arg} ELSE fired

Decided(out) == out.block \/ out.allow

\* outcome_to_decision: block wins, then challenge, then rate-limit.  The
\* allow flag ends the firing loop but is not consulted here.
outcome_to_decision(out) ==
    CASE out.block               -> "Block"
      [] out.challenge # "none"  -> "Challenge"
      [] out.rate_limit_secs # -1 -> "RateLimit"
      [] OTHER                   -> "Allow"

=============================================================================
