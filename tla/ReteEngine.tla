----------------------------- MODULE ReteEngine -----------------------------
(***************************************************************************)
(* waf-engine rules/rete: one request through Engine::fire.                *)
(*                                                                         *)
(* Network::compile has turned the rule list into terminals sorted by      *)
(* salience (`order` is the permutation the sort produced) over a shared   *)
(* alpha layer.  Every cycle recomputes the truth of all alpha nodes, then *)
(* scans the terminals and fires the first one whose guard holds over that *)
(* vector and whose name has not fired, statement by statement.            *)
(***************************************************************************)
EXTENDS GrlRules, FiniteSets

VARIABLES
    rules, fact, scratch, outcome, fired, matched,   \* as in RuleAgenda
    order,   \* terminals[k] is rules[order[k]]
    alphas,  \* the alpha nodes that were true when the vector was computed
    pc,      \* "eval", "scan", "run" or "done"
    cycle,   \* _cycle: cycles completed, 0 .. MaxCycles
    term,    \* index of the terminal being run
    ip       \* next statement of it

Cur == IF pc = "run" THEN order[term] ELSE 0

Done == pc = "done"

\* The promise, with the network, the alpha vector and the cycle counter hidden.
Agenda == INSTANCE RuleAgenda WITH cur <- Cur, done <- Done

vars == <<rules, fact, scratch, outcome, fired, matched, order, alphas, pc,
          cycle, term, ip>>

(***************************************************************************)
(* Network::compile                                                        *)
(***************************************************************************)
\* Mutant: equal saliences come out in reverse source order.
UnstableSort(o) ==
    /\ o \in [1 .. Len(rules) -> 1 .. Len(rules)]
    /\ \A r \in 1 .. Len(rules) : \E k \in 1 .. Len(rules) : o[k] = r
    /\ \A j, k \in 1 .. Len(rules) : j < k =>
          \/ rules[o[j]].salience > rules[o[k]].salience
          \/ rules[o[j]].salience = rules[o[k]].salience /\ o[j] > o[k]

\* Vec::sort_by is a stable sort: salience descending, source order among equals.
IsStableSort(o) ==
    /\ o \in [1 .. Len(rules) -> 1 .. Len(rules)]
    /\ \A r \in 1 .. Len(rules) : \E k \in 1 .. Len(rules) : o[k] = r
    /\ \A j, k \in 1 .. Len(rules) : j < k => Agenda!Precedes(o[j], o[k])

\* The interned leaves of all guards; equal leaves are one node.
AlphaNodes ==
    UNION {UNION {c.pos \union c.neg : c \in rules[r].guard} : r \in DOMAIN rules}

\* Guard::eval over the vector.
GuardEval(g, vec) == \E c \in g : c.pos \subseteq vec /\ c.neg \intersect vec = {}

Terminal(k) == rules[order[k]]

Fires(k) == GuardEval(Terminal(k).guard, alphas) /\ Terminal(k).name \notin fired

-----------------------------------------------------------------------------
Init ==
    /\ rules \in RuleSets
    /\ fact \in Facts
    /\ scratch = EmptyScratch
    /\ outcome = NoOutcome
    /\ fired = {}
    /\ matched = <<>>
    /\ order \in [1 .. Len(rules) -> 1 .. Len(rules)]
    /\ IsStableSort(order)
    /\ alphas = {}
    /\ pc = "eval"
    /\ cycle = 0
    /\ term = 1
    /\ ip = 1

\* Recompute the alpha vector against the current overlay.
EvalAlphas ==
    /\ pc = "eval"
    /\ alphas' = {a \in AlphaNodes : eval_alpha(fact, scratch, a)}
    /\ pc' = "scan"
    /\ UNCHANGED <<rules, fact, scratch, outcome, fired, matched, order, cycle, term, ip>>

\* Mutant: the name of the fired rule is not recorded.
FireForgetful(k) ==
    /\ pc = "scan"
    /\ Fires(k)
    /\ \A j \in 1 .. k - 1 : ~Fires(j)
    /\ matched' = Append(matched, Terminal(k).name)
    /\ term' = k
    /\ ip' = 1
    /\ pc' = "run"
    /\ UNCHANGED <<rules, fact, scratch, outcome, fired, order, alphas, cycle>>

\* The scan reaches terminal k: every earlier one was skipped.
Fire(k) ==
    /\ pc = "scan"
    /\ Fires(k)
    /\ \A j \in 1 .. k - 1 : ~Fires(j)
    /\ fired' = fired \union {Terminal(k).name}
    /\ matched' = Append(matched, Terminal(k).name)
    /\ term' = k
    /\ ip' = 1
    /\ pc' = "run"
    /\ UNCHANGED <<rules, fact, scratch, outcome, order, alphas, cycle>>

\* run_stmt on the next statement of the terminal.
RunStmt ==
    /\ pc = "run"
    /\ ip <= Len(Terminal(term).actions)
    /\ LET s == Terminal(term).actions[ip]
       IN  /\ scratch' = run_scratch(fact, scratch, s)
           /\ outcome' = run_action(fact, scratch, outcome, s)
           /\ fired' = run_fired(fired, s)
    /\ ip' = ip + 1
    /\ UNCHANGED <<rules, fact, matched, order, alphas, pc, cycle, term>>

\* The end of a rule with another loop condition or another place to resume,
\* for the mutants below.
EndRuleTo(stop, resume) ==
    /\ pc = "run"
    /\ ip > Len(Terminal(term).actions)
    /\ cycle' = cycle + 1
    /\ pc' = IF stop THEN "done" ELSE resume
    /\ ip' = 1
    /\ UNCHANGED <<rules, fact, scratch, outcome, fired, matched, order, alphas, term>>

\* Mutant: no cap on the number of cycles.
EndRuleUncapped == EndRuleTo(Decided(outcome), "eval")

\* Mutant: one cycle too few.
EndRuleEarlyCap == EndRuleTo(Decided(outcome) \/ cycle + 2 >= MaxCycles, "eval")

\* Mutant: allow does not end the loop.
EndRuleAllowGoesOn == EndRuleTo(outcome.block \/ cycle + 1 = MaxCycles, "eval")

\* Mutant: the scan goes on with the alpha vector of the finished cycle.
EndRuleStaleAlphas == EndRuleTo(Decided(outcome) \/ cycle + 1 = MaxCycles, "scan")

\* The rule is finished: break on block or allow, or at the cap.
EndRule ==
    /\ pc = "run"
    /\ ip > Len(Terminal(term).actions)
    /\ cycle' = cycle + 1
    /\ pc' = IF Decided(outcome) \/ cycle + 1 = MaxCycles THEN "done" ELSE "eval"
    /\ ip' = 1
    /\ UNCHANGED <<rules, fact, scratch, outcome, fired, matched, order, alphas, term>>

\* Mutant: the loop waits until every rule has fired.
QuiesceAllFired ==
    /\ pc = "scan"
    /\ \A k \in 1 .. Len(rules) : Terminal(k).name \in fired
    /\ pc' = "done"
    /\ UNCHANGED <<rules, fact, scratch, outcome, fired, matched, order, alphas,
                   cycle, term, ip>>

\* No terminal fired in this cycle (!any_new).
Quiesce ==
    /\ pc = "scan"
    /\ \A k \in 1 .. Len(rules) : ~Fires(k)
    /\ pc' = "done"
    /\ UNCHANGED <<rules, fact, scratch, outcome, fired, matched, order, alphas,
                   cycle, term, ip>>

Next ==
    \/ EvalAlphas
    \/ \E k \in 1 .. Len(rules) : Fire(k)
    \/ RunStmt
    \/ EndRule
    \/ Quiesce

\* fire is a loop without awaits: it keeps running once called.
Spec == Init /\ [][Next]_vars /\ WF_vars(Next)

-----------------------------------------------------------------------------
(***************************************************************************)
(* Properties                                                              *)
(***************************************************************************)
TypeOK ==
    /\ rules \in RuleSets
    /\ fact \in Facts
    /\ scratch \in Scratch
    /\ outcome \in Outcome
    /\ fired \in SUBSET STRING
    /\ matched \in Seq(Names)
    /\ order \in [1 .. Len(rules) -> 1 .. Len(rules)]
    /\ alphas \in SUBSET AlphaNodes
    /\ pc \in {"eval", "scan", "run", "done"}
    /\ cycle \in 0 .. MaxCycles
    /\ term \in Nat
    /\ ip \in Nat

\* Rule names identify agenda entries: even when two files define the same
\* name, or a rule assigns what makes its own guard true again, a name is
\* reported at most once in Outcome.matched_rules (engine.rs:73).
FiresAtMostOnce ==
    \A i, j \in 1 .. Len(matched) : matched[i] = matched[j] => i = j

\* When fire returns undecided and below the cap, no rule that has not fired
\* has a guard that holds on the final working memory: the last scan did not
\* judge a rule by an alpha vector older than the last assignment.
Quiescent ==
    (pc = "done" /\ ~Decided(outcome) /\ Len(matched) < MaxCycles)
        => \A r \in 1 .. Len(rules) : ~Agenda!Eligible(r)

\* A rule that blocks or allows is the last one to fire: whatever the later
\* rules are, none is matched after the flag is set (engine.rs:87-88).
DecisionIsFinal ==
    [][matched' # matched => ~Decided(outcome)]_vars

\* With no more distinct names than MAX_CYCLES the cap never hides a rule.
CapIsHarmless ==
    ( /\ pc = "done"
      /\ ~Decided(outcome)
      /\ Cardinality({rules[r].name : r \in DOMAIN rules}) <= MaxCycles )
        => \A r \in 1 .. Len(rules) : ~Agenda!Eligible(r)

\* The firing order of the compiled network is the one of the agenda.
ImplementsAgenda == Agenda!Spec

\* fire returns, whatever the rules assign.
Terminates == <>(pc = "done")
=============================================================================
