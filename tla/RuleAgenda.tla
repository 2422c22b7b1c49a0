----------------------------- MODULE RuleAgenda -----------------------------
(***************************************************************************)
(* What one call of Engine::fire promises, without the RETE network: no    *)
(* sorted terminals, no alpha vector, no hash-consing.  A rule list and a  *)
(* request are given.  Whenever the engine looks for work it fires the     *)
(* eligible rule of highest salience (the earlier one in the list among    *)
(* equals), judged against what the statements run so far have assigned,   *)
(* and it keeps going until nothing is eligible, a rule has blocked or     *)
(* allowed the request, or MaxCycles rules have fired.                     *)
(* ReteEngine implements this specification.                               *)
(***************************************************************************)
EXTENDS GrlRules

VARIABLES
    rules,    \* the rule list, in the order the loader produced it
    fact,     \* the request
    scratch,  \* overlay of assigned paths
    outcome,  \* what the action functions have emitted
    fired,    \* names that have fired or were retracted
    matched,  \* names in firing order (Outcome.matched_rules)
    cur,      \* index in rules of the rule being run, 0 when none is
    ip,       \* next statement of that rule
    done      \* fire has returned

vars == <<rules, fact, scratch, outcome, fired, matched, cur, ip, done>>

Eligible(r) ==
    /\ rules[r].name \notin fired
    /\ When(fact, scratch, rules[r].guard)

\* r comes before q on the agenda.
Precedes(r, q) ==
    \/ rules[r].salience > rules[q].salience
    \/ rules[r].salience = rules[q].salience /\ r < q

Init ==
    /\ rules \in RuleSets
    /\ fact \in Facts
    /\ scratch = EmptyScratch
    /\ outcome = NoOutcome
    /\ fired = {}
    /\ matched = <<>>
    /\ cur = 0
    /\ ip = 1
    /\ done = FALSE

Begin(r) ==
    /\ ~done
    /\ cur = 0
    /\ Eligible(r)
    /\ \A q \in DOMAIN rules : Eligible(q) => q = r \/ Precedes(r, q)
    /\ cur' = r
    /\ ip' = 1
    /\ fired' = fired \union {rules[r].name}
    /\ matched' = Append(matched, rules[r].name)
    /\ UNCHANGED <<rules, fact, scratch, outcome, done>>

Run ==
    /\ cur # 0
    /\ ip <= Len(rules[cur].actions)
    /\ LET s == rules[cur].actions[ip]
       IN  /\ scratch' = run_scratch(fact, scratch, s)
           /\ outcome' = run_action(fact, scratch, outcome, s)
           /\ fired' = run_fired(fired, s)
    /\ ip' = ip + 1
    /\ UNCHANGED <<rules, fact, matched, cur, done>>

End ==
    /\ cur # 0
    /\ ip > Len(rules[cur].actions)
    /\ cur' = 0
    /\ ip' = 1
    /\ done' = (Decided(outcome) \/ Len(matched) >= MaxCycles)
    /\ UNCHANGED <<rules, fact, scratch, outcome, fired, matched>>

Quiesce ==
    /\ ~done
    /\ cur = 0
    /\ \A r \in DOMAIN rules : ~Eligible(r)
    /\ done' = TRUE
    /\ UNCHANGED <<rules, fact, scratch, outcome, fired, matched, cur, ip>>

Next == (\E r \in DOMAIN rules : Begin(r)) \/ Run \/ End \/ Quiesce

Spec == Init /\ [][Next]_vars
=============================================================================
