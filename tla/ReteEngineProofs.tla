-------------------------- MODULE ReteEngineProofs --------------------------
(***************************************************************************)
(* Proofs about Engine::fire for every rule list, request and cap.         *)
(***************************************************************************)
EXTENDS ReteEngine, FiniteSetTheorems, TLAPS

(***************************************************************************)
(* The inductive invariant.  Quiescent and the refinement rest on          *)
(* AlphasFresh (the vector a scan reads is the truth of the current        *)
(* overlay), DecisionIsFinal on Undecided, the cap on Counting.            *)
(***************************************************************************)
AlphasFresh ==
    pc = "scan" => alphas = {a \in AlphaNodes : eval_alpha(fact, scratch, a)}

Undecided == pc \in {"eval", "scan"} => ~Decided(outcome)

Counting ==
    /\ Len(matched) = IF pc = "run" THEN cycle + 1 ELSE cycle
    /\ pc # "done" => cycle < MaxCycles

Running ==
    /\ pc = "run" => term \in 1 .. Len(rules)
    /\ pc # "run" => ip = 1
    /\ ip # 0

MatchedHaveFired == \A i \in 1 .. Len(matched) : matched[i] \in fired

IInv ==
    /\ TypeOK
    /\ IsStableSort(order)
    /\ AlphasFresh
    /\ Undecided
    /\ Counting
    /\ Running
    /\ MatchedHaveFired
    /\ FiresAtMostOnce
    /\ Quiescent

-----------------------------------------------------------------------------
\* A rule list of the loader is a sequence of rules.
LEMMA RulesAreRules ==
    ASSUME rules \in RuleSets
    PROVE  /\ Len(rules) \in Nat
           /\ DOMAIN rules = 1 .. Len(rules)
           /\ \A r \in 1 .. Len(rules) : rules[r] \in RuleAst
  BY ConstantsAssumption

\* The overlay and the outcome keep their types through any statement, so a
\* rule may assign, block or rate-limit in any order (engine.rs run_stmt).
LEMMA RunStmtTypes ==
    ASSUME NEW f \in [Paths -> Int], NEW w \in Scratch, NEW o \in Outcome,
           NEW d \in SUBSET STRING, NEW s \in Stmt
    PROVE  /\ run_scratch(f, w, s) \in Scratch
           /\ run_action(f, w, o, s) \in Outcome
           /\ run_fired(d, s) \in SUBSET STRING
  <1>1. /\ s.path \in Paths
        /\ s.src \in Paths \union {NoPath}
        /\ s.val \in Int
        /\ s.arg \in STRING
        /\ s.op \in Ops
    BY DEF Stmt
  <1>2. eval_expr(f, w, s) \in Int
    BY <1>1 DEF eval_expr, read_path, Scratch
  <1>3. run_scratch(f, w, s) \in Scratch
    BY <1>1, <1>2 DEF run_scratch, write_path, Scratch
  <1>4. eval_expr(f, w, s) % U64 \in Int /\ 60 % U64 \in Int
    BY <1>2, ConstantsAssumption
  <1>5. run_action(f, w, o, s) \in Outcome
    <2>1. CASE s.op = "block"
      BY <2>1 DEF run_action, Outcome
    <2>2. CASE s.op = "allow"
      BY <2>2 DEF run_action, Outcome
    <2>3. CASE s.op = "challenge"
      BY <2>3 DEF run_action, Outcome
    <2>4. CASE s.op = "rate_limit"
      <3>1. run_action(f, w, o, s) =
               [o EXCEPT !.rate_limit_secs = IF s.arg = "none" THEN 60 % U64
                                             ELSE eval_expr(f, w, s) % U64]
        BY <2>4 DEF run_action
      <3> QED
        BY <3>1, <1>4 DEF Outcome
    <2>5. CASE s.op \in {"log", "unknown"}
      BY <2>5 DEF run_action, Outcome
    <2>6. CASE s.op \in {"assign", "retract"}
      BY <2>6 DEF run_action, Outcome
    <2> QED
      BY <1>1, <2>1, <2>2, <2>3, <2>4, <2>5, <2>6 DEF Ops
  <1>6. run_fired(d, s) \in SUBSET STRING
    BY <1>1 DEF run_fired
  <1> QED
    BY <1>3, <1>5, <1>6

\* Guard::eval over a fresh alpha vector is the meaning of the `when` clause:
\* every leaf of a guard was interned by Network::compile.
LEMMA GuardIsWhen ==
    ASSUME rules \in RuleSets,
           alphas = {a \in AlphaNodes : eval_alpha(fact, scratch, a)},
           NEW r \in 1 .. Len(rules)
    PROVE  GuardEval(rules[r].guard, alphas) <=> When(fact, scratch, rules[r].guard)
  <1>1. DOMAIN rules = 1 .. Len(rules)
    BY RulesAreRules
  <1>2. \A c \in rules[r].guard : c.pos \subseteq AlphaNodes /\ c.neg \subseteq AlphaNodes
    BY <1>1 DEF AlphaNodes
  <1> QED
    BY <1>2 DEF GuardEval, When
\* Eligibility, in the vocabulary of this module.
LEMMA EligibleMeans ==
    ASSUME NEW r
    PROVE  Agenda!Eligible(r) <=> /\ rules[r].name \notin fired
                                  /\ When(fact, scratch, rules[r].guard)
  BY DEF Agenda!Eligible, Agenda!When, When, Agenda!eval_alpha, eval_alpha,
         Agenda!read_path, read_path

\* The compiled network does not change while a request is evaluated.
LEMMA NetworkIsFixed ==
    ASSUME UNCHANGED <<rules, order>>, IsStableSort(order)
    PROVE  AlphaNodes' = AlphaNodes /\ IsStableSort(order)'
  BY DEF AlphaNodes, IsStableSort, Agenda!Precedes

-----------------------------------------------------------------------------
\* IInv holds at the start ...
LEMMA InitIInv == Init => IInv
  <1> SUFFICES ASSUME Init
               PROVE  IInv
    OBVIOUS
  <1> USE DEF Init
  <1>1. TypeOK
    <2>1. EmptyScratch \in Scratch /\ NoOutcome \in Outcome
      BY DEF EmptyScratch, Scratch, NoOutcome, Outcome
    <2> QED
      BY <2>1, ConstantsAssumption DEF TypeOK
  <1>2. AlphasFresh /\ Undecided /\ Running /\ MatchedHaveFired /\ FiresAtMostOnce /\ Quiescent
    BY DEF AlphasFresh, Undecided, Running, MatchedHaveFired, FiresAtMostOnce,
           Quiescent, Decided, NoOutcome
  <1>3. Counting
    BY ConstantsAssumption DEF Counting
  <1> QED
    BY <1>1, <1>2, <1>3 DEF IInv

\* ... and is kept by the evaluation of the alpha nodes,
LEMMA EvalAlphasIInv == ASSUME IInv, EvalAlphas PROVE IInv'
  <1> USE DEF EvalAlphas
  <1>1. AlphaNodes' = AlphaNodes /\ IsStableSort(order)'
    BY NetworkIsFixed DEF IInv
  <1>2. TypeOK'
    BY <1>1 DEF IInv, TypeOK
  <1>3. AlphasFresh'
    BY <1>1 DEF AlphasFresh, eval_alpha, read_path
  <1>4. (Undecided /\ Counting /\ Running)'
    BY DEF IInv, Undecided, Counting, Running, Decided
  <1>5. (MatchedHaveFired /\ FiresAtMostOnce /\ Quiescent)'
    BY DEF IInv, MatchedHaveFired, FiresAtMostOnce, Quiescent
  <1> QED
    BY <1>1, <1>2, <1>3, <1>4, <1>5 DEF IInv

\* by the choice of a rule,
LEMMA FireIInv == ASSUME IInv, NEW k \in 1 .. Len(rules), Fire(k) PROVE IInv'
  <1> USE DEF Fire
  <1>1. AlphaNodes' = AlphaNodes /\ IsStableSort(order)'
    BY NetworkIsFixed DEF IInv
  <1>2. Terminal(k) \in RuleAst /\ Terminal(k).name \in Names
    <2>1. order[k] \in 1 .. Len(rules)
      BY DEF IInv, TypeOK
    <2>2. rules[order[k]] \in RuleAst
      BY <2>1, RulesAreRules DEF IInv, TypeOK
    <2> QED
      BY <2>2 DEF Terminal, RuleAst
  <1>3. /\ matched \in Seq(Names)
        /\ matched' \in Seq(Names)
        /\ Len(matched') = Len(matched) + 1
        /\ \A i \in 1 .. Len(matched) : matched'[i] = matched[i]
        /\ matched'[Len(matched) + 1] = Terminal(k).name
    BY <1>2 DEF IInv, TypeOK
  <1>4. TypeOK'
    <2>1. Names \subseteq STRING
      BY ConstantsAssumption
    <2>2. fired' \in SUBSET STRING
      BY <1>2, <2>1 DEF IInv, TypeOK
    <2>3. term' \in Nat
      BY RulesAreRules DEF IInv, TypeOK
    <2> QED
      BY <1>1, <1>3, <2>2, <2>3 DEF IInv, TypeOK
  <1>5. (AlphasFresh /\ Undecided /\ Running /\ Quiescent)'
    BY DEF AlphasFresh, Undecided, Running, Quiescent
  <1>6. Counting'
    BY <1>3 DEF IInv, Counting, TypeOK
  <1>7. MatchedHaveFired'
    BY <1>3 DEF IInv, MatchedHaveFired
  <1>8. FiresAtMostOnce'
    <2>1. Terminal(k).name \notin fired
      BY DEF Fires
    <2> QED
      BY <1>3, <2>1 DEF IInv, FiresAtMostOnce, MatchedHaveFired
  <1> QED
    BY <1>1, <1>4, <1>5, <1>6, <1>7, <1>8 DEF IInv

\* by a statement of a rule,
LEMMA RunStmtIInv == ASSUME IInv, RunStmt PROVE IInv'
  <1> USE DEF RunStmt
  <1> DEFINE s == Terminal(term).actions[ip]
  <1>1. AlphaNodes' = AlphaNodes /\ IsStableSort(order)'
    BY NetworkIsFixed DEF IInv
  <1>2. s \in Stmt
    <2>1. order[term] \in 1 .. Len(rules)
      BY DEF IInv, TypeOK, Running
    <2>2. rules[order[term]] \in RuleAst
      BY <2>1, RulesAreRules DEF IInv, TypeOK
    <2>3. Terminal(term).actions \in Seq(Stmt)
      BY <2>2 DEF Terminal, RuleAst
    <2>4. ip \in Nat /\ ip # 0
      BY DEF IInv, TypeOK, Running
    <2> QED
      BY <2>3, <2>4
  <1>3. fact \in [Paths -> Int]
    BY ConstantsAssumption DEF IInv, TypeOK
  <1>4. scratch' \in Scratch /\ outcome' \in Outcome /\ fired' \in SUBSET STRING
    BY <1>2, <1>3, RunStmtTypes DEF IInv, TypeOK
  <1>5. TypeOK'
    BY <1>1, <1>4 DEF IInv, TypeOK
  <1>6. (AlphasFresh /\ Undecided /\ Quiescent)'
    BY DEF AlphasFresh, Undecided, Quiescent
  <1>7. (Counting /\ Running /\ FiresAtMostOnce)'
    BY DEF IInv, Counting, Running, FiresAtMostOnce, TypeOK
  <1>8. MatchedHaveFired'
    BY DEF IInv, MatchedHaveFired, run_fired
  <1> QED
    BY <1>1, <1>5, <1>6, <1>7, <1>8 DEF IInv

\* by the end of a rule,
LEMMA EndRuleIInv == ASSUME IInv, EndRule PROVE IInv'
  <1> USE DEF EndRule
  <1>1. AlphaNodes' = AlphaNodes /\ IsStableSort(order)'
    BY NetworkIsFixed DEF IInv
  <1>2. Counting'
    BY ConstantsAssumption DEF IInv, Counting, TypeOK
  <1>3. TypeOK'
    <2>1. cycle' \in 0 .. MaxCycles
      BY ConstantsAssumption DEF IInv, Counting, TypeOK
    <2>2. pc' \in {"eval", "scan", "run", "done"}
      OBVIOUS
    <2> QED
      BY <1>1, <2>1, <2>2 DEF IInv, TypeOK
  <1>4. (AlphasFresh /\ Undecided /\ Running)'
    BY DEF AlphasFresh, Undecided, Running, Decided
  <1>5. (MatchedHaveFired /\ FiresAtMostOnce)'
    BY DEF IInv, MatchedHaveFired, FiresAtMostOnce
  <1>6. Quiescent'
    \* An undecided rule only ends the call at the cap.
    <2>1. CASE pc' = "done" /\ ~Decided(outcome)'
      <3>1. Len(matched') = MaxCycles
        BY <2>1, <1>2 DEF Counting, Decided
      <3> QED
        BY <3>1, ConstantsAssumption DEF Quiescent
    <2>2. CASE pc' # "done" \/ Decided(outcome)'
      BY <2>2 DEF Quiescent
    <2> QED
      BY <2>1, <2>2
  <1> QED
    BY <1>1, <1>2, <1>3, <1>4, <1>5, <1>6 DEF IInv

\* by the end of the call
LEMMA QuiesceIInv == ASSUME IInv, Quiesce PROVE IInv'
  <1> USE DEF Quiesce
  <1>1. AlphaNodes' = AlphaNodes /\ IsStableSort(order)'
    BY NetworkIsFixed DEF IInv
  <1>2. TypeOK'
    BY <1>1 DEF IInv, TypeOK
  <1>3. (AlphasFresh /\ Undecided /\ Counting /\ Running)'
    BY DEF IInv, AlphasFresh, Undecided, Counting, Running
  <1>4. (MatchedHaveFired /\ FiresAtMostOnce)'
    BY DEF IInv, MatchedHaveFired, FiresAtMostOnce
  <1>5. Quiescent'
    <2>1. ASSUME NEW r \in 1 .. Len(rules)
          PROVE  ~Agenda!Eligible(r)
      <3>1. PICK k \in 1 .. Len(rules) : order[k] = r
        BY DEF IInv, IsStableSort
      <3>2. ~Fires(k)
        OBVIOUS
      <3>3. GuardEval(rules[r].guard, alphas) <=> When(fact, scratch, rules[r].guard)
        BY GuardIsWhen DEF IInv, TypeOK, AlphasFresh
      <3> QED
        BY <3>1, <3>2, <3>3, EligibleMeans DEF Fires, Terminal
    <2> QED
      BY <2>1 DEF Quiescent, Agenda!Eligible, When, eval_alpha, read_path
  <1> QED
    BY <1>1, <1>2, <1>3, <1>4, <1>5 DEF IInv

\* and by a step that changes nothing.
LEMMA StutterIInv == ASSUME IInv, UNCHANGED vars PROVE IInv'
  <1> USE DEF vars
  <1>1. AlphaNodes' = AlphaNodes /\ IsStableSort(order)'
    BY NetworkIsFixed DEF IInv
  <1>2. TypeOK'
    BY <1>1 DEF IInv, TypeOK
  <1>3. AlphasFresh'
    BY <1>1 DEF IInv, AlphasFresh, eval_alpha, read_path
  <1>4. (Undecided /\ Counting /\ Running /\ MatchedHaveFired /\ FiresAtMostOnce)'
    BY DEF IInv, Undecided, Counting, Running, MatchedHaveFired, FiresAtMostOnce, Decided
  <1>5. Quiescent'
    BY DEF IInv, Quiescent, Agenda!Eligible, When, eval_alpha, read_path, Decided
  <1> QED
    BY <1>1, <1>2, <1>3, <1>4, <1>5 DEF IInv

\* The invariant holds in every state of fire.
THEOREM InvariantHolds == Spec => []IInv
  <1>1. IInv /\ [Next]_vars => IInv'
    BY EvalAlphasIInv, FireIInv, RunStmtIInv, EndRuleIInv, QuiesceIInv, StutterIInv
       DEF Next
  <1> QED
    BY InitIInv, <1>1, PTL DEF Spec

\* Every field of the working memory keeps its type and the cycle counter
\* never passes MAX_CYCLES.
THEOREM TypeCorrect == Spec => []TypeOK
  BY InvariantHolds, PTL DEF IInv

\* A rule name is matched at most once, also when rules share a name
\* (engine.rs fired_at_least_once).
THEOREM NoNameFiresTwice == Spec => []FiresAtMostOnce
  BY InvariantHolds, PTL DEF IInv

\* fire returns undecided below the cap only when no rule is left to fire.
THEOREM ReturnsQuiescent == Spec => []Quiescent
  BY InvariantHolds, PTL DEF IInv

\* No rule fires after one that blocked or allowed.
THEOREM BlockOrAllowIsLast == Spec => DecisionIsFinal
  <1>1. IInv /\ [Next]_vars => [matched' # matched => ~Decided(outcome)]_vars
    <2> SUFFICES ASSUME IInv, Next, matched' # matched
                 PROVE  ~Decided(outcome)
      BY DEF vars
    <2>1. \E k \in 1 .. Len(rules) : Fire(k)
      BY DEF Next, EvalAlphas, RunStmt, EndRule, Quiesce
    <2> QED
      BY <2>1 DEF Fire, IInv, Undecided
  <1> QED
    BY <1>1, InvariantHolds, PTL DEF Spec, DecisionIsFinal

-----------------------------------------------------------------------------
(***************************************************************************)
(* The cap.  A name is matched once, so MAX_CYCLES matches use up all the  *)
(* names of a list that has no more of them.                               *)
(***************************************************************************)
RuleNames == {rules[r].name : r \in DOMAIN rules}

MatchedAreRules == \A i \in 1 .. Len(matched) : matched[i] \in RuleNames

\* Only names of the rule list are matched.
LEMMA MatchedAreRulesHolds == Spec => []MatchedAreRules
  <1>1. Init => MatchedAreRules
    BY DEF Init, MatchedAreRules
  <1>2. IInv /\ MatchedAreRules /\ [Next]_vars => MatchedAreRules'
    <2> SUFFICES ASSUME IInv, MatchedAreRules, [Next]_vars
                 PROVE  MatchedAreRules'
      OBVIOUS
    <2>1. ASSUME NEW k \in 1 .. Len(rules), Fire(k)
          PROVE  MatchedAreRules'
      <3>1. Terminal(k).name \in RuleNames
        BY RulesAreRules DEF IInv, TypeOK, Terminal, RuleNames
      <3>2. rules[order[k]] \in RuleAst
        BY RulesAreRules DEF IInv, TypeOK
      <3>3. Terminal(k).name \in Names
        BY <3>2 DEF Terminal, RuleAst
      <3>4. /\ Len(matched') = Len(matched) + 1
            /\ \A i \in 1 .. Len(matched) : matched'[i] = matched[i]
            /\ matched'[Len(matched) + 1] = Terminal(k).name
            /\ Len(matched) \in Nat
        BY <2>1, <3>3 DEF IInv, TypeOK, Fire
      <3>5. RuleNames' = RuleNames
        BY <2>1 DEF Fire, RuleNames
      <3> QED
        BY <3>1, <3>4, <3>5 DEF MatchedAreRules
    <2>2. CASE EvalAlphas \/ RunStmt \/ EndRule \/ Quiesce \/ UNCHANGED vars
      BY <2>2 DEF EvalAlphas, RunStmt, EndRule, Quiesce, vars, MatchedAreRules, RuleNames
    <2> QED
      BY <2>1, <2>2 DEF Next
  <1> QED
    BY <1>1, <1>2, InvariantHolds, PTL DEF Spec

\* A rule list has finitely many names.
LEMMA NamesAreFinite ==
    ASSUME rules \in RuleSets
    PROVE  IsFiniteSet(RuleNames)
  <1> DEFINE f == [r \in DOMAIN rules |-> rules[r].name]
  <1>1. f \in Surjection(DOMAIN rules, RuleNames)
    BY DEF Surjection, RuleNames
  <1>2. IsFiniteSet(DOMAIN rules)
    BY RulesAreRules, FS_Interval
  <1> QED
    BY <1>1, <1>2, FS_Surjection

\* A rule is left out because of MAX_CYCLES only when the list has more than
\* MAX_CYCLES names (engine.rs:16, 58).
THEOREM CapHidesNothing == Spec => []CapIsHarmless
  <1>1. IInv /\ MatchedAreRules => CapIsHarmless
    <2> SUFFICES ASSUME IInv, MatchedAreRules, pc = "done", ~Decided(outcome),
                        Cardinality(RuleNames) <= MaxCycles, Len(matched) >= MaxCycles,
                        NEW r \in 1 .. Len(rules)
                 PROVE  ~Agenda!Eligible(r)
      <3>1. Len(matched) \in Nat /\ MaxCycles \in Nat
        BY ConstantsAssumption DEF IInv, TypeOK
      <3> QED
        BY <3>1 DEF CapIsHarmless, RuleNames, IInv, Quiescent
    <2>1. /\ matched \in Seq(Names) /\ Len(matched) \in Nat
          /\ MaxCycles \in Nat /\ rules \in RuleSets
      BY ConstantsAssumption DEF IInv, TypeOK
    <2>2. IsFiniteSet(RuleNames) /\ Cardinality(RuleNames) \in Nat
      BY <2>1, NamesAreFinite, FS_CardinalityType
    <2>3. matched \in Injection(1 .. Len(matched), RuleNames)
      <3>1. matched \in [1 .. Len(matched) -> RuleNames]
        BY <2>1 DEF MatchedAreRules
      <3> QED
        BY <2>1, <3>1 DEF Injection, IsInjective, IInv, FiresAtMostOnce
    <2>4. Cardinality(1 .. Len(matched)) = Len(matched)
      <3>1. Cardinality(1 .. Len(matched)) =
                IF 1 > Len(matched) THEN 0 ELSE Len(matched) - 1 + 1
        <4>1. 1 \in Int /\ Len(matched) \in Int
          BY <2>1
        <4> QED
          BY <4>1, FS_Interval, Zenon
      <3> QED
        BY <2>1, <3>1
    <2>5. Cardinality(1 .. Len(matched)) <= Cardinality(RuleNames)
      BY <2>2, <2>3, FS_Injection
    <2>6. Cardinality(1 .. Len(matched)) = Cardinality(RuleNames)
      BY <2>1, <2>2, <2>4, <2>5
    <2>7. matched \in Surjection(1 .. Len(matched), RuleNames)
      BY <2>2, <2>3, <2>6, FS_Injection
    <2>8. rules[r].name \in RuleNames
      BY <2>1, RulesAreRules DEF RuleNames
    <2>9. PICK i \in 1 .. Len(matched) : matched[i] = rules[r].name
      BY <2>7, <2>8 DEF Surjection
    <2> QED
      BY <2>9, EligibleMeans DEF IInv, MatchedHaveFired
  <1> QED
    BY <1>1, InvariantHolds, MatchedAreRulesHolds, PTL

-----------------------------------------------------------------------------
(***************************************************************************)
(* Refinement: one call of fire is a run of the agenda.                    *)
(***************************************************************************)
\* The statement semantics is the same operator on both sides.
LEMMA SameEffects ==
    ASSUME NEW f, NEW w, NEW o, NEW d, NEW s
    PROVE  /\ Agenda!run_scratch(f, w, s) = run_scratch(f, w, s)
           /\ Agenda!run_action(f, w, o, s) = run_action(f, w, o, s)
           /\ Agenda!run_fired(d, s) = run_fired(d, s)
           /\ Agenda!Decided(o) = Decided(o)
  BY DEF Agenda!run_scratch, run_scratch, Agenda!write_path, write_path,
         Agenda!eval_expr, eval_expr, Agenda!read_path, read_path,
         Agenda!run_action, run_action, Agenda!run_fired, run_fired,
         Agenda!Decided, Decided

\* The initial states are those of the agenda.
LEMMA InitRefines == ASSUME Init PROVE Agenda!Init
  BY DEF Init, Agenda!Init, Cur, Done, EmptyScratch, Agenda!EmptyScratch,
         NoOutcome, Agenda!NoOutcome

\* Choosing a rule is choosing the next of the agenda.
LEMMA FireRefines ==
    ASSUME IInv, NEW k \in 1 .. Len(rules), Fire(k)
    PROVE  Agenda!Begin(order[k])
  <1> USE DEF Fire
  <1>1. order[k] \in 1 .. Len(rules) /\ order[k] # 0
    BY DEF IInv, TypeOK
  <1>2. \A j \in 1 .. Len(rules) : Agenda!Eligible(order[j]) <=> Fires(j)
    <2> TAKE j \in 1 .. Len(rules)
    <2>1. order[j] \in 1 .. Len(rules)
      BY DEF IInv, TypeOK
    <2>2. GuardEval(rules[order[j]].guard, alphas)
             <=> When(fact, scratch, rules[order[j]].guard)
      BY <2>1, GuardIsWhen DEF IInv, TypeOK, AlphasFresh
    <2> QED
      BY <2>2, EligibleMeans DEF Fires, Terminal
  <1>3. ASSUME NEW q \in DOMAIN rules, Agenda!Eligible(q), q # order[k]
        PROVE  Agenda!Precedes(order[k], q)
    <2>1. PICK j \in 1 .. Len(rules) : order[j] = q
      BY RulesAreRules DEF IInv, TypeOK, IsStableSort
    <2>2. Fires(j)
      BY <2>1, <1>2, <1>3
    <2>3. k < j
      BY <2>1, <2>2, <1>3, RulesAreRules DEF IInv, TypeOK
    <2> QED
      BY <2>1, <2>3 DEF IInv, IsStableSort
  <1>4. Cur = 0 /\ Cur' = order[k] /\ Done = FALSE /\ Done' = FALSE
    BY DEF Cur, Done
  <1> QED
    BY <1>1, <1>2, <1>3, <1>4 DEF Agenda!Begin, Terminal

\* A statement is a statement of the agenda,
LEMMA RunStmtRefines == ASSUME IInv, RunStmt PROVE Agenda!Run
  <1> USE DEF RunStmt
  <1>1. Cur = order[term] /\ Cur # 0 /\ Cur' = Cur /\ Done' = Done
    BY DEF Cur, Done, IInv, TypeOK, Running
  <1> QED
    BY <1>1, SameEffects DEF Agenda!Run, Terminal

\* the end of a rule its end
LEMMA EndRuleRefines == ASSUME IInv, EndRule PROVE Agenda!End
  <1> USE DEF EndRule
  <1>1. Cur = order[term] /\ Cur # 0 /\ Cur' = 0
    BY DEF Cur, IInv, TypeOK, Running
  <1>2. cycle + 1 = MaxCycles <=> Len(matched) >= MaxCycles
    BY ConstantsAssumption DEF IInv, Counting, TypeOK
  <1>3. Done' = (Decided(outcome) \/ Len(matched) >= MaxCycles)
    BY <1>2 DEF Done, Decided
  <1> QED
    BY <1>1, <1>3, SameEffects DEF Agenda!End, Terminal

\* and the end of the call its end.
LEMMA QuiesceRefines == ASSUME IInv, Quiesce PROVE Agenda!Quiesce
  <1>1. ASSUME NEW r \in DOMAIN rules
        PROVE  ~Agenda!Eligible(r)
    <2>1. r \in 1 .. Len(rules)
      BY RulesAreRules DEF IInv, TypeOK
    <2>2. PICK k \in 1 .. Len(rules) : order[k] = r
      BY <2>1 DEF IInv, IsStableSort
    <2>3. GuardEval(rules[r].guard, alphas) <=> When(fact, scratch, rules[r].guard)
      BY <2>1, GuardIsWhen DEF IInv, TypeOK, AlphasFresh, Quiesce
    <2> QED
      BY <2>2, <2>3, EligibleMeans DEF Quiesce, Fires, Terminal
  <1>2. Cur = 0 /\ Cur' = 0 /\ Done = FALSE /\ Done' = TRUE
    BY DEF Cur, Done, Quiesce
  <1> QED
    BY <1>1, <1>2 DEF Agenda!Quiesce, Quiesce

\* The compiled network fires exactly what the salience agenda of the rule
\* list fires: sorting once, sharing alpha nodes and recomputing the vector
\* per cycle lose and reorder nothing (rete/mod.rs compile, engine.rs fire).
THEOREM RefinesAgenda == Spec => ImplementsAgenda
  <1>1. IInv /\ [Next]_vars => [Agenda!Next]_(Agenda!vars)
    <2> SUFFICES ASSUME IInv, [Next]_vars
                 PROVE  [Agenda!Next]_(Agenda!vars)
      OBVIOUS
    <2>1. CASE EvalAlphas
      BY <2>1 DEF EvalAlphas, Agenda!vars, Cur, Done
    <2>2. ASSUME NEW k \in 1 .. Len(rules), Fire(k)
          PROVE  Agenda!Next
      <3>1. order[k] \in DOMAIN rules
        BY RulesAreRules DEF IInv, TypeOK
      <3> QED
        BY <2>2, <3>1, FireRefines DEF Agenda!Next
    <2>3. CASE RunStmt
      BY <2>3, RunStmtRefines DEF Agenda!Next
    <2>4. CASE EndRule
      BY <2>4, EndRuleRefines DEF Agenda!Next
    <2>5. CASE Quiesce
      BY <2>5, QuiesceRefines DEF Agenda!Next
    <2>6. CASE UNCHANGED vars
      BY <2>6 DEF vars, Agenda!vars, Cur, Done
    <2> QED
      BY <2>1, <2>2, <2>3, <2>4, <2>5, <2>6 DEF Next
  <1>2. Init => Agenda!Init
    BY InitRefines
  <1> QED
    BY <1>1, <1>2, InvariantHolds, PTL DEF Spec, ImplementsAgenda, Agenda!Spec
=============================================================================
