--------------------------- MODULE YamlToGrlProofs ---------------------------
(***************************************************************************)
(* Proofs about YamlToGrl, for every set of atoms, every document, every   *)
(* depth of its conditions and every length of their texts.                *)
(*                                                                         *)
(* The text of a condition is read back as a tree, and the tree becomes a  *)
(* guard, that mean what the condition means: by induction over the levels *)
(* of the condition, with what a text promises to the parser whatever      *)
(* follows it (Reads) and what a tree promises to the compiler whatever    *)
(* alpha nodes there are (Means).  The state machine then keeps, for every *)
(* rule it carries on, the rule of the document it is.                     *)
(***************************************************************************)
EXTENDS YamlToGrl, NatFacts, SequenceTheorems, FiniteSetTheorems

(***************************************************************************)
(* The functions by levels: their equations.                               *)
(***************************************************************************)
Zero(p) == {}
None(p) == << >>
Unread(p) == [t \in Seq(Token) |-> NoParse]

CondAbove(p, i, below) ==
    Conditions(below)

CondLevels == INSTANCE NatFacts WITH LevelZero <- Zero, LevelAbove <- CondAbove

\* Cond by levels.
LEMMA CondIs ==
    /\ Cond[0] = {}
    /\ \A i \in 1 .. MaxDepth : Cond[i] =
          Conditions(Cond[i - 1])
<1>1. MaxDepth \in Nat
  BY YamlAssumption
<1>2. \E f : CondLevels!Levels(f, 0, MaxDepth)
  BY <1>1, CondLevels!LevelsExist
<1>3. CondLevels!Levels(Cond, 0, MaxDepth)
  BY <1>2, Zenon DEF Cond, CondLevels!Levels, Zero, CondAbove
<1>4. /\ Cond[0] = Zero(0)
      /\ \A i \in 1 .. MaxDepth : Cond[i] = CondAbove(0, i, Cond[i - 1])
  BY <1>1, <1>3, CondLevels!LevelsAre
<1> QED
  BY <1>4, Zenon DEF Zero, CondAbove

NewAbove(p, i, below) ==
    [c \in Cond[i] |-> new_text(c, [k \in DOMAIN c.subs |-> below[c.subs[k]]])]

NewLevels == INSTANCE NatFacts WITH LevelZero <- None, LevelAbove <- NewAbove

\* new_cond_to_grl by levels.
LEMMA NewIs ==
    /\ new_cond_to_grl[0] = << >>
    /\ \A i \in 1 .. MaxDepth : new_cond_to_grl[i] =
          [c \in Cond[i] |-> new_text(c, [k \in DOMAIN c.subs |-> new_cond_to_grl[i - 1][c.subs[k]]])]
<1>1. MaxDepth \in Nat
  BY YamlAssumption
<1>2. \E f : NewLevels!Levels(f, 0, MaxDepth)
  BY <1>1, NewLevels!LevelsExist
<1>3. NewLevels!Levels(new_cond_to_grl, 0, MaxDepth)
  BY <1>2, Zenon DEF new_cond_to_grl, NewLevels!Levels, None, NewAbove
<1>4. /\ new_cond_to_grl[0] = None(0)
      /\ \A i \in 1 .. MaxDepth : new_cond_to_grl[i] = NewAbove(0, i, new_cond_to_grl[i - 1])
  BY <1>1, <1>3, NewLevels!LevelsAre
<1> QED
  BY <1>4, Zenon DEF None, NewAbove

TextAbove(p, i, below) ==
    [c \in Cond[i] |->
        legacy_text(c, new_cond_to_grl[i][c], [k \in DOMAIN c.subs |-> below[c.subs[k]]])]

TextLevels == INSTANCE NatFacts WITH LevelZero <- None, LevelAbove <- TextAbove

\* cond_to_grl by levels.
LEMMA TextIs ==
    /\ cond_to_grl[0] = << >>
    /\ \A i \in 1 .. MaxDepth : cond_to_grl[i] =
          [c \in Cond[i] |->
              legacy_text(c, new_cond_to_grl[i][c], [k \in DOMAIN c.subs |-> cond_to_grl[i - 1][c.subs[k]]])]
<1>1. MaxDepth \in Nat
  BY YamlAssumption
<1>2. \E f : TextLevels!Levels(f, 0, MaxDepth)
  BY <1>1, TextLevels!LevelsExist
<1>3. TextLevels!Levels(cond_to_grl, 0, MaxDepth)
  BY <1>2, Zenon DEF cond_to_grl, TextLevels!Levels, None, TextAbove
<1>4. /\ cond_to_grl[0] = None(0)
      /\ \A i \in 1 .. MaxDepth : cond_to_grl[i] = TextAbove(0, i, cond_to_grl[i - 1])
  BY <1>1, <1>3, TextLevels!LevelsAre
<1> QED
  BY <1>4, Zenon DEF None, TextAbove

EvaluateAbove(p, i, below) ==
    [c \in Cond[i] |->
        {env \in Requests : matches(c, env, [k \in DOMAIN c.subs |-> below[c.subs[k]]])}]

EvaluateLevels == INSTANCE NatFacts WITH LevelZero <- None, LevelAbove <- EvaluateAbove

\* evaluate by levels.
LEMMA EvaluateIs ==
    /\ evaluate[0] = << >>
    /\ \A i \in 1 .. MaxDepth : evaluate[i] =
          [c \in Cond[i] |->
              {env \in Requests : matches(c, env, [k \in DOMAIN c.subs |-> evaluate[i - 1][c.subs[k]]])}]
<1>1. MaxDepth \in Nat
  BY YamlAssumption
<1>2. \E f : EvaluateLevels!Levels(f, 0, MaxDepth)
  BY <1>1, EvaluateLevels!LevelsExist
<1>3. EvaluateLevels!Levels(evaluate, 0, MaxDepth)
  BY <1>2, Zenon DEF evaluate, EvaluateLevels!Levels, None, EvaluateAbove
<1>4. /\ evaluate[0] = None(0)
      /\ \A i \in 1 .. MaxDepth : evaluate[i] = EvaluateAbove(0, i, evaluate[i - 1])
  BY <1>1, <1>3, EvaluateLevels!LevelsAre
<1> QED
  BY <1>4, Zenon DEF None, EvaluateAbove

NodesAbove(p, i, below) ==
    [c \in Cond[i] |->
        {c} \union UNION {below[c.subs[k]] : k \in DOMAIN c.subs}]

NodesLevels == INSTANCE NatFacts WITH LevelZero <- None, LevelAbove <- NodesAbove

\* Nodes by levels.
LEMMA NodesIs ==
    /\ Nodes[0] = << >>
    /\ \A i \in 1 .. MaxDepth : Nodes[i] =
          [c \in Cond[i] |->
              {c} \union UNION {Nodes[i - 1][c.subs[k]] : k \in DOMAIN c.subs}]
<1>1. MaxDepth \in Nat
  BY YamlAssumption
<1>2. \E f : NodesLevels!Levels(f, 0, MaxDepth)
  BY <1>1, NodesLevels!LevelsExist
<1>3. NodesLevels!Levels(Nodes, 0, MaxDepth)
  BY <1>2, Zenon DEF Nodes, NodesLevels!Levels, None, NodesAbove
<1>4. /\ Nodes[0] = None(0)
      /\ \A i \in 1 .. MaxDepth : Nodes[i] = NodesAbove(0, i, Nodes[i - 1])
  BY <1>1, <1>3, NodesLevels!LevelsAre
<1> QED
  BY <1>4, Zenon DEF None, NodesAbove

ExprAbove(p, i, below) ==
    Expressions(below)

ExprLevels == INSTANCE NatFacts WITH LevelZero <- Zero, LevelAbove <- ExprAbove

\* Expr by levels.
LEMMA ExprIs ==
    /\ Expr[0] = {}
    /\ \A i \in 1 .. MaxTokens : Expr[i] =
          Expressions(Expr[i - 1])
<1>1. MaxTokens \in Nat
  BY YamlAssumption
<1>2. \E f : ExprLevels!Levels(f, 0, MaxTokens)
  BY <1>1, ExprLevels!LevelsExist
<1>3. ExprLevels!Levels(Expr, 0, MaxTokens)
  BY <1>2, Zenon DEF Expr, ExprLevels!Levels, Zero, ExprAbove
<1>4. /\ Expr[0] = Zero(0)
      /\ \A i \in 1 .. MaxTokens : Expr[i] = ExprAbove(0, i, Expr[i - 1])
  BY <1>1, <1>3, ExprLevels!LevelsAre
<1> QED
  BY <1>4, Zenon DEF Zero, ExprAbove

GuardAbove(p, i, below) ==
    Guards(below)

GuardLevels == INSTANCE NatFacts WITH LevelZero <- Zero, LevelAbove <- GuardAbove

\* Guard by levels.
LEMMA GuardIs ==
    /\ Guard[0] = {}
    /\ \A i \in 1 .. MaxTokens : Guard[i] =
          Guards(Guard[i - 1])
<1>1. MaxTokens \in Nat
  BY YamlAssumption
<1>2. \E f : GuardLevels!Levels(f, 0, MaxTokens)
  BY <1>1, GuardLevels!LevelsExist
<1>3. GuardLevels!Levels(Guard, 0, MaxTokens)
  BY <1>2, Zenon DEF Guard, GuardLevels!Levels, Zero, GuardAbove
<1>4. /\ Guard[0] = Zero(0)
      /\ \A i \in 1 .. MaxTokens : Guard[i] = GuardAbove(0, i, Guard[i - 1])
  BY <1>1, <1>3, GuardLevels!LevelsAre
<1> QED
  BY <1>4, Zenon DEF Zero, GuardAbove

CompileAbove(p, i, below) ==
    [e \in Expr[i] |-> [net \in Seq(Atoms) |-> guard_of(e, net, below)]]

CompileLevels == INSTANCE NatFacts WITH LevelZero <- None, LevelAbove <- CompileAbove

\* compile_guard by levels.
LEMMA CompileIs ==
    /\ compile_guard[0] = << >>
    /\ \A i \in 1 .. MaxTokens : compile_guard[i] =
          [e \in Expr[i] |-> [net \in Seq(Atoms) |-> guard_of(e, net, compile_guard[i - 1])]]
<1>1. MaxTokens \in Nat
  BY YamlAssumption
<1>2. \E f : CompileLevels!Levels(f, 0, MaxTokens)
  BY <1>1, CompileLevels!LevelsExist
<1>3. CompileLevels!Levels(compile_guard, 0, MaxTokens)
  BY <1>2, Zenon DEF compile_guard, CompileLevels!Levels, None, CompileAbove
<1>4. /\ compile_guard[0] = None(0)
      /\ \A i \in 1 .. MaxTokens : compile_guard[i] = CompileAbove(0, i, compile_guard[i - 1])
  BY <1>1, <1>3, CompileLevels!LevelsAre
<1> QED
  BY <1>4, Zenon DEF None, CompileAbove

EvalAbove(p, i, below) ==
    [guard \in Guard[i] |-> {vec \in SUBSET Nat : true_of(guard, vec, below)}]

EvalLevels == INSTANCE NatFacts WITH LevelZero <- None, LevelAbove <- EvalAbove

\* eval by levels.
LEMMA EvalIs ==
    /\ eval[0] = << >>
    /\ \A i \in 1 .. MaxTokens : eval[i] =
          [guard \in Guard[i] |-> {vec \in SUBSET Nat : true_of(guard, vec, eval[i - 1])}]
<1>1. MaxTokens \in Nat
  BY YamlAssumption
<1>2. \E f : EvalLevels!Levels(f, 0, MaxTokens)
  BY <1>1, EvalLevels!LevelsExist
<1>3. EvalLevels!Levels(eval, 0, MaxTokens)
  BY <1>2, Zenon DEF eval, EvalLevels!Levels, None, EvalAbove
<1>4. /\ eval[0] = None(0)
      /\ \A i \in 1 .. MaxTokens : eval[i] = EvalAbove(0, i, eval[i - 1])
  BY <1>1, <1>3, EvalLevels!LevelsAre
<1> QED
  BY <1>4, Zenon DEF None, EvalAbove

ParserAbove(p, i, below) ==
    parse_or(below)

ParserLevels == INSTANCE NatFacts WITH LevelZero <- Unread, LevelAbove <- ParserAbove

\* parse_expr by levels.
LEMMA ParserIs ==
    /\ parse_expr[0] = [t \in Seq(Token) |-> NoParse]
    /\ \A i \in 1 .. MaxTokens : parse_expr[i] =
          parse_or(parse_expr[i - 1])
<1>1. MaxTokens \in Nat
  BY YamlAssumption
<1>2. \E f : ParserLevels!Levels(f, 0, MaxTokens)
  BY <1>1, ParserLevels!LevelsExist
<1>3. ParserLevels!Levels(parse_expr, 0, MaxTokens)
  BY <1>2, Zenon DEF parse_expr, ParserLevels!Levels, Unread, ParserAbove
<1>4. /\ parse_expr[0] = Unread(0)
      /\ \A i \in 1 .. MaxTokens : parse_expr[i] = ParserAbove(0, i, parse_expr[i - 1])
  BY <1>1, <1>3, ParserLevels!LevelsAre
<1> QED
  BY <1>4, Zenon DEF Unread, ParserAbove

\* The texts of a list, joined from the left.
JoinZero(p) == << >>
JoinAbove(p, i, text) == IF i = 1 THEN p[1][1] ELSE text \o (<<p[2]>> \o p[1][i])
JoinLevels == INSTANCE NatFacts WITH LevelZero <- JoinZero, LevelAbove <- JoinAbove

\* Joined, text by text.
LEMMA JoinedIs ==
    ASSUME NEW parts, Len(parts) \in Nat, NEW sep
    PROVE  \E text :
              /\ Joined(parts, sep) = text[Len(parts)]
              /\ text[0] = << >>
              /\ Len(parts) >= 1 => text[1] = parts[1]
              /\ \A i \in 2 .. Len(parts) : text[i] = text[i - 1] \o (<<sep>> \o parts[i])
<1> DEFINE n == Len(parts)
           p == <<parts, sep>>
           Is(f) == f = [i \in 0 .. n |-> IF i = 0 THEN << >>
                                          ELSE IF i = 1 THEN parts[1]
                                          ELSE f[i - 1] \o (<<sep>> \o parts[i])]
           c == CHOOSE f : Is(f)
<1>1. p[1] = parts /\ p[2] = sep
  OBVIOUS
<1>2. \A f : JoinLevels!Levels(f, p, n) <=> Is(f)
  BY DEF JoinLevels!Levels, JoinZero, JoinAbove
<1>3. \E f : JoinLevels!Levels(f, p, n)
  BY JoinLevels!LevelsExist
<1>4. Is(c)
  <2>1. \E f : Is(f)
    BY <1>2, <1>3
  <2> QED
    BY <2>1, Zenon
<1>5. Joined(parts, sep) = c[n]
  BY Zenon DEF Joined
<1>6. /\ c[0] = JoinZero(p)
      /\ \A i \in 1 .. n : c[i] = JoinAbove(p, i, c[i - 1])
  <2>1. JoinLevels!Levels(c, p, n)
    BY <1>2, <1>4
  <2> HIDE DEF c, p
  <2> QED
    BY <2>1, JoinLevels!LevelsAre
<1> HIDE DEF c, p
<1>7. n >= 1 => c[1] = parts[1]
  BY <1>1, <1>6 DEF JoinAbove
<1>8. ASSUME NEW i \in 2 .. n PROVE c[i] = c[i - 1] \o (<<sep>> \o parts[i])
  <2>1. i \in 1 .. n /\ i # 1
    OBVIOUS
  <2>2. c[i] = JoinAbove(p, i, c[i - 1])
    BY <1>6, <2>1
  <2> QED
    BY <1>1, <2>1, <2>2, Zenon DEF JoinAbove
<1> QED
  BY <1>5, <1>6, <1>7, <1>8 DEF JoinZero

\* The rounds of a chain, one from the other.
RoundZero(p) == p[1][p[3]]
RoundAbove(p, i, acc) == onward(p[1], p[2], acc)
RoundLevels == INSTANCE NatFacts WITH LevelZero <- RoundZero, LevelAbove <- RoundAbove

\* A chain's rounds are the last of a function by levels.
LEMMA RoundsExist ==
    ASSUME NEW operand, NEW op, NEW t, NEW n \in Nat
    PROVE  \E f : /\ RoundLevels!Levels(f, <<operand, op, t>>, n)
                  /\ rounds_of(operand, op, t, n) = f[n]
<1> DEFINE p == <<operand, op, t>>
           Is(f) == f = [i \in 0 .. n |-> IF i = 0 THEN operand[t]
                                          ELSE onward(operand, op, f[i - 1])]
           c == CHOOSE f : Is(f)
<1>1. p[1] = operand /\ p[2] = op /\ p[3] = t
  OBVIOUS
<1>2. \A f : RoundLevels!Levels(f, p, n) <=> Is(f)
  BY DEF RoundLevels!Levels, RoundZero, RoundAbove
<1>3. \E f : RoundLevels!Levels(f, p, n)
  BY RoundLevels!LevelsExist
<1>4. Is(c)
  <2>1. \E f : Is(f)
    BY <1>2, <1>3
  <2> QED
    BY <2>1, Zenon
<1>5. rounds_of(operand, op, t, n) = c[n]
  BY Zenon DEF rounds_of
<1>6. RoundLevels!Levels(c, p, n)
  BY <1>2, <1>4
<1> HIDE DEF c
<1> QED
  BY <1>5, <1>6

\* The rounds of a chain: the first operand, then one onward after another.
LEMMA RoundsAre ==
    ASSUME NEW operand, NEW op, NEW t
    PROVE  /\ rounds_of(operand, op, t, 0) = operand[t]
           /\ \A n \in Nat : rounds_of(operand, op, t, n + 1)
                               = onward(operand, op, rounds_of(operand, op, t, n))
<1> DEFINE p == <<operand, op, t>>
<1>1. p[1] = operand /\ p[2] = op /\ p[3] = t
  OBVIOUS
<1>2. PICK z : RoundLevels!Levels(z, p, 0) /\ rounds_of(operand, op, t, 0) = z[0]
  BY RoundsExist
<1>3. z[0] = RoundZero(p)
  BY <1>2, RoundLevels!LevelsAre
<1>4. ASSUME NEW n \in Nat
      PROVE  rounds_of(operand, op, t, n + 1)
               = onward(operand, op, rounds_of(operand, op, t, n))
  <2>1. PICK f : RoundLevels!Levels(f, p, n) /\ rounds_of(operand, op, t, n) = f[n]
    BY RoundsExist
  <2>2. PICK g : RoundLevels!Levels(g, p, n + 1) /\ rounds_of(operand, op, t, n + 1) = g[n + 1]
    BY RoundsExist
  <2>3. n \in 0 .. n /\ n + 1 \in Nat /\ n <= n + 1 /\ n + 1 \in 1 .. (n + 1) /\ (n + 1) - 1 = n
    OBVIOUS
  <2> HIDE DEF p
  <2>4. f[n] = g[n]
    BY <2>1, <2>2, <2>3, RoundLevels!LevelsAgree
  <2>5. g[n + 1] = RoundAbove(p, n + 1, g[n])
    <3>1. \A i \in 1 .. (n + 1) : g[i] = RoundAbove(p, i, g[i - 1])
      BY <2>2, <2>3, RoundLevels!LevelsAre
    <3> QED
      BY <2>3, <3>1
  <2> QED
    BY <1>1, <2>1, <2>2, <2>4, <2>5 DEF RoundAbove
<1> QED
  BY <1>1, <1>2, <1>3, <1>4 DEF RoundZero

-----------------------------------------------------------------------------
(***************************************************************************)
(* Guards.  A guard of n levels is one of n + 1 levels too, and is true of *)
(* the same vectors: what merge_and and merge_or lift out of an operand    *)
(* means what it meant below.                                              *)
(***************************************************************************)
LEMMA GuardCases ==
    ASSUME NEW B, NEW g \in Guards(B)
    PROVE  \/ g.g = "alpha" /\ g.id \in Nat
           \/ g.g \in {"true", "false"}
           \/ g.g = "not" /\ g.arg \in B
           \/ g.g \in {"&&", "||"} /\ g.gs \in Seq(B)
BY DEF Guards

\* A guard of n levels is one of n + 1.
LEMMA GuardsGrow ==
    ASSUME NEW B, NEW C, B \subseteq C
    PROVE  Guards(B) \subseteq Guards(C) /\ Seq(B) \subseteq Seq(C)
<1>1. Seq(B) \subseteq Seq(C)
  OBVIOUS
<1> QED
  BY <1>1 DEF Guards

\* What a guard says, by its operator.
LEMMA TrueOf ==
    ASSUME NEW g, NEW vec, NEW below
    PROVE  /\ g.g = "alpha" => (true_of(g, vec, below) <=> g.id \in vec)
           /\ g.g = "&&" => (true_of(g, vec, below)
                               <=> \A i \in DOMAIN g.gs : vec \in below[g.gs[i]])
           /\ g.g = "||" => (true_of(g, vec, below)
                               <=> \E i \in DOMAIN g.gs : vec \in below[g.gs[i]])
           /\ g.g = "not" => (true_of(g, vec, below) <=> vec \notin below[g.arg])
           /\ g.g = "true" => true_of(g, vec, below)
           /\ g.g = "false" => ~true_of(g, vec, below)
BY DEF true_of

\* A guard is true of the same vectors at every level it belongs to.
LEMMA EvalLifts ==
    \A n \in Nat : n < MaxTokens =>
        /\ Guard[n] \subseteq Guard[n + 1]
        /\ \A g \in Guard[n] : eval[n + 1][g] = eval[n][g]
<1> DEFINE T == {n \in Nat : n < MaxTokens =>
                    /\ Guard[n] \subseteq Guard[n + 1]
                    /\ \A g \in Guard[n] : eval[n + 1][g] = eval[n][g]}
<1>0. MaxTokens \in Nat
  BY YamlAssumption
<1>1. 0 \in T
  BY GuardIs
<1>2. ASSUME NEW n \in Nat, n \in T PROVE n + 1 \in T
  <2> SUFFICES ASSUME n + 1 < MaxTokens
               PROVE  /\ Guard[n + 1] \subseteq Guard[n + 2]
                      /\ \A g \in Guard[n + 1] : eval[n + 2][g] = eval[n + 1][g]
    OBVIOUS
  <2>1. /\ Guard[n] \subseteq Guard[n + 1]
        /\ \A g \in Guard[n] : eval[n + 1][g] = eval[n][g]
    BY <1>0, <1>2
  <2>2. /\ n + 1 \in 1 .. MaxTokens /\ (n + 1) - 1 = n
        /\ n + 2 \in 1 .. MaxTokens /\ (n + 2) - 1 = n + 1
    BY <1>0
  <2>3. Guard[n + 1] = Guards(Guard[n]) /\ Guard[n + 2] = Guards(Guard[n + 1])
    <3>1. \A i \in 1 .. MaxTokens : Guard[i] = Guards(Guard[i - 1])
      BY GuardIs
    <3>2. Guard[n + 1] = Guards(Guard[(n + 1) - 1]) /\ Guard[n + 2] = Guards(Guard[(n + 2) - 1])
      BY <2>2, <3>1
    <3> QED
      BY <2>2, <3>2
  <2>4. Guard[n + 1] \subseteq Guard[n + 2]
    BY <2>1, <2>3, GuardsGrow
  <2>5. /\ \A g \in Guard[n + 1] : eval[n + 1][g] = {vec \in SUBSET Nat : true_of(g, vec, eval[n])}
        /\ \A g \in Guard[n + 2] : eval[n + 2][g] = {vec \in SUBSET Nat : true_of(g, vec, eval[n + 1])}
    <3>1. \A i \in 1 .. MaxTokens : eval[i] =
             [guard \in Guard[i] |-> {vec \in SUBSET Nat : true_of(guard, vec, eval[i - 1])}]
      BY EvalIs
    <3>2. /\ eval[n + 1] =
               [guard \in Guard[n + 1] |-> {vec \in SUBSET Nat : true_of(guard, vec, eval[(n + 1) - 1])}]
          /\ eval[n + 2] =
               [guard \in Guard[n + 2] |-> {vec \in SUBSET Nat : true_of(guard, vec, eval[(n + 2) - 1])}]
      BY <2>2, <3>1
    <3>3. /\ eval[n + 1] =
               [guard \in Guard[n + 1] |-> {vec \in SUBSET Nat : true_of(guard, vec, eval[n])}]
          /\ eval[n + 2] =
               [guard \in Guard[n + 2] |-> {vec \in SUBSET Nat : true_of(guard, vec, eval[n + 1])}]
      BY <2>2, <3>2
    <3> QED
      BY <3>3, Zenon
  <2>6. ASSUME NEW g \in Guard[n + 1], NEW vec \in SUBSET Nat
        PROVE  true_of(g, vec, eval[n + 1]) <=> true_of(g, vec, eval[n])
    <3>1. \/ g.g = "alpha" /\ g.id \in Nat
          \/ g.g \in {"true", "false"}
          \/ g.g = "not" /\ g.arg \in Guard[n]
          \/ g.g \in {"&&", "||"} /\ g.gs \in Seq(Guard[n])
      BY <2>3, GuardCases
    <3>2. CASE g.g = "alpha" \/ g.g \in {"true", "false"}
      BY <3>2, TrueOf
    <3>3. CASE g.g = "not" /\ g.arg \in Guard[n]
      BY <2>1, <3>3, TrueOf
    <3>4. CASE g.g \in {"&&", "||"} /\ g.gs \in Seq(Guard[n])
      <4>1. \A i \in DOMAIN g.gs : eval[n + 1][g.gs[i]] = eval[n][g.gs[i]]
        BY <2>1, <3>4
      <4>2. CASE g.g = "&&"
        BY <4>1, <4>2, TrueOf
      <4>3. CASE g.g = "||"
        BY <4>1, <4>3, TrueOf
      <4> QED
        BY <3>4, <4>2, <4>3
    <3> QED
      BY <3>1, <3>2, <3>3, <3>4
  <2>7. ASSUME NEW g \in Guard[n + 1] PROVE eval[n + 2][g] = eval[n + 1][g]
    <3>1. g \in Guard[n + 2]
      BY <2>4
    <3> QED
      BY <2>5, <2>6, <3>1
  <2> QED
    BY <2>4, <2>7
<1> HIDE DEF T
<1>3. \A n \in Nat : n \in T
  BY <1>1, <1>2, SetInduction
<1> QED
  BY <1>3 DEF T

(***************************************************************************)
(* What a tree is worth to the compiler: whatever alphas there are, it     *)
(* keeps them, and the guard is true of exactly the requests in V, also    *)
(* when further alphas are interned later.                                 *)
(***************************************************************************)
Extends(more, net) ==
    more \in Seq(Atoms) /\ Len(net) <= Len(more) /\ \A i \in 1 .. Len(net) : more[i] = net[i]

Holds(n, net, g, V) ==
    \A more : Extends(more, net) =>
        \A env \in Requests : Vector(more, env) \in eval[n][g] <=> env \in V

GuardOk(n, net, x, V) ==
    Extends(x.net, net) /\ x.guard \in Guard[n] /\ Holds(n, x.net, x.guard, V)

MeansAt(n, tree, V) ==
    /\ tree \in Expr[n]
    /\ \A net \in Seq(Atoms) : GuardOk(n, net, compile_guard[n][tree][net], V)

Means(tree, V, h) == \A n \in h .. MaxTokens : MeansAt(n, tree, V)

\* Alphas that extend alphas that extend the first ones extend those.
LEMMA ExtendsTrans ==
    ASSUME NEW a, NEW b, NEW c \in Seq(Atoms), Extends(a, b), Extends(b, c)
    PROVE  Extends(a, c)
BY DEF Extends

\* Every list of alphas extends itself.
LEMMA ExtendsSelf ==
    ASSUME NEW a \in Seq(Atoms) PROVE Extends(a, a)
BY DEF Extends

\* The alpha vector of a request: the places of the alphas true of it.
LEMMA VectorIs ==
    ASSUME NEW net \in Seq(Atoms), NEW env
    PROVE  /\ Vector(net, env) \in SUBSET Nat
           /\ \A i : i \in Vector(net, env) <=> i \in 1 .. Len(net) /\ net[i] \in env
BY DEF Vector

\* intern_alpha keeps the alphas there are and gives the place of the key.
LEMMA InternIs ==
    ASSUME NEW net \in Seq(Atoms), NEW a \in Atoms
    PROVE  LET x == intern_alpha(net, a)
           IN  Extends(x.net, net) /\ x.id \in 1 .. Len(x.net) /\ x.net[x.id] = a
<1>1. CASE \E i \in DOMAIN net : net[i] = a
  <2> DEFINE j == CHOOSE i \in DOMAIN net : net[i] = a
  <2>1. j \in DOMAIN net /\ net[j] = a
    BY <1>1
  <2>2. intern_alpha(net, a) = [net |-> net, id |-> j]
    BY <1>1, Zenon DEF intern_alpha
  <2> HIDE DEF j
  <2> QED
    BY <2>1, <2>2 DEF Extends
<1>2. CASE ~\E i \in DOMAIN net : net[i] = a
  BY <1>2 DEF intern_alpha, Extends
<1> QED
  BY <1>1, <1>2

\* The functions by levels at a tree and a guard of n levels.
LEMMA CompileAt ==
    ASSUME NEW n \in 1 .. MaxTokens, NEW e \in Expr[n], NEW net \in Seq(Atoms)
    PROVE  compile_guard[n][e][net] = guard_of(e, net, compile_guard[n - 1])
<1>1. compile_guard[n] =
         [d \in Expr[n] |-> [m \in Seq(Atoms) |-> guard_of(d, m, compile_guard[n - 1])]]
  BY CompileIs
<1>2. compile_guard[n][e] = [m \in Seq(Atoms) |-> guard_of(e, m, compile_guard[n - 1])]
  BY <1>1
<1> QED
  BY <1>2

\* eval at a guard of n levels.
LEMMA EvalAt ==
    ASSUME NEW n \in 1 .. MaxTokens, NEW g \in Guard[n], NEW vec \in SUBSET Nat
    PROVE  vec \in eval[n][g] <=> true_of(g, vec, eval[n - 1])
<1>1. eval[n] = [h \in Guard[n] |-> {v \in SUBSET Nat : true_of(h, v, eval[n - 1])}]
  BY EvalIs
<1> QED
  BY <1>1, Zenon

\* The trees and the guards of n levels.
LEMMA ExprAt ==
    ASSUME NEW n \in 1 .. MaxTokens
    PROVE  Expr[n] = Expressions(Expr[n - 1]) /\ Guard[n] = Guards(Guard[n - 1])
BY ExprIs, GuardIs

\* A comparison.
LEMMA MeansAtom ==
    ASSUME NEW n \in 1 .. MaxTokens, NEW a \in Atoms
    PROVE  MeansAt(n, [op |-> a], {env \in Requests : a \in env})
<1> DEFINE e == [op |-> a]
           V == {env \in Requests : a \in env}
<1>1. e \in Expr[n]
  BY ExprAt DEF Expressions
<1>2. ASSUME NEW net \in Seq(Atoms)
      PROVE  GuardOk(n, net, compile_guard[n][e][net], V)
  <2> DEFINE x == intern_alpha(net, a)
             g == [g |-> "alpha", id |-> x.id]
  <2>1. Extends(x.net, net) /\ x.id \in 1 .. Len(x.net) /\ x.net[x.id] = a
    BY InternIs
  <2>2. compile_guard[n][e][net] = Compiled(x.net, g)
    <3>1. a \notin {"&&", "||", "not", "true", "false"}
      BY YamlAssumption
    <3>2. compile_guard[n][e][net] = guard_of(e, net, compile_guard[n - 1])
      BY <1>1, CompileAt
    <3> QED
      BY <3>1, <3>2 DEF guard_of
  <2> HIDE DEF x
  <2>3. x.net \in Seq(Atoms) /\ x.id \in Nat
    BY <2>1 DEF Extends
  <2>4. g \in Guard[n]
    BY <2>3, ExprAt DEF Guards
  <2>5. ASSUME NEW more, Extends(more, x.net), NEW env \in Requests
        PROVE  Vector(more, env) \in eval[n][g] <=> env \in V
    <3>1. more \in Seq(Atoms) /\ x.id \in 1 .. Len(more) /\ more[x.id] = a
      BY <2>1, <2>3, <2>5 DEF Extends
    <3>2. Vector(more, env) \in SUBSET Nat /\ (x.id \in Vector(more, env) <=> a \in env)
      BY <3>1, VectorIs
    <3>3. g.g = "alpha" /\ g.id = x.id
      OBVIOUS
    <3>4. Vector(more, env) \in eval[n][g] <=> true_of(g, Vector(more, env), eval[n - 1])
      BY <2>4, <3>2, EvalAt
    <3>5. true_of(g, Vector(more, env), eval[n - 1]) <=> g.id \in Vector(more, env)
      BY <3>3, TrueOf
    <3> QED
      BY <3>2, <3>3, <3>4, <3>5
  <2>6. Holds(n, x.net, g, V)
    BY <2>5 DEF Holds
  <2> HIDE DEF g, V
  <2> QED
    BY <2>1, <2>2, <2>4, <2>6 DEF GuardOk, Compiled
<1> QED
  BY <1>1, <1>2 DEF MeansAt

\* true and false.
LEMMA MeansConst ==
    ASSUME NEW n \in 1 .. MaxTokens, NEW b \in {"true", "false"}
    PROVE  MeansAt(n, [op |-> b], {env \in Requests : b = "true"})
<1> DEFINE e == [op |-> b]
           V == {env \in Requests : b = "true"}
           g == [g |-> b]
<1>1. e \in Expr[n] /\ g \in Guard[n]
  BY ExprAt DEF Expressions, Guards
<1>2. ASSUME NEW net \in Seq(Atoms)
      PROVE  GuardOk(n, net, compile_guard[n][e][net], V)
  <2>1. compile_guard[n][e][net] = Compiled(net, g)
    <3>1. compile_guard[n][e][net] = guard_of(e, net, compile_guard[n - 1])
      BY <1>1, CompileAt
    <3> QED
      BY <3>1 DEF guard_of
  <2>2. ASSUME NEW more, Extends(more, net), NEW env \in Requests
        PROVE  Vector(more, env) \in eval[n][g] <=> env \in V
    <3>1. Vector(more, env) \in SUBSET Nat
      BY <2>2, VectorIs DEF Extends
    <3>2. Vector(more, env) \in eval[n][g] <=> true_of(g, Vector(more, env), eval[n - 1])
      BY <1>1, <3>1, EvalAt
    <3>3. true_of(g, Vector(more, env), eval[n - 1]) <=> b = "true"
      BY TrueOf
    <3> QED
      BY <3>2, <3>3
  <2>3. Holds(n, net, g, V)
    BY <2>2 DEF Holds
  <2> HIDE DEF g, V
  <2> QED
    BY <1>1, <2>1, <2>3, ExtendsSelf DEF GuardOk, Compiled
<1> QED
  BY <1>1, <1>2 DEF MeansAt

\* A negation.
LEMMA MeansNot ==
    ASSUME NEW n \in 1 .. MaxTokens, NEW e, NEW V, MeansAt(n - 1, e, V)
    PROVE  MeansAt(n, Unary(e), Requests \ V)
<1> DEFINE u == Unary(e)
           W == Requests \ V
<1>1. e \in Expr[n - 1] /\ u \in Expr[n]
  BY ExprAt DEF Expressions, Unary, MeansAt
<1>2. ASSUME NEW net \in Seq(Atoms)
      PROVE  GuardOk(n, net, compile_guard[n][u][net], W)
  <2> DEFINE x == compile_guard[n - 1][e][net]
             g == [g |-> "not", arg |-> x.guard]
  <2>1. Extends(x.net, net) /\ x.guard \in Guard[n - 1] /\ Holds(n - 1, x.net, x.guard, V)
    BY DEF MeansAt, GuardOk
  <2>2. compile_guard[n][u][net] = Compiled(x.net, g)
    <3>1. compile_guard[n][u][net] = guard_of(u, net, compile_guard[n - 1])
      BY <1>1, CompileAt
    <3> QED
      BY <3>1 DEF guard_of, Unary
  <2> HIDE DEF x
  <2>3. g \in Guard[n]
    BY <2>1, ExprAt DEF Guards
  <2>4. ASSUME NEW more, Extends(more, x.net), NEW env \in Requests
        PROVE  Vector(more, env) \in eval[n][g] <=> env \in W
    <3>1. Vector(more, env) \in SUBSET Nat
      BY <2>4, VectorIs DEF Extends
    <3>2. Vector(more, env) \in eval[n][g] <=> true_of(g, Vector(more, env), eval[n - 1])
      BY <2>3, <3>1, EvalAt
    <3>3. true_of(g, Vector(more, env), eval[n - 1]) <=> Vector(more, env) \notin eval[n - 1][x.guard]
      BY TrueOf
    <3>4. Vector(more, env) \in eval[n - 1][x.guard] <=> env \in V
      BY <2>1, <2>4 DEF Holds
    <3> QED
      BY <3>2, <3>3, <3>4
  <2>5. Holds(n, x.net, g, W)
    BY <2>4 DEF Holds
  <2> HIDE DEF g, W
  <2> QED
    BY <2>1, <2>2, <2>3, <2>5 DEF GuardOk, Compiled
<1> QED
  BY <1>1, <1>2 DEF MeansAt

\* The guards gs say together of a vector what g says.
SayTogether(n, op, g, gs, vec) ==
    /\ op = "&&" => (vec \in eval[n][g] <=> \A i \in DOMAIN gs : vec \in eval[n][gs[i]])
    /\ op = "||" => (vec \in eval[n][g] <=> \E i \in DOMAIN gs : vec \in eval[n][gs[i]])

\* A sequence of one element.
LEMMA Single ==
    ASSUME NEW S, NEW x \in S
    PROVE  <<x>> \in Seq(S) /\ Len(<<x>>) = 1 /\ <<x>>[1] = x
<1>1. Len(<<x>>) = 1 /\ <<x>>[1] = x
  OBVIOUS
<1>2. <<x>> \in Seq(S)
  OBVIOUS
<1> QED
  BY <1>1, <1>2

\* The operands of a guard of n levels, flattened, say together what it says.
LEMMA OperandsAre ==
    ASSUME NEW n \in 0 .. MaxTokens, NEW g \in Guard[n], NEW op \in {"&&", "||"}
    PROVE  /\ Operands(op, g) \in Seq(Guard[n])
           /\ \A vec \in SUBSET Nat : SayTogether(n, op, g, Operands(op, g), vec)
<1>0. MaxTokens \in Nat
  BY YamlAssumption
<1>1. CASE g.g # op
  <2>1. Operands(op, g) = <<g>>
    BY <1>1 DEF Operands
  <2>2. Len(<<g>>) = 1 /\ <<g>>[1] = g /\ <<g>> \in Seq(Guard[n])
    BY Single
  <2>3. \A i : i \in DOMAIN <<g>> <=> i = 1
    OBVIOUS
  <2> QED
    BY <2>1, <2>2, <2>3 DEF SayTogether
<1>2. CASE g.g = op
  <2>1. n \in 1 .. MaxTokens
    BY GuardIs
  <2>2. n - 1 \in Nat /\ n - 1 < MaxTokens /\ (n - 1) + 1 = n
    BY <1>0, <2>1
  <2>3. /\ Guard[n - 1] \subseteq Guard[n]
        /\ \A h \in Guard[n - 1] : eval[n][h] = eval[n - 1][h]
    <3>1. /\ Guard[n - 1] \subseteq Guard[(n - 1) + 1]
          /\ \A h \in Guard[n - 1] : eval[(n - 1) + 1][h] = eval[n - 1][h]
      BY <2>2, EvalLifts
    <3> QED
      BY <2>2, <3>1
  <2>4. g \in Guards(Guard[n - 1])
    BY <2>1, ExprAt
  <2>5. g.gs \in Seq(Guard[n - 1])
    BY <1>2, <2>4, GuardCases
  <2>6. Operands(op, g) = g.gs /\ g.gs \in Seq(Guard[n])
    BY <1>2, <2>3, <2>5 DEF Operands
  <2>7. \A i \in DOMAIN g.gs : eval[n][g.gs[i]] = eval[n - 1][g.gs[i]]
    BY <2>3, <2>5
  <2>8. ASSUME NEW vec \in SUBSET Nat
        PROVE  SayTogether(n, op, g, g.gs, vec)
    <3>1. vec \in eval[n][g] <=> true_of(g, vec, eval[n - 1])
      BY <2>1, EvalAt
    <3>2. CASE op = "&&"
      <4>1. true_of(g, vec, eval[n - 1]) <=> \A i \in DOMAIN g.gs : vec \in eval[n - 1][g.gs[i]]
        BY <1>2, <3>2, TrueOf
      <4> QED
        BY <2>7, <3>1, <3>2, <4>1 DEF SayTogether
    <3>3. CASE op = "||"
      <4>1. true_of(g, vec, eval[n - 1]) <=> \E i \in DOMAIN g.gs : vec \in eval[n - 1][g.gs[i]]
        BY <1>2, <3>3, TrueOf
      <4> QED
        BY <2>7, <3>1, <3>3, <4>1 DEF SayTogether
    <3> QED
      BY <3>2, <3>3 DEF SayTogether
  <2> QED
    BY <2>6, <2>8
<1> QED
  BY <1>1, <1>2

AllIn(s, G) == \A i \in DOMAIN s : s[i] \in G
SomeIn(s, G) == \E i \in DOMAIN s : s[i] \in G

\* The members of two sequences in a row.
LEMMA ConcatMembers ==
    ASSUME NEW S, NEW s \in Seq(S), NEW t \in Seq(S), NEW G
    PROVE  /\ s \o t \in Seq(S)
           /\ AllIn(s \o t, G) <=> AllIn(s, G) /\ AllIn(t, G)
           /\ SomeIn(s \o t, G) <=> SomeIn(s, G) \/ SomeIn(t, G)
<1>1. /\ s \o t \in Seq(S)
      /\ DOMAIN (s \o t) = 1 .. (Len(s) + Len(t))
      /\ DOMAIN s = 1 .. Len(s) /\ DOMAIN t = 1 .. Len(t)
      /\ Len(s) \in Nat /\ Len(t) \in Nat
  OBVIOUS
<1>2. \A i \in DOMAIN s : i \in DOMAIN (s \o t) /\ (s \o t)[i] = s[i]
  BY <1>1
<1>3. \A i \in DOMAIN t : i + Len(s) \in DOMAIN (s \o t) /\ (s \o t)[i + Len(s)] = t[i]
  BY <1>1
<1>4. \A i \in DOMAIN (s \o t) :
         \/ i \in DOMAIN s /\ (s \o t)[i] = s[i]
         \/ i - Len(s) \in DOMAIN t /\ (s \o t)[i] = t[i - Len(s)]
  BY <1>1
<1> QED
  BY <1>1, <1>2, <1>3, <1>4 DEF AllIn, SomeIn

\* The requests of a binary expression.
Both(op, V, W) == IF op = "&&" THEN V \intersect W ELSE V \union W

\* A conjunction or a disjunction.
LEMMA MeansBinary ==
    ASSUME NEW n \in 1 .. MaxTokens, NEW op \in {"&&", "||"},
           NEW l, NEW V, MeansAt(n - 1, l, V),
           NEW r, NEW W, MeansAt(n - 1, r, W)
    PROVE  MeansAt(n, Binary(op, l, r), Both(op, V, W))
<1> DEFINE b == Binary(op, l, r)
           Z == Both(op, V, W)
<1>1. l \in Expr[n - 1] /\ r \in Expr[n - 1] /\ b \in Expr[n]
  BY ExprAt DEF Expressions, Binary, MeansAt
<1>2. ASSUME NEW net \in Seq(Atoms)
      PROVE  GuardOk(n, net, compile_guard[n][b][net], Z)
  <2> DEFINE x == compile_guard[n - 1][l][net]
             y == compile_guard[n - 1][r][x.net]
             g == merge(op, x.guard, y.guard)
  <2>1. Extends(x.net, net) /\ x.guard \in Guard[n - 1] /\ Holds(n - 1, x.net, x.guard, V)
    BY DEF MeansAt, GuardOk
  <2>2. x.net \in Seq(Atoms)
    BY <2>1 DEF Extends
  <2>3. Extends(y.net, x.net) /\ y.guard \in Guard[n - 1] /\ Holds(n - 1, y.net, y.guard, W)
    BY <2>2 DEF MeansAt, GuardOk
  <2>4. compile_guard[n][b][net] = Compiled(y.net, g)
    <3>1. compile_guard[n][b][net] = guard_of(b, net, compile_guard[n - 1])
      BY <1>1, CompileAt
    <3>2. b.op = op /\ b.left = l /\ b.right = r
      BY DEF Binary
    <3> HIDE DEF b
    <3> QED
      BY <3>1, <3>2 DEF guard_of
  <2> HIDE DEF x, y
  <2> DEFINE A == Operands(op, x.guard)
             B == Operands(op, y.guard)
  <2>5. g.g = op /\ g.gs = A \o B /\ g = [g |-> op, gs |-> A \o B]
    BY DEF merge
  <2>6. n - 1 \in 0 .. MaxTokens
    BY YamlAssumption
  <2>7. A \in Seq(Guard[n - 1]) /\ B \in Seq(Guard[n - 1])
    BY <2>1, <2>3, <2>6, OperandsAre
  <2>8. g \in Guard[n]
    <3>1. A \o B \in Seq(Guard[n - 1])
      BY <2>7, ConcatMembers
    <3> HIDE DEF g, A, B
    <3>2. [g |-> op, gs |-> A \o B] \in Guards(Guard[n - 1])
      BY <3>1 DEF Guards
    <3> QED
      BY <2>5, <3>2, ExprAt
  <2>9. ASSUME NEW more, Extends(more, y.net), NEW env \in Requests
        PROVE  Vector(more, env) \in eval[n][g] <=> env \in Z
    <3> DEFINE v == Vector(more, env)
               G == {h \in Guard[n - 1] : v \in eval[n - 1][h]}
    <3>1. v \in SUBSET Nat
      BY <2>9, VectorIs DEF Extends
    <3>2. v \in eval[n][g] <=> true_of(g, v, eval[n - 1])
      BY <2>8, <3>1, EvalAt
    <3>3. /\ v \in eval[n - 1][x.guard] <=> env \in V
          /\ v \in eval[n - 1][y.guard] <=> env \in W
      <4>1. Extends(more, x.net)
        BY <2>2, <2>3, <2>9, ExtendsTrans
      <4> QED
        BY <2>1, <2>3, <2>9, <4>1 DEF Holds
    <3>4. /\ \A i \in DOMAIN A : A[i] \in G <=> v \in eval[n - 1][A[i]]
          /\ \A i \in DOMAIN B : B[i] \in G <=> v \in eval[n - 1][B[i]]
          /\ \A i \in DOMAIN (A \o B) : (A \o B)[i] \in G <=> v \in eval[n - 1][(A \o B)[i]]
      <4>1. A \o B \in Seq(Guard[n - 1])
        BY <2>7, ConcatMembers
      <4> HIDE DEF A, B, v
      <4>2. \A s \in Seq(Guard[n - 1]) : \A i \in DOMAIN s : s[i] \in G <=> v \in eval[n - 1][s[i]]
        OBVIOUS
      <4> HIDE DEF G
      <4> QED
        BY <2>7, <4>1, <4>2
    <3> HIDE DEF G, v
    <3>7. SayTogether(n - 1, op, x.guard, A, v) /\ SayTogether(n - 1, op, y.guard, B, v)
      BY <2>1, <2>3, <2>6, <3>1, OperandsAre
    <3> HIDE DEF A, B, g
    <3>5. CASE op = "&&"
      <4>1. true_of(g, v, eval[n - 1]) <=> \A i \in DOMAIN (A \o B) : v \in eval[n - 1][(A \o B)[i]]
        <5>1. true_of(g, v, eval[n - 1]) <=> \A i \in DOMAIN g.gs : v \in eval[n - 1][g.gs[i]]
          <6>1. g.g = "&&"
            BY <2>5, <3>5
          <6> QED
            BY <6>1, TrueOf
        <5> QED
          BY <2>5, <5>1
      <4>2. AllIn(A \o B, G) <=> AllIn(A, G) /\ AllIn(B, G)
        BY <2>7, ConcatMembers
      <4>5. v \in eval[n][g] <=> env \in V /\ env \in W
        BY <3>5, <3>2, <3>3, <3>4, <3>7, <4>1, <4>2 DEF AllIn, SayTogether
      <4> QED
        BY <3>5, <4>5 DEF Both, v, Z
    <3>6. CASE op = "||"
      <4>1. true_of(g, v, eval[n - 1]) <=> \E i \in DOMAIN (A \o B) : v \in eval[n - 1][(A \o B)[i]]
        <5>1. true_of(g, v, eval[n - 1]) <=> \E i \in DOMAIN g.gs : v \in eval[n - 1][g.gs[i]]
          <6>1. g.g = "||"
            BY <2>5, <3>6
          <6> QED
            BY <6>1, TrueOf
        <5> QED
          BY <2>5, <5>1
      <4>2. SomeIn(A \o B, G) <=> SomeIn(A, G) \/ SomeIn(B, G)
        BY <2>7, ConcatMembers
      <4>5. v \in eval[n][g] <=> env \in V \/ env \in W
        BY <3>6, <3>2, <3>3, <3>4, <3>7, <4>1, <4>2 DEF SomeIn, SayTogether
      <4> QED
        BY <3>6, <4>5 DEF Both, v, Z
    <3> QED
      BY <3>5, <3>6
  <2>10. Holds(n, y.net, g, Z)
    BY <2>9 DEF Holds
  <2>11. Extends(y.net, net)
    BY <2>1, <2>3, ExtendsTrans
  <2> HIDE DEF g, Z
  <2> QED
    BY <2>4, <2>8, <2>10, <2>11 DEF GuardOk, Compiled
<1> QED
  BY <1>1, <1>2 DEF MeansAt

-----------------------------------------------------------------------------
(***************************************************************************)
(* The parser: texts, and chains of operands.                              *)
(***************************************************************************)
LEMMA Tokens ==
    /\ {"true", "false", "(", ")", "!", "&&", "||", "junk"} \subseteq Token
    /\ Atoms \subseteq Token
    /\ "error" \notin Token
    /\ \A a \in Atoms : a \notin {"true", "false", "(", ")", "!", "&&", "||", "junk", "not", "error"}
BY YamlAssumption DEF Token

\* A token before a text, and the text behind it.
LEMMA Cons ==
    ASSUME NEW x \in Token, NEW s \in Seq(Token)
    PROVE  /\ <<x>> \o s \in Seq(Token)
           /\ Len(<<x>> \o s) = Len(s) + 1
           /\ <<x>> \o s # << >>
           /\ (<<x>> \o s)[1] = x
           /\ Tail(<<x>> \o s) = s
<1> DEFINE c == <<x>> \o s
<1>1. <<x>> \in Seq(Token) /\ Len(<<x>>) = 1 /\ <<x>>[1] = x
  OBVIOUS
<1>2. /\ c \in Seq(Token)
      /\ Len(c) = Len(s) + 1
      /\ \A i \in 1 .. Len(s) + 1 : c[i] = IF i <= 1 THEN <<x>>[i] ELSE s[i - 1]
  BY <1>1, ConcatProperties
<1>3. c # << >> /\ c[1] = x
  BY <1>1, <1>2
<1>4. /\ Tail(c) \in Seq(Token) /\ Len(Tail(c)) = Len(s)
      /\ \A i \in 1 .. Len(s) : Tail(c)[i] = c[i + 1]
  BY <1>2, <1>3, HeadTailProperties
<1>5. \A i \in 1 .. Len(s) : Tail(c)[i] = s[i]
  BY <1>2, <1>4
<1>6. Tail(c) = s
  BY <1>4, <1>5, SeqEqual
<1> QED
  BY <1>2, <1>3, <1>6

CountOf(op, t) == Cardinality({i \in DOMAIN t : t[i] = op})

\* The number of a token's places in a text.
LEMMA CountType ==
    ASSUME NEW op, NEW t \in Seq(Token) PROVE CountOf(op, t) \in Nat
<1>1. IsFiniteSet(1 .. Len(t))
  BY FS_Interval
<1>2. {i \in DOMAIN t : t[i] = op} \subseteq 1 .. Len(t)
  OBVIOUS
<1> QED
  BY <1>1, <1>2, FS_Subset, FS_CardinalityType DEF CountOf

\* A longer text has no fewer of a token, and one more after that token.
LEMMA CountGrows ==
    ASSUME NEW op \in Token, NEW s \in Seq(Token), NEW u \in Seq(Token)
    PROVE  /\ CountOf(op, s) \in Nat
           /\ CountOf(op, s \o u) >= CountOf(op, s)
           /\ CountOf(op, s \o (<<op>> \o u)) >= CountOf(op, s) + 1
<1> DEFINE P(t) == {i \in DOMAIN t : t[i] = op}
           c == <<op>> \o u
<1>1. ASSUME NEW t \in Seq(Token) PROVE IsFiniteSet(P(t)) /\ Cardinality(P(t)) \in Nat
  <2>1. IsFiniteSet(1 .. Len(t))
    BY FS_Interval
  <2>2. P(t) \subseteq 1 .. Len(t)
    OBVIOUS
  <2> QED
    BY <2>1, <2>2, FS_Subset, FS_CardinalityType
<1>2. s \o u \in Seq(Token) /\ c \in Seq(Token) /\ s \o c \in Seq(Token) /\ Len(s) \in Nat
  BY Cons
<1>3. P(s) \subseteq P(s \o u)
  OBVIOUS
<1>4. P(s) \union {Len(s) + 1} \subseteq P(s \o c)
  <2>1. Len(c) >= 1 /\ c[1] = op
    BY Cons
  <2> HIDE DEF c
  <2> QED
    BY <1>2, <2>1
<1>5. Len(s) + 1 \notin P(s)
  OBVIOUS
<1> HIDE DEF P
<1>6. Cardinality(P(s)) <= Cardinality(P(s \o u))
  BY <1>1, <1>2, <1>3, FS_Subset
<1>7. /\ IsFiniteSet(P(s) \union {Len(s) + 1})
      /\ Cardinality(P(s) \union {Len(s) + 1}) = Cardinality(P(s)) + 1
  BY <1>1, <1>5, FS_AddElement
<1>8. Cardinality(P(s) \union {Len(s) + 1}) <= Cardinality(P(s \o c))
  BY <1>1, <1>2, <1>4, FS_Subset
<1>9. /\ Cardinality(P(s)) \in Nat /\ Cardinality(P(s \o u)) \in Nat
      /\ Cardinality(P(s \o c)) \in Nat
  BY <1>1, <1>2
<1>10. /\ CountOf(op, s) = Cardinality(P(s)) /\ CountOf(op, s \o u) = Cardinality(P(s \o u))
       /\ CountOf(op, s \o c) = Cardinality(P(s \o c))
  BY DEF CountOf, P
<1> QED
  BY <1>6, <1>7, <1>8, <1>9, <1>10

\* A chain that cannot go on has ended.
LEMMA ChainEnds ==
    ASSUME NEW operand, NEW op \in Token, NEW t \in Seq(Token), NEW k \in Nat,
           k <= CountOf(op, t),
           onward(operand, op, rounds_of(operand, op, t, k)) = rounds_of(operand, op, t, k)
    PROVE  chain(operand, op)[t] = rounds_of(operand, op, t, k)
<1> DEFINE R(j) == rounds_of(operand, op, t, j)
           T == {j \in Nat : R(k + j) = R(k)}
<1>1. 0 \in T
  OBVIOUS
<1>2. ASSUME NEW j \in Nat, j \in T PROVE j + 1 \in T
  <2>1. R(k + j) = R(k)
    BY <1>2
  <2>2. k + j \in Nat /\ k + (j + 1) = (k + j) + 1
    OBVIOUS
  <2>3. R((k + j) + 1) = onward(operand, op, R(k + j))
    BY <2>2, RoundsAre
  <2> QED
    BY <2>1, <2>2, <2>3
<1>3. \A j \in Nat : j \in T
  <2> HIDE DEF T
  <2> QED
    BY <1>1, <1>2, SetInduction
<1>4. CountOf(op, t) \in Nat /\ CountOf(op, t) - k \in Nat
      /\ k + (CountOf(op, t) - k) = CountOf(op, t)
  <2>1. CountOf(op, t) \in Nat
    BY CountType
  <2> QED
    BY <2>1
<1>5. R(CountOf(op, t)) = R(k)
  BY <1>3, <1>4
<1>6. chain(operand, op)[t] = R(CountOf(op, t))
  <2>1. chain(operand, op) = [u \in Seq(Token) |-> rounds_of(operand, op, u, CountOf(op, u))]
    BY Zenon DEF chain, CountOf
  <2> QED
    BY <2>1
<1> QED
  BY <1>5, <1>6

(***************************************************************************)
(* What a text promises to a chain of operands.  operands[n] is the parser *)
(* of an operand with parentheses n deep, Good are the continuations it    *)
(* stops at.                                                               *)
(***************************************************************************)
Stops(Good, op) ==
    Good \subseteq Seq(Token) /\ \A S \in Seq(Token) : Starts(S, op) => S \in Good

OperandReads(operands, Good, h, t, ok, V) ==
    IF ok
    THEN \E tree : /\ Means(tree, V, Len(t))
                   /\ \A n \in h .. MaxTokens, S \in Good :
                         operands[n][t \o S] = Parsed(tree, S)
    ELSE \A n \in h .. MaxTokens, S \in Good : operands[n][t \o S] = NoParse

\* A chain that stands before an operator it has no operand for.
Stuck(operand, op, r) ==
    onward(operand, op, r) = r /\ (r.ok => Starts(r.rest, op))

Yields(operands, op, Good, h, t, k, ok, V) ==
    IF ok
    THEN \E tree : /\ Means(tree, V, Len(t))
                   /\ \A n \in h .. MaxTokens, S \in Good :
                         rounds_of(operands[n], op, t \o S, k) = Parsed(tree, S)
    ELSE \A n \in h .. MaxTokens, S \in Good :
            Stuck(operands[n], op, rounds_of(operands[n], op, t \o S, k))

\* One operand more: the chain has read text and goes on with part.
LEMMA YieldsMore ==
    ASSUME NEW operands, NEW op \in {"&&", "||"}, NEW Good, Stops(Good, op),
           NEW h, NEW text \in Seq(Token), NEW part \in Seq(Token), NEW k \in Nat,
           NEW ok \in BOOLEAN, NEW V, Yields(operands, op, Good, h, text, k, ok, V),
           NEW fine \in BOOLEAN, NEW W, OperandReads(operands, Good, h, part, fine, W),
           NEW both \in BOOLEAN, both <=> ok /\ fine,
           NEW all, all = text \o (<<op>> \o part), NEW next, next = k + 1,
           NEW Z, Z = Both(op, V, W)
    PROVE  Yields(operands, op, Good, h, all, next, both, Z)
<1> DEFINE t == text \o (<<op>> \o part)
           rest(S) == <<op>> \o (part \o S)
<1>1. op \in Token /\ <<op>> \in Seq(Token)
  BY Tokens
<1>0. Good \subseteq Seq(Token) /\ \A S \in Seq(Token) : Starts(S, op) => S \in Good
  BY DEF Stops
<1>2. ASSUME NEW S \in Good
      PROVE  /\ t \o S = text \o rest(S)
             /\ rest(S) \in Good /\ rest(S) # << >> /\ rest(S)[1] = op /\ Tail(rest(S)) = part \o S
  <2>1. S \in Seq(Token) /\ part \o S \in Seq(Token)
    BY <1>0, <1>2
  <2>2. <<op>> \o part \in Seq(Token)
    BY <1>1, Cons
  <2>3. t \o S = text \o ((<<op>> \o part) \o S)
    BY <2>1, <2>2, ConcatAssociative
  <2>4. (<<op>> \o part) \o S = <<op>> \o (part \o S)
    BY <1>1, <2>1, ConcatAssociative
  <2>5. rest(S) \in Seq(Token) /\ rest(S) # << >> /\ rest(S)[1] = op /\ Tail(rest(S)) = part \o S
    BY <1>1, <2>1, Cons
  <2>6. rest(S) \in Good
    BY <1>0, <2>5 DEF Starts
  <2> QED
    BY <2>3, <2>4, <2>5, <2>6
<1>3. ASSUME NEW n \in h .. MaxTokens, NEW S \in Good
      PROVE  rounds_of(operands[n], op, t \o S, k + 1)
               = onward(operands[n], op, rounds_of(operands[n], op, text \o rest(S), k))
  <2>1. t \o S = text \o rest(S)
    BY <1>2
  <2> HIDE DEF t, rest
  <2>2. rounds_of(operands[n], op, t \o S, k + 1)
          = onward(operands[n], op, rounds_of(operands[n], op, t \o S, k))
    BY RoundsAre
  <2> QED
    BY <2>1, <2>2
<1>4. ASSUME NEW tree, NEW S \in Good, NEW n, operands[n][part \o S] = NoParse
      PROVE  onward(operands[n], op, Parsed(tree, rest(S))) = Parsed(tree, rest(S))
  <2> DEFINE acc == Parsed(tree, rest(S))
  <2>1. acc.ok /\ acc.rest = rest(S) /\ rest(S) # << >> /\ rest(S)[1] = op /\ Tail(rest(S)) = part \o S
    BY <1>2 DEF Parsed
  <2>2. ~NoParse.ok
    BY DEF NoParse
  <2> HIDE DEF acc, rest
  <2>3. onward(operands[n], op, acc) = Joins(op, acc, NoParse)
    BY <1>4, <2>1 DEF onward, Starts
  <2>4. onward(operands[n], op, acc) = acc
    BY <2>2, <2>3 DEF Joins
  <2> QED
    BY <2>4 DEF acc
<1>5. ASSUME NEW tree, NEW more, NEW S \in Good, NEW n, operands[n][part \o S] = Parsed(more, S)
      PROVE  onward(operands[n], op, Parsed(tree, rest(S))) = Parsed(Binary(op, tree, more), S)
  <2> DEFINE acc == Parsed(tree, rest(S))
             e == Parsed(more, S)
  <2>1. acc.ok /\ acc.rest = rest(S) /\ rest(S) # << >> /\ rest(S)[1] = op /\ Tail(rest(S)) = part \o S
        /\ acc.tree = tree
    BY <1>2 DEF Parsed
  <2>2. e.ok /\ e.tree = more /\ e.rest = S
    BY DEF Parsed
  <2> HIDE DEF acc, rest, e
  <2>3. onward(operands[n], op, acc) = Joins(op, acc, e)
    BY <1>5, <2>1 DEF onward, Starts, e
  <2>4. onward(operands[n], op, acc) = Parsed(Binary(op, tree, more), S)
    BY <2>1, <2>2, <2>3 DEF Joins
  <2> QED
    BY <2>4 DEF acc
<1> SUFFICES Yields(operands, op, Good, h, t, k + 1, both, Both(op, V, W))
  OBVIOUS
<1>6. CASE ~ok
  <2>1. ASSUME NEW n \in h .. MaxTokens, NEW S \in Good
        PROVE  Stuck(operands[n], op, rounds_of(operands[n], op, t \o S, k + 1))
    <3>1. Stuck(operands[n], op, rounds_of(operands[n], op, text \o rest(S), k))
      BY <1>2, <1>6 DEF Yields
    <3> QED
      BY <1>3, <3>1 DEF Stuck
  <2> QED
    BY <1>6, <2>1 DEF Yields
<1>7. CASE ok /\ ~fine
  <2>1. PICK tree : \A n \in h .. MaxTokens, S \in Good :
                       rounds_of(operands[n], op, text \o S, k) = Parsed(tree, S)
    BY <1>7 DEF Yields
  <2>2. ASSUME NEW n \in h .. MaxTokens, NEW S \in Good
        PROVE  Stuck(operands[n], op, rounds_of(operands[n], op, t \o S, k + 1))
    <3>1. rounds_of(operands[n], op, text \o rest(S), k) = Parsed(tree, rest(S))
      BY <1>2, <2>1
    <3>2. operands[n][part \o S] = NoParse
      BY <1>7 DEF OperandReads
    <3>3. onward(operands[n], op, Parsed(tree, rest(S))) = Parsed(tree, rest(S))
      BY <1>4, <3>2
    <3>4. Starts(Parsed(tree, rest(S)).rest, op)
      BY <1>2 DEF Starts, Parsed
    <3> HIDE DEF rest
    <3> QED
      BY <1>3, <3>1, <3>3, <3>4 DEF Stuck
  <2> QED
    BY <1>7, <2>2 DEF Yields
<1>8. CASE ok /\ fine
  <2>1. PICK tree : /\ Means(tree, V, Len(text))
                    /\ \A n \in h .. MaxTokens, S \in Good :
                          rounds_of(operands[n], op, text \o S, k) = Parsed(tree, S)
    BY <1>8 DEF Yields
  <2>2. PICK more : /\ Means(more, W, Len(part))
                    /\ \A n \in h .. MaxTokens, S \in Good :
                          operands[n][part \o S] = Parsed(more, S)
    BY <1>8 DEF OperandReads
  <2>3. ASSUME NEW n \in h .. MaxTokens, NEW S \in Good
        PROVE  rounds_of(operands[n], op, t \o S, k + 1) = Parsed(Binary(op, tree, more), S)
    <3>1. rounds_of(operands[n], op, text \o rest(S), k) = Parsed(tree, rest(S))
      BY <1>2, <2>1
    <3>2. onward(operands[n], op, Parsed(tree, rest(S))) = Parsed(Binary(op, tree, more), S)
      BY <1>5, <2>2
    <3> HIDE DEF rest
    <3> QED
      BY <1>3, <3>1, <3>2
  <2>4. Means(Binary(op, tree, more), Both(op, V, W), Len(t))
    <3>1. Len(t) = Len(text) + (Len(part) + 1) /\ Len(text) \in Nat /\ Len(part) \in Nat
      BY <1>1, Cons
    <3> HIDE DEF t
    <3>2. ASSUME NEW n \in Len(t) .. MaxTokens
          PROVE  MeansAt(n, Binary(op, tree, more), Both(op, V, W))
      <4>1. n \in 1 .. MaxTokens /\ n - 1 \in Len(text) .. MaxTokens
            /\ n - 1 \in Len(part) .. MaxTokens
        BY <3>1, YamlAssumption
      <4>2. MeansAt(n - 1, tree, V) /\ MeansAt(n - 1, more, W)
        BY <2>1, <2>2, <4>1 DEF Means
      <4> QED
        BY <4>1, <4>2, MeansBinary
    <3> QED
      BY <3>2 DEF Means
  <2> QED
    BY <1>8, <2>3, <2>4 DEF Yields
<1> QED
  BY <1>6, <1>7, <1>8

\* The requests of a list: all or some of its members.
Among(op, Vs, i) ==
    {env \in Requests : IF op = "&&" THEN \A j \in 1 .. i : env \in Vs[j]
                                     ELSE \E j \in 1 .. i : env \in Vs[j]}

\* A list with one more member.
LEMMA AmongMore ==
    ASSUME NEW op \in {"&&", "||"}, NEW Vs, NEW i \in Nat
    PROVE  Among(op, Vs, i + 1) = Both(op, Among(op, Vs, i), Requests \intersect Vs[i + 1])
<1>1. 1 .. (i + 1) = (1 .. i) \union {i + 1}
  OBVIOUS
<1> QED
  BY <1>1 DEF Among, Both

\* A list of one member.
LEMMA AmongOne ==
    ASSUME NEW op \in {"&&", "||"}, NEW Vs, Vs[1] \subseteq Requests
    PROVE  Among(op, Vs, 1) = Vs[1]
<1>1. \A j : j \in 1 .. 1 <=> j = 1
  OBVIOUS
<1> QED
  BY <1>1 DEF Among

\* What follows a text read by a chain that has come to its end.
ChainGives(operands, op, Good, h, t, ok, V) ==
    IF ok
    THEN \E tree : /\ Means(tree, V, Len(t))
                   /\ \A n \in h .. MaxTokens, S \in Good :
                         ~Starts(S, op) => chain(operands[n], op)[t \o S] = Parsed(tree, S)
    ELSE \A n \in h .. MaxTokens, S \in Good :
            LET r == chain(operands[n], op)[t \o S] IN r.ok => Starts(r.rest, op)

\* A chain that failed stays as it is.
LEMMA NoParseStuck ==
    ASSUME NEW operand, NEW op PROVE Stuck(operand, op, NoParse)
BY DEF Stuck, onward, NoParse

\* A chain of one operand.
LEMMA YieldsOne ==
    ASSUME NEW operands, NEW op \in {"&&", "||"}, NEW Good, NEW h, NEW part,
           NEW fine \in BOOLEAN, NEW W, OperandReads(operands, Good, h, part, fine, W)
    PROVE  Yields(operands, op, Good, h, part, 0, fine, W)
<1>1. \A n, S : rounds_of(operands[n], op, part \o S, 0) = operands[n][part \o S]
  BY RoundsAre
<1>2. CASE fine
  <2>1. PICK tree : /\ Means(tree, W, Len(part))
                    /\ \A n \in h .. MaxTokens, S \in Good : operands[n][part \o S] = Parsed(tree, S)
    BY <1>2 DEF OperandReads
  <2>2. \A n \in h .. MaxTokens, S \in Good :
           rounds_of(operands[n], op, part \o S, 0) = Parsed(tree, S)
    BY <1>1, <2>1
  <2> QED
    BY <1>2, <2>1, <2>2 DEF Yields
<1>3. CASE ~fine
  <2>1. \A n \in h .. MaxTokens, S \in Good :
           rounds_of(operands[n], op, part \o S, 0) = NoParse
    BY <1>1, <1>3 DEF OperandReads
  <2> QED
    BY <1>3, <2>1, NoParseStuck DEF Yields
<1> QED
  BY <1>2, <1>3

\* A chain that has yielded all of a text has come to its end.
LEMMA YieldsEnds ==
    ASSUME NEW operands, NEW op \in {"&&", "||"}, NEW Good, Good \subseteq Seq(Token),
           NEW h, NEW t \in Seq(Token), NEW k \in Nat, k <= CountOf(op, t),
           NEW ok \in BOOLEAN, NEW V, Yields(operands, op, Good, h, t, k, ok, V)
    PROVE  ChainGives(operands, op, Good, h, t, ok, V)
<1>1. op \in Token
  BY Tokens
<1>2. ASSUME NEW n \in h .. MaxTokens, NEW S \in Good,
             onward(operands[n], op, rounds_of(operands[n], op, t \o S, k))
               = rounds_of(operands[n], op, t \o S, k)
      PROVE  chain(operands[n], op)[t \o S] = rounds_of(operands[n], op, t \o S, k)
  <2>1. t \o S \in Seq(Token) /\ k <= CountOf(op, t \o S)
    <3>1. CountOf(op, t \o S) >= CountOf(op, t) /\ CountOf(op, t) \in Nat
      BY <1>1, CountGrows
    <3>2. t \o S \in Seq(Token)
      OBVIOUS
    <3>3. CountOf(op, t \o S) \in Nat
      BY <3>2, CountType
    <3> QED
      BY <3>1, <3>2, <3>3
  <2> QED
    BY <1>1, <1>2, <2>1, ChainEnds
<1>3. CASE ok
  <2>1. PICK tree : /\ Means(tree, V, Len(t))
                    /\ \A n \in h .. MaxTokens, S \in Good :
                          rounds_of(operands[n], op, t \o S, k) = Parsed(tree, S)
    BY <1>3 DEF Yields
  <2>2. ASSUME NEW n \in h .. MaxTokens, NEW S \in Good, ~Starts(S, op)
        PROVE  chain(operands[n], op)[t \o S] = Parsed(tree, S)
    <3>1. Parsed(tree, S).rest = S
      BY DEF Parsed
    <3>2. onward(operands[n], op, Parsed(tree, S)) = Parsed(tree, S)
      BY <2>2, <3>1 DEF onward
    <3> QED
      BY <1>2, <2>1, <3>2
  <2> QED
    BY <1>3, <2>1, <2>2 DEF ChainGives
<1>4. CASE ~ok
  <2>1. ASSUME NEW n \in h .. MaxTokens, NEW S \in Good
        PROVE  LET r == chain(operands[n], op)[t \o S] IN r.ok => Starts(r.rest, op)
    <3>1. Stuck(operands[n], op, rounds_of(operands[n], op, t \o S, k))
      BY <1>4 DEF Yields
    <3>2. chain(operands[n], op)[t \o S] = rounds_of(operands[n], op, t \o S, k)
      BY <1>2, <3>1 DEF Stuck
    <3> QED
      BY <3>1, <3>2 DEF Stuck
  <2> QED
    BY <1>4, <2>1 DEF ChainGives
<1> QED
  BY <1>3, <1>4

\* The text of a list is read as a chain of its members.
LEMMA ChainReads ==
    ASSUME NEW operands, NEW op \in {"&&", "||"}, NEW Good, Stops(Good, op),
           NEW h, NEW parts \in Seq(Seq(Token)), parts # << >>,
           NEW oks, \A i \in 1 .. Len(parts) : oks[i] \in BOOLEAN,
           NEW Vs, \A i \in 1 .. Len(parts) : Vs[i] \subseteq Requests,
           \A i \in 1 .. Len(parts) : OperandReads(operands, Good, h, parts[i], oks[i], Vs[i])
    PROVE  /\ Joined(parts, op) \in Seq(Token)
           /\ ChainGives(operands, op, Good, h, Joined(parts, op),
                         \A i \in 1 .. Len(parts) : oks[i], Among(op, Vs, Len(parts)))
<1> DEFINE m == Len(parts)
           AllOk(i) == \A j \in 1 .. i : oks[j]
<1>1. m \in Nat /\ m >= 1 /\ m = Len(parts) /\ op \in Token /\ \A i \in 1 .. m : parts[i] \in Seq(Token)
  BY Tokens
<1> HIDE DEF AllOk
<1>2. PICK text : /\ Joined(parts, op) = text[m]
                  /\ text[0] = << >>
                  /\ m >= 1 => text[1] = parts[1]
                  /\ \A i \in 2 .. m : text[i] = text[i - 1] \o (<<op>> \o parts[i])
  BY <1>1, JoinedIs
<1> DEFINE Q(i) == /\ text[i] \in Seq(Token)
                   /\ i - 1 <= CountOf(op, text[i])
                   /\ Yields(operands, op, Good, h, text[i], i - 1, AllOk(i), Among(op, Vs, i))
           T == {i \in Nat : i + 1 <= m => Q(i + 1)}
<1> HIDE DEF m, Q
<1>3. 0 \in T
  <2>1. text[1] = parts[1] /\ text[1] \in Seq(Token)
    BY <1>1, <1>2
  <2>2. 1 - 1 = 0 /\ 0 + 1 = 1 /\ 0 <= CountOf(op, text[1])
    BY <2>1, CountType
  <2>3. AllOk(1) <=> oks[1]
    BY DEF AllOk
  <2>4. Among(op, Vs, 1) = Vs[1] /\ oks[1] \in BOOLEAN /\ OperandReads(operands, Good, h, parts[1], oks[1], Vs[1])
    <3>1. 1 \in 1 .. Len(parts)
      BY <1>1 DEF m
    <3> QED
      BY <3>1, AmongOne
  <2>5. Yields(operands, op, Good, h, text[1], 0, oks[1], Among(op, Vs, 1))
    BY <2>1, <2>4, YieldsOne
  <2>6. Yields(operands, op, Good, h, text[1], 0, AllOk(1), Among(op, Vs, 1))
    BY <2>3, <2>4, <2>5 DEF Yields
  <2> QED
    BY <2>1, <2>2, <2>6 DEF Q
<1>4. ASSUME NEW n \in Nat, n \in T PROVE n + 1 \in T
  <2> SUFFICES ASSUME (n + 1) + 1 <= m PROVE Q((n + 1) + 1)
    OBVIOUS
  <2>1. PICK i \in Nat : i = n + 1
    OBVIOUS
  <2>2. /\ i + 1 \in 2 .. m /\ (i + 1) - 1 = i /\ i \in 1 .. m /\ i + 1 \in 1 .. m
        /\ i - 1 \in Nat /\ (i - 1) + 1 = i
    BY <1>1, <2>1
  <2>3. Q(i)
    <3>1. n + 1 <= m
      BY <1>1
    <3> QED
      BY <1>4, <2>1, <3>1
  <2> HIDE DEF T
  <2>4. /\ text[i] \in Seq(Token)
        /\ i - 1 <= CountOf(op, text[i])
        /\ Yields(operands, op, Good, h, text[i], i - 1, AllOk(i), Among(op, Vs, i))
    BY <2>3 DEF Q
  <2>5. text[i + 1] = text[i] \o (<<op>> \o parts[i + 1]) /\ parts[i + 1] \in Seq(Token)
    <3>1. text[i + 1] = text[(i + 1) - 1] \o (<<op>> \o parts[i + 1])
      BY <1>2, <2>2
    <3> QED
      BY <1>1, <2>2, <3>1
  <2>6. text[i + 1] \in Seq(Token)
    BY <1>1, <2>4, <2>5, Cons
  <2>7. i <= CountOf(op, text[i + 1])
    <3>1. CountOf(op, text[i + 1]) >= CountOf(op, text[i]) + 1
      BY <1>1, <2>4, <2>5, CountGrows
    <3>2. CountOf(op, text[i]) \in Nat /\ CountOf(op, text[i + 1]) \in Nat
      BY <2>4, <2>6, CountType
    <3> QED
      BY <2>4, <3>1, <3>2
  <2>8. /\ Vs[i + 1] \subseteq Requests /\ oks[i + 1] \in BOOLEAN
        /\ OperandReads(operands, Good, h, parts[i + 1], oks[i + 1], Vs[i + 1])
    BY <2>2 DEF m
  <2>9. Among(op, Vs, i + 1) = Both(op, Among(op, Vs, i), Vs[i + 1])
    <3>1. Requests \intersect Vs[i + 1] = Vs[i + 1]
      BY <2>8
    <3>2. Among(op, Vs, i + 1) = Both(op, Among(op, Vs, i), Requests \intersect Vs[i + 1])
      BY AmongMore
    <3> QED
      BY <3>1, <3>2
  <2>10. /\ AllOk(i) \in BOOLEAN /\ AllOk(i + 1) \in BOOLEAN
         /\ AllOk(i + 1) <=> AllOk(i) /\ oks[i + 1]
    <3>1. 1 .. (i + 1) = (1 .. i) \union {i + 1}
      BY <2>2
    <3> QED
      BY <2>8, <3>1 DEF AllOk
  <2>11. Yields(operands, op, Good, h, text[i + 1], i, AllOk(i + 1), Among(op, Vs, i + 1))
    <3>1. PICK ok \in BOOLEAN : ok = AllOk(i)
      BY <2>10
    <3>2. PICK both \in BOOLEAN : both = AllOk(i + 1)
      BY <2>10
    <3>3. PICK fine \in BOOLEAN : fine = oks[i + 1]
      BY <2>8
    <3>4. PICK k \in Nat : k = i - 1
      BY <2>2
    <3>5. both <=> ok /\ fine
      BY <2>10, <3>1, <3>2, <3>3
    <3>6. Yields(operands, op, Good, h, text[i], k, ok, Among(op, Vs, i))
      BY <2>4, <3>1, <3>4
    <3>7. OperandReads(operands, Good, h, parts[i + 1], fine, Vs[i + 1])
      BY <2>8, <3>3
    <3>8. k \in Nat /\ i = k + 1
      BY <3>4
    <3>9. Yields(operands, op, Good, h, text[i + 1], i, both, Among(op, Vs, i + 1))
      <4>1. PICK t, p, u, V, W, Z : /\ t = text[i] /\ p = parts[i + 1] /\ u = text[i + 1]
                                    /\ V = Among(op, Vs, i) /\ W = Vs[i + 1]
                                    /\ Z = Among(op, Vs, i + 1)
        OBVIOUS
      <4>2. t \in Seq(Token) /\ p \in Seq(Token) /\ u = t \o (<<op>> \o p) /\ Z = Both(op, V, W)
        BY <2>4, <2>5, <2>9, <4>1
      <4>3. Yields(operands, op, Good, h, t, k, ok, V) /\ OperandReads(operands, Good, h, p, fine, W)
        BY <3>6, <3>7, <4>1
      <4>4. Yields(operands, op, Good, h, u, i, both, Z)
        BY <3>5, <3>8, <4>2, <4>3, YieldsMore, ZenonT(60)
      <4> QED
        BY <4>1, <4>4
    <3> QED
      BY <3>2, <3>9
  <2>13. Q(i + 1)
    BY <2>2, <2>6, <2>7, <2>11 DEF Q
  <2> QED
    BY <2>1, <2>13
<1>5. Q(m)
  <2>1. m - 1 \in Nat /\ (m - 1) + 1 = m
    BY <1>1
  <2> HIDE DEF T
  <2>2. \A n \in Nat : n \in T
    BY <1>3, <1>4, SetInduction
  <2>3. m - 1 \in T
    BY <2>1, <2>2
  <2> QED
    BY <2>1, <2>3 DEF T
<1>6. AllOk(m) \in BOOLEAN /\ m - 1 \in Nat
  BY <1>1 DEF AllOk
<1>7. ChainGives(operands, op, Good, h, text[m], AllOk(m), Among(op, Vs, m))
  BY <1>5, <1>6, YieldsEnds DEF Q, Stops
<1> QED
  BY <1>2, <1>5, <1>7 DEF m, Q, AllOk

(***************************************************************************)
(* What a text promises to the parser.  Reads: as an operand, whatever     *)
(* follows it; ReadsExpr: as all there is up to a closing parenthesis or   *)
(* the end.                                                                *)
(***************************************************************************)
NotParsers == [n \in 0 .. MaxTokens |-> parse_not(parse_expr[n])]
AndParsers == [n \in 0 .. MaxTokens |-> parse_and(parse_expr[n])]

NotAnd == {S \in Seq(Token) : ~Starts(S, "&&")}
Closing == {S \in Seq(Token) : S # << >> => S[1] = ")"}

Reads(t, ok, V) ==
    /\ t \in Seq(Token)
    /\ V \subseteq Requests
    /\ OperandReads(NotParsers, Seq(Token), Len(t), t, ok, V)

ReadsExpr(t, ok, V) ==
    /\ t \in Seq(Token)
    /\ V \subseteq Requests
    /\ IF ok
       THEN \E tree : /\ Means(tree, V, Len(t))
                      /\ \A n \in Len(t) .. MaxTokens, S \in Closing :
                            parse_or(parse_expr[n])[t \o S] = Parsed(tree, S)
       ELSE \A n \in Len(t) .. MaxTokens, S \in Closing :
               LET r == parse_or(parse_expr[n])[t \o S]
               IN  r.ok => Starts(r.rest, "&&") \/ Starts(r.rest, "||")

\* What may follow an operand of "&&" and of "||".
LEMMA Continuations ==
    /\ Stops(Seq(Token), "&&")
    /\ Stops(NotAnd, "||")
    /\ Closing \subseteq NotAnd /\ NotAnd \subseteq Seq(Token)
    /\ \A S \in Closing : ~Starts(S, "&&") /\ ~Starts(S, "||")
BY DEF Stops, NotAnd, Closing, Starts

\* A chain whose first operand is not followed by its operator.
LEMMA ChainOfOne ==
    ASSUME NEW operand, NEW op \in {"&&", "||"}, NEW t \in Seq(Token),
           operand[t].ok => ~Starts(operand[t].rest, op)
    PROVE  chain(operand, op)[t] = operand[t]
<1>1. op \in Token
  BY Tokens
<1>2. rounds_of(operand, op, t, 0) = operand[t]
  BY RoundsAre
<1>3. onward(operand, op, operand[t]) = operand[t]
  BY DEF onward
<1>4. 0 <= CountOf(op, t)
  BY CountType
<1> QED
  BY <1>1, <1>2, <1>3, <1>4, ChainEnds

\* The operand of "&&" as an operand of "||".
LEMMA AndOperand ==
    ASSUME NEW h \in Nat, NEW t \in Seq(Token), NEW ok \in BOOLEAN, NEW V,
           OperandReads(NotParsers, Seq(Token), h, t, ok, V)
    PROVE  OperandReads(AndParsers, NotAnd, h, t, ok, V)
<1>1. ASSUME NEW n \in h .. MaxTokens, NEW S \in NotAnd,
             NotParsers[n][t \o S].ok => NotParsers[n][t \o S].rest = S
      PROVE  AndParsers[n][t \o S] = NotParsers[n][t \o S]
  <2>1. n \in 0 .. MaxTokens
    OBVIOUS
  <2>2. AndParsers[n] = chain(NotParsers[n], "&&")
    BY <2>1 DEF AndParsers, NotParsers, parse_and
  <2>3. S \in Seq(Token) /\ t \o S \in Seq(Token) /\ ~Starts(S, "&&")
    BY DEF NotAnd
  <2> QED
    BY <1>1, <2>2, <2>3, ChainOfOne
<1>2. NotAnd \subseteq Seq(Token)
  BY Continuations
<1>3. CASE ok
  <2>1. PICK tree : /\ Means(tree, V, Len(t))
                    /\ \A n \in h .. MaxTokens, S \in Seq(Token) :
                          NotParsers[n][t \o S] = Parsed(tree, S)
    BY <1>3 DEF OperandReads
  <2>2. ASSUME NEW n \in h .. MaxTokens, NEW S \in NotAnd
        PROVE  AndParsers[n][t \o S] = Parsed(tree, S)
    <3>1. NotParsers[n][t \o S] = Parsed(tree, S)
      BY <1>2, <2>1
    <3>2. Parsed(tree, S).rest = S
      BY DEF Parsed
    <3> QED
      BY <1>1, <3>1, <3>2
  <2> QED
    BY <1>3, <2>1, <2>2 DEF OperandReads
<1>4. CASE ~ok
  <2>1. ASSUME NEW n \in h .. MaxTokens, NEW S \in NotAnd
        PROVE  AndParsers[n][t \o S] = NoParse
    <3>1. NotParsers[n][t \o S] = NoParse
      BY <1>2, <1>4 DEF OperandReads
    <3>2. ~NoParse.ok
      BY DEF NoParse
    <3> QED
      BY <1>1, <3>1, <3>2
  <2> QED
    BY <1>4, <2>1 DEF OperandReads
<1> QED
  BY <1>3, <1>4

\* A list of "&&" is read as an expression.
LEMMA ConjunctionReads ==
    ASSUME NEW t \in Seq(Token), NEW ok \in BOOLEAN, NEW V, V \subseteq Requests,
           ChainGives(NotParsers, "&&", Seq(Token), Len(t), t, ok, V)
    PROVE  ReadsExpr(t, ok, V)
<1>1. Len(t) \in Nat
  OBVIOUS
<1>2. ASSUME NEW n \in Len(t) .. MaxTokens, NEW S \in Closing,
             LET r == chain(NotParsers[n], "&&")[t \o S] IN r.ok => ~Starts(r.rest, "||")
      PROVE  parse_or(parse_expr[n])[t \o S] = chain(NotParsers[n], "&&")[t \o S]
  <2>1. n \in 0 .. MaxTokens
    BY <1>1
  <2>2. parse_or(parse_expr[n]) = chain(chain(NotParsers[n], "&&"), "||")
    BY <2>1 DEF NotParsers, parse_and, parse_or
  <2>3. t \o S \in Seq(Token)
    BY Continuations
  <2> QED
    BY <1>2, <2>2, <2>3, ChainOfOne
<1>3. CASE ok
  <2>1. PICK tree : /\ Means(tree, V, Len(t))
                    /\ \A n \in Len(t) .. MaxTokens, S \in Seq(Token) :
                          ~Starts(S, "&&") => chain(NotParsers[n], "&&")[t \o S] = Parsed(tree, S)
    BY <1>3 DEF ChainGives
  <2>2. ASSUME NEW n \in Len(t) .. MaxTokens, NEW S \in Closing
        PROVE  parse_or(parse_expr[n])[t \o S] = Parsed(tree, S)
    <3>1. S \in Seq(Token) /\ ~Starts(S, "&&") /\ ~Starts(S, "||")
      BY Continuations
    <3>2. chain(NotParsers[n], "&&")[t \o S] = Parsed(tree, S) /\ Parsed(tree, S).rest = S
      BY <2>1, <3>1 DEF Parsed
    <3> QED
      BY <1>2, <3>1, <3>2
  <2> QED
    BY <1>3, <2>1, <2>2 DEF ReadsExpr
<1>4. CASE ~ok
  <2>1. ASSUME NEW n \in Len(t) .. MaxTokens, NEW S \in Closing
        PROVE  LET r == parse_or(parse_expr[n])[t \o S]
               IN  r.ok => Starts(r.rest, "&&") \/ Starts(r.rest, "||")
    <3> DEFINE r == chain(NotParsers[n], "&&")[t \o S]
    <3>1. S \in Seq(Token)
      BY Continuations
    <3>2. r.ok => Starts(r.rest, "&&")
      BY <1>4, <3>1 DEF ChainGives
    <3>3. r.ok => ~Starts(r.rest, "||")
      BY <3>2 DEF Starts
    <3>4. parse_or(parse_expr[n])[t \o S] = r
      BY <1>2, <3>3
    <3> HIDE DEF r
    <3> QED
      BY <3>2, <3>4
  <2> QED
    BY <1>4, <2>1 DEF ReadsExpr
<1> QED
  BY <1>3, <1>4

\* A list of "||" is read as an expression.
LEMMA DisjunctionReads ==
    ASSUME NEW t \in Seq(Token), NEW ok \in BOOLEAN, NEW V, V \subseteq Requests,
           ChainGives(AndParsers, "||", NotAnd, Len(t), t, ok, V)
    PROVE  ReadsExpr(t, ok, V)
<1>1. ASSUME NEW n \in Len(t) .. MaxTokens
      PROVE  parse_or(parse_expr[n]) = chain(AndParsers[n], "||")
  <2>1. n \in 0 .. MaxTokens
    OBVIOUS
  <2> QED
    BY <2>1 DEF AndParsers, parse_or
<1>2. CASE ok
  BY <1>1, <1>2, Continuations DEF ChainGives, ReadsExpr
<1>3. CASE ~ok
  BY <1>1, <1>3, Continuations DEF ChainGives, ReadsExpr
<1> QED
  BY <1>2, <1>3

\* An operand alone is read as an expression.
LEMMA OperandReadsAlone ==
    ASSUME NEW t, NEW ok \in BOOLEAN, NEW V, Reads(t, ok, V)
    PROVE  ReadsExpr(t, ok, V)
<1>1. /\ t \in Seq(Token) /\ V \subseteq Requests /\ Len(t) \in Nat
      /\ OperandReads(NotParsers, Seq(Token), Len(t), t, ok, V)
  BY DEF Reads
<1>2. 0 <= CountOf("&&", t)
  BY <1>1, CountType
<1>3. Yields(NotParsers, "&&", Seq(Token), Len(t), t, 0, ok, V)
  BY <1>1, YieldsOne
<1>4. ChainGives(NotParsers, "&&", Seq(Token), Len(t), t, ok, V)
  BY <1>1, <1>2, <1>3, YieldsEnds
<1> QED
  BY <1>1, <1>4, ConjunctionReads

(***************************************************************************)
(* The texts the converter writes.                                         *)
(***************************************************************************)
\* What primary makes of a parenthesis, whatever follows it.
LEMMA Enclosed ==
    ASSUME NEW t \in Seq(Token)
    PROVE  /\ Paren(t) \in Seq(Token) /\ Len(Paren(t)) = Len(t) + 2
           /\ \A S \in Seq(Token) :
                /\ Paren(t) \o S \in Seq(Token) /\ Paren(t) \o S # << >> /\ (Paren(t) \o S)[1] = "("
                /\ <<")">> \o S \in Closing
                /\ \A n \in 1 .. MaxTokens :
                      primary(parse_expr[n], Paren(t) \o S)
                        = Closed(parse_or(parse_expr[n - 1])[t \o (<<")">> \o S)])
<1>1. {"(", ")"} \subseteq Token /\ "(" \notin Atoms
  BY Tokens
<1>2. <<")">> \in Seq(Token) /\ Len(<<")">>) = 1 /\ t \o <<")">> \in Seq(Token)
      /\ Len(t \o <<")">>) = Len(t) + 1 /\ Len(t) \in Nat
  BY <1>1
<1>3. Paren(t) \in Seq(Token) /\ Len(Paren(t)) = Len(t) + 2
  BY <1>1, <1>2, Cons DEF Paren
<1>4. ASSUME NEW S \in Seq(Token)
      PROVE  /\ Paren(t) \o S \in Seq(Token) /\ Paren(t) \o S # << >> /\ (Paren(t) \o S)[1] = "("
             /\ <<")">> \o S \in Closing
             /\ \A n \in 1 .. MaxTokens :
                      primary(parse_expr[n], Paren(t) \o S)
                        = Closed(parse_or(parse_expr[n - 1])[t \o (<<")">> \o S)])
  <2> DEFINE C == <<")">> \o S
             B == t \o C
  <2>1. C \in Seq(Token) /\ C # << >> /\ C[1] = ")"
    BY <1>1, Cons
  <2>2. C \in Closing
    BY <2>1 DEF Closing
  <2>3. B \in Seq(Token)
    BY <2>1
  <2>4. Paren(t) \o S = <<"(">> \o B
    <3>1. <<"(">> \in Seq(Token)
      BY <1>1
    <3>2. Paren(t) \o S = <<"(">> \o ((t \o <<")">>) \o S)
      BY <1>2, <3>1, ConcatAssociative DEF Paren
    <3>3. (t \o <<")">>) \o S = t \o (<<")">> \o S)
      BY <1>2, ConcatAssociative
    <3> QED
      BY <3>2, <3>3
  <2> HIDE DEF B
  <2>5. /\ <<"(">> \o B \in Seq(Token) /\ <<"(">> \o B # << >> /\ (<<"(">> \o B)[1] = "("
        /\ Tail(<<"(">> \o B) = B
    BY <1>1, <2>3, Cons
  <2>6. ASSUME NEW n \in 1 .. MaxTokens
        PROVE  primary(parse_expr[n], Paren(t) \o S) = Closed(parse_or(parse_expr[n - 1])[B])
    <3>1. parse_expr[n] = parse_or(parse_expr[n - 1])
      BY ParserIs
    <3>2. PICK P : P = Paren(t) \o S
      OBVIOUS
    <3>3. P # << >> /\ P[1] = "(" /\ Tail(P) = B
      BY <2>4, <2>5, <3>2
    <3>4. primary(parse_expr[n], P) = Closed(parse_expr[n][B])
      BY <1>1, <3>3 DEF primary, Starts
    <3> QED
      BY <3>1, <3>2, <3>4
  <2> QED
    BY <2>2, <2>4, <2>5, <2>6 DEF B
<1> QED
  BY <1>3, <1>4

\* An expression in parentheses, as primary reads it.
LEMMA PrimaryReads ==
    ASSUME NEW t, NEW ok \in BOOLEAN, NEW V, ReadsExpr(t, ok, V)
    PROVE  IF ok
           THEN \E tree : /\ Means(tree, V, Len(t))
                          /\ \A n \in (Len(t) + 1) .. MaxTokens, S \in Seq(Token) :
                                primary(parse_expr[n], Paren(t) \o S) = Parsed(tree, S)
           ELSE \A n \in (Len(t) + 1) .. MaxTokens, S \in Seq(Token) :
                   primary(parse_expr[n], Paren(t) \o S) = NoParse
<1>1. t \in Seq(Token) /\ Len(t) \in Nat
  BY DEF ReadsExpr
<1>2. ASSUME NEW n \in (Len(t) + 1) .. MaxTokens, NEW S \in Seq(Token)
      PROVE  /\ n - 1 \in Len(t) .. MaxTokens
             /\ <<")">> \o S \in Closing
             /\ primary(parse_expr[n], Paren(t) \o S)
                  = Closed(parse_or(parse_expr[n - 1])[t \o (<<")">> \o S)])
  <2>1. n \in 1 .. MaxTokens /\ n - 1 \in Len(t) .. MaxTokens
    BY <1>1, YamlAssumption
  <2> QED
    BY <1>1, <2>1, Enclosed
<1>3. ASSUME NEW S \in Seq(Token)
      PROVE  <<")">> \o S # << >> /\ (<<")">> \o S)[1] = ")" /\ Tail(<<")">> \o S) = S
  BY Tokens, Cons
<1>4. CASE ok
  <2>1. PICK tree : /\ Means(tree, V, Len(t))
                    /\ \A n \in Len(t) .. MaxTokens, S \in Closing :
                          parse_or(parse_expr[n])[t \o S] = Parsed(tree, S)
    BY <1>4 DEF ReadsExpr
  <2>2. ASSUME NEW n \in (Len(t) + 1) .. MaxTokens, NEW S \in Seq(Token)
        PROVE  primary(parse_expr[n], Paren(t) \o S) = Parsed(tree, S)
    <3>1. PICK C : C = <<")">> \o S
      OBVIOUS
    <3>2. parse_or(parse_expr[n - 1])[t \o C] = Parsed(tree, C)
      BY <1>2, <2>1, <3>1
    <3>3. C # << >> /\ C[1] = ")" /\ Tail(C) = S
      BY <1>3, <3>1
    <3>4. Closed(Parsed(tree, C)) = Parsed(tree, S)
      BY <3>3 DEF Closed, Parsed, Starts
    <3> QED
      BY <1>2, <3>1, <3>2, <3>4
  <2> QED
    BY <1>4, <2>1, <2>2
<1>5. CASE ~ok
  <2>1. ASSUME NEW n \in (Len(t) + 1) .. MaxTokens, NEW S \in Seq(Token)
        PROVE  primary(parse_expr[n], Paren(t) \o S) = NoParse
    <3>1. PICK r : r = parse_or(parse_expr[n - 1])[t \o (<<")">> \o S)]
      OBVIOUS
    <3>2. r.ok => Starts(r.rest, "&&") \/ Starts(r.rest, "||")
      BY <1>2, <1>5, <3>1 DEF ReadsExpr
    <3>3. Closed(r) = NoParse
      BY <3>2 DEF Closed, Starts
    <3> QED
      BY <1>2, <3>1, <3>3
  <2> QED
    BY <1>5, <2>1
<1> QED
  BY <1>4, <1>5

\* parse_not at a text that does not start with "!", and at one that does.
LEMMA NotParserIs ==
    ASSUME NEW n \in 0 .. MaxTokens, NEW t \in Seq(Token), t # << >>
    PROVE  /\ t[1] # "!" => NotParsers[n][t] = primary(parse_expr[n], t)
           /\ t[1] = "!" => NotParsers[n][t] = Negated(primary(parse_expr[n], Tail(t)))
<1>1. NotParsers[n][t] = parse_not(parse_expr[n])[t]
  BY DEF NotParsers
<1> QED
  BY <1>1 DEF parse_not, Starts

\* An expression in parentheses is an operand.
LEMMA ParenReads ==
    ASSUME NEW t, NEW ok \in BOOLEAN, NEW V, ReadsExpr(t, ok, V)
    PROVE  Reads(Paren(t), ok, V)
<1> DEFINE P == Paren(t)
<1>1. /\ t \in Seq(Token) /\ V \subseteq Requests /\ Len(t) \in Nat
      /\ P \in Seq(Token) /\ Len(P) = Len(t) + 2
  BY Enclosed DEF ReadsExpr
<1>2. ASSUME NEW n \in Len(P) .. MaxTokens, NEW S \in Seq(Token)
      PROVE  /\ n \in (Len(t) + 1) .. MaxTokens
             /\ NotParsers[n][P \o S] = primary(parse_expr[n], P \o S)
  <2>1. n \in (Len(t) + 1) .. MaxTokens /\ n \in 0 .. MaxTokens
    BY <1>1
  <2>2. P \o S \in Seq(Token) /\ P \o S # << >> /\ (P \o S)[1] = "("
    BY <1>1, Enclosed
  <2>3. (P \o S)[1] # "!"
    BY <2>2
  <2> QED
    BY <2>1, <2>2, <2>3, NotParserIs
<1> HIDE DEF P
<1>3. CASE ok
  <2>1. PICK tree : /\ Means(tree, V, Len(t))
                    /\ \A n \in (Len(t) + 1) .. MaxTokens, S \in Seq(Token) :
                          primary(parse_expr[n], P \o S) = Parsed(tree, S)
    BY <1>3, PrimaryReads DEF P
  <2>2. Means(tree, V, Len(P))
    BY <1>1, <2>1 DEF Means
  <2> QED
    BY <1>1, <1>2, <1>3, <2>1, <2>2 DEF Reads, OperandReads, P
<1>4. CASE ~ok
  <2>1. \A n \in (Len(t) + 1) .. MaxTokens, S \in Seq(Token) :
           primary(parse_expr[n], P \o S) = NoParse
    BY <1>4, PrimaryReads DEF P
  <2> QED
    BY <1>1, <1>2, <1>4, <2>1 DEF Reads, OperandReads, P
<1> QED
  BY <1>3, <1>4

\* A negated expression in parentheses is an operand.
LEMMA NegationReads ==
    ASSUME NEW t, NEW ok \in BOOLEAN, NEW V, ReadsExpr(t, ok, V)
    PROVE  Reads(<<"!">> \o Paren(t), ok, Requests \ V)
<1> DEFINE P == Paren(t)
           N == <<"!">> \o P
<1>1. /\ t \in Seq(Token) /\ V \subseteq Requests /\ Len(t) \in Nat
      /\ P \in Seq(Token) /\ Len(P) = Len(t) + 2
  BY Enclosed DEF ReadsExpr
<1>2. "!" \in Token /\ <<"!">> \in Seq(Token)
  BY Tokens
<1>3. N \in Seq(Token) /\ Len(N) = Len(t) + 3
  BY <1>1, <1>2, Cons
<1>4. ASSUME NEW n \in Len(N) .. MaxTokens, NEW S \in Seq(Token)
      PROVE  /\ n \in (Len(t) + 1) .. MaxTokens
             /\ NotParsers[n][N \o S] = Negated(primary(parse_expr[n], P \o S))
  <2>1. n \in (Len(t) + 1) .. MaxTokens /\ n \in 0 .. MaxTokens
    BY <1>1, <1>3
  <2>2. N \o S = <<"!">> \o (P \o S) /\ P \o S \in Seq(Token)
    BY <1>1, <1>2, ConcatAssociative
  <2>3. PICK X : X = P \o S
    OBVIOUS
  <2>4. PICK Y : Y = <<"!">> \o X
    OBVIOUS
  <2>5. Y \in Seq(Token) /\ Y # << >> /\ Y[1] = "!" /\ Tail(Y) = X
    BY <1>2, <2>2, <2>3, <2>4, Cons
  <2>6. NotParsers[n][Y] = Negated(primary(parse_expr[n], X))
    BY <2>1, <2>5, NotParserIs
  <2> QED
    BY <2>1, <2>2, <2>3, <2>4, <2>6
<1> HIDE DEF P, N
<1>5. CASE ok
  <2>1. PICK tree : /\ Means(tree, V, Len(t))
                    /\ \A n \in (Len(t) + 1) .. MaxTokens, S \in Seq(Token) :
                          primary(parse_expr[n], P \o S) = Parsed(tree, S)
    BY <1>5, PrimaryReads DEF P
  <2>2. Means(Unary(tree), Requests \ V, Len(N))
    <3>1. ASSUME NEW n \in Len(N) .. MaxTokens
          PROVE  MeansAt(n, Unary(tree), Requests \ V)
      <4>1. n \in 1 .. MaxTokens /\ n - 1 \in Len(t) .. MaxTokens
        BY <1>1, <1>3, YamlAssumption
      <4> QED
        BY <2>1, <4>1, MeansNot DEF Means
    <3> QED
      BY <3>1 DEF Means
  <2>3. ASSUME NEW n \in Len(N) .. MaxTokens, NEW S \in Seq(Token)
        PROVE  NotParsers[n][N \o S] = Parsed(Unary(tree), S)
    <3>1. primary(parse_expr[n], P \o S) = Parsed(tree, S)
      BY <1>4, <2>1
    <3>2. Negated(Parsed(tree, S)) = Parsed(Unary(tree), S)
      BY DEF Negated, Parsed
    <3> QED
      BY <1>4, <3>1, <3>2
  <2> QED
    BY <1>3, <1>5, <2>2, <2>3 DEF Reads, OperandReads, N, P
<1>6. CASE ~ok
  <2>1. ASSUME NEW n \in Len(N) .. MaxTokens, NEW S \in Seq(Token)
        PROVE  NotParsers[n][N \o S] = NoParse
    <3>1. primary(parse_expr[n], P \o S) = NoParse
      BY <1>4, <1>6, PrimaryReads DEF P
    <3>2. Negated(NoParse) = NoParse
      BY DEF Negated, NoParse
    <3> QED
      BY <1>4, <3>1, <3>2
  <2> QED
    BY <1>3, <1>6, <2>1 DEF Reads, OperandReads, N, P
<1> QED
  BY <1>5, <1>6

\* A token that is an operand.
LEMMA TokenReads ==
    ASSUME NEW x \in Atoms \union {"true", "false"}, NEW V, V \subseteq Requests,
           \A n \in 1 .. MaxTokens : MeansAt(n, [op |-> x], V)
    PROVE  Reads(<<x>>, TRUE, V)
<1>1. x \in Token /\ <<x>> \in Seq(Token) /\ Len(<<x>>) = 1 /\ x # "!"
  BY Tokens
<1>2. Means([op |-> x], V, Len(<<x>>))
  BY <1>1 DEF Means
<1>3. ASSUME NEW n \in Len(<<x>>) .. MaxTokens, NEW S \in Seq(Token)
      PROVE  NotParsers[n][<<x>> \o S] = Parsed([op |-> x], S)
  <2>1. n \in 0 .. MaxTokens
    BY <1>1
  <2>2. PICK Y : Y = <<x>> \o S
    OBVIOUS
  <2>3. Y \in Seq(Token) /\ Y # << >> /\ Y[1] = x /\ Tail(Y) = S
    BY <1>1, <2>2, Cons
  <2>4. NotParsers[n][Y] = primary(parse_expr[n], Y)
    BY <1>1, <2>1, <2>3, NotParserIs
  <2>5. primary(parse_expr[n], Y) = Parsed([op |-> x], S)
    BY <2>3 DEF primary
  <2> QED
    BY <2>2, <2>4, <2>5
<1> QED
  BY <1>1, <1>2, <1>3 DEF Reads, OperandReads

\* A comparison is read as an operand.
LEMMA AtomReads ==
    ASSUME NEW a \in Atoms PROVE Reads(<<a>>, TRUE, {env \in Requests : a \in env})
BY MeansAtom, TokenReads

\* true and false are read as operands.
LEMMA ConstReads ==
    ASSUME NEW b \in {"true", "false"} PROVE Reads(<<b>>, TRUE, {env \in Requests : b = "true"})
BY MeansConst, TokenReads

\* A literal that does not lex is not an operand.
LEMMA JunkReads ==
    ASSUME NEW V, V \subseteq Requests PROVE Reads(<<"junk">>, FALSE, V)
<1>1. /\ "junk" \in Token /\ <<"junk">> \in Seq(Token) /\ Len(<<"junk">>) = 1
      /\ "junk" \notin Atoms
  BY Tokens
<1>2. ASSUME NEW n \in Len(<<"junk">>) .. MaxTokens, NEW S \in Seq(Token)
      PROVE  NotParsers[n][<<"junk">> \o S] = NoParse
  <2>1. n \in 0 .. MaxTokens
    BY <1>1
  <2>2. PICK Y : Y = <<"junk">> \o S
    OBVIOUS
  <2>3. Y \in Seq(Token) /\ Y # << >> /\ Y[1] = "junk"
    BY <1>1, <2>2, Cons
  <2>4. NotParsers[n][Y] = primary(parse_expr[n], Y)
    BY <2>1, <2>3, NotParserIs
  <2>5. primary(parse_expr[n], Y) = NoParse
    BY <1>1, <2>3 DEF primary, Starts
  <2> QED
    BY <2>2, <2>4, <2>5
<1> QED
  BY <1>1, <1>2 DEF Reads, OperandReads

\* No member of a list is longer than its text.
LEMMA JoinedLen ==
    ASSUME NEW parts \in Seq(Seq(Token)), NEW op \in Token
    PROVE  /\ Joined(parts, op) \in Seq(Token)
           /\ \A i \in 1 .. Len(parts) : Len(parts[i]) <= Len(Joined(parts, op))
<1> DEFINE m == Len(parts)
<1>1. m \in Nat /\ \A i \in 1 .. m : parts[i] \in Seq(Token) /\ Len(parts[i]) \in Nat
  OBVIOUS
<1>2. PICK text : /\ Joined(parts, op) = text[m]
                  /\ text[0] = << >>
                  /\ m >= 1 => text[1] = parts[1]
                  /\ \A i \in 2 .. m : text[i] = text[i - 1] \o (<<op>> \o parts[i])
  BY <1>1, JoinedIs
<1> DEFINE Q(i) == text[i] \in Seq(Token) /\ \A j \in 1 .. i : Len(parts[j]) <= Len(text[i])
           T == {i \in Nat : i <= m => Q(i)}
<1> HIDE DEF m, Q
<1>3. 0 \in T
  <2>1. << >> \in Seq(Token) /\ ~\E j \in 1 .. 0 : TRUE
    OBVIOUS
  <2>2. Q(0)
    BY <1>2, <2>1 DEF Q
  <2> QED
    BY <2>2
<1>4. ASSUME NEW n \in Nat, n \in T PROVE n + 1 \in T
  <2> SUFFICES ASSUME n + 1 <= m PROVE Q(n + 1)
    OBVIOUS
  <2>1. Q(n)
    BY <1>1, <1>4
  <2>2. text[n] \in Seq(Token) /\ \A j \in 1 .. n : Len(parts[j]) <= Len(text[n])
    BY <2>1 DEF Q
  <2>3. PICK i \in 1 .. m : i = n + 1
    BY <1>1
  <2>4. parts[i] \in Seq(Token) /\ i - 1 = n
    BY <1>1, <2>3
  <2>5. CASE n = 0
    <3>1. i = 1 /\ text[i] = parts[i]
      BY <1>1, <1>2, <2>3, <2>5
    <3>2. \A j \in 1 .. i : j = i
      BY <3>1
    <3>3. Q(i)
      BY <1>1, <2>4, <3>1, <3>2 DEF Q
    <3> QED
      BY <2>3, <3>3
  <2>6. CASE n # 0
    <3>1. text[i] = text[n] \o (<<op>> \o parts[i])
      <4>1. i \in 2 .. m
        BY <1>1, <2>3, <2>6
      <4> QED
        BY <1>2, <2>4, <4>1
    <3>2. PICK t, p : t = text[n] /\ p = parts[i]
      OBVIOUS
    <3>3. /\ t \o (<<op>> \o p) \in Seq(Token) /\ Len(t \o (<<op>> \o p)) = Len(t) + (Len(p) + 1)
          /\ Len(t) \in Nat /\ Len(p) \in Nat
      <4>1. t \in Seq(Token) /\ p \in Seq(Token)
        BY <2>2, <2>4, <3>2
      <4>2. PICK c : c = <<op>> \o p
        OBVIOUS
      <4>3. c \in Seq(Token) /\ Len(c) = Len(p) + 1
        BY <4>1, <4>2, Cons
      <4>4. t \o c \in Seq(Token) /\ Len(t \o c) = Len(t) + Len(c)
        BY <4>1, <4>3, ConcatProperties
      <4> QED
        BY <4>1, <4>2, <4>3, <4>4
    <3>4. /\ text[i] \in Seq(Token)
          /\ Len(text[i]) \in Nat /\ Len(text[i]) >= Len(text[n]) /\ Len(text[i]) >= Len(parts[i])
          /\ Len(text[n]) \in Nat
      <4>1. PICK u : u = text[i]
        OBVIOUS
      <4>2. u \in Seq(Token) /\ Len(u) = Len(t) + (Len(p) + 1)
        BY <3>1, <3>2, <3>3, <4>1
      <4>3. Len(u) \in Nat /\ Len(u) >= Len(t) /\ Len(u) >= Len(p) /\ Len(t) \in Nat
        BY <3>3, <4>2
      <4> QED
        BY <3>2, <4>1, <4>2, <4>3
    <3>5. ASSUME NEW j \in 1 .. i PROVE Len(parts[j]) <= Len(text[i])
      <4>1. CASE j = i
        BY <3>4, <4>1
      <4>2. CASE j # i
        <5>1. j \in 1 .. n /\ j \in 1 .. m
          BY <1>1, <2>3, <4>2
        <5>2. Len(parts[j]) <= Len(text[n]) /\ Len(parts[j]) \in Nat
          BY <1>1, <2>2, <5>1
        <5> QED
          BY <3>4, <5>2
      <4> QED
        BY <4>1, <4>2
    <3>6. Q(i)
      BY <3>4, <3>5 DEF Q
    <3> QED
      BY <2>3, <3>6
  <2> QED
    BY <2>5, <2>6
<1>5. Q(m)
  <2> HIDE DEF T
  <2>1. \A n \in Nat : n \in T
    BY <1>3, <1>4, SetInduction
  <2> QED
    BY <1>1, <2>1 DEF T
<1> QED
  BY <1>2, <1>5 DEF m, Q

\* An empty text is not an expression.
LEMMA EmptyReads ==
    ASSUME NEW V, V \subseteq Requests PROVE ReadsExpr(<< >>, FALSE, V)
<1>1. ASSUME NEW n \in 0 .. MaxTokens, NEW S \in Closing
      PROVE  parse_or(parse_expr[n])[<< >> \o S] = NoParse
  <2>1. S \in Seq(Token) /\ (S # << >> => S[1] = ")") /\ << >> \o S = S
    BY ConcatEmptySeq DEF Closing
  <2>2. ")" \notin Atoms
    BY Tokens
  <2>3. parse_not(parse_expr[n])[S] = NoParse
    BY <2>1, <2>2 DEF parse_not, primary, Starts
  <2>4. ~NoParse.ok
    BY DEF NoParse
  <2>5. parse_and(parse_expr[n])[S] = NoParse
    BY <2>1, <2>3, <2>4, ChainOfOne DEF parse_and
  <2>6. parse_or(parse_expr[n])[S] = NoParse
    BY <2>1, <2>4, <2>5, ChainOfOne DEF parse_or
  <2> QED
    BY <2>1, <2>6
<1>2. << >> \in Seq(Token) /\ Len(<< >>) = 0 /\ ~NoParse.ok
  BY DEF NoParse
<1> QED
  BY <1>1, <1>2 DEF ReadsExpr

\* A failed conversion is not a text.
LEMMA NotErr ==
    ASSUME NEW t \in Seq(Token) PROVE t # Err
<1> SUFFICES ASSUME t = Err PROVE FALSE
  OBVIOUS
<1>1. Len(Err) = 1 /\ Err[1] = "error"
  BY DEF Err
<1>2. t[1] \in Token
  BY <1>1
<1> QED
  BY <1>1, <1>2, Tokens

\* What an operand promises from h levels on, it promises from later ones on.
LEMMA OperandLater ==
    ASSUME NEW operands, NEW Good, NEW h \in Nat, NEW j \in Nat, h <= j,
           NEW t, NEW ok \in BOOLEAN, NEW V, OperandReads(operands, Good, h, t, ok, V)
    PROVE  OperandReads(operands, Good, j, t, ok, V)
<1>1. \A n : n \in j .. MaxTokens => n \in h .. MaxTokens
  BY YamlAssumption
<1> QED
  BY <1>1 DEF OperandReads

\* A joined list in parentheses: an operand if all its members are and there
\* are any, and all or some of them to the requests.
LEMMA JoinReads ==
    ASSUME NEW parts \in Seq(Seq(Token)), NEW op \in {"&&", "||"}, NEW oks, NEW Vs,
           \A i \in 1 .. Len(parts) : oks[i] \in BOOLEAN /\ Reads(parts[i], oks[i], Vs[i]),
           NEW ok \in BOOLEAN, ok <=> parts # << >> /\ \A i \in 1 .. Len(parts) : oks[i]
    PROVE  Reads(Join(parts, op), ok, Among(op, Vs, Len(parts)))
<1> DEFINE T == Joined(parts, op)
           V == Among(op, Vs, Len(parts))
<1>1. Join(parts, op) = Paren(T)
  <2>1. \A i \in DOMAIN parts : parts[i] # Err
    BY NotErr
  <2> QED
    BY <2>1 DEF Join
<1>2. op \in Token /\ V \subseteq Requests
  BY Tokens DEF Among
<1>3. T \in Seq(Token) /\ Len(T) \in Nat /\ \A i \in 1 .. Len(parts) : Len(parts[i]) <= Len(T)
  BY <1>2, JoinedLen
<1> HIDE DEF T, V
<1>4. ReadsExpr(T, ok, V)
  <2>1. CASE parts = << >>
    <3>1. Len(parts) = 0
      BY <2>1
    <3>2. T = << >>
      <4>1. Len(parts) \in Nat
        BY <3>1
      <4>2. PICK text : Joined(parts, op) = text[Len(parts)] /\ text[0] = << >>
        BY <4>1, JoinedIs
      <4> QED
        BY <3>1, <4>2 DEF T
    <3>3. ok = FALSE /\ ReadsExpr(<< >>, FALSE, V)
      BY <1>2, <2>1, EmptyReads
    <3> QED
      BY <3>2, <3>3
  <2>2. CASE parts # << >>
    <3>1. PICK all \in BOOLEAN : all <=> \A i \in 1 .. Len(parts) : oks[i]
      OBVIOUS
    <3>2. ok = all
      BY <2>2, <3>1
    <3>3. ASSUME NEW i \in 1 .. Len(parts)
          PROVE  /\ oks[i] \in BOOLEAN /\ Vs[i] \subseteq Requests
                 /\ parts[i] \in Seq(Token)
                 /\ OperandReads(NotParsers, Seq(Token), Len(T), parts[i], oks[i], Vs[i])
      <4>0. PICK fine \in BOOLEAN : fine = oks[i]
        OBVIOUS
      <4>1. PICK t, W : t = parts[i] /\ W = Vs[i]
        OBVIOUS
      <4>2. Reads(t, fine, W) /\ Len(t) <= Len(T)
        BY <1>3, <4>0, <4>1
      <4>3. /\ t \in Seq(Token) /\ Len(t) \in Nat /\ W \subseteq Requests
            /\ OperandReads(NotParsers, Seq(Token), Len(t), t, fine, W)
        BY <4>2 DEF Reads
      <4>4. OperandReads(NotParsers, Seq(Token), Len(T), t, fine, W)
        BY <1>3, <4>2, <4>3, OperandLater
      <4> QED
        BY <4>0, <4>1, <4>3, <4>4
    <3>4. CASE op = "&&"
      <4>1. ChainGives(NotParsers, op, Seq(Token), Len(T), T,
                       \A i \in 1 .. Len(parts) : oks[i], V)
        <5>1. Stops(Seq(Token), op)
          BY <3>4, Continuations
        <5> QED
          BY <2>2, <3>3, <5>1, ChainReads DEF T, V
      <4>2. ChainGives(NotParsers, "&&", Seq(Token), Len(T), T, all, V)
        BY <3>1, <3>4, <4>1 DEF ChainGives
      <4> QED
        BY <1>2, <1>3, <3>2, <4>2, ConjunctionReads
    <3>5. CASE op = "||"
      <4>1. ASSUME NEW i \in 1 .. Len(parts)
            PROVE  OperandReads(AndParsers, NotAnd, Len(T), parts[i], oks[i], Vs[i])
        BY <1>3, <3>3, AndOperand
      <4>2. ChainGives(AndParsers, op, NotAnd, Len(T), T,
                       \A i \in 1 .. Len(parts) : oks[i], V)
        <5>1. Stops(NotAnd, op)
          BY <3>5, Continuations
        <5> QED
          BY <2>2, <3>3, <4>1, <5>1, ChainReads DEF T, V
      <4>3. ChainGives(AndParsers, "||", NotAnd, Len(T), T, all, V)
        BY <3>1, <3>5, <4>2 DEF ChainGives
      <4> QED
        BY <1>2, <1>3, <3>2, <4>3, DisjunctionReads
    <3> QED
      BY <3>4, <3>5
  <2> QED
    BY <2>1, <2>2
<1>5. Reads(Paren(T), ok, V)
  BY <1>4, ParenReads
<1> QED
  BY <1>1, <1>5 DEF V

-----------------------------------------------------------------------------
(***************************************************************************)
(* Conditions, by induction over their levels.                             *)
(***************************************************************************)
LEMMA CondCases ==
    ASSUME NEW B, NEW c \in Conditions(B)
    PROVE  /\ c.kind \in {"atom", "pair", "true", "false", "bad", "unlexed", "and", "or", "not"}
           /\ c.fmt \in {"new", "legacy"} /\ c.atom \in Atoms /\ c.other \in Atoms
           /\ c.subs \in Seq(B)
           /\ c.kind = "not" => c.fmt = "legacy" /\ Len(c.subs) = 1
           /\ c.kind \in {"atom", "pair", "true", "false", "bad", "unlexed"} => c.subs = << >>
BY DEF Conditions

FilledAt(d, c) ==
    \A x \in Nodes[d][c] : x.kind # "unlexed" /\ (x.kind \in {"and", "or"} => x.subs # << >>)

PureAt(d, c) ==
    \A x \in Nodes[d][c] :
        x.kind # "bad" /\ (x.fmt = "new" => \A i \in DOMAIN x.subs : x.subs[i].fmt = "new")

NewParts(d, c) == [k \in DOMAIN c.subs |-> new_cond_to_grl[d - 1][c.subs[k]]]
Parts(d, c) == [k \in DOMAIN c.subs |-> cond_to_grl[d - 1][c.subs[k]]]
Values(d, c) == [k \in DOMAIN c.subs |-> evaluate[d - 1][c.subs[k]]]

\* The functions by levels at a condition of d levels.
LEMMA CondAt ==
    ASSUME NEW d \in 1 .. MaxDepth, NEW c \in Cond[d]
    PROVE  /\ c \in Conditions(Cond[d - 1])
           /\ new_cond_to_grl[d][c] = new_text(c, NewParts(d, c))
           /\ cond_to_grl[d][c] = legacy_text(c, new_cond_to_grl[d][c], Parts(d, c))
           /\ evaluate[d][c] = {env \in Requests : matches(c, env, Values(d, c))}
           /\ Nodes[d][c] = {c} \union UNION {Nodes[d - 1][c.subs[k]] : k \in DOMAIN c.subs}
<1>1. c \in Conditions(Cond[d - 1])
  BY CondIs
<1>2. new_cond_to_grl[d][c] = new_text(c, NewParts(d, c))
  <2>1. new_cond_to_grl[d] = [x \in Cond[d] |-> new_text(x, [k \in DOMAIN x.subs |-> new_cond_to_grl[d - 1][x.subs[k]]])]
    BY NewIs
  <2> QED
    BY <2>1 DEF NewParts
<1>3. cond_to_grl[d][c] = legacy_text(c, new_cond_to_grl[d][c], Parts(d, c))
  <2>1. cond_to_grl[d] = [x \in Cond[d] |->
           legacy_text(x, new_cond_to_grl[d][x], [k \in DOMAIN x.subs |-> cond_to_grl[d - 1][x.subs[k]]])]
    BY TextIs
  <2> QED
    BY <2>1 DEF Parts
<1>4. evaluate[d][c] = {env \in Requests : matches(c, env, Values(d, c))}
  <2>1. evaluate[d] = [x \in Cond[d] |->
           {env \in Requests : matches(x, env, [k \in DOMAIN x.subs |-> evaluate[d - 1][x.subs[k]]])}]
    BY EvaluateIs
  <2> QED
    BY <2>1, Zenon DEF Values
<1>5. Nodes[d][c] = {c} \union UNION {Nodes[d - 1][c.subs[k]] : k \in DOMAIN c.subs}
  <2>1. Nodes[d] = [x \in Cond[d] |-> {x} \union UNION {Nodes[d - 1][x.subs[k]] : k \in DOMAIN x.subs}]
    BY NodesIs
  <2> QED
    BY <2>1, Zenon
<1> QED
  BY <1>1, <1>2, <1>3, <1>4, <1>5

\* Filled and Pure, from a condition to the conditions below it.
LEMMA NodesAt ==
    ASSUME NEW d \in 1 .. MaxDepth, NEW c \in Cond[d]
    PROVE  /\ FilledAt(d, c) <=> /\ c.kind # "unlexed"
                                 /\ c.kind \in {"and", "or"} => c.subs # << >>
                                 /\ \A k \in DOMAIN c.subs : FilledAt(d - 1, c.subs[k])
           /\ PureAt(d, c) <=> /\ c.kind # "bad"
                               /\ c.fmt = "new" => \A i \in DOMAIN c.subs : c.subs[i].fmt = "new"
                               /\ \A k \in DOMAIN c.subs : PureAt(d - 1, c.subs[k])
<1>1. \A x : x \in Nodes[d][c] <=> x = c \/ \E k \in DOMAIN c.subs : x \in Nodes[d - 1][c.subs[k]]
  BY CondAt
<1>2. FilledAt(d, c) <=> /\ c.kind # "unlexed"
                         /\ c.kind \in {"and", "or"} => c.subs # << >>
                         /\ \A k \in DOMAIN c.subs : FilledAt(d - 1, c.subs[k])
  BY <1>1, Zenon DEF FilledAt
<1>3. PureAt(d, c) <=> /\ c.kind # "bad"
                       /\ c.fmt = "new" => \A i \in DOMAIN c.subs : c.subs[i].fmt = "new"
                       /\ \A k \in DOMAIN c.subs : PureAt(d - 1, c.subs[k])
  BY <1>1, Zenon DEF PureAt
<1> QED
  BY <1>2, <1>3

\* The meaning of a condition, by its kind.
LEMMA EvaluateAt ==
    ASSUME NEW d \in 1 .. MaxDepth, NEW c \in Cond[d]
    PROVE  /\ c.kind = "atom" => evaluate[d][c] = {env \in Requests : c.atom \in env}
           /\ c.kind = "pair" => evaluate[d][c] = {env \in Requests : c.atom \in env \/ c.other \in env}
           /\ c.kind = "and" => evaluate[d][c] = Among("&&", Values(d, c), Len(c.subs))
           /\ c.kind = "or" => evaluate[d][c] = Among("||", Values(d, c), Len(c.subs))
           /\ c.kind = "not" => evaluate[d][c] = Requests \ Values(d, c)[1]
           /\ c.kind \in {"true", "false"} => evaluate[d][c] = {env \in Requests : c.kind = "true"}
           /\ c.kind = "unlexed" => evaluate[d][c] \subseteq Requests
<1>1. c.subs \in Seq(Cond[d - 1])
  BY CondAt, CondCases
<1>2. DOMAIN Values(d, c) = 1 .. Len(c.subs)
  BY <1>1 DEF Values
<1>3. evaluate[d][c] = {env \in Requests : matches(c, env, Values(d, c))}
  BY CondAt
<1>4. CASE c.kind = "atom"
  BY <1>3, <1>4 DEF matches
<1>5. CASE c.kind = "pair"
  BY <1>3, <1>5 DEF matches
<1>6. CASE c.kind = "and"
  BY <1>2, <1>3, <1>6 DEF matches, Among
<1>7. CASE c.kind = "or"
  BY <1>2, <1>3, <1>7 DEF matches, Among
<1>8. CASE c.kind = "not"
  BY <1>3, <1>8 DEF matches
<1>9. CASE c.kind \in {"true", "false"}
  BY <1>3, <1>9 DEF matches
<1>10. evaluate[d][c] \subseteq Requests
  BY <1>3
<1> QED
  BY <1>4, <1>5, <1>6, <1>7, <1>8, <1>9, <1>10

\* What a text of a condition of d levels promises.
Tells(t, d, c) == Reads(t, FilledAt(d, c), evaluate[d][c])

\* Tells from Reads, with the truth value and the requests under other names.
LEMMA TellsIs ==
    ASSUME NEW t, NEW d, NEW c, NEW ok \in BOOLEAN, ok <=> FilledAt(d, c),
           NEW V, V = evaluate[d][c], Reads(t, ok, V)
    PROVE  Tells(t, d, c)
<1>1. PICK f \in BOOLEAN : f = FilledAt(d, c)
  BY DEF FilledAt
<1>2. f = ok
  BY <1>1
<1>3. Reads(t, f, evaluate[d][c])
  BY <1>2
<1> QED
  BY <1>1, <1>3 DEF Tells

\* Reads from Tells.
LEMMA TellsReads ==
    ASSUME NEW t, NEW d, NEW c, Tells(t, d, c)
    PROVE  \E ok \in BOOLEAN : (ok <=> FilledAt(d, c)) /\ Reads(t, ok, evaluate[d][c])
<1>1. PICK f \in BOOLEAN : f = FilledAt(d, c)
  BY DEF FilledAt
<1> QED
  BY <1>1 DEF Tells

\* The two places of a pair as a list in parentheses.
LEMMA PairText ==
    ASSUME NEW a \in Token, NEW b \in Token
    PROVE  /\ <<<<a>>, <<b>>>> \in Seq(Seq(Token))
           /\ <<"(", a, "||", b, ")">> = Join(<<<<a>>, <<b>>>>, "||")
<1> DEFINE parts == <<<<a>>, <<b>>>>
<1>1. PICK x, y : x = <<a>> /\ y = <<b>>
  OBVIOUS
<1>2. x \in Seq(Token) /\ y \in Seq(Token) /\ Len(x) = 1 /\ Len(y) = 1 /\ x[1] = a /\ y[1] = b
  BY <1>1
<1>3. parts = <<x, y>> /\ <<x, y>> \in Seq(Seq(Token))
  BY <1>1, <1>2
<1>4. Len(parts) \in Nat /\ Len(parts) = 2 /\ DOMAIN parts = 1 .. 2 /\ parts[1] = x /\ parts[2] = y
  BY <1>3
<1> HIDE DEF parts
<1>5. PICK text : /\ Joined(parts, "||") = text[Len(parts)]
                  /\ text[0] = << >>
                  /\ Len(parts) >= 1 => text[1] = parts[1]
                  /\ \A i \in 2 .. Len(parts) : text[i] = text[i - 1] \o (<<"||">> \o parts[i])
  <2>1. Len(parts) \in Nat
    BY <1>4
  <2> QED
    BY <2>1, JoinedIs
<1>6. text[1] = x
  BY <1>4, <1>5
<1>7. text[2] = x \o (<<"||">> \o y)
  <2>1. 2 \in 2 .. Len(parts) /\ 2 - 1 = 1
    BY <1>4
  <2> QED
    BY <1>4, <1>5, <1>6, <2>1
<1>8. {"(", ")", "||"} \subseteq Token
  BY Tokens
<1>0. PICK l, r : l = <<"(">> /\ r = <<")">>
  OBVIOUS
<1>18. l \in Seq(Token) /\ r \in Seq(Token) /\ Len(l) = 1 /\ Len(r) = 1 /\ l[1] = "(" /\ r[1] = ")"
  BY <1>0, <1>8
<1> DEFINE v == <<"||">> \o y
           w == x \o v
           z == w \o r
           p == l \o z
           q == <<"(", a, "||", b, ")">>
<1>9. v \in Seq(Token) /\ Len(v) = 2 /\ v[1] = "||" /\ v[2] = b
  BY <1>2, <1>8, ConcatProperties
<1> HIDE DEF v
<1>10. w \in Seq(Token) /\ Len(w) = 3 /\ w[1] = a /\ w[2] = "||" /\ w[3] = b
  <2>1. /\ x \o v \in Seq(Token) /\ Len(x \o v) = Len(x) + Len(v)
        /\ \A i \in 1 .. Len(x) + Len(v) :
              (x \o v)[i] = IF i <= Len(x) THEN x[i] ELSE v[i - Len(x)]
    BY <1>2, <1>9, ConcatProperties
  <2> QED
    BY <1>2, <1>9, <2>1
<1> HIDE DEF w
<1>11. z \in Seq(Token) /\ Len(z) = 4 /\ z[1] = a /\ z[2] = "||" /\ z[3] = b /\ z[4] = ")"
  <2>1. /\ w \o r \in Seq(Token) /\ Len(w \o r) = Len(w) + Len(r)
        /\ \A i \in 1 .. Len(w) + Len(r) :
              (w \o r)[i] = IF i <= Len(w) THEN w[i] ELSE r[i - Len(w)]
    BY <1>10, <1>18, ConcatProperties
  <2> QED
    BY <1>10, <1>18, <2>1
<1> HIDE DEF z
<1>12. /\ p \in Seq(Token) /\ Len(p) = 5
       /\ p[1] = "(" /\ p[2] = a /\ p[3] = "||" /\ p[4] = b /\ p[5] = ")"
  <2>1. /\ l \o z \in Seq(Token) /\ Len(l \o z) = Len(l) + Len(z)
        /\ \A i \in 1 .. Len(l) + Len(z) :
              (l \o z)[i] = IF i <= Len(l) THEN l[i] ELSE z[i - Len(l)]
    BY <1>11, <1>18, ConcatProperties
  <2> QED
    BY <1>11, <1>18, <2>1
<1> HIDE DEF p
<1>13. /\ q \in Seq(Token) /\ Len(q) = 5
       /\ q[1] = "(" /\ q[2] = a /\ q[3] = "||" /\ q[4] = b /\ q[5] = ")"
  BY <1>8
<1> HIDE DEF q
<1>14. \A i \in 1 .. 5 : p[i] = q[i]
  <2>1. \A i \in 1 .. 5 : i = 1 \/ i = 2 \/ i = 3 \/ i = 4 \/ i = 5
    OBVIOUS
  <2> QED
    BY <1>12, <1>13, <2>1
<1>15. p = q
  BY <1>12, <1>13, <1>14, SeqEqual
<1>16. Joined(parts, "||") = w
  BY <1>4, <1>5, <1>7 DEF v, w
<1>17. Join(parts, "||") = p
  <2>1. x # Err /\ y # Err
    BY <1>2, NotErr
  <2>2. \A i \in DOMAIN parts : parts[i] # Err
    BY <1>4, <2>1
  <2> QED
    BY <1>0, <1>16, <2>2 DEF Join, Paren, p, z
<1> QED
  BY <1>3, <1>15, <1>17 DEF parts, q

\* The text of a leaf says what the leaf says.
LEMMA LeafText ==
    ASSUME NEW d \in 1 .. MaxDepth, NEW c \in Cond[d],
           c.kind \in {"atom", "pair", "true", "false", "unlexed"}
    PROVE  Tells(leaf_to_grl(c), d, c) /\ PureAt(d, c)
<1>1. c.subs = << >> /\ c.atom \in Atoms /\ c.other \in Atoms
  BY CondAt, CondCases
<1>2. (FilledAt(d, c) <=> c.kind # "unlexed") /\ PureAt(d, c)
  BY <1>1, NodesAt
<1>3. ASSUME c.kind # "unlexed", Reads(leaf_to_grl(c), TRUE, evaluate[d][c])
      PROVE  Tells(leaf_to_grl(c), d, c)
  <2>1. PICK V : V = evaluate[d][c]
    OBVIOUS
  <2> QED
    BY <1>2, <1>3, <2>1, TellsIs
<1>4. CASE c.kind = "atom"
  <2>1. leaf_to_grl(c) = <<c.atom>>
    BY <1>4 DEF leaf_to_grl
  <2>2. evaluate[d][c] = {env \in Requests : c.atom \in env}
    BY <1>4, EvaluateAt
  <2>3. Reads(leaf_to_grl(c), TRUE, evaluate[d][c])
    BY <1>1, <2>1, <2>2, AtomReads
  <2> QED
    BY <1>2, <1>3, <1>4, <2>3
<1>5. CASE c.kind \in {"true", "false"}
  <2>1. leaf_to_grl(c) = <<c.kind>>
    BY <1>5 DEF leaf_to_grl
  <2>2. evaluate[d][c] = {env \in Requests : c.kind = "true"}
    BY <1>5, EvaluateAt
  <2> QED
    BY <1>2, <1>3, <1>5, <2>1, <2>2, ConstReads
<1>6. CASE c.kind = "pair"
  <2> DEFINE parts == <<<<c.atom>>, <<c.other>>>>
             Vs == <<{env \in Requests : c.atom \in env}, {env \in Requests : c.other \in env}>>
             oks == <<TRUE, TRUE>>
  <2>1. leaf_to_grl(c) = Join(parts, "||") /\ parts \in Seq(Seq(Token))
    <3>1. c.atom \in Token /\ c.other \in Token
      BY <1>1, Tokens
    <3>2. leaf_to_grl(c) = <<"(", c.atom, "||", c.other, ")">>
      BY <1>6 DEF leaf_to_grl
    <3> QED
      BY <3>1, <3>2, PairText
  <2>2. /\ Len(parts) = 2 /\ parts # << >>
        /\ \A i \in 1 .. Len(parts) : oks[i] \in BOOLEAN /\ oks[i]
    <3>1. Len(parts) = 2 /\ parts # << >> /\ oks[1] = TRUE /\ oks[2] = TRUE
      OBVIOUS
    <3>2. \A i \in 1 .. 2 : i = 1 \/ i = 2
      OBVIOUS
    <3> HIDE DEF parts, oks
    <3> QED
      BY <3>1, <3>2
  <2>3. Reads(parts[1], oks[1], Vs[1]) /\ Reads(parts[2], oks[2], Vs[2])
    BY <1>1, AtomReads
  <2>4. \A i \in 1 .. Len(parts) : oks[i] \in BOOLEAN /\ Reads(parts[i], oks[i], Vs[i])
    <3> HIDE DEF parts, Vs, oks
    <3>1. \A i \in 1 .. Len(parts) : i = 1 \/ i = 2
      BY <2>2
    <3> QED
      BY <2>2, <2>3, <3>1
  <2>5. Among("||", Vs, 2) = evaluate[d][c]
    <3>1. evaluate[d][c] = {env \in Requests : c.atom \in env \/ c.other \in env}
      BY <1>6, EvaluateAt
    <3>2. \A env \in Requests : (\E i \in 1 .. 2 : env \in Vs[i]) <=> c.atom \in env \/ c.other \in env
      <4>1. Vs[1] = {env \in Requests : c.atom \in env} /\ Vs[2] = {env \in Requests : c.other \in env}
        OBVIOUS
      <4> HIDE DEF Vs
      <4>2. \A i : i \in 1 .. 2 <=> i = 1 \/ i = 2
        OBVIOUS
      <4> QED
        BY <4>1, <4>2
    <3> QED
      BY <3>1, <3>2 DEF Among
  <2> HIDE DEF parts, Vs, oks
  <2>6. PICK ok \in BOOLEAN : ok = TRUE
    OBVIOUS
  <2>7. Reads(Join(parts, "||"), ok, Among("||", Vs, Len(parts)))
    <3>1. ok <=> parts # << >> /\ \A i \in 1 .. Len(parts) : oks[i]
      BY <2>2, <2>6
    <3> QED
      BY <2>1, <2>4, <3>1, JoinReads
  <2>8. Reads(leaf_to_grl(c), TRUE, evaluate[d][c])
    BY <2>1, <2>2, <2>5, <2>6, <2>7
  <2> QED
    BY <1>2, <1>3, <1>6, <2>8
<1>7. CASE c.kind = "unlexed"
  <2>1. leaf_to_grl(c) = <<"junk">>
    BY <1>7 DEF leaf_to_grl
  <2>2. PICK V : V = evaluate[d][c]
    OBVIOUS
  <2>3. PICK ok \in BOOLEAN : ok = FALSE
    OBVIOUS
  <2>4. Reads(<<"junk">>, FALSE, V)
    BY <1>7, <2>2, EvaluateAt, JunkReads
  <2> QED
    BY <1>2, <1>7, <2>1, <2>2, <2>3, <2>4, TellsIs
<1> QED
  BY <1>2, <1>4, <1>5, <1>6, <1>7

\* A leaf with a part missing has no text.
LEMMA BadText ==
    ASSUME NEW d \in 1 .. MaxDepth, NEW c \in Cond[d], c.kind = "bad"
    PROVE  leaf_to_grl(c) = Err /\ ~PureAt(d, c)
BY NodesAt DEF leaf_to_grl

\* A list whose members are texts of the conditions below.
LEMMA JoinText ==
    ASSUME NEW d \in 1 .. MaxDepth, NEW c \in Cond[d], c.kind \in {"and", "or"}, NEW parts,
           parts = [k \in DOMAIN c.subs |-> parts[k]],
           \A k \in DOMAIN c.subs : parts[k] # Err => Tells(parts[k], d - 1, c.subs[k])
    PROVE  LET t == Join(parts, Symbol(c.kind))
           IN  /\ t # Err => Tells(t, d, c)
               /\ t # Err <=> \A k \in DOMAIN c.subs : parts[k] # Err
<1> DEFINE t == Join(parts, Symbol(c.kind))
           m == Len(c.subs)
<1>1. c.subs \in Seq(Cond[d - 1]) /\ m \in Nat /\ DOMAIN c.subs = 1 .. m /\ DOMAIN parts = 1 .. m
  BY CondAt, CondCases
<1>2. CASE \E k \in DOMAIN c.subs : parts[k] = Err
  <2>1. t = Err
    BY <1>1, <1>2 DEF Join
  <2> QED
    BY <1>2, <2>1
<1>3. CASE \A k \in DOMAIN c.subs : parts[k] # Err
  <2> DEFINE oks == [k \in 1 .. m |-> FilledAt(d - 1, c.subs[k])]
             Vs == Values(d, c)
  <2>1. ASSUME NEW k \in 1 .. m
        PROVE  /\ Reads(parts[k], oks[k], Vs[k]) /\ oks[k] \in BOOLEAN /\ parts[k] \in Seq(Token)
    <3>1. Tells(parts[k], d - 1, c.subs[k])
      BY <1>1, <1>3
    <3>2. Vs[k] = evaluate[d - 1][c.subs[k]]
      BY <1>1 DEF Values
    <3>3. PICK ok \in BOOLEAN : /\ ok <=> FilledAt(d - 1, c.subs[k])
                                /\ Reads(parts[k], ok, evaluate[d - 1][c.subs[k]])
      BY <3>1, TellsReads
    <3>4. oks[k] = FilledAt(d - 1, c.subs[k]) /\ FilledAt(d - 1, c.subs[k]) \in BOOLEAN
      BY DEF FilledAt
    <3>5. ok = oks[k]
      BY <3>3, <3>4
    <3>6. parts[k] \in Seq(Token)
      BY <3>3 DEF Reads
    <3> HIDE DEF oks, Vs
    <3> QED
      BY <3>2, <3>3, <3>5, <3>6
  <2>2. parts \in Seq(Seq(Token)) /\ Len(parts) = m
    <3>1. parts \in [1 .. m -> Seq(Token)]
      BY <1>1, <2>1
    <3> QED
      BY <1>1, <3>1
  <2>3. PICK ok \in BOOLEAN : ok <=> parts # << >> /\ \A i \in 1 .. Len(parts) : oks[i]
    OBVIOUS
  <2>4. ok <=> FilledAt(d, c)
    <3>1. parts # << >> <=> c.subs # << >>
      BY <1>1, <2>2
    <3>2. (\A i \in 1 .. m : oks[i]) <=> \A k \in DOMAIN c.subs : FilledAt(d - 1, c.subs[k])
      <4>1. \A i \in 1 .. m : oks[i] <=> FilledAt(d - 1, c.subs[i])
        OBVIOUS
      <4> HIDE DEF oks
      <4> QED
        BY <1>1, <4>1
    <3>3. FilledAt(d, c) <=> /\ c.kind # "unlexed"
                             /\ c.kind \in {"and", "or"} => c.subs # << >>
                             /\ \A k \in DOMAIN c.subs : FilledAt(d - 1, c.subs[k])
      BY NodesAt
    <3> HIDE DEF oks
    <3> QED
      BY <2>2, <2>3, <3>1, <3>2, <3>3
  <2>5. PICK op \in {"&&", "||"} : op = Symbol(c.kind)
    BY DEF Symbol
  <2>6. evaluate[d][c] = Among(op, Vs, Len(parts))
    <3>1. c.kind = "and" => evaluate[d][c] = Among("&&", Values(d, c), Len(c.subs))
      BY EvaluateAt
    <3>2. c.kind = "or" => evaluate[d][c] = Among("||", Values(d, c), Len(c.subs))
      BY EvaluateAt
    <3>3. c.kind = "and" => op = "&&"
      BY <2>5 DEF Symbol
    <3>4. c.kind = "or" => op = "||"
      BY <2>5 DEF Symbol
    <3> QED
      BY <2>2, <3>1, <3>2, <3>3, <3>4
  <2> HIDE DEF oks, Vs
  <2>7. Reads(Join(parts, op), ok, Among(op, Vs, Len(parts)))
    <3>1. \A i \in 1 .. Len(parts) : oks[i] \in BOOLEAN /\ Reads(parts[i], oks[i], Vs[i])
      BY <2>1, <2>2
    <3> QED
      BY <2>2, <2>3, <3>1, JoinReads
  <2>8. t = Join(parts, op)
    BY <2>5
  <2> HIDE DEF t
  <2>9. Tells(t, d, c)
    BY <2>4, <2>6, <2>7, <2>8, TellsIs
  <2>10. t # Err
    BY <2>7, <2>8, NotErr DEF Reads
  <2> QED
    BY <1>3, <2>9, <2>10 DEF t
<1> QED
  BY <1>2, <1>3

NewOk(d, c) ==
    LET t == new_cond_to_grl[d][c]
    IN  /\ t # Err => Tells(t, d, c)
        /\ t # Err <=> c.fmt = "new" /\ PureAt(d, c)

\* The new notation: converted if all below is in it too.
LEMMA NewStep ==
    ASSUME NEW d \in 1 .. MaxDepth, NEW c \in Cond[d], \A x \in Cond[d - 1] : NewOk(d - 1, x)
    PROVE  NewOk(d, c)
<1> DEFINE t == new_cond_to_grl[d][c]
           parts == NewParts(d, c)
<1>1. /\ c.subs \in Seq(Cond[d - 1]) /\ t = new_text(c, parts)
      /\ c.kind \in {"atom", "pair", "true", "false", "bad", "unlexed", "and", "or", "not"}
      /\ c.kind = "not" => c.fmt = "legacy"
  BY CondAt, CondCases
<1>2. CASE c.fmt # "new"
  <2>1. t = Err
    BY <1>1, <1>2 DEF new_text
  <2> QED
    BY <1>2, <2>1 DEF NewOk
<1>3. CASE c.fmt = "new" /\ c.kind \in {"atom", "pair", "true", "false", "unlexed"}
  <2>1. t = leaf_to_grl(c)
    BY <1>1, <1>3 DEF new_text
  <2>2. Tells(t, d, c) /\ PureAt(d, c)
    BY <1>3, <2>1, LeafText
  <2>3. t # Err
    <3>1. PICK ok : Reads(t, ok, evaluate[d][c])
      BY <2>2 DEF Tells
    <3> QED
      BY <3>1, NotErr DEF Reads
  <2> QED
    BY <1>3, <2>2, <2>3 DEF NewOk
<1>4. CASE c.fmt = "new" /\ c.kind \in {"and", "or"}
  <2>1. t = Join(parts, Symbol(c.kind))
    BY <1>1, <1>4 DEF new_text
  <2>2. /\ parts = [k \in DOMAIN c.subs |-> parts[k]]
        /\ \A k \in DOMAIN c.subs : parts[k] = new_cond_to_grl[d - 1][c.subs[k]]
    BY DEF NewParts
  <2>3. ASSUME NEW k \in DOMAIN c.subs
        PROVE  /\ parts[k] # Err => Tells(parts[k], d - 1, c.subs[k])
               /\ parts[k] # Err <=> c.subs[k].fmt = "new" /\ PureAt(d - 1, c.subs[k])
    <3>1. c.subs[k] \in Cond[d - 1]
      BY <1>1
    <3>2. NewOk(d - 1, c.subs[k])
      BY <3>1
    <3> QED
      BY <2>2, <3>2 DEF NewOk
  <2> HIDE DEF parts
  <2>4. /\ t # Err => Tells(t, d, c)
        /\ t # Err <=> \A k \in DOMAIN c.subs : parts[k] # Err
    BY <1>4, <2>1, <2>2, <2>3, JoinText, ZenonT(60)
  <2>5. PureAt(d, c) <=> /\ c.kind # "bad"
                         /\ c.fmt = "new" => \A i \in DOMAIN c.subs : c.subs[i].fmt = "new"
                         /\ \A k \in DOMAIN c.subs : PureAt(d - 1, c.subs[k])
    BY NodesAt
  <2>6. t # Err <=> c.fmt = "new" /\ PureAt(d, c)
    BY <1>4, <2>3, <2>4, <2>5
  <2> QED
    BY <2>4, <2>6 DEF NewOk
<1>5. CASE c.fmt = "new" /\ c.kind = "bad"
  <2>1. t = Err
    BY <1>1, <1>5, BadText DEF new_text
  <2> QED
    BY <1>5, <2>1, BadText DEF NewOk
<1> QED
  BY <1>1, <1>2, <1>3, <1>4, <1>5

\* The new notation, at every level.
LEMMA NewText ==
    ASSUME NEW d \in 0 .. MaxDepth, NEW c \in Cond[d] PROVE NewOk(d, c)
<1> DEFINE T == {n \in Nat : n <= MaxDepth => \A x \in Cond[n] : NewOk(n, x)}
<1>0. MaxDepth \in Nat
  BY YamlAssumption
<1>1. 0 \in T
  BY CondIs
<1>2. ASSUME NEW n \in Nat, n \in T PROVE n + 1 \in T
  <2> SUFFICES ASSUME n + 1 <= MaxDepth, NEW x \in Cond[n + 1] PROVE NewOk(n + 1, x)
    OBVIOUS
  <2>1. PICK e \in 1 .. MaxDepth : e = n + 1
    BY <1>0
  <2>2. e - 1 = n /\ \A y \in Cond[n] : NewOk(n, y)
    BY <1>0, <1>2, <2>1
  <2>3. NewOk(e, x)
    BY <2>1, <2>2, NewStep
  <2> QED
    BY <2>1, <2>3
<1>3. \A n \in Nat : n \in T
  <2> HIDE DEF T
  <2> QED
    BY <1>1, <1>2, SetInduction
<1> QED
  BY <1>0, <1>3

TextOk(d, c) ==
    LET t == cond_to_grl[d][c]
    IN  /\ t # Err => Tells(t, d, c)
        /\ t # Err <=> PureAt(d, c)

\* The two notations together: converted if they are not mixed.
LEMMA TextStep ==
    ASSUME NEW d \in 1 .. MaxDepth, NEW c \in Cond[d], \A x \in Cond[d - 1] : TextOk(d - 1, x)
    PROVE  TextOk(d, c)
<1> DEFINE t == cond_to_grl[d][c]
           new == new_cond_to_grl[d][c]
           parts == Parts(d, c)
<1>1. /\ c.subs \in Seq(Cond[d - 1]) /\ t = legacy_text(c, new, parts)
      /\ c.kind \in {"atom", "pair", "true", "false", "bad", "unlexed", "and", "or", "not"}
      /\ c.fmt \in {"new", "legacy"}
      /\ c.kind = "not" => Len(c.subs) = 1
  BY CondAt, CondCases
<1>2. /\ new # Err => Tells(new, d, c)
      /\ new # Err <=> c.fmt = "new" /\ PureAt(d, c)
  <2>1. d \in 0 .. MaxDepth
    OBVIOUS
  <2>2. NewOk(d, c)
    BY <2>1, NewText
  <2> QED
    BY <2>2 DEF NewOk
<1>3. CASE new # Err
  <2>1. t = new
    BY <1>1, <1>3 DEF legacy_text
  <2> QED
    BY <1>2, <1>3, <2>1 DEF TextOk
<1>4. CASE new = Err /\ c.fmt = "new"
  <2>1. t = Err
    BY <1>1, <1>4 DEF legacy_text
  <2> QED
    BY <1>2, <1>4, <2>1 DEF TextOk
<1>5. /\ parts = [k \in DOMAIN c.subs |-> parts[k]]
      /\ \A k \in DOMAIN c.subs : parts[k] = cond_to_grl[d - 1][c.subs[k]]
  BY DEF Parts
<1>6. ASSUME NEW k \in DOMAIN c.subs
      PROVE  /\ parts[k] # Err => Tells(parts[k], d - 1, c.subs[k])
             /\ parts[k] # Err <=> PureAt(d - 1, c.subs[k])
  <2>1. c.subs[k] \in Cond[d - 1]
    BY <1>1
  <2>2. TextOk(d - 1, c.subs[k])
    BY <2>1
  <2> QED
    BY <1>5, <2>2 DEF TextOk
<1>7. c.fmt # "new" /\ c.kind # "bad" => (PureAt(d, c) <=> \A k \in DOMAIN c.subs : PureAt(d - 1, c.subs[k]))
  BY NodesAt
<1> HIDE DEF parts, new, t
<1>8. CASE new = Err /\ c.fmt # "new" /\ c.kind \in {"atom", "pair", "true", "false", "unlexed"}
  <2>1. t = leaf_to_grl(c)
    BY <1>1, <1>8 DEF legacy_text
  <2>2. Tells(t, d, c) /\ PureAt(d, c)
    BY <1>8, <2>1, LeafText
  <2>3. t # Err
    <3>1. PICK ok : Reads(t, ok, evaluate[d][c])
      BY <2>2 DEF Tells
    <3> QED
      BY <3>1, NotErr DEF Reads
  <2> QED
    BY <2>2, <2>3 DEF TextOk, t
<1>9. CASE new = Err /\ c.fmt # "new" /\ c.kind \in {"and", "or"}
  <2>1. t = Join(parts, Symbol(c.kind))
    BY <1>1, <1>9 DEF legacy_text
  <2>2. /\ t # Err => Tells(t, d, c)
        /\ t # Err <=> \A k \in DOMAIN c.subs : parts[k] # Err
    BY <1>5, <1>6, <1>9, <2>1, JoinText
  <2> QED
    BY <1>6, <1>7, <1>9, <2>2 DEF TextOk, t
<1>10. CASE new = Err /\ c.fmt # "new" /\ c.kind = "not"
  <2>1. DOMAIN c.subs = {1}
    BY <1>1, <1>10
  <2>2. PureAt(d, c) <=> parts[1] # Err
    BY <1>6, <1>7, <1>10, <2>1
  <2>3. t = IF parts[1] = Err THEN Err ELSE <<"!">> \o Paren(parts[1])
    BY <1>1, <1>10 DEF legacy_text
  <2>4. CASE parts[1] = Err
    BY <2>2, <2>3, <2>4 DEF TextOk, t
  <2>5. CASE parts[1] # Err
    <3>1. PICK p : p = parts[1]
      OBVIOUS
    <3>2. PICK ok \in BOOLEAN : /\ ok <=> FilledAt(d - 1, c.subs[1])
                                /\ Reads(p, ok, evaluate[d - 1][c.subs[1]])
      <4>1. Tells(p, d - 1, c.subs[1])
        BY <1>6, <2>1, <2>5, <3>1
      <4> QED
        BY <4>1, TellsReads
    <3>3. PICK V : V = evaluate[d - 1][c.subs[1]]
      OBVIOUS
    <3>4. ReadsExpr(p, ok, V) /\ p \in Seq(Token)
      BY <3>2, <3>3, OperandReadsAlone DEF Reads
    <3>5. Reads(<<"!">> \o Paren(p), ok, Requests \ V)
      BY <3>4, NegationReads
    <3>6. t = <<"!">> \o Paren(p)
      BY <2>3, <2>5, <3>1
    <3>7. ok <=> FilledAt(d, c)
      <4>1. FilledAt(d, c) <=> /\ c.kind # "unlexed"
                               /\ c.kind \in {"and", "or"} => c.subs # << >>
                               /\ \A k \in DOMAIN c.subs : FilledAt(d - 1, c.subs[k])
        BY NodesAt
      <4> QED
        BY <1>10, <2>1, <3>2, <4>1
    <3>8. evaluate[d][c] = Requests \ V
      <4>1. evaluate[d][c] = Requests \ Values(d, c)[1]
        BY <1>10, EvaluateAt
      <4>2. Values(d, c)[1] = V
        BY <2>1, <3>3 DEF Values
      <4> QED
        BY <4>1, <4>2
    <3>9. Tells(t, d, c)
      BY <3>5, <3>6, <3>7, <3>8, TellsIs
    <3>10. t # Err
      BY <3>5, <3>6, NotErr DEF Reads
    <3> QED
      BY <2>2, <2>5, <3>9, <3>10 DEF TextOk, t
  <2> QED
    BY <2>4, <2>5
<1>11. CASE new = Err /\ c.fmt # "new" /\ c.kind = "bad"
  <2>1. t = Err
    BY <1>1, <1>11, BadText DEF legacy_text
  <2> QED
    BY <1>11, <2>1, BadText DEF TextOk, t
<1> QED
  BY <1>1, <1>3, <1>4, <1>8, <1>9, <1>10, <1>11

\* The conversion of a condition, at every level.
LEMMA Text ==
    ASSUME NEW d \in 0 .. MaxDepth, NEW c \in Cond[d] PROVE TextOk(d, c)
<1> DEFINE T == {n \in Nat : n <= MaxDepth => \A x \in Cond[n] : TextOk(n, x)}
<1>0. MaxDepth \in Nat
  BY YamlAssumption
<1>1. 0 \in T
  BY CondIs
<1>2. ASSUME NEW n \in Nat, n \in T PROVE n + 1 \in T
  <2> SUFFICES ASSUME n + 1 <= MaxDepth, NEW x \in Cond[n + 1] PROVE TextOk(n + 1, x)
    OBVIOUS
  <2>1. PICK e \in 1 .. MaxDepth : e = n + 1
    BY <1>0
  <2>2. e - 1 = n /\ \A y \in Cond[n] : TextOk(n, y)
    BY <1>0, <1>2, <2>1
  <2>3. TextOk(e, x)
    BY <2>1, <2>2, TextStep
  <2> QED
    BY <2>1, <2>3
<1>3. \A n \in Nat : n \in T
  <2> HIDE DEF T
  <2> QED
    BY <1>1, <1>2, SetInduction
<1> QED
  BY <1>0, <1>3

-----------------------------------------------------------------------------
(***************************************************************************)
(* Rules: the condition with its scope, read by the parser.                *)
(***************************************************************************)
RuleOk(r) == r.cond \in Cond[MaxDepth] /\ Len(when_to_grl(r)) <= MaxTokens

\* What the text of a rule says: its condition, and the scope the converter
\* writes a guard for.
Scoped(r) == {env \in Requests : r.scope \in Atoms \ Ignored => r.scope \in env}
Judged(r) == Scoped(r) \intersect evaluate[MaxDepth][r.cond]

\* The scope is a guard of its own.
LEMMA ScopeReads ==
    ASSUME NEW r, scope_to_grl(r.scope) # << >>
    PROVE  Reads(scope_to_grl(r.scope), TRUE, Scoped(r))
<1>1. CASE r.scope \in Atoms \ Ignored
  <2>1. r.scope # "route_all"
    BY <1>1, YamlAssumption
  <2>2. scope_to_grl(r.scope) = <<r.scope>>
    BY <1>1, <2>1 DEF scope_to_grl
  <2>3. Scoped(r) = {env \in Requests : r.scope \in env}
    BY <1>1 DEF Scoped
  <2> QED
    BY <1>1, <2>2, <2>3, AtomReads
<1>2. CASE r.scope \notin Atoms \ Ignored
  <2>1. scope_to_grl(r.scope) = <<"true">>
    BY <1>2 DEF scope_to_grl
  <2>2. Scoped(r) = {env \in Requests : "true" = "true"}
    BY <1>2 DEF Scoped
  <2>3. Reads(<<"true">>, TRUE, {env \in Requests : "true" = "true"})
    BY ConstReads
  <2> QED
    BY <2>1, <2>2, <2>3
<1> QED
  BY <1>1, <1>2

\* Two operands in parentheses, joined by "&&".
LEMMA BothRead ==
    ASSUME NEW s, NEW V, NEW yes \in BOOLEAN, Reads(s, yes, V),
           NEW t, NEW ok \in BOOLEAN, NEW W, Reads(t, ok, W),
           NEW both \in BOOLEAN, both <=> yes /\ ok
    PROVE  ReadsExpr(Paren(s) \o (<<"&&">> \o Paren(t)), both, V \intersect W)
<1>2. PICK p, q : p = Paren(s) /\ q = Paren(t)
  OBVIOUS
<1>3. Reads(p, yes, V) /\ Reads(q, ok, W)
  <2>2. ReadsExpr(s, yes, V) /\ ReadsExpr(t, ok, W)
    BY OperandReadsAlone
  <2> QED
    BY <1>2, <2>2, ParenReads
<1>4. /\ p \in Seq(Token) /\ q \in Seq(Token) /\ Len(p) \in Nat /\ Len(q) \in Nat
      /\ V \subseteq Requests /\ W \subseteq Requests
      /\ OperandReads(NotParsers, Seq(Token), Len(p), p, yes, V)
      /\ OperandReads(NotParsers, Seq(Token), Len(q), q, ok, W)
  BY <1>3 DEF Reads
<1>5. PICK all : all = p \o (<<"&&">> \o q)
  OBVIOUS
<1>6. all \in Seq(Token) /\ Len(all) \in Nat /\ Len(p) <= Len(all) /\ Len(q) <= Len(all)
  <2>1. "&&" \in Token
    BY Tokens
  <2>2. PICK c : c = <<"&&">> \o q
    OBVIOUS
  <2>3. c \in Seq(Token) /\ Len(c) = Len(q) + 1
    BY <1>4, <2>1, <2>2, Cons
  <2>4. p \o c \in Seq(Token) /\ Len(p \o c) = Len(p) + Len(c)
    BY <1>4, <2>3, ConcatProperties
  <2> QED
    BY <1>4, <1>5, <2>2, <2>3, <2>4
<1>7. PICK h \in Nat : h = Len(all)
  BY <1>6
<1>8. /\ OperandReads(NotParsers, Seq(Token), h, p, yes, V)
      /\ OperandReads(NotParsers, Seq(Token), h, q, ok, W)
  BY <1>4, <1>6, <1>7, OperandLater
<1>9. Yields(NotParsers, "&&", Seq(Token), h, p, 0, yes, V)
  BY <1>8, YieldsOne
<1>10. PICK Z : Z = Both("&&", V, W)
  OBVIOUS
<1>11. Z = V \intersect W
  BY <1>10 DEF Both
<1>12. PICK op \in {"&&", "||"}, k \in Nat, j \in Nat : op = "&&" /\ k = 0 /\ j = 1
  OBVIOUS
<1>13. Yields(NotParsers, "&&", Seq(Token), h, all, 1, both, Z)
  <2>1. PICK operands, Good : operands = NotParsers /\ Good = Seq(Token)
    OBVIOUS
  <2>2. Stops(Good, op) /\ Yields(operands, op, Good, h, p, k, yes, V)
    BY <1>9, <1>12, <2>1, Continuations
  <2>3. PICK fine \in BOOLEAN : fine = ok
    OBVIOUS
  <2>4. PICK each \in BOOLEAN : each = both
    OBVIOUS
  <2>5. each <=> yes /\ fine
    BY <2>3, <2>4
  <2>6. all = p \o (<<op>> \o q) /\ Z = Both(op, V, W)
    BY <1>5, <1>10, <1>12
  <2>7. p \in Seq(Token) /\ q \in Seq(Token) /\ OperandReads(operands, Good, h, q, fine, W)
    BY <1>4, <1>8, <2>1, <2>3
  <2>8. j = k + 1
    BY <1>12
  <2>9. Yields(operands, op, Good, h, all, j, each, Z)
    BY <2>2, <2>5, <2>6, <2>7, <2>8, YieldsMore, ZenonT(60)
  <2> QED
    BY <1>12, <2>1, <2>4, <2>9
<1>14. 1 <= CountOf("&&", all)
  <2>1. "&&" \in Token
    BY Tokens
  <2>2. CountOf("&&", p) \in Nat /\ CountOf("&&", p \o (<<"&&">> \o q)) >= CountOf("&&", p) + 1
    BY <1>4, <2>1, CountGrows
  <2>3. CountOf("&&", all) \in Nat
    BY <1>6, CountType
  <2> QED
    BY <1>5, <2>2, <2>3
<1>15. ChainGives(NotParsers, "&&", Seq(Token), Len(all), all, both, Z)
  BY <1>6, <1>7, <1>13, <1>14, YieldsEnds
<1>16. Z \subseteq Requests
  BY <1>4, <1>11
<1>17. ReadsExpr(all, both, Z)
  BY <1>6, <1>15, <1>16, ConjunctionReads
<1> QED
  BY <1>2, <1>5, <1>11, <1>17

\* The text of a rule: there is one unless a part is missing or its condition
\* mixes notations, and the parser can read it unless a list is empty or a
\* literal does not lex.
LEMMA WhenReads ==
    ASSUME NEW r, r.cond \in Cond[MaxDepth]
    PROVE  /\ when_to_grl(r) # Err <=> Converts(r)
           /\ when_to_grl(r) # Err =>
                \E ok \in BOOLEAN : (ok <=> Filled(r.cond)) /\ ReadsExpr(when_to_grl(r), ok, Judged(r))
<1> DEFINE t == cond_to_grl[MaxDepth][r.cond]
           s == scope_to_grl(r.scope)
           w == when_to_grl(r)
<1>1. MaxDepth \in 0 .. MaxDepth
  BY YamlAssumption
<1>2. /\ t # Err => Tells(t, MaxDepth, r.cond)
      /\ t # Err <=> PureAt(MaxDepth, r.cond)
  BY <1>1, Text DEF TextOk
<1>3. /\ Converts(r) <=> r.complete /\ PureAt(MaxDepth, r.cond)
      /\ Filled(r.cond) <=> FilledAt(MaxDepth, r.cond)
  BY DEF Converts, Pure, PureAt, Filled, FilledAt
<1>4. w = IF ~r.complete \/ t = Err THEN Err ELSE IF s = << >> THEN t ELSE Paren(s) \o (<<"&&">> \o Paren(t))
  BY DEF when_to_grl
<1> HIDE DEF t, s, w
<1>5. CASE ~r.complete \/ t = Err
  BY <1>2, <1>3, <1>4, <1>5 DEF w
<1>6. CASE r.complete /\ t # Err
  <2>1. PICK ok \in BOOLEAN : /\ ok <=> FilledAt(MaxDepth, r.cond)
                              /\ Reads(t, ok, evaluate[MaxDepth][r.cond])
    BY <1>2, <1>6, TellsReads
  <2>2. PICK V : V = evaluate[MaxDepth][r.cond]
    OBVIOUS
  <2>3. V \subseteq Requests
    BY <2>1, <2>2 DEF Reads
  <2>4. CASE s = << >>
    <3>1. r.scope \notin Atoms \ Ignored
      <4>1. ASSUME r.scope \in Atoms \ Ignored PROVE FALSE
        <5>1. r.scope # "route_all"
          BY <4>1, YamlAssumption
        <5>2. s = <<r.scope>>
          BY <4>1, <5>1 DEF s, scope_to_grl
        <5> QED
          BY <2>4, <5>2
      <4> QED
        BY <4>1
    <3>2. Judged(r) = V
      BY <2>2, <2>3, <3>1 DEF Judged, Scoped
    <3>3. ReadsExpr(t, ok, V)
      BY <2>1, <2>2, OperandReadsAlone
    <3> QED
      BY <1>2, <1>3, <1>4, <1>6, <2>1, <2>4, <3>2, <3>3 DEF w
  <2>5. CASE s # << >>
    <3>1. PICK U : U = Scoped(r)
      OBVIOUS
    <3>2. PICK yes \in BOOLEAN : yes = TRUE /\ Reads(s, yes, U)
      <4>1. Reads(s, TRUE, U)
        BY <2>5, <3>1, ScopeReads DEF s
      <4> QED
        BY <4>1
    <3>3. Judged(r) = U \intersect V
      BY <2>2, <3>1 DEF Judged
    <3>4. ReadsExpr(w, ok, U \intersect V)
      <4>1. Reads(t, ok, V)
        BY <2>1, <2>2
      <4>2. w = Paren(s) \o (<<"&&">> \o Paren(t))
        BY <1>4, <1>6, <2>5
      <4>3. PICK both \in BOOLEAN : both = ok
        OBVIOUS
      <4>4. both <=> yes /\ ok
        BY <3>2, <4>3
      <4>5. Reads(s, yes, U)
        BY <3>2
      <4>6. ReadsExpr(Paren(s) \o (<<"&&">> \o Paren(t)), both, U \intersect V)
        BY <4>1, <4>4, <4>5, BothRead
      <4> QED
        BY <4>2, <4>3, <4>6
    <3>5. w # Err
      BY <3>4, NotErr DEF ReadsExpr
    <3> QED
      BY <1>2, <1>3, <1>6, <2>1, <3>3, <3>4, <3>5 DEF w
  <2> QED
    BY <2>4, <2>5
<1> QED
  BY <1>5, <1>6

\* The parser's answer to the text of a rule.
LEMMA ParsesWhen ==
    ASSUME NEW r, RuleOk(r), when_to_grl(r) # Err
    PROVE  LET e == parse_when(when_to_grl(r))
           IN  /\ e.ok /\ e.rest = << >> <=> Filled(r.cond)
               /\ Filled(r.cond) => MeansAt(MaxTokens, e.tree, Judged(r))
<1>1. PICK t : t = when_to_grl(r)
  OBVIOUS
<1>2. PICK ok \in BOOLEAN : (ok <=> Filled(r.cond)) /\ ReadsExpr(t, ok, Judged(r))
  BY <1>1, WhenReads DEF RuleOk
<1>3. PICK V : V = Judged(r)
  OBVIOUS
<1>4. t \in Seq(Token) /\ Len(t) \in Nat /\ MaxTokens \in Len(t) .. MaxTokens
  BY <1>1, <1>2, YamlAssumption DEF RuleOk, ReadsExpr
<1>5. << >> \in Closing /\ t \o << >> = t
  BY <1>4, ConcatEmptySeq DEF Closing
<1>6. PICK e : e = parse_when(t)
  OBVIOUS
<1>7. e = parse_or(parse_expr[MaxTokens])[t \o << >>]
  BY <1>5, <1>6 DEF parse_when
<1>8. CASE ok
  <2>1. PICK tree : /\ Means(tree, V, Len(t))
                    /\ \A n \in Len(t) .. MaxTokens, S \in Closing :
                          parse_or(parse_expr[n])[t \o S] = Parsed(tree, S)
    BY <1>2, <1>3, <1>8 DEF ReadsExpr
  <2>2. e = Parsed(tree, << >>)
    BY <1>4, <1>5, <1>7, <2>1
  <2>3. e.ok /\ e.rest = << >> /\ e.tree = tree
    BY <2>2 DEF Parsed
  <2>4. MeansAt(MaxTokens, tree, V)
    BY <1>4, <2>1 DEF Means
  <2> QED
    BY <1>1, <1>2, <1>3, <1>6, <1>8, <2>3, <2>4
<1>9. CASE ~ok
  <2>1. e.ok => Starts(e.rest, "&&") \/ Starts(e.rest, "||")
    BY <1>2, <1>4, <1>5, <1>7, <1>9 DEF ReadsExpr
  <2>2. ~(e.ok /\ e.rest = << >>)
    BY <2>1 DEF Starts
  <2> QED
    BY <1>1, <1>2, <1>6, <1>9, <2>2
<1> QED
  BY <1>8, <1>9

-----------------------------------------------------------------------------
(***************************************************************************)
(* Saliences.                                                              *)
(***************************************************************************)
LEMMA Half ==
    I32 \div 2 \in Nat /\ I32 \in Nat \ {0} /\ Base + (I32 \div 2) < I32
BY YamlAssumption

\* The remainder of a number that is smaller than the divisor.
LEMMA ModSmall ==
    ASSUME NEW m \in Nat \ {0}, NEW x \in Nat, x < m PROVE x % m = x
OBVIOUS

\* A remainder is an integer.
LEMMA ModType ==
    ASSUME NEW m \in Nat \ {0}, NEW x \in Int PROVE x % m \in Int
OBVIOUS

\* In an i32 nothing wraps.
LEMMA WrapIs ==
    ASSUME NEW n \in Int, n <= Base, 0 <= n + (I32 \div 2)
    PROVE  wrap32(n) = n
<1>1. PICK h \in Nat : h = I32 \div 2
  BY Half
<1>2. n + h \in Nat /\ n + h < I32 /\ I32 \in Nat \ {0}
  BY <1>1, Half, YamlAssumption
<1>3. (n + h) % I32 = n + h
  BY <1>2, ModSmall
<1>4. wrap32(n) = ((n + h) % I32) - h
  BY <1>1 DEF wrap32
<1> QED
  BY <1>3, <1>4

\* A salience is an integer.
LEMMA SalienceType ==
    ASSUME NEW r, r.priority \in Nat PROVE salience(r) \in Int
<1>1. PICK h \in Nat : h = I32 \div 2
  BY Half
<1>2. Base - r.priority \in Int
  BY YamlAssumption
<1>3. wrap32(Base - r.priority) \in Int
  <2>1. ((Base - r.priority) + h) % I32 \in Int
    BY <1>2, Half, ModType
  <2> QED
    BY <1>1, <2>1 DEF wrap32
<1>4. clamp(Base - r.priority, 1, Cap) \in Int
  BY <1>2, YamlAssumption DEF clamp
<1> QED
  BY <1>3, <1>4 DEF salience

\* A rule that has to run before another has the higher salience.
LEMMA PrecedesIsHigher ==
    ASSUME NEW q, NEW r, q.priority \in Nat, r.priority \in Nat, Precedes(q, r)
    PROVE  salience(q) > salience(r)
<1>0. PICK h \in Nat : h = I32 \div 2
  BY Half
<1>1. ASSUME NEW p, p.priority \in Nat, ~p.upstream, p.priority <= Base + h
      PROVE  salience(p) = Base - p.priority
  <2>1. /\ Base - p.priority \in Int /\ Base - p.priority <= Base
        /\ 0 <= (Base - p.priority) + (I32 \div 2)
    BY <1>0, <1>1, YamlAssumption
  <2>2. wrap32(Base - p.priority) = Base - p.priority
    BY <2>1, WrapIs
  <2> QED
    BY <1>1, <2>2 DEF salience
<1>2. CASE ~q.upstream /\ ~r.upstream /\ q.priority < r.priority /\ r.priority <= Base + h
  <2>1. q.priority <= Base + h
    BY <1>2, YamlAssumption
  <2>2. salience(q) = Base - q.priority /\ salience(r) = Base - r.priority
    BY <1>1, <1>2, <2>1
  <2> QED
    BY <1>2, <2>2, YamlAssumption
<1>3. CASE ~q.upstream /\ r.upstream /\ q.priority < Base - Cap
  <2>1. q.priority <= Base + h /\ Base - q.priority > Cap
    BY <1>3, YamlAssumption
  <2>2. salience(q) = Base - q.priority
    BY <1>1, <1>3, <2>1
  <2>3. salience(r) = clamp(Base - r.priority, 1, Cap)
    BY <1>3 DEF salience
  <2>4. clamp(Base - r.priority, 1, Cap) \in Int /\ clamp(Base - r.priority, 1, Cap) <= Cap
    BY YamlAssumption DEF clamp
  <2> QED
    BY <2>1, <2>2, <2>3, <2>4, YamlAssumption
<1> QED
  BY <1>0, <1>2, <1>3 DEF Precedes

-----------------------------------------------------------------------------
(***************************************************************************)
(* The state machine.  from[k] is the rule of the document that text k is. *)
(***************************************************************************)
Texts == [id : STRING, salience : Int, when : Seq(Token), lexes : BOOLEAN]
Terminals == [name : STRING, salience : Int, guard : Guard[MaxTokens]]

Good(d) == {i \in DOMAIN d : Converts(d[i])}
AllGrl(d) == \A i \in Good(d) : IsGrl(d[i])

\* The texts are those of the rules that can be converted among the first hi,
\* in the order of the document.
Converted(d, texts, from, hi) ==
    /\ from \in [1 .. Len(texts) -> 1 .. hi]
    /\ \A k, l \in 1 .. Len(texts) : k < l => from[k] < from[l]
    /\ \A i \in 1 .. hi : Converts(d[i]) <=> \E k \in 1 .. Len(texts) : from[k] = i
    /\ \A k \in 1 .. Len(texts) : texts[k] = rule_to_grl(d[from[k]])

IsTerminal(t, r, net) ==
    /\ t.name = r.id /\ t.salience = salience(r)
    /\ Holds(MaxTokens, net, t.guard, Judged(r))

\* The terminals are the rules that can be converted, the highest salience
\* first.
Network(d, ts, net, of) ==
    /\ of \in [DOMAIN ts -> DOMAIN d] /\ IsInjective(of) /\ Range(of) = Good(d)
    /\ \A k \in DOMAIN ts : IsTerminal(ts[k], d[of[k]], net)
    /\ \A k, l \in DOMAIN ts : k < l => ts[k].salience >= ts[l].salience

YInv ==
    /\ doc \in Docs
    /\ stage \in {"yaml", "grl", "ast", "compiled", "skipped"}
    /\ at \in Nat /\ src \in Seq(Texts) /\ alphas \in Seq(Atoms) /\ terminals \in Seq(Terminals)
    /\ stage \in {"yaml", "grl"} => terminals = << >>
    /\ stage = "yaml" => at <= Len(doc) /\ \E from : Converted(doc, src, from, at)
    /\ stage = "grl" => \E from : Converted(doc, src, from, Len(doc))
    /\ stage = "ast" =>
          /\ AllGrl(doc) /\ asts = parse(src) /\ at = Len(terminals) /\ at <= Len(src)
          /\ \E from : /\ Converted(doc, src, from, Len(doc))
                       /\ \A k \in 1 .. at : IsTerminal(terminals[k], doc[from[k]], alphas)
    /\ stage = "compiled" => AllGrl(doc) /\ \E of : Network(doc, terminals, alphas, of)
    /\ stage = "skipped" => ~AllGrl(doc)

\* What the assumption says of the rules of a document.
LEMMA DocIs ==
    ASSUME NEW d \in Docs
    PROVE  /\ Len(d) \in Nat /\ DOMAIN d = 1 .. Len(d)
           /\ \A i \in 1 .. Len(d) : /\ RuleOk(d[i]) /\ d[i].id \in STRING
                                     /\ d[i].priority \in Nat /\ d[i].upstream \in BOOLEAN
                                     /\ d[i].lexes \in BOOLEAN
<1> DEFINE R == [id : STRING, cond : Cond[MaxDepth],
                 scope : Atoms \union {"global", "route_all"}, priority : Nat,
                 upstream : BOOLEAN, complete : BOOLEAN, lexes : BOOLEAN]
<1>1. d \in Seq(R)
  BY YamlAssumption
<1>2. Len(d) \in Nat /\ DOMAIN d = 1 .. Len(d) /\ \A i \in 1 .. Len(d) : d[i] \in R
  <2> HIDE DEF R
  <2> QED
    BY <1>1
<1>3. \A i \in DOMAIN d : d[i].cond \in Cond[MaxDepth] /\ Len(when_to_grl(d[i])) <= MaxTokens
  BY YamlAssumption
<1> QED
  BY <1>2, <1>3 DEF RuleOk

\* A converted rule is a text.
LEMMA TextType ==
    ASSUME NEW r, RuleOk(r), r.id \in STRING, r.priority \in Nat, r.lexes \in BOOLEAN,
           when_to_grl(r) # Err
    PROVE  rule_to_grl(r) \in Texts
<1>1. salience(r) \in Int
  BY SalienceType
<1>2. when_to_grl(r) \in Seq(Token)
  <2>1. PICK ok : ReadsExpr(when_to_grl(r), ok, Judged(r))
    BY WhenReads DEF RuleOk
  <2> QED
    BY <2>1 DEF ReadsExpr
<1> QED
  BY <1>1, <1>2 DEF rule_to_grl, Texts

\* Which rules are converted.
LEMMA ConvertsIs ==
    ASSUME NEW r, RuleOk(r)
    PROVE  when_to_grl(r) # Err <=> Converts(r)
BY WhenReads DEF RuleOk

\* One rule more is converted, or left out.
LEMMA ConvertMore ==
    ASSUME NEW d \in Docs, NEW texts \in Seq(Texts), NEW from, NEW hi \in Nat, hi < Len(d),
           Converted(d, texts, from, hi), NEW i \in 1 .. Len(d), i = hi + 1,
           when_to_grl(d[i]) # Err
    PROVE  /\ Append(texts, rule_to_grl(d[i])) \in Seq(Texts)
           /\ \E of : Converted(d, Append(texts, rule_to_grl(d[i])), of, i)
<1> DEFINE m == Len(texts)
           x == rule_to_grl(d[i])
           more == Append(texts, x)
           of == [k \in 1 .. (m + 1) |-> IF k = m + 1 THEN i ELSE from[k]]
<1>1. RuleOk(d[i]) /\ x \in Texts /\ Converts(d[i]) /\ m \in Nat
  <2>1. RuleOk(d[i]) /\ d[i].id \in STRING /\ d[i].priority \in Nat /\ d[i].lexes \in BOOLEAN
    BY DocIs
  <2>2. Converts(d[i])
    BY <2>1, ConvertsIs
  <2> QED
    BY <2>1, <2>2, TextType
<1> HIDE DEF x
<1>2. /\ more \in Seq(Texts) /\ Len(more) = m + 1 /\ more[m + 1] = x
      /\ \A k \in 1 .. m : more[k] = texts[k]
  BY <1>1
<1>3. /\ from \in [1 .. m -> 1 .. hi]
      /\ \A k, l \in 1 .. m : k < l => from[k] < from[l]
      /\ \A j \in 1 .. hi : Converts(d[j]) <=> \E k \in 1 .. m : from[k] = j
      /\ \A k \in 1 .. m : texts[k] = rule_to_grl(d[from[k]])
  BY DEF Converted
<1>4. /\ of[m + 1] = i /\ \A k \in 1 .. m : of[k] = from[k] /\ from[k] \in 1 .. hi
      /\ \A k \in 1 .. (m + 1) : k = m + 1 \/ k \in 1 .. m
      /\ \A k \in 1 .. m : k \in 1 .. (m + 1)
      /\ m + 1 \in 1 .. (m + 1)
      /\ DOMAIN of = 1 .. (m + 1)
  BY <1>1, <1>3
<1>5. of \in [1 .. (m + 1) -> 1 .. i]
  BY <1>1, <1>3
<1> HIDE DEF of, more, m
<1>6. ASSUME NEW k \in 1 .. (m + 1), NEW l \in 1 .. (m + 1), k < l PROVE of[k] < of[l]
  <2>1. k \in 1 .. m
    BY <1>1, <1>6
  <2>2. CASE l = m + 1
    BY <1>4, <2>1, <2>2
  <2>3. CASE l \in 1 .. m
    BY <1>3, <1>4, <1>6, <2>1, <2>3
  <2> QED
    BY <1>4, <2>2, <2>3
<1>7. ASSUME NEW j \in 1 .. i
      PROVE  Converts(d[j]) <=> \E k \in 1 .. (m + 1) : of[k] = j
  <2>1. CASE j = i
    BY <1>1, <1>4, <2>1
  <2>2. CASE j # i
    <3>1. j \in 1 .. hi
      BY <2>2
    <3>2. Converts(d[j]) <=> \E k \in 1 .. m : from[k] = j
      BY <1>3, <3>1
    <3>3. (\E k \in 1 .. m : from[k] = j) <=> \E k \in 1 .. (m + 1) : of[k] = j
      BY <1>4, <2>2
    <3> QED
      BY <3>2, <3>3
  <2> QED
    BY <2>1, <2>2
<1>8. ASSUME NEW k \in 1 .. (m + 1) PROVE more[k] = rule_to_grl(d[of[k]])
  <2>1. CASE k = m + 1
    BY <1>2, <1>4, <2>1 DEF x
  <2>2. CASE k \in 1 .. m
    BY <1>2, <1>3, <1>4, <2>2
  <2> QED
    BY <1>4, <2>1, <2>2
<1>9. Converted(d, more, of, i)
  BY <1>2, <1>5, <1>6, <1>7, <1>8 DEF Converted
<1> QED
  BY <1>2, <1>9 DEF more, x

\* A rule that cannot be converted adds nothing.
LEMMA ConvertLess ==
    ASSUME NEW d \in Docs, NEW texts \in Seq(Texts), NEW from, NEW hi \in Nat, hi < Len(d),
           Converted(d, texts, from, hi), NEW i \in 1 .. Len(d), i = hi + 1,
           when_to_grl(d[i]) = Err
    PROVE  Converted(d, texts, from, i)
<1>1. RuleOk(d[i]) /\ ~Converts(d[i])
  BY DocIs, ConvertsIs
<1>2. /\ from \in [1 .. Len(texts) -> 1 .. hi]
      /\ \A k, l \in 1 .. Len(texts) : k < l => from[k] < from[l]
      /\ \A j \in 1 .. hi : Converts(d[j]) <=> \E k \in 1 .. Len(texts) : from[k] = j
      /\ \A k \in 1 .. Len(texts) : texts[k] = rule_to_grl(d[from[k]])
  BY DEF Converted
<1>3. from \in [1 .. Len(texts) -> 1 .. i]
  BY <1>2
<1>4. ASSUME NEW j \in 1 .. i
      PROVE  Converts(d[j]) <=> \E k \in 1 .. Len(texts) : from[k] = j
  <2>1. CASE j = i
    <3>1. \A k \in 1 .. Len(texts) : from[k] \in 1 .. hi
      BY <1>2
    <3>2. \A k \in 1 .. Len(texts) : from[k] # j
      BY <2>1, <3>1
    <3> QED
      BY <1>1, <2>1, <3>2
  <2>2. CASE j # i
    <3>1. j \in 1 .. hi
      BY <2>2
    <3> QED
      BY <1>2, <3>1
  <2> QED
    BY <2>1, <2>2
<1> QED
  BY <1>2, <1>3, <1>4 DEF Converted

\* The parser takes the file if every text is GRL, and each tree means what the
\* rule means.
LEMMA ParsesAll ==
    ASSUME NEW d \in Docs, NEW texts \in Seq(Texts), NEW from, Converted(d, texts, from, Len(d))
    PROVE  /\ parse_ok(texts) <=> AllGrl(d)
           /\ \A k \in 1 .. Len(texts) :
                 /\ from[k] \in 1 .. Len(d) /\ from[k] \in Good(d)
                 /\ texts[k].id = d[from[k]].id /\ texts[k].salience = salience(d[from[k]])
                 /\ IsGrl(d[from[k]]) =>
                       MeansAt(MaxTokens, parse_when(texts[k].when).tree, Judged(d[from[k]]))
<1>1. /\ from \in [1 .. Len(texts) -> 1 .. Len(d)]
      /\ \A j \in 1 .. Len(d) : Converts(d[j]) <=> \E k \in 1 .. Len(texts) : from[k] = j
      /\ \A k \in 1 .. Len(texts) : texts[k] = rule_to_grl(d[from[k]])
  BY DEF Converted
<1>2. DOMAIN texts = 1 .. Len(texts) /\ DOMAIN d = 1 .. Len(d)
  BY DocIs
<1>3. ASSUME NEW k \in 1 .. Len(texts)
      PROVE  /\ from[k] \in 1 .. Len(d) /\ from[k] \in Good(d)
             /\ texts[k].id = d[from[k]].id /\ texts[k].salience = salience(d[from[k]])
             /\ LET e == parse_when(texts[k].when)
                IN  /\ texts[k].lexes /\ e.ok /\ e.rest = << >> <=> IsGrl(d[from[k]])
                    /\ IsGrl(d[from[k]]) => MeansAt(MaxTokens, e.tree, Judged(d[from[k]]))
  <2>1. PICK r : r = d[from[k]]
    OBVIOUS
  <2>2. from[k] \in 1 .. Len(d)
    BY <1>1
  <2>3. RuleOk(r) /\ Converts(r)
    BY <1>1, <2>1, <2>2, DocIs
  <2>4. texts[k] = rule_to_grl(r)
    BY <1>1, <2>1
  <2>5. /\ texts[k].id = r.id /\ texts[k].salience = salience(r) /\ texts[k].when = when_to_grl(r)
        /\ texts[k].lexes = r.lexes
    BY <2>4 DEF rule_to_grl
  <2>6. when_to_grl(r) # Err
    BY <2>3, ConvertsIs
  <2>7. LET e == parse_when(when_to_grl(r))
        IN  /\ e.ok /\ e.rest = << >> <=> Filled(r.cond)
            /\ Filled(r.cond) => MeansAt(MaxTokens, e.tree, Judged(r))
    BY <2>3, <2>6, ParsesWhen
  <2>8. from[k] \in Good(d)
    BY <1>2, <2>1, <2>2, <2>3 DEF Good
  <2> QED
    BY <2>1, <2>2, <2>5, <2>7, <2>8 DEF IsGrl
<1>4. parse_ok(texts) <=> \A k \in 1 .. Len(texts) : IsGrl(d[from[k]])
  BY <1>2, <1>3 DEF parse_ok
<1>5. AllGrl(d) <=> \A k \in 1 .. Len(texts) : IsGrl(d[from[k]])
  BY <1>1, <1>2, <1>3 DEF AllGrl, Good
<1> QED
  BY <1>3, <1>4, <1>5

\* Guards keep their meaning when alphas are interned for a later rule.
LEMMA TerminalStays ==
    ASSUME NEW t, NEW r, NEW net \in Seq(Atoms), NEW more, Extends(more, net), IsTerminal(t, r, net)
    PROVE  IsTerminal(t, r, more)
<1>1. ASSUME NEW x, Extends(x, more) PROVE Extends(x, net)
  BY <1>1, ExtendsTrans
<1> QED
  BY <1>1 DEF IsTerminal, Holds

\* An order of a finite list that takes no member twice takes them all.
LEMMA OrderIsOnto ==
    ASSUME NEW n \in Nat, NEW order \in [1 .. n -> 1 .. n], IsInjective(order)
    PROVE  \A j \in 1 .. n : \E k \in 1 .. n : order[k] = j
<1>1. IsFiniteSet(1 .. n)
  BY FS_Interval
<1>2. order \in Injection(1 .. n, 1 .. n)
  BY DEF Injection
<1>3. order \in Surjection(1 .. n, 1 .. n)
  BY <1>1, <1>2, FS_Injection
<1> QED
  BY <1>3 DEF Surjection

\* The sort keeps every terminal and puts them in descending order.
LEMMA SortsAll ==
    ASSUME NEW d \in Docs, NEW texts \in Seq(Texts), NEW from, Converted(d, texts, from, Len(d)),
           NEW ts \in Seq(Terminals), Len(ts) = Len(texts), NEW net,
           \A k \in 1 .. Len(texts) : IsTerminal(ts[k], d[from[k]], net),
           NEW order \in [DOMAIN ts -> DOMAIN ts], IsInjective(order), sorted_by_salience(ts, order)
    PROVE  LET sorted == [k \in DOMAIN ts |-> ts[order[k]]]
           IN  /\ sorted \in Seq(Terminals)
               /\ \E of : Network(d, sorted, net, of)
<1> DEFINE n == Len(texts)
           sorted == [k \in DOMAIN ts |-> ts[order[k]]]
           of == [k \in DOMAIN ts |-> from[order[k]]]
<1>1. n \in Nat /\ DOMAIN ts = 1 .. n /\ order \in [1 .. n -> 1 .. n] /\ DOMAIN d = 1 .. Len(d)
  BY DocIs
<1>2. \A k \in 1 .. n : ts[k] \in Terminals
  BY <1>1
<1>3. sorted \in [1 .. n -> Terminals] /\ DOMAIN sorted = 1 .. n
  BY <1>1, <1>2
<1>4. sorted \in Seq(Terminals)
  <2> HIDE DEF sorted, n
  <2> QED
    BY <1>1, <1>3
<1>5. /\ from \in [1 .. n -> 1 .. Len(d)]
      /\ \A k, l \in 1 .. n : k < l => from[k] < from[l]
      /\ \A j \in 1 .. Len(d) : Converts(d[j]) <=> \E k \in 1 .. n : from[k] = j
  BY DEF Converted
<1>6. \A k \in 1 .. n : /\ order[k] \in 1 .. n /\ of[k] = from[order[k]]
                        /\ from[order[k]] \in 1 .. Len(d) /\ sorted[k] = ts[order[k]]
  BY <1>1, <1>5
<1>7. of \in [DOMAIN sorted -> DOMAIN d] /\ DOMAIN of = 1 .. n
  BY <1>1, <1>3, <1>5
<1>8. \A j \in 1 .. n : \E k \in 1 .. n : order[k] = j
  BY <1>1, OrderIsOnto
<1> HIDE DEF of, sorted, n
<1>9. IsInjective(of)
  <2> SUFFICES ASSUME NEW k \in 1 .. n, NEW l \in 1 .. n, of[k] = of[l] PROVE k = l
    BY <1>7 DEF IsInjective
  <2>1. from[order[k]] = from[order[l]] /\ order[k] \in 1 .. n /\ order[l] \in 1 .. n
    BY <1>6
  <2>2. order[k] = order[l]
    <3>1. PICK a \in 1 .. n, b \in 1 .. n : a = order[k] /\ b = order[l]
      BY <2>1
    <3>2. ~(a < b) /\ ~(b < a)
      <4>1. from[a] = from[b] /\ from[a] \in Int
        BY <1>5, <2>1, <3>1
      <4> QED
        BY <1>5, <4>1
    <3> QED
      BY <3>1, <3>2
  <2> QED
    BY <1>1, <2>2 DEF IsInjective
<1>10. Range(of) = Good(d)
  <2>1. ASSUME NEW j \in Range(of) PROVE j \in Good(d)
    <3>1. PICK k \in 1 .. n : j = of[k]
      BY <1>7, <2>1 DEF Range
    <3>2. order[k] \in 1 .. n /\ j = from[order[k]] /\ j \in 1 .. Len(d)
      BY <1>6, <3>1
    <3>3. Converts(d[j])
      BY <1>5, <3>2
    <3> QED
      BY <1>1, <3>2, <3>3 DEF Good
  <2>2. ASSUME NEW j \in Good(d) PROVE j \in Range(of)
    <3>1. PICK l \in 1 .. n : from[l] = j
      BY <1>1, <1>5, <2>2 DEF Good
    <3>2. PICK k \in 1 .. n : order[k] = l
      BY <1>8
    <3>3. of[k] = j
      BY <1>6, <3>1, <3>2
    <3> QED
      BY <1>7, <3>3 DEF Range
  <2> QED
    BY <2>1, <2>2
<1>11. ASSUME NEW k \in 1 .. n PROVE IsTerminal(sorted[k], d[of[k]], net)
  <2>1. PICK j \in 1 .. n : j = order[k]
    BY <1>6
  <2>2. IsTerminal(ts[j], d[from[j]], net)
    BY DEF n
  <2>3. sorted[k] = ts[j] /\ of[k] = from[j]
    BY <1>6, <2>1
  <2> QED
    BY <2>2, <2>3
<1>12. ASSUME NEW k \in 1 .. n, NEW l \in 1 .. n, k < l
       PROVE  sorted[k].salience >= sorted[l].salience
  <2>1. DOMAIN order = 1 .. n
    BY <1>1
  <2>2. \/ ts[order[k]].salience > ts[order[l]].salience
        \/ ts[order[k]].salience = ts[order[l]].salience
    BY <1>12, <2>1 DEF sorted_by_salience
  <2>3. sorted[k] = ts[order[k]] /\ sorted[l] = ts[order[l]]
    BY <1>6
  <2>4. ts[order[k]] \in Terminals /\ ts[order[l]] \in Terminals
    BY <1>2, <1>6
  <2>5. ts[order[k]].salience \in Int /\ ts[order[l]].salience \in Int
    BY <2>4 DEF Terminals
  <2> QED
    BY <2>2, <2>3, <2>5
<1>13. Network(d, sorted, net, of)
  BY <1>3, <1>7, <1>9, <1>10, <1>11, <1>12 DEF Network
<1> QED
  BY <1>4, <1>13 DEF sorted

\* Before the first rule.
LEMMA InitYInv == Init => YInv
<1> SUFFICES ASSUME Init PROVE YInv
  OBVIOUS
<1>1. /\ doc \in Docs /\ stage = "yaml" /\ at = 0 /\ src = << >> /\ alphas = << >> /\ terminals = << >>
  BY DEF Init
<1>2. Len(doc) \in Nat
  BY <1>1, DocIs
<1>3. Converted(doc, src, [k \in {} |-> k], at)
  <2>1. 1 .. 0 = {} /\ Len(<< >>) = 0
    OBVIOUS
  <2> QED
    BY <1>1, <2>1 DEF Converted
<1>4. \E from : Converted(doc, src, from, at)
  BY <1>3
<1> QED
  BY <1>1, <1>2, <1>4 DEF YInv

\* One rule converted or left out.
LEMMA ConvertYInv == YInv /\ ConvertRule => YInv'
<1> SUFFICES ASSUME YInv, ConvertRule PROVE YInv'
  OBVIOUS
<1>1. PICK from : Converted(doc, src, from, at)
  BY DEF YInv, ConvertRule
<1>2. /\ doc \in Docs /\ at \in Nat /\ src \in Seq(Texts) /\ stage = "yaml" /\ at < Len(doc)
      /\ alphas \in Seq(Atoms) /\ terminals = << >> /\ terminals \in Seq(Terminals)
      /\ doc' = doc /\ stage' = stage /\ at' = at + 1 /\ alphas' = alphas /\ terminals' = terminals
  BY DEF YInv, ConvertRule
<1>3. Len(doc) \in Nat
  BY <1>2, DocIs
<1>4. PICK i \in 1 .. Len(doc) : i = at + 1
  BY <1>2, <1>3
<1>5. src' = IF when_to_grl(doc[i]) = Err THEN src ELSE Append(src, rule_to_grl(doc[i]))
  <2>1. rule_to_grl(doc[at + 1]).when = when_to_grl(doc[at + 1])
    BY DEF rule_to_grl
  <2> QED
    BY <1>4, <2>1 DEF ConvertRule
<1>6. src' \in Seq(Texts) /\ \E of : Converted(doc, src', of, i)
  <2>1. CASE when_to_grl(doc[i]) = Err
    BY <1>1, <1>2, <1>4, <1>5, <2>1, ConvertLess
  <2>2. CASE when_to_grl(doc[i]) # Err
    BY <1>1, <1>2, <1>4, <1>5, <2>2, ConvertMore
  <2> QED
    BY <2>1, <2>2
<1>7. at' \in Nat /\ at' <= Len(doc') /\ \E of : Converted(doc', src', of, at')
  BY <1>2, <1>3, <1>4, <1>6
<1> QED
  BY <1>2, <1>6, <1>7 DEF YInv

\* The file is parsed, or skipped.
LEMMA ParseYInv ==
    /\ YInv /\ Parse => YInv'
    /\ YInv /\ Skip => YInv'
<1> SUFFICES ASSUME YInv, stage = "grl" PROVE (Parse => YInv') /\ (Skip => YInv')
  BY DEF Parse, Skip
<1>1. PICK from : Converted(doc, src, from, Len(doc))
  BY DEF YInv
<1>2. /\ doc \in Docs /\ src \in Seq(Texts) /\ at \in Nat /\ alphas \in Seq(Atoms)
      /\ terminals \in Seq(Terminals) /\ terminals = << >>
  BY DEF YInv
<1>3. parse_ok(src) <=> AllGrl(doc)
  BY <1>1, <1>2, ParsesAll
<1>4. ASSUME Parse PROVE YInv'
  <2>1. /\ parse_ok(src) /\ stage' = "ast" /\ asts' = parse(src) /\ at' = 0
        /\ doc' = doc /\ src' = src /\ alphas' = alphas /\ terminals' = terminals
    BY <1>4 DEF Parse
  <2>2. at' = Len(terminals') /\ at' <= Len(src') /\ at' \in Nat
    BY <1>2, <2>1
  <2>3. /\ Converted(doc', src', from, Len(doc'))
        /\ \A k \in 1 .. at' : IsTerminal(terminals'[k], doc'[from[k]], alphas')
    BY <1>1, <2>1
  <2>4. AllGrl(doc') /\ asts' = parse(src')
    BY <1>3, <2>1
  <2> QED
    BY <1>2, <2>1, <2>2, <2>3, <2>4 DEF YInv
<1>5. ASSUME Skip PROVE YInv'
  <2>1. /\ ~parse_ok(src) /\ stage' = "skipped" /\ at' = at
        /\ doc' = doc /\ src' = src /\ alphas' = alphas /\ terminals' = terminals
    BY <1>5 DEF Skip
  <2>2. ~AllGrl(doc')
    BY <1>3, <2>1
  <2> QED
    BY <1>2, <2>1, <2>2 DEF YInv
<1> QED
  BY <1>4, <1>5

\* One rule compiled: the guards there are keep their meaning.
LEMMA CompileYInv == YInv /\ CompileRule => YInv'
<1> SUFFICES ASSUME YInv, CompileRule PROVE YInv'
  OBVIOUS
<1>1. /\ doc \in Docs /\ src \in Seq(Texts) /\ at \in Nat /\ alphas \in Seq(Atoms)
      /\ terminals \in Seq(Terminals) /\ stage = "ast"
      /\ AllGrl(doc) /\ asts = parse(src) /\ at = Len(terminals) /\ at < Len(asts)
  BY DEF YInv, CompileRule
<1>2. PICK from : /\ Converted(doc, src, from, Len(doc))
                  /\ \A k \in 1 .. at : IsTerminal(terminals[k], doc[from[k]], alphas)
  BY DEF YInv, CompileRule
<1>3. Len(src) \in Nat /\ DOMAIN src = 1 .. Len(src)
  BY <1>1
<1>4. Len(asts) = Len(src)
  BY <1>1, <1>3 DEF parse
<1>5. PICK i \in 1 .. Len(src) : i = at + 1
  BY <1>1, <1>3, <1>4
<1>6. PICK t, r : t = asts[i] /\ r = doc[from[i]]
  OBVIOUS
<1>7. /\ r.id \in STRING /\ r.priority \in Nat
      /\ t.name = r.id /\ t.salience = salience(r) /\ MeansAt(MaxTokens, t.when, Judged(r))
  <2>1. /\ from[i] \in 1 .. Len(doc) /\ from[i] \in Good(doc)
        /\ src[i].id = r.id /\ src[i].salience = salience(r)
        /\ IsGrl(r) => MeansAt(MaxTokens, parse_when(src[i].when).tree, Judged(r))
    BY <1>1, <1>2, <1>6, ParsesAll
  <2>2. IsGrl(r)
    BY <1>1, <1>6, <2>1 DEF AllGrl
  <2>3. t.name = src[i].id /\ t.salience = src[i].salience /\ t.when = parse_when(src[i].when).tree
    BY <1>1, <1>3, <1>6 DEF parse
  <2>4. r.id \in STRING /\ r.priority \in Nat
    BY <1>1, <1>6, <2>1, DocIs
  <2> QED
    BY <2>1, <2>2, <2>3, <2>4
<1>8. PICK x : x = compile_guard[MaxTokens][t.when][alphas]
  OBVIOUS
<1>9. /\ Extends(x.net, alphas) /\ x.guard \in Guard[MaxTokens]
      /\ Holds(MaxTokens, x.net, x.guard, Judged(r))
  BY <1>1, <1>7, <1>8 DEF MeansAt, GuardOk
<1>10. PICK w : w = [name |-> t.name, salience |-> t.salience, guard |-> x.guard]
  OBVIOUS
<1>11. w \in Terminals /\ IsTerminal(w, r, x.net)
  <2>1. salience(r) \in Int
    BY <1>7, SalienceType
  <2>2. w.name = t.name /\ w.salience = t.salience /\ w.guard = x.guard
    BY <1>10
  <2> QED
    BY <1>7, <1>9, <1>10, <2>1, <2>2 DEF Terminals, IsTerminal
<1>12. /\ alphas' = x.net /\ terminals' = Append(terminals, w) /\ at' = i
       /\ doc' = doc /\ stage' = "ast" /\ src' = src /\ asts' = asts
  <2>1. asts[at + 1] = t
    BY <1>5, <1>6
  <2> QED
    BY <1>1, <1>5, <1>8, <1>10, <2>1 DEF CompileRule
<1>13. /\ terminals' \in Seq(Terminals) /\ Len(terminals') = i /\ terminals'[i] = w
       /\ \A k \in 1 .. at : terminals'[k] = terminals[k]
  BY <1>1, <1>5, <1>11, <1>12
<1>14. ASSUME NEW k \in 1 .. i PROVE IsTerminal(terminals'[k], doc[from[k]], alphas')
  <2>1. CASE k = i
    BY <1>6, <1>11, <1>12, <1>13, <2>1
  <2>2. CASE k # i
    <3>1. k \in 1 .. at
      BY <1>1, <1>5, <2>2
    <3>2. PICK u, v, net : u = terminals[k] /\ v = doc[from[k]] /\ net = x.net
      OBVIOUS
    <3>3. IsTerminal(u, v, alphas) /\ Extends(net, alphas)
      BY <1>2, <1>9, <3>1, <3>2
    <3>4. IsTerminal(u, v, net)
      BY <1>1, <3>3, TerminalStays
    <3> QED
      BY <1>12, <1>13, <3>1, <3>2, <3>4
  <2> QED
    BY <2>1, <2>2
<1>15. alphas' \in Seq(Atoms)
  BY <1>9, <1>12 DEF Extends
<1>16. /\ Converted(doc', src', from, Len(doc'))
       /\ \A k \in 1 .. at' : IsTerminal(terminals'[k], doc'[from[k]], alphas')
  BY <1>2, <1>12, <1>14
<1>17. /\ AllGrl(doc') /\ asts' = parse(src') /\ at' = Len(terminals') /\ at' <= Len(src')
       /\ at' \in Nat /\ doc' \in Docs /\ src' \in Seq(Texts)
  BY <1>1, <1>3, <1>5, <1>12, <1>13
<1> QED
  BY <1>12, <1>13, <1>15, <1>16, <1>17 DEF YInv

\* The terminals are sorted.
LEMMA SortYInv == YInv /\ Sort => YInv'
<1> SUFFICES ASSUME YInv, Sort PROVE YInv'
  OBVIOUS
<1>1. /\ doc \in Docs /\ src \in Seq(Texts) /\ at \in Nat /\ alphas \in Seq(Atoms)
      /\ terminals \in Seq(Terminals) /\ stage = "ast"
      /\ AllGrl(doc) /\ asts = parse(src) /\ at = Len(terminals) /\ at = Len(asts)
  BY DEF YInv, Sort
<1>2. PICK from : /\ Converted(doc, src, from, Len(doc))
                  /\ \A k \in 1 .. at : IsTerminal(terminals[k], doc[from[k]], alphas)
  BY DEF YInv, Sort
<1>3. Len(terminals) = Len(src) /\ at = Len(src)
  <2>1. Len(src) \in Nat /\ DOMAIN src = 1 .. Len(src)
    BY <1>1
  <2> QED
    BY <1>1, <2>1 DEF parse
<1>4. PICK order \in [DOMAIN terminals -> DOMAIN terminals] :
         /\ IsInjective(order)
         /\ sorted_by_salience(terminals, order)
         /\ terminals' = [k \in DOMAIN terminals |-> terminals[order[k]]]
  BY DEF Sort
<1>5. \A k \in 1 .. Len(src) : IsTerminal(terminals[k], doc[from[k]], alphas)
  BY <1>2, <1>3
<1>6. terminals' \in Seq(Terminals) /\ \E of : Network(doc, terminals', alphas, of)
  BY <1>1, <1>2, <1>3, <1>4, <1>5, SortsAll
<1>7. stage' = "compiled" /\ doc' = doc /\ at' = at /\ src' = src /\ alphas' = alphas
  BY DEF Sort
<1>8. AllGrl(doc') /\ \E of : Network(doc', terminals', alphas', of)
  BY <1>1, <1>6, <1>7
<1> QED
  BY <1>1, <1>6, <1>7, <1>8 DEF YInv

\* Every step.
LEMMA NextYInv == YInv /\ [Next]_vars => YInv'
<1> SUFFICES ASSUME YInv, [Next]_vars PROVE YInv'
  OBVIOUS
<1>1. CASE ConvertRule
  BY <1>1, ConvertYInv
<1>2. CASE EndConvert
  <2>1. /\ stage = "yaml" /\ at = Len(doc) /\ stage' = "grl"
        /\ UNCHANGED <<doc, at, src, asts, alphas, terminals>>
    BY <1>2 DEF EndConvert
  <2>2. PICK from : Converted(doc, src, from, Len(doc))
    BY <2>1 DEF YInv
  <2>3. \E of : Converted(doc', src', of, Len(doc'))
    BY <2>1, <2>2
  <2> QED
    BY <2>1, <2>3 DEF YInv
<1>3. CASE Parse
  BY <1>3, ParseYInv
<1>4. CASE Skip
  BY <1>4, ParseYInv
<1>5. CASE CompileRule
  BY <1>5, CompileYInv
<1>6. CASE Sort
  BY <1>6, SortYInv
<1>7. CASE UNCHANGED vars
  BY <1>7 DEF YInv, vars
<1> QED
  BY <1>1, <1>2, <1>3, <1>4, <1>5, <1>6, <1>7 DEF Next

\* The terminals of a compiled file are the rules of the document.
LEMMA NetworkIsOrigins ==
    ASSUME YInv, NEW of, Network(doc, terminals, alphas, of)
    PROVE  of \in Origins
BY DEF Network, Origins, IsTerminal

\* From the invariant to each of the properties.
LEMMA YInvGuardsMean == YInv => GuardsMean
<1> SUFFICES ASSUME YInv, stage = "compiled"
             PROVE  \E of \in Origins : \A k \in DOMAIN terminals, env \in Requests :
                        LET r == doc[of[k]]
                        IN  /\ env \in Applies(r) => Fires(terminals[k], env)
                            /\ Fires(terminals[k], env) /\ r.scope \notin Ignored
                                  => env \in Applies(r)
  BY DEF GuardsMean
<1>1. PICK of : Network(doc, terminals, alphas, of)
  BY DEF YInv
<1>2. of \in Origins
  BY <1>1, NetworkIsOrigins
<1>3. ASSUME NEW k \in DOMAIN terminals, NEW env \in Requests
      PROVE  LET r == doc[of[k]]
             IN  /\ env \in Applies(r) => Fires(terminals[k], env)
                 /\ Fires(terminals[k], env) /\ r.scope \notin Ignored => env \in Applies(r)
  <2>1. Holds(MaxTokens, alphas, terminals[k].guard, Judged(doc[of[k]]))
    BY <1>1 DEF Network, IsTerminal
  <2>2. Extends(alphas, alphas)
    BY ExtendsSelf DEF YInv
  <2>3. Fires(terminals[k], env) <=> env \in Judged(doc[of[k]])
    BY <2>1, <2>2 DEF Holds, Fires
  <2> QED
    BY <2>3 DEF Judged, Scoped, Applies
<1> QED
  BY <1>2, <1>3

\* The terminals are the rules that convert, and the file was skipped exactly if
\* the text of one of those is not GRL.
LEMMA YInvOnlyBad == YInv => OnlyBadRulesAreLost
<1> SUFFICES ASSUME YInv PROVE OnlyBadRulesAreLost
  OBVIOUS
<1> DEFINE good == {i \in DOMAIN doc : Converts(doc[i])}
<1>1. good = Good(doc)
  BY DEF Good
<1>2. ASSUME stage = "compiled" PROVE \E of \in Origins : Range(of) = good
  <2>1. PICK of : Network(doc, terminals, alphas, of)
    BY <1>2 DEF YInv
  <2>2. of \in Origins
    BY <2>1, NetworkIsOrigins
  <2>3. Range(of) = good
    BY <1>1, <2>1 DEF Network
  <2> HIDE DEF good
  <2> QED
    BY <2>2, <2>3
<1>3. AllGrl(doc) <=> ~\E i \in good : ~IsGrl(doc[i])
  BY <1>1 DEF AllGrl
<1>4. stage \in {"ast", "compiled", "skipped"} =>
         (stage = "skipped" <=> \E i \in good : ~IsGrl(doc[i]))
  <2> HIDE DEF good
  <2> QED
    BY <1>3 DEF YInv
<1> QED
  BY <1>2, <1>4 DEF OnlyBadRulesAreLost

\* The sort puts the higher salience first, which is the lower priority number.
LEMMA YInvPriority == YInv => PriorityOrder
<1> SUFFICES ASSUME YInv, stage = "compiled"
             PROVE  \E of \in Origins : \A k, l \in DOMAIN terminals :
                        Precedes(doc[of[k]], doc[of[l]]) => k < l
  BY DEF PriorityOrder
<1>1. PICK of : Network(doc, terminals, alphas, of)
  BY DEF YInv
<1>2. of \in Origins
  BY <1>1, NetworkIsOrigins
<1>3. ASSUME NEW k \in DOMAIN terminals, NEW l \in DOMAIN terminals,
             Precedes(doc[of[k]], doc[of[l]])
      PROVE  k < l
  <2>1. PICK q, r : q = doc[of[k]] /\ r = doc[of[l]]
    OBVIOUS
  <2>2. q.priority \in Nat /\ r.priority \in Nat
    <3>1. of[k] \in DOMAIN doc /\ of[l] \in DOMAIN doc
      BY <1>1 DEF Network
    <3>2. doc \in Docs
      BY DEF YInv
    <3> QED
      BY <2>1, <3>1, <3>2, DocIs
  <2>3. salience(q) > salience(r) /\ salience(q) \in Int /\ salience(r) \in Int
    BY <1>3, <2>1, <2>2, PrecedesIsHigher, SalienceType
  <2>4. terminals[k].salience = salience(q) /\ terminals[l].salience = salience(r)
    BY <1>1, <2>1 DEF Network, IsTerminal
  <2>5. l < k => terminals[l].salience >= terminals[k].salience
    BY <1>1 DEF Network
  <2>6. k \in Nat /\ l \in Nat
    BY DEF YInv
  <2> QED
    BY <2>3, <2>4, <2>5, <2>6
<1> QED
  BY <1>2, <1>3

\* The invariant of the way from the document to the network: every text, tree
\* and terminal is the rule of the document it came from, in the document's
\* order up to the sort, and means to every request what that rule says of it,
\* but for a scope the converter ignores.
THEOREM EveryRuleIsAccountedFor == Spec => []YInv
BY InitYInv, NextYInv, PTL DEF Spec

\* The guards of a compiled network say of every request what the YAML rules
\* say of it, whatever the conditions, the scopes and the order of the rules; a
\* rule with a scope the converter ignores fires at least where it applies
\* (converter.rs:87-111, 262-267, parser.rs:69-130, mod.rs:57-131).
THEOREM NetworkMeansTheFile == Spec => []GuardsMean
BY EveryRuleIsAccountedFor, YInvGuardsMean, PTL

\* A file loses its rules that miss a part or mix notations, all of its rules if
\* one of the others has an empty list or a literal that does not lex, and no
\* other rule (converter.rs:25-30, loader.rs:69-75).
THEOREM OnlyBadRulesLost == Spec => []OnlyBadRulesAreLost
BY EveryRuleIsAccountedFor, YInvOnlyBad, PTL

\* Detection rules run in the order of their priorities, and before every
\* routing rule if their priority is below Base - Cap (converter.rs:41-48).
THEOREM PrioritiesAreKept == Spec => []PriorityOrder
BY EveryRuleIsAccountedFor, YInvPriority, PTL
==============================================================================
