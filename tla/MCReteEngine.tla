---------------------------- MODULE MCReteEngine ----------------------------
(***************************************************************************)
(* Every duplicate-free list of up to MaxRules rules of a small catalogue, *)
(* in every source order, against every request.  The catalogue has a rule *)
(* that makes a higher-salience guard true, one that makes guards false,   *)
(* two rules of the same name, equal saliences, a retraction of a rule     *)
(* that has not fired, and every action function.                          *)
(***************************************************************************)
EXTENDS ReteEngine

CONSTANT MaxRules   \* longest rule list

MCNames == {"A", "B", "C", "D", "E"}

MCPaths == {"RiskScore", "Sqli"}

leaf(p, c, v) == [path |-> p, cmp |-> c, val |-> v]

stmt(op, p, src, v, arg) == [op |-> op, path |-> p, src |-> src, val |-> v, arg |-> arg]

act(op, arg) == stmt(op, "RiskScore", NoPath, 0, arg)

rule(n, sal, g, s) == [name |-> n, salience |-> sal, guard |-> g, actions |-> s]

Risky == leaf("RiskScore", "ge", 2)

Catalogue ==
    { \* raises the score: enables B, disables C and E
      rule("A", 2, {[pos |-> {leaf("Sqli", "ge", 1)}, neg |-> {}]},
           <<stmt("assign", "RiskScore", "RiskScore", 2, "")>>),
      rule("B", 3, {[pos |-> {Risky}, neg |-> {}]}, <<act("block", "")>>),
      rule("C", 2, {[pos |-> {}, neg |-> {Risky}]},
           <<act("retract", "D"), act("challenge", "js")>>),
      \* a second definition of A
      rule("A", 1, {Always}, <<act("allow", "")>>),
      \* a score reset, and a rate limit whose argument is negative
      rule("D", 2, {Always}, <<stmt("rate_limit", "RiskScore", NoPath, -1, ""),
                               stmt("assign", "RiskScore", NoPath, 0, "")>>),
      rule("E", 1, {[pos |-> {leaf("RiskScore", "lt", 2)}, neg |-> {}],
                    [pos |-> {leaf("Sqli", "eq", 0)}, neg |-> {}]},
           <<act("log", ""), act("challenge", "pow"), act("unknown", ""),
             act("rate_limit", "none")>>) }

MCRuleSets ==
    UNION {{s \in [1 .. n -> Catalogue] : \A i, j \in 1 .. n : s[i] = s[j] => i = j}
              : n \in 0 .. MaxRules}

\* The proxy hands the engine requests with a risk score of zero.
MCFacts == {f \in [MCPaths -> {0, 1}] : f["RiskScore"] = 0}
=============================================================================
