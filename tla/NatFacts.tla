----------------------------- MODULE NatFacts -----------------------------
(***************************************************************************)
(* Facts about sets of numbers, stated for sets so that the provers can    *)
(* apply them: least and greatest elements, and induction over a set.  And *)
(* about functions defined by recursion over a number, whose first value   *)
(* and step are parameters of this module, to be instantiated.             *)
(***************************************************************************)
EXTENDS Naturals, WellFoundedInduction, TLAPS

CONSTANTS LevelZero(_), LevelAbove(_, _, _)

\* A nonempty set of numbers has a minimal element of a well-founded relation.
LEMMA MinimalElement ==
    ASSUME NEW R, IsWellFoundedOn(R, Nat), NEW T, T \subseteq Nat, T # {}
    PROVE  \E x \in T : \A y \in T : ~(<<y, x>> \in R)
BY WFMin

\* A nonempty set of numbers has a least element.
LEMMA LeastElement ==
    ASSUME NEW T, T \subseteq Nat, T # {}
    PROVE  \E x \in T : \A y \in T : x <= y
<1> DEFINE R == OpToRel(<, Nat)
<1>1. IsWellFoundedOn(R, Nat)
  BY NatLessThanWellFounded
<1>2. \A x, y \in Nat : x < y => <<x, y>> \in R
  BY DEF OpToRel
<1> HIDE DEF R
<1>3. PICK x \in T : \A y \in T : ~(<<y, x>> \in R)
  BY <1>1, MinimalElement
<1>4. \A y \in T : ~(y < x)
  BY <1>2, <1>3
<1> QED
  BY <1>4

\* A nonempty set of indices has a greatest element.
LEMMA GreatestElement ==
    ASSUME NEW n \in Nat, NEW S, S \subseteq 1 .. n, S # {}
    PROVE  \E k \in S : \A j \in S : j <= k
<1> DEFINE T == {m \in Nat : \A j \in S : j <= m}
<1>1. T \subseteq Nat /\ n \in T
  OBVIOUS
<1>2. PICK m \in T : \A y \in T : m <= y
  <2> HIDE DEF T
  <2> QED
    BY <1>1, LeastElement
<1>3. m \in Nat /\ \A j \in S : j <= m
  BY <1>2
<1>4. m \in S
  <2> SUFFICES ASSUME m \notin S PROVE FALSE
    OBVIOUS
  <2>1. \A j \in S : j \in 1 .. n /\ j < m
    BY <1>3
  <2>2. m - 1 \in Nat /\ \A j \in S : j <= m - 1
    <3>1. PICK i : i \in S
      OBVIOUS
    <3>2. i \in 1 .. n /\ i < m
      BY <2>1, <3>1
    <3> QED
      BY <1>3, <2>1, <3>2
  <2>3. m - 1 \in T
    BY <2>2
  <2> QED
    BY <1>2, <1>3, <2>3
<1> QED
  BY <1>3, <1>4

\* A set that holds 0 and with every number the next one holds every number.
LEMMA SetInduction ==
    ASSUME NEW T, 0 \in T, \A n \in Nat : n \in T => n + 1 \in T
    PROVE  \A n \in Nat : n \in T
<1> DEFINE U == {n \in Nat : n \notin T}
<1> SUFFICES ASSUME U # {} PROVE FALSE
  OBVIOUS
<1>1. U \subseteq Nat
  OBVIOUS
<1>2. PICK n \in U : \A m \in U : n <= m
  <2> HIDE DEF U
  <2> QED
    BY <1>1, LeastElement
<1>3. n # 0 /\ n - 1 \in Nat /\ n - 1 \notin U
  BY <1>2
<1>4. n \in T
  <2>1. n - 1 \in T
    BY <1>3
  <2> QED
    BY <1>2, <1>3, <2>1
<1> QED
  BY <1>2, <1>4

-----------------------------------------------------------------------------
(***************************************************************************)
(* A function by levels, of a parameter p: what [i \in 0 .. n |-> ...] with *)
(* a reference to the value before stands for.                             *)
(***************************************************************************)
Levels(f, p, n) ==
    f = [i \in 0 .. n |-> IF i = 0 THEN LevelZero(p) ELSE LevelAbove(p, i, f[i - 1])]

\* There is one for every number of levels.
LEMMA LevelsExist == \A p, n : n \in Nat => \E f : Levels(f, p, n)
<1> SUFFICES ASSUME NEW p PROVE \A n \in Nat : \E f : Levels(f, p, n)
  OBVIOUS
<1> DEFINE T == {n \in Nat : \E f : Levels(f, p, n)}
<1>1. 0 \in T
  <2> DEFINE g == [i \in 0 .. 0 |-> LevelZero(p)]
  <2>1. Levels(g, p, 0)
    BY DEF Levels
  <2> QED
    BY <2>1
<1>2. ASSUME NEW n \in Nat, n \in T PROVE n + 1 \in T
  <2>1. PICK f : Levels(f, p, n)
    BY <1>2
  <2> DEFINE g == [i \in 0 .. (n + 1) |-> IF i = n + 1 THEN LevelAbove(p, n + 1, f[n]) ELSE f[i]]
  <2> DEFINE h == [i \in 0 .. (n + 1) |-> IF i = 0 THEN LevelZero(p) ELSE LevelAbove(p, i, g[i - 1])]
  <2>2. ASSUME NEW i \in 0 .. (n + 1) PROVE g[i] = h[i]
    <3>1. CASE i = n + 1
      BY <3>1
    <3>2. CASE i # n + 1
      <4>1. i \in 0 .. n /\ g[i] = f[i]
        BY <3>2
      <4>2. f[i] = IF i = 0 THEN LevelZero(p) ELSE LevelAbove(p, i, f[i - 1])
        BY <2>1, <4>1 DEF Levels
      <4>3. i # 0 => g[i - 1] = f[i - 1]
        BY <4>1
      <4> QED
        BY <4>1, <4>2, <4>3
    <3> QED
      BY <3>1, <3>2
  <2>3. Levels(g, p, n + 1)
    BY <2>2 DEF Levels
  <2> HIDE DEF g
  <2> QED
    BY <2>3
<1> HIDE DEF T
<1>3. \A n \in Nat : n \in T
  BY <1>1, <1>2, SetInduction
<1> QED
  BY <1>3 DEF T

\* Its values, one from the other.
LEMMA LevelsAre ==
    \A f, p, n : n \in Nat /\ Levels(f, p, n) =>
        /\ f[0] = LevelZero(p)
        /\ \A i \in 1 .. n : f[i] = LevelAbove(p, i, f[i - 1])
BY DEF Levels

\* It does not matter how many levels follow.
LEMMA LevelsAgree ==
    \A f, g, p, m, n : m \in Nat /\ n \in Nat /\ m <= n /\ Levels(f, p, m) /\ Levels(g, p, n) =>
        \A i \in 0 .. m : f[i] = g[i]
<1> SUFFICES ASSUME NEW f, NEW g, NEW p, NEW m \in Nat, NEW n \in Nat, m <= n,
                    Levels(f, p, m), Levels(g, p, n)
             PROVE  \A i \in 0 .. m : f[i] = g[i]
  OBVIOUS
<1> DEFINE T == {i \in Nat : i <= m => f[i] = g[i]}
<1>1. 0 \in T
  BY LevelsAre
<1>2. ASSUME NEW i \in Nat, i \in T PROVE i + 1 \in T
  <2> SUFFICES ASSUME i + 1 <= m PROVE f[i + 1] = g[i + 1]
    OBVIOUS
  <2>1. f[i] = g[i]
    BY <1>2
  <2>2. i + 1 \in 1 .. m /\ i + 1 \in 1 .. n /\ (i + 1) - 1 = i
    OBVIOUS
  <2>3. f[i + 1] = LevelAbove(p, i + 1, f[(i + 1) - 1]) /\ g[i + 1] = LevelAbove(p, i + 1, g[(i + 1) - 1])
    BY <2>2, LevelsAre
  <2> QED
    BY <2>1, <2>2, <2>3
<1> HIDE DEF T
<1>3. \A i \in Nat : i \in T
  BY <1>1, <1>2, SetInduction
<1> QED
  BY <1>3 DEF T
=============================================================================
