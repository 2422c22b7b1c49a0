------------------------ MODULE ConsulRulesProofs ------------------------
(***************************************************************************)
(* What is proved of the Consul protocol for any number of processes,      *)
(* keys, rules, writes and failures: what the merge of a seeding computes, *)
(* that an undisturbed seeding keeps the operators' rules and leaves a     *)
(* store that loads, and that a watcher never takes a change of the store  *)
(* as done that its rule set does not show.                                *)
(***************************************************************************)
EXTENDS ConsulRules, NatFacts

(***************************************************************************)
(* The merge.  The loop of seed_rules_to_consul is a recursive function of *)
(* the number of rules it has taken; it exists and its invariant holds by  *)
(* induction over that number.                                             *)
(***************************************************************************)
Loop(after, existing, new, n) ==
    after = [i \in 0..n |-> IF i = 0 THEN [rules |-> existing, changed |-> FALSE]
                                     ELSE MergeRule(after[i - 1], new[i])]

\* The loop has a result for every number of rounds.
LEMMA LoopExists ==
    ASSUME NEW existing, NEW new
    PROVE  \A n \in Nat : \E after : Loop(after, existing, new, n)
<1> DEFINE T == {n \in Nat : \E after : Loop(after, existing, new, n)}
<1>1. 0 \in T
  <2> DEFINE g == [i \in 0..0 |-> [rules |-> existing, changed |-> FALSE]]
  <2>1. Loop(g, existing, new, 0)
    BY DEF Loop
  <2> QED
    BY <2>1
<1>2. ASSUME NEW n \in Nat, n \in T PROVE n + 1 \in T
  <2>1. PICK f : Loop(f, existing, new, n)
    BY <1>2
  <2> DEFINE g == [i \in 0..(n + 1) |-> IF i = n + 1 THEN MergeRule(f[n], new[n + 1]) ELSE f[i]]
  <2> DEFINE h == [i \in 0..(n + 1) |-> IF i = 0 THEN [rules |-> existing, changed |-> FALSE]
                                                 ELSE MergeRule(g[i - 1], new[i])]
  <2>2. ASSUME NEW i \in 0..(n + 1) PROVE g[i] = h[i]
    <3>1. CASE i = n + 1
      BY <3>1
    <3>2. CASE i # n + 1
      <4>1. i \in 0..n /\ g[i] = f[i]
        BY <3>2
      <4>2. f[i] = IF i = 0 THEN [rules |-> existing, changed |-> FALSE]
                            ELSE MergeRule(f[i - 1], new[i])
        BY <2>1, <4>1 DEF Loop
      <4>3. i # 0 => g[i - 1] = f[i - 1]
        BY <4>1
      <4> QED
        BY <4>1, <4>2, <4>3
    <3> QED
      BY <3>1, <3>2
  <2>3. Loop(g, existing, new, n + 1)
    BY <2>2 DEF Loop
  <2> HIDE DEF g
  <2> QED
    BY <2>3
<1> HIDE DEF T
<1>3. \A n \in Nat : n \in T
  BY <1>1, <1>2, SetInduction
<1> QED
  BY <1>3 DEF T

\* Merge is the result of the loop after all rules of the release.
LEMMA MergeLoops ==
    ASSUME NEW existing, NEW release \in Seq(ShippedRule), NEW now
    PROVE  \E after : /\ Loop(after, existing, Stamped(release, now), Len(release))
                      /\ Merge(existing, release, now) = after[Len(release)]
<1> DEFINE new == Stamped(release, now)
           n == Len(release)
           c == CHOOSE after : Loop(after, existing, new, n)
<1>1. n \in Nat
  OBVIOUS
<1>2. \E after : Loop(after, existing, new, n)
  BY <1>1, LoopExists
<1>3. Loop(c, existing, new, n)
  BY <1>2, Zenon
<1>4. Merge(existing, release, now) = c[n]
  BY Zenon DEF Merge, Loop
<1> QED
  BY <1>3, <1>4

-----------------------------------------------------------------------------
Covers(L, S) == \A j \in DOMAIN S : \E i \in DOMAIN L : L[i].id = S[j].id
Distinct(L) == \A i, j \in DOMAIN L : i # j => L[i].id # L[j].id
Sound(L) == \A i \in DOMAIN L : L[i].body \notin {"bad", "invalid"}
Keeps(L, S) == \A j \in DOMAIN S : S[j].dflt \/ \E i \in DOMAIN L : L[i] = S[j]
Has(S, id) == \E j \in DOMAIN S : S[j].id = id
Adds(M, L, id) == \A i \in DOMAIN M : M[i].id = id \/ Has(L, M[i].id)
Within(L, S, T) == \A i \in DOMAIN L : Has(S, L[i].id) \/ Has(T, L[i].id)

\* A rule laid over another has the id and the body of the new one.
LEMMA OverlayIs ==
    ASSUME NEW old \in Rule, NEW new \in Rule
    PROVE  /\ Overlay(old, new) \in Rule
           /\ Overlay(old, new).id = new.id
           /\ Overlay(old, new).body = new.body
BY DEF Overlay, Rule

\* What one round of the loop does: it appends, overwrites a default rule of
\* the same id, or leaves a rule of that id alone.
LEMMA MergeRuleCases ==
    ASSUME NEW L \in Seq(Rule), NEW c, NEW r \in Rule
    PROVE  LET m == MergeRule([rules |-> L, changed |-> c], r)
           IN  \/ /\ m = [rules |-> Append(L, r), changed |-> TRUE]
                  /\ \A i \in DOMAIN L : L[i].id # r.id
               \/ \E f \in DOMAIN L, o \in Rule :
                    /\ L[f].id = r.id
                    /\ L[f].dflt
                    /\ o.id = r.id /\ o.body = r.body
                    /\ m = [rules |-> [L EXCEPT ![f] = o], changed |-> TRUE]
               \/ /\ m = [rules |-> L, changed |-> c]
                  /\ \E f \in DOMAIN L : L[f].id = r.id
<1> DEFINE mine == {i \in DOMAIN L : L[i].id = r.id}
           first == CHOOSE i \in mine : \A j \in mine : i <= j
           m == MergeRule([rules |-> L, changed |-> c], r)
           ov == Overlay(L[first], r)
<1>1. m = IF mine = {} THEN [rules |-> Append(L, r), changed |-> TRUE]
          ELSE IF L[first].dflt /\ ov # L[first]
          THEN [rules |-> [L EXCEPT ![first] = Overlay(@, r)], changed |-> TRUE]
          ELSE [rules |-> L, changed |-> c]
  BY DEF MergeRule
<1>2. CASE mine = {}
  BY <1>1, <1>2
<1>3. CASE mine # {}
  <2>1. mine \subseteq Nat
    OBVIOUS
  <2>2. \E i \in mine : \A j \in mine : i <= j
    <3> HIDE DEF mine
    <3> QED
      BY <1>3, <2>1, LeastElement
  <2>3. first \in mine
    <3> HIDE DEF mine
    <3> QED
      BY <2>2, Zenon
  <2>4. first \in DOMAIN L /\ L[first].id = r.id
    BY <2>3
  <2>5. [L EXCEPT ![first] = Overlay(@, r)] = [L EXCEPT ![first] = ov]
    BY <2>4
  <2>6. ov \in Rule /\ ov.id = r.id /\ ov.body = r.body
    BY <2>4, OverlayIs
  <2>7. m = IF L[first].dflt /\ ov # L[first]
            THEN [rules |-> [L EXCEPT ![first] = ov], changed |-> TRUE]
            ELSE [rules |-> L, changed |-> c]
    BY <1>1, <1>3, <2>5, Zenon
  <2> HIDE DEF m, first, ov
  <2> QED
    BY <2>4, <2>6, <2>7 DEF m
<1> QED
  BY <1>2, <1>3

\* What a round makes of a list: it keeps what was there (rules of operators,
\* ids, distinct ids, rules that load), adds the id of its rule and no other,
\* and says so when it changes.
RoundOk(L, c, r, m) ==
    /\ m = [rules |-> m.rules, changed |-> m.changed]
    /\ m.rules \in Seq(Rule) /\ m.changed \in BOOLEAN
    /\ Keeps(m.rules, L)
    /\ Covers(m.rules, L)
    /\ \E i \in DOMAIN m.rules : m.rules[i].id = r.id
    /\ Adds(m.rules, L, r.id)
    /\ Distinct(L) => Distinct(m.rules)
    /\ Sound(L) /\ r.body \notin {"bad", "invalid"} => Sound(m.rules)
    /\ ~m.changed => m.rules = L /\ ~c

\* MergeRule makes that of every list.
LEMMA MergeRuleStep ==
    ASSUME NEW L \in Seq(Rule), NEW c \in BOOLEAN, NEW r \in Rule
    PROVE  RoundOk(L, c, r, MergeRule([rules |-> L, changed |-> c], r))
<1> DEFINE m == MergeRule([rules |-> L, changed |-> c], r)
<1>1. CASE m = [rules |-> Append(L, r), changed |-> TRUE] /\ \A i \in DOMAIN L : L[i].id # r.id
  <2> DEFINE M == Append(L, r)
  <2>1. /\ M \in Seq(Rule)
        /\ Len(M) = Len(L) + 1 /\ DOMAIN M = 1..(Len(L) + 1) /\ DOMAIN L = 1..Len(L)
        /\ \A i \in DOMAIN L : i \in DOMAIN M /\ M[i] = L[i]
        /\ M[Len(L) + 1] = r
        /\ Len(L) \in Nat
    OBVIOUS
  <2>2. m.rules = M /\ m.changed = TRUE
    BY <1>1
  <2>3. m = [rules |-> m.rules, changed |-> m.changed]
    BY <1>1
  <2> HIDE DEF M, m
  <2>4. Keeps(M, L) /\ Covers(M, L) /\ \E i \in DOMAIN M : M[i].id = r.id
    BY <2>1 DEF Keeps, Covers
  <2>7. Adds(M, L, r.id)
    BY <2>1 DEF Adds, Has
  <2>5. Distinct(L) => Distinct(M)
    BY <1>1, <2>1 DEF Distinct
  <2>6. Sound(L) /\ r.body \notin {"bad", "invalid"} => Sound(M)
    BY <2>1 DEF Sound
  <2> QED
    BY <2>1, <2>2, <2>3, <2>4, <2>5, <2>6, <2>7 DEF m, RoundOk
<1>2. ASSUME NEW f \in DOMAIN L, NEW o \in Rule, L[f].id = r.id, L[f].dflt,
             o.id = r.id, o.body = r.body,
             m = [rules |-> [L EXCEPT ![f] = o], changed |-> TRUE]
      PROVE  RoundOk(L, c, r, m)
  <2> DEFINE M == [L EXCEPT ![f] = o]
  <2>1. /\ M \in Seq(Rule)
        /\ DOMAIN M = DOMAIN L
        /\ \A i \in DOMAIN L \ {f} : M[i] = L[i]
        /\ M[f] = o
    OBVIOUS
  <2>2. m = [rules |-> M, changed |-> TRUE]
    BY <1>2
  <2> HIDE DEF M, m
  <2>3. m.rules = M /\ m.changed = TRUE /\ m = [rules |-> m.rules, changed |-> m.changed]
    BY <2>2
  <2>4. Keeps(M, L)
    <3> SUFFICES ASSUME NEW j \in DOMAIN L PROVE L[j].dflt \/ \E i \in DOMAIN M : M[i] = L[j]
      BY DEF Keeps
    <3> QED
      BY <1>2, <2>1
  <2>5. Covers(M, L) /\ \E i \in DOMAIN M : M[i].id = r.id
    BY <1>2, <2>1 DEF Covers
  <2>6. Distinct(L) => Distinct(M)
    BY <1>2, <2>1 DEF Distinct
  <2>7. Sound(L) /\ r.body \notin {"bad", "invalid"} => Sound(M)
    BY <1>2, <2>1 DEF Sound
  <2>8. Adds(M, L, r.id)
    BY <1>2, <2>1 DEF Adds, Has
  <2> QED
    BY <2>1, <2>2, <2>3, <2>4, <2>5, <2>6, <2>7, <2>8 DEF RoundOk
<1>3. CASE m = [rules |-> L, changed |-> c] /\ \E f \in DOMAIN L : L[f].id = r.id
  BY <1>3 DEF RoundOk, Keeps, Covers, Adds, Has
<1>4. \/ /\ m = [rules |-> Append(L, r), changed |-> TRUE]
         /\ \A i \in DOMAIN L : L[i].id # r.id
      \/ \E f \in DOMAIN L, o \in Rule :
            /\ L[f].id = r.id /\ L[f].dflt /\ o.id = r.id /\ o.body = r.body
            /\ m = [rules |-> [L EXCEPT ![f] = o], changed |-> TRUE]
      \/ m = [rules |-> L, changed |-> c] /\ \E f \in DOMAIN L : L[f].id = r.id
  BY MergeRuleCases
<1>5. CASE \E f \in DOMAIN L, o \in Rule :
              /\ L[f].id = r.id /\ L[f].dflt /\ o.id = r.id /\ o.body = r.body
              /\ m = [rules |-> [L EXCEPT ![f] = o], changed |-> TRUE]
  <2>1. PICK f \in DOMAIN L, o \in Rule :
              /\ L[f].id = r.id /\ L[f].dflt /\ o.id = r.id /\ o.body = r.body
              /\ m = [rules |-> [L EXCEPT ![f] = o], changed |-> TRUE]
    BY <1>5
  <2> QED
    BY <1>2, <2>1, Zenon
<1> QED
  BY <1>1, <1>3, <1>4, <1>5, Zenon

\* What seed_rules_to_consul may write back for the rules it found and those of
\* the release.
MergedOk(found, release, L) ==
    /\ L \in Seq(Rule)
    /\ Keeps(L, found)
    /\ Covers(L, found)
    /\ Covers(L, release)
    /\ Within(L, found, release)
    /\ Distinct(found) /\ Sound(found) /\ Sound(release) => Distinct(L) /\ Sound(L)

\* A stamped rule has the id and the body of the file, and is a default rule.
LEMMA StampedIs ==
    ASSUME NEW release \in Seq(ShippedRule), NEW now \in Nat, NEW i \in 1..Len(release)
    PROVE  LET r == Stamped(release, now)[i]
           IN  r \in Rule /\ r.id = release[i].id /\ r.body = release[i].body
<1>1. i \in DOMAIN release /\ release[i] \in ShippedRule
  OBVIOUS
<1>2. Stamped(release, now)[i] =
        [id |-> release[i].id, dflt |-> TRUE, body |-> release[i].body,
         extra |-> release[i].extra, ms |-> now]
  BY <1>1 DEF Stamped
<1> QED
  BY <1>1, <1>2 DEF Rule, ShippedRule

\* The list before the first round, and what a round makes of it.
LEMMA LoopRound ==
    ASSUME NEW after, NEW existing, NEW new, NEW n \in Nat, Loop(after, existing, new, n),
           NEW i \in 0..n
    PROVE  after[i] = IF i = 0 THEN [rules |-> existing, changed |-> FALSE]
                               ELSE MergeRule(after[i - 1], new[i])
BY DEF Loop

\* After i rounds the list is what i rules of the release make of it.
LEMMA LoopInvariant ==
    ASSUME NEW found \in Seq(Rule), NEW release \in Seq(ShippedRule), NEW now \in Nat,
           NEW after, Loop(after, found, Stamped(release, now), Len(release))
    PROVE  LET m == after[Len(release)]
           IN  /\ m.changed \in BOOLEAN
               /\ MergedOk(found, release, m.rules)
               /\ ~m.changed => m.rules = found
<1> DEFINE new == Stamped(release, now)
           N == Len(release)
           Holds(i) ==
             LET m == after[i]
             IN  /\ m = [rules |-> m.rules, changed |-> m.changed]
                 /\ m.changed \in BOOLEAN
                 /\ m.rules \in Seq(Rule)
                 /\ Keeps(m.rules, found)
                 /\ Covers(m.rules, found)
                 /\ \A j \in 1..i : \E k \in DOMAIN m.rules : m.rules[k].id = release[j].id
                 /\ Within(m.rules, found, release)
                 /\ Distinct(found) => Distinct(m.rules)
                 /\ Sound(found) /\ Sound(release) => Sound(m.rules)
                 /\ ~m.changed => m.rules = found
           T == {i \in Nat : i <= N => Holds(i)}
<1>0. N \in Nat /\ DOMAIN release = 1..N
  OBVIOUS
<1>1. \A i \in 0..N : after[i] = IF i = 0 THEN [rules |-> found, changed |-> FALSE]
                                            ELSE MergeRule(after[i - 1], new[i])
  BY <1>0, LoopRound
<1>2. 0 \in T
  <2>1. after[0] = [rules |-> found, changed |-> FALSE]
    <3>1. 0 \in 0..N
      BY <1>0
    <3> HIDE DEF N, new
    <3> QED
      BY <3>1, <1>1, Zenon
  <2>2. Keeps(found, found) /\ Covers(found, found)
    BY DEF Keeps, Covers
  <2>3. Within(found, found, release)
    BY DEF Within, Has
  <2>4. Holds(0)
    BY <2>1, <2>2, <2>3
  <2> HIDE DEF Holds
  <2> QED
    BY <2>4
<1>3. ASSUME NEW i \in Nat, i \in T PROVE i + 1 \in T
  <2> SUFFICES ASSUME i + 1 <= N PROVE Holds(i + 1)
    <3> HIDE DEF Holds
    <3> QED
      OBVIOUS
  <2> DEFINE L == after[i].rules
             c == after[i].changed
             r == new[i + 1]
             m == MergeRule([rules |-> L, changed |-> c], r)
  <2>1. Holds(i)
    <3> HIDE DEF Holds
    <3> QED
      BY <1>0, <1>3
  <2>2. r \in Rule /\ r.id = release[i + 1].id /\ r.body = release[i + 1].body
    BY <1>0, StampedIs
  <2>3. after[i + 1] = m
    <3>1. after[i + 1] = MergeRule(after[(i + 1) - 1], new[i + 1])
      <4>1. i + 1 \in 0..N /\ i + 1 # 0
        BY <1>0
      <4> HIDE DEF new, N
      <4> QED
        BY <4>1, <1>1, Zenon
    <3>2. after[i] = [rules |-> L, changed |-> c] /\ (i + 1) - 1 = i
      BY <2>1
    <3> HIDE DEF new
    <3> QED
      BY <3>1, <3>2
  <2>4. /\ L \in Seq(Rule)
        /\ c \in BOOLEAN
        /\ Keeps(L, found)
        /\ Covers(L, found)
        /\ \A j \in 1..i : \E k \in DOMAIN L : L[k].id = release[j].id
        /\ Within(L, found, release)
        /\ Distinct(found) => Distinct(L)
        /\ Sound(found) /\ Sound(release) => Sound(L)
        /\ ~c => L = found
    BY <2>1
  <2>5. Sound(release) => r.body \notin {"bad", "invalid"}
    BY <1>0, <2>2 DEF Sound
  <2> HIDE DEF L, c, r
  <2>6. /\ m = [rules |-> m.rules, changed |-> m.changed]
        /\ m.rules \in Seq(Rule) /\ m.changed \in BOOLEAN
        /\ Keeps(m.rules, L)
        /\ Covers(m.rules, L)
        /\ \E k \in DOMAIN m.rules : m.rules[k].id = r.id
        /\ Adds(m.rules, L, r.id)
        /\ Distinct(L) => Distinct(m.rules)
        /\ Sound(L) /\ r.body \notin {"bad", "invalid"} => Sound(m.rules)
        /\ ~m.changed => m.rules = L /\ ~c
    <3>1. L \in Seq(Rule) /\ c \in BOOLEAN /\ r \in Rule
      BY <2>2, <2>4
    <3>2. RoundOk(L, c, r, m)
      BY <3>1, MergeRuleStep
    <3> HIDE DEF m
    <3> QED
      BY <3>2 DEF RoundOk
  <2> HIDE DEF m
  <2>7. Keeps(m.rules, found)
    BY <2>4, <2>6 DEF Keeps
  <2>8. Covers(m.rules, found)
    BY <2>4, <2>6 DEF Covers
  <2>9. \A j \in 1..(i + 1) : \E k \in DOMAIN m.rules : m.rules[k].id = release[j].id
    <3> SUFFICES ASSUME NEW j \in 1..(i + 1)
                 PROVE  \E k \in DOMAIN m.rules : m.rules[k].id = release[j].id
      OBVIOUS
    <3>1. CASE j = i + 1
      BY <2>2, <2>6, <3>1
    <3>2. CASE j # i + 1
      <4>1. j \in 1..i
        BY <3>2
      <4> QED
        BY <2>4, <2>6, <4>1 DEF Covers
    <3> QED
      BY <3>1, <3>2
  <2>10. Within(m.rules, found, release)
    <3> SUFFICES ASSUME NEW k \in DOMAIN m.rules
                 PROVE  Has(found, m.rules[k].id) \/ Has(release, m.rules[k].id)
      BY DEF Within
    <3>1. CASE m.rules[k].id = r.id
      <4>1. i + 1 \in DOMAIN release
        BY <1>0
      <4> QED
        BY <2>2, <3>1, <4>1 DEF Has
    <3>2. CASE Has(L, m.rules[k].id)
      BY <2>4, <3>2 DEF Within, Has
    <3> QED
      BY <2>6, <3>1, <3>2 DEF Adds
  <2> QED
    BY <2>3, <2>4, <2>5, <2>6, <2>7, <2>8, <2>9, <2>10
<1>4. Holds(N)
  <2> HIDE DEF Holds
  <2>1. \A i \in Nat : i \in T
    <3> HIDE DEF T
    <3> QED
      BY <1>2, <1>3, SetInduction
  <2> QED
    BY <1>0, <2>1
<1> QED
  BY <1>0, <1>4 DEF MergedOk, Covers

\* The list seed_rules_to_consul arrives at, whatever it found and ships.
LEMMA MergeIsOk ==
    ASSUME NEW found \in Seq(Rule), NEW release \in Seq(ShippedRule), NEW now \in Nat
    PROVE  LET m == Merge(found, release, now)
           IN  /\ m.changed \in BOOLEAN
               /\ MergedOk(found, release, m.rules)
               /\ ~m.changed => m.rules = found
BY MergeLoops, LoopInvariant

-----------------------------------------------------------------------------
(***************************************************************************)
(* The inductive invariant                                                 *)
(***************************************************************************)
SeedPcs == {"off", "put", "check", "delete", "done"}

\* A seeding and the store.  As long as nothing disturbed it, what it is about
\* to write, or what it left under the unified key, is a merge of what it
\* found and ships, and an old key it is through with is gone.
SeedingOk(s, store) ==
    /\ DOMAIN s = {"pc", "runs", "merged", "todo", "alone"}
    /\ s.pc \in SeedPcs
    /\ s.merged \in Seq(Rule)
    /\ s.todo \in Seq(ToSet(OldKeys))
    /\ s.pc \in {"put", "check", "delete"} => s.todo # << >>
    /\ s.pc = "done" => s.todo = << >>
    /\ s.alone # Absent =>
         /\ Existing(s.alone.stored) \in Seq(Rule)
         /\ s.alone.release \in Seq(ShippedRule)
         /\ s.pc = "put" => MergedOk(Existing(s.alone.stored), s.alone.release, s.merged)
         /\ s.pc # "put" =>
              MergedOk(Existing(s.alone.stored), s.alone.release, Existing(store[Unified]))
         /\ \A k \in ToSet(OldKeys) : store[k] = Absent \/ k \in ToSet(s.todo)

StoreOk ==
    /\ index \in 1..MaxIndex
    /\ faults \in 0..MaxFaults
    /\ kv \in [Keys -> Value \union {Absent}]

SeedersOk == DOMAIN seeder = Seeders /\ \A p \in Seeders : SeedingOk(seeder[p], kv)

WatcherTypeOk(w) ==
    /\ DOMAIN watcher[w] = {"pc", "last", "new", "snap", "seen", "failed"}
    /\ watcher[w].pc \in {"poll", "probe", "list", "compile"}
    /\ watcher[w].last \in 0..index

\* The index a load was started for is no later than the one of the answer it
\* read, and that answer is the store's content unless the store has moved on.
LoadOk(w) ==
    /\ watcher[w].new \in Nat
    /\ watcher[w].pc # "poll" => watcher[w].new <= index
    /\ watcher[w].pc = "compile" =>
         /\ watcher[w].seen \in Nat
         /\ watcher[w].new <= watcher[w].seen
         /\ watcher[w].seen <= index
         /\ watcher[w].seen = index => watcher[w].snap = kv

WatchersOk ==
    /\ DOMAIN rules = Watchers /\ DOMAIN watcher = Watchers
    /\ \A w \in Watchers : WatcherTypeOk(w) /\ LoadOk(w)

ConsulInv == StoreOk /\ SeedersOk /\ WatchersOk /\ CaughtUp

\* The invariant holds at the start.
LEMMA InitConsul == Init => ConsulInv
<1> SUFFICES ASSUME Init PROVE ConsulInv
  OBVIOUS
<1>1. StoreOk /\ WatchersOk /\ CaughtUp
  BY ConsulAssumption DEF Init, StoreOk, WatchersOk, WatcherTypeOk, LoadOk, CaughtUp, NoWatch
<1>2. SeedingOk(NoSeeding, kv)
  BY DEF SeedingOk, NoSeeding, SeedPcs
<1> QED
  BY <1>1, <1>2 DEF Init, SeedersOk, ConsulInv

\* Seedings and edits leave the watchers alone, and move the index whenever
\* they change the store.
LEMMA WritersMoveIndex ==
    ASSUME Edit \/ \E p \in Seeders : Seed(p)
    PROVE  /\ UNCHANGED <<watcher, rules>>
           /\ UNCHANGED <<kv, index>> \/ index' = index + 1
<1>1. ASSUME Edit PROVE UNCHANGED <<watcher, rules>> /\ index' = index + 1
  BY <1>1 DEF Edit, Write
<1>2. ASSUME NEW p \in Seeders, Seed(p)
      PROVE  UNCHANGED <<watcher, rules>> /\ (UNCHANGED <<kv, index>> \/ index' = index + 1)
  BY <1>2 DEF Seed, SeedFetch, SeedFetchFails, SeedPut, SeedPutRejected, SeedPutFails,
              SeedCrash, SeedCheck, SeedDelete, SeedCleanupFails, Write
<1> QED
  BY <1>1, <1>2

\* A write keeps the type of the store.
LEMMA WriteStore ==
    ASSUME StoreOk, NEW k \in Keys, NEW value \in Value \union {Absent}, Write(k, value)
    PROVE  index' \in 1..MaxIndex /\ kv' \in [Keys -> Value \union {Absent}]
BY ConsulAssumption DEF Write, StoreOk

\* A seeding that was disturbed claims nothing about the store.
LEMMA Disturbed ==
    ASSUME NEW s, NEW store, SeedingOk(s, store), NEW store2
    PROVE  SeedingOk([s EXCEPT !.alone = Absent], store2)
BY DEF SeedingOk

\* Nor does one that has stopped.
LEMMA StoppedOk ==
    ASSUME SeedersOk, NEW p \in Seeders, NEW store
    PROVE  SeedingOk(Stopped(p, "off", Absent), store)
BY DEF SeedersOk, SeedingOk, Stopped, SeedPcs

\* A seeding goes on to the next key when this one is gone, or when it counts
\* as disturbed.
LEMMA NextKeyOk ==
    ASSUME SeedersOk, NEW p \in Seeders, seeder[p].pc \in {"check", "delete"}, NEW store,
           NEW alone,
           \/ alone = Absent
           \/ /\ alone = seeder[p].alone
              /\ store[Head(seeder[p].todo)] = Absent
              /\ store[Unified] = kv[Unified]
              /\ \A k \in ToSet(OldKeys) : kv[k] = Absent => store[k] = Absent
    PROVE  SeedingOk(NextKey(p, alone), store)
<1> DEFINE s == seeder[p]
<1>1. SeedingOk(s, kv)
  BY DEF SeedersOk
<1>2. s.todo \in Seq(ToSet(OldKeys)) /\ s.todo # << >>
  BY <1>1 DEF SeedingOk
<1>3. ASSUME NEW k \in ToSet(OldKeys), k \in ToSet(s.todo), k # Head(s.todo)
      PROVE  Len(s.todo) # 1 /\ k \in ToSet(Tail(s.todo))
  <2>1. PICK i \in DOMAIN s.todo : s.todo[i] = k
    BY <1>3 DEF ToSet
  <2>2. i # 1 /\ i \in 1..Len(s.todo) /\ Len(s.todo) \in Nat
    BY <1>2, <1>3, <2>1
  <2>3. i - 1 \in DOMAIN Tail(s.todo) /\ Tail(s.todo)[i - 1] = s.todo[i]
    BY <1>2, <2>2
  <2> QED
    BY <2>1, <2>2, <2>3 DEF ToSet
<1>4. alone # Absent =>
        \A k \in ToSet(OldKeys) : store[k] # Absent => k \in ToSet(s.todo) /\ k # Head(s.todo)
  BY <1>1 DEF SeedingOk
<1>5. CASE Len(s.todo) = 1
  <2>1. NextKey(p, alone) = Stopped(p, "done", alone)
    BY <1>5 DEF NextKey
  <2> DEFINE n == Stopped(p, "done", alone)
  <2>2. /\ DOMAIN n = {"pc", "runs", "merged", "todo", "alone"}
        /\ n.pc = "done" /\ n.merged = << >> /\ n.todo = << >> /\ n.alone = alone
    BY <1>1 DEF Stopped, SeedingOk
  <2>3. alone # Absent => \A k \in ToSet(OldKeys) : store[k] = Absent
    BY <1>3, <1>4, <1>5
  <2> HIDE DEF n
  <2>4. << >> \in Seq(Rule) /\ << >> \in Seq(ToSet(OldKeys))
    OBVIOUS
  <2>5. SeedingOk(n, store)
    BY <1>1, <2>2, <2>3, <2>4 DEF SeedingOk, SeedPcs
  <2> QED
    BY <2>1, <2>5 DEF n
<1>6. CASE Len(s.todo) # 1
  <2> DEFINE n == [s EXCEPT !.pc = "check", !.todo = Tail(@), !.alone = alone]
  <2>1. NextKey(p, alone) = n
    BY <1>6 DEF NextKey
  <2>2. /\ DOMAIN n = {"pc", "runs", "merged", "todo", "alone"}
        /\ n.pc = "check" /\ n.merged = s.merged /\ n.todo = Tail(s.todo) /\ n.alone = alone
    BY <1>1 DEF SeedingOk
  <2>3. Tail(s.todo) \in Seq(ToSet(OldKeys)) /\ Tail(s.todo) # << >>
    <3>1. /\ Len(s.todo) \in Nat /\ Len(s.todo) # 0
          /\ Tail(s.todo) \in Seq(ToSet(OldKeys))
          /\ Len(Tail(s.todo)) = Len(s.todo) - 1
      BY <1>2
    <3>2. Len(Tail(s.todo)) # Len(<< >>)
      BY <1>6, <3>1
    <3> QED
      BY <3>1, <3>2, Zenon
  <2>4. alone # Absent => \A k \in ToSet(OldKeys) : store[k] = Absent \/ k \in ToSet(Tail(s.todo))
    BY <1>3, <1>4
  <2> HIDE DEF n
  <2>5. SeedingOk(n, store)
    BY <1>1, <2>2, <2>3, <2>4 DEF SeedingOk, SeedPcs
  <2> QED
    BY <2>1, <2>5
<1> QED
  BY <1>5, <1>6

\* Merging leaves a list to write, or finds that the store already has it.
LEMMA MergingOk ==
    ASSUME StoreOk, SeedersOk, NEW p \in Seeders, NEW found \in Seq(Rule), NEW ok \in BOOLEAN,
           Merging(p, found, ok), ok => found = Existing(kv[Unified])
    PROVE  /\ DOMAIN seeder' = Seeders
           /\ \A q \in Seeders \ {p} : seeder'[q] = seeder[q]
           /\ SeedingOk(seeder'[p], kv)
<1>1. PICK release \in Releases, now \in Times :
        LET m == Merge(found, release, now)
        IN  seeder' = [seeder EXCEPT ![p] =
                [pc |-> IF m.changed THEN "put" ELSE "check",
                 runs |-> @.runs + 1,
                 merged |-> IF m.changed THEN m.rules ELSE << >>,
                 todo |-> OldKeys,
                 alone |-> IF ok THEN [stored |-> kv[Unified], release |-> release]
                                 ELSE Absent]]
  BY DEF Merging
<1> DEFINE m == Merge(found, release, now)
           s == seeder'[p]
<1>2. /\ DOMAIN seeder' = Seeders
      /\ \A q \in Seeders \ {p} : seeder'[q] = seeder[q]
      /\ s = [pc |-> IF m.changed THEN "put" ELSE "check",
              runs |-> seeder[p].runs + 1,
              merged |-> IF m.changed THEN m.rules ELSE << >>,
              todo |-> OldKeys,
              alone |-> IF ok THEN [stored |-> kv[Unified], release |-> release] ELSE Absent]
  BY <1>1 DEF SeedersOk
<1>3. release \in Seq(ShippedRule) /\ now \in Nat
  BY ConsulAssumption
<1>4. /\ m.changed \in BOOLEAN
      /\ MergedOk(found, release, m.rules)
      /\ ~m.changed => m.rules = found
  BY <1>3, MergeIsOk
<1>5. m.rules \in Seq(Rule)
  BY <1>4 DEF MergedOk
<1> HIDE DEF m, s
<1>6. OldKeys \in Seq(ToSet(OldKeys)) /\ OldKeys # << >>
  BY ConsulAssumption DEF ToSet
<1>7. CASE m.changed
  <2>1. s.pc = "put" /\ s.merged = m.rules /\ s.todo = OldKeys
        /\ DOMAIN s = {"pc", "runs", "merged", "todo", "alone"}
        /\ s.alone = IF ok THEN [stored |-> kv[Unified], release |-> release] ELSE Absent
    BY <1>2, <1>7
  <2>2. s.alone # Absent => Existing(s.alone.stored) = found /\ s.alone.release = release
    BY <2>1
  <2>3. SeedingOk(s, kv)
    BY <1>3, <1>4, <1>5, <1>6, <2>1, <2>2 DEF SeedingOk, SeedPcs
  <2> QED
    BY <1>2, <2>3 DEF s
<1>8. CASE ~m.changed
  <2>1. s.pc = "check" /\ s.merged = << >> /\ s.todo = OldKeys
        /\ DOMAIN s = {"pc", "runs", "merged", "todo", "alone"}
        /\ s.alone = IF ok THEN [stored |-> kv[Unified], release |-> release] ELSE Absent
    BY <1>2, <1>8
  <2>2. s.alone # Absent => ok /\ Existing(s.alone.stored) = found /\ s.alone.release = release
    BY <2>1
  <2>3. << >> \in Seq(Rule)
    OBVIOUS
  <2>4. SeedingOk(s, kv)
    BY <1>3, <1>4, <1>6, <1>8, <2>1, <2>2, <2>3 DEF SeedingOk, SeedPcs
  <2> QED
    BY <1>2, <2>4 DEF s
<1> QED
  BY <1>7, <1>8

\* The rules a seeding finds are rules.
LEMMA ExistingTyped ==
    ASSUME StoreOk
    PROVE  Existing(kv[Unified]) \in Seq(Rule)
<1>1. kv[Unified] \in Value \union {Absent}
  BY DEF StoreOk, Keys
<1> QED
  BY <1>1 DEF Existing, Value

\* A list is a value, and what it holds is what the next seeding finds.
LEMMA ListIsValue ==
    ASSUME NEW L \in Seq(Rule)
    PROVE  LET v == [form |-> "list", rules |-> L]
           IN  v \in Value /\ v # Absent /\ Existing(v) = L
<1> DEFINE v == [form |-> "list", rules |-> L]
<1>1. v \in Value
  BY DEF Value, Forms
<1>2. v # Absent
  BY <1>1, ConsulAssumption
<1> QED
  BY <1>1, <1>2 DEF Existing

\* A step of a seeding keeps the store and every seeding right.
LEMMA SeedStep ==
    ASSUME StoreOk, SeedersOk, NEW p \in Seeders, Seed(p)
    PROVE  StoreOk' /\ SeedersOk'
<1>1. \A q \in Seeders : SeedingOk(seeder[q], kv)
  BY DEF SeedersOk
<1>2. faults \in 0..MaxFaults /\ (Fault => faults' \in 0..MaxFaults)
  BY ConsulAssumption DEF StoreOk, Fault
<1>3. ASSUME UNCHANGED <<kv, index>>, UNCHANGED faults \/ Fault PROVE StoreOk'
  BY <1>2, <1>3 DEF StoreOk
<1>4. ASSUME NEW ps, NEW q \in Seeders
      PROVE  /\ DOMAIN Disturb(ps) = Seeders
             /\ q \in ps => \A store : SeedingOk(Disturb(ps)[q], store)
             /\ q \notin ps => Disturb(ps)[q] = seeder[q]
  BY <1>1, Disturbed DEF Disturb
<1>5. DOMAIN seeder = Seeders
  BY DEF SeedersOk
<1>6. Unified \in Keys /\ ToSet(OldKeys) \subseteq Keys /\ Unified \notin ToSet(OldKeys)
  BY ConsulAssumption DEF Keys
<1>7. ASSUME NEW s, UNCHANGED kv, seeder' = [seeder EXCEPT ![p] = s], SeedingOk(s, kv)
      PROVE  SeedersOk'
  BY <1>1, <1>5, <1>7 DEF SeedersOk
<1>8. ASSUME NEW s, seeder' = [Disturb(Seeders \ {p}) EXCEPT ![p] = s], SeedingOk(s, kv')
      PROVE  SeedersOk'
  BY <1>4, <1>8 DEF SeedersOk
<1>9. CASE SeedFetch(p)
  <2>1. Merging(p, Existing(kv[Unified]), TRUE) /\ UNCHANGED <<kv, index, faults>>
    BY <1>9 DEF SeedFetch
  <2>2. /\ DOMAIN seeder' = Seeders
        /\ \A q \in Seeders \ {p} : seeder'[q] = seeder[q]
        /\ SeedingOk(seeder'[p], kv)
    BY <2>1, MergingOk, ExistingTyped
  <2> QED
    BY <1>1, <1>3, <2>1, <2>2 DEF SeedersOk
<1>10. CASE SeedFetchFails(p)
  <2>1. Merging(p, << >>, FALSE) /\ UNCHANGED <<kv, index>> /\ Fault
    BY <1>10 DEF SeedFetchFails
  <2>2. << >> \in Seq(Rule)
    OBVIOUS
  <2>3. /\ DOMAIN seeder' = Seeders
        /\ \A q \in Seeders \ {p} : seeder'[q] = seeder[q]
        /\ SeedingOk(seeder'[p], kv)
    BY <2>1, <2>2, MergingOk
  <2> QED
    BY <1>1, <1>3, <2>1, <2>3 DEF SeedersOk
<1>11. CASE SeedPut(p)
  <2> DEFINE v == [form |-> "list", rules |-> seeder[p].merged]
             d == Disturb(Seeders \ {p})
             s == [[seeder[p] EXCEPT !.pc = "check"] EXCEPT !.merged = << >>]
  <2>1. /\ seeder[p].pc = "put" /\ Write(Unified, v) /\ UNCHANGED faults
        /\ seeder' = [d EXCEPT ![p].pc = "check", ![p].merged = << >>]
    BY <1>11 DEF SeedPut
  <2>2. seeder[p].merged \in Seq(Rule)
    BY <1>1 DEF SeedingOk
  <2>3. v \in Value /\ Existing(v) = seeder[p].merged
    BY <2>2, ListIsValue
  <2>4. kv' = [kv EXCEPT ![Unified] = v]
    BY <2>1 DEF Write
  <2> HIDE DEF v
  <2>5. StoreOk'
    BY <1>2, <1>6, <2>1, <2>3, WriteStore DEF StoreOk
  <2>6. kv'[Unified] = v /\ \A k \in ToSet(OldKeys) : kv'[k] = kv[k]
    BY <1>6, <2>4 DEF StoreOk
  <2>7. DOMAIN d = Seeders /\ d[p] = seeder[p]
    BY <1>4
  <2>8. seeder' = [d EXCEPT ![p] = s]
    <3> HIDE DEF d
    <3> QED
      BY <2>1, <2>7
  <2>9. SeedingOk(seeder[p], kv)
    BY <1>1
  <2>10. /\ DOMAIN s = {"pc", "runs", "merged", "todo", "alone"}
         /\ s.pc = "check" /\ s.merged = << >>
         /\ s.todo = seeder[p].todo /\ s.alone = seeder[p].alone
    BY <2>9 DEF SeedingOk
  <2> HIDE DEF s
  <2>11. << >> \in Seq(Rule)
    OBVIOUS
  <2>12. SeedingOk(s, kv')
    BY <2>1, <2>3, <2>6, <2>9, <2>10, <2>11 DEF SeedingOk, SeedPcs
  <2> QED
    BY <1>8, <2>5, <2>8, <2>12
<1>12. CASE SeedPutRejected(p)
  <2> DEFINE s == [[[seeder[p] EXCEPT !.pc = "check"] EXCEPT !.merged = << >>] EXCEPT !.alone = Absent]
  <2>1. /\ seeder[p].pc = "put" /\ UNCHANGED <<kv, index>> /\ Fault
        /\ seeder' = [seeder EXCEPT ![p].pc = "check", ![p].merged = << >>, ![p].alone = Absent]
    BY <1>12 DEF SeedPutRejected
  <2>2. seeder' = [seeder EXCEPT ![p] = s]
    BY <1>5, <2>1
  <2>3. SeedingOk(seeder[p], kv)
    BY <1>1
  <2>4. /\ DOMAIN s = {"pc", "runs", "merged", "todo", "alone"}
        /\ s.pc = "check" /\ s.merged = << >>
        /\ s.todo = seeder[p].todo /\ s.alone = Absent
    BY <2>3 DEF SeedingOk
  <2> HIDE DEF s
  <2>5. << >> \in Seq(Rule)
    OBVIOUS
  <2>6. SeedingOk(s, kv)
    BY <2>1, <2>3, <2>4, <2>5 DEF SeedingOk, SeedPcs
  <2> QED
    BY <1>3, <1>7, <2>1, <2>2, <2>6
<1>13. CASE SeedPutFails(p)
  <2> DEFINE v == [form |-> "list", rules |-> seeder[p].merged]
             s == Stopped(p, "off", Absent)
  <2>1. /\ Fault
        /\ Write(Unified, v) \/ UNCHANGED <<kv, index>>
        /\ seeder' = [Disturb(Seeders) EXCEPT ![p] = s]
    BY <1>13 DEF SeedPutFails
  <2>2. v \in Value
    <3>1. seeder[p].merged \in Seq(Rule)
      BY <1>1 DEF SeedingOk
    <3> QED
      BY <3>1, ListIsValue
  <2> HIDE DEF v
  <2>3. StoreOk'
    <3>1. CASE Write(Unified, v)
      BY <1>2, <1>6, <2>1, <2>2, <3>1, WriteStore DEF StoreOk
    <3>2. CASE UNCHANGED <<kv, index>>
      BY <1>3, <2>1, <3>2
    <3> QED
      BY <2>1, <3>1, <3>2
  <2>4. SeedingOk(s, kv')
    BY StoppedOk
  <2> HIDE DEF s
  <2> QED
    BY <1>4, <2>1, <2>3, <2>4 DEF SeedersOk
<1>14. CASE SeedCrash(p)
  <2>1. /\ Fault /\ UNCHANGED <<kv, index>>
        /\ seeder' = [seeder EXCEPT ![p] = Stopped(p, "off", Absent)]
    BY <1>14 DEF SeedCrash
  <2> QED
    BY <1>3, <1>7, <2>1, StoppedOk
<1>15. CASE SeedCheck(p)
  <2> DEFINE key == Head(seeder[p].todo)
             s == [seeder[p] EXCEPT !.pc = "delete"]
  <2>1. /\ seeder[p].pc = "check" /\ UNCHANGED <<kv, index, faults>>
        /\ seeder' = [seeder EXCEPT ![p] = IF kv[key] = Absent THEN NextKey(p, seeder[p].alone)
                                                               ELSE s]
    BY <1>5, <1>15 DEF SeedCheck
  <2>2. kv[key] = Absent => SeedingOk(NextKey(p, seeder[p].alone), kv)
    BY <2>1, NextKeyOk
  <2>3. SeedingOk(s, kv)
    <3>1. SeedingOk(seeder[p], kv)
      BY <1>1
    <3>2. /\ DOMAIN s = {"pc", "runs", "merged", "todo", "alone"}
          /\ s.pc = "delete" /\ s.merged = seeder[p].merged
          /\ s.todo = seeder[p].todo /\ s.alone = seeder[p].alone
      BY <3>1 DEF SeedingOk
    <3> HIDE DEF s
    <3> QED
      BY <2>1, <3>1, <3>2 DEF SeedingOk, SeedPcs
  <2> HIDE DEF s, key
  <2> QED
    BY <1>3, <1>7, <2>1, <2>2, <2>3
<1>16. CASE SeedDelete(p)
  <2> DEFINE key == Head(seeder[p].todo)
             d == Disturb(Seeders \ {p})
  <2>1. /\ seeder[p].pc = "delete" /\ UNCHANGED faults
        /\ IF kv[key] = Absent THEN UNCHANGED <<kv, index>> ELSE Write(key, Absent)
        /\ seeder' = [d EXCEPT ![p] = NextKey(p, @.alone)]
    BY <1>16 DEF SeedDelete
  <2>2. DOMAIN d = Seeders /\ d[p] = seeder[p]
    BY <1>4
  <2>3. seeder' = [d EXCEPT ![p] = NextKey(p, seeder[p].alone)]
    <3> HIDE DEF d
    <3> QED
      BY <2>1, <2>2
  <2>4. key \in ToSet(OldKeys)
    <3>1. seeder[p].todo \in Seq(ToSet(OldKeys)) /\ seeder[p].todo # << >>
      BY <1>1, <2>1 DEF SeedingOk
    <3> QED
      BY <3>1
  <2> HIDE DEF d
  <2>5. StoreOk' /\ kv'[key] = Absent /\ kv'[Unified] = kv[Unified]
        /\ \A k \in ToSet(OldKeys) : kv[k] = Absent => kv'[k] = Absent
    <3> HIDE DEF key
    <3>1. CASE kv[key] = Absent
      BY <1>3, <2>1, <3>1
    <3>2. CASE kv[key] # Absent
      <4>1. Write(key, Absent) /\ key \in Keys
        BY <1>6, <2>1, <2>4, <3>2
      <4>2. kv' = [kv EXCEPT ![key] = Absent]
        BY <4>1 DEF Write
      <4>3. StoreOk'
        BY <1>2, <2>1, <4>1, WriteStore DEF StoreOk
      <4> QED
        BY <1>6, <2>4, <4>1, <4>2, <4>3 DEF StoreOk
    <3> QED
      BY <3>1, <3>2
  <2>6. SeedingOk(NextKey(p, seeder[p].alone), kv')
    BY <2>1, <2>5, NextKeyOk
  <2> QED
    BY <1>8, <2>3, <2>5, <2>6 DEF d
<1>17. CASE SeedCleanupFails(p)
  <2>1. /\ seeder[p].pc \in {"check", "delete"} /\ Fault /\ UNCHANGED <<kv, index>>
        /\ seeder' = [seeder EXCEPT ![p] = NextKey(p, Absent)]
    BY <1>17 DEF SeedCleanupFails
  <2> QED
    BY <1>3, <1>7, <2>1, NextKeyOk
<1> QED
  BY <1>9, <1>10, <1>11, <1>12, <1>13, <1>14, <1>15, <1>16, <1>17 DEF Seed

\* So does an operator: every seeding under way counts as disturbed.
LEMMA EditStep ==
    ASSUME StoreOk, SeedersOk, Edit
    PROVE  StoreOk' /\ SeedersOk'
<1>1. PICK e \in Edits : Write(e.key, e.value)
  BY DEF Edit
<1>2. e.value \in Value \union {Absent} /\ e.key \in Keys
  BY ConsulAssumption DEF Keys
<1>3. StoreOk'
  BY <1>1, <1>2, WriteStore DEF StoreOk, Edit
<1>4. \A q \in Seeders : SeedingOk(Disturb(Seeders)[q], kv')
  BY Disturbed DEF Disturb, SeedersOk
<1> QED
  BY <1>3, <1>4 DEF Edit, SeedersOk, Disturb

\* The end of a load keeps the invariant if it was an error, or if the rules
\* are those of a store at least as new as the load.
LEMMA LoadedConsul ==
    ASSUME ConsulInv, NEW w \in Watchers, NEW result, Loaded(w, result),
           watcher[w].pc # "poll", UNCHANGED <<kv, index, seeder>>, faults' \in 0..MaxFaults,
           \/ result = Err
           \/ result = Ok(result.rules) /\ (watcher[w].new = index => result = Load(kv))
    PROVE  ConsulInv'
<1>1. /\ DOMAIN watcher' = Watchers
      /\ \A v \in Watchers \ {w} : watcher'[v] = watcher[v] /\ rules'[v] = rules[v]
      /\ watcher'[w].pc = "poll"
      /\ watcher'[w].last = watcher[w].new
      /\ watcher'[w].new = watcher[w].new
      /\ DOMAIN watcher'[w] = {"pc", "last", "new", "snap", "seen", "failed"}
      /\ DOMAIN rules' = Watchers
      /\ result # Err => rules'[w] = result.rules
  BY DEF Loaded, ConsulInv, WatchersOk, WatcherTypeOk
<1>2. watcher'[w].failed = (result = Err)
  BY DEF Loaded, ConsulInv, WatchersOk, WatcherTypeOk
<1>3. ~watcher'[w].failed => result # Err
  BY <1>2, Zenon
<1>4. StoreOk' /\ SeedersOk' /\ WatchersOk'
  BY <1>1 DEF ConsulInv, StoreOk, SeedersOk, WatchersOk, WatcherTypeOk, LoadOk
<1>5. ASSUME NEW v \in Watchers, watcher'[v].pc = "poll", watcher'[v].last = index',
             ~watcher'[v].failed
      PROVE  Load(kv') = Ok(rules'[v])
  <2>1. CASE v = w
    BY <2>1, <1>1, <1>3, <1>5
  <2>2. CASE v # w
    BY <2>2, <1>1, <1>5 DEF ConsulInv, CaughtUp
  <2> QED
    BY <2>1, <2>2
<1> QED
  BY <1>4, <1>5 DEF ConsulInv, CaughtUp

\* A step of a watcher keeps the invariant.
LEMMA WatchConsul ==
    ASSUME ConsulInv, NEW w \in Watchers, Watch(w)
    PROVE  ConsulInv'
<1>1. faults \in 0..MaxFaults
  BY DEF ConsulInv, StoreOk
<1>2. UNCHANGED <<kv, seeder>> => SeedersOk'
  BY DEF ConsulInv, SeedersOk
<1>3. CASE Poll(w)
  BY <1>3, <1>2 DEF Poll, ConsulInv, StoreOk, WatchersOk, WatcherTypeOk, LoadOk, CaughtUp
<1>4. CASE Probe(w)
  <2>1. CASE Loaded(w, Err)
    BY <1>1, <1>4, <2>1, LoadedConsul DEF Probe
  <2>2. CASE watcher' = [watcher EXCEPT ![w].pc = "list"] /\ UNCHANGED rules
    BY <1>4, <1>2, <2>2 DEF Probe, ConsulInv, StoreOk, WatchersOk, WatcherTypeOk, LoadOk, CaughtUp
  <2> QED
    BY <1>4, <2>1, <2>2 DEF Probe
<1>5. CASE List(w)
  BY <1>5, <1>2 DEF List, ConsulInv, StoreOk, WatchersOk, WatcherTypeOk, LoadOk, CaughtUp
<1>6. CASE LoadFails(w)
  <2>1. faults' \in 0..MaxFaults
    BY <1>1, <1>6, ConsulAssumption DEF LoadFails, Fault
  <2> QED
    BY <1>6, <2>1, LoadedConsul DEF LoadFails
<1>7. CASE Compile(w)
  <2>1. watcher[w].new = index => watcher[w].snap = kv
    BY <1>7 DEF Compile, ConsulInv, StoreOk, WatchersOk, WatcherTypeOk, LoadOk
  <2>2. watcher[w].new = index => Load(watcher[w].snap) = Load(kv)
    BY <2>1
  <2>3. Load(watcher[w].snap) = Err \/ Load(watcher[w].snap) = Ok(Load(watcher[w].snap).rules)
    BY DEF Load, Ok
  <2> QED
    BY <1>1, <1>7, <2>2, <2>3, LoadedConsul DEF Compile
<1> QED
  BY <1>3, <1>4, <1>5, <1>6, <1>7 DEF Watch

\* Every step keeps the invariant.
LEMMA NextConsul == ConsulInv /\ [Next]_vars => ConsulInv'
<1> SUFFICES ASSUME ConsulInv, [Next]_vars PROVE ConsulInv'
  OBVIOUS
<1>1. CASE Edit \/ \E p \in Seeders : Seed(p)
  <2>1. StoreOk' /\ SeedersOk'
    BY <1>1, EditStep, SeedStep DEF ConsulInv
  <2>2. WatchersOk' /\ CaughtUp'
    BY <1>1, WritersMoveIndex
       DEF ConsulInv, StoreOk, WatchersOk, WatcherTypeOk, LoadOk, CaughtUp
  <2> QED
    BY <2>1, <2>2 DEF ConsulInv
<1>2. CASE \E w \in Watchers : Watch(w)
  BY <1>2, WatchConsul
<1>3. CASE UNCHANGED vars
  BY <1>3 DEF vars, ConsulInv, StoreOk, SeedersOk, WatchersOk, WatcherTypeOk, LoadOk, CaughtUp
<1> QED
  BY <1>1, <1>2, <1>3 DEF Next

\* The conjunction of the typing of store, seedings and watchers, of what each
\* undisturbed seeding may claim, and of CaughtUp is an invariant.
THEOREM ConsulInvariant == Spec => []ConsulInv
BY InitConsul, NextConsul, PTL DEF Spec

-----------------------------------------------------------------------------
(***************************************************************************)
(* What the invariant gives                                                *)
(***************************************************************************)
\* Every execution of seeders, watchers and operators is well typed: the store
\* and the lists to be written hold rules, and no watcher is ahead of the index.
THEOREM ConsulTypeCorrect == Spec => []ConsulTypeOK
<1>1. ConsulInv => ConsulTypeOK
  BY DEF ConsulInv, ConsulTypeOK, StoreOk, SeedersOk, SeedingOk, SeedPcs, WatchersOk, WatcherTypeOk
<1> QED
  BY <1>1, ConsulInvariant, PTL

\* A watcher that waits for the next index, and whose last load did not fail,
\* enforces what the store holds, whatever was written during the load
\* (spawn_watcher takes the index of the poll, not of the load, as done).
THEOREM WatcherCaughtUp == Spec => []CaughtUp
BY ConsulInvariant, PTL DEF ConsulInv

\* A seeding that writes its list and counts as undisturbed writes back every
\* rule of a stored list that is not a default rule, for every release, every
\* list and every interleaving (seed_rules_to_consul, steps 1 to 3).  Nothing
\* is claimed of a stored { rules: [] } object, which a seeding does not find.
THEOREM CustomRulesSurviveSeeding == Spec => SeedKeepsCustom
<1> DEFINE Kept ==
      \A p \in Seeders :
         seeder[p].pc = "put" /\ seeder'[p].pc = "check" /\ seeder'[p].alone # Absent
           => LET stored == seeder[p].alone.stored
              IN  stored # Absent /\ stored.form = "list"
                    => \A r \in ToSet(stored.rules) :
                         r.dflt \/ r \in ToSet(Existing(kv'[Unified]))
<1>1. ASSUME ConsulInv, ConsulInv', [Next]_vars PROVE [Kept]_vars
  <2> SUFFICES ASSUME Next, NEW p \in Seeders,
                      seeder[p].pc = "put", seeder'[p].pc = "check", seeder'[p].alone # Absent,
                      seeder[p].alone.stored # Absent, seeder[p].alone.stored.form = "list",
                      NEW r \in ToSet(seeder[p].alone.stored.rules)
               PROVE  r.dflt \/ r \in ToSet(Existing(kv'[Unified]))
    BY <1>1
  <2>1. SeedingOk(seeder[p], kv) /\ DOMAIN seeder = Seeders
    BY <1>1 DEF ConsulInv, SeedersOk
  <2>2. SeedPut(p)
    <3>1. \A ps : DOMAIN Disturb(ps) = Seeders /\ Disturb(ps)[p].pc = "put"
      BY <2>1 DEF Disturb, SeedingOk
    <3>2. ~Edit /\ ~\E w \in Watchers : Watch(w)
      BY <3>1 DEF Edit, Watch, Poll, Probe, List, LoadFails, Compile
    <3>3. PICK q \in Seeders : Seed(q)
      BY <3>2 DEF Next
    <3>4. q = p
      <4> SUFFICES ASSUME q # p PROVE seeder'[p].pc = "put"
        OBVIOUS
      <4> QED
        BY <2>1, <3>1, <3>3 DEF Seed, SeedFetch, SeedFetchFails, Merging, SeedPut, SeedPutRejected,
           SeedPutFails, SeedCrash, SeedCheck, SeedDelete, SeedCleanupFails
    <3>5. ~SeedPutRejected(p) /\ ~SeedPutFails(p) /\ ~SeedCrash(p)
      <4>1. SeedPutRejected(p) => seeder'[p].alone = Absent
        BY <2>1 DEF SeedPutRejected, SeedingOk
      <4>2. Stopped(p, "off", Absent).pc = "off"
        BY <2>1 DEF Stopped, SeedingOk
      <4>3. SeedPutFails(p) \/ SeedCrash(p) => seeder'[p].pc = "off"
        BY <2>1, <3>1, <4>2 DEF SeedPutFails, SeedCrash
      <4> QED
        BY <4>1, <4>3
    <3>6. ~SeedFetch(p) /\ ~SeedFetchFails(p) /\ ~SeedCheck(p) /\ ~SeedDelete(p) /\ ~SeedCleanupFails(p)
      BY DEF SeedFetch, SeedFetchFails, Merging, SeedCheck, SeedDelete, SeedCleanupFails
    <3> QED
      BY <3>3, <3>4, <3>5, <3>6 DEF Seed
  <2> DEFINE L == seeder[p].merged
             v == [form |-> "list", rules |-> L]
             found == Existing(seeder[p].alone.stored)
  <2>3. L \in Seq(Rule)
    BY <2>1 DEF SeedingOk
  <2>4. kv'[Unified] = v
    BY <1>1, <2>2 DEF SeedPut, Write, ConsulInv, StoreOk, Keys
  <2>5. Existing(v) = L
    BY <2>3, ListIsValue
  <2>6. seeder'[p].alone = seeder[p].alone
    <3>1. LET d == Disturb(Seeders \ {p}) IN DOMAIN d = Seeders /\ d[p] = seeder[p]
      BY DEF Disturb
    <3> QED
      BY <2>1, <2>2, <3>1 DEF SeedPut, SeedingOk
  <2>7. Keeps(L, found)
    BY <2>1, <2>6 DEF SeedingOk, MergedOk
  <2>8. PICK j \in DOMAIN found : found[j] = r
    BY DEF ToSet, Existing
  <2>9. r.dflt \/ r \in ToSet(L)
    <3> HIDE DEF L, found
    <3> QED
      BY <2>7, <2>8 DEF Keeps, ToSet
  <2> QED
    BY <2>4, <2>5, <2>9
<1> QED
  BY <1>1, ConsulInvariant, PTL DEF Spec, SeedKeepsCustom

\* A store with a list of distinct rules that load under the unified key, and
\* beside it only keys that load and repeat none of their ids, is loaded, and
\* the rules of the list are among those loaded.
LEMMA ListLoads ==
    ASSUME NEW store, NEW L \in Seq(Rule), Distinct(L), Sound(L),
           store[Unified] # Absent, store[Unified].form = "list", store[Unified].rules = L,
           \A k \in ToSet(OldKeys) : store[k] = Absent,
           NEW sources, ~AsideClashes(store, sources),
           \A i \in DOMAIN L : \E r \in sources : r.id = L[i].id
    PROVE  Load(store) # Err /\ \A i \in DOMAIN L : L[i] \in Load(store).rules
<1> DEFINE live == {k \in Keys : store[k] # Absent}
           at == Places(store)
           loaded == {RuleAt(store, p) : p \in at}
<1>1. Unified \in live /\ store[Unified].form # "binary"
  BY DEF Keys
<1>2. \A k \in live : k = Unified \/ k \in OtherKeys
  BY DEF Keys
<1>3. Parsed(store[Unified]) = L
  BY DEF Parsed, Sound
<1>4. at = UNION {{<<k, i>> : i \in DOMAIN Parsed(store[k])} : k \in live}
  BY DEF Places
<1>5. ASSUME NEW i \in DOMAIN L PROVE <<Unified, i>> \in at /\ RuleAt(store, <<Unified, i>>) = L[i]
  <2> HIDE DEF live
  <2>1. <<Unified, i>> \in {<<Unified, n>> : n \in DOMAIN Parsed(store[Unified])}
    BY <1>3
  <2> QED
    BY <1>1, <1>3, <1>4, <2>1 DEF RuleAt
<1>6. ASSUME NEW p \in at
      PROVE  p \in Aside(store) \/ \E i \in DOMAIN L : p = <<Unified, i>>
  <2> HIDE DEF live
  <2>1. PICK k \in live : p \in {<<k, i>> : i \in DOMAIN Parsed(store[k])}
    BY <1>4, <1>6
  <2>2. PICK i \in DOMAIN Parsed(store[k]) : p = <<k, i>>
    BY <2>1
  <2>3. CASE k = Unified
    BY <1>3, <2>2, <2>3
  <2>4. CASE k \in OtherKeys
    BY <1>6, <2>2, <2>4 DEF Aside
  <2> QED
    BY <1>2, <2>1, <2>3, <2>4
<1>7. ~\E k \in live : store[k].form = "binary"
  BY <1>1, <1>2 DEF AsideClashes
<1> HIDE DEF live, at
<1>8. ~\E p \in at : RuleAt(store, p).body = "invalid"
  BY <1>5, <1>6 DEF AsideClashes, Sound
<1>9. ASSUME NEW p \in at, NEW q \in at, p # q PROVE RuleAt(store, p).id # RuleAt(store, q).id
  <2>1. ASSUME NEW a \in Aside(store), NEW i \in DOMAIN L PROVE RuleAt(store, a).id # L[i].id
    BY DEF AsideClashes
  <2>2. CASE p \in Aside(store) /\ q \in Aside(store)
    BY <1>9, <2>2 DEF AsideClashes
  <2>3. CASE p \in Aside(store) /\ \E i \in DOMAIN L : q = <<Unified, i>>
    BY <1>5, <2>1, <2>3
  <2>4. CASE q \in Aside(store) /\ \E i \in DOMAIN L : p = <<Unified, i>>
    BY <1>5, <2>1, <2>4
  <2>5. CASE (\E i \in DOMAIN L : p = <<Unified, i>>) /\ \E i \in DOMAIN L : q = <<Unified, i>>
    BY <1>5, <1>9, <2>5 DEF Distinct
  <2> QED
    BY <1>6, <2>2, <2>3, <2>4, <2>5
<1>10. Load(store) = Ok(loaded)
  BY <1>1, <1>7, <1>8, <1>9 DEF Load, live, at
<1>11. \A i \in DOMAIN L : L[i] \in loaded
  BY <1>5
<1> HIDE DEF loaded
<1> QED
  BY <1>10, <1>11 DEF Ok, Err

\* What an undisturbed seeding leaves behind can be loaded and has a rule for
\* every id it found or ships, unless that cannot be had from what it started
\* from or an operator's further keys clash with it: for every release and every
\* store, whatever was under the old keys (seed_rules_to_consul, steps 2 to 4;
\* load_from_consul).
THEOREM SeedingLeavesLoadableRules == Spec => []SeededIsLoadable
<1>1. ASSUME ConsulInv PROVE SeededIsLoadable
  <2> SUFFICES ASSUME NEW p \in Seeders, seeder[p].pc = "done", seeder[p].alone # Absent
               PROVE  LET found == Existing(seeder[p].alone.stored)
                          release == seeder[p].alone.release
                          sources == ToSet(found) \union ToSet(release)
                      IN  \/ sources = {}
                          \/ \E i, j \in DOMAIN found : i # j /\ found[i].id = found[j].id
                          \/ \E r \in sources : r.body \in {"bad", "invalid"}
                          \/ AsideClashes(kv, sources)
                          \/ /\ Load(kv) # Err
                             /\ \A r \in sources : \E l \in Load(kv).rules : l.id = r.id
    BY DEF SeededIsLoadable
  <2> DEFINE found == Existing(seeder[p].alone.stored)
             release == seeder[p].alone.release
             sources == ToSet(found) \union ToSet(release)
             L == Existing(kv[Unified])
  <2>1. SeedingOk(seeder[p], kv)
    BY <1>1 DEF ConsulInv, SeedersOk
  <2>2. MergedOk(found, release, L)
    BY <2>1 DEF SeedingOk
  <2>3. \A k \in ToSet(OldKeys) : kv[k] = Absent
    BY <2>1 DEF SeedingOk, ToSet
  <2> SUFFICES ASSUME sources # {}, Distinct(found),
                      \A r \in sources : r.body \notin {"bad", "invalid"},
                      ~AsideClashes(kv, sources)
               PROVE  Load(kv) # Err /\ \A r \in sources : \E l \in Load(kv).rules : l.id = r.id
    BY DEF Distinct
  <2>4. Sound(found) /\ Sound(release)
    BY DEF Sound, ToSet
  <2> HIDE DEF found, release
  <2>5. /\ L \in Seq(Rule) /\ Distinct(L) /\ Sound(L)
        /\ Covers(L, found) /\ Covers(L, release) /\ Within(L, found, release)
    BY <2>2, <2>4 DEF MergedOk
  <2>6. ASSUME NEW r \in sources PROVE \E i \in DOMAIN L : L[i].id = r.id
    <3> HIDE DEF L
    <3> QED
      BY <2>5 DEF Covers, ToSet
  <2>7. \A i \in DOMAIN L : \E r \in sources : r.id = L[i].id
    <3> HIDE DEF L
    <3> QED
      BY <2>5 DEF Within, Has, ToSet
  <2>8. L # << >>
    <3>1. PICK r : r \in sources
      OBVIOUS
    <3>2. PICK i \in DOMAIN L : L[i].id = r.id
      BY <2>6, <3>1
    <3> HIDE DEF L
    <3> QED
      BY <3>2
  <2>9. kv[Unified] # Absent /\ kv[Unified].form = "list" /\ kv[Unified].rules = L
    BY <2>8 DEF Existing
  <2> HIDE DEF L, sources
  <2>10. Load(kv) # Err /\ \A i \in DOMAIN L : L[i] \in Load(kv).rules
    BY <2>3, <2>5, <2>7, <2>9, ListLoads
  <2> QED
    BY <2>6, <2>10
<1> QED
  BY <1>1, ConsulInvariant, PTL
=============================================================================
