--------------------------- MODULE WafProxyProofs ---------------------------
(***************************************************************************)
(* Proofs about HotReload, for every directory, channel capacity and       *)
(* number of edits and faults, and about WafProxy, for any number of       *)
(* requests in flight and all rule files, verdicts, backends and           *)
(* priorities.                                                             *)
(*                                                                         *)
(* A request holds on to an engine while the watcher replaces it, so the   *)
(* invariant says what the engine it holds still guarantees.               *)
(***************************************************************************)
EXTENDS WafProxy, FiniteSetTheorems, TLAPS

(***************************************************************************)
(* HotReload: the watcher alone.                                           *)
(***************************************************************************)
\* The entries of a file in a view or in the list being read.
Of(view, f) == {e \in view : e[1] = f}

\* What a load for the engine makes of the file as it is on disk.
OnDisk(f) == IF Parses(f, "read_engine") THEN {<<f, disk[f].ver>>} ELSE {}

\* The engine load in progress: a listed file that nobody has edited is either
\* still to be read or was read as it is.
LoadIsFaithful ==
    pc = "read_engine" =>
        \A f \in Files \ touched :
            Of(acc, f) = IF f \in todo THEN {} ELSE OnDisk(f)

\* Versions never exceed what is on disk, and what is read now is not older
\* than what was read for the value it is going to replace.
VersionsOk ==
    /\ \A f \in Files : disk[f].ver <= edits
    /\ \A e \in engine.view \union rules.view : e[2] <= disk[e[1]].ver
    /\ pc \in {"read_rules", "read_engine"} =>
          /\ \A x, y \in acc : x[1] = y[1] => x = y
          /\ \A x \in acc : x[1] \notin todo /\ x[2] <= disk[x[1]].ver
    /\ pc = "read_rules" => ViewOk(rules.view, acc)
    /\ pc = "read_engine" => ViewOk(engine.view, acc)
    /\ \A x, y \in engine.view : x[1] = y[1] => x = y
    /\ \A x, y \in rules.view : x[1] = y[1] => x = y

RInv ==
    /\ ReloadTypeOK
    /\ LoadIsFaithful
    /\ UntouchedFilesAreEnforced
    /\ VersionsOk

\* The store loaded by AppState::init satisfies the invariant.
LEMMA ReloadInitOk == ReloadInit => RInv
<1> SUFFICES ASSUME ReloadInit PROVE RInv
  OBVIOUS
<1> USE HotReloadAssumption DEF ReloadInit
<1>1. \A f \in Files : disk[f].ver = 0
  OBVIOUS
<1>2. disk \in [Files -> Content]
  <2>1. \A c \in [ver : {0}, form : Forms \ {"torn"}] : c \in Content
    BY DEF Content, Forms
  <2> QED
    BY <2>1
<1>3. \A e \in engine.view \union rules.view : \E f \in Files : e = <<f, 0>>
  BY <1>1 DEF View
<1>4. /\ rules.view \in SUBSET (Files \X Nat)
      /\ engine.view \in SUBSET (Files \X Nat)
  BY <1>3
<1>5. ReloadTypeOK
  <2>1. queue \in Seq({"change", "other", "error"}) /\ Len(queue) <= ChannelCap
    OBVIOUS
  <2>2. /\ rules \in [gen : Nat, view : SUBSET (Files \X Nat)]
        /\ engine \in [gen : Nat, view : SUBSET (Files \X Nat), plugins : SUBSET Plugins]
    BY <1>4
  <2>3. lost \in BOOLEAN
    OBVIOUS
  <2> QED
    BY <1>2, <2>1, <2>2, <2>3 DEF ReloadTypeOK
<1>6. LoadIsFaithful
  BY DEF LoadIsFaithful
<1>7. UntouchedFilesAreEnforced
  <2> SUFFICES ASSUME NEW f \in Files
               PROVE  {e \in View("read_engine") : e[1] = f} =
                          IF Parses(f, "read_engine") THEN {<<f, disk[f].ver>>} ELSE {}
    BY DEF UntouchedFilesAreEnforced
  <2>1. ASSUME NEW e \in View("read_engine"), e[1] = f
        PROVE  e = <<f, 0>> /\ Parses(f, "read_engine")
    BY <1>1, <2>1 DEF View
  <2>2. ASSUME Parses(f, "read_engine") PROVE <<f, 0>> \in View("read_engine")
    BY <1>1, <2>2 DEF View
  <2> QED
    BY <1>1, <2>1, <2>2
<1>8. VersionsOk
  <2>1. \A e \in engine.view \union rules.view : e[1] \in Files /\ e[2] = 0 /\ e = <<e[1], e[2]>>
    BY <1>3
  <2> QED
    BY <1>1, <2>1 DEF VersionsOk, ViewOk
<1> QED
  BY <1>5, <1>6, <1>7, <1>8 DEF RInv

\* recv takes the first event of the channel.
LEMMA TailOk ==
    ASSUME NEW S, NEW q \in Seq(S), q # <<>>
    PROVE  Tail(q) \in Seq(S) /\ Len(Tail(q)) = Len(q) - 1 /\ Len(q) \in Nat
  OBVIOUS

\* Every step of the directory, of notify and of the watcher keeps the types.
LEMMA TypeStep == ReloadTypeOK /\ [ReloadNext]_reloadVars => ReloadTypeOK'
<1> SUFFICES ASSUME ReloadTypeOK, [ReloadNext]_reloadVars PROVE ReloadTypeOK'
  OBVIOUS
<1> USE HotReloadAssumption DEF ReloadTypeOK
<1>1. ASSUME NEW f \in Files, NEW form \in Forms, Edit(f, form) PROVE ReloadTypeOK'
  BY <1>1 DEF Edit, Content
<1>2. CASE NotifyOther
  BY <1>2 DEF NotifyOther
<1>3. CASE NotifyError
  BY <1>3 DEF NotifyError
<1>4. CASE RulesFault
  BY <1>4 DEF RulesFault, LoadFault
<1>5. CASE EngineFault
  BY <1>5 DEF EngineFault, LoadFault
<1>6. CASE ListEngineMissing
  BY <1>6 DEF ListEngineMissing
<1>7. CASE Notify
  BY <1>7 DEF Notify
<1>8. CASE Recv
  <2>1. /\ queue' \in Seq({"change", "other", "error"})
        /\ Len(queue') <= ChannelCap
    BY <1>8, TailOk DEF Recv
  <2>2. CASE Head(queue) = "change"
    <3>1. lost' \in BOOLEAN
      BY <1>8, <2>2 DEF Recv
    <3> QED
      BY <1>8, <2>1, <2>2, <3>1 DEF Recv
  <2>3. CASE Head(queue) # "change"
    BY <1>8, <2>1, <2>3 DEF Recv
  <2> QED
    BY <2>2, <2>3
<1>9. CASE ListRules
  BY <1>9 DEF ListRules, List
<1>10. CASE ListEngine
  BY <1>10 DEF ListEngine, List
<1>11. ASSUME NEW f \in Files, ReadFile(f) PROVE ReloadTypeOK'
  <2>1. disk[f].ver \in Nat
    BY DEF Content
  <2> QED
    BY <1>11, <2>1 DEF ReadFile
<1>12. CASE SwapRules
  BY <1>12 DEF SwapRules
<1>13. CASE SwapEngine
  BY <1>13 DEF SwapEngine
<1>14. CASE UNCHANGED reloadVars
  BY <1>14 DEF reloadVars
<1> QED
  BY <1>1, <1>2, <1>3, <1>4, <1>5, <1>6, <1>7, <1>8, <1>9, <1>10, <1>11, <1>12,
     <1>13, <1>14 DEF ReloadNext, Environment, Watcher, FormsOf

\* No step makes the load in progress, or the engine it installs, forget or
\* invent the rules of a file that was not edited.
LEMMA FaithfulStep ==
    RInv /\ [ReloadNext]_reloadVars => LoadIsFaithful' /\ UntouchedFilesAreEnforced'
<1> SUFFICES ASSUME RInv, [ReloadNext]_reloadVars
             PROVE  LoadIsFaithful' /\ UntouchedFilesAreEnforced'
  OBVIOUS
<1> DEFINE Goal == LoadIsFaithful /\ UntouchedFilesAreEnforced
<1> USE DEF RInv, LoadIsFaithful, UntouchedFilesAreEnforced, Of, OnDisk, Parses
<1>1. ASSUME NEW f \in Files, NEW form \in Forms, Edit(f, form) PROVE Goal'
  <2>1. \A g \in Files \ {f} : disk'[g] = disk[g]
    BY <1>1 DEF Edit, ReloadTypeOK
  <2> QED
    BY <1>1, <2>1 DEF Edit
<1>2. CASE NotifyOther
  BY <1>2 DEF NotifyOther
<1>3. CASE NotifyError
  BY <1>3 DEF NotifyError
<1>4. CASE RulesFault
  BY <1>4 DEF RulesFault, LoadFault
<1>5. CASE EngineFault
  BY <1>5 DEF EngineFault, LoadFault
<1>6. CASE ListEngineMissing
  BY <1>6 DEF ListEngineMissing
<1>7. CASE Notify
  BY <1>7 DEF Notify
<1>8. CASE Recv
  BY <1>8 DEF Recv
<1>9. CASE ListRules
  BY <1>9 DEF ListRules, List
<1>10. CASE ListEngine
  BY <1>10 DEF ListEngine, List
<1>11. ASSUME NEW f \in Files, ReadFile(f) PROVE Goal'
  <2>1. UntouchedFilesAreEnforced'
    BY <1>11 DEF ReadFile
  <2>2. ASSUME pc = "read_engine", NEW g \in Files \ touched
        PROVE  Of(acc', g) = IF g \in todo' THEN {} ELSE OnDisk(g)
    <3>1. CASE g = f
      <4>1. Of(acc, f) = {}
        BY <1>11, <2>2, <3>1 DEF ReadFile
      <4>2. Of(acc', f) = OnDisk(f)
        BY <1>11, <2>2, <4>1 DEF ReadFile
      <4> QED
        BY <1>11, <3>1, <4>2 DEF ReadFile
    <3>2. CASE g # f
      <4>1. Of(acc', g) = Of(acc, g)
        BY <1>11, <3>2 DEF ReadFile
      <4> QED
        BY <1>11, <2>2, <3>2, <4>1 DEF ReadFile
    <3> QED
      BY <3>1, <3>2
  <2> QED
    BY <1>11, <2>1, <2>2 DEF ReadFile
<1>12. CASE SwapRules
  BY <1>12 DEF SwapRules
<1>13. CASE SwapEngine
  BY <1>13 DEF SwapEngine
<1>14. CASE UNCHANGED reloadVars
  BY <1>14 DEF reloadVars
<1> QED
  BY <1>1, <1>2, <1>3, <1>4, <1>5, <1>6, <1>7, <1>8, <1>9, <1>10, <1>11, <1>12,
     <1>13, <1>14 DEF ReloadNext, Environment, Watcher, FormsOf

\* Versions on disk only grow and a load reads each file once.
LEMMA VersionsStep == RInv /\ [ReloadNext]_reloadVars => VersionsOk'
<1> SUFFICES ASSUME RInv, [ReloadNext]_reloadVars PROVE VersionsOk'
  OBVIOUS
<1> USE DEF RInv, VersionsOk, ViewOk
<1>1. ASSUME NEW f \in Files, NEW form \in Forms, Edit(f, form) PROVE VersionsOk'
  <2>1. \A g \in Files : disk[g].ver \in Nat /\ disk'[g].ver \in Nat
                         /\ disk[g].ver <= disk'[g].ver /\ disk'[g].ver <= edits'
    BY <1>1 DEF Edit, ReloadTypeOK, Content
  <2>2. \A e \in acc \union engine.view \union rules.view : e[1] \in Files /\ e[2] \in Nat
    BY DEF ReloadTypeOK
  <2> QED
    BY <1>1, <2>1, <2>2 DEF Edit
<1>2. CASE NotifyOther
  BY <1>2 DEF NotifyOther
<1>3. CASE NotifyError
  BY <1>3 DEF NotifyError
<1>4. CASE RulesFault
  BY <1>4 DEF RulesFault, LoadFault
<1>5. CASE EngineFault
  BY <1>5 DEF EngineFault, LoadFault
<1>6. CASE ListEngineMissing
  BY <1>6 DEF ListEngineMissing
<1>7. CASE Notify
  BY <1>7 DEF Notify
<1>8. CASE Recv
  BY <1>8 DEF Recv
<1>9. CASE ListRules
  BY <1>9 DEF ListRules, List
<1>10. CASE ListEngine
  BY <1>10 DEF ListEngine, List
<1>11. ASSUME NEW f \in Files, ReadFile(f) PROVE VersionsOk'
  <2>1. disk[f].ver \in Nat
    BY DEF ReloadTypeOK, Content
  <2>2. \A x \in acc' : x \in acc \/ x = <<f, disk[f].ver>>
    BY <1>11 DEF ReadFile
  <2> QED
    BY <1>11, <2>1, <2>2 DEF ReadFile
<1>12. CASE SwapRules
  BY <1>12 DEF SwapRules, ReloadTypeOK
<1>13. CASE SwapEngine
  BY <1>13 DEF SwapEngine, ReloadTypeOK
<1>14. CASE UNCHANGED reloadVars
  BY <1>14 DEF reloadVars
<1> QED
  BY <1>1, <1>2, <1>3, <1>4, <1>5, <1>6, <1>7, <1>8, <1>9, <1>10, <1>11, <1>12,
     <1>13, <1>14 DEF ReloadNext, Environment, Watcher, FormsOf

\* RInv is an inductive invariant of the reload.
THEOREM ReloadInvariant == ReloadSpec => []RInv
<1>1. RInv /\ [ReloadNext]_reloadVars => RInv'
  BY TypeStep, FaithfulStep, VersionsStep DEF RInv
<1> QED
  BY ReloadInitOk, <1>1, PTL DEF ReloadSpec

\* The channel never holds more than its capacity, the watcher reads only
\* files of the directory and an engine has only plugins of AppState::init.
THEOREM ReloadTypeCorrect == ReloadSpec => []ReloadTypeOK
<1>1. RInv => ReloadTypeOK
  BY DEF RInv
<1> QED
  BY ReloadInvariant, <1>1, PTL

\* A reload that reads one file torn, or runs while files change, leaves the
\* rules of every other file in force exactly as they are on disk.
THEOREM ReloadKeepsUntouchedFiles == ReloadSpec => []UntouchedFilesAreEnforced
<1>1. RInv => UntouchedFilesAreEnforced
  BY DEF RInv
<1> QED
  BY ReloadInvariant, <1>1, PTL

\* Neither the engine nor the routing list ever goes back to an older content.
THEOREM ReloadNeverRegresses == ReloadSpec => ContentsNeverRegress
<1> DEFINE A == ViewOk(engine.view, engine'.view) /\ ViewOk(rules.view, rules'.view)
<1>1. RInv /\ [ReloadNext]_reloadVars => [A]_reloadVars
  <2> SUFFICES ASSUME RInv, ReloadNext PROVE A
    OBVIOUS
  <2> USE DEF RInv
  <2>1. ViewOk(engine.view, engine.view) /\ ViewOk(rules.view, rules.view)
    BY DEF VersionsOk, ViewOk, ReloadTypeOK
  <2>2. CASE UNCHANGED <<engine, rules>>
    BY <2>1, <2>2
  <2>3. CASE SwapRules
    BY <2>1, <2>3 DEF SwapRules, VersionsOk
  <2>4. CASE SwapEngine
    BY <2>1, <2>4 DEF SwapEngine, VersionsOk
  <2> QED
    BY <2>2, <2>3, <2>4 DEF ReloadNext, Environment, Watcher, Edit, Notify, NotifyOther,
       NotifyError, RulesFault, EngineFault, LoadFault, ListEngineMissing, Recv,
       ListRules, ListEngine, List, ReadFile
<1> QED
  BY ReloadInvariant, <1>1, PTL DEF ReloadSpec, ContentsNeverRegress

-----------------------------------------------------------------------------
(***************************************************************************)
(* WafProxy: requests that are served during reloads.                      *)
(***************************************************************************)
Places == {"idle", "body", "inspect", "judge", "resolve", "forward", "upstream",
           "answered", "gone"}

EngineRec == [gen : Nat, view : SUBSET (Files \X Nat), plugins : SUBSET Plugins]

ReqRec == [at : Places, code : {0, 200, 400, 403, 429, 502}, engine : EngineRec,
           solid : SUBSET Files, routed : Nat, upstream : Urls]

\* Without faults the routing list is of the reload in progress from its swap
\* on, and never older than the engine.
GenerationsOk ==
    /\ engine.gen <= gen
    /\ rules.gen <= gen
    /\ faults = 0 =>
          /\ engine.gen <= rules.gen
          /\ pc \in {"list_engine", "read_engine"} => rules.gen = gen

\* What lets a request past a file of its engine.
Excused(f, eng) ==
    \/ Verdict[f] \in {"Log", "Allow"}
    \/ ~(Needs[f] \subseteq eng.plugins)
    \/ Outranked(f, eng)

\* What a request in state s can rely on.
ReqOk(s) ==
    /\ s.at \in {"judge", "resolve", "forward", "upstream"} =>
          s.engine.gen <= rules.gen \/ faults > 0
    /\ s.at = "judge" => \A f \in s.solid : \E e \in s.engine.view : e[1] = f
    /\ s.at \in {"resolve", "forward", "upstream"} =>
          \A f \in s.solid : Excused(f, s.engine)
    /\ s.at \in {"forward", "upstream"} => s.routed >= s.engine.gen \/ faults > 0

PInv ==
    /\ RInv
    /\ GenerationsOk
    /\ req \in [Requests -> ReqRec]
    /\ \A r \in Requests : ReqOk(req[r])

-----------------------------------------------------------------------------
\* Requests only read the store: the watcher, its locks and the directory
\* behave under any load of requests as they do alone.
THEOREM RequestsDoNotDisturbReloads ==
    ProxySpec => ReloadInit /\ [][ReloadNext]_reloadVars
<1>1. ProxyInit => ReloadInit
  BY DEF ProxyInit
<1>2. [ProxyNext]_proxyVars => [ReloadNext]_reloadVars
  BY DEF ProxyNext, proxyVars, Handler, Peers, TakeEngine, Judge, Resolve, Forward,
         ForwardFails, Arrive, BodyRead, BodyFails, ClientGone, UpstreamReplies,
         UpstreamFails, Goto, Answer
<1> QED
  BY <1>1, <1>2, PTL DEF ProxySpec

-----------------------------------------------------------------------------
\* What the firing loop allows, it has either not come to, because of files
\* that outrank it, or come to without an objection.
LEMMA AllowMeansNoObjection ==
    ASSUME NEW eng, NEW S \in Fired(eng), Decide(S) = "Allow",
           NEW f \in Files, \E e \in eng.view : e[1] = f
    PROVE  Excused(f, eng)
<1> SUFFICES ASSUME Verdict[f] \notin {"Log", "Allow"}, Needs[f] \subseteq eng.plugins
             PROVE  Outranked(f, eng)
  BY DEF Excused
<1> DEFINE M == Matching(eng)
           above == {g \in M \ {f} : Salience[g] >= Salience[f]}
<1>1. f \in M
  BY DEF Matching
<1>2. /\ S \subseteq M
      /\ \A h \in S, g \in M \ S : Salience[h] >= Salience[g]
      /\ S = M \/ Cardinality(S) = MaxCycles \/ \E h \in S : Ends(h)
  BY DEF Fired
<1>3. \A h \in S : Verdict[h] \notin {"Block", "Challenge", "RateLimit"}
  <2> SUFFICES ASSUME NEW h \in S PROVE Verdict[h] \notin {"Block", "Challenge", "RateLimit"}
    OBVIOUS
  <2>1. Verdict[h] \in {Verdict[g] : g \in S}
    OBVIOUS
  <2> QED
    BY <2>1 DEF Decide
<1>4. f \notin S
  BY <1>3, WafProxyAssumption DEF Verdicts
<1>5. S \subseteq above
  BY <1>1, <1>2, <1>4
<1>6. CASE \E h \in S : Ends(h)
  BY <1>3, <1>5, <1>6 DEF Ends, Outranked
<1>7. CASE Cardinality(S) = MaxCycles
  <2>1. IsFiniteSet(above)
    <3>1. above \subseteq Files
      BY DEF Matching
    <3> QED
      BY <3>1, FS_Subset, WafProxyAssumption
  <2>2. Cardinality(S) <= Cardinality(above)
    BY <1>5, <2>1, FS_Subset
  <2>3. Cardinality(above) \in Nat
    BY <2>1, FS_CardinalityType
  <2>4. Cardinality(above) >= MaxCycles
    BY <1>7, <2>2, <2>3, WafProxyAssumption
  <2> QED
    BY <2>4 DEF Outranked
<1> QED
  BY <1>1, <1>2, <1>4, <1>6, <1>7

\* resolve_upstream gives a configured backend or the default.
LEMMA UpstreamIsKnown == \A r : resolve_upstream(r) \subseteq Urls
BY DEF resolve_upstream, First, Routable, Urls

\* An engine that is in force has the rules of every file it must have.
LEMMA SolidIsEnforced ==
    ASSUME RInv
    PROVE  \A f \in {g \in Files \ stale : Parses(g, "read_engine")} :
               \E e \in engine.view : e[1] = f
<1> TAKE f \in {g \in Files \ stale : Parses(g, "read_engine")}
<1>1. <<f, disk[f].ver>> \in {e \in engine.view : e[1] = f}
  BY DEF RInv, UntouchedFilesAreEnforced
<1> QED
  BY <1>1

\* A request that moves to a state it can rely on disturbs nobody else.
LEMMA Update ==
    ASSUME PInv, UNCHANGED reloadVars, NEW r \in Requests, NEW s \in ReqRec,
           ReqOk(s), req' = [req EXCEPT ![r] = s]
    PROVE  PInv'
<1>1. RInv'
  BY TypeStep, FaithfulStep, VersionsStep DEF PInv, RInv
<1>2. GenerationsOk'
  BY DEF PInv, GenerationsOk, reloadVars
<1>3. req' \in [Requests -> ReqRec]
  BY DEF PInv
<1>4. \A q \in Requests : req'[q] = IF q = r THEN s ELSE req[q]
  BY DEF PInv
<1>5. \A q \in Requests : ReqOk(req'[q])
  BY <1>4 DEF PInv
<1>6. \A q \in Requests : ReqOk(req[q])'
  BY <1>5 DEF ReqOk, reloadVars
<1> QED
  BY <1>1, <1>2, <1>3, <1>6 DEF PInv

\* A request after each of the steps that set several fields.
Answered(x, code) == [x EXCEPT !.at = "answered", !.code = code]

Taken(x, eng, files) == [x EXCEPT !.at = "judge", !.engine = eng, !.solid = files]

Routed(x, u, n) == [x EXCEPT !.at = "forward", !.upstream = u, !.routed = n]

\* The record of a request that has been answered.
LEMMA AnsweredRec ==
    ASSUME NEW x \in ReqRec, NEW code \in {200, 400, 403, 429, 502}
    PROVE  Answered(x, code) \in ReqRec /\ Answered(x, code).at = "answered"
<1> USE DEF Answered
<1>1. PICK y \in ReqRec : y = [x EXCEPT !.at = "answered"]
  <2>1. [x EXCEPT !.at = "answered"] \in ReqRec
    BY DEF ReqRec, Places
  <2> QED
    BY <2>1
<1>2. [y EXCEPT !.code = code] \in ReqRec
  BY DEF ReqRec
<1>3. Answered(x, code) = [y EXCEPT !.code = code]
  BY <1>1
<1>4. Answered(x, code).at = "answered"
  BY DEF ReqRec
<1> QED
  BY <1>2, <1>3, <1>4

\* The record of a request that has taken an engine.
LEMMA TakenRec ==
    ASSUME NEW x \in ReqRec, NEW eng \in EngineRec, NEW files \in SUBSET Files
    PROVE  /\ Taken(x, eng, files) \in ReqRec
           /\ Taken(x, eng, files).at = "judge"
           /\ Taken(x, eng, files).engine = eng
           /\ Taken(x, eng, files).solid = files
<1> DEFINE s == Taken(x, eng, files)
<1> USE DEF Taken
<1>1. PICK y \in ReqRec : y = [x EXCEPT !.at = "judge"]
  <2>1. [x EXCEPT !.at = "judge"] \in ReqRec
    BY DEF ReqRec, Places
  <2> QED
    BY <2>1
<1>2. PICK z \in ReqRec : z = [y EXCEPT !.engine = eng]
  <2>1. [y EXCEPT !.engine = eng] \in ReqRec
    BY DEF ReqRec
  <2> QED
    BY <2>1
<1>3. [z EXCEPT !.solid = files] \in ReqRec
  BY DEF ReqRec
<1>4. s = [z EXCEPT !.solid = files]
  BY <1>1, <1>2
<1>5. s.at = "judge"
  BY DEF ReqRec
<1>6. s.engine = eng
  BY DEF ReqRec
<1>7. s.solid = files
  BY DEF ReqRec
<1> QED
  BY <1>3, <1>4, <1>5, <1>6, <1>7

\* The record of a request that has been routed.
LEMMA RoutedRec ==
    ASSUME NEW x \in ReqRec, NEW u \in Urls, NEW n \in Nat
    PROVE  /\ Routed(x, u, n) \in ReqRec
           /\ Routed(x, u, n).at = "forward"
           /\ Routed(x, u, n).routed = n
           /\ Routed(x, u, n).engine = x.engine
           /\ Routed(x, u, n).solid = x.solid
<1> DEFINE s == Routed(x, u, n)
<1> USE DEF Routed
<1>1. PICK y \in ReqRec : y = [x EXCEPT !.at = "forward"]
  <2>1. [x EXCEPT !.at = "forward"] \in ReqRec
    BY DEF ReqRec, Places
  <2> QED
    BY <2>1
<1>2. PICK z \in ReqRec : z = [y EXCEPT !.upstream = u]
  <2>1. [y EXCEPT !.upstream = u] \in ReqRec
    BY DEF ReqRec
  <2> QED
    BY <2>1
<1>3. [z EXCEPT !.routed = n] \in ReqRec
  BY DEF ReqRec
<1>4. s = [z EXCEPT !.routed = n]
  BY <1>1, <1>2
<1>5. s.at = "forward"
  BY DEF ReqRec
<1>6. s.routed = n
  BY DEF ReqRec
<1>7. s.engine = x.engine
  BY DEF ReqRec
<1>8. s.solid = x.solid
  BY DEF ReqRec
<1> QED
  BY <1>3, <1>4, <1>5, <1>6, <1>7, <1>8

\* An answer needs nothing to rely on.
LEMMA AnswerStep ==
    ASSUME PInv, NEW r \in Requests, NEW from, NEW code \in {200, 400, 403, 429, 502},
           Answer(r, from, code)
    PROVE  PInv'
<1> DEFINE s == Answered(Fresh, code)
<1>1. s \in ReqRec /\ s.at = "answered"
  <2>1. Fresh \in ReqRec
    BY DEF Fresh, NoEngine, ReqRec, EngineRec, Places, Urls
  <2> QED
    BY <2>1, AnsweredRec
<1>2. ReqOk(s)
  BY <1>1 DEF ReqOk
<1>3. UNCHANGED reloadVars /\ req' = [req EXCEPT ![r] = s]
  BY DEF Answer, Answered
<1> QED
  BY <1>1, <1>2, <1>3, Update

\* The steps of one request.
LEMMA RequestStep ==
    ASSUME PInv, NEW r \in Requests, Handler(r) \/ Peers(r)
    PROVE  PInv'
<1>1. req[r] \in ReqRec /\ ReqOk(req[r]) /\ req \in [Requests -> ReqRec]
  BY DEF PInv
<1>2. ASSUME NEW from, NEW to \in Places, Goto(r, from, to),
             ReqOk([req[r] EXCEPT !.at = to])
      PROVE  PInv'
  <2>1. [req[r] EXCEPT !.at = to] \in ReqRec
    BY <1>1 DEF ReqRec
  <2>2. req' = [req EXCEPT ![r] = [req[r] EXCEPT !.at = to]] /\ UNCHANGED reloadVars
    BY <1>2 DEF Goto
  <2> QED
    BY <1>2, <2>1, <2>2, Update
<1>3. CASE Arrive(r)
  <2>1. ReqOk([req[r] EXCEPT !.at = "body"])
    BY <1>1 DEF ReqOk, ReqRec
  <2> QED
    BY <1>2, <1>3, <2>1 DEF Arrive, Places
<1>4. CASE BodyRead(r)
  <2>1. ReqOk([req[r] EXCEPT !.at = "inspect"])
    BY <1>1 DEF ReqOk, ReqRec
  <2> QED
    BY <1>2, <1>4, <2>1 DEF BodyRead, Places
<1>5. CASE BodyFails(r) \/ ForwardFails(r) \/ UpstreamReplies(r) \/ UpstreamFails(r)
  BY <1>5, AnswerStep DEF BodyFails, ForwardFails, UpstreamReplies, UpstreamFails
<1>6. CASE ClientGone(r)
  <2> DEFINE s == [Fresh EXCEPT !.at = "gone"]
  <2>1. s \in ReqRec /\ s.at = "gone"
    BY DEF Fresh, NoEngine, ReqRec, EngineRec, Places, Urls
  <2>2. ReqOk(s)
    BY <2>1 DEF ReqOk
  <2> QED
    BY <1>6, <2>1, <2>2, Update DEF ClientGone
<1>7. CASE TakeEngine(r)
  <2> DEFINE solid == {f \in Files \ stale : Parses(f, "read_engine")}
             s == Taken(req[r], engine, solid)
  <2>1. engine \in EngineRec
    BY DEF PInv, RInv, ReloadTypeOK, EngineRec
  <2>2. /\ s \in ReqRec /\ s.at = "judge" /\ s.engine = engine /\ s.solid = solid
    <3>1. solid \in SUBSET Files
      OBVIOUS
    <3> HIDE DEF solid
    <3> QED
      BY <1>1, <2>1, <3>1, TakenRec
  <2>3. engine.gen <= rules.gen \/ faults > 0
    BY DEF PInv, GenerationsOk, RInv, ReloadTypeOK
  <2>4. \A f \in solid : \E e \in engine.view : e[1] = f
    BY SolidIsEnforced DEF PInv
  <2>5. ReqOk(s)
    BY <2>2, <2>3, <2>4 DEF ReqOk
  <2>6. req' = [req EXCEPT ![r] = s] /\ UNCHANGED reloadVars
    BY <1>7 DEF TakeEngine, Taken
  <2> QED
    BY <2>2, <2>5, <2>6, Update
<1>8. CASE Judge(r)
  <2>0. PICK S \in Fired(req[r].engine) :
            \/ Decide(S) = "Allow" /\ Goto(r, "judge", "resolve")
            \/ /\ Decide(S) # "Allow"
               /\ Answer(r, "judge", IF Decide(S) = "RateLimit" THEN 429 ELSE 403)
    BY <1>8 DEF Judge
  <2>1. CASE Decide(S) = "Allow" /\ Goto(r, "judge", "resolve")
    <3> DEFINE s == [req[r] EXCEPT !.at = "resolve"]
    <3>1. /\ s.at = "resolve" /\ s.solid = req[r].solid /\ s.engine = req[r].engine
          /\ req[r].at = "judge" /\ req[r].solid \subseteq Files
      BY <1>1, <2>1 DEF ReqRec, Goto
    <3>2. \A f \in s.solid : Excused(f, s.engine)
      BY <1>1, <2>1, <3>1, AllowMeansNoObjection DEF ReqOk
    <3>3. ReqOk(s)
      BY <1>1, <3>1, <3>2 DEF ReqOk
    <3> QED
      BY <1>2, <2>1, <3>3 DEF Places
  <2> QED
    BY <2>0, <2>1, AnswerStep
<1>9. CASE Resolve(r)
  <2>1. PICK u \in resolve_upstream(r) :
            req' = [req EXCEPT ![r].at = "forward", ![r].upstream = u,
                               ![r].routed = rules.gen]
    BY <1>9 DEF Resolve
  <2> DEFINE s == Routed(req[r], u, rules.gen)
  <2>2. rules.gen \in Nat /\ u \in Urls
    BY UpstreamIsKnown DEF PInv, RInv, ReloadTypeOK
  <2>3. /\ s \in ReqRec /\ s.at = "forward" /\ s.solid = req[r].solid
        /\ s.engine = req[r].engine /\ s.routed = rules.gen
    BY <1>1, <2>2, RoutedRec
  <2>4. req[r].at = "resolve" /\ s.engine.gen \in Nat
    BY <1>1, <1>9, <2>3 DEF Resolve, ReqRec, EngineRec
  <2>5. ReqOk(s)
    BY <1>1, <2>2, <2>3, <2>4 DEF ReqOk
  <2>6. req' = [req EXCEPT ![r] = s] /\ UNCHANGED reloadVars
    BY <1>9, <2>1 DEF Resolve, Routed
  <2> QED
    BY <2>3, <2>5, <2>6, Update
<1>10. CASE Forward(r)
  <2> DEFINE s == [req[r] EXCEPT !.at = "upstream"]
  <2>1. /\ s.at = "upstream" /\ s.solid = req[r].solid /\ s.engine = req[r].engine
        /\ s.routed = req[r].routed /\ req[r].at = "forward"
    BY <1>1, <1>10 DEF ReqRec, Forward, Goto
  <2>2. ReqOk(s)
    BY <1>1, <2>1 DEF ReqOk
  <2> QED
    BY <1>2, <1>10, <2>2 DEF Forward, Places
<1> QED
  BY <1>3, <1>4, <1>5, <1>6, <1>7, <1>8, <1>9, <1>10 DEF Handler, Peers

\* Reloads keep the order of the two swaps, and a request's engine is never
\* from a later reload than the routing list.
LEMMA ReloadStep ==
    ASSUME PInv, ReloadNext, UNCHANGED req
    PROVE  PInv'
<1>1. RInv'
  BY TypeStep, FaithfulStep, VersionsStep DEF PInv, RInv
<1>2. /\ gen \in Nat /\ engine.gen \in Nat /\ rules.gen \in Nat /\ faults \in Nat
      /\ GenerationsOk
  BY HotReloadAssumption DEF PInv, RInv, ReloadTypeOK
<1>3. GenerationsOk' /\ rules'.gen >= rules.gen /\ faults' >= faults
  <2>1. CASE SwapRules
    <3>1. rules'.gen = gen
      BY <2>1 DEF SwapRules
    <3> QED
      BY <1>2, <2>1, <3>1 DEF SwapRules, GenerationsOk
  <2>2. CASE SwapEngine
    <3>1. engine'.gen = gen
      BY <2>2 DEF SwapEngine
    <3> QED
      BY <1>2, <2>2, <3>1 DEF SwapEngine, GenerationsOk
  <2>3. CASE Recv
    BY <1>2, <2>3 DEF Recv, GenerationsOk
  <2>4. CASE Environment
    BY <1>2, <2>4 DEF Environment, Edit, NotifyOther, NotifyError, RulesFault, EngineFault,
       LoadFault, ListEngineMissing, GenerationsOk
  <2>5. CASE Notify \/ ListRules \/ ListEngine \/ \E f \in Files : ReadFile(f)
    BY <1>2, <2>5 DEF Notify, ListRules, ListEngine, List, ReadFile, GenerationsOk
  <2> QED
    BY <2>1, <2>2, <2>3, <2>4, <2>5 DEF ReloadNext, Watcher
<1>4. \A r \in Requests : req[r] \in ReqRec /\ ReqOk(req[r])
  BY DEF PInv
<1>5. rules'.gen \in Nat /\ faults' \in Nat
  BY <1>1, HotReloadAssumption DEF RInv, ReloadTypeOK
<1>6. \A r \in Requests : ReqOk(req[r])'
  <2> TAKE r \in Requests
  <2>1. req[r].engine.gen \in Nat /\ req[r].routed \in Nat /\ req'[r] = req[r]
    BY <1>4 DEF ReqRec, EngineRec
  <2> QED
    BY <1>2, <1>3, <1>4, <1>5, <2>1 DEF ReqOk
<1> QED
  BY <1>1, <1>3, <1>6 DEF PInv

-----------------------------------------------------------------------------
\* PInv is an inductive invariant of requests and reloads together.
THEOREM ProxyInvariant == ProxySpec => []PInv
<1>1. ProxyInit => PInv
  <2> SUFFICES ASSUME ProxyInit PROVE PInv
    OBVIOUS
  <2>1. RInv
    BY ReloadInitOk DEF ProxyInit
  <2>2. GenerationsOk
    BY DEF ProxyInit, ReloadInit, GenerationsOk
  <2>3. Fresh \in ReqRec /\ Fresh.at = "idle"
    BY DEF Fresh, NoEngine, ReqRec, EngineRec, Places, Urls
  <2>4. ReqOk(Fresh)
    BY <2>3 DEF ReqOk
  <2> QED
    BY <2>1, <2>2, <2>3, <2>4 DEF ProxyInit, PInv
<1>2. PInv /\ [ProxyNext]_proxyVars => PInv'
  <2> SUFFICES ASSUME PInv, [ProxyNext]_proxyVars PROVE PInv'
    OBVIOUS
  <2>1. CASE UNCHANGED proxyVars
    <3>1. RInv'
      BY <2>1, TypeStep, FaithfulStep, VersionsStep DEF PInv, RInv, proxyVars
    <3> QED
      BY <2>1, <3>1 DEF PInv, GenerationsOk, ReqOk, proxyVars, reloadVars
  <2> QED
    BY <2>1, RequestStep, ReloadStep DEF ProxyNext
<1> QED
  BY <1>1, <1>2, PTL DEF ProxySpec

\* Every request is somewhere in the handler, and is sent only to a backend of
\* the configuration or to the default upstream.
THEOREM ProxyTypeCorrect == ProxySpec => []ProxyTypeOK
<1>1. PInv => ProxyTypeOK
  BY DEF PInv, ReqRec, Places, ProxyTypeOK
<1> QED
  BY <1>1, ProxyInvariant, PTL

\* No reload, whatever it finds on disk and whenever it runs, opens a window
\* in which a request passes a blocking file that is valid and unedited; what
\* lets one past is a missing plugin or a file that outranks it.
THEOREM ReloadsOpenNoWindow == ProxySpec => []NoWindow
<1>1. PInv => NoWindow
  BY DEF PInv, ReqOk, NoWindow, Excused
<1> QED
  BY <1>1, ProxyInvariant, PTL

\* As long as no load fails, a request is routed by the reload that judged it
\* or by a later one.
THEOREM NeverRoutedByAnOlderReload == ProxySpec => []RoutedNotBeforeJudged
<1>1. PInv => RoutedNotBeforeJudged
  BY DEF PInv, ReqOk, RoutedNotBeforeJudged
<1> QED
  BY <1>1, ProxyInvariant, PTL

\* Under load as well, the engine in force has exactly the rules of every file
\* that has not been edited since it was loaded.
THEOREM EnforcedUnderLoad == ProxySpec => []UntouchedFilesAreEnforced
<1>1. PInv => UntouchedFilesAreEnforced
  BY DEF PInv, RInv
<1> QED
  BY <1>1, ProxyInvariant, PTL
=============================================================================
