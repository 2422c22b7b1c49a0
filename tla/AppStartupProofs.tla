-------------------------- MODULE AppStartupProofs --------------------------
(***************************************************************************)
(* Proofs about AppStartup, for every directory, configuration and number  *)
(* of changes and faults: what the program serves with, and what           *)
(* geo_blocked() answers for a request.                                    *)
(***************************************************************************)
EXTENDS AppStartup, SequenceTheorems, NatFacts

Begin == {"config", "audit", "rules"}

Places == Begin \union {"read_rules", "engine", "read_engine", "blacklist", "crs",
                        "geo", "bind", "serving", "exited"}

\* The plugins at each point: a step that fails installs none or goes on.
PluginsOk ==
    LET b == <<"blacklist">>
        c == <<"blacklist", "crs">>
        served == {<<"blacklist", "geo">>, <<"blacklist", "crs", "geo">>}
    IN  /\ pc \notin {"crs", "geo", "bind", "serving", "exited"} => engine.plugins = <<>>
        /\ pc = "crs" => engine.plugins = b
        /\ pc = "geo" => engine.plugins \in {b, c}
        /\ pc \in {"bind", "serving"} => engine.plugins \in served
        /\ pc = "exited" => engine.plugins \in served \union {<<>>}

\* A directory that does not exist has no files.
DirOk == exists \/ \A f \in Files : disk[f].form = "absent"

\* The routing list, as it is read and once it is there: a file that nobody
\* has edited since the listing is in it as it is on disk, or was not accepted.
Routes(f) == Parses(f, "read_rules")

RulesOk ==
    /\ pc \in Begin \union {"read_rules"} => rules = {}
    /\ pc = "read_rules" =>
          /\ acc \subseteq Yaml \X Versions
          /\ \A f \in Files \ touched :
                /\ \A v \in Versions : <<f, v>> \in acc => v = disk[f].ver /\ Routes(f)
                /\ Routes(f) => f \in todo \/ <<f, disk[f].ver>> \in acc
    /\ pc \notin Begin \union {"read_rules", "exited"} =>
          \A f \in Files \ touched :
             /\ \A v \in Versions : <<f, v>> \in rules => v = disk[f].ver /\ Routes(f)
             /\ "rules" \notin failed /\ Routes(f) => <<f, disk[f].ver>> \in rules

\* The same for the engine.
Judges(f) == Parses(f, "read_engine")

EngineOk ==
    /\ pc = "read_engine" =>
          \A f \in Files \ touched :
             Judges(f) => f \in todo \/ <<f, disk[f].ver>> \in acc
    /\ pc \in {"blacklist", "crs", "geo", "bind", "serving"} =>
          \A f \in Files \ touched :
             "engine" \notin failed /\ Judges(f) => <<f, disk[f].ver>> \in engine.net

ShapeOk ==
    /\ exists \in BOOLEAN
    /\ disk \in [Files -> [ver : Versions, form : Forms]]
    /\ edits \in Versions
    /\ faults \in 0 .. MaxFaults
    /\ pc \in Places
    /\ config \in Configs
    /\ todo \subseteq Files
    /\ acc \subseteq Files \X Versions
    /\ rules \subseteq Yaml \X Versions
    /\ DOMAIN engine = {"net", "registry", "plugins"}
    /\ engine.net \subseteq Files \X Versions
    /\ failed \subseteq {"rules", "engine"}
    /\ touched \subseteq Files

AInv == ShapeOk /\ PluginsOk /\ DirOk /\ RulesOk /\ EngineOk

-----------------------------------------------------------------------------
\* A file that is routed by is judged by, unless its GRL text does not parse:
\* load_grl_from_dir accepts whatever else load_from_dir accepts.
LEMMA RoutesAreJudged == \A f : Routes(f) => Judges(f) \/ disk[f].form = "routed"
BY DEF Routes, Judges, Parses

\* Short sequences of plugins.
LEMMA PairIs ==
    ASSUME NEW S, NEW a \in S, NEW b \in S
    PROVE  Append(<<a>>, b) = <<a, b>> /\ <<a>> \o <<b>> = <<a, b>>
<1>1. <<a>> \in Seq(S) /\ <<b>> \in Seq(S) /\ <<a, b>> \in Seq(S) /\ Len(<<a, b>>) = 2
  OBVIOUS
<1>2. /\ Append(<<a>>, b) \in Seq(S) /\ Len(Append(<<a>>, b)) = 2
      /\ \A i \in 1 .. 2 : Append(<<a>>, b)[i] = <<a, b>>[i]
  BY <1>1
<1>3. /\ <<a>> \o <<b>> \in Seq(S) /\ Len(<<a>> \o <<b>>) = 2
      /\ \A i \in 1 .. 2 : (<<a>> \o <<b>>)[i] = <<a, b>>[i]
  BY <1>1
<1>4. Append(<<a>>, b) = <<a, b>>
  BY <1>1, <1>2, SeqEqual
<1>5. <<a>> \o <<b>> = <<a, b>>
  BY <1>1, <1>3, SeqEqual
<1> QED
  BY <1>4, <1>5

\* The same for three.
LEMMA TripleIs ==
    ASSUME NEW S, NEW a \in S, NEW b \in S, NEW c \in S
    PROVE  Append(<<a, b>>, c) = <<a, b, c>> /\ <<a, b>> \o <<c>> = <<a, b, c>>
<1>1. /\ <<a, b>> \in Seq(S) /\ <<c>> \in Seq(S) /\ <<a, b, c>> \in Seq(S)
      /\ Len(<<a, b, c>>) = 3
  OBVIOUS
<1>2. /\ Append(<<a, b>>, c) \in Seq(S) /\ Len(Append(<<a, b>>, c)) = 3
      /\ \A i \in 1 .. 3 : Append(<<a, b>>, c)[i] = <<a, b, c>>[i]
  BY <1>1
<1>3. /\ <<a, b>> \o <<c>> \in Seq(S) /\ Len(<<a, b>> \o <<c>>) = 3
      /\ \A i \in 1 .. 3 : (<<a, b>> \o <<c>>)[i] = <<a, b, c>>[i]
  BY <1>1
<1>4. Append(<<a, b>>, c) = <<a, b, c>>
  BY <1>1, <1>2, SeqEqual
<1>5. <<a, b>> \o <<c>> = <<a, b, c>>
  BY <1>1, <1>3, SeqEqual
<1> QED
  BY <1>4, <1>5

\* The sequences of plugins that occur.
LEMMA PluginSeqs ==
    /\ Append(<<"blacklist">>, "crs") = <<"blacklist", "crs">>
    /\ Append(<<"blacklist">>, "geo") = <<"blacklist", "geo">>
    /\ Append(<<"blacklist", "crs">>, "geo") = <<"blacklist", "crs", "geo">>
    /\ <<"blacklist">> \o <<>> \o <<"geo">> = <<"blacklist", "geo">>
    /\ <<"blacklist">> \o <<"crs">> \o <<"geo">> = <<"blacklist", "crs", "geo">>
<1> DEFINE S == {"blacklist", "crs", "geo"}
<1>1. "blacklist" \in S /\ "crs" \in S /\ "geo" \in S
  OBVIOUS
<1>2. <<"blacklist">> \in Seq(S)
  OBVIOUS
<1>3. <<"blacklist">> \o <<>> = <<"blacklist">>
  BY <1>2, ConcatEmptySeq
<1>4. /\ Append(<<"blacklist">>, "crs") = <<"blacklist", "crs">>
      /\ <<"blacklist">> \o <<"crs">> = <<"blacklist", "crs">>
  BY <1>1, PairIs, Zenon
<1>5. /\ Append(<<"blacklist">>, "geo") = <<"blacklist", "geo">>
      /\ <<"blacklist">> \o <<"geo">> = <<"blacklist", "geo">>
  BY <1>1, PairIs, Zenon
<1>6. /\ Append(<<"blacklist", "crs">>, "geo") = <<"blacklist", "crs", "geo">>
      /\ <<"blacklist", "crs">> \o <<"geo">> = <<"blacklist", "crs", "geo">>
  BY <1>1, TripleIs, Zenon
<1>7. <<"blacklist">> \o <<>> \o <<"geo">> = <<"blacklist", "geo">>
  BY <1>3, <1>5, Zenon
<1>8. <<"blacklist">> \o <<"crs">> \o <<"geo">> = <<"blacklist", "crs", "geo">>
  BY <1>4, <1>6, Zenon
<1> QED
  BY <1>4, <1>5, <1>6, <1>7, <1>8

\* Engine::new has no plugin.
LEMMA NewEngineIs ==
    ASSUME NEW net
    PROVE  /\ DOMAIN NewEngine(net) = {"net", "registry", "plugins"}
           /\ NewEngine(net).net = net
           /\ NewEngine(net).plugins = <<>>
BY DEF NewEngine

\* install touches neither the network nor the plugins before.
LEMMA InstallIs ==
    ASSUME NEW eng, DOMAIN eng = {"net", "registry", "plugins"}, NEW plugin
    PROVE  /\ DOMAIN install(eng, plugin) = {"net", "registry", "plugins"}
           /\ install(eng, plugin).net = eng.net
           /\ install(eng, plugin).plugins = Append(eng.plugins, plugin)
<1>1. DOMAIN install(eng, plugin) = {"net", "registry", "plugins"}
  BY DEF install
<1>2. install(eng, plugin).net = eng.net
  BY DEF install
<1>3. install(eng, plugin).plugins = Append(eng.plugins, plugin)
  BY DEF install
<1> QED
  BY <1>1, <1>2, <1>3
\* The steps outside the loads, the plugins and the directory.
LEMMA Unmoved ==
    ASSUME AInv, UNCHANGED <<dirVars, config, loadVars, engine>>,
           faults' \in 0 .. MaxFaults, pc' \in Places,
           \/ pc' = pc
           \/ pc \in {"config", "audit"} /\ pc' \in Begin
           \/ pc = "bind" /\ pc' = "serving"
           \/ pc \in {"config", "audit", "bind", "serving"} /\ pc' = "exited"
    PROVE  AInv'
<1> USE DEF AInv, dirVars, loadVars
<1>1. ShapeOk'
  BY DEF ShapeOk
<1>2. PluginsOk'
  BY DEF PluginsOk, Begin
<1>3. DirOk'
  BY DEF DirOk
<1>4. \A f : (Routes(f)' <=> Routes(f)) /\ (Judges(f)' <=> Judges(f))
  BY DEF Routes, Judges, Parses
<1>5. RulesOk'
  BY <1>4 DEF RulesOk, Begin
<1>6. EngineOk'
  BY <1>4 DEF EngineOk, Begin
<1> QED
  BY <1>1, <1>2, <1>3, <1>5, <1>6

\* A change of the directory disturbs only the files it touches.
LEMMA EditStep ==
    ASSUME AInv, EditDir \/ \E f \in Files, form \in Forms : Edit(f, form)
    PROVE  AInv'
<1> USE DEF AInv
<1>1. UNCHANGED <<faults, pc, config, loadVars, engine>>
  BY DEF EditDir, Edit
<1>2. MaxEdits \in Nat
  BY StartupAssumption
<1>3. /\ exists' \in BOOLEAN
      /\ edits' \in Versions
      /\ disk' \in [Files -> [ver : Versions, form : Forms]]
      /\ touched' \subseteq Files /\ touched \subseteq touched'
      /\ DirOk'
  <2>1. CASE EditDir
    BY <1>2, <2>1 DEF EditDir, ShapeOk, DirOk, Versions, Forms
  <2>2. ASSUME NEW f \in Files, NEW form \in Forms, Edit(f, form)
        PROVE  /\ exists' \in BOOLEAN
               /\ edits' \in Versions
               /\ disk' \in [Files -> [ver : Versions, form : Forms]]
               /\ touched' \subseteq Files /\ touched \subseteq touched'
               /\ DirOk'
    BY <1>2, <2>2 DEF Edit, ShapeOk, DirOk, Versions
  <2> QED
    BY <2>1, <2>2
<1>4. \A f \in Files \ touched' : f \notin touched /\ disk'[f] = disk[f]
  <2>1. CASE EditDir
    BY <2>1 DEF EditDir
  <2>2. ASSUME NEW f \in Files, NEW form \in Forms, Edit(f, form)
        PROVE  \A g \in Files \ touched' : g \notin touched /\ disk'[g] = disk[g]
    BY <2>2 DEF Edit, ShapeOk
  <2> QED
    BY <2>1, <2>2
<1>5. \A f \in Files \ touched' : (Routes(f)' <=> Routes(f)) /\ (Judges(f)' <=> Judges(f))
  BY <1>4 DEF Routes, Judges, Parses
<1>6. ShapeOk' /\ PluginsOk'
  BY <1>1, <1>3 DEF ShapeOk, PluginsOk, loadVars
<1>7. RulesOk'
  BY <1>1, <1>4, <1>5 DEF RulesOk, loadVars
<1>8. EngineOk'
  BY <1>1, <1>4, <1>5 DEF EngineOk, loadVars
<1> QED
  BY <1>3, <1>6, <1>7, <1>8

\* A load finds no directory, or starts with the files that are there.
LEMMA ListStep ==
    ASSUME AInv, Missing \/ List
    PROVE  AInv'
<1> USE DEF AInv
<1>1. /\ UNCHANGED <<exists, disk, edits, faults, config, rules, failed, engine>>
      /\ pc \in {"rules", "engine"}
      /\ touched' = IF pc = "rules" THEN {} ELSE touched
  BY DEF Missing, List, loadVars
<1>2. DirOk'
  BY <1>1 DEF DirOk
<1>3. \A f : (Routes(f)' <=> Routes(f)) /\ (Judges(f)' <=> Judges(f))
  BY <1>1 DEF Routes, Judges, Parses
<1>4. CASE Missing
  <2>1. /\ ~exists /\ UNCHANGED <<todo, acc>>
        /\ pc' = IF pc = "rules" THEN "engine" ELSE "blacklist"
    BY <1>4 DEF Missing, loadVars
  <2>2. \A f \in Files : ~Routes(f) /\ ~Judges(f)
    BY <2>1 DEF DirOk, Routes, Judges, Parses
  <2>3. ShapeOk' /\ PluginsOk'
    BY <1>1, <2>1 DEF ShapeOk, PluginsOk, Places
  <2>4. RulesOk'
    BY <1>1, <1>3, <2>1, <2>2 DEF RulesOk, Begin
  <2>5. EngineOk'
    BY <1>1, <1>3, <2>1, <2>2 DEF EngineOk
  <2> QED
    BY <1>2, <2>3, <2>4, <2>5
<1>5. CASE List
  <2>1. /\ todo' = {f \in Files : disk[f].form # "absent"} /\ acc' = {}
        /\ pc' = IF pc = "rules" THEN "read_rules" ELSE "read_engine"
    BY <1>5 DEF List
  <2>2. \A f \in Files : Routes(f) \/ Judges(f) => f \in todo'
    BY <2>1 DEF Routes, Judges, Parses
  <2>3. ShapeOk' /\ PluginsOk'
    BY <1>1, <2>1 DEF ShapeOk, PluginsOk, Places
  <2>4. RulesOk'
    BY <1>1, <1>3, <2>1, <2>2 DEF RulesOk, Begin
  <2>5. EngineOk'
    BY <1>1, <1>3, <2>1, <2>2 DEF EngineOk
  <2> QED
    BY <1>2, <2>3, <2>4, <2>5
<1> QED
  BY <1>4, <1>5

\* One entry of the listing.
LEMMA ReadStep ==
    ASSUME AInv, NEW f \in Files, ReadFile(f)
    PROVE  AInv'
<1> USE DEF AInv
<1>1. /\ UNCHANGED <<exists, disk, edits, touched, faults, pc, config, rules, failed, engine>>
      /\ pc \in {"read_rules", "read_engine"}
      /\ f \in todo /\ todo' = todo \ {f}
      /\ acc' = IF Parses(f, pc) THEN acc \union {<<f, disk[f].ver>>} ELSE acc
  BY DEF ReadFile, dirVars
<1>2. disk[f].ver \in Versions
  BY DEF ShapeOk
<1>3. \A g : (Routes(g)' <=> Routes(g)) /\ (Judges(g)' <=> Judges(g))
  BY <1>1 DEF Routes, Judges, Parses
<1>4. acc' \subseteq Files \X Versions
  BY <1>1, <1>2 DEF ShapeOk
<1>5. ShapeOk' /\ PluginsOk' /\ DirOk'
  BY <1>1, <1>4 DEF ShapeOk, PluginsOk, DirOk
<1>6. CASE pc = "read_rules"
  <2>1. acc' = IF Routes(f) THEN acc \union {<<f, disk[f].ver>>} ELSE acc
    BY <1>1, <1>6 DEF Routes
  <2>2. Routes(f) => f \in Yaml
    BY DEF Routes, Parses
  <2>3. acc' \subseteq Yaml \X Versions
    BY <1>2, <1>6, <2>1, <2>2 DEF RulesOk
  <2>4. ASSUME NEW g \in Files \ touched
        PROVE  /\ \A v \in Versions : <<g, v>> \in acc' => v = disk[g].ver /\ Routes(g)
               /\ Routes(g) => g \in todo' \/ <<g, disk[g].ver>> \in acc'
    <3>1. /\ \A v \in Versions : <<g, v>> \in acc => v = disk[g].ver /\ Routes(g)
          /\ Routes(g) => g \in todo \/ <<g, disk[g].ver>> \in acc
      BY <1>6 DEF RulesOk
    <3> QED
      BY <1>1, <2>1, <3>1
  <2>5. RulesOk'
    BY <1>1, <1>3, <1>6, <2>3, <2>4 DEF RulesOk, Begin
  <2>6. EngineOk'
    BY <1>1, <1>6 DEF EngineOk
  <2> QED
    BY <1>5, <2>5, <2>6
<1>7. CASE pc = "read_engine"
  <2>1. acc' = IF Judges(f) THEN acc \union {<<f, disk[f].ver>>} ELSE acc
    BY <1>1, <1>7 DEF Judges
  <2>2. RulesOk'
    BY <1>1, <1>3, <1>7 DEF RulesOk, Begin
  <2>3. ASSUME NEW g \in Files \ touched, Judges(g)
        PROVE  g \in todo' \/ <<g, disk[g].ver>> \in acc'
    BY <1>1, <1>7, <2>1, <2>3 DEF EngineOk
  <2>4. EngineOk'
    BY <1>1, <1>3, <1>7, <2>3 DEF EngineOk
  <2> QED
    BY <1>5, <2>2, <2>4
<1> QED
  BY <1>1, <1>6, <1>7

\* What was read becomes the routing list or the engine, or is given up.
LEMMA LoadedStep ==
    ASSUME AInv, NewStore \/ Compile \/ LoadFails
    PROVE  AInv'
<1> USE DEF AInv
<1>1. UNCHANGED <<exists, disk, edits, touched, config>>
  BY DEF NewStore, Compile, LoadFails, dirVars
<1>2. DirOk' /\ \A f : (Routes(f)' <=> Routes(f)) /\ (Judges(f)' <=> Judges(f))
  BY <1>1 DEF DirOk, Routes, Judges, Parses
<1>3. CASE NewStore
  <2>1. /\ pc = "read_rules" /\ pc' = "engine" /\ todo = {} /\ rules' = acc /\ acc' = {}
        /\ UNCHANGED <<faults, todo, failed, engine>>
    BY <1>3 DEF NewStore, Goto
  <2>2. ShapeOk' /\ PluginsOk'
    BY <1>1, <2>1 DEF ShapeOk, PluginsOk, RulesOk, Places
  <2>3. RulesOk'
    BY <1>1, <1>2, <2>1 DEF RulesOk, Begin
  <2>4. EngineOk'
    BY <2>1 DEF EngineOk
  <2> QED
    BY <1>2, <2>2, <2>3, <2>4
<1>4. CASE Compile
  <2>1. /\ pc = "read_engine" /\ pc' = "blacklist" /\ todo = {} /\ acc' = {}
        /\ engine' = NewEngine(acc) /\ UNCHANGED <<faults, todo, rules, failed>>
    BY <1>4 DEF Compile, Goto
  <2>2. /\ DOMAIN engine' = {"net", "registry", "plugins"}
        /\ engine'.net = acc /\ engine'.plugins = <<>>
    BY <2>1, NewEngineIs
  <2>3. ShapeOk' /\ PluginsOk'
    BY <1>1, <2>1, <2>2 DEF ShapeOk, PluginsOk, Places
  <2>4. RulesOk'
    BY <1>1, <1>2, <2>1 DEF RulesOk, Begin
  <2>5. EngineOk'
    BY <1>1, <1>2, <2>1, <2>2 DEF EngineOk
  <2> QED
    BY <1>2, <2>3, <2>4, <2>5
<1>5. CASE LoadFails
  <2>1. /\ todo' = {} /\ acc' = {} /\ UNCHANGED <<rules, engine>>
        /\ faults' \in 0 .. MaxFaults
    BY <1>5, StartupAssumption DEF LoadFails, Fault, ShapeOk
  <2>2. CASE pc \in {"rules", "read_rules"} /\ pc' = "engine" /\ failed' = failed \union {"rules"}
    <3>1. ShapeOk' /\ PluginsOk'
      BY <1>1, <2>1, <2>2 DEF ShapeOk, PluginsOk, Places
    <3>2. RulesOk'
      BY <2>1, <2>2 DEF RulesOk, Begin
    <3>3. EngineOk'
      BY <2>2 DEF EngineOk
    <3> QED
      BY <1>2, <3>1, <3>2, <3>3
  <2>3. CASE /\ pc \in {"engine", "read_engine"} /\ pc' = "blacklist"
             /\ failed' = failed \union {"engine"}
    <3>1. ShapeOk' /\ PluginsOk'
      BY <1>1, <2>1, <2>3 DEF ShapeOk, PluginsOk, Places
    <3>2. RulesOk'
      BY <1>1, <1>2, <2>1, <2>3 DEF RulesOk, Begin
    <3>3. EngineOk'
      BY <2>3 DEF EngineOk
    <3> QED
      BY <1>2, <3>1, <3>2, <3>3
  <2> QED
    BY <1>5, <2>2, <2>3 DEF LoadFails
<1> QED
  BY <1>3, <1>4, <1>5

\* The plugins, whichever of their files can be read.
LEMMA InstallStep ==
    ASSUME AInv, InstallBlacklist \/ InstallCrs \/ InstallGeo
    PROVE  AInv'
<1> USE DEF AInv
<1>1. /\ UNCHANGED <<exists, disk, edits, touched, config, todo, acc, rules, failed>>
      /\ faults' \in 0 .. MaxFaults
  <2>1. faults \in 0 .. MaxFaults /\ MaxFaults \in Nat
    BY StartupAssumption DEF ShapeOk
  <2>2. UNCHANGED faults \/ Fault
    BY DEF InstallBlacklist, InstallCrs, InstallGeo
  <2>3. UNCHANGED <<dirVars, config, loadVars>>
    BY DEF InstallBlacklist, InstallCrs, InstallGeo
  <2> QED
    BY <2>1, <2>2, <2>3 DEF Fault, dirVars, loadVars
<1>2. DirOk' /\ \A f : (Routes(f)' <=> Routes(f)) /\ (Judges(f)' <=> Judges(f))
  BY <1>1 DEF DirOk, Routes, Judges, Parses
<1>3. DOMAIN engine = {"net", "registry", "plugins"}
  BY DEF ShapeOk
<1>4. /\ DOMAIN engine' = {"net", "registry", "plugins"} /\ engine'.net = engine.net
      /\ PluginsOk' /\ pc \in {"blacklist", "crs", "geo"} /\ pc' \in {"crs", "geo", "bind"}
  <2>1. CASE InstallBlacklist
    <3>1. pc = "blacklist" /\ pc' = "crs" /\ engine' = install(engine, "blacklist")
      BY <2>1 DEF InstallBlacklist, Goto
    <3>2. engine.plugins = <<>>
      BY <3>1 DEF PluginsOk
    <3>3. engine'.plugins = <<"blacklist">>
      BY <1>3, <3>1, <3>2, InstallIs
    <3> QED
      BY <1>3, <3>1, <3>3, InstallIs DEF PluginsOk
  <2>2. CASE InstallCrs
    <3>1. /\ pc = "crs" /\ pc' = "geo"
          /\ engine' = install(engine, "crs") \/ engine' = engine
      BY <2>2 DEF InstallCrs, Goto
    <3>2. engine.plugins = <<"blacklist">>
      BY <3>1 DEF PluginsOk
    <3>3. Append(<<"blacklist">>, "crs") = <<"blacklist", "crs">>
      BY PluginSeqs
    <3>4. engine'.plugins \in {<<"blacklist">>, <<"blacklist", "crs">>}
      BY <1>3, <3>1, <3>2, <3>3, InstallIs
    <3> QED
      BY <1>3, <3>1, <3>4, InstallIs DEF PluginsOk
  <2>3. CASE InstallGeo
    <3>1. pc = "geo" /\ pc' = "bind" /\ engine' = install(engine, "geo")
      BY <2>3 DEF InstallGeo, Goto
    <3>2. engine.plugins \in {<<"blacklist">>, <<"blacklist", "crs">>}
      BY <3>1 DEF PluginsOk
    <3>3. /\ Append(<<"blacklist">>, "geo") = <<"blacklist", "geo">>
          /\ Append(<<"blacklist", "crs">>, "geo") = <<"blacklist", "crs", "geo">>
      BY PluginSeqs
    <3>4. engine'.plugins \in {<<"blacklist", "geo">>, <<"blacklist", "crs", "geo">>}
      BY <1>3, <3>1, <3>2, <3>3, InstallIs
    <3> QED
      BY <1>3, <3>1, <3>4, InstallIs DEF PluginsOk
  <2> QED
    BY <2>1, <2>2, <2>3
<1>5. ShapeOk'
  BY <1>1, <1>4 DEF ShapeOk, Places
<1>6. RulesOk'
  BY <1>1, <1>2, <1>4 DEF RulesOk, Begin
<1>7. EngineOk'
  BY <1>1, <1>2, <1>4 DEF EngineOk
<1> QED
  BY <1>2, <1>4, <1>5, <1>6, <1>7

\* AInv is an inductive invariant of the start and of the requests after it.
THEOREM StartupInvariant == Spec => []AInv
<1>1. Init => AInv
  <2> SUFFICES ASSUME Init PROVE AInv
    OBVIOUS
  <2>1. 0 \in Versions /\ 0 \in 0 .. MaxFaults
    BY StartupAssumption DEF Versions
  <2>2. /\ DOMAIN engine = {"net", "registry", "plugins"}
        /\ engine.net = {} /\ engine.plugins = <<>>
    BY NewEngineIs DEF Init
  <2>3. disk \in [Files -> [ver : Versions, form : Forms]]
    BY <2>1 DEF Init
  <2>4. ShapeOk
    BY <2>1, <2>2, <2>3 DEF Init, ShapeOk, Places, Begin
  <2>5. PluginsOk /\ DirOk /\ RulesOk /\ EngineOk
    BY <2>2 DEF Init, PluginsOk, DirOk, RulesOk, EngineOk, Begin
  <2> QED
    BY <2>4, <2>5 DEF AInv
<1>2. AInv /\ [Next]_vars => AInv'
  <2> SUFFICES ASSUME AInv, [Next]_vars PROVE AInv'
    OBVIOUS
  <2>1. faults \in 0 .. MaxFaults /\ pc \in Places /\ MaxFaults \in Nat
    BY StartupAssumption DEF AInv, ShapeOk
  <2>2. CASE LoadConfig \/ OpenAudit \/ Serve
    BY <2>1, <2>2, Unmoved DEF LoadConfig, OpenAudit, Serve, Goto, Begin, Places
  <2>3. CASE Fatal
    BY <2>1, <2>3, Unmoved DEF Fatal, Fault, Places
  <2>4. CASE \/ \E h \in Headers : Arrive(h, "proxy", "0.0.0.0")
             \/ \E h \in Headers, ip \in ClientIps : Arrive(h, "bench", ip)
             \/ Enrich \/ (\E q \in Asked : Fire(q[1], q[2])) \/ Reply
    <3>1. UNCHANGED <<dirVars, faults, pc, config, loadVars, engine>>
      BY <2>4 DEF Arrive, Enrich, Fire, Reply
    <3> QED
      BY <2>1, <3>1, Unmoved
  <2>5. CASE UNCHANGED vars
    <3>1. UNCHANGED <<dirVars, faults, pc, config, loadVars, engine>>
      BY <2>5 DEF vars, dirVars, loadVars
    <3> QED
      BY <2>1, <3>1, Unmoved
  <2> QED
    BY <2>2, <2>3, <2>4, <2>5, EditStep, ListStep, ReadStep, LoadedStep, InstallStep DEF Next
<1> QED
  BY <1>1, <1>2, PTL DEF Spec

\* The two lists hold only contents their loaders accept, and the plugins are
\* always installed in one order.
THEOREM StartupTypeCorrect == Spec => []StartupTypeOK
<1>1. AInv => StartupTypeOK
  <2> SUFFICES ASSUME AInv PROVE StartupTypeOK
    OBVIOUS
  <2>1. /\ <<"blacklist">> \o <<>> \o <<"geo">> = <<"blacklist", "geo">>
        /\ <<"blacklist">> \o <<"crs">> \o <<"geo">> = <<"blacklist", "crs", "geo">>
    BY PluginSeqs
  <2>2. /\ \A p \in {<<>>, <<"blacklist">>, <<"blacklist", "geo">>} :
               IsPrefix(p, <<"blacklist", "geo">>)
        /\ \A p \in {<<"blacklist", "crs">>, <<"blacklist", "crs", "geo">>} :
               IsPrefix(p, <<"blacklist", "crs", "geo">>)
    <3>1. IsPrefix(<<>>, <<"blacklist", "geo">>)
      BY DEF IsPrefix
    <3>2. IsPrefix(<<"blacklist">>, <<"blacklist", "geo">>)
      BY DEF IsPrefix
    <3>3. IsPrefix(<<"blacklist", "geo">>, <<"blacklist", "geo">>)
      BY DEF IsPrefix
    <3>4. IsPrefix(<<"blacklist", "crs">>, <<"blacklist", "crs", "geo">>)
      BY DEF IsPrefix
    <3>5. IsPrefix(<<"blacklist", "crs", "geo">>, <<"blacklist", "crs", "geo">>)
      BY DEF IsPrefix
    <3> QED
      BY <3>1, <3>2, <3>3, <3>4, <3>5
  <2>3. engine.plugins \in {<<>>, <<"blacklist">>, <<"blacklist", "geo">>,
                            <<"blacklist", "crs">>, <<"blacklist", "crs", "geo">>}
    BY DEF AInv, PluginsOk, ShapeOk
  <2>4. \E crs \in {<<>>, <<"crs">>} :
            IsPrefix(engine.plugins, <<"blacklist">> \o crs \o <<"geo">>)
    BY <2>1, <2>2, <2>3
  <2> QED
    BY <2>4 DEF AInv, ShapeOk, StartupTypeOK
<1> QED
  BY <1>1, StartupInvariant, PTL

\* The program never serves without the rules of a file one of its loaders
\* accepts because of another file, and judges by what it routes by unless the
\* GRL text of that very file does not parse.
THEOREM ServedAsLoaded == Spec => []JudgedAsRouted
<1>1. AInv => JudgedAsRouted
  <2> SUFFICES ASSUME AInv, pc = "serving", NEW f \in Files \ touched
               PROVE  /\ "rules" \notin failed /\ f \in Yaml
                         /\ disk[f].form \in {"routed", "strict"} =>
                            <<f, disk[f].ver>> \in rules
                      /\ "engine" \notin failed /\ disk[f].form \in {"loose", "strict"} =>
                            <<f, disk[f].ver>> \in engine.net
                      /\ "engine" \notin failed =>
                            \A v \in Versions : <<f, v>> \in rules =>
                                <<f, v>> \in engine.net \/ disk[f].form = "routed"
    BY DEF JudgedAsRouted
  <2>1. /\ \A v \in Versions : <<f, v>> \in rules => v = disk[f].ver /\ Routes(f)
        /\ "rules" \notin failed /\ Routes(f) => <<f, disk[f].ver>> \in rules
    BY DEF AInv, RulesOk, Begin
  <2>2. "engine" \notin failed /\ Judges(f) => <<f, disk[f].ver>> \in engine.net
    BY DEF AInv, EngineOk
  <2>3. /\ f \in Yaml /\ disk[f].form \in {"routed", "strict"} => Routes(f)
        /\ disk[f].form \in {"loose", "strict"} => Judges(f)
    BY DEF Routes, Judges, Parses
  <2> QED
    BY <2>1, <2>2, <2>3, RoutesAreJudged
<1> QED
  BY <1>1, StartupInvariant, PTL

-----------------------------------------------------------------------------
(***************************************************************************)
(* The country of a request.                                               *)
(***************************************************************************)
\* The country GeoPlugin::enrich stores.
Resolved(plugin, ctx) ==
    LET from == country_from_headers(plugin, ctx)
    IN  IF from = {} THEN lookup_ip(plugin, ctx.client_ip) ELSE CHOOSE c \in from : TRUE

IsCtx(ctx) == DOMAIN ctx = {"headers", "client_ip", "extensions"}

\* The same request, whatever the extensions.
SameRequest(c, d) == c.headers = d.headers /\ c.client_ip = d.client_ip

\* enrich stores the country and changes nothing else.
LEMMA EnrichIs ==
    ASSUME NEW plugin, NEW ctx, IsCtx(ctx)
    PROVE  LET e == enrich(plugin, ctx)
           IN  IsCtx(e) /\ SameRequest(e, ctx) /\ Country(e) = Resolved(plugin, ctx)
<1> DEFINE x == insert(ctx.extensions, "geo.country", Resolved(plugin, ctx))
<1>1. "geo.country" \in DOMAIN x /\ x["geo.country"] = Resolved(plugin, ctx)
  BY DEF insert
<1>2. enrich(plugin, ctx) = [ctx EXCEPT !.extensions = x]
  BY DEF enrich, Resolved
<1> HIDE DEF x
<1> QED
  BY <1>1, <1>2 DEF IsCtx, SameRequest, Country

\* The country depends on the headers and the address only.
LEMMA ResolvedSame ==
    ASSUME NEW plugin, NEW c, NEW d, SameRequest(c, d)
    PROVE  Resolved(plugin, c) = Resolved(plugin, d)
BY DEF SameRequest, Resolved, country_from_headers

\* No plugin changes the request.
LEMMA EnrichWithIs ==
    ASSUME NEW ctx, IsCtx(ctx), NEW plugin
    PROVE  IsCtx(EnrichWith(ctx, plugin)) /\ SameRequest(EnrichWith(ctx, plugin), ctx)
<1>1. CASE plugin = "blacklist"
  BY <1>1 DEF EnrichWith, IsCtx, SameRequest
<1>2. CASE plugin = "geo"
  BY <1>2, EnrichIs DEF EnrichWith
<1>3. CASE plugin \notin {"blacklist", "geo"}
  BY <1>3 DEF EnrichWith, SameRequest
<1> QED
  BY <1>1, <1>2, <1>3

-----------------------------------------------------------------------------
\* The first of a set of indices.
First(found) == {i \in found : \A j \in found : i <= j}

Says(names, ctx, i) == to_uppercase(trim(ctx.headers[names[i]]))
Speaks(names, ctx, i) == names[i] \in DOMAIN ctx.headers /\ Usable(Says(names, ctx, i))

\* The header that decides is the first one with a usable value.
LEMMA FromHeaders ==
    ASSUME NEW plugin, NEW ctx, NEW names, names = DEFAULT_COUNTRY_HEADERS \o plugin.extra_headers,
           DOMAIN names \subseteq Nat
    PROVE  \/ /\ \A i \in DOMAIN names : ~Speaks(names, ctx, i)
              /\ Resolved(plugin, ctx) = lookup_ip(plugin, ctx.client_ip)
           \/ \E i \in DOMAIN names :
                /\ Speaks(names, ctx, i)
                /\ \A j \in DOMAIN names : j < i => ~Speaks(names, ctx, j)
                /\ Resolved(plugin, ctx) = Says(names, ctx, i)
<1> DEFINE found == {i \in DOMAIN names : Speaks(names, ctx, i)}
<1>1. country_from_headers(plugin, ctx) = {Says(names, ctx, i) : i \in First(found)}
  BY DEF country_from_headers, Says, Speaks, First
<1>2. CASE found = {}
  <2>1. country_from_headers(plugin, ctx) = {}
    BY <1>1, <1>2 DEF First
  <2> QED
    BY <1>2, <2>1 DEF Resolved
<1>3. CASE found # {}
  <2>1. PICK i \in found : \A j \in found : i <= j
    <3>1. found \subseteq Nat
      OBVIOUS
    <3> HIDE DEF found
    <3> QED
      BY <1>3, <3>1, LeastElement
  <2>2. found \subseteq Nat /\ i \in DOMAIN names /\ Speaks(names, ctx, i)
    BY <2>1
  <2>3. First(found) = {i}
    <3> HIDE DEF found
    <3> QED
      BY <2>1, <2>2 DEF First
  <2>4. country_from_headers(plugin, ctx) = {Says(names, ctx, i)}
    <3> HIDE DEF found
    <3> QED
      BY <1>1, <2>3
  <2>5. Resolved(plugin, ctx) = Says(names, ctx, i)
    <3>1. \A c \in {Says(names, ctx, i)} : c = Says(names, ctx, i)
      OBVIOUS
    <3> QED
      BY <2>4 DEF Resolved
  <2>6. \A j \in DOMAIN names : j < i => ~Speaks(names, ctx, j)
    BY <2>1, <2>2
  <2> QED
    BY <2>2, <2>5, <2>6
<1> QED
  BY <1>2, <1>3

\* What geo_blocked answers, once the country is stored, is whether the request
\* comes from a blocked country.
LEMMA BlockedMeans ==
    ASSUME config \in Configs, NEW opened \in BOOLEAN, geo = new(config.geo, opened), NEW ctx
    PROVE  FromBlocked(ctx) <=>
             Resolved(geo, ctx) # "" /\ Resolved(geo, ctx) \in geo.blocked_countries
<1> DEFINE extra == config.geo.country_headers
           names == DEFAULT_COUNTRY_HEADERS \o [i \in DOMAIN extra |-> to_lowercase(extra[i])]
           blocked == {to_uppercase(c) : c \in config.geo.blocked_countries}
           says(i) == IF names[i] \in DOMAIN ctx.headers THEN Says(names, ctx, i) ELSE ""
           silent(i) == says(i) \in {"", "-", "XX"}
           byDb(b) == /\ geo.reader
                      /\ trim(ctx.client_ip) \in Ips \intersect DOMAIN Db
                      /\ to_uppercase(Db[trim(ctx.client_ip)]) = b
<1>1. geo.extra_headers = [i \in DOMAIN extra |-> to_lowercase(extra[i])]
      /\ geo.blocked_countries = blocked
  BY DEF new
<1>2. names = DEFAULT_COUNTRY_HEADERS \o geo.extra_headers
  BY <1>1
<1>3. DOMAIN names \subseteq Nat /\ \A i \in DOMAIN names : 1..(i - 1) = {j \in DOMAIN names : j < i}
  <2>1. extra \in Seq(STRING)
    BY StartupAssumption
  <2> DEFINE S == {"cf-ipcountry", "x-country", "x-geoip-country", "x-geo-country"}
                    \union {to_lowercase(extra[i]) : i \in DOMAIN extra}
             low == [i \in DOMAIN extra |-> to_lowercase(extra[i])]
  <2>2. low \in Seq(S)
    BY <2>1
  <2>3. DEFAULT_COUNTRY_HEADERS \in Seq(S)
    BY DEF DEFAULT_COUNTRY_HEADERS
  <2> HIDE DEF S, low
  <2>4. DOMAIN (DEFAULT_COUNTRY_HEADERS \o low) = 1..Len(DEFAULT_COUNTRY_HEADERS \o low)
        /\ Len(DEFAULT_COUNTRY_HEADERS \o low) \in Nat
    BY <2>2, <2>3
  <2>5. names = DEFAULT_COUNTRY_HEADERS \o low
    BY DEF low
  <2> HIDE DEF names
  <2> QED
    BY <2>4, <2>5
<1>4. FromBlocked(ctx) <=>
        \E b \in blocked \ {""} :
          \/ \E i \in DOMAIN names : says(i) = b /\ ~silent(i) /\ \A j \in 1..(i - 1) : silent(j)
          \/ (\A i \in DOMAIN names : silent(i)) /\ byDb(b)
  BY DEF FromBlocked, Says
<1> HIDE DEF names, blocked
<1>5. \A i \in DOMAIN names : /\ ~silent(i) <=> Speaks(names, ctx, i)
                              /\ ~silent(i) => says(i) = Says(names, ctx, i)
  BY DEF Speaks, Usable
<1>6. lookup_ip(geo, ctx.client_ip) =
        IF geo.reader /\ trim(ctx.client_ip) \in Ips \intersect DOMAIN Db
        THEN to_uppercase(Db[trim(ctx.client_ip)]) ELSE ""
  BY DEF lookup_ip
<1>7. CASE /\ \A i \in DOMAIN names : ~Speaks(names, ctx, i)
           /\ Resolved(geo, ctx) = lookup_ip(geo, ctx.client_ip)
  <2>1. \A i \in DOMAIN names : silent(i)
    BY <1>5, <1>7
  <2>2. FromBlocked(ctx) <=> \E b \in blocked \ {""} : byDb(b)
    <3> HIDE DEF silent, byDb
    <3> QED
      BY <1>4, <2>1
  <2> QED
    BY <1>1, <1>6, <1>7, <2>2
<1>8. ASSUME NEW i \in DOMAIN names, Speaks(names, ctx, i),
             \A j \in DOMAIN names : j < i => ~Speaks(names, ctx, j),
             Resolved(geo, ctx) = Says(names, ctx, i)
      PROVE  FromBlocked(ctx) <=>
               Resolved(geo, ctx) # "" /\ Resolved(geo, ctx) \in geo.blocked_countries
  <2>1. ~silent(i) /\ says(i) = Resolved(geo, ctx) /\ Resolved(geo, ctx) # ""
    <3>1. ~silent(i) /\ says(i) = Resolved(geo, ctx)
      BY <1>5, <1>8
    <3> QED
      BY <3>1
  <2>2. \A j \in 1..(i - 1) : silent(j)
    BY <1>3, <1>5, <1>8
  <2>3. ASSUME NEW k \in DOMAIN names, ~silent(k), \A j \in 1..(k - 1) : silent(j) PROVE k = i
    <3> HIDE DEF silent
    <3>1. k \in Nat /\ i \in Nat
      BY <1>3
    <3>2. ~(k < i)
      <4>1. k < i => k \in 1..(i - 1)
        BY <1>3
      <4> QED
        BY <2>2, <2>3, <4>1
    <3>3. ~(i < k)
      <4>1. i < k => i \in 1..(k - 1)
        BY <1>3
      <4> QED
        BY <2>1, <2>3, <4>1
    <3> QED
      BY <3>1, <3>2, <3>3
  <2>4. FromBlocked(ctx) <=> \E b \in blocked \ {""} : says(i) = b
    <3> HIDE DEF silent, says, byDb
    <3> QED
      BY <1>4, <2>1, <2>2, <2>3
  <2> HIDE DEF says
  <2> QED
    BY <1>1, <2>1, <2>4
<1> QED
  BY <1>2, <1>3, <1>7, <1>8, FromHeaders

-----------------------------------------------------------------------------
(***************************************************************************)
(* Engine::enrich, a recursive function of the number of plugins asked.    *)
(***************************************************************************)
Enriching(after, ctx, plugins, n) ==
    after = [i \in 0..n |-> IF i = 0 THEN ctx ELSE EnrichWith(after[i - 1], plugins[i])]

\* The loop over the plugins has a result for every number of them.
LEMMA EnrichingExists ==
    ASSUME NEW ctx, NEW plugins
    PROVE  \A n \in Nat : \E after : Enriching(after, ctx, plugins, n)
<1> DEFINE T == {n \in Nat : \E after : Enriching(after, ctx, plugins, n)}
<1>1. 0 \in T
  <2> DEFINE g == [i \in 0..0 |-> ctx]
  <2>1. Enriching(g, ctx, plugins, 0)
    BY DEF Enriching
  <2> QED
    BY <2>1
<1>2. ASSUME NEW n \in Nat, n \in T PROVE n + 1 \in T
  <2>1. PICK f : Enriching(f, ctx, plugins, n)
    BY <1>2
  <2> DEFINE g == [i \in 0..(n + 1) |->
                     IF i = n + 1 THEN EnrichWith(f[n], plugins[n + 1]) ELSE f[i]]
             h == [i \in 0..(n + 1) |->
                     IF i = 0 THEN ctx ELSE EnrichWith(g[i - 1], plugins[i])]
  <2>2. ASSUME NEW i \in 0..(n + 1) PROVE g[i] = h[i]
    <3>1. CASE i = n + 1
      BY <3>1
    <3>2. CASE i # n + 1
      <4>1. i \in 0..n /\ g[i] = f[i]
        BY <3>2
      <4>2. f[i] = IF i = 0 THEN ctx ELSE EnrichWith(f[i - 1], plugins[i])
        BY <2>1, <4>1 DEF Enriching
      <4>3. i # 0 => g[i - 1] = f[i - 1]
        BY <4>1
      <4> QED
        BY <4>1, <4>2, <4>3
    <3> QED
      BY <3>1, <3>2
  <2>3. Enriching(g, ctx, plugins, n + 1)
    BY <2>2 DEF Enriching
  <2> HIDE DEF g
  <2> QED
    BY <2>3
<1> HIDE DEF T
<1>3. \A n \in Nat : n \in T
  BY <1>1, <1>2, SetInduction
<1> QED
  BY <1>3 DEF T

\* The context before the first plugin, and what a plugin makes of it.
LEMMA EnrichingRound ==
    ASSUME NEW after, NEW ctx, NEW plugins, NEW n \in Nat, Enriching(after, ctx, plugins, n),
           NEW i \in 0..n
    PROVE  after[i] = IF i = 0 THEN ctx ELSE EnrichWith(after[i - 1], plugins[i])
BY DEF Enriching

\* No number of plugins changes the request.
LEMMA EnrichingKeeps ==
    ASSUME NEW ctx, IsCtx(ctx), NEW plugins, NEW N \in Nat, NEW after,
           Enriching(after, ctx, plugins, N)
    PROVE  \A i \in 0..N : IsCtx(after[i]) /\ SameRequest(after[i], ctx)
<1> DEFINE T == {i \in Nat : i <= N => IsCtx(after[i]) /\ SameRequest(after[i], ctx)}
<1>1. \A i \in 0..N : after[i] = IF i = 0 THEN ctx ELSE EnrichWith(after[i - 1], plugins[i])
  BY EnrichingRound
<1>2. 0 \in T
  <2>1. 0 \in 0..N
    OBVIOUS
  <2>2. after[0] = ctx
    BY <1>1, <2>1, Zenon
  <2> QED
    BY <2>2 DEF SameRequest
<1>3. ASSUME NEW i \in Nat, i \in T PROVE i + 1 \in T
  <2> SUFFICES ASSUME i + 1 <= N
               PROVE  IsCtx(after[i + 1]) /\ SameRequest(after[i + 1], ctx)
    OBVIOUS
  <2>1. i + 1 \in 0..N /\ i + 1 # 0 /\ (i + 1) - 1 = i
    OBVIOUS
  <2>2. after[i + 1] = EnrichWith(after[(i + 1) - 1], plugins[i + 1])
    BY <1>1, <2>1, Zenon
  <2>3. IsCtx(after[i]) /\ SameRequest(after[i], ctx)
    BY <1>3
  <2>4. after[i + 1] = EnrichWith(after[i], plugins[i + 1])
    BY <2>1, <2>2
  <2>5. IsCtx(after[i + 1]) /\ SameRequest(after[i + 1], after[i])
    BY <2>3, <2>4, EnrichWithIs
  <2> QED
    BY <2>3, <2>5 DEF SameRequest
<1>4. \A i \in Nat : i \in T
  <2> HIDE DEF T
  <2> QED
    BY <1>2, <1>3, SetInduction
<1> QED
  BY <1>4

\* With the geo plugin last, the context of a request that was enriched has the
\* country of the request.
LEMMA EnrichAllIs ==
    ASSUME NEW ctx, IsCtx(ctx),
           engine.plugins \in {<<"blacklist", "geo">>, <<"blacklist", "crs", "geo">>}
    PROVE  LET e == EnrichAll(ctx)
           IN  IsCtx(e) /\ SameRequest(e, ctx) /\ Country(e) = Resolved(geo, e)
<1> DEFINE plugins == engine.plugins
           n == Len(plugins)
           c == CHOOSE after : Enriching(after, ctx, plugins, n)
<1>1. n \in Nat /\ n # 0 /\ plugins[n] = "geo"
  <2>1. LET p == <<"blacklist", "geo">> IN Len(p) = 2 /\ p[2] = "geo"
    OBVIOUS
  <2>2. LET p == <<"blacklist", "crs", "geo">> IN Len(p) = 3 /\ p[3] = "geo"
    OBVIOUS
  <2>3. CASE plugins = <<"blacklist", "geo">>
    BY <2>1, <2>3
  <2>4. CASE plugins = <<"blacklist", "crs", "geo">>
    BY <2>2, <2>4
  <2> QED
    BY <2>3, <2>4
<1>2. \E after : Enriching(after, ctx, plugins, n)
  BY <1>1, EnrichingExists
<1>3. Enriching(c, ctx, plugins, n)
  BY <1>2, Zenon
<1>4. EnrichAll(ctx) = c[n]
  BY Zenon DEF EnrichAll, Enriching
<1> HIDE DEF c, n, plugins
<1>5. \A i \in 0..n : c[i] = IF i = 0 THEN ctx ELSE EnrichWith(c[i - 1], plugins[i])
  BY <1>1, <1>3, EnrichingRound
<1>6. n \in 0..n /\ n - 1 \in 0..n
  BY <1>1
<1>7. c[n] = EnrichWith(c[n - 1], "geo")
  BY <1>1, <1>5, <1>6, Zenon
<1>8. c[n] = enrich(geo, c[n - 1])
  BY <1>7 DEF EnrichWith
<1>9. IsCtx(c[n - 1]) /\ SameRequest(c[n - 1], ctx)
  BY <1>1, <1>3, <1>6, EnrichingKeeps
<1>10. IsCtx(c[n]) /\ SameRequest(c[n], c[n - 1]) /\ Country(c[n]) = Resolved(geo, c[n - 1])
  BY <1>8, <1>9, EnrichIs
<1>11. SameRequest(c[n], ctx)
  BY <1>9, <1>10 DEF SameRequest
<1>12. Country(c[n]) = Resolved(geo, c[n])
  BY <1>10, ResolvedSame
<1> QED
  BY <1>4, <1>10, <1>11, <1>12

-----------------------------------------------------------------------------
\* The geo plugin the program serves with, and the request: requests are there
\* only then, and one that was enriched has its country.
Enriched(ctx) == IsCtx(ctx) /\ Country(ctx) = Resolved(geo, ctx)

GeoOk ==
    /\ pc \in {"bind", "serving"} =>
          /\ "geo_blocked" \in DOMAIN engine.registry
          /\ \E opened \in BOOLEAN : geo = new(config.geo, opened)
    /\ req.at # "none" => pc = "serving"
    /\ req.at = "enrich" => DOMAIN req = {"at", "by", "ctx"} /\ IsCtx(req.ctx)
    /\ req.at \in {"fire", "done"} /\ req.by = "bench" => Enriched(req.ctx)
    /\ req.at = "done" /\ req.name = "geo_blocked" => req.value = geo_blocked(geo, req.ctx)

\* The functions the geo plugin registers.
LEMMA GeoRegisters ==
    ASSUME NEW eng, DOMAIN eng = {"net", "registry", "plugins"}
    PROVE  "geo_blocked" \in DOMAIN install(eng, "geo").registry
BY DEF install, Functions

\* Before the program serves there is no request.
LEMMA StartGeo ==
    ASSUME AInv, GeoOk, pc # "serving", UNCHANGED req,
           \/ pc' \notin {"bind", "serving"}
           \/ pc \in {"bind"} /\ UNCHANGED <<engine, geo, config>>
    PROVE  GeoOk'
<1>1. req'.at = "none"
  BY DEF GeoOk
<1> QED
  BY <1>1 DEF GeoOk

\* Every step of a request keeps GeoOk.
LEMMA RequestGeo ==
    ASSUME AInv, GeoOk,
           \/ \E h \in Headers : Arrive(h, "proxy", "0.0.0.0")
           \/ \E h \in Headers, ip \in ClientIps : Arrive(h, "bench", ip)
           \/ Enrich \/ (\E q \in Asked : Fire(q[1], q[2])) \/ Reply
    PROVE  GeoOk'
<1>1. UNCHANGED <<pc, config, engine, geo>>
  BY DEF Arrive, Enrich, Fire, Reply
<1>2. ASSUME NEW h, NEW by \in {"proxy", "bench"}, NEW ip, Arrive(h, by, ip) PROVE GeoOk'
  <2> DEFINE c == [headers |-> h, client_ip |-> ip, extensions |-> <<>>]
  <2>1. pc = "serving" /\ req' = [at |-> IF by = "proxy" THEN "fire" ELSE "enrich", by |-> by, ctx |-> c]
    BY <1>2 DEF Arrive
  <2>2. IsCtx(c)
    BY DEF IsCtx
  <2> HIDE DEF c
  <2>3. /\ DOMAIN req' = {"at", "by", "ctx"} /\ req'.ctx = c /\ req'.by = by
        /\ req'.at = IF by = "proxy" THEN "fire" ELSE "enrich"
    BY <2>1
  <2> QED
    BY <1>1, <2>1, <2>2, <2>3 DEF GeoOk
<1>3. CASE Enrich
  <2> DEFINE e == EnrichAll(req.ctx)
  <2>1. req.at = "enrich" /\ req' = [req EXCEPT !.at = "fire", !.ctx = EnrichAll(@)]
    BY <1>3 DEF Enrich
  <2>2. pc = "serving" /\ DOMAIN req = {"at", "by", "ctx"} /\ IsCtx(req.ctx)
    BY <2>1 DEF GeoOk
  <2>3. engine.plugins \in {<<"blacklist", "geo">>, <<"blacklist", "crs", "geo">>}
    BY <2>2 DEF AInv, PluginsOk
  <2>4. IsCtx(e) /\ Country(e) = Resolved(geo, e)
    BY <2>2, <2>3, EnrichAllIs
  <2>5. req'.at = "fire" /\ req'.ctx = e
    BY <2>1, <2>2
  <2> HIDE DEF e
  <2>6. Enriched(req.ctx)'
    BY <1>1, <2>4, <2>5 DEF Enriched
  <2> QED
    BY <1>1, <2>2, <2>5, <2>6 DEF GeoOk
<1>4. ASSUME NEW name, NEW args, Fire(name, args) PROVE GeoOk'
  <2> DEFINE v == call(name, req.ctx, args)
  <2>1. /\ req.at = "fire"
        /\ req' = [at |-> "done", by |-> req.by, ctx |-> req.ctx, name |-> name, value |-> v]
    BY <1>4 DEF Fire
  <2>2. pc = "serving" /\ "geo_blocked" \in DOMAIN engine.registry
    BY <2>1 DEF GeoOk
  <2>3. name = "geo_blocked" => v = geo_blocked(geo, req.ctx)
    BY <2>2 DEF call
  <2> HIDE DEF v
  <2>4. /\ req'.at = "done" /\ req'.by = req.by /\ req'.ctx = req.ctx /\ req'.name = name
        /\ req'.value = v
    BY <2>1
  <2>5. req.by = "bench" => Enriched(req.ctx)'
    BY <1>1, <2>1, <2>4 DEF GeoOk, Enriched
  <2> QED
    BY <1>1, <2>2, <2>3, <2>4, <2>5 DEF GeoOk
<1>5. CASE Reply
  <2>1. req' = [at |-> "none"]
    BY <1>5 DEF Reply, NoRequest
  <2>2. req'.at = "none"
    BY <2>1
  <2> QED
    BY <1>1, <2>2 DEF GeoOk
<1> QED
  BY <1>2, <1>3, <1>4, <1>5

\* GeoOk is an invariant.
LEMMA GeoInvariant == Spec => []GeoOk
<1>1. Init => GeoOk
  <2> SUFFICES ASSUME Init PROVE GeoOk
    OBVIOUS
  <2>1. req.at = "none" /\ pc = "config"
    BY DEF Init, NoRequest
  <2> QED
    BY <2>1 DEF GeoOk
<1>2. ASSUME AInv, GeoOk, [Next]_vars PROVE GeoOk'
  <2>1. CASE (\E f \in Files, form \in Forms : Edit(f, form)) \/ EditDir
    <3>1. pc # "serving" /\ UNCHANGED <<pc, engine, geo, config, req>>
      BY <2>1 DEF Edit, EditDir, Starting
    <3> QED
      BY <1>2, <3>1, StartGeo
  <2>2. CASE LoadConfig \/ OpenAudit \/ Missing \/ List \/ NewStore \/ Compile \/ LoadFails
             \/ (\E f \in Files : ReadFile(f)) \/ InstallBlacklist \/ InstallCrs
    <3>1. pc # "serving" /\ pc' \notin {"bind", "serving"} /\ UNCHANGED req
      BY <2>2 DEF LoadConfig, OpenAudit, Missing, List, NewStore, Compile, LoadFails, ReadFile,
                  InstallBlacklist, InstallCrs, Goto
    <3> QED
      BY <1>2, <3>1, StartGeo
  <2>3. CASE Serve
    <3>1. pc = "bind" /\ UNCHANGED <<engine, geo, config, req>>
      BY <2>3 DEF Serve, Goto
    <3> QED
      BY <1>2, <3>1, StartGeo
  <2>4. CASE Fatal
    <3>1. req'.at = "none" /\ pc' = "exited"
      BY <2>4 DEF Fatal, NoRequest
    <3> QED
      BY <3>1 DEF GeoOk
  <2>5. CASE InstallGeo
    <3>1. /\ pc = "geo" /\ pc' = "bind" /\ engine' = install(engine, "geo") /\ UNCHANGED <<req, config>>
          /\ geo' = new(config.geo, TRUE) \/ geo' = new(config.geo, FALSE)
      BY <2>5 DEF InstallGeo, Goto
    <3>2. "geo_blocked" \in DOMAIN engine'.registry
      BY <1>2, <3>1, GeoRegisters DEF AInv, ShapeOk
    <3>3. \E opened \in BOOLEAN : geo' = new(config'.geo, opened)
      BY <3>1
    <3>4. req'.at = "none"
      BY <1>2, <3>1 DEF GeoOk
    <3> QED
      BY <3>2, <3>3, <3>4 DEF GeoOk
  <2>6. CASE \/ \E h \in Headers : Arrive(h, "proxy", "0.0.0.0")
             \/ \E h \in Headers, ip \in ClientIps : Arrive(h, "bench", ip)
             \/ Enrich \/ (\E q \in Asked : Fire(q[1], q[2])) \/ Reply
    BY <1>2, <2>6, RequestGeo
  <2>7. CASE UNCHANGED vars
    BY <1>2, <2>7 DEF vars, GeoOk, Enriched
  <2> QED
    BY <1>2, <2>1, <2>2, <2>3, <2>4, <2>5, <2>6, <2>7 DEF Next
<1> QED
  BY <1>1, <1>2, StartupInvariant, PTL DEF Spec

\* For a caller that enriches first, geo_blocked() is true exactly for requests
\* from a blocked country: for every configuration, header map, database and
\* tables of upper and lower case, and whichever plugins failed to load.
THEOREM GeoBlockedMeansBlocked == Spec => []GeoVerdict
<1>1. ASSUME AInv, GeoOk PROVE GeoVerdict
  <2> SUFFICES ASSUME req.at = "done", req.by = "bench", req.name = "geo_blocked"
               PROVE  req.value = <<"Bool", FromBlocked(req.ctx)>>
    BY DEF GeoVerdict
  <2> DEFINE c == Country(req.ctx)
             A == c # "" /\ c \in geo.blocked_countries
             B == FromBlocked(req.ctx)
  <2>1. pc = "serving" /\ Enriched(req.ctx) /\ req.value = geo_blocked(geo, req.ctx)
    BY <1>1 DEF GeoOk
  <2>2. PICK opened \in BOOLEAN : geo = new(config.geo, opened)
    BY <1>1, <2>1 DEF GeoOk
  <2>3. config \in Configs
    BY <1>1 DEF AInv, ShapeOk
  <2>4. B <=> A
    BY <2>1, <2>2, <2>3, BlockedMeans DEF Enriched
  <2>5. req.value = <<"Bool", A>>
    BY <2>1 DEF geo_blocked
  <2>6. A \in BOOLEAN /\ B \in BOOLEAN
    BY DEF FromBlocked
  <2> HIDE DEF A, B
  <2>7. A = B
    BY <2>4, <2>6
  <2> QED
    BY <2>5, <2>7 DEF B
<1> QED
  BY <1>1, StartupInvariant, GeoInvariant, PTL
=============================================================================
