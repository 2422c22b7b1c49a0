------------------------------ MODULE HotReload ------------------------------
(***************************************************************************)
(* waf-engine rules/{watcher,loader,store}.rs: the rules directory, the    *)
(* notify channel, the watcher task and the two locks of RuleStore.        *)
(*                                                                         *)
(* A reload is not atomic: the watcher lists the directory, reads the      *)
(* files one by one into a rule list, swaps that list in, and then does    *)
(* all of it again for the compiled engine, while files are being edited.  *)
(***************************************************************************)
EXTENDS Naturals, Sequences

CONSTANTS
    Files,       \* rule files of the directory (.yaml, .yml, .grl)
    Yaml,        \* those with the extension .yaml, the only one load_from_dir reads
    Plugins,     \* plugins AppState::init installed on the first engine
    ChannelCap,  \* capacity of the mpsc channel, 32 in the code
    MaxEdits,    \* bound: edits of the directory
    MaxFaults    \* bound: failed listings and failed notifications

ASSUME HotReloadAssumption ==
    /\ Yaml \subseteq Files
    /\ ChannelCap \in Nat \ {0}
    /\ MaxEdits \in Nat
    /\ MaxFaults \in Nat

(***************************************************************************)
(* A file is absent, torn (being written, or not a rule file any reader    *)
(* accepts), loose (accepted by load_grl_from_dir only: field/match/value  *)
(* conditions, and/or trees, GRL text), routed (accepted by load_from_dir  *)
(* only: a list of rules whose GRL text does not parse, see YamlToGrl) or  *)
(* strict (accepted by both).                                              *)
(***************************************************************************)
Forms == {"absent", "torn", "loose", "routed", "strict"}

FormsOf(f) == IF f \in Yaml THEN Forms ELSE Forms \ {"routed", "strict"}

Content == [ver : Nat, form : Forms]

VARIABLES
    disk,     \* file -> content
    edits,    \* number of edits so far; the version of the next content
    os,       \* changes the notify backend has not handed over yet
    queue,    \* the mpsc channel
    faults,   \* listings and notifications that failed so far
    pc,       \* the watcher task
    gen,      \* number of reloads started
    todo,     \* entries of the listing not read yet
    acc,      \* <<file, version>> of the contents read so far
    rules,    \* RuleStore.rules:  [gen, view]
    engine,   \* RuleStore.engine: [gen, view, plugins]
    \* History variables
    lost,     \* a notification or a listing failed since the last reload began
    touched,  \* files edited since the listing of the load in progress
    stale     \* files edited since the listing the installed engine came from

diskVars == <<disk, edits, os>>
storeVars == <<rules, engine>>
reloadVars == <<disk, edits, os, queue, faults, pc, gen, todo, acc, rules, engine,
                lost, touched, stale>>

\* What load_from_dir and load_grl_from_dir make of the directory as it is.
Parses(f, load) ==
    \/ load = "read_rules" /\ f \in Yaml /\ disk[f].form \in {"routed", "strict"}
    \/ load = "read_engine" /\ disk[f].form \in {"loose", "strict"}

View(load) == {<<f, disk[f].ver>> : f \in {g \in Files : Parses(g, load)}}

\* AppState::init has loaded both from one listing and installed the plugins.
ReloadInit ==
    /\ disk \in [Files -> [ver : {0}, form : Forms \ {"torn"}]]
    /\ \A f \in Files : disk[f].form \in FormsOf(f)
    /\ edits = 0
    /\ os = 0
    /\ queue = <<>>
    /\ faults = 0
    /\ pc = "recv"
    /\ gen = 0
    /\ todo = {}
    /\ acc = {}
    /\ rules = [gen |-> 0, view |-> View("read_rules")]
    /\ engine = [gen |-> 0, view |-> View("read_engine"), plugins |-> Plugins]
    /\ lost = FALSE
    /\ touched = {}
    /\ stale = {}

-----------------------------------------------------------------------------
(***************************************************************************)
(* The directory and notify (external).                                    *)
(***************************************************************************)
\* A file is replaced, truncated or removed; notify sees a change.
Edit(f, form) ==
    /\ edits < MaxEdits
    /\ form # disk[f].form \/ form # "absent"
    /\ edits' = edits + 1
    /\ disk' = [disk EXCEPT ![f] = [ver |-> edits + 1, form |-> form]]
    /\ os' = os + 1
    /\ touched' = touched \union {f}
    /\ stale' = stale \union {f}
    /\ UNCHANGED <<queue, faults, pc, gen, todo, acc, rules, engine, lost>>

\* Mutant: the callback does not wait for room in the channel.
NotifyUnbounded ==
    /\ os > 0
    /\ os' = os - 1
    /\ queue' = Append(queue, "change")
    /\ UNCHANGED <<disk, edits, faults, pc, gen, todo, acc, rules, engine, lost,
                   touched, stale>>

\* blocking_send waits for room.  Events of other kinds or files are "other".
Notify ==
    /\ os > 0
    /\ Len(queue) < ChannelCap
    /\ os' = os - 1
    /\ queue' = Append(queue, "change")
    /\ UNCHANGED <<disk, edits, faults, pc, gen, todo, acc, rules, engine, lost,
                   touched, stale>>

NotifyOther ==
    /\ faults < MaxFaults
    /\ Len(queue) < ChannelCap
    /\ faults' = faults + 1
    /\ queue' = Append(queue, "other")
    /\ UNCHANGED <<disk, edits, os, pc, gen, todo, acc, rules, engine, lost,
                   touched, stale>>

\* The backend reports an error instead of the change.
NotifyError ==
    /\ os > 0
    /\ faults < MaxFaults
    /\ Len(queue) < ChannelCap
    /\ os' = os - 1
    /\ faults' = faults + 1
    /\ queue' = Append(queue, "error")
    /\ lost' = TRUE
    /\ UNCHANGED <<disk, edits, pc, gen, todo, acc, rules, engine, touched, stale>>

-----------------------------------------------------------------------------
(***************************************************************************)
(* The watcher task.                                                       *)
(***************************************************************************)
\* Mutant: only the engine is reloaded.
RecvEngineOnly ==
    /\ pc = "recv"
    /\ queue # <<>>
    /\ queue' = Tail(queue)
    /\ IF Head(queue) = "change"
       THEN pc' = "list_engine" /\ gen' = gen + 1 /\ lost' = FALSE
       ELSE UNCHANGED <<pc, gen, lost>>
    /\ UNCHANGED <<disk, edits, os, faults, todo, acc, rules, engine, touched, stale>>

\* rx.recv(): errors and irrelevant events are dropped.
Recv ==
    /\ pc = "recv"
    /\ queue # <<>>
    /\ queue' = Tail(queue)
    /\ IF Head(queue) = "change"
       THEN pc' = "list_rules" /\ gen' = gen + 1 /\ lost' = FALSE
       ELSE UNCHANGED <<pc, gen, lost>>
    /\ UNCHANGED <<disk, edits, os, faults, todo, acc, rules, engine, touched, stale>>

\* Mutant: the engine load appends to what the rules load has read.
ListAppending(from, to) ==
    /\ pc = from
    /\ pc' = to
    /\ todo' = {f \in Files : disk[f].form # "absent"}
    /\ touched' = {}
    /\ UNCHANGED <<disk, edits, os, queue, faults, gen, acc, rules, engine, lost, stale>>

\* read_dir succeeds: start reading into an empty list.
List(from, to) ==
    /\ pc = from
    /\ pc' = to
    /\ todo' = {f \in Files : disk[f].form # "absent"}
    /\ acc' = {}
    /\ touched' = {}
    /\ UNCHANGED <<disk, edits, os, queue, faults, gen, rules, engine, lost, stale>>

ListRules == List("list_rules", "read_rules")

ListEngine == List("list_engine", "read_engine")

\* read_dir, or the step to the next entry, fails: the load is abandoned with
\* what it has read, an error is logged and the old value stays.
LoadFault(during, to) ==
    /\ pc \in during
    /\ faults < MaxFaults
    /\ faults' = faults + 1
    /\ pc' = to
    /\ lost' = TRUE
    /\ UNCHANGED <<disk, edits, os, queue, gen, todo, acc, rules, engine, touched, stale>>

RulesFault == LoadFault({"list_rules", "read_rules"}, "list_engine")

EngineFault == LoadFault({"list_engine", "read_engine"}, "recv")

\* The directory does not exist: load_grl_from_dir returns Ok with no rules.
ListEngineMissing ==
    /\ pc = "list_engine"
    /\ faults < MaxFaults
    /\ faults' = faults + 1
    /\ pc' = "read_engine"
    /\ todo' = {}
    /\ acc' = {}
    /\ lost' = TRUE
    /\ touched' = Files
    /\ UNCHANGED <<disk, edits, os, queue, gen, rules, engine, stale>>

\* Mutant: the first file that does not parse ends the load.
ReadFileAborting(f) ==
    /\ pc \in {"read_rules", "read_engine"}
    /\ f \in todo
    /\ todo' = IF Parses(f, pc) THEN todo \ {f} ELSE {}
    /\ acc' = IF Parses(f, pc) THEN acc \union {<<f, disk[f].ver>>} ELSE acc
    /\ UNCHANGED <<disk, edits, os, queue, faults, pc, gen, rules, engine, lost,
                   touched, stale>>

\* One entry is read; a file that is gone or does not parse is skipped.
ReadFile(f) ==
    /\ pc \in {"read_rules", "read_engine"}
    /\ f \in todo
    /\ todo' = todo \ {f}
    /\ acc' = IF Parses(f, pc) THEN acc \union {<<f, disk[f].ver>>} ELSE acc
    /\ UNCHANGED <<disk, edits, os, queue, faults, pc, gen, rules, engine, lost,
                   touched, stale>>

\* Mutant: the old engine is dropped before the new one is compiled.
SwapRulesDropping ==
    /\ pc = "read_rules"
    /\ todo = {}
    /\ rules' = [gen |-> gen, view |-> acc]
    /\ engine' = [gen |-> gen, view |-> {}, plugins |-> {}]
    /\ pc' = "list_engine"
    /\ UNCHANGED <<disk, edits, os, queue, faults, gen, todo, acc, lost,
                   touched, stale>>

\* RuleStore::reload
SwapRules ==
    /\ pc = "read_rules"
    /\ todo = {}
    /\ rules' = [gen |-> gen, view |-> acc]
    /\ pc' = "list_engine"
    /\ UNCHANGED <<disk, edits, os, queue, faults, gen, todo, acc, engine, lost,
                   touched, stale>>

\* Mutant: events that arrived during the reload are discarded.
SwapEngineDraining ==
    /\ pc = "read_engine"
    /\ todo = {}
    /\ engine' = [gen |-> gen, view |-> acc, plugins |-> {}]
    /\ stale' = touched
    /\ pc' = "recv"
    /\ queue' = <<>>
    /\ UNCHANGED <<disk, edits, os, faults, gen, todo, acc, rules, lost, touched>>

\* RuleStore::reload_engine(Engine::new(network)): no plugin is installed.
SwapEngine ==
    /\ pc = "read_engine"
    /\ todo = {}
    /\ engine' = [gen |-> gen, view |-> acc, plugins |-> {}]
    /\ stale' = touched
    /\ pc' = "recv"
    /\ UNCHANGED <<disk, edits, os, queue, faults, gen, todo, acc, rules, lost, touched>>

Environment ==
    \/ \E f \in Files : \E form \in FormsOf(f) : Edit(f, form)
    \/ NotifyOther
    \/ NotifyError
    \/ RulesFault
    \/ EngineFault
    \/ ListEngineMissing

Watcher ==
    \/ Recv
    \/ ListRules
    \/ ListEngine
    \/ \E f \in Files : ReadFile(f)
    \/ SwapRules
    \/ SwapEngine

ReloadNext == Environment \/ Notify \/ Watcher

ReloadSpec ==
    ReloadInit /\ [][ReloadNext]_reloadVars
        /\ WF_reloadVars(Notify) /\ WF_reloadVars(Watcher)

-----------------------------------------------------------------------------
ReloadTypeOK ==
    /\ disk \in [Files -> Content]
    /\ edits \in 0 .. MaxEdits
    /\ os \in Nat
    /\ queue \in Seq({"change", "other", "error"})
    /\ Len(queue) <= ChannelCap
    /\ faults \in 0 .. MaxFaults
    /\ pc \in {"recv", "list_rules", "read_rules", "list_engine", "read_engine"}
    /\ gen \in Nat
    /\ todo \subseteq Files
    /\ acc \subseteq (Files \X Nat)
    /\ rules \in [gen : Nat, view : SUBSET (Files \X Nat)]
    /\ engine \in [gen : Nat, view : SUBSET (Files \X Nat), plugins : SUBSET Plugins]
    /\ lost \in BOOLEAN
    /\ touched \subseteq Files
    /\ stale \subseteq Files

\* The engine in force has exactly the rules of every file that has not been
\* edited since it was loaded: a reload that reads one file torn or misses
\* another never drops or keeps the rules of a third (loader.rs:45-76).
UntouchedFilesAreEnforced ==
    \A f \in Files \ stale :
        {e \in engine.view : e[1] = f} =
            IF Parses(f, "read_engine") THEN {<<f, disk[f].ver>>} ELSE {}

\* No step brings an older content of a file back into the engine or into the
\* routing list, or has two contents of one file in force (watcher.rs:46-59).
ViewOk(old, new) ==
    \A e \in old, n \in new : e[1] = n[1] => e[2] <= n[2]

ContentsNeverRegress ==
    [][ViewOk(engine.view, engine'.view) /\ ViewOk(rules.view, rules'.view)]_reloadVars

\* Once the directory is left alone, engine and routing list end up equal to
\* what is on disk, unless the last notification or listing failed.
InSync == rules.view = View("read_rules") /\ engine.view = View("read_engine")

Converges == <>[](lost \/ InSync)

\* functions.rs:31-32 says ip_in_blacklist and ip_in_whitelist "are registered
\* by BlacklistPlugin via FunctionRegistry and never reach this dispatch table".
PluginsSurviveReload == engine.plugins = Plugins
==============================================================================
