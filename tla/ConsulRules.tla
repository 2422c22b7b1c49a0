---------------------------- MODULE ConsulRules ----------------------------
(***************************************************************************)
(* rule/loader.rs and optimized_rule/loader.rs: rules shared through the   *)
(* key-value store of Consul under waf/rules/.  Each WAF process seeds the *)
(* rules of its release into the unified key (seed_rules_to_consul) and    *)
(* follows the prefix with a blocking query (RuleWatcher).  Operators edit *)
(* the same key and may store further files under the prefix.  Both        *)
(* sources carry the same protocol.                                        *)
(***************************************************************************)
EXTENDS Naturals, Sequences, SequencesExt

CONSTANTS
    Seeders,     \* the processes that seed
    Watchers,    \* the watcher tasks of the processes
    Unified,     \* waf/rules/rules.yaml
    OldKeys,     \* the split keys a seeding cleans up, in the code's order
    OtherKeys,   \* further keys under the prefix that end in .yaml
    Absent,      \* no value under a key
    Releases,    \* what the rule files of a release can hold: lists of rules
    Edits,       \* what an operator may store or remove: keys with values
    InitialKVs,  \* contents of the store at the start
    BootRules,   \* the rule set a process is started with
    MaxIndex,    \* bound: writes to the store
    MaxFaults,   \* bound: failed requests and crashes
    Times,       \* values of the clock, in milliseconds
    MaxSeeds     \* bound: seedings of one process

\* load_from_consul reads every key under the prefix that ends in .yaml.
Keys == {Unified} \union ToSet(OldKeys) \union OtherKeys

VARIABLES
    kv, index,   \* Consul: contents and X-Consul-Index
    faults,
    seeder,      \* process -> its seeding
    watcher,     \* process -> its watcher task
    rules        \* process -> the rule set of its RuleEvaluator

vars == <<kv, index, faults, seeder, watcher, rules>>

-----------------------------------------------------------------------------
(***************************************************************************)
(* Contents.  A rule has an id, the is_default mark, the time it was       *)
(* stamped with, and a body that stands for the rest: "bad" does not       *)
(* deserialize as RuleRaw, "invalid" does but compile rejects it.  A value *)
(* is a list of rules, an object with a list under "rules", another text,  *)
(* or bytes that are no text.                                              *)
(***************************************************************************)
Forms == {"list", "object", "text", "binary"}

Rule == [id : STRING, dflt : BOOLEAN, body : STRING, extra : STRING \union {Absent}, ms : Nat]
Value == [form : Forms, rules : Seq(Rule)]

\* A rule in a file of a release
ShippedRule == [id : STRING, body : STRING, extra : STRING \union {Absent}]

\* The rules load_from_consul takes from one value: all, or none when the
\* value is not a list of rules in either form.
Parsed(value) ==
    IF /\ value.form \in {"list", "object"}
       /\ \A i \in DOMAIN value.rules : value.rules[i].body # "bad"
    THEN value.rules
    ELSE << >>

Places(store) ==
    UNION {{<<k, i>> : i \in DOMAIN Parsed(store[k])} : k \in {k \in Keys : store[k] # Absent}}

RuleAt(store, p) == Parsed(store[p[1]])[p[2]]

\* Result<RuleSet, RuleError>
Ok(set) == [ok |-> TRUE, rules |-> set]
Err == [ok |-> FALSE]

\* load_from_consul on one answer of the store: an error for an empty prefix
\* (404), a value that is no text, a repeated id or a rule that does not
\* validate; otherwise the rules of all keys.
Load(store) ==
    LET live == {k \in Keys : store[k] # Absent}
        at == Places(store)
    IN  IF \/ live = {}
           \/ \E k \in live : store[k].form = "binary"
           \/ \E p, q \in at : p # q /\ RuleAt(store, p).id = RuleAt(store, q).id
           \/ \E p \in at : RuleAt(store, p).body = "invalid"
        THEN Err
        ELSE Ok({RuleAt(store, p) : p \in at})

\* The rules seed_rules_to_consul finds under the unified key: a list of any
\* values, or nothing.
Existing(value) == IF value # Absent /\ value.form = "list" THEN value.rules ELSE << >>

\* What is left of an old rule under a new one: fields the new one lacks.
Overlay(old, new) == [new EXCEPT !.extra = IF @ = Absent THEN old.extra ELSE @]

\* Mutant: a rule with the id of a default rule is overwritten whoever made it.
MergeAnyOwner(acc, r) ==
    LET old == acc.rules
        mine == {i \in DOMAIN old : old[i].id = r.id}
    IN  IF mine = {}
        THEN [rules |-> Append(old, r), changed |-> TRUE]
        ELSE [rules |-> [old EXCEPT ![CHOOSE i \in mine : TRUE] = Overlay(@, r)], changed |-> TRUE]

\* Mutant: a default rule is added whether or not its id is there.
MergeAppend(acc, r) == [rules |-> Append(acc.rules, r), changed |-> TRUE]

\* One rule of the release: added when its id is new, laid over the first rule
\* of that id if that is marked as default, otherwise left to its owner.
MergeRule(acc, r) ==
    LET old == acc.rules
        mine == {i \in DOMAIN old : old[i].id = r.id}
        first == CHOOSE i \in mine : \A j \in mine : i <= j
    IN  IF mine = {}
        THEN [rules |-> Append(old, r), changed |-> TRUE]
        ELSE IF old[first].dflt /\ Overlay(old[first], r) # old[first]
        THEN [rules |-> [old EXCEPT ![first] = Overlay(@, r)], changed |-> TRUE]
        ELSE acc

\* The rules of a release as they are written: marked and stamped.
Stamped(release, now) ==
    [i \in DOMAIN release |->
        [id |-> release[i].id, dflt |-> TRUE, body |-> release[i].body,
         extra |-> release[i].extra, ms |-> now]]

\* The loop over the rules of the release: the list and the flag after i of them.
Merge(existing, release, now) ==
    LET new == Stamped(release, now)
        after[i \in 0..Len(release)] ==
            IF i = 0 THEN [rules |-> existing, changed |-> FALSE]
                     ELSE MergeRule(after[i - 1], new[i])
    IN  after[Len(release)]

ASSUME ConsulAssumption ==
    /\ MaxIndex \in Nat \ {0}
    /\ MaxFaults \in Nat
    /\ Times \subseteq Nat
    /\ OldKeys \in Seq(STRING) /\ OldKeys # << >>
    /\ Unified \notin ToSet(OldKeys)
    /\ OtherKeys \intersect ({Unified} \union ToSet(OldKeys)) = {}
    /\ Absent \notin Value
    /\ Releases \subseteq Seq(ShippedRule)
    /\ Edits \subseteq [key : {Unified} \union OtherKeys, value : Value \union {Absent}]
    /\ InitialKVs \subseteq [Keys -> Value \union {Absent}]

-----------------------------------------------------------------------------
(***************************************************************************)
(* The store, its operators and its failures                               *)
(***************************************************************************)
Write(k, value) ==
    /\ index < MaxIndex
    /\ kv' = [kv EXCEPT ![k] = value]
    /\ index' = index + 1

\* A write by somebody else: these seedings have not run alone.
Disturb(ps) ==
    [p \in Seeders |-> IF p \in ps THEN [seeder[p] EXCEPT !.alone = Absent] ELSE seeder[p]]

Fault == faults < MaxFaults /\ faults' = faults + 1

\* An operator stores or removes a key.
Edit ==
    /\ \E e \in Edits : e.value # kv[e.key] /\ Write(e.key, e.value)
    /\ seeder' = Disturb(Seeders)
    /\ UNCHANGED <<faults, watcher, rules>>

-----------------------------------------------------------------------------
(***************************************************************************)
(* seed_rules_to_consul.  alone is a history variable: what was stored     *)
(* under the unified key and the release the call merged it with, as long  *)
(* as none of its requests has failed and nobody else has written since.   *)
(***************************************************************************)
NoSeeding == [pc |-> "off", runs |-> 0, merged |-> << >>, todo |-> << >>, alone |-> Absent]

\* The call stops, finished or not.
Stopped(p, pc, alone) ==
    [seeder[p] EXCEPT !.pc = pc, !.merged = << >>, !.todo = << >>, !.alone = alone]

\* Steps 1 and 2 with the rules found under the unified key.  The files of the
\* release are read in between; one that is missing or does not parse is
\* skipped.  Then the list is written, or only the old keys are cleaned up.
Merging(p, found, ok) ==
    /\ seeder[p].pc \in {"off", "done"}
    /\ seeder[p].runs < MaxSeeds
    /\ \E release \in Releases, now \in Times :
         LET m == Merge(found, release, now)
         IN  seeder' = [seeder EXCEPT ![p] =
                 [pc |-> IF m.changed THEN "put" ELSE "check",
                  runs |-> @.runs + 1,
                  merged |-> IF m.changed THEN m.rules ELSE << >>,
                  todo |-> OldKeys,
                  alone |-> IF ok THEN [stored |-> kv[Unified], release |-> release]
                                  ELSE Absent]]

SeedFetch(p) ==
    /\ Merging(p, Existing(kv[Unified]), TRUE)
    /\ UNCHANGED <<kv, index, faults, watcher, rules>>

\* The request fails or its answer cannot be read: the merge starts from nothing.
SeedFetchFails(p) ==
    /\ Fault
    /\ Merging(p, << >>, FALSE)
    /\ UNCHANGED <<kv, index, watcher, rules>>

\* Step 3
SeedPut(p) ==
    /\ seeder[p].pc = "put"
    /\ Write(Unified, [form |-> "list", rules |-> seeder[p].merged])
    /\ seeder' = [Disturb(Seeders \ {p}) EXCEPT ![p].pc = "check", ![p].merged = << >>]
    /\ UNCHANGED <<faults, watcher, rules>>

\* Consul answers with an error status, which put().send() does not report.
SeedPutRejected(p) ==
    /\ seeder[p].pc = "put"
    /\ Fault
    /\ seeder' = [seeder EXCEPT ![p].pc = "check", ![p].merged = << >>, ![p].alone = Absent]
    /\ UNCHANGED <<kv, index, watcher, rules>>

\* The request fails, before or after Consul has applied it, and the call
\* returns the error.
SeedPutFails(p) ==
    /\ seeder[p].pc = "put"
    /\ Fault
    /\ \/ Write(Unified, [form |-> "list", rules |-> seeder[p].merged])
       \/ UNCHANGED <<kv, index>>
    /\ seeder' = [Disturb(Seeders) EXCEPT ![p] = Stopped(p, "off", Absent)]
    /\ UNCHANGED <<watcher, rules>>

\* The process ends at one of the awaits.
SeedCrash(p) ==
    /\ seeder[p].pc \in {"put", "check", "delete"}
    /\ Fault
    /\ seeder' = [seeder EXCEPT ![p] = Stopped(p, "off", Absent)]
    /\ UNCHANGED <<kv, index, watcher, rules>>

\* Step 4: each old key is asked for, and deleted if it is there.
NextKey(p, alone) ==
    IF Len(seeder[p].todo) = 1
    THEN Stopped(p, "done", alone)
    ELSE [seeder[p] EXCEPT !.pc = "check", !.todo = Tail(@), !.alone = alone]

SeedCheck(p) ==
    /\ seeder[p].pc = "check"
    /\ seeder' = [seeder EXCEPT
            ![p] = IF kv[Head(@.todo)] = Absent THEN NextKey(p, @.alone)
                                                ELSE [@ EXCEPT !.pc = "delete"]]
    /\ UNCHANGED <<kv, index, faults, watcher, rules>>

SeedDelete(p) ==
    /\ seeder[p].pc = "delete"
    /\ IF kv[Head(seeder[p].todo)] = Absent
       THEN UNCHANGED <<kv, index>>
       ELSE Write(Head(seeder[p].todo), Absent)
    /\ seeder' = [Disturb(Seeders \ {p}) EXCEPT ![p] = NextKey(p, @.alone)]
    /\ UNCHANGED <<faults, watcher, rules>>

\* A failed check or delete is ignored.
SeedCleanupFails(p) ==
    /\ seeder[p].pc \in {"check", "delete"}
    /\ Fault
    /\ seeder' = [seeder EXCEPT ![p] = NextKey(p, Absent)]
    /\ UNCHANGED <<kv, index, watcher, rules>>

Seed(p) ==
    \/ SeedFetch(p) \/ SeedFetchFails(p)
    \/ SeedPut(p) \/ SeedPutRejected(p) \/ SeedPutFails(p) \/ SeedCrash(p)
    \/ SeedCheck(p) \/ SeedDelete(p) \/ SeedCleanupFails(p)

-----------------------------------------------------------------------------
(***************************************************************************)
(* RuleWatcher::spawn_watcher.  A poll that fails is retried, one that     *)
(* brings the known index (or none) is repeated: neither changes anything. *)
(* failed and seen are history variables: the outcome of the last load and *)
(* the index of the answer it read.                                        *)
(***************************************************************************)
NoWatch ==
    [pc |-> "poll", last |-> 0, new |-> 0, snap |-> Absent, seen |-> 0, failed |-> FALSE]

\* Mutant: the index is compared with the next one.
PollMissesOne(p) ==
    /\ watcher[p].pc = "poll"
    /\ index > watcher[p].last + 1
    /\ watcher' = [watcher EXCEPT ![p].pc = "probe", ![p].new = index]
    /\ UNCHANGED <<kv, index, faults, seeder, rules>>

Poll(p) ==
    /\ watcher[p].pc = "poll"
    /\ index # watcher[p].last
    /\ watcher' = [watcher EXCEPT ![p].pc = "probe", ![p].new = index]
    /\ UNCHANGED <<kv, index, faults, seeder, rules>>

\* Mutant: the load is taken to cover everything up to its end.
LoadedUpToNow(p, result) ==
    /\ watcher' = [watcher EXCEPT ![p].pc = "poll", ![p].last = index,
                                  ![p].snap = Absent, ![p].failed = (result = Err)]
    /\ rules' = IF result = Err THEN rules ELSE [rules EXCEPT ![p] = result.rules]

\* Mutant: the next index is asked for.
LoadedNext(p, result) ==
    /\ watcher' = [watcher EXCEPT ![p].pc = "poll", ![p].last = watcher[p].new + 1,
                                  ![p].snap = Absent, ![p].failed = (result = Err)]
    /\ rules' = IF result = Err THEN rules ELSE [rules EXCEPT ![p] = result.rules]

\* The end of load_from_consul: a new rule set, or the current one is kept.
\* Either way the index is taken as done.
Loaded(p, result) ==
    /\ watcher' = [watcher EXCEPT ![p].pc = "poll", ![p].last = watcher[p].new,
                                  ![p].snap = Absent, ![p].failed = (result = Err)]
    /\ rules' = IF result = Err THEN rules ELSE [rules EXCEPT ![p] = result.rules]

\* The first request only tells whether there is anything under the prefix.
Probe(p) ==
    /\ watcher[p].pc = "probe"
    /\ IF \A k \in Keys : kv[k] = Absent
       THEN Loaded(p, Err)
       ELSE /\ watcher' = [watcher EXCEPT ![p].pc = "list"]
            /\ UNCHANGED rules
    /\ UNCHANGED <<kv, index, faults, seeder>>

List(p) ==
    /\ watcher[p].pc = "list"
    /\ watcher' = [watcher EXCEPT ![p].pc = "compile", ![p].snap = kv, ![p].seen = index]
    /\ UNCHANGED <<kv, index, faults, seeder, rules>>

LoadFails(p) ==
    /\ watcher[p].pc \in {"probe", "list"}
    /\ Fault
    /\ Loaded(p, Err)
    /\ UNCHANGED <<kv, index, seeder>>

Compile(p) ==
    /\ watcher[p].pc = "compile"
    /\ Loaded(p, Load(watcher[p].snap))
    /\ UNCHANGED <<kv, index, faults, seeder>>

Watch(p) == Poll(p) \/ Probe(p) \/ List(p) \/ LoadFails(p) \/ Compile(p)

-----------------------------------------------------------------------------
Init ==
    /\ kv \in InitialKVs
    /\ index = 1
    /\ faults = 0
    /\ seeder = [p \in Seeders |-> NoSeeding]
    /\ watcher = [p \in Watchers |-> NoWatch]
    /\ rules = [p \in Watchers |-> BootRules]

Next == Edit \/ (\E p \in Seeders : Seed(p)) \/ (\E w \in Watchers : Watch(w))

\* The watcher is a task of its own that never ends; the steps of a load
\* follow each other as requests are answered.
Spec == Init /\ [][Next]_vars
             /\ \A p \in Watchers : WF_vars(Poll(p) \/ Probe(p) \/ List(p) \/ Compile(p))

-----------------------------------------------------------------------------
(***************************************************************************)
(* Properties                                                              *)
(***************************************************************************)
\* Type invariant of the store, the seedings and the watchers.
ConsulTypeOK ==
    /\ index \in 1..MaxIndex
    /\ faults \in 0..MaxFaults
    /\ kv \in [Keys -> Value \union {Absent}]
    /\ \A p \in Seeders :
         /\ seeder[p].pc \in {"off", "put", "check", "delete", "done"}
         /\ seeder[p].merged \in Seq(Rule)
         /\ seeder[p].todo \in Seq(ToSet(OldKeys))
    /\ \A p \in Watchers :
         /\ watcher[p].pc \in {"poll", "probe", "list", "compile"}
         /\ watcher[p].last \in 0..index

\* A watcher that waits for the next index, and whose last load did not fail,
\* enforces what the store holds: a change made while a load is under way is
\* never taken as done with that load (spawn_watcher, last_index).
CaughtUp ==
    \A p \in Watchers :
      watcher[p].pc = "poll" /\ watcher[p].last = index /\ ~watcher[p].failed
        => Load(kv) = Ok(rules[p])

\* The rules a load takes from the keys no seeding ever touches.
Aside(store) == {p \in Places(store) : p[1] \in OtherKeys}

\* Those keys alone make a load fail, or repeat an id of these rules.
AsideClashes(store, sources) ==
    \/ \E k \in OtherKeys : store[k] # Absent /\ store[k].form = "binary"
    \/ \E p \in Aside(store) : RuleAt(store, p).body = "invalid"
    \/ \E p, q \in Aside(store) : p # q /\ RuleAt(store, p).id = RuleAt(store, q).id
    \/ \E p \in Aside(store), r \in sources : RuleAt(store, p).id = r.id

\* What a seeding leaves behind that nothing disturbed can be loaded and has a
\* rule for every id it found or ships, whatever was under the old keys and
\* whatever an earlier seeding left half done, unless it found and ships
\* nothing, what it found or ships could not be loaded itself, or an operator's
\* further keys clash with it (seed_rules_to_consul, steps 2-4).
SeededIsLoadable ==
    \A p \in Seeders : seeder[p].pc = "done" /\ seeder[p].alone # Absent =>
      LET found == Existing(seeder[p].alone.stored)
          release == seeder[p].alone.release
          sources == ToSet(found) \union ToSet(release)
      IN  \/ sources = {}
          \/ \E i, j \in DOMAIN found : i # j /\ found[i].id = found[j].id
          \/ \E r \in sources : r.body \in {"bad", "invalid"}
          \/ AsideClashes(kv, sources)
          \/ /\ Load(kv) # Err
             /\ \A r \in sources : \E l \in Load(kv).rules : l.id = r.id

\* A seeding whose fetch went through and that nobody disturbed writes back
\* every rule of a stored list that is not a default rule, as it was: a list is
\* what seedings store themselves.  Rules an operator stored as an object, which
\* load_from_consul accepts too, are not found and get lost (loader.rs:225-226
\* against :266), and so are those of a fetch that fails (:253) and those stored
\* between the fetch and the write (:367).
SeedKeepsCustom ==
    [][\A p \in Seeders :
         seeder[p].pc = "put" /\ seeder'[p].pc = "check" /\ seeder'[p].alone # Absent
           => LET stored == seeder[p].alone.stored
              IN  stored # Absent /\ stored.form = "list"
                    => \A r \in ToSet(stored.rules) :
                         r.dflt \/ r \in ToSet(Existing(kv'[Unified]))]_vars

\* When the store is left alone, every evaluator ends up with its rules,
\* unless its last load failed: spawn_watcher does not try a failed index again.
WatchersConverge ==
    \A p \in Watchers : <>[](watcher[p].failed \/ Load(kv) = Ok(rules[p]))
=============================================================================
