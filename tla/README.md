# A TLA+ model of mini-waf

mini-waf is a reverse proxy with a web application firewall: a request is
buffered, judged by a forward-chaining rule engine, and then refused or
forwarded to an upstream. Rules live in a directory that is watched and reloaded
while requests are in flight. This directory holds TLA+ modules for the parts of
that program that carry its logic, TLC configurations that check them on small
instances, and TLAPS proofs of the properties that matter most.

Source paths below are relative to `src/crates/` unless they start with `src/`.

## 1. Inventory

| Component | State | Operations | Hard behaviour | Correct means |
|---|---|---|---|---|
| RETE engine (`waf-engine/src/rules/rete/{engine,working_memory,alpha,terminal}.rs`) | overlay of assigned paths, outcome, `fired` names, cycle counter, alpha vector | `Engine::fire`, statements of a `then` block | assignments make the alpha vector stale; rules assign what other rules test; duplicate names; the cap of 16 cycles | terminates; fires the rule the agenda asks for; misses none; nothing fires after block/allow |
| RETE compiler (`rete/mod.rs`) | interned alpha nodes, sorted terminals | `Network::compile` | flattening, sharing of nodes between rules, stability of the sort | a guard says what the rule says |
| GRL converter and parser (`rules/grl/*`) | none (pure) | `yaml_to_grl`, `parse` | conditions become text and are parsed again; per-rule and per-file errors; literals the parser ends elsewhere; scopes the converter does not know; saliences from unsigned priorities | meaning kept; only bad rules lost; order of priorities kept |
| Rule loader, watcher, store (`rules/{loader,watcher,store}.rs`) | directory, notify channel of 32, two `RwLock`s | listing, reading, two swaps | files edited while they are read; two loads of one reload with two notions of a valid file; failures of either | untouched files always enforced; never an older content; catches up in the end |
| Proxy handler and pipeline (`waf-proxy/src/handler.rs`, `waf-engine/src/pipeline.rs`) | one task per request | collect body, judge, resolve, forward | awaits between reads of the two locks; upstream and client that fail or hang | no request slips through during a reload; it is routed by no older reload than it was judged by |
| IP lists and blacklist plugin (`lists/*`) | blacklist and whitelist, one lock each | add, load file, `is_blacklisted`, `is_whitelisted` | a lookup takes two locks one after the other | split into hosts and networks is exact; lookups respect finished writes |
| Application state (`waf/src/cli.rs`, `waf-engine/src/state/store.rs`) | configuration, rule store, engine under construction, plugins | `run_async`, `AppState::init` | two loads of a directory that may change in between, each with a fallback of its own; optional plugins that fail | what is routed is judged; a bad file costs no other file its rules |
| Legacy matcher (`rules/matcher.rs`) | none | `evaluate` | | reference meaning of a condition |
| CRS loader and evaluator (`rules/crs/{loader,parser,evaluator,plugin}.rs`) | source text, tag table, rule count | `load_from_dir`, `parse_conf`, `evaluate` | two parsers of one text; chains with rules that do not parse; failures between phases | chains whole; table exact; all files or none; only fired tags reported |
| GRL functions, registry and geo plugin (`rules/grl/registry.rs`, `plugin.rs`, `geo/plugin.rs`) | registered functions, extensions of a request | `install`, `enrich`, `call`, `GetCountry`, `geo_blocked` | functions read what `enrich` stored; several headers may name a country | with `enrich` called first, `geo_blocked()` is exact |
| `rule` and `optimized_rule` crates and the sources they were made from (`src/rule`, `src/optimized_rule`) | sorted rule list, regex cache | `load_from_path`, `compile`, `evaluate` | shared cache reached by keys; unstable sort; three hand-written globs beside `globset`, and two network matchers | cache transparent; highest precedence wins; the engines agree on a common core; the globs err at the end of a pattern only |
| Consul synchronisation (`src/rule/loader.rs`, `src/optimized_rule/loader.rs`) | key-value store, index, the list being merged, the last index seen | `seed_rules_to_consul`, `load_from_consul`, `RuleWatcher::spawn_watcher` | read-merge-write without a lock; requests that fail half way; writes between the poll and the listing; two forms of a stored value; keys under the prefix that no seeding owns | a watcher at the index has the rules of the store; seeding keeps operators' rules and leaves something loadable |
| Risk scoring, tiers | none | threshold arithmetic | boundaries | nothing calls it at this commit |
| Detection, behaviour, rate limit, cache, challenge, DDoS, fingerprint, response; dashboard API | | | | stubs at this commit, nothing to model |
| Backends, dashboard, FTW tests, bundled rule files, benchmarks | | | | test and tool code, third-party data |

Interactions. `AppState::init` loads the routing list and the engine and installs
the plugins. The watcher task receives events from notify over a channel and
writes both halves of `RuleStore`. Each request task reads `RuleStore` twice: it
clones the engine before it is judged (`run_inbound`), and walks the routing list
after it was allowed (`resolve_upstream`). Plugins register functions that rule
conditions call; the blacklist plugin reads the IP lists that other tasks write.
The YAML engines are reached from the comparison tools
(`waf-engine/src/bin/compare_engines_yaml_vs_rete.rs`) only; WAF processes that use
`src/rule` share their rules through Consul.

What is hard to test in this code is listed under `hazards` in `PROJECT.json`, each
with its line and with the properties that would catch it going wrong.

## 2. Modules and how they correspond to the code

* **GrlRules** is the vocabulary: alpha nodes, guards, statements, working memory.
  `read_path`, `write_path`, `eval_alpha`, `run_action`, `outcome_to_decision` are the functions of the
  same names. Values are integers (the comparisons of a rule file are what tells
  them apart), a guard is in disjunctive form, `retract` marks a name as fired,
  and the cast of `rate_limit`'s argument to `u64` is `% U64`.
* **RuleAgenda** says what one call of `fire` promises, without a network: fire the
  eligible rule of highest salience, earliest first among equals, judged by what
  has been assigned so far. It is the abstract specification.
* **ReteEngine** is `fire` as written: `EvalAlphas` (the vector of a cycle), `Fire`
  (scan of the sorted terminals), `RunStmt`, `EndRule` (break or next cycle),
  `Quiesce` (`!any_new`). `Agenda` is the refinement mapping.
* **HotReload** is the directory, the notify channel, the watcher task and the
  store. A reload is `Recv`, `ListRules`, one `ReadFile` per entry, `SwapRules`,
  `ListEngine`, `ReadFile`..., `SwapEngine`; `Edit` may happen between any two. A file is
  absent, torn, loose (only the GRL loader accepts it), routed (only `load_from_dir` does: a list of
  rules whose GRL text does not parse) or strict (both do). The
  faults are a failing `read_dir` or entry, a missing directory, and an error or an
  irrelevant event from notify.
* **WafProxy** extends HotReload with request tasks: `Arrive`, `BodyRead`/`BodyFails`,
  `TakeEngine`, `Judge`, `Resolve`, `Forward`, then the upstream. How one engine fires is
  ReteEngine's subject; here a file has one rule, with a verdict and a salience, that matches
  every request. `Fired` gives the sets of files a firing loop may have gone through: by
  salience (ties in the order of `read_dir`, hence either way), up to a block or an allow or to
  `MaxCycles`. `Decide` is `outcome_to_decision` of what these asked for. Which routing rules match a path is the constant `OnPath`.
  hyper drops the task at an await when the client goes away.
* **IpListStore** is `IpSet` and `IpListStore` with every writer, and the lookups of the
  plugin's `enrich` as three separate reads. Addresses keep their family and their
  width; `ipnet` is external.
* **YamlToGrl** is converter, parser and compiler over tokens: a comparison or call is
  one token, parentheses and connectives are tokens of their own, so that precedence
  and nesting are what the code produces. A rule without id or condition, a condition with a part
  missing and mixed notations fail to convert, each rule alone; a literal that the parser would end
  elsewhere (a value that ends in a backslash; a quote in a wildcard's prefix, a backend or an unknown action) is
  `junk` in the text, or `lexes` is false, and the file does not parse. A scope is an atom; those in
  `Ignored` (session, device, scopes written without `type`) get no guard, but `Applies` has them restrict the
  rule as rule.rs says. The actions are `ConvertRule` for each rule of
  the file and `EndConvert`, `Parse` or `Skip` for the text, `CompileRule` for each parsed rule
  (it threads the interned alphas), `Sort`. Code that recurses over a tree or into a
  parenthesis is a function by levels: `cond_to_grl[d]` is the converter on conditions of up
  to d levels and uses `cond_to_grl[d - 1]` below the root; `parse_expr`, `compile_guard`, `eval` and
  the reference `evaluate` are made the same way. `MaxDepth` and `MaxTokens` bound the levels, and the
  assumption on `Docs` says that every document stays within them.
* **CrsLoader** is `load_from_dir` with `parse_conf` line by line (`SkipMember`, `KeepRule`,
  `DropRule`, `SecMarker`), the tag table (`CollectTags`), and `evaluate` with its early returns.
  ModSecurity is external: a transaction reports any ids of the text it was given.

* **ConsulRules** is the Consul protocol request by request. A seeding is `SeedFetch` (or
  `SeedFetchFails`: the merge then starts from nothing), `SeedPut` with its three
  outcomes (applied, rejected with a status nobody looks at, failed before or after
  it was applied), then `SeedCheck`/`SeedDelete` for each old key; `SeedCrash` ends it at any
  await. The watcher is `Poll`, `Probe` (the first GET), `List` (the second), `Compile`;
  every outcome of a load takes the index of the poll as done (`Loaded`). `Merge` is the
  merge of a release into the stored list: unknown ids are appended, default rules are
  overlaid, rules of operators are left alone; it is a recursive function over the rules of
  the release, as the code's loop is. `Keys` are all keys under the prefix that a load reads: the
  unified one, the old ones the clean-up deletes, and `OtherKeys`, which no seeding touches. Operators
  write the unified key and the other ones. `Value`, `Write` and `Edit` are Consul and its other
  writers, external.
* **RuleTexts** is the vocabulary of the YAML engines: rules, leaves, texts as sequences of
  tokens, and the libraries (`regex`, `globset`, `ipnet`, parsing of addresses) by what they mean. `GlobMatches` is
  a glob as the comments in the two crates explain it; `GlobsetMatches` is `globset` with its character
  classes and `**` components, which only `src/rule` and `src/optimized_rule` call.
  **RuleEngine** (`src/rule`), **CachedRuleEngine** (`src/optimized_rule`), **RuleCrate** (`crates/rule`) and
  **OptimizedRuleCrate** (`crates/optimized_rule`) are the four evaluators as operators named like
  their functions. A load returns the set of lists it may give: an unstable sort gives
  several. **RuleEngines** composes them as the comparison tools do: files are written,
  all four load them, all four are asked.
* **GeoPlugin** is `geo/plugin.rs` as operators; **AppStartup** extends it with `run_async` and
  `AppState::init` step by step, `Edit`s of the directory in between, one fallback per step,
  then requests from the proxy (`run_inbound`, which does not call `Engine::enrich`) and from
  callers that do, as `benches/engine_bench.rs` does. `EnrichAll` is the loop of `Engine::enrich`
  over the plugins.
* **NatFacts** has no model: it holds the induction principle over sets, the facts on
  least and greatest elements that the proofs about loops rest on, and that a function
  by levels exists and is what its defining equation says. The modules named
  `...Proofs` hold the proofs of the module they extend.

`PROJECT.json` maps every definition to its lines. Definitions marked `Mutant:`
are wrong variants of the definition that follows them; replacing that definition by
its variant must make TLC find the named property violated.

## 3. Runs

| Run | Checks | Bounds |
|---|---|---|
| `rete` | `TypeOK`, `FiresAtMostOnce`, `Quiescent`, `CapIsHarmless`, `DecisionIsFinal`, `ImplementsAgenda`, `Terminates` | every duplicate-free list of up to 4 rules of a catalogue of 6, every request; `MaxCycles` = 3 so that the cap is met with 4 rules |
| `reload` | `ReloadTypeOK`, `UntouchedFilesAreEnforced`, `ContentsNeverRegress`, `Converges` | two files (a `.yaml` and a `.grl`), 3 edits, 1 fault, channel of 2 so that it fills up |
| `proxy` | `ProxyTypeOK`, `NoWindow`, `RoutedNotBeforeJudged` | one request; a file that blocks and routes, a whitelist of the same salience that calls a plugin, a logging file above both; 1 cycle, 2 edits, channel of 1; 1.6 million states |
| `ip_lists` | `IpTypeOK`, `SplitIsExact`, `LookupsRespectEarlierWrites` | 2-bit V4 and 3-bit V6, hosts, networks with host bits set, a V6 network of V4 host length, one lookup |
| `yaml_to_network` | `GuardsMean`, `OnlyBadRulesAreLost`, `PriorityOrder` | all trees of depth two in both notations with lists of up to two members; every kind of scope; faulty leaves, incomplete rules and rules with literals that do not lex beside good ones; pairs of rules with priorities around the cap and the wrap; `MaxDepth` = 3 and `MaxTokens` = 40, which no document of the run reaches |
| `crs_load` | `CrsTypeOK`, `ChainsAreWhole`, `LastDefinitionWins`, `AllOrNothing`, `ReportedTagsFired` | every file of up to 4 lines of a catalogue of 9 (heads, members, markers, unparsable rules, repeated ids), pairs of files of up to 2 lines, either unreadable |
| `consul_rules` | `ConsulTypeOK`, `CaughtUp`, `SeededIsLoadable`, `SeedKeepsCustom`, `WatchersConverge` | two processes that seed once each, one watcher, one old key and one further key, three releases (one empty), 4 initial stores, two edits an operator may make, index up to 4 (three writes), 1 fault; 1.06 million states |
| `rule_engines` | `RuleTypeOK`, `CacheIsTransparent`, `HighestPrecedence`, `EnginesAgree`, `GlobsMean`, `CidrMeans` | two files and a third one, conditions that meet every match type, 3 requests; all globs of up to 4 tokens on texts of up to 3, all networks of 2-bit V4 and 3-bit V6 addresses with prefixes in and out of range |
| `startup` | `StartupTypeOK`, `JudgedAsRouted`, `GeoVerdict` | two files in five forms, 2 configurations, 1 change of the directory and 1 fault anywhere during the start, 64 header maps |

Why the bounds suffice. A rule list of four already has a rule enabled by another,
one disabled by another, a duplicate name, a retraction and a tie; the cap behaves
the same at 3 as at 16. Requests share no state with each other, only with the
watcher, so one request meets every interleaving of its two reads with two
overlapping reloads; with one cycle the three files of `proxy` already have a block, an allow
of equal salience that a reload without plugins switches off, and a file the cap lets through.
Lookups do not write, so one lookup meets every interleaving
with the writers. Two edits of one file and one of another are what it takes to
read one content in the list and another in the engine. Salience keeps the
constants 1000 and 150 of the code; the width of an `i32` is scaled to 4000 values
so that the wrap is reached. Three writes are
what it takes for a seeding, its clean-up and an operator to overlap with one load of
a watcher; watchers do not write, so one meets every interleaving. One change of the
directory lands between any two steps of the start. `proxy` has no faults: `reload` has them. The theorems below hold for all values of the
constants.

Runs whose point is a disagreement between the code and what the repository says
of it:

| Run | Property | What TLC shows |
|---|---|---|
| `plugins_survive` | `PluginsSurviveReload` | the watcher installs `Engine::new(network)` without plugins, so list, CRS and geo functions are gone after the first reload |
| `geo_blocks` | `GeoBlocksBlocked` | `run_inbound` fires the engine on a context nobody enriched, so `geo_blocked()` is false for every request of the proxy; `plugin.rs:36` says to call `enrich` before `fire`, and docs/architecture.md:73 shows that call in `run_inbound` |
| `scopes` | `ScopesRestrict` | a rule scoped to a session fires for other sessions: `scope_to_grl` has no guard for session and device scopes; rule.rs:21 says "Where the rule applies.", docs/req.md:46 lists per-session and per-device scopes |

Fairness. `fire` is a loop without awaits, so ReteEngine has weak fairness of `Next`.
HotReload has weak fairness of the watcher task and of the notify callback, which
run on threads of their own whenever there is something to do, and none of edits and faults.
WafProxy has no fairness: its properties are safety properties, and the client and the upstream owe nothing.
ConsulRules has weak fairness of each watcher task, a loop that never ends, and of the
requests of its load being answered; a load that fails takes a fault, and `WatchersConverge`
excuses a watcher whose last load failed, because the code does not try that index again.
Seedings and operators owe nothing. Deadlock is not checked where the system
really stops: when `fire` has returned, when the directory is left alone, when
requests are answered, when a file is compiled, when the
store is left alone, when the program has exited or every question was put.

## 4. Proofs

| Theorem | Says |
|---|---|
| `ReteEngineProofs!TypeCorrect`, `NoNameFiresTwice`, `ReturnsQuiescent`, `BlockOrAllowIsLast`, `CapHidesNothing` | `TypeOK`, `FiresAtMostOnce`, `Quiescent`, `DecisionIsFinal` and `CapIsHarmless` for all rule lists, requests and caps |
| `ReteEngineProofs!RefinesAgenda` | the safety part of ReteEngine implements `RuleAgenda` |
| `WafProxyProofs!ReloadTypeCorrect`, `ReloadKeepsUntouchedFiles`, `ReloadNeverRegresses` | the type invariant and the two safety properties of the reload, for all directories, channel sizes and numbers of edits and faults |
| `WafProxyProofs!RequestsDoNotDisturbReloads` | the proxy, seen through the variables of the reload, takes the steps of the reload |
| `WafProxyProofs!ProxyTypeCorrect`, `ReloadsOpenNoWindow`, `NeverRoutedByAnOlderReload`, `EnforcedUnderLoad` | `ProxyTypeOK`, `NoWindow`, `RoutedNotBeforeJudged` and `UntouchedFilesAreEnforced` for any number of requests in flight |
| `IpListProofs!IpTypeCorrect`, `ListsAnswerExactly`, `EarlierWritesAreSeen` | the properties of the lists, for all widths and any number of concurrent lookups |
| `CrsLoaderProofs!CrsTypeCorrect`, `ChainsStayWhole`, `LoadIsAllOrNothing`, `TheLastDefinitionWins`, `TagsAreOfFiredRules` | `CrsTypeOK`, `ChainsAreWhole`, `AllOrNothing`, `LastDefinitionWins` and `ReportedTagsFired` for every directory and files of any length |
| `AppStartupProofs!StartupTypeCorrect`, `ServedAsLoaded`, `GeoBlockedMeansBlocked` | `StartupTypeOK`, `JudgedAsRouted` and `GeoVerdict` for every configuration, directory, database and number of changes and faults |
| `ConsulRulesProofs!ConsulTypeCorrect`, `WatcherCaughtUp`, `CustomRulesSurviveSeeding`, `SeedingLeavesLoadableRules` | `ConsulTypeOK`, `CaughtUp`, `SeedKeepsCustom` and `SeededIsLoadable` for any number of processes, keys, rules, writes and faults |
| `YamlToGrlProofs!NetworkMeansTheFile`, `OnlyBadRulesLost`, `PrioritiesAreKept` | `GuardsMean`, `OnlyBadRulesAreLost` and `PriorityOrder` for all documents, all depths of conditions and all lengths of texts |
| `YamlToGrlProofs!EveryRuleIsAccountedFor` | the inductive invariant `YInv` the three rest on: at each stage, which rule of the document each text, tree and terminal comes from, and what it means |

*ReteEngine.* None of the properties is inductive. The invariant adds: the alpha
vector is exact whenever the engine scans (it is computed after the last
statement, which is why a rule is judged as the agenda judges it); `matched`
holds only names in `fired` and no name twice; its length follows the cycle
counter; a decision made outside a running rule means the loop has ended. With it the scan's choice of the first firing
terminal is the agenda's choice, because the sort is stable and total. For `CapIsHarmless`,
a loop ended by the cap has matched `MaxCycles` different names; with no more names than that
every name is matched, and a matched rule is not eligible.

*HotReload.* What the engine holds is related to the disk through the load that
produced it: of a file not touched since the listing, the load in progress has
read the present content or still has it to read; versions read are never newer
than the file, and the view in force never newer than the one being read. That is
enough for these theorems and does not depend on faults or on the channel.

*WafProxy.* Requests only read the store, so a step of the proxy is a step of the reload
or leaves its variables alone, and the reload's invariant carries over unchanged. `PInv`
adds how the generations of list and engine are ordered at each point of a reload
(the list is swapped first), and for each request what its two reads saw: the engine it
took held the files that were valid and unedited when it took it, the judgement
let it past those that turn requests away only with an excuse (`Excused`: a plugin that engine lacks, or files that outrank
them), and the list it then reads is of that reload or a later one. `AllowMeansNoObjection` follows the firing loop:
if the decision is to allow, a matching file that turns requests away has not fired, and only files that outrank it can have ended the loop before it.

*IpListStore.* The two halves of each `IpSet` are tied to the entries ever given to
it, and each stage of a lookup to what was listed when it began; lists only grow,
so what a read has seen stays true.

*CrsLoader.* The invariant says what the counter means before each line: it is 1
exactly if the line continues a chain in which some rule did not parse. With that,
one lemma per kind of line shows that the items stay the kept lines. For the tag table
`LoaderInv` adds that the items of a file are in the order of its lines, without a
repetition, that the table holds for each id the tags of the last tagged item collected
so far, and that what a transaction reports is of the text it was given. A last
definition exists because a bounded set of numbers has a greatest element.

*AppStartup.* As in HotReload, of a file untouched since the first listing each of the two
loads has read the present content or still has it to read, each by its own notion of a valid file; `failed` says which load
fell back. `GeoOk` says that once the program serves the geo plugin is the one made
from the configuration and `geo_blocked` is registered, and that an enriched request carries
the country the plugin resolves for it. The loop of `Engine::enrich` is followed plugin by plugin:
only the geo plugin writes `geo.country`, so the function finds there what the plugin
resolved, which is the first usable header or the database's answer.

*ConsulRules.* Every change of the store moves the index, so a store read at the
present index is the present store. `LoadOk` says of a watcher in the middle of a load
that the index it polled is not after the one its listing saw, that this one is not
after the present one, and that a listing seen at the present index is the present
store. With it `CaughtUp` is inductive, because the watcher takes the older of the two
indices, the one of the poll, as done: the mutant that takes the newer one breaks it.
`SeedingOk` ties a seeding that nobody disturbed to the store: the list it is about to write is
the merge of what it found, after the write it is what the unified key holds, and of the
old keys only those still to be cleaned up have a value. The keys no seeding touches enter through `AsideClashes`:
if they load by themselves and repeat no id found or shipped, they repeat none of the merged list either (`Within`). The merge itself is followed rule
by rule: after each rule of the release every rule of an operator is where it was, every
id found or shipped so far is there, and no id is there twice unless it was found twice.

*YamlToGrl.* The question is whether a condition that is printed, parsed again and compiled
still says the same. What the parser and the compiler make of a part depends on what
surrounds it, so each part carries a promise that holds in every surrounding. `Reads(t, ok, V)`:
whatever tokens follow the text t, the parser takes exactly t for one operand whose tree means
the requests V, or, if `ok` is false, finds no operand there. `Means(tree, V, h)`: whatever alpha nodes
there are already, the compiler keeps them, may add to them, and returns a guard that is
true of exactly the requests V, also over the alphas that later rules add (which is why
sharing nodes between rules is harmless). `Tells` is `Reads` of the text of a condition, with its
meaning for V, and for `ok` that none of its lists is empty and its literals lex. It goes from one
level of conditions to the next: the members of a list are read by the chain of operands round by
round (`Yields`), and the parentheses around the list keep it together; a list with an empty list
in it leaves the chain before an operator it has no operand for, and the closing parenthesis is missed.
A condition converts exactly if no part is missing and its notations are not mixed, at every level. `WhenReads` adds the
scope: a terminal is true of `Judged`, the condition with the scopes the converter knows, which is `Applies` unless the scope is ignored. `YInv` then
follows the document rule by rule: an increasing map from texts to the rules that convert (`Converted`),
terminals with guards over the present alphas (`IsTerminal`), and after the sort the same up to a
permutation, the highest salience first (`Network`). For `PriorityOrder`, the wrap of an `i32` is the
identity as far as `Precedes` speaks of it, and a routing rule is clamped to at most `Cap`.

Recursion. The prover has no induction over data, so what a loop computes is proved from
`NatFacts!SetInduction`: a set of numbers that holds 0 and with each number the next one
holds all of them. With it the recursive functions of `Merge` and `EnrichAll`, and the functions by
levels of YamlToGrl, are shown to exist and their values to keep an invariant from one round,
or level, to the next.

Assumptions of the proofs are the named `ASSUME`s of the modules (types of the
constants, cap and channel not empty, prefix lengths within the width, keys of Consul that
differ). TLC evaluates them in every run.

Model-checked only:

* liveness (`Terminates`, `Converges`, `WatchersConverge`) and everything
  under fairness, which the proof system does not reach;
* the invariants of RuleEngines (`RuleTypeOK`, `CacheIsTransparent`, `HighestPrecedence`, `EnginesAgree`,
  `GlobsMean`, `CidrMeans`): four evaluators and three globs recurse over conditions and texts
  with `RECURSIVE` operators, and the prover has no arithmetic in a module that reaches one.

## 5. Abstractions to keep in mind

* In HotReload the directory does not change between the load of `AppState::init` and the
  registration of the watcher (AppStartup has changes during the load). `start_watcher` is public
  but the binary does not call it at this commit; the model is of the function, running.
* In YamlToGrl a condition is compared with what the converter writes for its leaves, and with matcher.rs for
  and, or and not. The leaves of matcher.rs differ from that in places (it looks for a payload in the body only, and its
  IP list conditions are always false), and nothing calls it.
* In YamlToGrl string literals are atoms that lex or do not; text inside a literal or a comment that the grammar would take for
  something else that parses is not modelled, and neither are arithmetic and the `then` part. A priority is a natural number: the default of 500
  is one, and those above `i64::MAX`, which the cast makes negative, are left out.
* In WafProxy a file has one rule; the conditions of rules, the matching of paths, header rewriting and the text of answers are left out; a reply and an
  error in the middle of the body are both seen as the end of the request.
* In CrsLoader an operator is the class of its form (parses or why not), and of the
  actions only `id`, `tag` and `chain` count, the ones the tag table is made of.
  `has_chain_action` splits at commas inside quotes too; the reference uses its answer.

* In AppStartup the proxy's client address is the constant "0.0.0.0" that `handle_request` uses,
  and nothing fills the whitelist, as at this commit. What a CRS function answers is left
  open (CrsLoader has it).
* In ConsulRules a rule's text is a body that loads, does not deserialize, or does not
  validate, and one optional field that tells an overlay from a replacement. The two
  loaders carry the same protocol; the lines of both are mapped.
* `src/rule` and `src/optimized_rule` are the sources the two crates were made from
  (REFACTORING_REPORT.md); no build target includes them. They are modelled because they
  are the only place where the Consul protocol and the regex cache of the full engine exist.
* In the YAML engines texts are sequences of tokens, so a regular expression is a
  literal with an optional "(?i)"; they are ASCII, so offsets in bytes are those in characters. Alternatives in braces and escapes of
  `globset` do not occur in the patterns; `EnginesAgree` leaves all globs with syntax of `globset` out of the common core.
* Facts met while modelling that hold in the models although a comment or a reader may expect otherwise. The properties
  named leave room for them.
  * converter.rs:41-43 says "detection always wins". A detection rule of priority 850 or more has a salience of at most
    150, the cap of the routing rules; at exactly 850 it may tie with one, and then the order of the file decides (`PriorityOrder`).
  * converter.rs:276-277 says a wildcard "round-trips through the GRL parser correctly". A quote in its prefix is written
    without an escape, the text does not parse and the file is skipped (`OnlyBadRulesAreLost`); it is routed by all the same (`JudgedAsRouted`).
  * `src/rule/loader.rs:237-238` says "merge with existing Consul rules under waf/rules/rules.yaml". Rules stored as a
    `{ rules: [...] }` object, a form `load_from_consul` accepts (:225), are overwritten; so are an operator's rules after a
    fetch that failed (:253), and those written between fetch and write, which carries no check-and-set (:367) (`SeedKeepsCustom`).
  * The same comment says "Clean up deprecated split keys". `global.yaml` is among the files that are merged (:278) and not
    among the keys that are deleted (:375): a stored `waf/rules/global.yaml` repeats ids of the unified key and every load fails (`SeededIsLoadable`).
  * crates/rule/src/lib.rs:134 says "* matches any sequence", but a last star has to take something: `a*` does not match `a`.
    crates/optimized_rule/src/condition.rs:115 says "Simple glob matching", but the end of the text is not looked at:
    `/admin` matches `/administrator` (`GlobsMean`).
  * A challenge or rate limit emitted before `allow()` still turns the request away; the upstream call has no timeout; a rule
    `parse_conf` drops but ModSecurity runs fires without its tags; an address whitelisted and
    then blacklisted between the two reads of a lookup is reported as blacklisted.

## 6. Not modelled

* The native CRS operators, targets and transforms: nothing calls them since `evaluate`
  delegates to ModSecurity.
* The string predicates and detection expressions behind `functions::dispatch`: pure
  functions of text without state, and conditions on them are atoms elsewhere.
* Risk scoring and tiers: no caller. Detection, behaviour, rate limit, cache,
  challenge, DDoS, fingerprint, response and the dashboard API: stubs.
* `load_from_dir` of `src/rule`: no caller. The measuring and printing parts of the
  comparison tools, test backends, front end, bundled rule files.

## 7. Plan

Done, most important behaviour first: the engine and its abstract specification; reload,
and the proxy composed with it; the lists; the way of a rule file into the network; the
CRS loader; the start of the program with its plugins; the YAML engines compared with
each other; the Consul protocol.

Every invariant and action property is proved except those of RuleEngines. Left: the evaluators
of the YAML engines by levels, as YamlToGrl is now, so that theirs can be proved too;
string literals of the converter with their round trip through the parser, character by character.
