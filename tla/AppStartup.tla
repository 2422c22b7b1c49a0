----------------------------- MODULE AppStartup -----------------------------
(***************************************************************************)
(* The start of the program, waf/src/cli.rs run_async and waf-engine       *)
(* state/store.rs AppState::init: the routing list and the engine are      *)
(* loaded one after the other from a directory that others may change,     *)
(* each falls back to nothing on its own, and the plugins register their   *)
(* functions.  Then requests are evaluated: by run_inbound of the proxy,   *)
(* or by a caller that calls Engine::enrich first, as plugin.rs asks for   *)
(* and engine_bench.rs does.                                               *)
(***************************************************************************)
EXTENDS GeoPlugin, FiniteSets, Naturals, SequencesExt

CONSTANTS
    Files,          \* rule files of the directory (.yaml, .yml, .grl)
    Yaml,           \* those with the extension .yaml, the only one load_from_dir reads
    Configs,        \* configurations: [blacklist_file, crs_dir, geo]
    BlacklistFile,  \* addresses in the blacklist file
    Headers,        \* header maps of requests
    ClientIps,      \* client addresses of requests that do not come from the proxy
    Asked,          \* calls rules make: <<function, arguments>>
    MaxEdits,       \* bound: changes of the directory
    MaxFaults       \* bound: failing steps of the environment

ASSUME StartupAssumption ==
    /\ Yaml \subseteq Files
    /\ MaxEdits \in Nat
    /\ MaxFaults \in Nat
    /\ \A c \in Configs :
           /\ c.blacklist_file \in BOOLEAN /\ c.crs_dir \in BOOLEAN
           /\ c.geo.db_path \in BOOLEAN /\ c.geo.country_headers \in Seq(STRING)

(***************************************************************************)
(* As in HotReload: a torn file is accepted by no reader, a loose one by   *)
(* load_grl_from_dir only, a routed one by load_from_dir only (its GRL     *)
(* text does not parse), a strict one by both.                             *)
(***************************************************************************)
Forms == {"absent", "torn", "loose", "routed", "strict"}

VARIABLES
    exists,     \* the rules directory exists
    disk,       \* file -> [ver, form]
    edits,      \* changes of the directory so far; the version of the next content
    faults,     \* steps of the environment that failed so far
    pc,         \* the main task
    config,     \* the configuration
    todo,       \* entries of the listing not read yet
    acc,        \* <<file, version>> of the contents read so far
    rules,      \* RuleStore.rules
    engine,     \* the engine being put together, then RuleStore.engine
    blacklist,  \* addresses of the IpListStore blacklist
    geo,        \* the GeoPlugin
    req,        \* the request being evaluated
    \* History variables
    failed,     \* the loads that failed
    touched     \* files changed since the listing of the routing list

dirVars == <<exists, disk, edits, touched>>
loadVars == <<todo, acc, rules, failed>>
vars == <<exists, disk, edits, faults, pc, config, todo, acc, rules, engine,
          blacklist, geo, req, failed, touched>>

NoRequest == [at |-> "none"]

\* Engine::new: register_context_defaults, and no plugin.
NewEngine(net) ==
    [net |-> net,
     registry |-> [f \in {"header_count", "has_header", "is_path_under"} |-> "context"],
     plugins |-> <<>>]

\* Plugin::register of the three plugins.
Functions(plugin) ==
    CASE plugin = "blacklist" -> {"ip_in_blacklist", "ip_in_whitelist"}
      [] plugin = "crs" -> {"crs_score", "crs_match"}
      [] plugin = "geo" -> {"GetCountry", "geo_blocked"}

install(eng, plugin) ==
    [eng EXCEPT !.registry = [f \in Functions(plugin) \union DOMAIN @ |->
                                 IF f \in Functions(plugin) THEN plugin ELSE @[f]],
                !.plugins = Append(@, plugin)]

Init ==
    /\ exists \in BOOLEAN
    /\ disk \in [Files -> [ver : {0}, form : Forms]]
    /\ exists \/ \A f \in Files : disk[f].form = "absent"
    /\ edits = 0
    /\ faults = 0
    /\ pc = "config"
    /\ config \in Configs
    /\ todo = {}
    /\ acc = {}
    /\ rules = {}
    /\ engine = NewEngine({})
    /\ blacklist = {}
    /\ geo = new([db_path |-> FALSE, country_headers |-> <<>>, blocked_countries |-> {}], FALSE)
    /\ req = NoRequest
    /\ failed = {}
    /\ touched = {}

-----------------------------------------------------------------------------
(***************************************************************************)
(* The directory (external).  Once the program serves, its changes are the *)
(* subject of HotReload.                                                   *)
(***************************************************************************)
Starting == pc \notin {"serving", "exited"}

Edit(f, form) ==
    /\ Starting
    /\ exists
    /\ edits < MaxEdits
    /\ form # disk[f].form \/ form # "absent"
    /\ edits' = edits + 1
    /\ disk' = [disk EXCEPT ![f] = [ver |-> edits + 1, form |-> form]]
    /\ touched' = touched \union {f}
    /\ UNCHANGED <<exists, faults, pc, config, loadVars, engine, blacklist, geo, req>>

\* The directory is created empty, or removed with all its files.
EditDir ==
    /\ Starting
    /\ edits < MaxEdits
    /\ exists' = ~exists
    /\ edits' = edits + 1
    /\ disk' = [f \in Files |-> [ver |-> edits + 1, form |-> "absent"]]
    /\ touched' = Files
    /\ UNCHANGED <<faults, pc, config, loadVars, engine, blacklist, geo, req>>

Fault ==
    /\ faults < MaxFaults
    /\ faults' = faults + 1

-----------------------------------------------------------------------------
(***************************************************************************)
(* run_async and AppState::init.                                           *)
(***************************************************************************)
Goto(from, to) ==
    /\ pc = from
    /\ pc' = to

\* Config::load_from_file, then AuditLogger::new: an error of either is fatal.
LoadConfig ==
    /\ Goto("config", "audit")
    /\ UNCHANGED <<dirVars, faults, config, loadVars, engine, blacklist, geo, req>>

OpenAudit ==
    /\ Goto("audit", "rules")
    /\ UNCHANGED <<dirVars, faults, config, loadVars, engine, blacklist, geo, req>>

Fatal ==
    /\ pc \in {"config", "audit", "bind", "serving"}
    /\ pc' = "exited"
    /\ req' = NoRequest
    /\ Fault
    /\ UNCHANGED <<dirVars, config, loadVars, engine, blacklist, geo>>

\* load_from_dir and load_grl_from_dir start: no directory, no rules.
Missing ==
    /\ pc \in {"rules", "engine"}
    /\ ~exists
    /\ pc' = IF pc = "rules" THEN "engine" ELSE "blacklist"
    /\ touched' = IF pc = "rules" THEN {} ELSE touched
    /\ UNCHANGED <<exists, disk, edits, faults, config, loadVars, engine, blacklist, geo, req>>

List ==
    /\ pc \in {"rules", "engine"}
    /\ exists
    /\ pc' = IF pc = "rules" THEN "read_rules" ELSE "read_engine"
    /\ todo' = {f \in Files : disk[f].form # "absent"}
    /\ acc' = {}
    /\ touched' = IF pc = "rules" THEN {} ELSE touched
    /\ UNCHANGED <<exists, disk, edits, faults, config, rules, failed, engine,
                   blacklist, geo, req>>

\* What each loader accepts; any other file is skipped with a warning.
Parses(f, load) ==
    \/ load = "read_rules" /\ f \in Yaml /\ disk[f].form \in {"routed", "strict"}
    \/ load = "read_engine" /\ disk[f].form \in {"loose", "strict"}

\* Mutant: load_from_dir takes every extension load_grl_from_dir takes.
ReadEveryFile(f) ==
    /\ pc \in {"read_rules", "read_engine"}
    /\ f \in todo
    /\ todo' = todo \ {f}
    /\ acc' = IF Parses(f, "read_engine") THEN acc \union {<<f, disk[f].ver>>} ELSE acc
    /\ UNCHANGED <<dirVars, faults, pc, config, rules, failed, engine, blacklist, geo, req>>

\* Mutant: a file that does not parse ends the load.
ReadAborting(f) ==
    /\ pc \in {"read_rules", "read_engine"}
    /\ f \in todo
    /\ todo' = IF Parses(f, pc) THEN todo \ {f} ELSE {}
    /\ acc' = IF Parses(f, pc) THEN acc \union {<<f, disk[f].ver>>} ELSE acc
    /\ UNCHANGED <<dirVars, faults, pc, config, rules, failed, engine, blacklist, geo, req>>

ReadFile(f) ==
    /\ pc \in {"read_rules", "read_engine"}
    /\ f \in todo
    /\ todo' = todo \ {f}
    /\ acc' = IF Parses(f, pc) THEN acc \union {<<f, disk[f].ver>>} ELSE acc
    /\ UNCHANGED <<dirVars, faults, pc, config, rules, failed, engine, blacklist, geo, req>>

\* RuleStore::new(initial_rules).
NewStore ==
    /\ Goto("read_rules", "engine")
    /\ todo = {}
    /\ rules' = acc
    /\ acc' = {}
    /\ UNCHANGED <<dirVars, faults, config, todo, failed, engine, blacklist, geo, req>>

\* Network::compile and Engine::new.
Compile ==
    /\ Goto("read_engine", "blacklist")
    /\ todo = {}
    /\ engine' = NewEngine(acc)
    /\ acc' = {}
    /\ UNCHANGED <<dirVars, faults, config, todo, rules, failed, blacklist, geo, req>>

\* read_dir or one of its entries fails: what was read is given up.
LoadFails ==
    /\ pc \in {"rules", "engine"} => exists
    /\ \/ /\ pc \in {"rules", "read_rules"}
          /\ pc' = "engine"
          /\ failed' = failed \union {"rules"}
       \/ /\ pc \in {"engine", "read_engine"}
          /\ pc' = "blacklist"
          /\ failed' = failed \union {"engine"}
    /\ Fault
    /\ todo' = {}
    /\ acc' = {}
    /\ UNCHANGED <<dirVars, config, rules, engine, blacklist, geo, req>>

\* The blacklist file, if configured and readable; then BlacklistPlugin.
InstallBlacklist ==
    /\ Goto("blacklist", "crs")
    /\ \/ /\ blacklist' = IF config.blacklist_file THEN BlacklistFile ELSE blacklist
          /\ UNCHANGED faults
       \/ config.blacklist_file /\ Fault /\ UNCHANGED blacklist
    /\ engine' = install(engine, "blacklist")
    /\ UNCHANGED <<dirVars, config, loadVars, geo, req>>

\* CrsPlugin, if configured and its ruleset loads (CrsLoader).
InstallCrs ==
    /\ Goto("crs", "geo")
    /\ \/ /\ engine' = IF config.crs_dir THEN install(engine, "crs") ELSE engine
          /\ UNCHANGED faults
       \/ config.crs_dir /\ Fault /\ UNCHANGED engine
    /\ UNCHANGED <<dirVars, config, loadVars, blacklist, geo, req>>

InstallGeo ==
    /\ Goto("geo", "bind")
    /\ engine' = install(engine, "geo")
    /\ \/ geo' = new(config.geo, TRUE) /\ UNCHANGED faults
       \/ config.geo.db_path /\ Fault /\ geo' = new(config.geo, FALSE)
    /\ UNCHANGED <<dirVars, config, loadVars, blacklist, req>>

\* reload_engine, and the two servers bind.
Serve ==
    /\ Goto("bind", "serving")
    /\ UNCHANGED <<dirVars, faults, config, loadVars, engine, blacklist, geo, req>>

-----------------------------------------------------------------------------
(***************************************************************************)
(* Requests.                                                               *)
(***************************************************************************)
\* handle_request knows no client address and starts with no extensions.
Arrive(headers, by, ip) ==
    /\ pc = "serving"
    /\ req = NoRequest
    /\ by = "proxy" => ip = "0.0.0.0"
    /\ req' = [at |-> IF by = "proxy" THEN "fire" ELSE "enrich", by |-> by,
               ctx |-> [headers |-> headers, client_ip |-> ip, extensions |-> <<>>]]
    /\ UNCHANGED <<dirVars, faults, pc, config, loadVars, engine, blacklist, geo>>

\* Plugin::enrich of one plugin; CrsPlugin keeps the empty default.
EnrichWith(ctx, plugin) ==
    CASE plugin = "blacklist" ->
             LET hit == ctx.client_ip \in blacklist
             IN  [ctx EXCEPT !.extensions =
                     insert(insert(@, "blacklisted", hit), "whitelisted", FALSE)]
      [] plugin = "geo" -> enrich(geo, ctx)
      [] OTHER -> ctx

\* Engine::enrich: every plugin, in the order of installation.
EnrichAll(ctx) ==
    LET plugins == engine.plugins
        after[i \in 0..Len(plugins)] ==
            IF i = 0 THEN ctx ELSE EnrichWith(after[i - 1], plugins[i])
    IN  after[Len(plugins)]

Enrich ==
    /\ req.at = "enrich"
    /\ req' = [req EXCEPT !.at = "fire", !.ctx = EnrichAll(@)]
    /\ UNCHANGED <<dirVars, faults, pc, config, loadVars, engine, blacklist, geo>>

\* FunctionRegistry::call: the registered function, else functions::dispatch,
\* which knows none of these names.  Nothing fills the whitelist at startup;
\* what the CRS functions and is_path_under answer is left open.
call(name, ctx, args) ==
    CASE name \notin DOMAIN engine.registry -> <<"Null">>
      [] name = "GetCountry" -> GetCountry(geo, ctx, args)
      [] name = "geo_blocked" -> geo_blocked(geo, ctx)
      [] name = "ip_in_blacklist" ->
             <<"Bool", (IF args = <<>> THEN ctx.client_ip ELSE Head(args)) \in blacklist>>
      [] name = "ip_in_whitelist" -> <<"Bool", FALSE>>
      [] name = "header_count" -> <<"Int", Cardinality(DOMAIN ctx.headers)>>
      [] name = "has_header" ->
             <<"Bool", to_lowercase(IF args = <<>> THEN "" ELSE Head(args)) \in DOMAIN ctx.headers>>
      [] OTHER -> <<"External", name>>

\* Engine::fire evaluates a rule that makes the call.
Fire(name, args) ==
    /\ req.at = "fire"
    /\ engine.net # {}
    /\ req' = [at |-> "done", by |-> req.by, ctx |-> req.ctx, name |-> name,
               value |-> call(name, req.ctx, args)]
    /\ UNCHANGED <<dirVars, faults, pc, config, loadVars, engine, blacklist, geo>>

\* Engine::fire returns; with no rules it has made no call.
Reply ==
    /\ req.at = IF engine.net = {} THEN "fire" ELSE "done"
    /\ req' = NoRequest
    /\ UNCHANGED <<dirVars, faults, pc, config, loadVars, engine, blacklist, geo>>

Next ==
    \/ \E f \in Files, form \in Forms : Edit(f, form)
    \/ EditDir
    \/ LoadConfig \/ OpenAudit \/ Fatal
    \/ Missing \/ List \/ NewStore \/ Compile \/ LoadFails
    \/ \E f \in Files : ReadFile(f)
    \/ InstallBlacklist \/ InstallCrs \/ InstallGeo \/ Serve
    \/ \E h \in Headers : Arrive(h, "proxy", "0.0.0.0")
    \/ \E h \in Headers, ip \in ClientIps : Arrive(h, "bench", ip)
    \/ Enrich
    \/ \E q \in Asked : Fire(q[1], q[2])
    \/ Reply

Spec == Init /\ [][Next]_vars

-----------------------------------------------------------------------------
Versions == 0..MaxEdits

\* The two lists hold contents of the files their loaders take, and the
\* plugins are installed in one order, whatever failed (state/store.rs).
StartupTypeOK ==
    /\ exists \in BOOLEAN
    /\ disk \in [Files -> [ver : Versions, form : Forms]]
    /\ edits \in Versions
    /\ faults \in 0..MaxFaults
    /\ config \in Configs
    /\ todo \subseteq Files
    /\ acc \subseteq Files \X Versions
    /\ rules \subseteq Yaml \X Versions
    /\ engine.net \subseteq Files \X Versions
    /\ \E crs \in {<<>>, <<"crs">>} : IsPrefix(engine.plugins, <<"blacklist">> \o crs \o <<"geo">>)
    /\ failed \subseteq {"rules", "engine"}
    /\ touched \subseteq Files

\* When the program serves, each of its two lists has every file its own loader
\* accepts, and what is routed is judged in the same version unless its GRL text
\* does not parse (then it is routed and never judged), except for files that
\* changed after the first listing and for a load that failed as a whole: a bad
\* neighbour costs no other file its rules (state/store.rs:37-52, loader.rs).
JudgedAsRouted ==
    pc = "serving" =>
        \A f \in Files \ touched :
            /\ "rules" \notin failed /\ f \in Yaml /\ disk[f].form \in {"routed", "strict"} =>
                   <<f, disk[f].ver>> \in rules
            /\ "engine" \notin failed /\ disk[f].form \in {"loose", "strict"} =>
                   <<f, disk[f].ver>> \in engine.net
            /\ "engine" \notin failed =>
                   \A v \in Versions : <<f, v>> \in rules =>
                       <<f, v>> \in engine.net \/ disk[f].form = "routed"

\* The request says it comes from a blocked country: a country header, default
\* ones first, with no usable one before it, or the database if there is none.
FromBlocked(ctx) ==
    LET extra == config.geo.country_headers
        order == DEFAULT_COUNTRY_HEADERS \o [i \in DOMAIN extra |-> to_lowercase(extra[i])]
        says(i) == IF order[i] \in DOMAIN ctx.headers
                       THEN to_uppercase(trim(ctx.headers[order[i]])) ELSE ""
        silent(i) == says(i) \in {"", "-", "XX"}
    IN  \E b \in {to_uppercase(c) : c \in config.geo.blocked_countries} \ {""} :
            \/ \E i \in DOMAIN order :
                   says(i) = b /\ ~silent(i) /\ \A j \in 1..(i - 1) : silent(j)
            \/ /\ \A i \in DOMAIN order : silent(i)
               /\ geo.reader
               /\ trim(ctx.client_ip) \in Ips \intersect DOMAIN Db
               /\ to_uppercase(Db[trim(ctx.client_ip)]) = b

\* For a caller that enriches the context before it fires the engine,
\* geo_blocked() is true exactly for requests from a blocked country,
\* whatever the case of codes and header names in the configuration and
\* whichever plugins could not be installed (geo/plugin.rs:127-192).
GeoVerdict ==
    req.at = "done" /\ req.by = "bench" /\ req.name = "geo_blocked" =>
        req.value = <<"Bool", FromBlocked(req.ctx)>>

\* Claim of plugin.rs:36-37, docs/rule_engine.md:64 and geo/plugin.rs:17: a
\* request of the proxy from a blocked country is geo_blocked().
GeoBlocksBlocked ==
    req.at = "done" /\ req.by = "proxy" /\ req.name = "geo_blocked" =>
        req.value = <<"Bool", FromBlocked(req.ctx)>>
=============================================================================
