------------------------------ MODULE WafProxy ------------------------------
(***************************************************************************)
(* waf-proxy handler.rs and waf-engine pipeline.rs: requests in flight,    *)
(* while HotReload replaces the engine and the routing list under them.    *)
(*                                                                         *)
(* A request reads the two locks of RuleStore at two different moments:    *)
(* the engine before it is judged, the routing list after it was allowed.  *)
(* How one engine fires is ReteEngine's subject; here a file holds one     *)
(* rule of a name of its own that matches every request, and the firing    *)
(* loop is the set of files it gets to before it ends.                     *)
(***************************************************************************)
EXTENDS HotReload, FiniteSets, Integers

CONSTANTS
    Requests,  \* requests handled by concurrent tasks
    Verdict,   \* file -> what its rule asks for
    Salience,  \* file -> salience of its rule
    MaxCycles, \* cycles of Engine::fire, 16 in the code
    Needs,     \* file -> plugins whose functions its conditions call
    Backend,   \* .yaml file -> upstream_backend of its routing rule
    Priority,  \* .yaml file -> priority of that rule
    OnPath,    \* .yaml file -> requests whose path that rule's condition matches
    Backends,  \* [backends] of the configuration: name -> URL
    Default    \* config.server.upstream

Verdicts == {"Log", "Allow", "RateLimit", "Challenge", "Block"}

ASSUME WafProxyAssumption ==
    /\ IsFiniteSet(Files)
    /\ Verdict \in [Files -> Verdicts]
    /\ Salience \in [Files -> Int]
    /\ MaxCycles \in Nat \ {0}
    /\ Needs \in [Files -> SUBSET Plugins]
    /\ DOMAIN Backend = Yaml
    /\ Priority \in [Yaml -> Nat]
    /\ OnPath \in [Yaml -> SUBSET Requests]

\* For each request where its task is, the status it was answered with, the
\* engine it holds, the generation of the routing list it followed and the
\* upstream it was sent to; `solid` is a history field.
VARIABLE req

proxyVars == <<req, reloadVars>>

NoEngine == [gen |-> 0, view |-> {}, plugins |-> {}]

Fresh == [at |-> "idle", code |-> 0, engine |-> NoEngine, solid |-> {},
          routed |-> 0, upstream |-> Default]

ProxyInit == ReloadInit /\ req = [r \in Requests |-> Fresh]

Goto(r, from, to) ==
    /\ req[r].at = from
    /\ req' = [req EXCEPT ![r].at = to]
    /\ UNCHANGED reloadVars

\* The response is written and the task forgets the rest.
Answer(r, from, code) ==
    /\ req[r].at = from
    /\ req' = [req EXCEPT ![r] = [Fresh EXCEPT !.at = "answered", !.code = code]]
    /\ UNCHANGED reloadVars

-----------------------------------------------------------------------------
Arrive(r) == Goto(r, "idle", "body")

\* body.collect().await
BodyRead(r) == Goto(r, "body", "inspect")

BodyFails(r) == Answer(r, "body", 400)

\* hyper drops the task at an await when the client goes away.
ClientGone(r) ==
    /\ req[r].at \in {"body", "upstream"}
    /\ req' = [req EXCEPT ![r] = [Fresh EXCEPT !.at = "gone"]]
    /\ UNCHANGED reloadVars

\* run_inbound: clone the Arc of the engine in force.  `solid` records the
\* files whose rules that engine must have.
TakeEngine(r) ==
    /\ req[r].at = "inspect"
    /\ req' = [req EXCEPT ![r].at = "judge", ![r].engine = engine,
                          ![r].solid = {f \in Files \ stale : Parses(f, "read_engine")}]
    /\ UNCHANGED reloadVars

\* A condition that calls a function no plugin registered is Null, never true.
Matching(eng) == {f \in Files : Needs[f] \subseteq eng.plugins
                                /\ \E e \in eng.view : e[1] = f}

\* block() and allow() end the firing loop.
Ends(f) == Verdict[f] \in {"Block", "Allow"}

\* Engine::fire: the files that can be the ones whose rules have fired when the
\* loop ends, one rule a cycle, the highest salience first.  Equal saliences
\* are in the order in which read_dir gave the files.
Fired(eng) ==
    {S \in SUBSET Matching(eng) :
        /\ \A f \in S, g \in Matching(eng) \ S : Salience[f] >= Salience[g]
        /\ \A f \in S : Ends(f) => \A g \in S \ {f} : Salience[g] >= Salience[f] /\ ~Ends(g)
        /\ Cardinality(S) <= MaxCycles
        /\ S = Matching(eng) \/ Cardinality(S) = MaxCycles \/ \E f \in S : Ends(f)}

\* outcome_to_decision of what the fired rules have asked for
Decide(fired) ==
    LET asked == {Verdict[f] : f \in fired}
    IN  CASE "Block" \in asked     -> "Block"
          [] "Challenge" \in asked -> "Challenge"
          [] "RateLimit" \in asked -> "RateLimit"
          [] OTHER                 -> "Allow"

Judge(r) ==
    \E decision \in {Decide(S) : S \in Fired(req[r].engine)} :
        \/ decision = "Allow" /\ Goto(r, "judge", "resolve")
        \/ decision # "Allow" /\ Answer(r, "judge", IF decision = "RateLimit" THEN 429 ELSE 403)

\* Routing rules of the list that match the path and whose backend is configured.
Routable(r) ==
    {f \in Yaml : /\ r \in OnPath[f]
                  /\ Backend[f] \in DOMAIN Backends
                  /\ \E e \in rules.view : e[1] = f}

First(r) == {f \in Routable(r) : \A g \in Routable(r) : Priority[f] <= Priority[g]}

\* Mutant: the name of the backend is taken for its URL.
resolve_by_name(r) ==
    IF Routable(r) = {} THEN {Default} ELSE {Backend[f] : f \in First(r)}

\* resolve_upstream: the first routable rule by priority.  Equal priorities
\* are in the order in which read_dir gave the files.
resolve_upstream(r) ==
    IF Routable(r) = {} THEN {Default} ELSE {Backends[Backend[f]] : f \in First(r)}

Resolve(r) ==
    /\ req[r].at = "resolve"
    /\ \E u \in resolve_upstream(r) :
          req' = [req EXCEPT ![r].at = "forward", ![r].upstream = u,
                             ![r].routed = rules.gen]
    /\ UNCHANGED reloadVars

\* forward: the URL parses and the request is on its way, or it does not.
Forward(r) == Goto(r, "forward", "upstream")

ForwardFails(r) == Answer(r, "forward", 502)

\* The upstream (external) answers, fails before or in the middle of its
\* answer, or neither: client.request has no timeout.
UpstreamReplies(r) == Answer(r, "upstream", 200)

UpstreamFails(r) == Answer(r, "upstream", 502)

\* The steps between two awaits: the task runs them once it is scheduled.
Handler(r) ==
    \/ TakeEngine(r)
    \/ Judge(r)
    \/ Resolve(r)
    \/ Forward(r)
    \/ ForwardFails(r)

Peers(r) ==
    \/ Arrive(r)
    \/ BodyRead(r)
    \/ BodyFails(r)
    \/ ClientGone(r)
    \/ UpstreamReplies(r)
    \/ UpstreamFails(r)

ProxyNext ==
    \/ \E r \in Requests : Handler(r) \/ Peers(r)
    \/ ReloadNext /\ UNCHANGED req

ProxySpec == ProxyInit /\ [][ProxyNext]_proxyVars

-----------------------------------------------------------------------------
Urls == {Backends[name] : name \in DOMAIN Backends} \union {Default}

ProxyTypeOK ==
    /\ DOMAIN req = Requests
    /\ \A r \in Requests :
          /\ req[r].at \in {"idle", "body", "inspect", "judge", "resolve", "forward",
                            "upstream", "answered", "gone"}
          /\ req[r].code \in {0, 200, 400, 403, 429, 502}
          /\ req[r].solid \subseteq Files
          /\ req[r].routed \in Nat
          /\ req[r].upstream \in Urls

\* Other files of the engine keep its loop from f: one of at least f's salience
\* allows, or as many as there are cycles have at least f's salience.
Outranked(f, eng) ==
    LET above == {g \in Matching(eng) \ {f} : Salience[g] >= Salience[f]}
    IN  \/ \E g \in above : Verdict[g] = "Allow"
        \/ Cardinality(above) >= MaxCycles

\* A request passes a rule file that turns requests away and that was on disk,
\* valid and unedited since the load of the engine that judged it, only if the
\* file calls a function of a plugin that engine lacks or if other files outrank
\* it: reloads never open a window in which such a file is not enforced
\* (pipeline.rs:11, engine.rs:60-89, store.rs:29-31, loader.rs:45-76).
NoWindow ==
    \A r \in Requests :
        req[r].at \in {"resolve", "forward", "upstream"} =>
            \A f \in req[r].solid :
                \/ Verdict[f] \in {"Log", "Allow"}
                \/ ~(Needs[f] \subseteq req[r].engine.plugins)
                \/ Outranked(f, req[r].engine)

\* The routing list a request follows comes from the same reload as the
\* engine that allowed it or from a later one, unless a load failed: the
\* watcher swaps the list first (watcher.rs:46-59) and the request reads it
\* last (handler.rs:65-67).
RoutedNotBeforeJudged ==
    \A r \in Requests :
        req[r].at \in {"forward", "upstream"} =>
            req[r].routed >= req[r].engine.gen \/ faults > 0
=============================================================================
