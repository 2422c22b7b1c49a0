------------------------------ MODULE CrsLoader ------------------------------
(***************************************************************************)
(* waf-engine rules/crs/{loader,parser,evaluator,plugin}.rs: a directory   *)
(* of SecRule files on its way into a CrsRuleset, and the evaluation of a  *)
(* request with it.                                                        *)
(*                                                                         *)
(* The text of all files goes to zentinel-modsec (external), which runs    *)
(* the rules.  The program's own parser only collects the tags of the      *)
(* rules it understands: it drops rules it cannot parse and must then drop *)
(* the rest of their chains.                                               *)
(***************************************************************************)
EXTENDS Naturals, Sequences

CONSTANTS
    Tags,   \* tag: values
    Dirs    \* conf directories: the files listed, in the order of their names

(***************************************************************************)
(* A logical line, its continuations joined: a SecRule, a SecMarker or     *)
(* something else (comments, SecAction).  tokens: the three arguments of a *)
(* SecRule, or the name of a marker, are there; op: the form of the        *)
(* operator; actions: the comma-separated actions that matter here.  An    *)
(* action "quoted" stands for a quoted text with the word chain in it.     *)
(***************************************************************************)
Good == {"phrase", "rx", "number", "tx_ref"}

Action == [key : {"id"}, val : Nat] \union [key : {"tag"}, val : Tags]
          \union [key : {"chain", "quoted"}, val : {0}]

Line == [kind : {"rule", "marker", "other"}, tokens : BOOLEAN,
         op : Good \union {"bare", "bad_rx", "bad_number", "unsupported"},
         actions : Seq(Action)]

ConfFile == [readable : BOOLEAN, lines : Seq(Line)]

\* An operator without @, of an unknown name, with a regex that does not
\* compile or a number that does not parse gives None.
parse_operator(op) == op \in Good

parse_secrule(l) == l.tokens /\ parse_operator(l.op)

\* parse_actions: the last id: counts and a rule without one has id 0; an id
\* that does not parse is given as 0.
rule_id(l) ==
    LET ids == {k \in DOMAIN l.actions : l.actions[k].key = "id"}
    IN  IF ids = {} THEN 0
        ELSE l.actions[CHOOSE k \in ids : \A j \in ids : j <= k].val

tags(l) == {l.actions[k].val : k \in {j \in DOMAIN l.actions : l.actions[j].key = "tag"}}

\* The raw actions are split at every comma, quoted or not.
has_chain_action(l) == \E k \in DOMAIN l.actions : l.actions[k].key \in {"chain", "quoted"}

ASSUME CrsAssumption == Dirs \subseteq Seq(ConfFile)

VARIABLES
    dir,         \* the directory
    pc,          \* "read", "parse", "collect", "ready" or "failed"
    file,        \* index of the file being loaded
    line,        \* next line, or next item while tags are collected
    skip,        \* skip_chain_members
    items,       \* lines of the file that became RuleItems
    source,      \* files whose text will be given to ModSecurity
    rule_count,
    rule_tags,   \* id -> tags
    call         \* one evaluation: [at, fired, ids, tags]

vars == <<dir, pc, file, line, skip, items, source, rule_count, rule_tags, call>>

loadVars == <<dir, pc, file, line, skip, items, source, rule_count, rule_tags>>

Lines == dir[file].lines

NoCall == [at |-> "idle", fired |-> {}, ids |-> {}, tags |-> {}]

Init ==
    /\ dir \in Dirs
    /\ pc = "read"
    /\ file = 1
    /\ line = 1
    /\ skip = 0
    /\ items = <<>>
    /\ source = {}
    /\ rule_count = 0
    /\ rule_tags = [id \in {} |-> {}]
    /\ call = NoCall

-----------------------------------------------------------------------------
(***************************************************************************)
(* load_from_dir and parse_conf                                            *)
(***************************************************************************)
\* read_dir fails.
ListFails ==
    /\ pc = "read"
    /\ file = 1
    /\ pc' = "failed"
    /\ UNCHANGED <<dir, file, line, skip, items, source, rule_count, rule_tags, call>>

ReadConf ==
    /\ pc = "read"
    /\ file <= Len(dir)
    /\ dir[file].readable
    /\ pc' = "parse"
    /\ line' = 1
    /\ skip' = 0
    /\ items' = <<>>
    /\ UNCHANGED <<dir, file, source, rule_count, rule_tags, call>>

\* Mutant: an unreadable file is passed over.
ReadFailsQuietly ==
    /\ pc = "read"
    /\ file <= Len(dir)
    /\ ~dir[file].readable
    /\ file' = file + 1
    /\ UNCHANGED <<dir, pc, line, skip, items, source, rule_count, rule_tags, call>>

\* One file that cannot be read fails the load of all.
ReadFails ==
    /\ pc = "read"
    /\ file <= Len(dir)
    /\ ~dir[file].readable
    /\ pc' = "failed"
    /\ UNCHANGED <<dir, file, line, skip, items, source, rule_count, rule_tags, call>>

\* Mutant: the members of a skipped chain are skipped one deep only.
SkipMemberOnce ==
    /\ skip > 0
    /\ skip' = 0
    /\ UNCHANGED items

\* Mutant: the skipped member itself is not counted down.
SkipMemberUncounted ==
    /\ skip > 0
    /\ skip' = skip + (IF has_chain_action(Lines[line]) THEN 1 ELSE 0)
    /\ UNCHANGED items

\* A member of a chain that is being skipped.
SkipMember ==
    /\ skip > 0
    /\ skip' = skip - 1 + (IF has_chain_action(Lines[line]) THEN 1 ELSE 0)
    /\ UNCHANGED items

KeepRule ==
    /\ skip = 0
    /\ parse_secrule(Lines[line])
    /\ items' = Append(items, line)
    /\ UNCHANGED skip

DropRule ==
    /\ skip = 0
    /\ ~parse_secrule(Lines[line])
    /\ skip' = IF has_chain_action(Lines[line]) THEN 1 ELSE 0
    /\ UNCHANGED items

SecRule == Lines[line].kind = "rule" /\ (SkipMember \/ KeepRule \/ DropRule)

\* A chain cannot span a marker.
SecMarker ==
    /\ Lines[line].kind = "marker"
    /\ skip' = 0
    /\ items' = IF Lines[line].tokens THEN Append(items, line) ELSE items

OtherLine == Lines[line].kind = "other" /\ UNCHANGED <<skip, items>>

ParseLine ==
    /\ pc = "parse"
    /\ line <= Len(Lines)
    /\ SecRule \/ SecMarker \/ OtherLine
    /\ line' = line + 1
    /\ UNCHANGED <<dir, pc, file, source, rule_count, rule_tags, call>>

EndOfFile ==
    /\ pc = "parse"
    /\ line > Len(Lines)
    /\ pc' = "collect"
    /\ line' = 1
    /\ UNCHANGED <<dir, file, skip, items, source, rule_count, rule_tags, call>>

\* Mutant: the first rule with an id keeps it.
insert_if_absent(map, r) ==
    IF r.kind = "rule" /\ tags(r) # {} /\ rule_id(r) \notin DOMAIN map
    THEN [id \in DOMAIN map \union {rule_id(r)} |-> IF id = rule_id(r) THEN tags(r) ELSE map[id]]
    ELSE map

\* rule_tags.insert replaces; a rule without tags inserts nothing.
insert(map, r) ==
    IF r.kind = "rule" /\ tags(r) # {}
    THEN [id \in DOMAIN map \union {rule_id(r)} |-> IF id = rule_id(r) THEN tags(r) ELSE map[id]]
    ELSE map

CollectTags ==
    /\ pc = "collect"
    /\ line <= Len(items)
    /\ rule_tags' = insert(rule_tags, Lines[items[line]])
    /\ line' = line + 1
    /\ UNCHANGED <<dir, pc, file, skip, items, source, rule_count, call>>

NextFile ==
    /\ pc = "collect"
    /\ line > Len(items)
    /\ rule_count' = rule_count + Len(items)
    /\ source' = source \union {file}
    /\ file' = file + 1
    /\ pc' = "read"
    /\ UNCHANGED <<dir, line, skip, items, rule_tags, call>>

\* ModSecurity::from_string accepts the text, or the load fails (external).
Compile ==
    /\ pc = "read"
    /\ file > Len(dir)
    /\ pc' = "ready"
    /\ UNCHANGED <<dir, file, line, skip, items, source, rule_count, rule_tags, call>>

CompileFails ==
    /\ pc = "read"
    /\ file > Len(dir)
    /\ pc' = "failed"
    /\ UNCHANGED <<dir, file, line, skip, items, source, rule_count, rule_tags, call>>

-----------------------------------------------------------------------------
(***************************************************************************)
(* CrsRuleset::evaluate, called by crs_score() and crs_match(tag).         *)
(***************************************************************************)
\* The rules of the text with an id: what a transaction can report (external).
Reportable ==
    UNION {{rule_id(dir[f].lines[i]) : i \in DOMAIN dir[f].lines} : f \in source} \ {0}

Goto(from, to) ==
    /\ pc = "ready"
    /\ call.at = from
    /\ call' = [call EXCEPT !.at = to]
    /\ UNCHANGED loadVars

Evaluate == Goto("idle", "uri")

\* process_uri or process_request_headers fails: the result is empty.
UriFails == Goto("uri", "empty")

Uri == Goto("uri", "headers")

HeadersFail == Goto("headers", "empty")

\* The rules of a phase run over the headers (a header that cannot be added
\* is left out) or the body.
Phase(from, to) ==
    /\ pc = "ready"
    /\ call.at = from
    /\ \E ids \in SUBSET Reportable :
          call' = [call EXCEPT !.at = to, !.fired = @ \union ids]
    /\ UNCHANGED loadVars

Headers == Phase("headers", "body")

Body == Phase("body", "report")

\* No body, or append_request_body fails: what the headers gave is reported.
NoBody == Goto("body", "report")

\* Mutant: tags are looked up for every rule of the set.
ReportAll ==
    /\ pc = "ready"
    /\ call.at = "report"
    /\ call' = [call EXCEPT !.at = "done", !.ids = call.fired,
                            !.tags = UNION {rule_tags[id] : id \in DOMAIN rule_tags}]
    /\ UNCHANGED loadVars

Report ==
    /\ pc = "ready"
    /\ call.at = "report"
    /\ call' = [call EXCEPT !.at = "done", !.ids = call.fired,
                   !.tags = UNION {rule_tags[id] : id \in call.fired \intersect DOMAIN rule_tags}]
    /\ UNCHANGED loadVars

Return ==
    /\ pc = "ready"
    /\ call.at \in {"done", "empty"}
    /\ call' = NoCall
    /\ UNCHANGED loadVars

Next ==
    \/ ListFails
    \/ ReadConf
    \/ ReadFails
    \/ ParseLine
    \/ EndOfFile
    \/ CollectTags
    \/ NextFile
    \/ Compile
    \/ CompileFails
    \/ Evaluate
    \/ UriFails
    \/ Uri
    \/ HeadersFail
    \/ Headers
    \/ Body
    \/ NoBody
    \/ Report
    \/ Return

Spec == Init /\ [][Next]_vars

-----------------------------------------------------------------------------
CrsTypeOK ==
    /\ dir \in Seq(ConfFile)
    /\ pc \in {"read", "parse", "collect", "ready", "failed"}
    /\ file \in 1 .. Len(dir) + 1
    /\ line \in Nat \ {0}
    /\ skip \in {0, 1}
    /\ items \in Seq(Nat \ {0})
    /\ source \subseteq 1 .. Len(dir)
    /\ rule_count \in Nat
    /\ DOMAIN rule_tags \subseteq Nat
    /\ \A id \in DOMAIN rule_tags : rule_tags[id] \in (SUBSET Tags) \ {{}}
    /\ call \in [at : {"idle", "uri", "headers", "body", "report", "done", "empty"},
                 fired : SUBSET Nat, ids : SUBSET Nat, tags : SUBSET Tags]

(***************************************************************************)
(* The reference: lines j and i belong to one chain, j before i, if every  *)
(* rule from j up to i chains to the next and no marker is in between.  A  *)
(* rule stays if it and everything it is chained to parses.                *)
(***************************************************************************)
Chained(ls, j, i) ==
    /\ j < i
    /\ ls[j].kind = "rule"
    /\ \A k \in j .. i - 1 : ls[k].kind # "marker"
                             /\ (ls[k].kind = "rule" => has_chain_action(ls[k]))

Kept(ls, i) ==
    \/ ls[i].kind = "marker" /\ ls[i].tokens
    \/ /\ ls[i].kind = "rule"
       /\ parse_secrule(ls[i])
       /\ \A j \in 1 .. i - 1 : Chained(ls, j, i) => parse_secrule(ls[j])

\* Counting members down line by line is the same as knowing the chains: no
\* member outlives the head or the member it was chained to, however many are
\* skipped in a row, and no rule outside a broken chain is lost (parser.rs:22-58).
ChainsAreWhole ==
    pc \in {"parse", "collect"} =>
        /\ \A k \in 1 .. Len(items) : Kept(Lines, items[k])
        /\ \A i \in 1 .. Len(Lines) :
              (pc = "collect" \/ i < line) /\ Kept(Lines, i) =>
                  \E k \in 1 .. Len(items) : items[k] = i

\* The rules of the directory as <<file, line>>.
Rules ==
    UNION {{<<f, i>> : i \in {k \in DOMAIN dir[f].lines : dir[f].lines[k].kind = "rule"}}
              : f \in DOMAIN dir}

At(p) == dir[p[1]].lines[p[2]]

Tagged == {p \in Rules : tags(At(p)) # {} /\ Kept(dir[p[1]].lines, p[2])}

Later(q, p) == q[1] > p[1] \/ (q[1] = p[1] /\ q[2] > p[2])

\* Once loaded, the tags of an id are those of the last rule, over all files,
\* that has the id and tags and was kept, and no other id has tags
\* (loader.rs:31-48, 82-105).
LastDefinitionWins ==
    pc = "ready" =>
        /\ DOMAIN rule_tags = {rule_id(At(p)) : p \in Tagged}
        /\ \A p \in Tagged :
              \/ rule_tags[rule_id(At(p))] = tags(At(p))
              \/ \E q \in Tagged : Later(q, p) /\ rule_id(At(q)) = rule_id(At(p))

\* A ruleset that is ready has every file the listing gave: a load never ends
\* with some of them (loader.rs:33-36, 57-58).
AllOrNothing ==
    pc = "ready" => source = 1 .. Len(dir) /\ \A f \in 1 .. Len(dir) : dir[f].readable

\* crs_match says true only for a tag of a rule that fired, and an evaluation
\* that was abandoned reports nothing (evaluator.rs:27-65).
ReportedTagsFired ==
    /\ call.at = "done" =>
          \A t \in call.tags : \E p \in Rules : t \in tags(At(p)) /\ rule_id(At(p)) \in call.ids
    /\ call.at = "empty" => call.ids = {} /\ call.tags = {}
==============================================================================
