--------------------------- MODULE CrsLoaderProofs ---------------------------
(***************************************************************************)
(* The parser's countdown keeps chains whole, and a ruleset is loaded from *)
(* all files or not at all: for every directory.                           *)
(***************************************************************************)
EXTENDS CrsLoader, NatFacts

Broken(ls, n) == \E j \in 1 .. n - 1 : Chained(ls, j, n) /\ ~parse_secrule(ls[j])

\* Before line n: the countdown is on exactly if line n continues a chain with
\* a rule that does not parse.
SkipOk(ls, n, sk) == sk \in {0, 1} /\ (sk = 1 <=> Broken(ls, n))

\* Before line n: the items are exactly the kept lines up to it, in order.
ItemsOk(ls, n, its) ==
    /\ its \in Seq(Nat)
    /\ \A k \in 1 .. Len(its) : its[k] \in 1 .. n - 1 /\ Kept(ls, its[k])
    /\ \A i \in 1 .. n - 1 : Kept(ls, i) => \E k \in 1 .. Len(its) : its[k] = i
    /\ \A j, k \in 1 .. Len(its) : j < k => its[j] < its[k]

PlaceOk ==
    /\ dir \in Seq(ConfFile)
    /\ file \in 1 .. Len(dir) + 1
    /\ pc \in {"parse", "collect"} => file <= Len(dir)
    /\ pc = "parse" => line \in 1 .. Len(Lines) + 1
    /\ pc = "collect" => line \in 1 .. Len(items) + 1

FilesOk ==
    /\ source = 1 .. file - 1
    /\ \A f \in 1 .. file - 1 : dir[f].readable
    /\ pc \in {"parse", "collect"} => dir[file].readable
    /\ pc = "ready" => file = Len(dir) + 1

ParseOk ==
    /\ pc = "parse" => SkipOk(Lines, line, skip) /\ ItemsOk(Lines, line, items)
    /\ pc = "collect" => ItemsOk(Lines, Len(Lines) + 1, items)

CrsInv == PlaceOk /\ FilesOk /\ ParseOk

-----------------------------------------------------------------------------
\* A chain reaches the next line if it reaches this one and this one is part
\* of it, or if this one starts it.
LEMMA ChainStep ==
    ASSUME NEW ls, NEW n \in Nat \ {0}, NEW j \in 1 .. n
    PROVE  Chained(ls, j, n + 1) <=>
             /\ ls[n].kind # "marker"
             /\ ls[n].kind = "rule" => has_chain_action(ls[n])
             /\ (j = n /\ ls[n].kind = "rule") \/ Chained(ls, j, n)
<1>1. j .. (n + 1) - 1 = (j .. n - 1) \union {n}
  OBVIOUS
<1>2. CASE j = n
  BY <1>1, <1>2 DEF Chained
<1>3. CASE j < n
  BY <1>1, <1>3 DEF Chained
<1> QED
  BY <1>2, <1>3

\* What makes the next line the continuation of a broken chain.
LEMMA BrokenStep ==
    ASSUME NEW ls, NEW n \in Nat \ {0}
    PROVE  Broken(ls, n + 1) <=>
             /\ ls[n].kind # "marker"
             /\ ls[n].kind = "rule" => has_chain_action(ls[n])
             /\ (ls[n].kind = "rule" /\ ~parse_secrule(ls[n])) \/ Broken(ls, n)
<1>1. 1 .. (n + 1) - 1 = 1 .. n
  OBVIOUS
<1>2. 1 .. n = (1 .. n - 1) \union {n}
  OBVIOUS
<1>3. ~Chained(ls, n, n)
  BY DEF Chained
<1>4. ASSUME Broken(ls, n + 1)
      PROVE  /\ ls[n].kind # "marker"
             /\ ls[n].kind = "rule" => has_chain_action(ls[n])
             /\ (ls[n].kind = "rule" /\ ~parse_secrule(ls[n])) \/ Broken(ls, n)
  <2>1. PICK j \in 1 .. n : Chained(ls, j, n + 1) /\ ~parse_secrule(ls[j])
    BY <1>1, <1>4 DEF Broken
  <2>2. /\ ls[n].kind # "marker"
        /\ ls[n].kind = "rule" => has_chain_action(ls[n])
        /\ (j = n /\ ls[n].kind = "rule") \/ Chained(ls, j, n)
    BY <2>1, ChainStep
  <2>3. CASE j = n
    BY <1>3, <2>1, <2>2, <2>3
  <2>4. CASE j \in 1 .. n - 1
    BY <2>1, <2>2, <2>4 DEF Broken
  <2> QED
    BY <1>2, <2>3, <2>4
<1>5. ASSUME ls[n].kind # "marker",
             ls[n].kind = "rule" => has_chain_action(ls[n]),
             (ls[n].kind = "rule" /\ ~parse_secrule(ls[n])) \/ Broken(ls, n)
      PROVE  Broken(ls, n + 1)
  <2>1. CASE ls[n].kind = "rule" /\ ~parse_secrule(ls[n])
    <3>1. n \in 1 .. n
      OBVIOUS
    <3>2. Chained(ls, n, n + 1)
      BY <1>5, <2>1, <3>1, ChainStep
    <3> QED
      BY <1>1, <2>1, <3>1, <3>2 DEF Broken
  <2>2. CASE Broken(ls, n)
    <3>1. PICK j \in 1 .. n - 1 : Chained(ls, j, n) /\ ~parse_secrule(ls[j])
      BY <2>2 DEF Broken
    <3>2. j \in 1 .. n
      OBVIOUS
    <3>3. Chained(ls, j, n + 1)
      BY <1>5, <3>1, <3>2, ChainStep
    <3> QED
      BY <1>1, <3>1, <3>2, <3>3 DEF Broken
  <2> QED
    BY <1>5, <2>1, <2>2
<1> QED
  BY <1>4, <1>5

\* A kept line is a named marker or a rule that parses outside broken chains.
LEMMA KeptIsUnbroken ==
    ASSUME NEW ls, NEW n \in Nat \ {0}
    PROVE  Kept(ls, n) <=> \/ ls[n].kind = "marker" /\ ls[n].tokens
                           \/ ls[n].kind = "rule" /\ parse_secrule(ls[n]) /\ ~Broken(ls, n)
BY DEF Kept, Broken

\* A line that is not kept leaves the items as they are.
LEMMA PassItem ==
    ASSUME NEW ls, NEW n \in Nat \ {0}, NEW its, ItemsOk(ls, n, its), ~Kept(ls, n)
    PROVE  ItemsOk(ls, n + 1, its)
<1>1. 1 .. (n + 1) - 1 = (1 .. n - 1) \union {n}
  OBVIOUS
<1> QED
  BY <1>1 DEF ItemsOk

\* A line that is kept becomes the last item.
LEMMA AppendItem ==
    ASSUME NEW ls, NEW n \in Nat \ {0}, NEW its, ItemsOk(ls, n, its), Kept(ls, n)
    PROVE  ItemsOk(ls, n + 1, Append(its, n))
<1>1. 1 .. (n + 1) - 1 = (1 .. n - 1) \union {n}
  OBVIOUS
<1>2. its \in Seq(Nat)
  BY DEF ItemsOk
<1>3. /\ Append(its, n) \in Seq(Nat)
      /\ Len(Append(its, n)) = Len(its) + 1
      /\ Len(its) \in Nat
      /\ \A k \in 1 .. Len(its) : Append(its, n)[k] = its[k]
      /\ Append(its, n)[Len(its) + 1] = n
  BY <1>2
<1>4. 1 .. Len(Append(its, n)) = (1 .. Len(its)) \union {Len(its) + 1}
  BY <1>3
<1>5. \A k \in 1 .. Len(Append(its, n)) :
          Append(its, n)[k] \in 1 .. (n + 1) - 1 /\ Kept(ls, Append(its, n)[k])
  <2> TAKE k \in 1 .. Len(Append(its, n))
  <2>1. CASE k \in 1 .. Len(its)
    <3>1. its[k] \in 1 .. n - 1 /\ Kept(ls, its[k])
      BY <2>1 DEF ItemsOk
    <3>2. Append(its, n)[k] = its[k]
      BY <1>3, <2>1
    <3> QED
      BY <1>1, <3>1, <3>2
  <2>2. CASE k = Len(its) + 1
    BY <1>1, <1>3, <2>2
  <2> QED
    BY <1>4, <2>1, <2>2
<1>6. ASSUME NEW i \in 1 .. (n + 1) - 1, Kept(ls, i)
      PROVE  \E k \in 1 .. Len(Append(its, n)) : Append(its, n)[k] = i
  <2>1. CASE i = n
    BY <1>3, <1>4, <2>1
  <2>2. CASE i \in 1 .. n - 1
    <3>1. PICK k \in 1 .. Len(its) : its[k] = i
      BY <1>6, <2>2 DEF ItemsOk
    <3> QED
      BY <1>3, <1>4, <3>1
  <2> QED
    BY <1>1, <2>1, <2>2
<1>7. ASSUME NEW j \in 1 .. Len(Append(its, n)), NEW k \in 1 .. Len(Append(its, n)), j < k
      PROVE  Append(its, n)[j] < Append(its, n)[k]
  <2>1. j \in 1 .. Len(its)
    BY <1>3, <1>7
  <2>2. its[j] \in 1 .. n - 1 /\ Append(its, n)[j] = its[j]
    BY <1>3, <2>1 DEF ItemsOk
  <2>3. CASE k \in 1 .. Len(its)
    BY <1>3, <1>7, <2>1, <2>2, <2>3 DEF ItemsOk
  <2>4. CASE k = Len(its) + 1
    BY <1>3, <2>2, <2>4
  <2> QED
    BY <1>4, <2>3, <2>4
<1> QED
  BY <1>3, <1>5, <1>6, <1>7 DEF ItemsOk

-----------------------------------------------------------------------------
\* One line of a file, whatever it is.
LEMMA ParseLinePreserves ==
    ASSUME CrsInv, ParseLine
    PROVE  CrsInv'
<1>1. /\ pc = "parse" /\ pc' = "parse" /\ line' = line + 1
      /\ dir' = dir /\ file' = file /\ source' = source
      /\ Lines' = Lines /\ line <= Len(Lines)
  BY DEF ParseLine, Lines
<1>2. /\ line \in Nat \ {0} /\ Len(Lines) \in Nat
      /\ SkipOk(Lines, line, skip) /\ ItemsOk(Lines, line, items)
  <2>1. dir[file] \in ConfFile
    BY <1>1 DEF CrsInv, PlaceOk
  <2>2. Lines \in Seq(Line)
    BY <2>1 DEF ConfFile, Lines
  <2> QED
    BY <1>1, <2>2 DEF CrsInv, PlaceOk, ParseOk
<1>3. PlaceOk'
  BY <1>1, <1>2 DEF CrsInv, PlaceOk
<1>4. FilesOk'
  BY <1>1 DEF CrsInv, FilesOk
<1>5. SkipOk(Lines, line + 1, skip') /\ ItemsOk(Lines, line + 1, items')
  <2>1. skip \in {0, 1} /\ (skip = 1 <=> Broken(Lines, line))
    BY <1>2 DEF SkipOk
  <2>2. CASE Lines[line].kind = "rule" /\ SkipMember
    <3>1. skip = 1 /\ Broken(Lines, line) /\ items' = items
      BY <2>1, <2>2 DEF SkipMember
    <3>2. skip' = IF has_chain_action(Lines[line]) THEN 1 ELSE 0
      BY <2>2, <3>1 DEF SkipMember
    <3>3. Broken(Lines, line + 1) <=> has_chain_action(Lines[line])
      BY <1>2, <2>2, <3>1, BrokenStep
    <3>4. ~Kept(Lines, line)
      BY <1>2, <2>2, <3>1, KeptIsUnbroken
    <3> QED
      BY <1>2, <3>1, <3>2, <3>3, <3>4, PassItem DEF SkipOk
  <2>3. CASE Lines[line].kind = "rule" /\ KeepRule
    <3>1. skip = 0 /\ skip' = 0 /\ ~Broken(Lines, line) /\ parse_secrule(Lines[line])
      BY <2>1, <2>3 DEF KeepRule
    <3>2. items' = Append(items, line)
      BY <2>3 DEF KeepRule
    <3>3. ~Broken(Lines, line + 1)
      BY <1>2, <2>3, <3>1, BrokenStep
    <3>4. Kept(Lines, line)
      BY <1>2, <2>3, <3>1, KeptIsUnbroken
    <3> QED
      BY <1>2, <3>1, <3>2, <3>3, <3>4, AppendItem DEF SkipOk
  <2>4. CASE Lines[line].kind = "rule" /\ DropRule
    <3>1. ~parse_secrule(Lines[line]) /\ items' = items
      BY <2>4 DEF DropRule
    <3>2. skip' = IF has_chain_action(Lines[line]) THEN 1 ELSE 0
      BY <2>4 DEF DropRule
    <3>3. Broken(Lines, line + 1) <=> has_chain_action(Lines[line])
      BY <1>2, <2>4, <3>1, BrokenStep
    <3>4. ~Kept(Lines, line)
      BY <1>2, <2>4, <3>1, KeptIsUnbroken
    <3> QED
      BY <1>2, <3>1, <3>2, <3>3, <3>4, PassItem DEF SkipOk
  <2>5. CASE SecMarker
    <3>1. skip' = 0 /\ Lines[line].kind = "marker"
      BY <2>5 DEF SecMarker
    <3>2. ~Broken(Lines, line + 1)
      BY <1>2, <3>1, BrokenStep
    <3>3. ItemsOk(Lines, line + 1, items')
      <4>1. CASE Lines[line].tokens
        <5>1. Kept(Lines, line)
          BY <1>2, <3>1, <4>1, KeptIsUnbroken
        <5>2. items' = Append(items, line)
          BY <2>5, <4>1 DEF SecMarker
        <5> QED
          BY <1>2, <5>1, <5>2, AppendItem
      <4>2. CASE ~Lines[line].tokens
        <5>1. ~Kept(Lines, line)
          BY <1>2, <3>1, <4>2, KeptIsUnbroken
        <5>2. items' = items
          BY <2>5, <4>2 DEF SecMarker
        <5> QED
          BY <1>2, <5>1, <5>2, PassItem
      <4> QED
        BY <4>1, <4>2
    <3> QED
      BY <3>1, <3>2, <3>3 DEF SkipOk
  <2>6. CASE OtherLine
    <3>1. Lines[line].kind = "other" /\ skip' = skip /\ items' = items
      BY <2>6 DEF OtherLine
    <3>2. Broken(Lines, line + 1) <=> Broken(Lines, line)
      BY <1>2, <3>1, BrokenStep
    <3>3. ~Kept(Lines, line)
      BY <1>2, <3>1, KeptIsUnbroken
    <3> QED
      BY <1>2, <2>1, <3>1, <3>2, <3>3, PassItem DEF SkipOk
  <2> QED
    BY <2>2, <2>3, <2>4, <2>5, <2>6 DEF ParseLine, SecRule
<1>6. ParseOk'
  BY <1>1, <1>5 DEF ParseOk
<1> QED
  BY <1>3, <1>4, <1>6 DEF CrsInv

\* Opening a file: nothing has been read, nothing is skipped.
LEMMA ReadConfPreserves ==
    ASSUME CrsInv, ReadConf
    PROVE  CrsInv'
<1>1. /\ pc' = "parse" /\ line' = 1 /\ skip' = 0 /\ items' = <<>>
      /\ dir' = dir /\ file' = file /\ source' = source
      /\ file <= Len(dir) /\ dir[file].readable
  BY DEF ReadConf
<1>2. dir[file] \in ConfFile
  BY <1>1 DEF CrsInv, PlaceOk
<1>3. Lines' \in Seq(Line)
  BY <1>1, <1>2 DEF Lines, ConfFile
<1>4. PlaceOk'
  BY <1>1, <1>3 DEF CrsInv, PlaceOk
<1>5. FilesOk'
  BY <1>1 DEF CrsInv, FilesOk
<1>6. SkipOk(Lines', 1, 0)
  BY DEF SkipOk, Broken
<1>7. ItemsOk(Lines', 1, <<>>)
  BY DEF ItemsOk
<1>8. ParseOk'
  BY <1>1, <1>6, <1>7 DEF ParseOk
<1> QED
  BY <1>4, <1>5, <1>8 DEF CrsInv

\* The end of a file: every line has been decided.
LEMMA EndOfFilePreserves ==
    ASSUME CrsInv, EndOfFile
    PROVE  CrsInv'
<1>1. /\ pc = "parse" /\ pc' = "collect" /\ line > Len(Lines) /\ line' = 1
      /\ dir' = dir /\ file' = file /\ source' = source /\ items' = items
      /\ Lines' = Lines
  BY DEF EndOfFile, Lines
<1>2. dir[file] \in ConfFile
  BY <1>1 DEF CrsInv, PlaceOk
<1>3. Lines \in Seq(Line)
  BY <1>2 DEF Lines, ConfFile
<1>4. line = Len(Lines) + 1
  BY <1>1, <1>3 DEF CrsInv, PlaceOk
<1>5. ParseOk'
  BY <1>1, <1>4 DEF CrsInv, ParseOk
<1>6. PlaceOk' /\ FilesOk'
  <2>1. items \in Seq(Nat)
    BY <1>1 DEF CrsInv, ParseOk, ItemsOk
  <2> QED
    BY <1>1, <2>1 DEF CrsInv, PlaceOk, FilesOk
<1> QED
  BY <1>5, <1>6 DEF CrsInv

\* The steps that do not parse.
LEMMA OthersPreserve ==
    ASSUME CrsInv,
           \/ ListFails \/ ReadFails \/ CollectTags \/ NextFile \/ Compile \/ CompileFails
           \/ UNCHANGED loadVars
    PROVE  CrsInv'
<1>1. CASE ListFails \/ ReadFails \/ CompileFails
  BY <1>1 DEF CrsInv, PlaceOk, FilesOk, ParseOk, ListFails, ReadFails, CompileFails
<1>2. CASE CollectTags
  <2>1. /\ pc = "collect" /\ pc' = "collect" /\ dir' = dir /\ file' = file
        /\ source' = source /\ items' = items /\ Lines' = Lines
        /\ line' = line + 1 /\ line <= Len(items)
    BY <1>2 DEF CollectTags, Lines
  <2>2. items \in Seq(Nat)
    BY <2>1 DEF CrsInv, ParseOk, ItemsOk
  <2> QED
    BY <2>1, <2>2 DEF CrsInv, PlaceOk, FilesOk, ParseOk
<1>3. CASE NextFile
  <2>1. /\ pc = "collect" /\ pc' = "read" /\ dir' = dir /\ file' = file + 1
        /\ source' = source \union {file}
    BY <1>3 DEF NextFile
  <2>2. file \in 1 .. Len(dir) /\ Len(dir) \in Nat
    BY <2>1 DEF CrsInv, PlaceOk
  <2>3. 1 .. file' - 1 = (1 .. file - 1) \union {file}
    BY <2>1, <2>2
  <2>4. PlaceOk'
    BY <2>1, <2>2 DEF CrsInv, PlaceOk
  <2>5. FilesOk'
    BY <2>1, <2>2, <2>3 DEF CrsInv, FilesOk
  <2> QED
    BY <2>1, <2>4, <2>5 DEF CrsInv, ParseOk
<1>4. CASE Compile
  <2>1. /\ pc' = "ready" /\ dir' = dir /\ file' = file /\ source' = source
        /\ file > Len(dir)
    BY <1>4 DEF Compile
  <2>2. file = Len(dir) + 1
    BY <2>1 DEF CrsInv, PlaceOk
  <2> QED
    BY <2>1, <2>2 DEF CrsInv, PlaceOk, FilesOk, ParseOk
<1>5. CASE UNCHANGED loadVars
  <2>1. /\ dir' = dir /\ pc' = pc /\ file' = file /\ line' = line /\ skip' = skip
        /\ items' = items /\ source' = source
    BY <1>5 DEF loadVars
  <2>2. Lines' = Lines
    BY <2>1 DEF Lines
  <2> QED
    BY <2>1, <2>2 DEF CrsInv, PlaceOk, FilesOk, ParseOk
<1> QED
  BY <1>1, <1>2, <1>3, <1>4, <1>5

\* The invariant of the loader.
THEOREM CrsInvariant == Spec => []CrsInv
<1>1. Init => CrsInv
  <2> SUFFICES ASSUME Init PROVE CrsInv
    OBVIOUS
  <2>1. dir \in Seq(ConfFile) /\ file = 1 /\ pc = "read" /\ source = {}
    BY CrsAssumption DEF Init
  <2> QED
    BY <2>1 DEF CrsInv, PlaceOk, FilesOk, ParseOk
<1>2. CrsInv /\ [Next]_vars => CrsInv'
  <2> SUFFICES ASSUME CrsInv, [Next]_vars PROVE CrsInv'
    OBVIOUS
  <2>1. CASE ReadConf
    BY <2>1, ReadConfPreserves
  <2>2. CASE ParseLine
    BY <2>2, ParseLinePreserves
  <2>3. CASE EndOfFile
    BY <2>3, EndOfFilePreserves
  <2>4. CASE ListFails \/ ReadFails \/ CollectTags \/ NextFile \/ Compile \/ CompileFails
    BY <2>4, OthersPreserve
  <2>5. CASE Evaluate \/ UriFails \/ Uri \/ HeadersFail \/ Headers \/ Body \/ NoBody
             \/ Report \/ Return \/ UNCHANGED vars
    <3>1. UNCHANGED loadVars
      BY <2>5 DEF Evaluate, UriFails, Uri, HeadersFail, Headers, Body, NoBody, Report,
                  Return, Goto, Phase, vars, loadVars
    <3> QED
      BY <3>1, OthersPreserve
  <2> QED
    BY <2>1, <2>2, <2>3, <2>4, <2>5 DEF Next
<1> QED
  BY <1>1, <1>2, PTL DEF Spec

\* parse_conf's countdown drops exactly the rules that do not parse and the
\* rest of their chains (ChainsAreWhole), for files of any length.
THEOREM ChainsStayWhole == Spec => []ChainsAreWhole
<1>1. CrsInv => ChainsAreWhole
  <2> SUFFICES ASSUME CrsInv PROVE ChainsAreWhole
    OBVIOUS
  <2>1. CASE pc = "parse"
    <3>1. dir[file] \in ConfFile
      BY <2>1 DEF CrsInv, PlaceOk
    <3>2. Lines \in Seq(Line)
      BY <3>1 DEF Lines, ConfFile
    <3>3. ItemsOk(Lines, line, items) /\ line \in 1 .. Len(Lines) + 1
      BY <2>1 DEF CrsInv, PlaceOk, ParseOk
    <3>4. \A i \in 1 .. Len(Lines) : i < line => i \in 1 .. line - 1
      BY <3>2, <3>3
    <3> QED
      BY <2>1, <3>3, <3>4 DEF ChainsAreWhole, ItemsOk
  <2>2. CASE pc = "collect"
    <3>1. dir[file] \in ConfFile
      BY <2>2 DEF CrsInv, PlaceOk
    <3>2. Lines \in Seq(Line)
      BY <3>1 DEF Lines, ConfFile
    <3>3. ItemsOk(Lines, Len(Lines) + 1, items)
      BY <2>2 DEF CrsInv, ParseOk
    <3>4. 1 .. (Len(Lines) + 1) - 1 = 1 .. Len(Lines)
      BY <3>2
    <3> QED
      BY <2>2, <3>3, <3>4 DEF ChainsAreWhole, ItemsOk
  <2> QED
    BY <2>1, <2>2 DEF ChainsAreWhole
<1> QED
  BY <1>1, CrsInvariant, PTL

\* A ruleset that is ready was built from every file (AllOrNothing).
THEOREM LoadIsAllOrNothing == Spec => []AllOrNothing
<1>1. CrsInv => AllOrNothing
  <2> SUFFICES ASSUME CrsInv, pc = "ready" PROVE AllOrNothing
    BY DEF AllOrNothing
  <2>1. Len(dir) \in Nat /\ file = Len(dir) + 1
    BY DEF CrsInv, PlaceOk, FilesOk
  <2>2. 1 .. file - 1 = 1 .. Len(dir)
    BY <2>1
  <2> QED
    BY <2>2 DEF CrsInv, FilesOk, AllOrNothing
<1> QED
  BY <1>1, CrsInvariant, PTL
-----------------------------------------------------------------------------
(***************************************************************************)
(* The tags.  rule_id takes the last of several ids, so that an id has one *)
(* at all is a fact about finite sets of indices.                          *)
(***************************************************************************)
\* The id and the tags of a line.
LEMMA LineTyped ==
    ASSUME NEW l \in Line
    PROVE  rule_id(l) \in Nat /\ tags(l) \subseteq Tags
<1>1. l.actions \in Seq(Action)
  BY DEF Line
<1>2. \A k \in DOMAIN l.actions : l.actions[k] \in Action
  BY <1>1
<1>3. ASSUME NEW a \in Action
      PROVE  (a.key = "id" => a.val \in Nat) /\ (a.key = "tag" => a.val \in Tags)
  <2>1. CASE a \in [key : {"id"}, val : Nat]
    BY <2>1
  <2>2. CASE a \in [key : {"tag"}, val : Tags]
    BY <2>2
  <2>3. CASE a \in [key : {"chain", "quoted"}, val : {0}]
    BY <2>3
  <2> QED
    BY <2>1, <2>2, <2>3 DEF Action
<1> DEFINE ids == {k \in DOMAIN l.actions : l.actions[k].key = "id"}
<1>4. CASE ids = {}
  BY <1>2, <1>3, <1>4 DEF rule_id, tags
<1>5. CASE ids # {}
  <2>1. ids \subseteq 1 .. Len(l.actions) /\ Len(l.actions) \in Nat
    BY <1>1
  <2>2. \E k \in ids : \A j \in ids : j <= k
    <3> HIDE DEF ids
    <3> QED
      BY <1>5, <2>1, GreatestElement
  <2> DEFINE k == CHOOSE k \in ids : \A j \in ids : j <= k
  <2>3. k \in ids
    BY <2>2
  <2>4. rule_id(l) = l.actions[k].val
    BY <1>5 DEF rule_id
  <2> QED
    BY <1>2, <1>3, <2>3, <2>4 DEF tags
<1> QED
  BY <1>4, <1>5

\* Every line of the directory is a line.
LEMMA DirLines ==
    ASSUME dir \in Seq(ConfFile), NEW f \in 1 .. Len(dir)
    PROVE  dir[f].lines \in Seq(Line)
<1>1. dir[f] \in ConfFile
  OBVIOUS
<1> QED
  BY <1>1 DEF ConfFile

\* The tagged rules of the files before f and of the first n - 1 of the items
\* of file f.
Collected(f, its, n) ==
    {p \in Tagged : p[1] < f \/ (p[1] = f /\ \E k \in 1 .. n - 1 : its[k] = p[2])}

\* The map says of the rules of C what LastDefinitionWins says of all, and
\* every entry of it is of a rule of C.
TagsOk(C, map) ==
    /\ DOMAIN map = {rule_id(At(p)) : p \in C}
    /\ \A p \in C :
          \/ map[rule_id(At(p))] = tags(At(p))
          \/ \E q \in C : Later(q, p) /\ rule_id(At(q)) = rule_id(At(p))
    /\ \A id \in DOMAIN map : \E p \in C : rule_id(At(p)) = id /\ map[id] = tags(At(p))

TagsInv ==
    /\ pc \in {"read", "parse", "ready", "failed"} => TagsOk(Collected(file, <<>>, 1), rule_tags)
    /\ pc = "collect" => TagsOk(Collected(file, items, line), rule_tags)

\* What the tags should be depends on the directory only.
LEMMA SameDir ==
    ASSUME dir' = dir
    PROVE  /\ \A C, map : TagsOk(C, map)' <=> TagsOk(C, map)
           /\ \A f, its, n : Collected(f, its, n)' = Collected(f, its, n)
<1>1. \A p : At(p)' = At(p)
  BY DEF At
<1>2. Tagged' = Tagged
  BY DEF Tagged, Rules, At
<1> QED
  BY <1>1, <1>2 DEF TagsOk, Collected

\* A rule that is inserted after all of C.
LEMMA InsertLast ==
    ASSUME NEW C, NEW map, TagsOk(C, map), NEW p, tags(At(p)) # {}, At(p).kind = "rule",
           \A q \in C : Later(p, q)
    PROVE  TagsOk(C \union {p}, insert(map, At(p)))
<1> DEFINE id == rule_id(At(p))
           new == insert(map, At(p))
<1>1. new = [i \in DOMAIN map \union {id} |-> IF i = id THEN tags(At(p)) ELSE map[i]]
  BY DEF insert
<1>2. DOMAIN new = {rule_id(At(q)) : q \in C \union {p}}
  BY <1>1 DEF TagsOk
<1>3. ASSUME NEW q \in C \union {p}
      PROVE  \/ new[rule_id(At(q))] = tags(At(q))
             \/ \E o \in C \union {p} : Later(o, q) /\ rule_id(At(o)) = rule_id(At(q))
  <2>1. CASE q = p
    BY <1>1, <2>1
  <2>2. CASE q \in C /\ rule_id(At(q)) = id
    BY <2>2
  <2>3. CASE q \in C /\ rule_id(At(q)) # id
    <3>1. rule_id(At(q)) \in DOMAIN map
      BY <2>3 DEF TagsOk
    <3>2. new[rule_id(At(q))] = map[rule_id(At(q))]
      BY <1>1, <2>3, <3>1
    <3> QED
      BY <2>3, <3>2 DEF TagsOk
  <2> QED
    BY <2>1, <2>2, <2>3
<1>4. ASSUME NEW i \in DOMAIN new
      PROVE  \E q \in C \union {p} : rule_id(At(q)) = i /\ new[i] = tags(At(q))
  <2>1. CASE i = id
    BY <1>1, <2>1
  <2>2. CASE i # id
    <3>1. i \in DOMAIN map /\ new[i] = map[i]
      BY <1>1, <2>2
    <3> QED
      BY <3>1 DEF TagsOk
  <2> QED
    BY <2>1, <2>2
<1> QED
  BY <1>2, <1>3, <1>4 DEF TagsOk

\* One item of the file: it is later than everything collected so far.
LEMMA CollectStep ==
    ASSUME CrsInv, TagsInv, CollectTags
    PROVE  TagsInv'
<1>1. /\ pc = "collect" /\ pc' = "collect" /\ dir' = dir /\ file' = file
      /\ items' = items /\ line' = line + 1 /\ line <= Len(items)
      /\ rule_tags' = insert(rule_tags, Lines[items[line]])
  BY DEF CollectTags
<1>2. /\ file \in 1 .. Len(dir) /\ Len(dir) \in Nat /\ dir \in Seq(ConfFile)
      /\ items \in Seq(Nat) /\ line \in 1 .. Len(items) /\ Len(items) \in Nat
      /\ ItemsOk(Lines, Len(Lines) + 1, items)
  BY <1>1 DEF CrsInv, PlaceOk, ParseOk, ItemsOk
<1>3. Lines \in Seq(Line) /\ Lines = dir[file].lines
  BY <1>2, DirLines DEF Lines
<1>4. items[line] \in 1 .. Len(Lines) /\ Kept(Lines, items[line])
  <2>1. 1 .. (Len(Lines) + 1) - 1 = 1 .. Len(Lines)
    BY <1>3
  <2> QED
    BY <1>2, <2>1 DEF ItemsOk
<1> DEFINE p == <<file, items[line]>>
           C == Collected(file, items, line)
<1>5. At(p) = Lines[items[line]] /\ p[1] = file /\ p[2] = items[line]
  BY <1>3 DEF At
<1>6. /\ Tagged' = Tagged
      /\ \A q : At(q)' = At(q)
  BY <1>1 DEF Tagged, Rules, At
<1>7. \A q \in Rules : q = <<q[1], q[2]>>
  BY DEF Rules
<1>8. Collected(file, items, line + 1) = C \union ({p} \intersect Tagged)
  <2>1. 1 .. (line + 1) - 1 = (1 .. line - 1) \union {line}
    BY <1>2
  <2>2. \A q \in Tagged : q[1] = file /\ q[2] = items[line] <=> q = p
    BY <1>5, <1>7 DEF Tagged
  <2>3. \A q \in Tagged : (\E k \in 1 .. (line + 1) - 1 : items[k] = q[2]) <=>
                              (\E k \in 1 .. line - 1 : items[k] = q[2]) \/ items[line] = q[2]
    BY <2>1
  <2> QED
    BY <2>2, <2>3 DEF Collected
<1>9. TagsOk(C, rule_tags)
  BY <1>1 DEF TagsInv
<1>10. TagsOk(Collected(file, items, line + 1), rule_tags')
  <2>1. CASE At(p).kind = "rule" /\ tags(At(p)) # {}
    <3>1. p \in Rules
      BY <1>2, <1>3, <1>4, <1>5, <2>1 DEF Rules
    <3>2. p \in Tagged
      BY <1>3, <1>4, <1>5, <2>1, <3>1 DEF Tagged
    <3>3. ASSUME NEW q \in C PROVE Later(p, q)
      <4>1. CASE q[1] < file
        BY <1>2, <1>5, <4>1 DEF Later
      <4>2. CASE q[1] = file /\ \E k \in 1 .. line - 1 : items[k] = q[2]
        <5>1. PICK k \in 1 .. line - 1 : items[k] = q[2]
          BY <4>2
        <5>2. k \in 1 .. Len(items) /\ k < line
          BY <1>2
        <5>3. items[k] < items[line]
          BY <1>2, <5>2 DEF ItemsOk
        <5>4. items[k] \in Nat /\ items[line] \in Nat
          BY <1>2, <5>2
        <5> QED
          BY <1>5, <4>2, <5>1, <5>3, <5>4 DEF Later
      <4> QED
        BY <4>1, <4>2 DEF Collected
    <3>4. TagsOk(C \union {p}, insert(rule_tags, At(p)))
      <4> HIDE DEF C, p
      <4> QED
        BY <1>9, <2>1, <3>3, InsertLast
    <3> QED
      BY <1>1, <1>5, <1>8, <3>2, <3>4
  <2>2. CASE ~(At(p).kind = "rule" /\ tags(At(p)) # {})
    <3>1. insert(rule_tags, At(p)) = rule_tags
      BY <2>2 DEF insert
    <3>2. p \notin Tagged
      <4>1. \A q \in Rules : At(q).kind = "rule"
        BY DEF Rules, At
      <4> QED
        BY <2>2, <4>1 DEF Tagged
    <3>3. C \union ({p} \intersect Tagged) = C
      BY <3>2
    <3> QED
      BY <1>1, <1>5, <1>8, <1>9, <3>1, <3>3
  <2> QED
    BY <2>1, <2>2
<1>11. TagsOk(Collected(file', items', line'), rule_tags')
  BY <1>1, <1>10
<1> QED
  BY <1>1, <1>11, SameDir DEF TagsInv
\* The steps of the loader and of an evaluation that collect no tags: a file
\* that is opened has none collected yet, one that ends has all.
LEMMA TagsStep ==
    ASSUME CrsInv, TagsInv, [Next]_vars
    PROVE  TagsInv'
<1> DEFINE before(f) == Collected(f, <<>>, 1)
<1>1. \A f, its : Collected(f, its, 1) = before(f)
  BY DEF Collected
<1>2. CASE CollectTags
  BY <1>2, CollectStep
<1>3. CASE NextFile
  <2>1. /\ pc = "collect" /\ pc' = "read" /\ dir' = dir /\ file' = file + 1
        /\ rule_tags' = rule_tags /\ line > Len(items)
    BY <1>3 DEF NextFile
  <2>2. /\ file \in 1 .. Len(dir) /\ Len(dir) \in Nat /\ dir \in Seq(ConfFile)
        /\ line - 1 = Len(items) /\ ItemsOk(Lines, Len(Lines) + 1, items)
    BY <2>1 DEF CrsInv, PlaceOk, ParseOk, ItemsOk
  <2>3. Lines \in Seq(Line) /\ Lines = dir[file].lines
    BY <2>2, DirLines DEF Lines
  <2>4. \A q \in Tagged : /\ q[1] \in 1 .. Len(dir)
                          /\ q[2] \in 1 .. Len(dir[q[1]].lines)
                          /\ Kept(dir[q[1]].lines, q[2])
    <3> TAKE q \in Tagged
    <3>1. q[1] \in DOMAIN dir /\ q[2] \in DOMAIN dir[q[1]].lines
      BY DEF Tagged, Rules
    <3>2. q[1] \in 1 .. Len(dir)
      BY <2>2, <3>1
    <3>3. dir[q[1]].lines \in Seq(Line)
      BY <2>2, <3>2, DirLines
    <3> QED
      BY <3>1, <3>2, <3>3 DEF Tagged
  <2>5. \A q \in Tagged : q[1] = file => \E k \in 1 .. line - 1 : items[k] = q[2]
    <3>1. (Len(Lines) + 1) - 1 = Len(Lines)
      BY <2>3
    <3> QED
      BY <2>2, <2>3, <2>4, <3>1 DEF ItemsOk
  <2>6. \A q \in Tagged : q[1] < file + 1 <=> q[1] < file \/ q[1] = file
    BY <2>2, <2>4
  <2>7. before(file + 1) = Collected(file, items, line)
    <3>1. \A q \in Tagged : ~\E k \in 1 .. 1 - 1 : <<>>[k] = q[2]
      OBVIOUS
    <3> QED
      BY <2>5, <2>6, <3>1 DEF Collected
  <2>8. TagsOk(before(file'), rule_tags')
    BY <2>1, <2>7 DEF TagsInv
  <2> QED
    BY <2>1, <2>8, SameDir DEF TagsInv
<1>4. CASE EndOfFile
  <2>1. /\ pc = "parse" /\ pc' = "collect" /\ dir' = dir /\ file' = file
        /\ rule_tags' = rule_tags /\ line' = 1
    BY <1>4 DEF EndOfFile
  <2>2. TagsOk(Collected(file', items', line'), rule_tags')
    BY <1>1, <2>1 DEF TagsInv
  <2> QED
    BY <2>1, <2>2, SameDir DEF TagsInv
<1>5. CASE ListFails \/ ReadConf \/ ReadFails \/ ParseLine \/ Compile \/ CompileFails
  <2>1. /\ pc \in {"read", "parse", "ready", "failed"}
        /\ pc' \in {"read", "parse", "ready", "failed"}
        /\ dir' = dir /\ file' = file /\ rule_tags' = rule_tags
    BY <1>5 DEF ListFails, ReadConf, ReadFails, ParseLine, Compile, CompileFails
  <2>2. TagsOk(before(file'), rule_tags')
    BY <2>1 DEF TagsInv
  <2> QED
    BY <2>1, <2>2, SameDir DEF TagsInv
<1>6. CASE UNCHANGED loadVars
  <2>1. /\ dir' = dir /\ pc' = pc /\ file' = file /\ line' = line
        /\ items' = items /\ rule_tags' = rule_tags
    BY <1>6 DEF loadVars
  <2>2. /\ pc \in {"read", "parse", "ready", "failed"} => TagsOk(before(file'), rule_tags')
        /\ pc = "collect" => TagsOk(Collected(file', items', line'), rule_tags')
    BY <2>1 DEF TagsInv
  <2> QED
    BY <2>1, <2>2, SameDir DEF TagsInv
<1>7. CASE Evaluate \/ UriFails \/ Uri \/ HeadersFail \/ Headers \/ Body \/ NoBody
           \/ Report \/ Return \/ UNCHANGED vars
  BY <1>6, <1>7 DEF Evaluate, UriFails, Uri, HeadersFail, Headers, Body, NoBody, Report,
                    Return, Goto, Phase, vars, loadVars
<1> QED
  BY <1>2, <1>3, <1>4, <1>5, <1>7 DEF Next

-----------------------------------------------------------------------------
(***************************************************************************)
(* Types, and one evaluation.                                              *)
(***************************************************************************)
Call == [at : {"idle", "uri", "headers", "body", "report", "done", "empty"},
         fired : SUBSET Nat, ids : SUBSET Nat, tags : SUBSET Tags]

ShapeOk ==
    /\ pc \in {"read", "parse", "collect", "ready", "failed"}
    /\ line \in Nat \ {0}
    /\ skip \in {0, 1}
    /\ items \in Seq(Nat \ {0})
    /\ rule_count \in Nat

\* An evaluation reports nothing before its last step, and then the tags of
\* the rules that fired.
CallOk ==
    /\ call \in Call
    /\ call.at # "done" => call.ids = {} /\ call.tags = {}
    /\ call.at = "done" =>
          /\ pc = "ready"
          /\ call.ids = call.fired
          /\ call.tags = UNION {rule_tags[id] : id \in call.fired \intersect DOMAIN rule_tags}
    /\ pc # "ready" => call = NoCall

LoaderInv == CrsInv /\ TagsInv /\ ShapeOk /\ CallOk

\* What has been collected are rules of the directory with an id and tags.
LEMMA TaggedTyped ==
    ASSUME dir \in Seq(ConfFile)
    PROVE  \A p \in Tagged : /\ p \in Rules
                             /\ rule_id(At(p)) \in Nat
                             /\ tags(At(p)) \in (SUBSET Tags) \ {{}}
<1> TAKE p \in Tagged
<1>1. p \in Rules /\ tags(At(p)) # {}
  BY DEF Tagged
<1>2. p[1] \in DOMAIN dir /\ p[2] \in DOMAIN dir[p[1]].lines
  BY <1>1 DEF Rules
<1>3. p[1] \in 1 .. Len(dir)
  BY <1>2
<1>4. dir[p[1]].lines \in Seq(Line)
  BY <1>3, DirLines
<1>5. At(p) \in Line
  BY <1>2, <1>4 DEF At
<1> QED
  BY <1>1, <1>5, LineTyped

\* The map has tags of rules of the directory, in every state.
LEMMA MapTyped ==
    ASSUME CrsInv, TagsInv, ShapeOk
    PROVE  /\ DOMAIN rule_tags \subseteq Nat
           /\ \A id \in DOMAIN rule_tags :
                 /\ rule_tags[id] \in (SUBSET Tags) \ {{}}
                 /\ \E p \in Rules : rule_id(At(p)) = id /\ tags(At(p)) = rule_tags[id]
<1>1. PICK C \in SUBSET Tagged : TagsOk(C, rule_tags)
  <2>1. \A f, its, n : Collected(f, its, n) \in SUBSET Tagged
    BY DEF Collected
  <2> QED
    BY <2>1 DEF TagsInv, ShapeOk
<1>2. \A p \in C : /\ p \in Rules
                   /\ rule_id(At(p)) \in Nat
                   /\ tags(At(p)) \in (SUBSET Tags) \ {{}}
  BY TaggedTyped DEF CrsInv, PlaceOk
<1>3. \A id \in DOMAIN rule_tags :
          \E p \in C : rule_id(At(p)) = id /\ rule_tags[id] = tags(At(p))
  BY <1>1 DEF TagsOk
<1> QED
  BY <1>2, <1>3

\* The rules a transaction can report have numbers.
LEMMA ReportableTyped ==
    ASSUME CrsInv
    PROVE  Reportable \subseteq Nat
<1>1. ASSUME NEW f \in source, NEW i \in DOMAIN dir[f].lines
      PROVE  rule_id(dir[f].lines[i]) \in Nat
  <2>1. dir \in Seq(ConfFile) /\ f \in 1 .. Len(dir)
    BY DEF CrsInv, PlaceOk, FilesOk
  <2>2. dir[f].lines \in Seq(Line)
    BY <2>1, DirLines
  <2>3. dir[f].lines[i] \in Line
    BY <2>2
  <2> QED
    BY <2>3, LineTyped
<1> QED
  BY <1>1 DEF Reportable

\* Every step keeps the types of the load.
LEMMA ShapeStep ==
    ASSUME CrsInv, ShapeOk, [Next]_vars
    PROVE  ShapeOk'
<1> USE DEF ShapeOk
<1>1. CASE ListFails \/ ReadFails \/ Compile \/ CompileFails
  BY <1>1 DEF ListFails, ReadFails, Compile, CompileFails
<1>2. CASE ReadConf
  BY <1>2 DEF ReadConf
<1>3. CASE ParseLine
  <2>1. UNCHANGED <<pc, rule_count>> /\ line' = line + 1
    BY <1>3 DEF ParseLine
  <2>2. CASE SecRule
    <3>1. CASE SkipMember
      <4>1. UNCHANGED items /\ skip' \in {0, 1}
        BY <3>1 DEF SkipMember
      <4> QED
        BY <2>1, <4>1
    <3>2. CASE KeepRule
      <4>1. items' = Append(items, line) /\ UNCHANGED skip
        BY <3>2 DEF KeepRule
      <4>2. items' \in Seq(Nat \ {0})
        BY <4>1
      <4> QED
        BY <2>1, <4>1, <4>2
    <3>3. CASE DropRule
      <4>1. UNCHANGED items /\ skip' \in {0, 1}
        BY <3>3 DEF DropRule
      <4> QED
        BY <2>1, <4>1
    <3> QED
      BY <2>2, <3>1, <3>2, <3>3 DEF SecRule
  <2>3. CASE SecMarker
    BY <2>1, <2>3 DEF SecMarker
  <2>4. CASE OtherLine
    BY <2>1, <2>4 DEF OtherLine
  <2> QED
    BY <1>3, <2>2, <2>3, <2>4 DEF ParseLine
<1>4. CASE CollectTags
  BY <1>4 DEF CollectTags
<1>5. CASE NextFile
  BY <1>5 DEF NextFile
<1>6. CASE UNCHANGED loadVars
  BY <1>6 DEF loadVars
<1>7. CASE Evaluate \/ UriFails \/ Uri \/ HeadersFail \/ Headers \/ Body \/ NoBody
           \/ Report \/ Return \/ UNCHANGED vars
  BY <1>6, <1>7 DEF Evaluate, UriFails, Uri, HeadersFail, Headers, Body, NoBody, Report,
                    Return, Goto, Phase, vars, loadVars
<1>8. CASE EndOfFile
  BY <1>8 DEF EndOfFile
<1> QED
  BY <1>1, <1>2, <1>3, <1>4, <1>5, <1>7, <1>8 DEF Next

\* Every step keeps what a call has found so far within the ruleset.
LEMMA CallStep ==
    ASSUME LoaderInv, [Next]_vars
    PROVE  CallOk'
<1>1. call \in Call /\ CallOk
  BY DEF LoaderInv, CallOk
<1>2. CASE ListFails \/ ReadConf \/ ReadFails \/ ParseLine \/ EndOfFile \/ CollectTags
           \/ NextFile \/ Compile \/ CompileFails
  <2>1. pc # "ready" /\ call' = call
    BY <1>2 DEF ListFails, ReadConf, ReadFails, ParseLine, EndOfFile, CollectTags,
                NextFile, Compile, CompileFails
  <2>2. call = NoCall /\ call.at = "idle"
    BY <1>1, <2>1 DEF CallOk, NoCall
  <2> QED
    BY <1>1, <2>1, <2>2 DEF CallOk
<1>3. ASSUME NEW to \in {"idle", "uri", "headers", "body", "report", "empty"},
             pc = "ready", call.at # "done",
             call' = [call EXCEPT !.at = to], UNCHANGED loadVars
      PROVE  CallOk'
  <2>1. call' \in Call /\ call'.at = to /\ call'.ids = call.ids /\ call'.tags = call.tags
    BY <1>1, <1>3 DEF Call
  <2> QED
    BY <1>1, <1>3, <2>1 DEF CallOk, loadVars
<1>4. CASE Evaluate \/ UriFails \/ Uri \/ HeadersFail \/ NoBody
  BY <1>3, <1>4 DEF Evaluate, UriFails, Uri, HeadersFail, NoBody, Goto
<1>5. CASE Headers \/ Body
  <2>1. PICK to \in {"body", "report"}, ids \in SUBSET Reportable :
            /\ pc = "ready" /\ call.at # "done" /\ UNCHANGED loadVars
            /\ call' = [call EXCEPT !.at = to, !.fired = @ \union ids]
    BY <1>5 DEF Headers, Body, Phase
  <2>2. ids \subseteq Nat
    BY ReportableTyped DEF LoaderInv
  <2>3. call' \in Call /\ call'.at = to /\ call'.ids = call.ids /\ call'.tags = call.tags
    BY <1>1, <2>1, <2>2 DEF Call
  <2> QED
    BY <1>1, <2>1, <2>3 DEF CallOk, loadVars
<1>6. CASE Report
  <2> DEFINE ts == UNION {rule_tags[id] : id \in call.fired \intersect DOMAIN rule_tags}
  <2>1. ts \subseteq Tags
    BY MapTyped DEF LoaderInv
  <2>2. /\ pc = "ready" /\ UNCHANGED loadVars
        /\ call' = [call EXCEPT !.at = "done", !.ids = call.fired, !.tags = ts]
    BY <1>6 DEF Report
  <2> HIDE DEF ts
  <2>3. /\ call' \in Call /\ call'.at = "done" /\ call'.ids = call.fired
        /\ call'.fired = call.fired /\ call'.tags = ts
    BY <1>1, <2>1, <2>2 DEF Call
  <2>4. pc' = "ready" /\ rule_tags' = rule_tags
    BY <2>2 DEF loadVars
  <2> QED
    BY <2>3, <2>4 DEF CallOk, ts
<1>7. CASE Return
  <2>1. call' = NoCall /\ NoCall \in Call /\ NoCall.at = "idle"
    BY <1>7 DEF Return, NoCall, Call
  <2> QED
    BY <2>1 DEF CallOk, NoCall
<1>8. CASE UNCHANGED vars
  BY <1>1, <1>8 DEF CallOk, vars
<1> QED
  BY <1>2, <1>4, <1>5, <1>6, <1>7, <1>8 DEF Next

\* Everything the loader and an evaluation maintain, together.
THEOREM LoaderInvariant == Spec => []LoaderInv
<1>1. Init => TagsInv /\ ShapeOk /\ CallOk
  <2> SUFFICES ASSUME Init PROVE TagsInv /\ ShapeOk /\ CallOk
    OBVIOUS
  <2>1. dir \in Seq(ConfFile)
    BY CrsAssumption DEF Init
  <2>2. \A p \in Tagged : p[1] \in 1 .. Len(dir)
    <3> TAKE p \in Tagged
    <3>1. p[1] \in DOMAIN dir
      BY DEF Tagged, Rules
    <3> QED
      BY <2>1, <3>1
  <2>3. Collected(1, <<>>, 1) = {}
    BY <2>1, <2>2 DEF Collected
  <2>4. TagsOk({}, [id \in {} |-> {}])
    BY DEF TagsOk
  <2>5. TagsInv
    BY <2>3, <2>4 DEF Init, TagsInv
  <2>6. ShapeOk /\ CallOk
    BY DEF Init, ShapeOk, CallOk, NoCall, Call
  <2> QED
    BY <2>5, <2>6
<1>2. LoaderInv /\ [Next]_vars => TagsInv' /\ ShapeOk' /\ CallOk'
  BY TagsStep, ShapeStep, CallStep DEF LoaderInv
<1> QED
  BY <1>1, <1>2, CrsInvariant, PTL DEF Spec, LoaderInv

\* Indices stay within the directory and its files, and every entry of
\* rule_tags is a nonempty set of tags.
THEOREM CrsTypeCorrect == Spec => []CrsTypeOK
<1>1. LoaderInv => CrsTypeOK
  <2> SUFFICES ASSUME LoaderInv PROVE CrsTypeOK
    OBVIOUS
  <2>1. source \subseteq 1 .. Len(dir)
    BY DEF LoaderInv, CrsInv, PlaceOk, FilesOk
  <2>2. /\ DOMAIN rule_tags \subseteq Nat
        /\ \A id \in DOMAIN rule_tags : rule_tags[id] \in (SUBSET Tags) \ {{}}
    BY MapTyped DEF LoaderInv
  <2> QED
    BY <2>1, <2>2 DEF LoaderInv, CrsInv, PlaceOk, ShapeOk, CallOk, Call, CrsTypeOK
<1> QED
  BY <1>1, LoaderInvariant, PTL

\* Over all files, the last kept definition of an id decides its tags.
THEOREM TheLastDefinitionWins == Spec => []LastDefinitionWins
<1>1. LoaderInv => LastDefinitionWins
  <2> SUFFICES ASSUME LoaderInv, pc = "ready" PROVE LastDefinitionWins
    BY DEF LastDefinitionWins
  <2>1. file = Len(dir) + 1 /\ dir \in Seq(ConfFile)
    BY DEF LoaderInv, CrsInv, FilesOk, PlaceOk
  <2>2. \A p \in Tagged : p[1] < file
    <3> TAKE p \in Tagged
    <3>1. p[1] \in DOMAIN dir
      BY DEF Tagged, Rules
    <3> QED
      BY <2>1, <3>1
  <2>3. Collected(file, <<>>, 1) = Tagged
    BY <2>2 DEF Collected
  <2>4. TagsOk(Tagged, rule_tags)
    BY <2>3 DEF LoaderInv, TagsInv
  <2> QED
    BY <2>4 DEF TagsOk, LastDefinitionWins
<1> QED
  BY <1>1, LoaderInvariant, PTL

\* crs_match only ever reports a tag of a rule that fired.
THEOREM TagsAreOfFiredRules == Spec => []ReportedTagsFired
<1>1. LoaderInv => ReportedTagsFired
  <2> SUFFICES ASSUME LoaderInv PROVE ReportedTagsFired
    OBVIOUS
  <2>1. ASSUME call.at = "done", NEW t \in call.tags
        PROVE  \E p \in Rules : t \in tags(At(p)) /\ rule_id(At(p)) \in call.ids
    <3>1. PICK id \in call.fired \intersect DOMAIN rule_tags : t \in rule_tags[id]
      BY <2>1 DEF LoaderInv, CallOk
    <3>2. PICK p \in Rules : rule_id(At(p)) = id /\ tags(At(p)) = rule_tags[id]
      BY <3>1, MapTyped DEF LoaderInv
    <3> QED
      BY <2>1, <3>1, <3>2 DEF LoaderInv, CallOk
  <2>2. call.at = "empty" => call.ids = {} /\ call.tags = {}
    BY DEF LoaderInv, CallOk
  <2> QED
    BY <2>1, <2>2 DEF ReportedTagsFired
<1> QED
  BY <1>1, LoaderInvariant, PTL
=============================================================================
