----------------------------- MODULE RuleTexts -----------------------------
(***************************************************************************)
(* What the four rule evaluators of the repository share: the records of   *)
(* types.rs, and the libraries they call.  A text is a sequence of tokens; *)
(* a token is a character, or stands for a run of them: "(?i)", an         *)
(* address, a number, a character class in brackets, "bad" (a byte that is *)
(* no UTF-8).                                                              *)
(***************************************************************************)
EXTENDS Naturals, Sequences, SequencesExt

CONSTANTS
    None,       \* Option::None
    Err,        \* RuleError, anyhow::Error
    LowerOf,    \* the tokens that have a lower-case form -> that form
    IpOf,       \* the texts that parse as IpAddr -> [fam, bits]
    PrefixOf,   \* the tokens that parse as u8 -> number
    ClassOf,    \* the tokens that are a character class -> its characters
    Width       \* family -> number of bits of an address

Fields == {"Ip", "Path", "Header", "Payload", "Cookie", "Method", "ContentType",
           "SessionId", "DeviceFp"}
MatchTypes == {"Exact", "Wildcard", "Regex", "Cidr", "Presence", "Absence"}
Actions == {"Allow", "Block", "Challenge", "RateLimit", "Log"}

IsLeaf(n) == n.kind = "Leaf" /\ n.field \in Fields /\ n.match_type \in MatchTypes
IsRaw(r) == r.action \in Actions /\ r.priority \in Nat /\ r.enabled \in BOOLEAN

-----------------------------------------------------------------------------
Lower(tok) == IF tok \in DOMAIN LowerOf THEN LowerOf[tok] ELSE tok

to_lowercase(text) == [i \in DOMAIN text |-> Lower(text[i])]

\* The regex crate on the patterns of the models: an optional "(?i)" and then
\* literal characters, searched for anywhere; "(" alone does not compile.
RegexOk(pattern) == "(" \notin ToSet(pattern)

RegexMatches(pattern, text) ==
    LET fold == pattern # << >> /\ Head(pattern) = "(?i)"
        lit == IF fold THEN to_lowercase(Tail(pattern)) ELSE pattern
        sub == IF fold THEN to_lowercase(text) ELSE text
    IN  \E i \in 0 .. Len(sub) - Len(lit) : SubSeq(sub, i + 1, i + Len(lit)) = lit

\* The text falls into pieces, one per token, each of which its token takes.
FallsInto(text, tokens, Takes(_, _)) ==
    \E cut \in [0 .. Len(tokens) -> 0 .. Len(text)] :
      /\ cut[0] = 0 /\ cut[Len(tokens)] = Len(text)
      /\ \A i \in 1 .. Len(tokens) :
           cut[i - 1] <= cut[i] /\ Takes(tokens[i], SubSeq(text, cut[i - 1] + 1, cut[i]))

\* The meaning of a glob as the comments in the crates give it: "* matches any
\* sequence, ? matches one char", and every other character itself.
Wild(token, piece) ==
    \/ token = "*"
    \/ token = "?" /\ Len(piece) = 1
    \/ token \notin {"*", "?"} /\ piece = <<token>>

GlobMatches(pattern, text) == FallsInto(text, pattern, Wild)

\* globset: a "**" that is a path component of its own stands for any number of
\* components, none included.  (first: at the start of a component.)
RECURSIVE GlobTokens(_, _)
GlobTokens(pattern, first) ==
    LET Rest(n) == SubSeq(pattern, n + 1, Len(pattern))
    IN  CASE pattern = << >> -> << >>
          [] first /\ IsPrefix(<<"*", "*", "/">>, pattern) -> <<"**/">> \o GlobTokens(Rest(3), TRUE)
          [] IsPrefix(<<"/", "*", "*", "/">>, pattern) -> <<"/**/">> \o GlobTokens(Rest(4), TRUE)
          [] OTHER -> <<Head(pattern)>> \o GlobTokens(Rest(1), FALSE)

\* A class takes one of its characters.  Alternatives in braces and escapes do
\* not occur in the models.
GlobsetTakes(token, piece) ==
    CASE token = "**/" -> piece = << >> \/ Last(piece) = "/"
      [] token = "/**/" -> piece # << >> /\ Head(piece) = "/" /\ Last(piece) = "/"
      [] token \in DOMAIN ClassOf -> Len(piece) = 1 /\ piece[1] \in ClassOf[token]
      [] OTHER -> Wild(token, piece)

GlobsetMatches(pattern, text) == FallsInto(text, GlobTokens(pattern, TRUE), GlobsetTakes)

ParseIp(text) == IF text \in DOMAIN IpOf THEN IpOf[text] ELSE None

ParseU8(text) ==
    IF Len(text) = 1 /\ text[1] \in DOMAIN PrefixOf THEN PrefixOf[text[1]] ELSE None

\* split_once('/'): the parts, or None.
SplitOnce(text) ==
    IF "/" \notin ToSet(text) THEN None
    ELSE LET at == CHOOSE i \in DOMAIN text :
                      text[i] = "/" /\ \A j \in 1 .. i - 1 : text[j] # "/"
         IN  <<SubSeq(text, 1, at - 1), SubSeq(text, at + 1, Len(text))>>

\* Bit i of an address, the first one being the most significant.
Bit(a, i) == (a.bits \div 2 ^ (Width[a.fam] - i)) % 2

\* ipnet: the network parses with a prefix no longer than its family's width,
\* and the address shares its first bits.
IpNetContains(cidr, ip) ==
    LET parts == SplitOnce(cidr)
    IN  /\ parts # None /\ ParseIp(ip) # None
        /\ LET net == ParseIp(parts[1])
               prefix == ParseU8(parts[2])
           IN  /\ net # None /\ prefix # None /\ prefix <= Width[net.fam]
               /\ net.fam = ParseIp(ip).fam
               /\ \A i \in 1 .. prefix : Bit(net, i) = Bit(ParseIp(ip), i)

\* std: str::from_utf8 with unwrap_or(""), and String::from_utf8_lossy.
Utf8OrEmpty(bytes) == IF "bad" \in ToSet(bytes) THEN << >> ELSE bytes
Utf8Lossy(bytes) == [i \in DOMAIN bytes |-> IF bytes[i] = "bad" THEN "repl" ELSE bytes[i]]

\* The orders an unstable sort by priority may leave the rules in.
SortedByPriority(rs) ==
    {s \in [DOMAIN rs -> ToSet(rs)] :
        /\ ToSet(s) = ToSet(rs)
        /\ \A i, j \in DOMAIN s : i < j => s[i].priority <= s[j].priority}
=============================================================================
