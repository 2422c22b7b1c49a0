---------------------------- MODULE MCCrsLoader ----------------------------
(***************************************************************************)
(* Every file of up to MaxLines lines of a catalogue with heads, members,  *)
(* markers, rules that do not parse and two definitions of one id, alone;  *)
(* and short pairs of files, one of which may be unreadable.               *)
(***************************************************************************)
EXTENDS CrsLoader

CONSTANT MaxLines   \* longest file

MCTags == {"sqli", "xss"}

Id(n) == [key |-> "id", val |-> n]

Tag(t) == [key |-> "tag", val |-> t]

Chain == [key |-> "chain", val |-> 0]

Quoted == [key |-> "quoted", val |-> 0]

Ln(kind, op, actions) == [kind |-> kind, tokens |-> TRUE, op |-> op, actions |-> actions]

NoArgs(kind) == [kind |-> kind, tokens |-> FALSE, op |-> "bare", actions |-> <<>>]

Catalogue ==
    { Ln("rule", "rx", <<Id(1), Tag("sqli")>>),
      Ln("rule", "phrase", <<Id(3), Id(1), Chain, Tag("sqli"), Tag("xss")>>),
      Ln("rule", "unsupported", <<Id(2), Tag("xss"), Chain>>),
      Ln("rule", "number", <<Tag("xss")>>),
      Ln("rule", "bad_rx", <<Chain>>),
      Ln("rule", "tx_ref", <<Quoted>>),
      Ln("rule", "bad_number", <<Id(3), Tag("sqli")>>),
      Ln("marker", "bare", <<>>),
      NoArgs("other") }

Texts(S, n) == UNION {[1 .. k -> S] : k \in 0 .. n}

Short == {Ln("rule", "rx", <<Id(1), Tag("sqli")>>), Ln("rule", "rx", <<Id(1), Tag("xss")>>),
          Ln("rule", "bare", <<Id(2), Tag("xss"), Chain>>), NoArgs("rule"), NoArgs("marker")}

Conf(r, ls) == [readable |-> r, lines |-> ls]

MCDirs ==
    {<<>>}
    \union {<<Conf(TRUE, ls)>> : ls \in Texts(Catalogue, MaxLines)}
    \union {<<Conf(r, a), Conf(q, b)>> : r, q \in BOOLEAN, a, b \in Texts(Short, 2)}
=============================================================================
