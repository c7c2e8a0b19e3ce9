--------------------------- MODULE MCTorrentFile ---------------------------
(***************************************************************************)
(* Torrent files put together entry by entry: every combination of the     *)
(* values below, the entries in order, two of them swapped or one of them  *)
(* twice, with a good or a broken announce and a good or a broken end.     *)
(***************************************************************************)
EXTENDS TorrentFile

Order == <<"", "20 bytes", "a", "announce", "announce-extra", "announce-list", "comment",
           "encoding", "files", "info", "length", "name", "path", "piece length", "pieces",
           "private", "u1", "u2", "dht", "zone", "not utf-8">>
MCStr == Range(Order)
MCRank == [s \in MCStr |-> (CHOOSE n \in 1..Len(Order) : Order[n] = s) - 1]
MCUtf8 == MCStr \ {"not utf-8"}
MCNumber == {"-1", "0", "1", "2^63"}
MCInt64 == {"-1", "0", "1"}
MCNegative == {"-1"}
MCPieces == {"", "20 bytes"}

MCPlainKeys == MCUtf8 \ {""}
MCTextKeys == {"a", "comment", "announce-extra"}
MCNumKeys == {"comment"}
MCOtherKeys == {"zone"}
MCUrlLists == {<<>>, <<<<"u2">>>>, <<<<"u1", "u2">>, <<"dht">>>>}

NewMeta(keys) == [key \in keys |-> IF key = "announce-list" THEN <<S(key), L, E>> ELSE <<S(key), S("a")>>]
MCNewMetas == {<<>>, NewMeta({"comment", "zone"}),
               NewMeta({"a", "announce-extra", "announce-list", "encoding"})}

\* What the theorems on files written again are proved from.
ASSUME NewMetasAssumption == NewMetasFine

-----------------------------------------------------------------------------
Info(name, pieces) ==
  <<D, S("length"), I("1"), S("name"), S(name), S("piece length"), I("1"), S("pieces"), pieces, E>>

Keys == <<"announce-extra", "announce-list", "comment", "encoding", "info", "zone">>

\* The values considered for a key, "absent" among them.
Absent == <<>>
Values == [n \in 1..Len(Keys) |->
  CASE Keys[n] = "announce-extra" -> {Absent, <<S("a")>>}
    [] Keys[n] = "announce-list" ->
         {Absent, <<S("u2")>>, <<L, L, S("u1"), S("u2"), E, S("u1"), L, E, E>>, <<L, I("1"), E>>}
    [] Keys[n] = "comment" -> {Absent, <<S("a")>>, <<I("1")>>, <<S("not utf-8")>>}
    [] Keys[n] = "encoding" -> {Absent, <<S("a")>>, <<I("1")>>}
    [] Keys[n] = "info" ->
         {Absent, Info("a", S("20 bytes")), Info("not utf-8", S("20 bytes")), Info("a", I("1")), <<D>>}
    [] Keys[n] = "zone" -> {Absent, <<L, I("2^63"), E>>}]

Entry(n, value) == <<S(Keys[n])>> \o value

\* The entries that are there, in order.
Present(values) ==
  LET ns == SelectSeq(<<1, 2, 3, 4, 5, 6>>, LAMBDA n : values[n] # Absent)
  IN [m \in 1..Len(ns) |-> Entry(ns[m], values[ns[m]])]

SwapAt(s, m) == [n \in 1..Len(s) |-> IF n = m THEN s[m + 1] ELSE IF n = m + 1 THEN s[m] ELSE s[n]]
TwiceAt(s, m) == [n \in 1..(Len(s) + 1) |-> IF n <= m THEN s[n] ELSE s[n - 1]]

Head1 == <<D, S("announce"), S("u1")>>

MCFiles ==
  UNION {
    LET s == Present(<<v1, v2, v3, v4, v5, v6>>)
        body == FlattenSeq(s)
    IN {Head1 \o body \o <<E>>, Head1 \o body, Head1 \o body \o <<E, Junk>>,
        <<D, S("announce"), S("not utf-8")>> \o body \o <<E>>,
        <<D, S("announce")>> \o body \o <<E>>}
       \cup {Head1 \o FlattenSeq(SwapAt(s, m)) \o <<E>> : m \in 1..(Len(s) - 1)}
       \cup {Head1 \o FlattenSeq(TwiceAt(s, m)) \o <<E>> : m \in 1..Len(s)}
    : v1 \in Values[1], v2 \in Values[2], v3 \in Values[3], v4 \in Values[4],
      v5 \in Values[5], v6 \in Values[6]}
=============================================================================
