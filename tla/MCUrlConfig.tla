---------------------------- MODULE MCUrlConfig ----------------------------
(***************************************************************************)
(* Url filter files with lines of all kinds; and splitLine alone on those  *)
(* lines and on every line of at most MaxLine characters.                  *)
(***************************************************************************)
EXTENDS UrlConfig, TLC

CONSTANTS MaxLine

LineChar == {" ", "#", "+", "*", "-", "a"}
MCChar == LineChar \cup {"b", "c", "("}

A == <<"a">>
B == <<"b", "#">>
C == <<"-", "c">>
Bad == <<"(">>
MCPattern == {A, B, C}

\* A line: a prefix, spaces or none, words, and what is behind them.
Line(prefix, glue, words, rest) ==
  prefix \o glue
    \o FlattenSeq([n \in 1..Len(words) |-> IF n = 1 THEN words[n] ELSE <<" ">> \o words[n]])
    \o rest
Lines == {
  Line(Plus, <<>>, <<A, C>>, <<>>),
  Line(Plus, <<" ">>, <<B>>, <<" ", "#", "a">>),
  Line(Minus, <<" ", " ">>, <<C, A>>, <<>>),
  Line(Minus, <<>>, <<Bad>>, <<>>),
  Line(MinusMinus, <<>>, <<C, B>>, <<" ">>),
  Line(Star, <<>>, <<B, A>>, <<" ", "#", "a">>),
  Line(Star, <<" ">>, <<Bad>>, <<>>),
  Line(<<>>, <<>>, <<A, C>>, <<" ", "#">>),
  Line(<<>>, <<>>, <<Bad, A>>, <<>>),
  Line(<<>>, <<" ">>, <<>>, <<" ", "#", "-">>)}

MCFile == {[text |-> text] : text \in BoundedSeq(Lines, 2)}

MCHandle == Objects

-----------------------------------------------------------------------------
\* A line to split, and no program around it.
InitSplit ==
  /\ InitHandles
  /\ pc = "split" /\ status = "none" /\ files = <<>> /\ flags = {} /\ info = -1 /\ args = 0
  /\ \E line \in BoundedSeq(LineChar, MaxLine) \cup Lines : lines = <<line>>
  /\ cols = <<>> /\ lists = NoLists /\ rules = <<>> /\ added = <<>>
  /\ regex = [p \in Pcre |-> {}]

MCInit == Init \/ InitSplit
MCSpec == MCInit /\ [][Next]_vars
=============================================================================
