------------------------------ MODULE MCBytes ------------------------------
(***************************************************************************)
(* The lexer on bytes: read_number and skip_number on every short number,  *)
(* the functions for strings on every short string and length, read_utf8   *)
(* on characters put together from the bytes at the edges of what the      *)
(* tests of validUTF8Text and validUTF8 tell apart.  The references are    *)
(* built from encoders: an input is right if it is the encoding of what it *)
(* stands for.                                                             *)
(***************************************************************************)
EXTENDS Lexer, SequencesExt, TLC

CONSTANTS MaxBytes

\* Integers of eight bits.
MCMinInt == -128

\* 0, 1, 2, 7, 8, "-", "e", with 8-bit integers; 0, 1, 2, 9, ":", "a".
NumberBytes == {48, 49, 50, 55, 56, 45, 101}
StringBytes == {48, 49, 50, 57, 58, 97}

Leads == {0, 9, 31, 32, 65, 126, 127, 128, 191, 192, 193, 194, 223, 224, 225, 226, 237, 239, 240,
          241, 243, 244, 247, 248, 255}
Conts == {65, 128, 129, 139, 143, 144, 159, 160, 170, 174, 175, 183, 189, 190, 191}
Wide == {c \in Leads : c >= 240}

\* Strings of one character, some cut off, some with more behind.
Characters ==
  {<<>>} \cup {<<a>> : a \in Leads} \cup {<<a, b>> : a \in Leads, b \in Conts}
    \cup {<<a, b, c>> : a \in Leads, b \in Conts, c \in Conts}
    \cup {<<a, b, c, d>> : a \in Wide, b \in Conts, c \in {128, 188, 191}, d \in {65, 128, 190, 191}}
    \cup {<<a, b, c, d>> : a \in {97, 194, 239}, b \in {191}, c \in {191, 194}, d \in Conts}

-----------------------------------------------------------------------------
Numbers == {<<b>> \o s : b \in {CharI, Minus}, s \in BoundedSeq(NumberBytes, MaxBytes)}
Strings ==
  BoundedSeq(StringBytes, MaxBytes)
    \cup {<<49, 48, 58>> \o [m \in 1..n |-> 97] : n \in 8..11}
Texts ==
  {Encoded(c) \o behind : c \in Characters, behind \in {<<>>, <<CharE>>, <<128>>, <<191>>}}

Called == at = start /\ pos = start /\ num = 0 /\ neg = FALSE /\ text = <<>> /\ pc = "head"

BytesInit ==
  /\ \/ fn \in NumberFn /\ data \in Numbers /\ start = 1
     \/ fn = "read_string" /\ data \in Strings /\ start \in 1..Len(data)
     \/ fn = "read_utf8" /\ data \in Texts /\ start = 1
  /\ Called

BytesSpec == BytesInit /\ [][Next]_lexvars

\* A string of two characters, each of which one of the two wrong tests of
\* validUTF8Text lets pass: U+FFFE, and U+1000 in four bytes.
BothInit ==
  /\ fn = "read_utf8" /\ start = 1 /\ Called
  /\ data = Encoded(<<239, 191, 190, 240, 129, 128, 128>>) \o <<CharE>>

BothSpec == BothInit /\ [][Next]_lexvars

-----------------------------------------------------------------------------
(***************************************************************************)
(* The claims of the comments in validUTF8Text: what it refuses of the     *)
(* sequences of three and of four bytes is the "overlong" ones, and of     *)
(* noncharacters the "last two code points in plane".  So a string, with   *)
(* the end of its dictionary behind it, is read only if it has none of     *)
(* them.                                                                   *)
(***************************************************************************)
AcceptsOnlyText ==
  pc = "done" /\ fn = "read_utf8" /\ ByteAt(at) = CharE => Made(text, "claimed")
=============================================================================
