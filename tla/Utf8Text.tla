----------------------------- MODULE Utf8Text -----------------------------
(***************************************************************************)
(* validUTF8Text and validUTF8 (src/src/utils.cpp) on a string of bytes.   *)
(* Both compare the bytes a sequence still needs with len - i, which       *)
(* counts the byte at i as well: of a sequence cut off by one byte they    *)
(* read the byte "behind" the string.                                      *)
(***************************************************************************)
EXTENDS Integers, Sequences

Continuation(c) == c \div 64 = 2

\* How many bytes follow a leading byte, and its own bits.
SeqLen(c) ==
  CASE c < 128 -> 0
    [] c \in 194..223 -> 1
    [] c \in 224..239 -> 2
    [] c \in 240..247 -> 3
    [] OTHER -> -1
LeadBits(c) == c % (<<128, 32, 16, 8>>[SeqLen(c) + 1])

\* The bytes that follow position i, one of them perhaps behind the string.
Following(s, behind, i) ==
  [n \in 1..SeqLen(s[i]) |-> IF i + n <= Len(s) THEN s[i + n] ELSE behind]

\* Mutant: the bytes the sequence lacks are counted with one more off.
EnoughRoughly(s, i) == SeqLen(s[i]) <= Len(s) - i + 2

\* seqlen <= len - i
Enough(s, i) == SeqLen(s[i]) <= Len(s) - i + 1

CodeOf(lead, tail) ==
  LET first[n \in 0..Len(tail)] ==
        IF n = 0 THEN LeadBits(lead) ELSE 64 * first[n - 1] + (tail[n] % 64)
  IN first[Len(tail)]

\* U+200B to U+200F and U+202A to U+202E.
Invisible == 8203..8207 \cup 8234..8238

\* Control characters, surrogates, U+FDD0 to U+FDEF, whatever ends in 0FFE or
\* 0FFF, and the planes from 15 on are no text.
TextCode(code) ==
  \/ code \in {9, 10, 13}
  \/ /\ code >= 32 /\ code \notin 127..159
     /\ code \notin 55296..57343 /\ code \notin 64976..65007
     /\ (code % 65536) \div 2 # 2047
     /\ code < 983040 /\ code \notin Invisible

\* A sequence that uses more bytes than it needs; of four, one that encodes
\* what fits into twelve bits.
Overlong(seqlen, code) == (seqlen = 2 /\ code < 2048) \/ (seqlen = 3 /\ code < 4096)

ValidUTF8Text(s, behind) ==
  LET valid[i \in Nat] ==
        \/ i > Len(s)
        \/ /\ SeqLen(s[i]) >= 0 /\ Enough(s, i)
           /\ \E tail \in {Following(s, behind, i)} :
                /\ \A n \in 1..Len(tail) : Continuation(tail[n])
                /\ ~Overlong(Len(tail), CodeOf(s[i], tail)) /\ TextCode(CodeOf(s[i], tail))
           /\ valid[i + SeqLen(s[i]) + 1]
  IN valid[1]

\* Mutant: the check of the second byte behind 0xF4 is missing.
SecondByteBeyond(lead, c) ==
  CASE lead = 224 -> c \in 160..191
    [] lead = 237 -> c \in 128..159
    [] lead = 240 -> (c % 64) \div 16 # 0
    [] OTHER -> TRUE

\* The second byte keeps a sequence from being overlong, a surrogate, or
\* beyond U+10FFFF.
SecondByte(lead, c) ==
  CASE lead = 224 -> c \in 160..191
    [] lead = 237 -> c \in 128..159
    [] lead = 240 -> (c % 64) \div 16 # 0
    [] lead = 244 -> c \in 128..143
    [] OTHER -> TRUE

ValidUTF8(s, behind) ==
  LET valid[i \in Nat] ==
        \/ i > Len(s)
        \/ /\ s[i] <= 244 /\ SeqLen(s[i]) >= 0 /\ Enough(s, i)
           /\ \E tail \in {Following(s, behind, i)} :
                /\ \A n \in 1..Len(tail) : Continuation(tail[n])
                /\ tail # <<>> => SecondByte(s[i], tail[1])
           /\ valid[i + SeqLen(s[i]) + 1]
  IN valid[1]
-----------------------------------------------------------------------------
\* What they are compared with, the encodings of characters: a code in n
\* bytes, and the code that bytes would be the form of.
Lead == <<0, 192, 224, 240>>
Weight == <<1, 64, 4096, 262144>>
Form(n, code) ==
  [m \in 1..n |-> IF m = 1 THEN Lead[n] + (code \div Weight[n])
                  ELSE 128 + ((code \div Weight[n - m + 1]) % 64)]
CodeIn(s) ==
  LET code[m \in 1..Len(s)] ==
        IF m = 1 THEN s[1] - Lead[Len(s)] ELSE 64 * code[m - 1] + (s[m] - 128)
  IN code[Len(s)]
Beyond == <<128, 2048, 65536, 2097152>>
Shortest(n, code) == code < Beyond[n] /\ (n > 1 => code >= Beyond[n - 1])

Surrogate(code) == code \in 55296..57343
Noncharacter(code) == code % 65536 \in 65534..65535 \/ code \in 64976..65007

\* What the comments of validUTF8Text leave.
Claimed(n, code) ==
  /\ Shortest(n, code)
  /\ code \in {9, 10, 13} \/ (code >= 32 /\ code \notin 127..159)
  /\ ~Surrogate(code) /\ ~Noncharacter(code) /\ code < 15 * 65536
  /\ code \notin Invisible

\* What validUTF8Text does with a code is the comments, but for two tests: the
\* one for noncharacters asks for the ends of the first 4096 codes of a plane
\* instead of those of the plane, and the one for overlong sequences of four
\* bytes is for what fits into twelve bits instead of sixteen.  So this has to
\* be accepted,
Sure(n, code) == Claimed(n, code) /\ code % 65536 \notin 4094..4095

\* and no more than this.
Possible(n, code) ==
  \E m \in {n} \cup {k \in {3} : n = 4 /\ code >= 4096} :
    \/ Claimed(m, code)
    \/ Shortest(m, code) /\ code < 15 * 65536 /\ code % 65536 \in 65534..65535

Scalar(n, code) == Shortest(n, code) /\ ~Surrogate(code) /\ code < 17 * 65536

\* The n bytes from i on are a character of a kind.
Character(s, kind, i, n) ==
  /\ i + n <= Len(s) + 1
  /\ \E part \in {SubSeq(s, i, i + n - 1)} : \E code \in {CodeIn(part)} :
       /\ code >= 0 /\ part = Form(n, code)
       /\ CASE kind = "claimed" -> Claimed(n, code)
            [] kind = "sure" -> Sure(n, code)
            [] kind = "possible" -> Possible(n, code)
            [] kind = "scalar" -> Scalar(n, code)

\* s is made of characters of a kind.
Made(s, kind) ==
  LET made[i \in Nat] ==
        i > Len(s) \/ \E n \in 1..4 : Character(s, kind, i, n) /\ made[i + n]
  IN made[1]

\* So it is, or so it is with the byte behind it, if that may end a character.
MadeWith(s, behind, kind) ==
  Made(s, kind) \/ (Continuation(behind) /\ Made(Append(s, behind), kind))
=============================================================================
