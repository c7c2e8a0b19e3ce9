------------------------------- MODULE Lexer -------------------------------
(***************************************************************************)
(* One call of read_string, read_utf8, read_number or skip_number (class   *)
(* TorrentBase, src/src/torrentbase.cpp): strings and numbers digit by     *)
(* digit, in integers of a fixed width.  Positions count from 1.           *)
(***************************************************************************)
EXTENDS Utf8Text

CONSTANTS
  MinInt, MaxInt,  \* the range of int64_t
  LengthMax        \* the greatest int32_t

ASSUME LexerAssumption ==
  /\ MinInt \in Int /\ MaxInt \in Nat /\ LengthMax \in Nat
  /\ MinInt + 9 <= 0 /\ 10 * LengthMax + 9 <= MaxInt

Byte == 0..255
Zero == 48
Nine == 57
Minus == 45
Colon == 58
CharE == 101
CharI == 105
IsDigit(c) == c \in Zero..Nine

VARIABLES
  fn,     \* the function called
  data,   \* the bytes of the buffer
  start,  \* m_pos when it is called
  at,     \* m_pos now
  pos,    \* the local variable
  num,    \* number, slen
  neg,    \* in the loop for negative numbers
  text,   \* the string read
  pc

lexvars == <<fn, data, start, at, pos, num, neg, text, pc>>

StringFn == {"read_string", "read_utf8"}
NumberFn == {"read_number", "skip_number"}

TypeOK ==
  /\ fn \in StringFn \cup NumberFn
  /\ data \in Seq(Byte)
  /\ start \in 1..(Len(data) + 1) /\ at \in 1..(Len(data) + 1)
  /\ pos \in 1..(Len(data) + 1)
  /\ num \in Int /\ neg \in BOOLEAN
  /\ text \in Seq(Byte)
  /\ pc \in {"head", "length", "text", "digits", "done", "failed"}

Init ==
  /\ fn \in StringFn \cup NumberFn
  /\ data \in Seq(Byte)
  /\ start \in 1..(Len(data) + 1) /\ at = start /\ pos = start
  /\ num = 0 /\ neg = FALSE /\ text = <<>>
  /\ pc = "head"

Fail ==
  /\ pc' = "failed"
  /\ UNCHANGED <<fn, data, start, at, pos, num, neg, text>>

\* A length begins with a digit, and with a zero only if that is all.
StringHead ==
  /\ pc = "head" /\ fn \in StringFn
  /\ IF pos < Len(data) /\ IsDigit(data[pos]) /\ (data[pos] = Zero => data[pos + 1] = Colon)
     THEN /\ num' = data[pos] - Zero
          /\ pos' = pos + 1 /\ pc' = "length"
          /\ UNCHANGED <<fn, data, start, at, neg, text>>
     ELSE Fail

\* Mutant: the end of the buffer is not asked for.
LengthDigitOpen ==
  /\ pc = "length" /\ data[pos] # Colon
  /\ IF IsDigit(data[pos]) /\ num <= LengthMax
     THEN /\ num' = 10 * num + (data[pos] - Zero)
          /\ pos' = pos + 1
          /\ UNCHANGED <<fn, data, start, at, neg, text, pc>>
     ELSE Fail

\* Mutant: the length is compared when the digit has been added.
LengthDigitLate ==
  /\ pc = "length" /\ data[pos] # Colon
  /\ IF IsDigit(data[pos]) /\ pos < Len(data)
     THEN /\ num' = 10 * num + (data[pos] - Zero)
          /\ pos' = pos + 1
          /\ UNCHANGED <<fn, data, start, at, neg, text, pc>>
     ELSE Fail

LengthDigit ==
  /\ pc = "length" /\ data[pos] # Colon
  /\ IF IsDigit(data[pos]) /\ pos < Len(data) /\ num <= LengthMax
     THEN /\ num' = 10 * num + (data[pos] - Zero)
          /\ pos' = pos + 1
          /\ UNCHANGED <<fn, data, start, at, neg, text, pc>>
     ELSE Fail

\* Mutant: the length is compared with that of the whole file only.
LengthEndWhole ==
  /\ pc = "length" /\ data[pos] = Colon
  /\ IF num <= Len(data)
     THEN /\ text' = SubSeq(data, pos + 1, IF pos + num <= Len(data) THEN pos + num ELSE Len(data))
          /\ pos' = pos + 1 + num /\ at' = pos + 1 + num
          /\ pc' = IF fn = "read_utf8" THEN "text" ELSE "done"
          /\ UNCHANGED <<fn, data, start, num, neg>>
     ELSE Fail

LengthEnd ==
  /\ pc = "length" /\ data[pos] = Colon
  /\ IF num <= Len(data) - pos
     THEN /\ text' = SubSeq(data, pos + 1, pos + num)
          /\ pos' = pos + 1 + num /\ at' = pos + 1 + num
          /\ pc' = IF fn = "read_utf8" THEN "text" ELSE "done"
          /\ UNCHANGED <<fn, data, start, num, neg>>
     ELSE Fail

\* What is read at a position: behind the file it is 0, as far as the page
\* goes it is mapped to.
ByteAt(p) == IF p <= Len(data) THEN data[p] ELSE 0

\* Mutant: the position is not put back.
CheckTextStays ==
  /\ pc = "text"
  /\ IF ValidUTF8Text(text, ByteAt(at))
     THEN pc' = "done" ELSE pc' = "failed"
  /\ UNCHANGED <<fn, data, start, at, pos, num, neg, text>>

\* The byte behind a string is the next one of the file.
CheckText ==
  /\ pc = "text"
  /\ IF ValidUTF8Text(text, ByteAt(at))
     THEN pc' = "done" /\ UNCHANGED at
     ELSE pc' = "failed" /\ at' = start
  /\ UNCHANGED <<fn, data, start, pos, num, neg, text>>

\* Mutant: a leading zero may be followed by anything.
PositiveHeadZeros ==
  /\ pos + 2 <= Len(data) /\ data[pos] = CharI
  /\ IsDigit(data[pos + 1])

\* "i" and the first digit, no leading zero, no "-0".
PositiveHead ==
  /\ pos + 2 <= Len(data) /\ data[pos] = CharI
  /\ IsDigit(data[pos + 1]) /\ (data[pos + 1] = Zero => data[pos + 2] = CharE)
NegativeHead ==
  /\ pos + 3 <= Len(data) /\ data[pos] = CharI
  /\ data[pos + 1] = Minus /\ IsDigit(data[pos + 2]) /\ data[pos + 2] # Zero

\* skip_number does the same without computing anything.
Computed(n) == IF fn = "read_number" THEN n ELSE num

NumberHead ==
  /\ pc = "head" /\ fn \in NumberFn
  /\ \/ /\ PositiveHead
        /\ num' = Computed(data[pos + 1] - Zero) /\ neg' = FALSE
        /\ pos' = pos + 2 /\ pc' = "digits"
        /\ UNCHANGED <<fn, data, start, at, text>>
     \/ /\ NegativeHead
        /\ num' = Computed(Zero - data[pos + 2]) /\ neg' = TRUE
        /\ pos' = pos + 3 /\ pc' = "digits"
        /\ UNCHANGED <<fn, data, start, at, text>>
     \/ ~PositiveHead /\ ~NegativeHead /\ Fail

\* Mutant: the digit is left out of the bound.
FitsRoughly(d) ==
  IF neg THEN -((-MinInt) \div 10) <= num ELSE num <= MaxInt \div 10

\* 10 * num -+ d is in the range of the integers.  C++ divides towards 0.
Fits(d) ==
  IF neg THEN -((-(MinInt + d)) \div 10) <= num ELSE num <= (MaxInt - d) \div 10

NumberDigit ==
  /\ pc = "digits" /\ data[pos] # CharE
  /\ IF pos < Len(data) /\ IsDigit(data[pos])
          /\ (fn = "read_number" => Fits(data[pos] - Zero))
     THEN /\ num' = Computed(IF neg THEN 10 * num - (data[pos] - Zero)
                             ELSE 10 * num + (data[pos] - Zero))
          /\ pos' = pos + 1
          /\ UNCHANGED <<fn, data, start, at, neg, text, pc>>
     ELSE Fail

NumberEnd ==
  /\ pc = "digits" /\ data[pos] = CharE
  /\ pos' = pos + 1 /\ at' = pos + 1 /\ pc' = "done"
  /\ UNCHANGED <<fn, data, start, num, neg, text>>

Next ==
  \/ StringHead \/ LengthDigit \/ LengthEnd \/ CheckText
  \/ NumberHead \/ NumberDigit \/ NumberEnd

Spec == Init /\ [][Next]_lexvars

-----------------------------------------------------------------------------
(***************************************************************************)
(* The loops read the byte at pos before they compare pos with the length: *)
(* it is always one of the buffer.                                         *)
(***************************************************************************)
ReadsInside == pc \in {"length", "digits"} => pos \in 1..Len(data)

(***************************************************************************)
(* No intermediate value leaves the range of int64_t, where the result     *)
(* would be undefined: neither a length of many digits, which is           *)
(* multiplied before it is compared with anything, nor a number at the     *)
(* ends of the range.                                                      *)
(***************************************************************************)
NoOverflow == num \in MinInt..MaxInt

(***************************************************************************)
(* Who fails has read nothing: the position is the one of the call, also   *)
(* when read_utf8 fails behind a read_string that has moved it.  Who       *)
(* succeeds is further on.                                                 *)
(***************************************************************************)
MovesOnSuccess ==
  /\ pc = "failed" => at = start
  /\ pc = "done" => at > start

-----------------------------------------------------------------------------
\* The decimal form of a number, and the number bytes would be the form of.
Digits(n) ==
  LET form[m \in Nat] ==
        IF m < 10 THEN <<Zero + m>> ELSE Append(form[m \div 10], Zero + (m % 10))
  IN form[n]
Decimal(n) == IF n < 0 THEN <<Minus>> \o Digits(-n) ELSE Digits(n)
ValueOf(body) ==
  LET value[m \in 0..Len(body)] ==
        IF m = 0 THEN 0 ELSE 10 * value[m - 1] + (body[m] - Zero)
  IN value[Len(body)]
NumberOf(body) ==
  IF Len(body) > 1 /\ body[1] = Minus THEN -ValueOf(Tail(body)) ELSE ValueOf(body)

\* The encoding of a string.
Encoded(part) == Decimal(Len(part)) \o <<Colon>> \o part

\* What the data hold from the position of the call on; the number between
\* "i" and the byte at m.
Rest == SubSeq(data, start, Len(data))
Body(m) == SubSeq(Rest, 2, m - 1)

\* The lengths of what the data may begin with: the decimal form of a number
\* out of range, or a string after the decimal form of its length.
NumberEnds(range) ==
  {m \in 3..Len(Rest) : /\ Rest[1] = CharI /\ Rest[m] = CharE
                        /\ Body(m) = Decimal(NumberOf(Body(m)))
                        /\ NumberOf(Body(m)) \in range}
StringEnds ==
  {m \in 2..Len(Rest) : \E n \in 0..(m - 2) :
     /\ n <= 10 * LengthMax + 9
     /\ SubSeq(Rest, 1, m) = Encoded(SubSeq(Rest, m - n + 1, m))}
Ends ==
  CASE fn = "read_number" -> NumberEnds(MinInt..MaxInt)
    [] fn = "skip_number" -> NumberEnds(Int)
    [] OTHER -> StringEnds

(***************************************************************************)
(* read_number accepts exactly the decimal form of a number in range and   *)
(* returns that number, skip_number that of any number; read_string        *)
(* accepts exactly a string with the decimal form of its length in front,  *)
(* if all of it is there, and returns it (the greatest length is ten times *)
(* what a file can have).  All stop right behind.                          *)
(***************************************************************************)
ReadsExactly ==
  fn # "read_utf8" =>
    /\ pc = "failed" => Ends = {}
    /\ pc = "done" => /\ Ends = {at - start}
                      /\ fn = "read_number" => num = NumberOf(Body(at - start))
                      /\ fn = "read_string" => SubSeq(Rest, 1, at - start) = Encoded(text)

\* The lengths of the strings the data may begin with that are text.
TextEnds ==
  {m \in StringEnds : \E n \in 0..(m - 2) :
     /\ SubSeq(Rest, 1, m) = Encoded(SubSeq(Rest, m - n + 1, m))
     /\ Made(SubSeq(Rest, m - n + 1, m), "sure")}

(***************************************************************************)
(* read_utf8 accepts every string the comments of validUTF8Text call text  *)
(* and no other, up to the codes of its two wrong tests (Sure, Possible;   *)
(* that these are wrong is what AcceptsOnlyText shows in MCBytes).         *)
(* A string cut off inside a character is accepted only if the byte behind *)
(* it goes on with that character: no byte behind a string of a valid      *)
(* torrent does.                                                           *)
(***************************************************************************)
AcceptsText ==
  fn = "read_utf8" =>
    /\ pc = "failed" => TextEnds = {}
    /\ pc = "done" => /\ StringEnds = {at - start}
                      /\ SubSeq(Rest, 1, at - start) = Encoded(text)
                      /\ MadeWith(text, ByteAt(at), "possible")

(***************************************************************************)
(* validUTF8 would accept exactly the strings that are encodings of        *)
(* Unicode scalar values, and those the byte behind makes one.             *)
(***************************************************************************)
AcceptsScalars ==
  pc = "text" => (ValidUTF8(text, ByteAt(at)) <=> MadeWith(text, ByteAt(at), "scalar"))
=============================================================================
