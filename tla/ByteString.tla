----------------------------- MODULE ByteString -----------------------------
(***************************************************************************)
(* The comparisons of class BufferString (src/src/buffer.cpp) on sequences *)
(* of bytes.  Dictionary keys can be looked up in this order because it is *)
(* a strict total one (BencodeProofs); in Bencode it is Rank.              *)
(***************************************************************************)
EXTENDS Integers, Sequences

Byte == 0..255
Text == Seq(Byte)

\* memcmp of the first n bytes is 0; is below 0.
Same(a, b, n) == \A m \in 1..n : a[m] = b[m]
Below(a, b, n) == \E m \in 1..n : Same(a, b, m - 1) /\ a[m] < b[m]

Shorter(a, b) == IF Len(a) <= Len(b) THEN Len(a) ELSE Len(b)

\* operator <, <= and ==.
Less(a, b) ==
  \/ Below(a, b, Shorter(a, b))
  \/ Same(a, b, Shorter(a, b)) /\ Len(a) < Len(b)
LessOrEqual(a, b) ==
  \/ Below(a, b, Shorter(a, b))
  \/ Same(a, b, Shorter(a, b)) /\ Len(a) <= Len(b)
Equal(a, b) == Len(a) = Len(b) /\ Same(a, b, Len(a))
=============================================================================
