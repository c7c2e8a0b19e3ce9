--------------------------- MODULE BencodeProofs ---------------------------
(***************************************************************************)
(* Proofs about the parser, for any buffer.                                *)
(*                                                                         *)
(* 1. The order of strings (ByteString) is a strict total order.           *)
(* 2. Skip exists.  It recurses to where an inner call has stopped, which  *)
(*    is further on in the buffer, but one knows that of Skip itself only. *)
(*    So a Forward function, which is told to look further on, is shown to *)
(*    exist first, and then to be the one that Skip defines.               *)
(* 3. skip_value stops behind the value the grammar finds, if there is one *)
(*    (SkipSound, SkipComplete, SkipsExactly).                             *)
(* 4. The readers that know what they look for stop where skip_value does: *)
(*    try_next_dict_entry, parse_info, parse_announce_list.                *)
(* 5. A part of a buffer is read alone as it is read within the buffer.    *)
(***************************************************************************)
EXTENDS Parser, ByteString, Recursion

-----------------------------------------------------------------------------
(***************************************************************************)
(* operator == is equality: two strings that compare equal are the same.   *)
(***************************************************************************)
THEOREM EqualIsEquality ==
  ASSUME NEW a \in Text, NEW b \in Text
  PROVE  Equal(a, b) <=> a = b
BY DEF Equal, Same, Text

(***************************************************************************)
(* The length and the bytes of a string are integers.                      *)
(***************************************************************************)
LEMMA Bytes ==
  ASSUME NEW a \in Text
  PROVE  Len(a) \in Nat /\ \A m \in 1..Len(a) : a[m] \in Int
<1>1. Len(a) \in Nat BY DEF Text
<1>2. \A m \in 1..Len(a) : a[m] \in Byte BY DEF Text
<1>3. Byte \subseteq Int BY DEF Byte
<1> QED BY <1>1, <1>2, <1>3

(***************************************************************************)
(* The length memcmp compares is the smaller one.                          *)
(***************************************************************************)
LEMMA ShorterIs ==
  ASSUME NEW a \in Text, NEW b \in Text
  PROVE  /\ Shorter(a, b) \in Nat
         /\ \A m \in Int : m <= Shorter(a, b) <=> m <= Len(a) /\ m <= Len(b)
BY Bytes DEF Shorter

(***************************************************************************)
(* No string is below itself.                                              *)
(***************************************************************************)
THEOREM Irreflexive == ASSUME NEW a \in Text PROVE ~Less(a, a)
<1>1. ~Below(a, a, Shorter(a, a))
  BY Bytes, ShorterIs DEF Below
<1> QED BY <1>1, Bytes DEF Less

(***************************************************************************)
(* The order is transitive: the keys of a dictionary that ascend one by    *)
(* one ascend throughout.                                                  *)
(***************************************************************************)
THEOREM Transitive ==
  ASSUME NEW a \in Text, NEW b \in Text, NEW c \in Text, Less(a, b), Less(b, c)
  PROVE  Less(a, c)
<1> USE Bytes, ShorterIs
<1> DEFINE First(x, y, m) == /\ m \in 1..Shorter(x, y)
                             /\ \A k \in 1..(m - 1) : x[k] = y[k]
                             /\ x[m] < y[m]
           Prefix(x, y) == /\ Len(x) < Len(y)
                           /\ \A k \in 1..Len(x) : x[k] = y[k]
<1>1. \A x, y \in Text : Less(x, y) <=> (\E m \in Nat : First(x, y, m)) \/ Prefix(x, y)
  BY DEF Less, Below, Same, Shorter
<1>2. ASSUME NEW m \in Nat, NEW n \in Nat, First(a, b, m), First(b, c, n)
      PROVE  \E k \in Nat : First(a, c, k)
  <2>1. CASE m < n
    <3>1. m \in 1..Shorter(a, c) /\ b[m] = c[m] BY <1>2, <2>1
    <3>2. \A k \in 1..(m - 1) : a[k] = c[k] BY <1>2, <2>1
    <3> QED BY <1>2, <3>1, <3>2
  <2>2. CASE m = n
    <3>1. m \in 1..Shorter(a, c) BY <1>2, <2>2
    <3>2. a[m] \in Int /\ b[m] \in Int /\ c[m] \in Int BY <1>2, <2>2, <3>1
    <3>3. a[m] < b[m] BY <1>2
    <3>4. b[m] < c[m] BY <1>2, <2>2
    <3>5. a[m] < c[m] BY ONLY <3>2, <3>3, <3>4
    <3>6. \A k \in 1..(m - 1) : a[k] = c[k] BY <1>2, <2>2
    <3> QED BY <3>1, <3>5, <3>6
  <2>3. CASE n < m
    <3>1. n \in 1..Shorter(a, c) /\ a[n] = b[n] BY <1>2, <2>3
    <3>2. \A k \in 1..(n - 1) : a[k] = c[k] BY <1>2, <2>3
    <3> QED BY <1>2, <3>1, <3>2
  <2> QED BY <2>1, <2>2, <2>3
<1>3. ASSUME NEW m \in Nat, First(a, b, m), Prefix(b, c)
      PROVE  First(a, c, m)
  <2>1. m \in 1..Shorter(a, c) /\ b[m] = c[m] BY <1>3
  <2>2. \A k \in 1..(m - 1) : a[k] = c[k] BY <1>3
  <2> QED BY <1>3, <2>1, <2>2
<1>4. ASSUME NEW n \in Nat, Prefix(a, b), First(b, c, n)
      PROVE  First(a, c, n) \/ Prefix(a, c)
  <2>1. CASE n <= Len(a)
    <3>1. n \in 1..Shorter(a, c) /\ a[n] = b[n] BY <1>4, <2>1
    <3>2. \A k \in 1..(n - 1) : a[k] = c[k] BY <1>4, <2>1
    <3> QED BY <1>4, <3>1, <3>2
  <2>2. CASE n > Len(a)
    BY <1>4, <2>2
  <2> QED BY <2>1, <2>2
<1>5. ASSUME Prefix(a, b), Prefix(b, c)
      PROVE  Prefix(a, c)
  BY <1>5
<1> HIDE DEF First, Prefix
<1> QED BY <1>1, <1>2, <1>3, <1>4, <1>5

(***************************************************************************)
(* Of two different strings one is below the other.                        *)
(***************************************************************************)
THEOREM Total ==
  ASSUME NEW a \in Text, NEW b \in Text
  PROVE  Less(a, b) \/ Less(b, a) \/ a = b
<1>1. CASE \A m \in 1..Shorter(a, b) : a[m] = b[m]
  <2>1. Len(a) < Len(b) \/ Len(b) < Len(a) \/ Len(a) = Len(b) BY Bytes
  <2>2. Shorter(b, a) = Shorter(a, b) BY Bytes DEF Shorter
  <2>3. Same(a, b, Shorter(a, b)) /\ Same(b, a, Shorter(b, a)) BY <1>1, <2>2 DEF Same
  <2>4. CASE Len(a) = Len(b)
    <3>1. Same(a, b, Len(a)) BY <1>1, <2>4, Bytes DEF Same, Shorter
    <3> QED BY <3>1, <2>4, EqualIsEquality DEF Equal
  <2> QED BY <2>1, <2>3, <2>4 DEF Less
<1>2. CASE \E m \in 1..Shorter(a, b) : a[m] # b[m]
  <2> DEFINE Differ == {m \in 1..Shorter(a, b) : a[m] # b[m]}
  <2>1. Differ \subseteq Nat /\ Differ # {} BY <1>2, ShorterIs
  <2>2. PICK m \in Differ : \A k \in Differ : <<k, m>> \notin OpToRel(<, Nat)
    BY <2>1, NatLessThanWellFounded, WFMin
  <2>3. \A k \in Differ : ~(k < m) BY <2>1, <2>2 DEF OpToRel
  <2>4. m \in 1..Shorter(a, b) /\ a[m] # b[m] BY <2>2
  <2>5. \A k \in 1..(m - 1) : a[k] = b[k] BY <2>3, <2>4, ShorterIs
  <2>6. Shorter(b, a) = Shorter(a, b) BY Bytes DEF Shorter
  <2>7. a[m] \in Int /\ b[m] \in Int BY <2>4, Bytes, ShorterIs
  <2>8. a[m] < b[m] \/ b[m] < a[m] BY <2>4, <2>7
  <2> HIDE DEF Differ
  <2>9. Below(a, b, Shorter(a, b)) \/ Below(b, a, Shorter(b, a))
    BY <2>4, <2>5, <2>6, <2>8 DEF Below, Same
  <2> QED BY <2>9 DEF Less
<1> QED BY <1>1, <1>2

(***************************************************************************)
(* operator <= is < or ==, though it is written on its own.                *)
(***************************************************************************)
THEOREM OrEqual ==
  ASSUME NEW a \in Text, NEW b \in Text
  PROVE  LessOrEqual(a, b) <=> Less(a, b) \/ Equal(a, b)
<1>1. Len(a) <= Len(b) <=> Len(a) < Len(b) \/ Len(a) = Len(b) BY Bytes
<1>2. ASSUME Len(a) = Len(b)
      PROVE  Same(a, b, Shorter(a, b)) <=> Same(a, b, Len(a))
  BY <1>2 DEF Shorter
<1> QED BY <1>1, <1>2 DEF LessOrEqual, Less, Equal

-----------------------------------------------------------------------------
(***************************************************************************)
(* The recursive function of skip_value exists.  Each call is for a        *)
(* position further on, or for the value of an item at the same one; that  *)
(* the position behind a value is further on follows only afterwards, so   *)
(* that a function is defined first that stops where it is not.            *)
(***************************************************************************)
SkipBody(b, c, f) ==
  IF c.what = "value" THEN
    CASE At(b, c.p, "s") \/ At(b, c.p, "i") -> c.p + 1
      [] At(b, c.p, "l") -> f[ItemsAt(c.p + 1)]
      [] At(b, c.p, "d") -> f[EntriesAt(c.p + 1, 0)]
      [] OTHER -> Error
  ELSE IF At(b, c.p, "e") THEN c.p + 1
  ELSE IF c.what = "items" THEN
    LET q == f[ValueAt(c.p)] IN IF q = Error THEN Error ELSE f[ItemsAt(q)]
  ELSE IF ~NextKey(b, c.p, c.prev) THEN Error
  ELSE LET q == f[ValueAt(c.p + 1)]
       IN IF q = Error THEN Error ELSE f[EntriesAt(q, Rank[b[c.p].v])]

IsSkip(f, b) == f = [c \in Calls |-> SkipBody(b, c, f)]

ForwardBody(b, c, f) ==
  IF c.what = "value" THEN
    CASE At(b, c.p, "s") \/ At(b, c.p, "i") -> c.p + 1
      [] At(b, c.p, "l") -> f[ItemsAt(c.p + 1)]
      [] At(b, c.p, "d") -> f[EntriesAt(c.p + 1, 0)]
      [] OTHER -> Error
  ELSE IF At(b, c.p, "e") THEN c.p + 1
  ELSE IF c.what = "items" THEN
    LET q == f[ValueAt(c.p)] IN IF q \notin (c.p + 1)..(Len(b) + 1) THEN Error ELSE f[ItemsAt(q)]
  ELSE IF ~NextKey(b, c.p, c.prev) THEN Error
  ELSE LET q == f[ValueAt(c.p + 1)]
       IN IF q \notin (c.p + 1)..(Len(b) + 1) THEN Error ELSE f[EntriesAt(q, Rank[b[c.p].v])]

\* What is left of the buffer, and the measure of a call.
Left(b, p) == IF p <= Len(b) THEN 2 * (Len(b) - p + 1) ELSE 0
Measure(b, c) == Left(b, c.p) + (IF c.what = "items" THEN 1 ELSE 0)

\* The positions behind something read from p on.
EndsBehind(b, p) == {Error} \cup (p + 1)..(Len(b) + 1)

(***************************************************************************)
(* Tokens: the strings among them have a rank, and a key has a rank        *)
(* greater than the one of the key before.                                 *)
(***************************************************************************)
LEMMA TokenIs ==
  ASSUME NEW b \in Seq(Token), NEW p
  PROVE  /\ Len(b) \in Nat
         /\ \A t : At(b, p, t) => p \in 1..Len(b)
         /\ At(b, p, "s") => b[p].v \in Str /\ Rank[b[p].v] \in Nat
         /\ At(b, p, "s") => ~At(b, p, "i") /\ ~At(b, p, "l") /\ ~At(b, p, "d") /\ ~At(b, p, "e")
         /\ \A prev : NextKey(b, p, prev) <=>
              At(b, p, "s") /\ b[p].v \in Utf8 /\ Rank[b[p].v] > prev
<1>1. ASSUME NEW x \in Token, x.t = "s" PROVE x.v \in Str
  <2>1. x \notin [t : {"i"}, v : Number] BY <1>1
  <2>2. D.t = "d" /\ L.t = "l" /\ E.t = "e" /\ Junk.t = "?" BY DEF D, L, E, Junk
  <2>3. x \in [t : {"s"}, v : Str] BY <1>1, <2>1, <2>2 DEF Token
  <2> QED BY <2>3
<1>2. At(b, p, "s") => b[p].v \in Str BY <1>1 DEF At
<1>3. At(b, p, "s") => p + 1 # 0 BY DEF At
<1> QED BY <1>2, <1>3, BencodeAssumption DEF At, NextKey, ReadUtf8, Error

(***************************************************************************)
(* The calls, and how each of them comes closer to the end of the buffer.  *)
(***************************************************************************)
LEMMA CallsAre ==
  ASSUME NEW p \in Nat, NEW prev \in Nat
  PROVE  /\ ValueAt(p) \in Calls /\ ItemsAt(p) \in Calls /\ EntriesAt(p, prev) \in Calls
         /\ ValueAt(p).what = "value" /\ ValueAt(p).p = p
         /\ ItemsAt(p).what = "items" /\ ItemsAt(p).p = p
         /\ EntriesAt(p, prev).what = "entries" /\ EntriesAt(p, prev).p = p
         /\ EntriesAt(p, prev).prev = prev
BY DEF Calls, ValueAt, ItemsAt, EntriesAt

\* What is left of the buffer, and how it shrinks as one reads on.
LEMMA MeasureIs ==
  ASSUME NEW b \in Seq(Token), NEW p \in Nat, NEW prev \in Nat
  PROVE  /\ Left(b, p) \in Nat
         /\ Measure(b, ValueAt(p)) = Left(b, p)
         /\ Measure(b, ItemsAt(p)) = Left(b, p) + 1
         /\ Measure(b, EntriesAt(p, prev)) = Left(b, p)
         /\ \A q \in Nat : q > p /\ p <= Len(b) =>
              Left(b, q) + 1 < Left(b, p)
<1>1. Len(b) \in Nat OBVIOUS
<1>2. Left(b, p) \in Nat BY <1>1 DEF Left
<1>3. ASSUME NEW q \in Nat, q > p, p <= Len(b)
      PROVE  Left(b, q) + 1 < Left(b, p)
  BY <1>1, <1>3 DEF Left
<1> QED BY <1>2, <1>3, CallsAre DEF Measure

(***************************************************************************)
(* The calls a call makes have a smaller measure, if those that read on    *)
(* behind something do so further on.                                      *)
(***************************************************************************)
LEMMA CallsSmaller ==
  ASSUME NEW b \in Seq(Token), NEW c \in Calls, NEW p, p = c.p
  PROVE  /\ p \in Nat /\ c.prev \in Nat /\ c.what \in {"value", "items", "entries"}
         /\ c.what = "value" /\ p <= Len(b) => /\ Measure(b, ItemsAt(p + 1)) < Measure(b, c)
                                               /\ Measure(b, EntriesAt(p + 1, 0)) < Measure(b, c)
         /\ c.what = "items" => Measure(b, ValueAt(p)) < Measure(b, c)
         /\ c.what = "items" => \A q \in (p + 1)..(Len(b) + 1) : Measure(b, ItemsAt(q)) < Measure(b, c)
         /\ c.what = "entries" /\ p <= Len(b) => Measure(b, ValueAt(p + 1)) < Measure(b, c)
         /\ c.what = "entries" =>
              \A q \in (p + 1)..(Len(b) + 1), r \in Nat : Measure(b, EntriesAt(q, r)) < Measure(b, c)
<1>1. /\ p \in Nat /\ c.prev \in Nat /\ c.what \in {"value", "items", "entries"} /\ Len(b) \in Nat
      /\ Measure(b, c) = Left(b, p) + (IF c.what = "items" THEN 1 ELSE 0)
  BY DEF Calls, Measure
<1>2. \A n \in Nat : /\ Measure(b, ValueAt(n)) = Left(b, n)
                     /\ Measure(b, ItemsAt(n)) = Left(b, n) + 1
                     /\ Left(b, n) \in Nat
  BY MeasureIs
<1>3. \A n, r \in Nat : Measure(b, EntriesAt(n, r)) = Left(b, n) BY MeasureIs
<1>4. \A q \in Nat : q > p /\ p <= Len(b) => Left(b, q) + 1 < Left(b, p) BY <1>1, MeasureIs
<1>5. ASSUME NEW q \in (p + 1)..(Len(b) + 1)
      PROVE  /\ q \in Nat /\ Left(b, q) \in Nat /\ Left(b, p) \in Nat /\ Left(b, q) + 1 < Left(b, p)
             /\ Measure(b, ItemsAt(q)) < Left(b, p) /\ Measure(b, ValueAt(q)) < Left(b, p)
             /\ \A r \in Nat : Measure(b, EntriesAt(q, r)) < Left(b, p)
  <2>1. q \in Nat /\ q > p /\ p <= Len(b) BY <1>1
  <2>2. Left(b, q) \in Nat /\ Left(b, p) \in Nat /\ Left(b, q) + 1 < Left(b, p)
    BY <1>1, <1>2, <1>4, <2>1
  <2>3. Measure(b, ItemsAt(q)) = Left(b, q) + 1 /\ Measure(b, ValueAt(q)) = Left(b, q)
    BY <1>2, <2>1
  <2>4. \A r \in Nat : Measure(b, EntriesAt(q, r)) = Left(b, q) BY <1>3, <2>1
  <2> QED BY <2>1, <2>2, <2>3, <2>4
<1>6. p <= Len(b) => p + 1 \in (p + 1)..(Len(b) + 1) BY <1>1
<1>7. Left(b, p) \in Nat /\ Measure(b, ValueAt(p)) = Left(b, p) BY <1>1, <1>2
<1>8. CASE c.what = "items"
  <2>1. Measure(b, c) = Left(b, p) + 1 BY <1>1, <1>8
  <2>2. ASSUME NEW q \in (p + 1)..(Len(b) + 1) PROVE Measure(b, ItemsAt(q)) < Measure(b, c)
    <3>1. Measure(b, ItemsAt(q)) = Left(b, q) + 1 /\ Left(b, q) \in Nat /\ Left(b, q) + 1 < Left(b, p)
      BY <1>2, <1>5
    <3> QED BY <1>7, <2>1, <3>1
  <2> QED BY <1>1, <1>7, <1>8, <2>1, <2>2
<1>9. CASE c.what # "items"
  <2>1. Measure(b, c) = Left(b, p) BY <1>1, <1>7, <1>9
  <2> QED BY <1>1, <1>5, <1>6, <1>9, <2>1
<1> QED BY <1>8, <1>9

\* What holds for a call if it holds for the smaller ones, holds for all.
LEMMA CallInduction ==
  ASSUME NEW b \in Seq(Token), NEW T \in SUBSET Calls,
         \A c \in Calls : (\A d \in Calls : Measure(b, d) < Measure(b, c) => d \in T) => c \in T
  PROVE  T = Calls
<1>1. PICK m : m = [c \in Calls |-> Measure(b, c)] OBVIOUS
<1>2. m \in [Calls -> Nat]
  <2>1. \A n \in Nat : Left(b, n) \in Nat BY MeasureIs
  <2>2. ASSUME NEW c \in Calls PROVE Measure(b, c) \in Nat
    <3>1. c.p \in Nat BY DEF Calls
    <3>2. Left(b, c.p) \in Nat BY <2>1, <3>1
    <3> QED BY <3>2 DEF Measure
  <2> QED BY <1>1, <2>2
<1>3. \A c \in Calls : (\A d \in Calls : m[d] < m[c] => d \in T) => c \in T
  <2>1. \A c \in Calls : m[c] = Measure(b, c) BY <1>1
  <2> QED BY <2>1
<1>4. T \in SUBSET Calls OBVIOUS
<1> QED BY ONLY <1>2, <1>3, <1>4, MeasureInduction

\* The body needs the function only for smaller calls.
LEMMA ForwardLooksBack ==
  ASSUME NEW b \in Seq(Token), NEW c \in Calls, NEW f \in [Calls -> Nat]
  PROVE  /\ ForwardBody(b, c, f) \in Nat
         /\ \A g \in [Calls -> Nat] :
              (\A d \in Calls : Measure(b, d) < Measure(b, c) => f[d] = g[d]) =>
                ForwardBody(b, c, f) = ForwardBody(b, c, g)
<1>1. PICK p, prev : p = c.p /\ prev = c.prev OBVIOUS
<1>2. p \in Nat /\ prev \in Nat /\ c.what \in {"value", "items", "entries"} /\ Len(b) \in Nat
  BY <1>1 DEF Calls
<1>3. \A n \in Nat : ValueAt(n) \in Calls /\ ItemsAt(n) \in Calls BY CallsAre
<1>4. \A n, r \in Nat : EntriesAt(n, r) \in Calls BY CallsAre
<1>5. \A t : At(b, p, t) => p <= Len(b) BY <1>2, TokenIs
<1>6. \A r : NextKey(b, p, r) => p <= Len(b) /\ Rank[b[p].v] \in Nat
  BY <1>2, TokenIs
<1>7. p + 1 \in Nat /\ \A q \in (p + 1)..(Len(b) + 1) : q \in Nat BY <1>2
<1>8. ForwardBody(b, c, f) \in Nat
  <2>1. \A n \in Nat : f[ValueAt(n)] \in Nat /\ f[ItemsAt(n)] \in Nat BY <1>3
  <2>2. \A n, r \in Nat : f[EntriesAt(n, r)] \in Nat BY <1>4
  <2>3. Error \in Nat BY DEF Error
  <2>4. CASE c.what = "value" BY <1>1, <1>7, <2>1, <2>2, <2>3, <2>4 DEF ForwardBody
  <2>5. CASE c.what = "items" BY <1>1, <1>7, <2>1, <2>3, <2>5 DEF ForwardBody
  <2>6. CASE c.what = "entries" BY <1>1, <1>6, <1>7, <2>2, <2>3, <2>6 DEF ForwardBody
  <2> QED BY <1>2, <2>4, <2>5, <2>6
<1>9. ASSUME NEW g \in [Calls -> Nat],
             \A d \in Calls : Measure(b, d) < Measure(b, c) => f[d] = g[d]
      PROVE  ForwardBody(b, c, f) = ForwardBody(b, c, g)
  <2>1. CASE c.what = "value"
    <3>1. p <= Len(b) =>
            f[ItemsAt(p + 1)] = g[ItemsAt(p + 1)] /\ f[EntriesAt(p + 1, 0)] = g[EntriesAt(p + 1, 0)]
      BY <1>1, <1>3, <1>4, <1>7, <1>9, <2>1, CallsSmaller
    <3> QED BY <1>1, <1>5, <2>1, <3>1 DEF ForwardBody
  <2>2. CASE c.what = "items"
    <3>1. f[ValueAt(p)] = g[ValueAt(p)] BY <1>1, <1>2, <1>3, <1>9, <2>2, CallsSmaller
    <3>2. \A q \in (p + 1)..(Len(b) + 1) : f[ItemsAt(q)] = g[ItemsAt(q)]
      BY <1>1, <1>3, <1>7, <1>9, <2>2, CallsSmaller
    <3> QED BY <1>1, <2>2, <3>1, <3>2 DEF ForwardBody
  <2>3. CASE c.what = "entries"
    <3>1. p <= Len(b) => f[ValueAt(p + 1)] = g[ValueAt(p + 1)]
      BY <1>1, <1>3, <1>7, <1>9, <2>3, CallsSmaller
    <3>2. \A q \in (p + 1)..(Len(b) + 1), r \in Nat : f[EntriesAt(q, r)] = g[EntriesAt(q, r)]
      BY <1>1, <1>4, <1>7, <1>9, <2>3, CallsSmaller
    <3> QED BY <1>1, <1>6, <2>3, <3>1, <3>2 DEF ForwardBody
  <2> QED BY <1>2, <2>1, <2>2, <2>3
<1> QED BY <1>8, <1>9

(***************************************************************************)
(* If what the calls of a call read ends further on, it makes no           *)
(* difference that this is asked for; and so everything read ends further  *)
(* on.                                                                     *)
(***************************************************************************)
LEMMA SameBody ==
  ASSUME NEW b \in Seq(Token), NEW c \in Calls, NEW f,
         c.what = "items" => f[ValueAt(c.p)] \in EndsBehind(b, c.p),
         c.what = "entries" /\ c.p <= Len(b) => f[ValueAt(c.p + 1)] \in EndsBehind(b, c.p + 1)
  PROVE  ForwardBody(b, c, f) = SkipBody(b, c, f)
<1>1. PICK p : p = c.p OBVIOUS
<1>2. p \in Nat /\ c.what \in {"value", "items", "entries"} /\ Len(b) \in Nat
  BY <1>1 DEF Calls
<1>3. c.what = "items" => (f[ValueAt(p)] \notin (p + 1)..(Len(b) + 1) <=> f[ValueAt(p)] = Error)
  BY <1>1, <1>2 DEF EndsBehind, Error
<1>4. c.what = "entries" /\ p <= Len(b) =>
        (f[ValueAt(p + 1)] \notin (p + 1)..(Len(b) + 1) <=> f[ValueAt(p + 1)] = Error)
  BY <1>1, <1>2 DEF EndsBehind, Error
<1>5. \A r : NextKey(b, p, r) => p <= Len(b) BY <1>2, TokenIs
<1> QED BY <1>1, <1>2, <1>3, <1>4, <1>5 DEF ForwardBody, SkipBody

\* A solution of either recursion stops behind where it starts.
LEMMA ForwardEnds ==
  ASSUME NEW b \in Seq(Token), NEW f,
         \A c \in Calls : f[c] \in {ForwardBody(b, c, f), SkipBody(b, c, f)}
  PROVE  \A c \in Calls : f[c] \in EndsBehind(b, c.p)
<1> DEFINE T == {c \in Calls : f[c] \in EndsBehind(b, c.p)}
<1>1. ASSUME NEW c \in Calls, \A d \in Calls : Measure(b, d) < Measure(b, c) => d \in T
      PROVE  c \in T
  <2>1. PICK p, prev : p = c.p /\ prev = c.prev OBVIOUS
  <2>2. p \in Nat /\ prev \in Nat /\ c.what \in {"value", "items", "entries"} /\ Len(b) \in Nat
    BY <2>1 DEF Calls
  <2>3. p + 1 \in Nat /\ \A q \in (p + 1)..(Len(b) + 1) : q \in Nat BY <2>2
  <2>4. \A n \in Nat : /\ Measure(b, ItemsAt(n)) < Measure(b, c) => f[ItemsAt(n)] \in EndsBehind(b, n)
                       /\ ItemsAt(n) \in Calls
    BY <1>1, CallsAre
  <2>5. \A n, r \in Nat : Measure(b, EntriesAt(n, r)) < Measure(b, c) =>
                          f[EntriesAt(n, r)] \in EndsBehind(b, n)
    <3> SUFFICES ASSUME NEW n \in Nat, NEW r \in Nat, Measure(b, EntriesAt(n, r)) < Measure(b, c)
                 PROVE  f[EntriesAt(n, r)] \in EndsBehind(b, n)
      OBVIOUS
    <3>1. EntriesAt(n, r) \in Calls /\ EntriesAt(n, r).p = n BY CallsAre
    <3> QED BY <1>1, <3>1
  <2>6. \A t : At(b, p, t) => p <= Len(b) /\ p + 1 \in EndsBehind(b, p)
    BY <2>2, TokenIs DEF EndsBehind
  <2>7. \A r : NextKey(b, p, r) => p <= Len(b) /\ Rank[b[p].v] \in Nat
    BY <2>2, TokenIs
  <2>8. Error \in EndsBehind(b, p) BY DEF EndsBehind
  <2>9. \A q \in Nat : q > p => EndsBehind(b, q) \subseteq EndsBehind(b, p)
    BY <2>2 DEF EndsBehind
  <2>10. f[c] = ForwardBody(b, c, f)
    <3>1. \A n \in Nat : Measure(b, ValueAt(n)) < Measure(b, c) => f[ValueAt(n)] \in EndsBehind(b, n)
      BY <1>1, CallsAre
    <3>2. c.what = "items" => f[ValueAt(c.p)] \in EndsBehind(b, c.p)
      BY <2>1, <2>2, <3>1, CallsSmaller
    <3>3. c.what = "entries" /\ c.p <= Len(b) => f[ValueAt(c.p + 1)] \in EndsBehind(b, c.p + 1)
      BY <2>1, <2>3, <3>1, CallsSmaller
    <3> QED BY <3>2, <3>3, SameBody
  <2> HIDE DEF T
  <2>11. CASE c.what = "value"
    <3>1. p <= Len(b) => /\ f[ItemsAt(p + 1)] \in EndsBehind(b, p + 1)
                         /\ f[EntriesAt(p + 1, 0)] \in EndsBehind(b, p + 1)
      BY <2>1, <2>3, <2>5, <2>4, <2>11, CallsSmaller
    <3>2. p + 1 > p /\ EndsBehind(b, p + 1) \subseteq EndsBehind(b, p) BY <2>2, <2>9
    <3> QED BY <2>1, <2>6, <2>8, <2>10, <2>11, <3>1, <3>2 DEF T, ForwardBody
  <2>12. CASE c.what = "items"
    <3>1. \A q \in (p + 1)..(Len(b) + 1) : f[ItemsAt(q)] \in EndsBehind(b, q)
      BY <2>1, <2>3, <2>4, <2>12, CallsSmaller
    <3>2. \A q \in (p + 1)..(Len(b) + 1) : EndsBehind(b, q) \subseteq EndsBehind(b, p)
      BY <2>2, <2>9
    <3> QED BY <2>1, <2>6, <2>8, <2>10, <2>12, <3>1, <3>2 DEF T, ForwardBody
  <2>13. CASE c.what = "entries"
    <3>1. \A q \in (p + 1)..(Len(b) + 1), r \in Nat : f[EntriesAt(q, r)] \in EndsBehind(b, q)
      BY <2>1, <2>3, <2>5, <2>13, CallsSmaller
    <3>2. \A q \in (p + 1)..(Len(b) + 1) : EndsBehind(b, q) \subseteq EndsBehind(b, p)
      BY <2>2, <2>9
    <3> QED BY <2>1, <2>6, <2>7, <2>8, <2>10, <2>13, <3>1, <3>2 DEF T, ForwardBody
  <2> QED BY <2>2, <2>11, <2>12, <2>13
<1>2. T \in SUBSET Calls OBVIOUS
<1>3. T = Calls
  <2> HIDE DEF T
  <2> QED BY <1>1, <1>2, CallInduction
<1> QED BY <1>3

(***************************************************************************)
(* The recursive function of Bencode exists, so that it satisfies its      *)
(* equations.                                                              *)
(***************************************************************************)
LEMMA SkipExists ==
  ASSUME NEW b \in Seq(Token)
  PROVE  \E f : IsSkip(f, b)
<1> DEFINE m == [c \in Calls |-> Measure(b, c)]
           B == [z \in Calls \X [Calls -> Nat] |-> ForwardBody(b, z[1], z[2])]
<1>1. m \in [Calls -> Nat]
  <2>1. \A n \in Nat : Left(b, n) \in Nat BY MeasureIs
  <2>2. ASSUME NEW c \in Calls PROVE Measure(b, c) \in Nat
    <3>1. c.p \in Nat BY DEF Calls
    <3>2. Left(b, c.p) \in Nat BY <2>1, <3>1
    <3> QED BY <3>2 DEF Measure
  <2> QED BY <2>2
<1>2. B \in [Calls \X [Calls -> Nat] -> Nat]
  <2>1. \A c \in Calls, f \in [Calls -> Nat] : ForwardBody(b, c, f) \in Nat BY ForwardLooksBack
  <2> QED BY <2>1
<1>3. \A c \in Calls, f \in [Calls -> Nat] : B[<<c, f>>] = ForwardBody(b, c, f) OBVIOUS
<1>4. \A c \in Calls : m[c] = Measure(b, c) OBVIOUS
<1> HIDE DEF m, B
<1>5. LooksBack(Calls, Nat, m, B)
  <2> SUFFICES ASSUME NEW c \in Calls, NEW f \in [Calls -> Nat], NEW g \in [Calls -> Nat],
                      \A d \in Calls : m[d] < m[c] => f[d] = g[d]
               PROVE  B[<<c, f>>] = B[<<c, g>>]
    BY DEF LooksBack
  <2>1. \A d \in Calls : Measure(b, d) < Measure(b, c) => f[d] = g[d] BY <1>4
  <2>2. ForwardBody(b, c, f) = ForwardBody(b, c, g) BY <2>1, ForwardLooksBack
  <2> QED BY <1>3, <2>2
<1>6. Defines(Calls, Nat, m, B)
  <2>1. Nat # {} OBVIOUS
  <2> QED BY <1>1, <1>2, <1>5, <2>1 DEF Defines
<1>7. Solvable(Calls, Nat, B) BY <1>6, SolutionExists
<1>8. PICK f \in [Calls -> Nat] : \A c \in Calls : f[c] = B[<<c, f>>] BY <1>7 DEF Solvable
<1>9. \A c \in Calls : f[c] = ForwardBody(b, c, f) BY <1>3, <1>8
<1>10. \A c \in Calls : f[c] \in EndsBehind(b, c.p) BY <1>9, ForwardEnds
<1>11. ASSUME NEW c \in Calls PROVE f[c] = SkipBody(b, c, f)
  <2>1. c.p \in Nat /\ c.p + 1 \in Nat BY DEF Calls
  <2>2. ASSUME NEW n \in Nat PROVE f[ValueAt(n)] \in EndsBehind(b, n)
    <3>1. PICK d : d = ValueAt(n) OBVIOUS
    <3>2. d \in Calls /\ d.p = n BY <3>1, CallsAre
    <3> QED BY <1>10, <3>1, <3>2
  <2> QED BY <1>9, <2>1, <2>2, SameBody
<1>12. f = [c \in Calls |-> SkipBody(b, c, f)] BY <1>8, <1>11
<1> QED BY <1>12 DEF IsSkip

\* So Skip is what its definition says, and stops behind where it starts.
LEMMA SkipIs ==
  ASSUME NEW b \in Seq(Token)
  PROVE  \A c \in Calls : /\ Skip(b)[c] = SkipBody(b, c, Skip(b))
                          /\ Skip(b)[c] \in EndsBehind(b, c.p)
<1>1. Skip(b) = CHOOSE f : IsSkip(f, b) BY DEF Skip, IsSkip, SkipBody
<1>2. IsSkip(Skip(b), b) BY <1>1, SkipExists
<1>3. \A c \in Calls : Skip(b)[c] = SkipBody(b, c, Skip(b)) BY <1>2 DEF IsSkip
<1> QED BY <1>3, ForwardEnds

(***************************************************************************)
(* skip_value, and the loops of skip_list and skip_dict.                   *)
(***************************************************************************)
SkipItems(b, p) == Skip(b)[ItemsAt(p)]

\* A value.
LEMMA SkipValueIs ==
  ASSUME NEW b \in Seq(Token), NEW p \in Nat
  PROVE  /\ SkipValue(b, p) \in EndsBehind(b, p)
         /\ SkipValue(b, p) =
              CASE At(b, p, "s") \/ At(b, p, "i") -> p + 1
                [] At(b, p, "l") -> SkipItems(b, p + 1)
                [] At(b, p, "d") -> SkipEntries(b, p + 1, 0)
                [] OTHER -> Error
<1>1. ValueAt(p) \in Calls /\ ValueAt(p).what = "value" /\ ValueAt(p).p = p BY CallsAre
<1>2. SkipValue(b, p) = SkipBody(b, ValueAt(p), Skip(b)) BY <1>1, SkipIs DEF SkipValue
<1>3. SkipValue(b, p) \in EndsBehind(b, p) BY <1>1, SkipIs DEF SkipValue
<1>4. SkipBody(b, ValueAt(p), Skip(b)) =
        CASE At(b, p, "s") \/ At(b, p, "i") -> p + 1
          [] At(b, p, "l") -> SkipItems(b, p + 1)
          [] At(b, p, "d") -> SkipEntries(b, p + 1, 0)
          [] OTHER -> Error
  BY <1>1 DEF SkipBody, SkipItems, SkipEntries
<1> QED BY <1>2, <1>3, <1>4

\* The loop of skip_list, one item unrolled.
LEMMA SkipItemsIs ==
  ASSUME NEW b \in Seq(Token), NEW p \in Nat
  PROVE  /\ SkipItems(b, p) \in EndsBehind(b, p)
         /\ SkipItems(b, p) =
              IF At(b, p, "e") THEN p + 1
              ELSE IF SkipValue(b, p) = Error THEN Error ELSE SkipItems(b, SkipValue(b, p))
<1>1. ItemsAt(p) \in Calls /\ ItemsAt(p).what = "items" /\ ItemsAt(p).p = p BY CallsAre
<1>2. SkipItems(b, p) = SkipBody(b, ItemsAt(p), Skip(b)) BY <1>1, SkipIs DEF SkipItems
<1>3. SkipItems(b, p) \in EndsBehind(b, p) BY <1>1, SkipIs DEF SkipItems
<1>4. SkipBody(b, ItemsAt(p), Skip(b)) =
        IF At(b, p, "e") THEN p + 1
        ELSE IF SkipValue(b, p) = Error THEN Error ELSE SkipItems(b, SkipValue(b, p))
  BY <1>1 DEF SkipBody, SkipItems, SkipValue
<1> QED BY <1>2, <1>3, <1>4

\* The loops of skip_dict and goto_dict_end, one entry unrolled.
LEMMA SkipEntriesIs ==
  ASSUME NEW b \in Seq(Token), NEW p \in Nat, NEW prev \in Nat
  PROVE  /\ SkipEntries(b, p, prev) \in EndsBehind(b, p)
         /\ SkipEntries(b, p, prev) =
              IF At(b, p, "e") THEN p + 1
              ELSE IF ~NextKey(b, p, prev) THEN Error
              ELSE IF SkipValue(b, p + 1) = Error THEN Error
              ELSE SkipEntries(b, SkipValue(b, p + 1), Rank[b[p].v])
<1> DEFINE c == EntriesAt(p, prev)
<1>1. c \in Calls /\ c.what = "entries" /\ c.p = p /\ c.prev = prev BY CallsAre
<1>2. SkipEntries(b, p, prev) = SkipBody(b, c, Skip(b)) BY <1>1, SkipIs DEF SkipEntries
<1>3. SkipEntries(b, p, prev) \in EndsBehind(b, p) BY <1>1, SkipIs DEF SkipEntries
<1> HIDE DEF c
<1>4. SkipBody(b, c, Skip(b)) =
        IF At(b, p, "e") THEN p + 1
        ELSE IF ~NextKey(b, p, prev) THEN Error
        ELSE IF SkipValue(b, p + 1) = Error THEN Error
        ELSE SkipEntries(b, SkipValue(b, p + 1), Rank[b[p].v])
  BY <1>1 DEF SkipBody, SkipValue, SkipEntries
<1> QED BY <1>2, <1>3, <1>4

-----------------------------------------------------------------------------
(***************************************************************************)
(* The recursive function of the grammar exists: what a span is made of is *)
(* shorter, or it is the first of several items.                           *)
(***************************************************************************)
GrammarBody(b, s, f) ==
  IF s.what = "value" THEN
    \/ s.n = 1 /\ (At(b, s.p, "s") \/ At(b, s.p, "i"))
    \/ /\ s.n > 1 /\ At(b, s.p + s.n - 1, "e")
       /\ \/ At(b, s.p, "l") /\ f[Span("items", s.p + 1, s.n - 2, 0)]
          \/ At(b, s.p, "d") /\ f[Span("entries", s.p + 1, s.n - 2, 0)]
  ELSE IF s.n = 0 THEN TRUE
  ELSE IF s.what = "items" THEN
    \E m \in 1..s.n : /\ f[Span("value", s.p, m, 0)]
                      /\ f[Span("items", s.p + m, s.n - m, 0)]
  ELSE
    /\ At(b, s.p, "s") /\ b[s.p].v \in Utf8 /\ Rank[b[s.p].v] > s.prev
    /\ \E m \in 1..(s.n - 1) :
         /\ f[Span("value", s.p + 1, m, 0)]
         /\ f[Span("entries", s.p + 1 + m, s.n - 1 - m, Rank[b[s.p].v])]

IsGrammar(f, b) == f = [s \in Spans |-> GrammarBody(b, s, f)]

Size(s) == s.n + s.n + (IF s.what = "items" THEN 1 ELSE 0)

\* The fields and the size of a span.
LEMMA SpansAre ==
  ASSUME NEW p \in Nat, NEW n \in Nat, NEW prev \in Nat,
         NEW what \in {"value", "items", "entries"}, NEW s, s = Span(what, p, n, prev)
  PROVE  /\ s \in Spans /\ s.what = what /\ s.p = p /\ s.n = n /\ s.prev = prev
         /\ Size(s) = n + n + (IF what = "items" THEN 1 ELSE 0)
BY DEF Spans, Span, Size

\* The grammar of a span depends on smaller spans only.
LEMMA GrammarLooksBack ==
  ASSUME NEW b \in Seq(Token), NEW s \in Spans, NEW f, NEW g,
         \A r \in Spans : Size(r) < Size(s) => f[r] = g[r]
  PROVE  GrammarBody(b, s, f) = GrammarBody(b, s, g)
<1>1. PICK p, n : p = s.p /\ n = s.n OBVIOUS
<1>2. p \in Nat /\ n \in Nat /\ s.what \in {"value", "items", "entries"} BY <1>1 DEF Spans
<1>3. p + 1 \in Nat /\ 0 \in Nat BY <1>2
<1>4. CASE s.what = "value"
  <2>1. ASSUME n > 1
        PROVE  /\ f[Span("items", p + 1, n - 2, 0)] = g[Span("items", p + 1, n - 2, 0)]
               /\ f[Span("entries", p + 1, n - 2, 0)] = g[Span("entries", p + 1, n - 2, 0)]
    <3>1. Size(s) = n + n BY <1>1, <1>2, <1>4 DEF Size
    <3>2. PICK k \in Nat : k = n - 2 /\ k + k + 1 < n + n /\ k + k < n + n BY <1>2, <2>1
    <3>3. /\ Span("items", p + 1, k, 0) \in Spans /\ Span("entries", p + 1, k, 0) \in Spans
          /\ Size(Span("items", p + 1, k, 0)) = k + k + 1
          /\ Size(Span("entries", p + 1, k, 0)) = k + k
      BY <1>3, <3>2 DEF Span, Spans, Size
    <3> QED BY <3>1, <3>2, <3>3
  <2> QED BY <1>1, <1>4, <2>1 DEF GrammarBody
<1>5. CASE s.what = "items"
  <2>1. ASSUME NEW m \in 1..n
        PROVE  /\ f[Span("value", p, m, 0)] = g[Span("value", p, m, 0)]
               /\ f[Span("items", p + m, n - m, 0)] = g[Span("items", p + m, n - m, 0)]
    <3>1. Size(s) = n + n + 1 BY <1>1, <1>2, <1>5 DEF Size
    <3>2. PICK k, i, l : k = n - m /\ i = p + m /\ l = m OBVIOUS
    <3>3. k \in Nat /\ i \in Nat /\ l \in Nat /\ k + k + 1 < n + n + 1 /\ l + l < n + n + 1
      BY <1>2, <3>2
    <3>4. Span("items", i, k, 0) \in Spans /\ Size(Span("items", i, k, 0)) = k + k + 1
      BY <3>3 DEF Span, Spans, Size
    <3>5. Span("value", p, l, 0) \in Spans /\ Size(Span("value", p, l, 0)) = l + l
      BY <1>2, <3>3 DEF Span, Spans, Size
    <3> QED BY <3>1, <3>2, <3>3, <3>4, <3>5
  <2> QED BY <1>1, <1>5, <2>1 DEF GrammarBody
<1>6. CASE s.what = "entries"
  <2>1. ASSUME NEW m \in 1..(n - 1), At(b, p, "s")
        PROVE  /\ f[Span("value", p + 1, m, 0)] = g[Span("value", p + 1, m, 0)]
               /\ f[Span("entries", p + 1 + m, n - 1 - m, Rank[b[p].v])] =
                    g[Span("entries", p + 1 + m, n - 1 - m, Rank[b[p].v])]
    <3>1. Size(s) = n + n BY <1>1, <1>2, <1>6 DEF Size
    <3>2. PICK k, i, j, l : k = n - 1 - m /\ i = p + 1 /\ j = p + 1 + m /\ l = m OBVIOUS
    <3>3. /\ k \in Nat /\ i \in Nat /\ j \in Nat /\ l \in Nat
          /\ k + k < n + n /\ l + l < n + n
      BY <1>2, <3>2
    <3>4. PICK r \in Nat : r = Rank[b[p].v] BY <2>1, TokenIs
    <3>5. Span("entries", j, k, r) \in Spans /\ Size(Span("entries", j, k, r)) = k + k
      BY <3>3, <3>4 DEF Span, Spans, Size
    <3>6. Span("value", i, l, 0) \in Spans /\ Size(Span("value", i, l, 0)) = l + l
      BY <3>3 DEF Span, Spans, Size
    <3> QED BY <3>1, <3>2, <3>3, <3>4, <3>5, <3>6
  <2> QED BY <1>1, <1>6, <2>1 DEF GrammarBody
<1> QED BY <1>2, <1>4, <1>5, <1>6

\* So there is a function that is the grammar,
LEMMA GrammarExists ==
  ASSUME NEW b \in Seq(Token)
  PROVE  \E f : IsGrammar(f, b)
<1> DEFINE m == [s \in Spans |-> Size(s)]
           B == [z \in Spans \X [Spans -> BOOLEAN] |-> GrammarBody(b, z[1], z[2])]
<1>1. m \in [Spans -> Nat]
  <2>1. \A s \in Spans : Size(s) \in Nat BY DEF Spans, Size
  <2> QED BY <2>1
<1>2. B \in [Spans \X [Spans -> BOOLEAN] -> BOOLEAN]
  <2>1. \A s, f : GrammarBody(b, s, f) \in BOOLEAN
    <3> SUFFICES ASSUME NEW s, NEW f PROVE GrammarBody(b, s, f) \in BOOLEAN
      OBVIOUS
    <3> QED BY Zenon DEF GrammarBody
  <2> QED BY <2>1
<1>3. \A s \in Spans, f \in [Spans -> BOOLEAN] : B[<<s, f>>] = GrammarBody(b, s, f) OBVIOUS
<1>4. \A s \in Spans : m[s] = Size(s) OBVIOUS
<1> HIDE DEF m, B
<1>5. LooksBack(Spans, BOOLEAN, m, B)
  <2> SUFFICES ASSUME NEW s \in Spans, NEW f \in [Spans -> BOOLEAN], NEW g \in [Spans -> BOOLEAN],
                      \A r \in Spans : m[r] < m[s] => f[r] = g[r]
               PROVE  B[<<s, f>>] = B[<<s, g>>]
    BY DEF LooksBack
  <2>1. \A r \in Spans : Size(r) < Size(s) => f[r] = g[r] BY <1>4
  <2>2. GrammarBody(b, s, f) = GrammarBody(b, s, g) BY <2>1, GrammarLooksBack
  <2> QED BY <1>3, <2>2
<1>6. Defines(Spans, BOOLEAN, m, B) BY <1>1, <1>2, <1>5 DEF Defines
<1>7. Solvable(Spans, BOOLEAN, B) BY <1>6, SolutionExists
<1>8. PICK f \in [Spans -> BOOLEAN] : \A s \in Spans : f[s] = B[<<s, f>>] BY <1>7 DEF Solvable
<1>9. \A s \in Spans : f[s] = GrammarBody(b, s, f) BY <1>3, <1>8
<1>10. f = [s \in Spans |-> GrammarBody(b, s, f)] BY <1>8, <1>9
<1> QED BY <1>10 DEF IsGrammar

\* which Grammar therefore is.
LEMMA GrammarIs ==
  ASSUME NEW b \in Seq(Token), NEW s \in Spans
  PROVE  Grammar(b)[s] = GrammarBody(b, s, Grammar(b))
<1>1. Grammar(b) = CHOOSE f : IsGrammar(f, b) BY DEF Grammar, IsGrammar, GrammarBody
<1>2. IsGrammar(Grammar(b), b) BY <1>1, GrammarExists
<1> QED BY <1>2 DEF IsGrammar

(***************************************************************************)
(* Values, items and entries of the grammar, each in terms of the others.  *)
(***************************************************************************)
AreItems(b, p, n) == Grammar(b)[Span("items", p, n, 0)]
AreEntries(b, p, n, prev) == Grammar(b)[Span("entries", p, n, prev)]

\* A value, by the grammar.
LEMMA IsValueIs ==
  ASSUME NEW b \in Seq(Token), NEW p \in Nat, NEW n \in Nat
  PROVE  IsValue(b, p, n) <=>
           \/ n = 1 /\ (At(b, p, "s") \/ At(b, p, "i"))
           \/ /\ n > 1 /\ At(b, p + n - 1, "e")
              /\ \/ At(b, p, "l") /\ AreItems(b, p + 1, n - 2)
                 \/ At(b, p, "d") /\ AreEntries(b, p + 1, n - 2, 0)
<1>1. PICK s : s = Span("value", p, n, 0) OBVIOUS
<1>2. s \in Spans /\ s.what = "value" /\ s.p = p /\ s.n = n BY <1>1 DEF Spans, Span
<1>3. IsValue(b, p, n) = GrammarBody(b, s, Grammar(b)) BY <1>1, <1>2, GrammarIs DEF IsValue
<1> QED BY <1>2, <1>3, Zenon DEF GrammarBody, AreItems, AreEntries

\* Items are none, or a value and further items.
LEMMA AreItemsIs ==
  ASSUME NEW b \in Seq(Token), NEW p \in Nat, NEW n \in Nat
  PROVE  AreItems(b, p, n) <=>
           \/ n = 0
           \/ \E m \in 1..n : IsValue(b, p, m) /\ AreItems(b, p + m, n - m)
<1>1. PICK s : s = Span("items", p, n, 0) OBVIOUS
<1>2. s \in Spans /\ s.what = "items" /\ s.p = p /\ s.n = n BY <1>1 DEF Spans, Span
<1>3. AreItems(b, p, n) = GrammarBody(b, s, Grammar(b)) BY <1>1, <1>2, GrammarIs DEF AreItems
<1>4. GrammarBody(b, s, Grammar(b)) <=>
        \/ n = 0
        \/ n # 0 /\ \E m \in 1..n : IsValue(b, p, m) /\ AreItems(b, p + m, n - m)
  BY <1>2 DEF GrammarBody, AreItems, IsValue
<1>5. n = 0 => 1..n = {} OBVIOUS
<1> QED BY <1>3, <1>4, <1>5

\* Entries are none, or a key, a value and entries with greater keys.
LEMMA AreEntriesIs ==
  ASSUME NEW b \in Seq(Token), NEW p \in Nat, NEW n \in Nat, NEW prev \in Nat
  PROVE  AreEntries(b, p, n, prev) <=>
           \/ n = 0
           \/ /\ n # 0 /\ NextKey(b, p, prev)
              /\ \E m \in 1..(n - 1) : /\ IsValue(b, p + 1, m)
                                       /\ AreEntries(b, p + 1 + m, n - 1 - m, Rank[b[p].v])
<1>1. PICK s : s = Span("entries", p, n, prev) OBVIOUS
<1>2. s \in Spans /\ s.what = "entries" /\ s.p = p /\ s.n = n /\ s.prev = prev
  BY <1>1 DEF Spans, Span
<1>3. AreEntries(b, p, n, prev) = GrammarBody(b, s, Grammar(b))
  BY <1>1, <1>2, GrammarIs DEF AreEntries
<1>4. GrammarBody(b, s, Grammar(b)) <=>
        \/ n = 0
        \/ /\ n # 0 /\ At(b, p, "s") /\ b[p].v \in Utf8 /\ Rank[b[p].v] > prev
           /\ \E m \in 1..(n - 1) : /\ IsValue(b, p + 1, m)
                                    /\ AreEntries(b, p + 1 + m, n - 1 - m, Rank[b[p].v])
  BY <1>2 DEF GrammarBody, AreEntries, IsValue
<1>5. NextKey(b, p, prev) <=> At(b, p, "s") /\ b[p].v \in Utf8 /\ Rank[b[p].v] > prev
  BY TokenIs
<1> QED BY <1>3, <1>4, <1>5

(***************************************************************************)
(* What is skipped is a value, the items of a list or the entries of a     *)
(* dictionary, the latter two with the end of the list or dictionary.      *)
(***************************************************************************)
LEMMA SkipSound ==
  ASSUME NEW b \in Seq(Token)
  PROVE  /\ \A p \in Nat : SkipValue(b, p) # Error => IsValue(b, p, SkipValue(b, p) - p)
         /\ \A p \in Nat : SkipItems(b, p) # Error =>
              /\ At(b, SkipItems(b, p) - 1, "e") /\ AreItems(b, p, SkipItems(b, p) - 1 - p)
         /\ \A p, prev \in Nat : SkipEntries(b, p, prev) # Error =>
              /\ At(b, SkipEntries(b, p, prev) - 1, "e")
              /\ AreEntries(b, p, SkipEntries(b, p, prev) - 1 - p, prev)
<1> DEFINE Sound(c, q) ==
             /\ c.what = "value" => IsValue(b, c.p, q - c.p)
             /\ c.what = "items" => At(b, q - 1, "e") /\ AreItems(b, c.p, q - 1 - c.p)
             /\ c.what = "entries" => At(b, q - 1, "e") /\ AreEntries(b, c.p, q - 1 - c.p, c.prev)
           T == {c \in Calls : Skip(b)[c] # Error => Sound(c, Skip(b)[c])}
<1>1. Len(b) \in Nat OBVIOUS
<1>2. \A p \in Nat : ValueAt(p) \in T /\ SkipValue(b, p) # Error => IsValue(b, p, SkipValue(b, p) - p)
  BY CallsAre DEF SkipValue
<1>3. \A p \in Nat : ItemsAt(p) \in T /\ SkipItems(b, p) # Error =>
        At(b, SkipItems(b, p) - 1, "e") /\ AreItems(b, p, SkipItems(b, p) - 1 - p)
  BY CallsAre DEF SkipItems
<1>4. \A p, prev \in Nat : EntriesAt(p, prev) \in T /\ SkipEntries(b, p, prev) # Error =>
        /\ At(b, SkipEntries(b, p, prev) - 1, "e")
        /\ AreEntries(b, p, SkipEntries(b, p, prev) - 1 - p, prev)
  <2> SUFFICES ASSUME NEW p \in Nat, NEW prev \in Nat, EntriesAt(p, prev) \in T,
                      SkipEntries(b, p, prev) # Error
               PROVE  /\ At(b, SkipEntries(b, p, prev) - 1, "e")
                      /\ AreEntries(b, p, SkipEntries(b, p, prev) - 1 - p, prev)
    OBVIOUS
  <2> QED BY CallsAre DEF SkipEntries
<1>5. ASSUME NEW c \in Calls, \A d \in Calls : Measure(b, d) < Measure(b, c) => d \in T
      PROVE  c \in T
  <2>1. PICK p, prev, q : p = c.p /\ prev = c.prev /\ q = Skip(b)[c] OBVIOUS
  <2>2. p \in Nat /\ prev \in Nat /\ c.what \in {"value", "items", "entries"} BY <2>1 DEF Calls
  <2> SUFFICES ASSUME q # Error PROVE Sound(c, q)
    BY <2>1
  <2>3. q \in (p + 1)..(Len(b) + 1) BY <2>1, SkipIs DEF EndsBehind
  <2>4. \A t : At(b, p, t) => p <= Len(b) BY <1>1, <2>2, TokenIs
  <2>5. \A n \in Nat : /\ Measure(b, ValueAt(n)) < Measure(b, c) => ValueAt(n) \in T
                       /\ Measure(b, ItemsAt(n)) < Measure(b, c) => ItemsAt(n) \in T
    BY <1>5, CallsAre
  <2>6. \A n, r \in Nat : Measure(b, EntriesAt(n, r)) < Measure(b, c) => EntriesAt(n, r) \in T
    <3>1. \A n, r \in Nat : EntriesAt(n, r) \in Calls BY CallsAre
    <3> QED BY <1>5, <3>1
  <2>7. p + 1 \in Nat /\ q - p \in Nat /\ q - 1 - p \in Nat /\ q - (p + 1) = q - 1 - p
        /\ p + (q - p) - 1 = q - 1 /\ (q - p) - 2 = q - 1 - (p + 1)
    BY <2>2, <2>3, <1>1
  <2> HIDE DEF T
  <2>8. CASE c.what = "value"
    <3>1. c = ValueAt(p) \/ c.what = "value" BY <2>8
    <3>2. q = CASE At(b, p, "s") \/ At(b, p, "i") -> p + 1
                [] At(b, p, "l") -> SkipItems(b, p + 1)
                [] At(b, p, "d") -> SkipEntries(b, p + 1, 0)
                [] OTHER -> Error
      BY <2>1, <2>8, SkipIs DEF SkipBody, SkipItems, SkipEntries
    <3>3. CASE At(b, p, "s") \/ At(b, p, "i")
      <4>1. q = p + 1 BY <3>2, <3>3 DEF At
      <4>2. q - p = 1 BY <2>2, <4>1
      <4> QED BY <2>1, <2>2, <2>7, <2>8, <3>3, <4>2, IsValueIs
    <3>4. CASE ~(At(b, p, "s") \/ At(b, p, "i")) /\ At(b, p, "l")
      <4>1. q = SkipItems(b, p + 1) BY <3>2, <3>4 DEF At
      <4>2. ItemsAt(p + 1) \in T BY <2>1, <2>4, <2>5, <2>7, <2>8, <3>4, CallsSmaller
      <4>3. At(b, q - 1, "e") /\ AreItems(b, p + 1, q - 1 - (p + 1)) BY <1>3, <2>7, <4>1, <4>2
      <4>4. q - 1 # p BY <3>4, <4>3 DEF At
      <4>5. q - p > 1 BY <2>2, <2>3, <1>1, <4>4
      <4>6. IsValue(b, p, q - p) BY <2>2, <2>7, <3>4, <4>3, <4>5, IsValueIs
      <4> QED BY <2>1, <2>8, <4>6
    <3>5. CASE ~(At(b, p, "s") \/ At(b, p, "i")) /\ ~At(b, p, "l") /\ At(b, p, "d")
      <4>1. q = SkipEntries(b, p + 1, 0) BY <3>2, <3>5
      <4>2. EntriesAt(p + 1, 0) \in T BY <2>1, <2>4, <2>6, <2>7, <2>8, <3>5, CallsSmaller
      <4>3. At(b, q - 1, "e") /\ AreEntries(b, p + 1, q - 1 - (p + 1), 0) BY <1>4, <2>7, <4>1, <4>2
      <4>4. q - 1 # p BY <3>5, <4>3 DEF At
      <4>5. q - p > 1 BY <2>2, <2>3, <1>1, <4>4
      <4>6. IsValue(b, p, q - p) BY <2>2, <2>7, <3>5, <4>3, <4>5, IsValueIs
      <4> QED BY <2>1, <2>8, <4>6
    <3> QED BY <3>2, <3>3, <3>4, <3>5
  <2>9. CASE c.what = "items"
    <3>1. q = IF At(b, p, "e") THEN p + 1
              ELSE IF SkipValue(b, p) = Error THEN Error ELSE SkipItems(b, SkipValue(b, p))
      BY <2>1, <2>9, SkipIs DEF SkipBody, SkipItems, SkipValue
    <3>2. CASE At(b, p, "e")
      <4>1. q - 1 = p /\ q - 1 - p = 0 BY <2>2, <3>1, <3>2
      <4> QED BY <2>1, <2>2, <2>9, <3>2, <4>1, AreItemsIs
    <3>3. CASE ~At(b, p, "e")
      <4>1. PICK r : r = SkipValue(b, p) OBVIOUS
      <4>2. r # Error /\ q = SkipItems(b, r) BY <3>1, <3>3, <4>1
      <4>3. r \in (p + 1)..(Len(b) + 1) BY <2>2, <4>1, <4>2, SkipValueIs DEF EndsBehind
      <4>4. ValueAt(p) \in T /\ ItemsAt(r) \in T
        BY <2>1, <2>2, <2>5, <2>7, <2>9, <4>3, CallsSmaller
      <4>5. IsValue(b, p, r - p) BY <1>2, <2>2, <4>1, <4>2, <4>4
      <4>6. r \in Nat /\ r - p \in Nat BY <2>2, <4>3, <1>1
      <4>7. At(b, q - 1, "e") /\ AreItems(b, r, q - 1 - r) BY <1>3, <4>2, <4>4, <4>6
      <4>8. q \in (r + 1)..(Len(b) + 1) BY <4>2, <4>6, SkipItemsIs DEF EndsBehind
      <4>9. r - p \in 1..(q - 1 - p) /\ p + (r - p) = r /\ (q - 1 - p) - (r - p) = q - 1 - r
        BY <2>2, <2>3, <4>3, <4>6, <4>8, <1>1
      <4>10. AreItems(b, p, q - 1 - p)
        <5>1. \E m \in 1..(q - 1 - p) : IsValue(b, p, m) /\ AreItems(b, p + m, (q - 1 - p) - m)
          BY <4>5, <4>7, <4>9
        <5> QED BY <2>2, <2>7, <5>1, AreItemsIs
      <4> QED BY <2>1, <2>9, <4>7, <4>10
    <3> QED BY <3>2, <3>3
  <2>10. CASE c.what = "entries"
    <3>1. q = IF At(b, p, "e") THEN p + 1
              ELSE IF ~NextKey(b, p, prev) THEN Error
              ELSE IF SkipValue(b, p + 1) = Error THEN Error
              ELSE SkipEntries(b, SkipValue(b, p + 1), Rank[b[p].v])
      BY <2>1, <2>10, SkipIs DEF SkipBody, SkipEntries, SkipValue
    <3>2. CASE At(b, p, "e")
      <4>1. q - 1 = p /\ q - 1 - p = 0 BY <2>2, <3>1, <3>2
      <4> QED BY <2>1, <2>2, <2>10, <3>2, <4>1, AreEntriesIs
    <3>3. CASE ~At(b, p, "e")
      <4>1. PICK r, k : r = SkipValue(b, p + 1) /\ k = Rank[b[p].v] OBVIOUS
      <4>2. NextKey(b, p, prev) /\ r # Error /\ q = SkipEntries(b, r, k) BY <3>1, <3>3, <4>1
      <4>3. r \in (p + 1 + 1)..(Len(b) + 1) BY <2>7, <4>1, <4>2, SkipValueIs DEF EndsBehind
      <4>4. k \in Nat /\ p <= Len(b) BY <2>4, <4>1, <4>2, TokenIs
      <4>5. r \in Nat /\ r \in (p + 1)..(Len(b) + 1) /\ r - (p + 1) \in Nat BY <2>2, <4>3, <1>1
      <4>6. ValueAt(p + 1) \in T BY <2>1, <2>5, <2>7, <2>10, <4>4, CallsSmaller
      <4>7. EntriesAt(r, k) \in T BY <2>1, <2>6, <2>10, <4>4, <4>5, CallsSmaller
      <4>8. IsValue(b, p + 1, r - (p + 1)) BY <1>2, <2>7, <4>1, <4>2, <4>6
      <4>9. At(b, q - 1, "e") /\ AreEntries(b, r, q - 1 - r, k) BY <1>4, <4>2, <4>4, <4>5, <4>7
      <4>10. q \in (r + 1)..(Len(b) + 1) BY <4>2, <4>4, <4>5, SkipEntriesIs DEF EndsBehind
      <4>11. PICK n, m : n = q - 1 - p /\ m = r - (p + 1) OBVIOUS
      <4>12. n \in Nat /\ n # 0 /\ m \in 1..(n - 1) /\ p + 1 + m = r /\ n - 1 - m = q - 1 - r
        BY <2>2, <2>3, <4>3, <4>5, <4>10, <4>11, <1>1
      <4>13. AreEntries(b, p, n, prev)
        <5>1. \E i \in 1..(n - 1) : /\ IsValue(b, p + 1, i)
                                    /\ AreEntries(b, p + 1 + i, n - 1 - i, Rank[b[p].v])
          BY <4>1, <4>8, <4>9, <4>11, <4>12
        <5> QED BY <2>2, <4>2, <4>12, <5>1, AreEntriesIs
      <4> QED BY <2>1, <2>10, <4>9, <4>11, <4>13
    <3> QED BY <3>2, <3>3
  <2> QED BY <2>2, <2>8, <2>9, <2>10
<1>6. T \in SUBSET Calls OBVIOUS
<1>7. T = Calls
  <2> HIDE DEF T
  <2> QED BY <1>5, <1>6, CallInduction
<1> HIDE DEF T
<1>8. \A p \in Nat : ValueAt(p) \in T /\ ItemsAt(p) \in T BY <1>7, CallsAre
<1>9. \A p, prev \in Nat : EntriesAt(p, prev) \in T BY <1>7, CallsAre
<1> QED BY <1>2, <1>3, <1>4, <1>8, <1>9

(***************************************************************************)
(* No value begins with the end of a list or dictionary, and the number of *)
(* tokens that make up a value is not 0.                                   *)
(***************************************************************************)
LEMMA ValueBegins ==
  ASSUME NEW b \in Seq(Token), NEW p \in Nat, NEW n \in Nat, IsValue(b, p, n)
  PROVE  ~At(b, p, "e") /\ n # 0
BY IsValueIs DEF At

(***************************************************************************)
(* Induction over the size of spans.                                       *)
(***************************************************************************)
LEMMA SpanInduction ==
  ASSUME NEW T \in SUBSET Spans,
         \A s \in Spans : (\A r \in Spans : Size(r) < Size(s) => r \in T) => s \in T
  PROVE  T = Spans
<1>1. PICK m : m = [s \in Spans |-> Size(s)] OBVIOUS
<1>2. \A s \in Spans : Size(s) \in Nat BY DEF Spans, Size
<1>3. m \in [Spans -> Nat] BY <1>1, <1>2
<1>4. \A s \in Spans : (\A r \in Spans : m[r] < m[s] => r \in T) => s \in T
  <2>1. \A s \in Spans : m[s] = Size(s) BY <1>1
  <2> QED BY <2>1
<1>5. T \in SUBSET Spans OBVIOUS
<1> QED BY ONLY <1>3, <1>4, <1>5, MeasureInduction

(***************************************************************************)
(* Whatever the grammar allows is skipped to its end.                      *)
(***************************************************************************)
LEMMA SkipComplete ==
  ASSUME NEW b \in Seq(Token)
  PROVE  /\ \A p, n \in Nat : IsValue(b, p, n) => SkipValue(b, p) = p + n
         /\ \A p, n \in Nat : AreItems(b, p, n) /\ At(b, p + n, "e") => SkipItems(b, p) = p + n + 1
         /\ \A p, n, prev \in Nat : AreEntries(b, p, n, prev) /\ At(b, p + n, "e") =>
              SkipEntries(b, p, prev) = p + n + 1
<1> DEFINE Complete(s) ==
             /\ s.what = "value" /\ IsValue(b, s.p, s.n) => SkipValue(b, s.p) = s.p + s.n
             /\ s.what = "items" /\ AreItems(b, s.p, s.n) /\ At(b, s.p + s.n, "e") =>
                  SkipItems(b, s.p) = s.p + s.n + 1
             /\ s.what = "entries" /\ AreEntries(b, s.p, s.n, s.prev) /\ At(b, s.p + s.n, "e") =>
                  SkipEntries(b, s.p, s.prev) = s.p + s.n + 1
           T == {s \in Spans : Complete(s)}
<1>1. \A p, n \in Nat : Span("value", p, n, 0) \in T /\ IsValue(b, p, n) => SkipValue(b, p) = p + n
  BY DEF Span
<1>2. \A p, n \in Nat : Span("items", p, n, 0) \in T /\ AreItems(b, p, n) /\ At(b, p + n, "e") =>
        SkipItems(b, p) = p + n + 1
  BY DEF Span
<1>3. \A p, n, prev \in Nat :
        Span("entries", p, n, prev) \in T /\ AreEntries(b, p, n, prev) /\ At(b, p + n, "e") =>
          SkipEntries(b, p, prev) = p + n + 1
  BY DEF Span
<1>4. ASSUME NEW s \in Spans, \A r \in Spans : Size(r) < Size(s) => r \in T
      PROVE  s \in T
  <2>1. PICK p, n, prev : p = s.p /\ n = s.n /\ prev = s.prev OBVIOUS
  <2>2. p \in Nat /\ n \in Nat /\ prev \in Nat /\ s.what \in {"value", "items", "entries"}
    BY <2>1 DEF Spans
  <2> HIDE DEF T
  <2>3. ASSUME NEW i \in Nat, NEW k \in Nat, k + k < Size(s) PROVE Span("value", i, k, 0) \in T
    <3>1. PICK r : r = Span("value", i, k, 0) OBVIOUS
    <3>2. r \in Spans /\ Size(r) = k + k BY <3>1 DEF Span, Spans, Size
    <3> QED BY <1>4, <2>3, <3>1, <3>2
  <2>4. ASSUME NEW i \in Nat, NEW k \in Nat, k + k + 1 < Size(s) PROVE Span("items", i, k, 0) \in T
    <3>1. PICK r : r = Span("items", i, k, 0) OBVIOUS
    <3>2. r \in Spans /\ Size(r) = k + k + 1 BY <3>1 DEF Span, Spans, Size
    <3> QED BY <1>4, <2>4, <3>1, <3>2
  <2>5. ASSUME NEW i \in Nat, NEW k \in Nat, NEW l \in Nat, k + k < Size(s)
        PROVE  Span("entries", i, k, l) \in T
    <3>1. PICK r : r = Span("entries", i, k, l) OBVIOUS
    <3>2. r \in Spans /\ Size(r) = k + k BY <3>1 DEF Span, Spans, Size
    <3> QED BY <1>4, <2>5, <3>1, <3>2
  <2>6. Size(s) = n + n + (IF s.what = "items" THEN 1 ELSE 0) BY <2>1 DEF Size
  <2>7. CASE s.what = "value"
    <3> SUFFICES ASSUME IsValue(b, p, n) PROVE SkipValue(b, p) = p + n
      BY <2>1, <2>7 DEF T
    <3>1. CASE n = 1 /\ (At(b, p, "s") \/ At(b, p, "i"))
      BY <2>2, <3>1, SkipValueIs DEF At
    <3>2. CASE n > 1 /\ At(b, p + n - 1, "e") /\ At(b, p, "l") /\ AreItems(b, p + 1, n - 2)
      <4>1. PICK i, k : i = p + 1 /\ k = n - 2 OBVIOUS
      <4>2. i \in Nat /\ k \in Nat /\ k + k + 1 < n + n /\ i + k = p + n - 1 /\ i + k + 1 = p + n
        BY <2>2, <3>2, <4>1
      <4>3. Span("items", i, k, 0) \in T BY <2>2, <2>4, <2>6, <2>7, <4>2
      <4>4. SkipItems(b, i) = p + n BY <1>2, <3>2, <4>1, <4>2, <4>3
      <4>5. SkipValue(b, p) = SkipItems(b, p + 1) BY <2>2, <3>2, SkipValueIs DEF At
      <4> QED BY <4>1, <4>4, <4>5
    <3>3. CASE n > 1 /\ At(b, p + n - 1, "e") /\ At(b, p, "d") /\ AreEntries(b, p + 1, n - 2, 0)
      <4>1. PICK i, k : i = p + 1 /\ k = n - 2 OBVIOUS
      <4>2. i \in Nat /\ k \in Nat /\ k + k < n + n /\ i + k = p + n - 1 /\ i + k + 1 = p + n
        BY <2>2, <3>3, <4>1
      <4>3. Span("entries", i, k, 0) \in T BY <2>2, <2>5, <2>6, <2>7, <4>2
      <4>4. SkipEntries(b, i, 0) = p + n BY <1>3, <3>3, <4>1, <4>2, <4>3
      <4>5. SkipValue(b, p) = SkipEntries(b, p + 1, 0) BY <2>2, <3>3, SkipValueIs DEF At
      <4> QED BY <4>1, <4>4, <4>5
    <3> QED BY <2>2, <3>1, <3>2, <3>3, IsValueIs
  <2>8. CASE s.what = "items"
    <3> SUFFICES ASSUME AreItems(b, p, n), At(b, p + n, "e") PROVE SkipItems(b, p) = p + n + 1
      BY <2>1, <2>8 DEF T
    <3>1. CASE n = 0
      <4>1. p + n = p BY <2>2, <3>1
      <4> QED BY <2>2, <4>1, SkipItemsIs
    <3>2. CASE n # 0
      <4>1. PICK m \in 1..n : IsValue(b, p, m) /\ AreItems(b, p + m, n - m)
        BY <2>2, <3>2, AreItemsIs
      <4>2. PICK i, k : i = p + m /\ k = n - m OBVIOUS
      <4>3. /\ i \in Nat /\ k \in Nat /\ m \in Nat /\ m + m < n + n + 1 /\ k + k + 1 < n + n + 1
            /\ i + k = p + n /\ i # 0
        BY <2>2, <4>1, <4>2
      <4>4. Span("value", p, m, 0) \in T /\ Span("items", i, k, 0) \in T
        BY <2>2, <2>3, <2>4, <2>6, <2>8, <4>3
      <4>5. SkipValue(b, p) = i BY <1>1, <2>2, <4>1, <4>2, <4>3, <4>4
      <4>6. SkipItems(b, i) = p + n + 1 BY <1>2, <4>1, <4>2, <4>3, <4>4
      <4>7. ~At(b, p, "e") BY <2>2, <4>1, <4>3, ValueBegins
      <4> QED BY <2>2, <4>3, <4>5, <4>6, <4>7, SkipItemsIs DEF Error
    <3> QED BY <3>1, <3>2
  <2>9. CASE s.what = "entries"
    <3> SUFFICES ASSUME AreEntries(b, p, n, prev), At(b, p + n, "e")
                 PROVE  SkipEntries(b, p, prev) = p + n + 1
      BY <2>1, <2>9 DEF T
    <3>1. CASE n = 0
      <4>1. p + n = p BY <2>2, <3>1
      <4> QED BY <2>2, <4>1, SkipEntriesIs
    <3>2. CASE n # 0
      <4>1. NextKey(b, p, prev) BY <2>2, <3>2, AreEntriesIs
      <4>2. PICK m \in 1..(n - 1) : /\ IsValue(b, p + 1, m)
                                    /\ AreEntries(b, p + 1 + m, n - 1 - m, Rank[b[p].v])
        BY <2>2, <3>2, AreEntriesIs
      <4>3. PICK i, j, k, r : i = p + 1 /\ j = p + 1 + m /\ k = n - 1 - m /\ r = Rank[b[p].v] OBVIOUS
      <4>4. /\ i \in Nat /\ j \in Nat /\ k \in Nat /\ m \in Nat /\ m + m < n + n /\ k + k < n + n
            /\ j + k = p + n /\ j # 0 /\ i + m = j
        BY <2>2, <4>2, <4>3
      <4>5. r \in Nat /\ ~At(b, p, "e") BY <4>1, <4>3, TokenIs
      <4>6. Span("value", i, m, 0) \in T /\ Span("entries", j, k, r) \in T
        BY <2>2, <2>3, <2>5, <2>6, <2>9, <4>4, <4>5
      <4>7. SkipValue(b, i) = j BY <1>1, <4>2, <4>3, <4>4, <4>6
      <4>8. SkipEntries(b, j, r) = p + n + 1
        <5>1. AreEntries(b, j, k, r) /\ At(b, j + k, "e") BY <4>2, <4>3, <4>4
        <5> QED BY <1>3, <4>4, <4>5, <4>6, <5>1
      <4>9. SkipValue(b, p + 1) = j /\ j # Error BY <4>3, <4>4, <4>7 DEF Error
      <4>10. SkipEntries(b, p, prev) = SkipEntries(b, SkipValue(b, p + 1), Rank[b[p].v])
        BY <2>2, <4>1, <4>5, <4>9, SkipEntriesIs
      <4> QED BY <4>3, <4>8, <4>9, <4>10
    <3> QED BY <3>1, <3>2
  <2> QED BY <2>2, <2>7, <2>8, <2>9
<1>5. T = Spans
  <2>1. T \in SUBSET Spans OBVIOUS
  <2> HIDE DEF T
  <2> QED BY <1>4, <2>1, SpanInduction
<1> HIDE DEF T
<1>6. \A p, n \in Nat : Span("value", p, n, 0) \in T /\ Span("items", p, n, 0) \in T
  BY <1>5 DEF Span, Spans
<1>7. \A p, n, prev \in Nat : Span("entries", p, n, prev) \in T BY <1>5 DEF Span, Spans
<1> QED BY <1>1, <1>2, <1>3, <1>6, <1>7

-----------------------------------------------------------------------------
(***************************************************************************)
(* skip_value stops right behind the one value of the grammar the buffer   *)
(* has at the position, and where there is none it is an error.            *)
(***************************************************************************)
THEOREM SkipsValue ==
  ASSUME NEW b \in Seq(Token), NEW p \in Nat
  PROVE  /\ SkipValue(b, p) \in EndsBehind(b, p)
         /\ \A n \in Nat : IsValue(b, p, n) <=> SkipValue(b, p) # Error /\ SkipValue(b, p) = p + n
<1>1. PICK q : q = SkipValue(b, p) OBVIOUS
<1>2. q \in EndsBehind(b, p) BY <1>1, SkipValueIs
<1>3. ASSUME NEW n \in Nat
      PROVE  IsValue(b, p, n) <=> q # Error /\ q = p + n
  <2>1. ASSUME IsValue(b, p, n) PROVE q # Error /\ q = p + n
    <3>1. q = p + n BY <1>1, <2>1, SkipComplete
    <3>2. n # 0 BY <2>1, ValueBegins
    <3> QED BY <3>1, <3>2 DEF Error
  <2>2. ASSUME q # Error, q = p + n PROVE IsValue(b, p, n)
    <3>1. q - p = n BY <2>2
    <3> QED BY <1>1, <2>2, <3>1, SkipSound
  <2> QED BY <2>1, <2>2
<1> QED BY <1>1, <1>2, <1>3

(***************************************************************************)
(* Whatever the buffer, skip_value called at its beginning accepts it      *)
(* exactly if it begins with a value of the grammar (dictionary keys valid *)
(* utf-8, not empty and strictly ascending), and stops right behind it.    *)
(***************************************************************************)
THEOREM SkipsExactly == CallSpec => []SkipsExactlyOneValue
<1> DEFINE Inv == /\ buffer \in Seq(Token)
                  /\ state = "returned" /\ goal = "skip_value" => end = SkipValue(buffer, 1)
<1>1. CallInit => Inv BY DEF CallInit
<1>2. Inv /\ [Call]_callvars => Inv' BY DEF Call, callvars
<1>3. Inv => SkipsExactlyOneValue
  <2> SUFFICES ASSUME Inv, state = "returned", goal = "skip_value"
               PROVE  \E ends \in {{n \in 1..Len(buffer) : IsValue(buffer, 1, n)}} :
                        IF ends = {} THEN end = Error ELSE ends = {end - 1}
    BY DEF SkipsExactlyOneValue
  <2>1. Len(buffer) \in Nat /\ end = SkipValue(buffer, 1) OBVIOUS
  <2>2. /\ end = Error \/ end \in 2..(Len(buffer) + 1)
        /\ \A n \in Nat : IsValue(buffer, 1, n) <=> end # Error /\ end = 1 + n
    BY <2>1, SkipsValue DEF EndsBehind
  <2>3. PICK ends : ends = {n \in 1..Len(buffer) : IsValue(buffer, 1, n)} OBVIOUS
  <2>4. CASE end = Error
    <3>1. ends = {} BY <2>1, <2>2, <2>3, <2>4
    <3> QED BY <2>3, <2>4, <3>1
  <2>5. CASE end \in 2..(Len(buffer) + 1)
    <3>1. end # Error BY <2>5 DEF Error
    <3>2. \A n \in 1..Len(buffer) : IsValue(buffer, 1, n) <=> n = end - 1
      <4> SUFFICES ASSUME NEW n \in 1..Len(buffer) PROVE IsValue(buffer, 1, n) <=> n = end - 1
        OBVIOUS
      <4>1. IsValue(buffer, 1, n) <=> end = 1 + n BY <2>1, <2>2, <3>1
      <4>2. end \in Int /\ n \in Int BY <2>1, <2>5
      <4> QED BY <4>1, <4>2
    <3>3. end - 1 \in 1..Len(buffer) BY <2>1, <2>5
    <3>4. ends = {end - 1} BY <2>3, <3>2, <3>3
    <3>5. ends # {} BY <3>4
    <3> QED BY <2>3, <3>5, <3>4
  <2> QED BY <2>2, <2>4, <2>5
<1> QED BY <1>1, <1>2, <1>3, PTL DEF CallSpec

-----------------------------------------------------------------------------
(***************************************************************************)
(* Induction over positions, from the end of the buffer backwards.         *)
(***************************************************************************)
LEMMA PositionInduction ==
  ASSUME NEW b \in Seq(Token), NEW T \in SUBSET Nat,
         \A p \in Nat : (\A q \in Nat : q > p /\ p <= Len(b) => q \in T) => p \in T
  PROVE  T = Nat
<1> DEFINE N == {n \in Nat : \A p \in Nat : Left(b, p) = n => p \in T}
<1>1. ASSUME NEW n \in Nat, \A k \in 0..(n - 1) : k \in N PROVE n \in N
  <2> SUFFICES ASSUME NEW p \in Nat, Left(b, p) = n PROVE p \in T
    OBVIOUS
  <2>1. ASSUME NEW q \in Nat, q > p, p <= Len(b) PROVE q \in T
    <3>1. Left(b, q) \in Nat /\ Left(b, p) \in Nat /\ Left(b, q) + 1 < Left(b, p) BY <2>1, MeasureIs
    <3>2. Left(b, q) \in 0..(n - 1) BY <3>1
    <3> QED BY <1>1, <3>2
  <2> QED BY <2>1
<1>2. N \in SUBSET Nat OBVIOUS
<1>3. N = Nat
  <2> HIDE DEF N
  <2> QED BY <1>1, <1>2, StrongInduction
<1>4. \A p \in Nat : Left(b, p) \in N BY <1>3, MeasureIs
<1> QED BY <1>4

(***************************************************************************)
(* The recursive function of try_next_dict_entry exists.                   *)
(***************************************************************************)
TryBody(b, search, k, f) ==
  IF At(b, k.p, "e") THEN [found |-> FALSE, pos |-> k.p, to |-> k.p]
  ELSE IF ~NextKey(b, k.p, k.prev) THEN [found |-> FALSE, pos |-> Error, to |-> k.p]
  ELSE IF Rank[b[k.p].v] = Rank[search] THEN [found |-> TRUE, pos |-> k.p + 1, to |-> k.p]
  ELSE IF Rank[b[k.p].v] > Rank[search] THEN [found |-> FALSE, pos |-> k.p, to |-> k.p]
  ELSE LET q == SkipValue(b, k.p + 1)
       IN IF q = Error THEN [found |-> FALSE, pos |-> Error, to |-> k.p]
          ELSE f[PlaceAt(q, Rank[b[k.p].v])]

IsTry(f, b, search) == f = [k \in Places |-> TryBody(b, search, k, f)]

\* The recursive function of try_next_dict_entry exists.
LEMMA TryExists ==
  ASSUME NEW b \in Seq(Token), NEW search
  PROVE  \E f : IsTry(f, b, search)
<1> DEFINE R == [found : BOOLEAN, pos : Nat, to : Nat]
           m == [k \in Places |-> Left(b, k.p)]
           B == [z \in Places \X [Places -> R] |-> TryBody(b, search, z[1], z[2])]
<1>1. m \in [Places -> Nat]
  <2>1. \A k \in Places : k.p \in Nat BY DEF Places
  <2> QED BY <2>1, MeasureIs
<1>2. ASSUME NEW k \in Places, NextKey(b, k.p, k.prev), SkipValue(b, k.p + 1) # Error
      PROVE  /\ PlaceAt(SkipValue(b, k.p + 1), Rank[b[k.p].v]) \in Places
             /\ Left(b, PlaceAt(SkipValue(b, k.p + 1), Rank[b[k.p].v]).p) < Left(b, k.p)
  <2>1. PICK p, q, r : p = k.p /\ q = SkipValue(b, k.p + 1) /\ r = Rank[b[k.p].v] OBVIOUS
  <2>2. p \in Nat /\ p + 1 \in Nat /\ Len(b) \in Nat BY <2>1 DEF Places
  <2>3. p <= Len(b) /\ r \in Nat BY <1>2, <2>1, <2>2, TokenIs
  <2>4. q \in (p + 1 + 1)..(Len(b) + 1) BY <1>2, <2>1, <2>2, SkipValueIs DEF EndsBehind
  <2>5. q \in Nat /\ q > p BY <2>2, <2>4
  <2>6. PlaceAt(q, r) \in Places /\ PlaceAt(q, r).p = q BY <2>3, <2>5 DEF PlaceAt, Places
  <2>7. Left(b, q) \in Nat /\ Left(b, p) \in Nat /\ Left(b, q) + 1 < Left(b, p)
    BY <2>2, <2>3, <2>5, MeasureIs
  <2>8. Left(b, q) < Left(b, p) BY <2>7
  <2> QED BY <2>1, <2>6, <2>8
<1>3. ASSUME NEW k \in Places, NEW f \in [Places -> R] PROVE TryBody(b, search, k, f) \in R
  <2>1. k.p \in Nat /\ k.p + 1 \in Nat /\ Error \in Nat BY DEF Places, Error
  <2>2. NextKey(b, k.p, k.prev) /\ SkipValue(b, k.p + 1) # Error =>
          f[PlaceAt(SkipValue(b, k.p + 1), Rank[b[k.p].v])] \in R
    BY <1>2
  <2>3. \A n, i \in Nat : /\ [found |-> FALSE, pos |-> n, to |-> i] \in R
                          /\ [found |-> TRUE, pos |-> n, to |-> i] \in R
    OBVIOUS
  <2> HIDE DEF R
  <2> QED BY <2>1, <2>2, <2>3 DEF TryBody
<1>4. B \in [Places \X [Places -> R] -> R] BY <1>3
<1>5. \A k \in Places, f \in [Places -> R] : B[<<k, f>>] = TryBody(b, search, k, f) OBVIOUS
<1>6. \A k \in Places : m[k] = Left(b, k.p) OBVIOUS
<1>7. R # {}
  <2>1. [found |-> FALSE, pos |-> 0, to |-> 0] \in R OBVIOUS
  <2> QED BY <2>1
<1> HIDE DEF m, B, R
<1>8. LooksBack(Places, R, m, B)
  <2> SUFFICES ASSUME NEW k \in Places, NEW f \in [Places -> R], NEW g \in [Places -> R],
                      \A j \in Places : m[j] < m[k] => f[j] = g[j]
               PROVE  B[<<k, f>>] = B[<<k, g>>]
    BY DEF LooksBack
  <2>1. \A j \in Places : Left(b, j.p) < Left(b, k.p) => f[j] = g[j] BY <1>6
  <2>2. NextKey(b, k.p, k.prev) /\ SkipValue(b, k.p + 1) # Error =>
          f[PlaceAt(SkipValue(b, k.p + 1), Rank[b[k.p].v])] =
            g[PlaceAt(SkipValue(b, k.p + 1), Rank[b[k.p].v])]
    BY <1>2, <2>1
  <2>3. TryBody(b, search, k, f) = TryBody(b, search, k, g) BY <2>2 DEF TryBody
  <2> QED BY <1>5, <2>3
<1>9. Defines(Places, R, m, B) BY <1>1, <1>4, <1>7, <1>8 DEF Defines
<1>10. Solvable(Places, R, B) BY <1>9, SolutionExists
<1>11. PICK f \in [Places -> R] : \A k \in Places : f[k] = B[<<k, f>>] BY <1>10 DEF Solvable
<1>12. \A k \in Places : f[k] = TryBody(b, search, k, f) BY <1>5, <1>11
<1>13. f = [k \in Places |-> TryBody(b, search, k, f)] BY <1>11, <1>12
<1> QED BY <1>13 DEF IsTry

\* try_next_dict_entry, one turn of its loop unrolled.
LEMMA TryNextIs ==
  ASSUME NEW b \in Seq(Token), NEW search, NEW p \in Nat, NEW prev \in Nat
  PROVE  TryNext(b, p, search, prev) =
           IF At(b, p, "e") THEN [found |-> FALSE, pos |-> p, to |-> p]
           ELSE IF ~NextKey(b, p, prev) THEN [found |-> FALSE, pos |-> Error, to |-> p]
           ELSE IF Rank[b[p].v] = Rank[search] THEN [found |-> TRUE, pos |-> p + 1, to |-> p]
           ELSE IF Rank[b[p].v] > Rank[search] THEN [found |-> FALSE, pos |-> p, to |-> p]
           ELSE IF SkipValue(b, p + 1) = Error THEN [found |-> FALSE, pos |-> Error, to |-> p]
           ELSE TryNext(b, SkipValue(b, p + 1), search, Rank[b[p].v])
<1> DEFINE try == CHOOSE f : IsTry(f, b, search)
<1>1. \A q, r : TryNext(b, q, search, r) = try[PlaceAt(q, r)] BY DEF TryNext, IsTry, TryBody
<1>2. IsTry(try, b, search) BY TryExists
<1> HIDE DEF try
<1>3. PICK k : k = PlaceAt(p, prev) OBVIOUS
<1>4. k \in Places /\ k.p = p /\ k.prev = prev BY <1>3 DEF PlaceAt, Places
<1>5. try[k] = TryBody(b, search, k, try) BY <1>2, <1>4 DEF IsTry
<1>6. TryBody(b, search, k, try) =
        IF At(b, p, "e") THEN [found |-> FALSE, pos |-> p, to |-> p]
        ELSE IF ~NextKey(b, p, prev) THEN [found |-> FALSE, pos |-> Error, to |-> p]
        ELSE IF Rank[b[p].v] = Rank[search] THEN [found |-> TRUE, pos |-> p + 1, to |-> p]
        ELSE IF Rank[b[p].v] > Rank[search] THEN [found |-> FALSE, pos |-> p, to |-> p]
        ELSE IF SkipValue(b, p + 1) = Error THEN [found |-> FALSE, pos |-> Error, to |-> p]
        ELSE try[PlaceAt(SkipValue(b, p + 1), Rank[b[p].v])]
  BY <1>4 DEF TryBody
<1> QED BY <1>1, <1>3, <1>5, <1>6

\* A turn of try_next_dict_entry that finds a key of rank k, and skips its value up to z.
TryTurn(b, p, search, k, z) ==
  IF k = Rank[search] THEN [found |-> TRUE, pos |-> p + 1, to |-> p]
  ELSE IF k > Rank[search] THEN [found |-> FALSE, pos |-> p, to |-> p]
  ELSE IF z = Error THEN [found |-> FALSE, pos |-> Error, to |-> p]
  ELSE TryNext(b, z, search, k)

\* It makes such a turn at a key.
LEMMA TryNextTurn ==
  ASSUME NEW b \in Seq(Token), NEW search, NEW p \in Nat, NEW prev \in Nat,
         ~At(b, p, "e"), NextKey(b, p, prev)
  PROVE  TryNext(b, p, search, prev) = TryTurn(b, p, search, Rank[b[p].v], SkipValue(b, p + 1))
BY TryNextIs DEF TryTurn

(***************************************************************************)
(* Where try_next_dict_entry stops, the rest of the dictionary is skipped  *)
(* to where it is skipped to from the beginning: behind the key, or as if  *)
(* the key had been there.                                                 *)
(***************************************************************************)
EndAfter(b, p, key) ==
  IF SkipValue(b, p) = Error THEN Error ELSE SkipEntries(b, SkipValue(b, p), Rank[key])

\* What is known of e, found from p on behind the key of rank prev.
Stops(b, p, search, prev, e) ==
  /\ e.found \in BOOLEAN /\ e.pos \in Nat /\ e.to \in Nat
  /\ e.pos = Error => ~e.found /\ SkipEntries(b, p, prev) = Error
  /\ e.found => /\ e.to >= p /\ e.pos = e.to + 1 /\ At(b, e.to, "s") /\ b[e.to].v = search
                /\ SkipEntries(b, p, prev) = EndAfter(b, e.pos, search)
  /\ ~e.found /\ e.pos # Error =>
       /\ e.pos >= p /\ e.pos = e.to /\ (At(b, e.pos, "e") \/ NextKey(b, e.pos, Rank[search]))
       /\ SkipEntries(b, p, prev) = SkipEntries(b, e.pos, Rank[search])

\* That much is known of the result of try_next_dict_entry.
LEMMA TryNextStops ==
  ASSUME NEW b \in Seq(Token), NEW search \in Str, NEW p \in Nat, NEW prev \in Nat, NEW e,
         e = TryNext(b, p, search, prev)
  PROVE  Stops(b, p, search, prev, e)
<1> DEFINE T == {q \in Nat : \A r \in Nat : Stops(b, q, search, r, TryNext(b, q, search, r))}
<1>1. ASSUME NEW q \in Nat, \A n \in Nat : n > q /\ q <= Len(b) => n \in T
      PROVE  q \in T
  <2> SUFFICES ASSUME NEW r \in Nat, NEW x, x = TryNext(b, q, search, r) PROVE Stops(b, q, search, r, x)
    OBVIOUS
  <2>1. Len(b) \in Nat /\ Rank[search] \in Nat BY BencodeAssumption
  <2>2. CASE At(b, q, "e")
    <3>1. x = [found |-> FALSE, pos |-> q, to |-> q] BY <2>2, TryNextIs
    <3>2. q # Error BY <2>2 DEF At, Error
    <3>3. SkipEntries(b, q, r) = SkipEntries(b, q, Rank[search]) BY <2>1, <2>2, SkipEntriesIs
    <3> QED BY <2>2, <3>1, <3>2, <3>3 DEF Stops
  <2>3. CASE ~At(b, q, "e") /\ ~NextKey(b, q, r)
    <3>1. x = [found |-> FALSE, pos |-> Error, to |-> q] BY <2>3, TryNextIs
    <3>2. SkipEntries(b, q, r) = Error BY <2>3, SkipEntriesIs
    <3> QED BY <3>1, <3>2 DEF Error, Stops
  <2>4. CASE ~At(b, q, "e") /\ NextKey(b, q, r)
    <3>1. PICK k : k = Rank[b[q].v] OBVIOUS
    <3>2. At(b, q, "s") /\ b[q].v \in Utf8 /\ b[q].v \in Str /\ q <= Len(b) /\ k \in Nat
      BY <2>4, <3>1, TokenIs
    <3>3. SkipEntries(b, q, r) = EndAfter(b, q + 1, b[q].v) BY <2>4, SkipEntriesIs DEF EndAfter
    <3>4. PICK z : z = SkipValue(b, q + 1) OBVIOUS
    <3>5. x = TryTurn(b, q, search, k, z) BY <2>4, <3>1, <3>4, TryNextTurn
    <3>6. CASE k = Rank[search]
      <4>1. x = [found |-> TRUE, pos |-> q + 1, to |-> q] BY <3>5, <3>6 DEF TryTurn
      <4>2. b[q].v = search BY <3>1, <3>2, <3>6, BencodeAssumption
      <4> QED BY <3>2, <3>3, <4>1, <4>2 DEF Error, Stops
    <3>7. CASE k > Rank[search]
      <4>1. k # Rank[search] BY <2>1, <3>2, <3>7
      <4>2. x = [found |-> FALSE, pos |-> q, to |-> q] BY <3>5, <3>7, <4>1 DEF TryTurn
      <4>3. NextKey(b, q, Rank[search]) BY <3>1, <3>2, <3>7, TokenIs
      <4>4. SkipEntries(b, q, Rank[search]) = EndAfter(b, q + 1, b[q].v)
        BY <2>1, <2>4, <4>3, SkipEntriesIs DEF EndAfter
      <4>5. q # Error BY <3>2 DEF At, Error
      <4> QED BY <3>3, <4>2, <4>3, <4>4, <4>5 DEF Stops
    <3>8. CASE k < Rank[search]
      <4>1. k # Rank[search] /\ ~(k > Rank[search]) BY <2>1, <3>2, <3>8
      <4>2. CASE z = Error
        <5>1. x = [found |-> FALSE, pos |-> Error, to |-> q] BY <3>5, <4>1, <4>2 DEF TryTurn
        <5>2. SkipEntries(b, q, r) = Error BY <3>3, <3>4, <4>2 DEF EndAfter
        <5> QED BY <5>1, <5>2 DEF Error, Stops
      <4>3. CASE z # Error
        <5>1. q + 1 \in Nat OBVIOUS
        <5>2. z \in EndsBehind(b, q + 1) BY <3>4, <5>1, SkipValueIs
        <5>3. z \in Nat /\ z > q BY <2>1, <4>3, <5>2 DEF EndsBehind
        <5>4. x = TryNext(b, z, search, k) BY <3>5, <4>1, <4>3 DEF TryTurn
        <5>5. z \in T BY <1>1, <3>2, <5>3
        <5>6. Stops(b, z, search, k, x) BY <3>2, <5>4, <5>5
        <5>7. SkipEntries(b, q, r) = SkipEntries(b, z, k) BY <3>1, <3>3, <3>4, <4>3 DEF EndAfter
        <5> QED BY <5>3, <5>6, <5>7 DEF Stops
      <4> QED BY <4>2, <4>3
    <3> QED BY <2>1, <3>2, <3>6, <3>7, <3>8
  <2> QED BY <2>2, <2>3, <2>4
<1>2. T = Nat
  <2>1. T \in SUBSET Nat OBVIOUS
  <2> HIDE DEF T
  <2> QED BY <1>1, <2>1, PositionInduction
<1> QED BY <1>2

-----------------------------------------------------------------------------
(***************************************************************************)
(* The loop over a list whose items are read by a function: it exists, and *)
(* goes on from item to item.                                              *)
(***************************************************************************)
IsEach(f, b, read) ==
  f = [n \in Nat |-> IF At(b, n, "e") THEN n + 1
                     ELSE IF read[n] = Error THEN Error ELSE f[read[n]]]

\* The loop over a list exists.
LEMMA EachExists ==
  ASSUME NEW b \in Seq(Token), NEW read, \A n \in Nat : read[n] \in EndsBehind(b, n)
  PROVE  \E f : IsEach(f, b, read)
<1>1. PICK N : N = Nat OBVIOUS
<1> DEFINE Body(n, f) == IF At(b, n, "e") THEN n + 1
                         ELSE IF read[n] = Error THEN Error ELSE f[read[n]]
           m == [n \in N |-> Left(b, n)]
           B == [z \in N \X [N -> N] |-> Body(z[1], z[2])]
<1>2. m \in [N -> Nat] BY <1>1, MeasureIs
<1>3. ASSUME NEW n \in N, read[n] # Error
      PROVE  read[n] \in N /\ Left(b, read[n]) < Left(b, n)
  <2>1. Len(b) \in Nat /\ n \in Nat BY <1>1
  <2>2. PICK q : q = read[n] OBVIOUS
  <2>3. q \in EndsBehind(b, n) BY <2>1, <2>2
  <2>4. q \in (n + 1)..(Len(b) + 1) BY <1>3, <2>2, <2>3 DEF EndsBehind
  <2>5. q \in Nat /\ q > n /\ n <= Len(b) BY <2>1, <2>4
  <2>6. Left(b, q) \in Nat /\ Left(b, n) \in Nat /\ Left(b, q) + 1 < Left(b, n)
    BY <2>1, <2>5, MeasureIs
  <2>7. Left(b, q) < Left(b, n) BY <2>6
  <2> QED BY <1>1, <2>2, <2>5, <2>7
<1>4. ASSUME NEW n \in N, NEW f \in [N -> N] PROVE Body(n, f) \in N
  <2>1. n + 1 \in N /\ Error \in N BY <1>1 DEF Error
  <2>2. read[n] # Error => f[read[n]] \in N BY <1>3
  <2> QED BY <2>1, <2>2
<1>5. B \in [N \X [N -> N] -> N] BY <1>4
<1>6. \A n \in N, f \in [N -> N] : B[<<n, f>>] = Body(n, f) OBVIOUS
<1>7. \A n \in N : m[n] = Left(b, n) OBVIOUS
<1> HIDE DEF m, B
<1>8. ASSUME NEW n \in N, NEW f \in [N -> N], NEW g \in [N -> N],
             \A k \in N : m[k] < m[n] => f[k] = g[k]
      PROVE  B[<<n, f>>] = B[<<n, g>>]
  <2>1. read[n] # Error => f[read[n]] = g[read[n]]
    <3> SUFFICES ASSUME read[n] # Error PROVE f[read[n]] = g[read[n]]
      OBVIOUS
    <3>1. PICK q : q = read[n] OBVIOUS
    <3>2. q \in N /\ Left(b, q) < Left(b, n) BY <1>3, <3>1
    <3>3. m[q] < m[n] BY <1>7, <3>2
    <3> QED BY <1>8, <3>1, <3>2, <3>3
  <2>2. Body(n, f) = Body(n, g) BY <2>1
  <2> HIDE DEF Body
  <2> QED BY <1>6, <2>2
<1> HIDE DEF Body
<1>9. LooksBack(N, N, m, B) BY <1>8 DEF LooksBack
<1>10. N # {} BY <1>1
<1>11. Defines(N, N, m, B) BY <1>2, <1>5, <1>9, <1>10 DEF Defines
<1>12. Solvable(N, N, B) BY <1>11, SolutionExists
<1>13. PICK f \in [N -> N] : \A n \in N : f[n] = B[<<n, f>>] BY <1>12 DEF Solvable
<1>14. \A n \in N : f[n] = Body(n, f) BY <1>6, <1>13
<1>15. f = [n \in N |-> Body(n, f)] BY <1>13, <1>14
<1> QED BY <1>1, <1>15 DEF IsEach, Body

\* The loop, one item unrolled.
LEMMA EachItemIs ==
  ASSUME NEW b \in Seq(Token), NEW read, \A n \in Nat : read[n] \in EndsBehind(b, n),
         NEW p \in Nat
  PROVE  EachItem(b, p, read) =
           IF At(b, p, "e") THEN p + 1
           ELSE IF read[p] = Error THEN Error ELSE EachItem(b, read[p], read)
<1> DEFINE each == CHOOSE f : IsEach(f, b, read)
<1>1. \A q : EachItem(b, q, read) = each[q] BY DEF EachItem, IsEach
<1>2. IsEach(each, b, read) BY EachExists
<1> HIDE DEF each
<1>3. each[p] = IF At(b, p, "e") THEN p + 1
                ELSE IF read[p] = Error THEN Error ELSE each[read[p]]
  BY <1>2 DEF IsEach
<1> QED BY <1>1, <1>3

(***************************************************************************)
(* If each item that is read is skipped to the same place, the list is.    *)
(***************************************************************************)
LEMMA EachItemSkips ==
  ASSUME NEW b \in Seq(Token), NEW read, \A n \in Nat : read[n] \in {Error, SkipValue(b, n)},
         NEW p \in Nat
  PROVE  EachItem(b, p, read) \in {Error, SkipItems(b, p)}
<1> DEFINE T == {q \in Nat : EachItem(b, q, read) \in {Error, SkipItems(b, q)}}
<1>1. \A n \in Nat : read[n] \in EndsBehind(b, n) BY SkipValueIs DEF EndsBehind
<1>2. ASSUME NEW n \in Nat, \A q \in Nat : q > n /\ n <= Len(b) => q \in T
      PROVE  n \in T
  <2>1. CASE At(b, n, "e")
    <3>1. EachItem(b, n, read) = n + 1 BY <1>1, <2>1, EachItemIs
    <3>2. SkipItems(b, n) = n + 1 BY <2>1, SkipItemsIs
    <3> QED BY <3>1, <3>2
  <2>2. CASE ~At(b, n, "e") /\ read[n] = Error
    <3>1. EachItem(b, n, read) = Error BY <1>1, <2>2, EachItemIs
    <3> QED BY <3>1
  <2>3. CASE ~At(b, n, "e") /\ read[n] # Error
    <3>1. PICK q : q = read[n] OBVIOUS
    <3>2. q = SkipValue(b, n) /\ q # Error BY <2>3, <3>1
    <3>3. q \in (n + 1)..(Len(b) + 1) /\ Len(b) \in Nat
      <4>1. q \in EndsBehind(b, n) BY <1>1, <3>1
      <4> QED BY <3>2, <4>1 DEF EndsBehind
    <3>4. q \in Nat /\ q > n /\ n <= Len(b) BY <3>3
    <3>5. EachItem(b, n, read) = EachItem(b, q, read) BY <1>1, <2>3, <3>1, EachItemIs
    <3>6. SkipItems(b, n) = SkipItems(b, q) BY <2>3, <3>2, SkipItemsIs
    <3>7. EachItem(b, q, read) \in {Error, SkipItems(b, q)} BY <1>2, <3>4
    <3> QED BY <3>5, <3>6, <3>7
  <2> QED BY <2>1, <2>2, <2>3
<1>3. T = Nat
  <2>1. T \in SUBSET Nat OBVIOUS
  <2> HIDE DEF T
  <2> QED BY <1>2, <2>1, PositionInduction
<1> QED BY <1>3

(***************************************************************************)
(* A value of a kind ends where skip_value ends.                           *)
(***************************************************************************)
Kinds == {"number", "length", "pieces", "flag", "name", "path"}

\* A single token.
LEMMA ReadInfoSkips ==
  ASSUME NEW b \in Seq(Token), NEW p \in Nat, NEW v
  PROVE  /\ ReadString(b, p) \in {Error, SkipValue(b, p)}
         /\ ReadUtf8(b, p) \in {Error, SkipValue(b, p)}
         /\ ReadNumber(b, p) \in {Error, SkipValue(b, p)}
         /\ ReadInfoUtf8(b, p, v) \in {Error, SkipValue(b, p)}
<1>1. At(b, p, "s") \/ At(b, p, "i") => SkipValue(b, p) = p + 1
  BY SkipValueIs DEF At
<1> QED BY <1>1 DEF ReadString, ReadUtf8, ReadNumber, ReadInfoUtf8

\* And so does one of any of the kinds parse_info asks for.
LEMMA ReadSkips ==
  ASSUME NEW b \in Seq(Token), NEW p \in Nat, NEW kind \in Kinds, NEW v
  PROVE  ReadAs(b, p, kind, v) \in {Error, SkipValue(b, p)}
<1>1. CASE kind \in {"number", "length", "pieces", "flag", "name"}
  BY <1>1, ReadInfoSkips DEF ReadAs, ReadLength, ReadPieces, ReadFlag
<1>2. CASE kind = "path"
  <2>1. PICK read : read = [n \in Nat |-> ReadInfoUtf8(b, n, v)] OBVIOUS
  <2>2. \A n \in Nat : read[n] \in {Error, SkipValue(b, n)} BY <2>1, ReadInfoSkips
  <2>3. p + 1 \in Nat OBVIOUS
  <2>4. EachItem(b, p + 1, read) \in {Error, SkipItems(b, p + 1)} BY <2>2, <2>3, EachItemSkips
  <2>5. At(b, p, "l") => SkipValue(b, p) = SkipItems(b, p + 1) BY SkipValueIs DEF At
  <2>6. ReadAs(b, p, kind, v) = ParsePath(b, p, v) BY <1>2 DEF ReadAs
  <2>7. ParsePath(b, p, v) = IF At(b, p, "l") THEN EachItem(b, p + 1, read) ELSE Error
    BY <2>1 DEF ParsePath
  <2> QED BY <2>4, <2>5, <2>6, <2>7
<1> QED BY <1>1, <1>2 DEF Kinds

(***************************************************************************)
(* A key looked up, with its value if it is there: the rest of the         *)
(* dictionary is skipped to the same place from there.                     *)
(***************************************************************************)
LookedUp(b, p, key, prev, o) ==
  /\ o \in Nat
  /\ o # Error => p # Error /\ o >= p
  /\ o # Error => SkipEntries(b, p, Rank[prev]) = SkipEntries(b, o, Rank[key])

\* A key that may or has to be there leads on to the rest of the dictionary.
LEMMA LookUp ==
  ASSUME NEW b \in Seq(Token), NEW p \in Nat, NEW key \in Str, NEW prev \in Str,
         NEW kind \in Kinds, NEW v
  PROVE  /\ LookedUp(b, p, key, prev, Optional(b, p, key, prev, kind, v))
         /\ LookedUp(b, p, key, prev, Required(b, p, key, prev, kind, v))
<1>1. PICK e : e = TryNext(b, p, key, Rank[prev]) OBVIOUS
<1>2. Rank[prev] \in Nat BY BencodeAssumption
<1>3. /\ e.found \in BOOLEAN /\ e.pos \in Nat /\ e.to \in Nat
      /\ e.found => /\ e.to >= p /\ e.pos = e.to + 1 /\ At(b, e.to, "s")
                    /\ SkipEntries(b, p, Rank[prev]) = EndAfter(b, e.pos, key)
      /\ ~e.found /\ e.pos # Error =>
           e.pos >= p /\ SkipEntries(b, p, Rank[prev]) = SkipEntries(b, e.pos, Rank[key])
  BY <1>1, <1>2, TryNextStops DEF Stops
<1>4. p = Error => e.pos = Error /\ ~e.found
  <2> SUFFICES ASSUME p = Error PROVE e.pos = Error /\ ~e.found
    OBVIOUS
  <2>1. ~At(b, p, "e") /\ ~At(b, p, "s") BY DEF At, Error
  <2>2. \A r : ~NextKey(b, p, r) BY <2>1, TokenIs
  <2>3. e = [found |-> FALSE, pos |-> Error, to |-> p] BY <1>1, <1>2, <2>1, <2>2, TryNextIs
  <2> QED BY <2>3
<1>5. PICK o, q : o = ReadAs(b, e.pos, kind, v) /\ q = SkipValue(b, e.pos) OBVIOUS
<1>6. o \in {Error, q} /\ q \in EndsBehind(b, e.pos) /\ Len(b) \in Nat
  BY <1>3, <1>5, ReadSkips, SkipValueIs
<1>7. o \in Nat /\ (o # Error => o > e.pos) BY <1>3, <1>6 DEF EndsBehind, Error
<1>8. ASSUME e.found PROVE LookedUp(b, p, key, prev, o)
  <2>1. EndAfter(b, e.pos, key) = IF q = Error THEN Error ELSE SkipEntries(b, q, Rank[key])
    BY <1>5 DEF EndAfter
  <2>2. o # Error => o >= p BY <1>3, <1>7, <1>8
  <2> QED BY <1>3, <1>4, <1>6, <1>7, <1>8, <2>1, <2>2 DEF LookedUp
<1>9. ASSUME ~e.found PROVE LookedUp(b, p, key, prev, e.pos) /\ LookedUp(b, p, key, prev, Error)
  BY <1>3, <1>4, <1>9 DEF LookedUp, Error
<1>10. /\ Optional(b, p, key, prev, kind, v) = IF e.found THEN o ELSE e.pos
       /\ Required(b, p, key, prev, kind, v) = IF e.found THEN o ELSE Error
  BY <1>1, <1>5 DEF Optional, Required
<1> QED BY <1>3, <1>8, <1>9, <1>10

(***************************************************************************)
(* parse_info and the parts of it end where skip_value ends.               *)
(***************************************************************************)
LEMMA ParseFileSkips ==
  ASSUME NEW b \in Seq(Token), NEW p \in Nat, NEW v
  PROVE  ParseFile(b, p, v) \in {Error, SkipValue(b, p)}
<1>1. PICK length, path : /\ length = Required(b, p + 1, "length", "", "length", v)
                          /\ path = Required(b, length, "path", "length", "path", v)
  OBVIOUS
<1>2. "" \in Str /\ "length" \in Str /\ "path" \in Str /\ Rank[""] = 0 /\ p + 1 \in Nat
  <2>1. "" \in Str /\ "length" \in Str /\ "path" \in Str /\ Rank[""] = 0 BY InfoAssumption
  <2>2. p + 1 \in Nat OBVIOUS
  <2> QED BY <2>1, <2>2, Zenon
<1>3. {"length", "path"} \subseteq Kinds BY DEF Kinds
<1>4. LookedUp(b, p + 1, "length", "", length) BY <1>1, <1>2, <1>3, LookUp
<1>5. LookedUp(b, length, "path", "length", path)
  <2>1. length \in Nat BY <1>4 DEF LookedUp
  <2> QED BY <1>1, <1>2, <1>3, <2>1, LookUp
<1>6. PICK r : r = SkipEntries(b, path, Rank["path"]) OBVIOUS
<1>7. ParseFile(b, p, v) = IF At(b, p, "d") THEN r ELSE Error BY <1>1, <1>6 DEF ParseFile
<1>8. path = Error => r = Error
  <2>1. Rank["path"] \in Nat /\ 0 \in Nat BY <1>2, BencodeAssumption
  <2>2. ~At(b, 0, "e") /\ ~NextKey(b, 0, Rank["path"]) BY TokenIs DEF At
  <2> QED BY <1>6, <2>1, <2>2, SkipEntriesIs DEF Error
<1>9. path # Error => r = SkipEntries(b, p + 1, 0)
  BY <1>2, <1>4, <1>5, <1>6 DEF LookedUp
<1>10. At(b, p, "d") => SkipValue(b, p) = SkipEntries(b, p + 1, 0) BY SkipValueIs DEF At
<1> QED BY <1>7, <1>8, <1>9, <1>10

\* What parse_info_files accepts ends where skip_value ends.
LEMMA ParseFilesSkips ==
  ASSUME NEW b \in Seq(Token), NEW p \in Nat, NEW v
  PROVE  ParseFiles(b, p, v) \in {Error, SkipValue(b, p)}
<1>1. PICK read : read = [n \in Nat |-> ParseFile(b, n, v)] OBVIOUS
<1>2. \A n \in Nat : read[n] \in {Error, SkipValue(b, n)} BY <1>1, ParseFileSkips
<1>3. p + 1 \in Nat OBVIOUS
<1>4. EachItem(b, p + 1, read) \in {Error, SkipItems(b, p + 1)} BY <1>2, <1>3, EachItemSkips
<1>5. At(b, p, "l") => SkipValue(b, p) = SkipItems(b, p + 1) BY SkipValueIs DEF At
<1>6. ParseFiles(b, p, v) =
        IF At(b, p, "l") /\ ~At(b, p + 1, "e") THEN EachItem(b, p + 1, read) ELSE Error
  BY <1>1 DEF ParseFiles
<1> QED BY <1>4, <1>5, <1>6

\* The keys from name on: the rest of the dictionary is skipped to where they end.
LEMMA ParseDetailsSkips ==
  ASSUME NEW b \in Seq(Token), NEW p \in Nat, NEW prev \in Str, NEW v
  PROVE  ParseDetails(b, p, prev, v) # Error =>
           /\ p # Error
           /\ ParseDetails(b, p, prev, v) = SkipEntries(b, p, Rank[prev])
<1>1. PICK name, piece, pieces, private :
        /\ name = Optional(b, p, "name", prev, "name", v)
        /\ piece = Required(b, name, "piece length", "name", "number", v)
        /\ pieces = Required(b, piece, "pieces", "piece length", "pieces", v)
        /\ private = Optional(b, pieces, "private", "pieces", "flag", v)
  OBVIOUS
<1>2. {"name", "piece length", "pieces", "private"} \subseteq Str BY InfoAssumption
<1>3. {"name", "number", "pieces", "flag"} \subseteq Kinds BY DEF Kinds
<1>4. LookedUp(b, p, "name", prev, name) BY <1>1, <1>2, <1>3, LookUp
<1>5. LookedUp(b, name, "piece length", "name", piece)
  <2>1. name \in Nat BY <1>4 DEF LookedUp
  <2> QED BY <1>1, <1>2, <1>3, <2>1, LookUp
<1>6. LookedUp(b, piece, "pieces", "piece length", pieces)
  <2>1. piece \in Nat BY <1>5 DEF LookedUp
  <2> QED BY <1>1, <1>2, <1>3, <2>1, LookUp
<1>7. LookedUp(b, pieces, "private", "pieces", private)
  <2>1. pieces \in Nat BY <1>6 DEF LookedUp
  <2> QED BY <1>1, <1>2, <1>3, <2>1, LookUp
<1>8. PICK r : r = SkipEntries(b, private, Rank["private"]) OBVIOUS
<1>9. ParseDetails(b, p, prev, v) = r BY <1>1, <1>8 DEF ParseDetails
<1>10. private = Error => r = Error
  <2>1. Rank["private"] \in Nat /\ 0 \in Nat BY <1>2, BencodeAssumption
  <2>2. ~At(b, 0, "e") /\ ~NextKey(b, 0, Rank["private"]) BY TokenIs DEF At
  <2> QED BY <1>8, <2>1, <2>2, SkipEntriesIs DEF Error
<1> QED BY <1>4, <1>5, <1>6, <1>7, <1>8, <1>9, <1>10 DEF LookedUp

(***************************************************************************)
(* What parse_info accepts is a value of the grammar, and it stops right   *)
(* behind that value: nothing of the info is left to be read as the next   *)
(* entry of the torrent, nor anything behind it taken for info.            *)
(***************************************************************************)
THEOREM ParseInfoSkips ==
  ASSUME NEW b \in Seq(Token), NEW p \in Nat, NEW v
  PROVE  ParseInfo(b, p, v) \in {Error, SkipValue(b, p)}
<1>1. PICK files : files = TryNext(b, p + 1, "files", 0) OBVIOUS
<1>2. "files" \in Str /\ "length" \in Str /\ p + 1 \in Nat /\ 0 \in Nat
  <2>1. "files" \in Str /\ "length" \in Str BY InfoAssumption
  <2> QED BY <2>1
<1>3. /\ files.pos \in Nat
      /\ files.found => SkipEntries(b, p + 1, 0) = EndAfter(b, files.pos, "files")
      /\ ~files.found /\ files.pos # Error =>
           SkipEntries(b, p + 1, 0) = SkipEntries(b, files.pos, Rank["files"])
  BY <1>1, <1>2, TryNextStops DEF Stops
<1>4. PICK list, length : /\ list = ParseFiles(b, files.pos, v)
                          /\ length = Required(b, files.pos, "length", "files", "number", v)
  OBVIOUS
<1>5. LookedUp(b, files.pos, "length", "files", length)
  <2>1. "number" \in Kinds BY DEF Kinds
  <2> QED BY <1>2, <1>3, <1>4, <2>1, LookUp
<1>6. list \in {Error, SkipValue(b, files.pos)} BY <1>3, <1>4, ParseFilesSkips
<1>7. list \in Nat
  <2>1. Len(b) \in Nat /\ SkipValue(b, files.pos) \in EndsBehind(b, files.pos) BY <1>3, SkipValueIs
  <2> QED BY <1>3, <1>6, <2>1 DEF EndsBehind, Error
<1>8. length \in Nat BY <1>5 DEF LookedUp
<1>9. ParseInfo(b, p, v) =
        IF ~At(b, p, "d") THEN Error
        ELSE IF files.found THEN ParseDetails(b, list, "files", v)
        ELSE ParseDetails(b, length, "length", v)
  BY <1>1, <1>4 DEF ParseInfo
<1>10. At(b, p, "d") => SkipValue(b, p) = SkipEntries(b, p + 1, 0) BY SkipValueIs DEF At
<1>11. CASE At(b, p, "d") /\ files.found /\ ParseInfo(b, p, v) # Error
  <2>1. list # Error /\ ParseInfo(b, p, v) = SkipEntries(b, list, Rank["files"])
    BY <1>2, <1>7, <1>9, <1>11, ParseDetailsSkips
  <2>2. EndAfter(b, files.pos, "files") = SkipEntries(b, list, Rank["files"])
    BY <1>6, <2>1 DEF EndAfter
  <2> QED BY <1>3, <1>10, <1>11, <2>1, <2>2
<1>12. CASE At(b, p, "d") /\ ~files.found /\ ParseInfo(b, p, v) # Error
  <2>1. length # Error /\ ParseInfo(b, p, v) = SkipEntries(b, length, Rank["length"])
    BY <1>2, <1>8, <1>9, <1>12, ParseDetailsSkips
  <2>2. /\ SkipEntries(b, files.pos, Rank["files"]) = SkipEntries(b, length, Rank["length"])
        /\ files.pos # Error
    BY <1>5, <2>1 DEF LookedUp
  <2> QED BY <1>3, <1>10, <1>12, <2>1, <2>2
<1> QED BY <1>9, <1>11, <1>12

(***************************************************************************)
(* parse_info stops where skip_value does, for any buffer.                 *)
(***************************************************************************)
THEOREM InfoStopsExactly == CallSpec => []InfoIsOneValue
<1> DEFINE Inv == /\ buffer \in Seq(Token)
                  /\ state = "returned" /\ goal = "parse_info" => end \in {Error, SkipValue(buffer, 1)}
<1>1. CallInit => Inv BY DEF CallInit
<1>2. Inv /\ [Call]_callvars => Inv'
  <2> SUFFICES ASSUME Inv, [Call]_callvars PROVE Inv' OBVIOUS
  <2>1. CASE Call
    <3>1. 1 \in Nat OBVIOUS
    <3>2. ParseInfo(buffer, 1, strict) \in {Error, SkipValue(buffer, 1)} BY <3>1, ParseInfoSkips
    <3> QED BY <2>1, <3>2 DEF Call
  <2>2. CASE UNCHANGED callvars BY <2>2 DEF callvars
  <2> QED BY <2>1, <2>2
<1>3. Inv => InfoIsOneValue BY DEF InfoIsOneValue
<1> QED BY <1>1, <1>2, <1>3, PTL DEF CallSpec

-----------------------------------------------------------------------------
(***************************************************************************)
(* The recursive function of parse_announce_list exists.                   *)
(***************************************************************************)
GroupsBody(b, l, f) ==
  IF At(b, l.p, "e") THEN
    IF l.open THEN f[ListFrom(l.p + 1, FALSE, l.groups)]
    ELSE [pos |-> l.p + 1, list |-> l.groups]
  ELSE IF At(b, l.p, "l") /\ ~l.open THEN
    f[ListFrom(l.p + 1, TRUE, Append(l.groups, <<>>))]
  ELSE IF ReadUtf8(b, l.p) = Error THEN NoList
  ELSE f[ListFrom(l.p + 1, l.open, Join(l.groups, b[l.p].v))]

IsGroups(f, b) == f = [l \in Lists |-> GroupsBody(b, l, f)]

\* The groups read from position p on, within a group or not, behind others.
GroupsFrom(b, p, open, groups) == (CHOOSE f : IsGroups(f, b))[ListFrom(p, open, groups)]

\* A string that joins the last group leaves groups of strings.
LEMMA JoinType ==
  ASSUME NEW U, NEW groups \in Seq(Seq(U)), NEW s \in U
  PROVE  Join(groups, s) \in Seq(Seq(U)) /\ Append(groups, <<>>) \in Seq(Seq(U))
<1>1. <<s>> \in Seq(U) /\ <<>> \in Seq(U) BY EmptySeq
<1>2. CASE groups = <<>>
  <2>1. Join(groups, s) = <<<<s>>>> BY <1>2 DEF Join
  <2>2. <<<<s>>>> \in Seq(Seq(U)) BY <1>1
  <2> QED BY <1>1, <2>1, <2>2, AppendProperties
<1>3. CASE groups # <<>>
  <2>1. PICK n, g : n = Len(groups) /\ g = Append(groups[n], s) OBVIOUS
  <2>2. n \in 1..Len(groups) /\ groups[n] \in Seq(U) BY <1>3, <2>1, EmptySeq
  <2>3. g \in Seq(U) BY <2>1, <2>2, AppendProperties
  <2>4. Join(groups, s) = [groups EXCEPT ![n] = g] BY <1>3, <2>1 DEF Join
  <2>5. [groups EXCEPT ![n] = g] \in Seq(Seq(U)) BY <2>2, <2>3
  <2> QED BY <1>1, <2>4, <2>5, AppendProperties
<1> QED BY <1>2, <1>3

\* The recursive function of parse_announce_list exists.
LEMMA GroupsExist ==
  ASSUME NEW b \in Seq(Token)
  PROVE  \E f : IsGroups(f, b)
<1>1. PICK R : R = [pos : Nat, list : Seq(Seq(Str))] OBVIOUS
<1> DEFINE m == [l \in Lists |-> Left(b, l.p)]
           B == [z \in Lists \X [Lists -> R] |-> GroupsBody(b, z[1], z[2])]
<1>2. m \in [Lists -> Nat]
  <2>1. \A l \in Lists : l.p \in Nat BY DEF Lists
  <2> QED BY <2>1, MeasureIs
<1>3. ASSUME NEW l \in Lists, NEW t, At(b, l.p, t), NEW open \in BOOLEAN, NEW g \in Seq(Seq(Str))
      PROVE  ListFrom(l.p + 1, open, g) \in Lists /\ Left(b, ListFrom(l.p + 1, open, g).p) < Left(b, l.p)
  <2>1. PICK p : p = l.p OBVIOUS
  <2>2. p \in Nat /\ p + 1 \in Nat /\ p <= Len(b) /\ p + 1 > p BY <1>3, <2>1, TokenIs DEF Lists
  <2>3. ListFrom(p + 1, open, g) \in Lists /\ ListFrom(p + 1, open, g).p = p + 1
    BY <2>2 DEF ListFrom, Lists
  <2>4. Left(b, p + 1) \in Nat /\ Left(b, p) \in Nat /\ Left(b, p + 1) + 1 < Left(b, p)
    BY <2>2, MeasureIs
  <2>5. Left(b, p + 1) < Left(b, p) BY <2>4
  <2> QED BY <2>1, <2>3, <2>5
<1>4. ASSUME NEW l \in Lists
      PROVE  /\ l.open \in BOOLEAN /\ l.groups \in Seq(Seq(Str)) /\ Append(l.groups, <<>>) \in Seq(Seq(Str))
             /\ ReadUtf8(b, l.p) # Error => At(b, l.p, "s") /\ Join(l.groups, b[l.p].v) \in Seq(Seq(Str))
  <2>1. l.open \in BOOLEAN /\ l.groups \in Seq(Seq(Str)) BY DEF Lists
  <2>2. <<>> \in Seq(Str) BY EmptySeq
  <2>3. Append(l.groups, <<>>) \in Seq(Seq(Str)) BY <2>1, <2>2, AppendProperties
  <2>4. ReadUtf8(b, l.p) # Error => At(b, l.p, "s") /\ b[l.p].v \in Str BY TokenIs DEF ReadUtf8
  <2> QED BY <2>1, <2>3, <2>4, JoinType
<1>5. ASSUME NEW l \in Lists, NEW f \in [Lists -> R] PROVE GroupsBody(b, l, f) \in R
  <2>1. l.p + 1 \in Nat BY DEF Lists
  <2>2. [pos |-> l.p + 1, list |-> l.groups] \in R BY <1>1, <1>4, <2>1
  <2>3. NoList \in R
    <3>1. <<>> \in Seq(Seq(Str)) BY EmptySeq
    <3> QED BY <1>1, <3>1 DEF NoList, Error
  <2> QED BY <1>3, <1>4, <2>2, <2>3 DEF GroupsBody
<1>6. B \in [Lists \X [Lists -> R] -> R] BY <1>5
<1>7. \A l \in Lists, f \in [Lists -> R] : B[<<l, f>>] = GroupsBody(b, l, f) OBVIOUS
<1>8. \A l \in Lists : m[l] = Left(b, l.p) OBVIOUS
<1>9. R # {}
  <2>1. <<>> \in Seq(Seq(Str)) BY EmptySeq
  <2>2. [pos |-> 0, list |-> <<>>] \in R BY <1>1, <2>1
  <2> QED BY <2>2
<1> HIDE DEF m, B
<1>10. LooksBack(Lists, R, m, B)
  <2> SUFFICES ASSUME NEW l \in Lists, NEW f \in [Lists -> R], NEW g \in [Lists -> R],
                      \A k \in Lists : m[k] < m[l] => f[k] = g[k]
               PROVE  B[<<l, f>>] = B[<<l, g>>]
    BY DEF LooksBack
  <2>1. \A k \in Lists : Left(b, k.p) < Left(b, l.p) => f[k] = g[k] BY <1>8
  <2>2. \A t, open, h : At(b, l.p, t) /\ open \in BOOLEAN /\ h \in Seq(Seq(Str)) =>
          f[ListFrom(l.p + 1, open, h)] = g[ListFrom(l.p + 1, open, h)]
    BY <1>3, <2>1
  <2>3. PICK q, c, u, s : q = l.p + 1 /\ c = l.groups /\ u = Append(c, <<>>) /\ s = Join(c, b[l.p].v)
    OBVIOUS
  <2>4. At(b, l.p, "e") => f[ListFrom(q, FALSE, c)] = g[ListFrom(q, FALSE, c)]
    <3>1. c \in Seq(Seq(Str)) BY <1>4, <2>3
    <3> QED BY ONLY <3>1, <2>2, <2>3
  <2>5. At(b, l.p, "l") => f[ListFrom(q, TRUE, u)] = g[ListFrom(q, TRUE, u)]
    <3>1. u \in Seq(Seq(Str)) BY <1>4, <2>3
    <3> QED BY ONLY <3>1, <2>2, <2>3
  <2>6. ReadUtf8(b, l.p) # Error => f[ListFrom(q, l.open, s)] = g[ListFrom(q, l.open, s)]
    <3> SUFFICES ASSUME ReadUtf8(b, l.p) # Error PROVE f[ListFrom(q, l.open, s)] = g[ListFrom(q, l.open, s)]
      OBVIOUS
    <3>1. s \in Seq(Seq(Str)) /\ At(b, l.p, "s") /\ l.open \in BOOLEAN BY <1>4, <2>3
    <3> QED BY ONLY <3>1, <2>2, <2>3
  <2>7. GroupsBody(b, l, f) = GroupsBody(b, l, g) BY <2>3, <2>4, <2>5, <2>6 DEF GroupsBody
  <2> QED BY <1>7, <2>7
<1>11. Defines(Lists, R, m, B) BY <1>2, <1>6, <1>9, <1>10 DEF Defines
<1>12. Solvable(Lists, R, B) BY <1>11, SolutionExists
<1>13. PICK f \in [Lists -> R] : \A l \in Lists : f[l] = B[<<l, f>>] BY <1>12 DEF Solvable
<1>14. \A l \in Lists : f[l] = GroupsBody(b, l, f) BY <1>7, <1>13
<1>15. f = [l \in Lists |-> GroupsBody(b, l, f)] BY <1>13, <1>14
<1> QED BY <1>15 DEF IsGroups

\* One turn of its loops.
GroupsTurn(b, p, open, groups) ==
  IF At(b, p, "e") THEN
    IF open THEN GroupsFrom(b, p + 1, FALSE, groups)
    ELSE [pos |-> p + 1, list |-> groups]
  ELSE IF At(b, p, "l") /\ ~open THEN
    GroupsFrom(b, p + 1, TRUE, Append(groups, <<>>))
  ELSE IF ReadUtf8(b, p) = Error THEN NoList
  ELSE GroupsFrom(b, p + 1, open, Join(groups, b[p].v))

\* parse_announce_list makes such turns.
LEMMA GroupsIs ==
  ASSUME NEW b \in Seq(Token), NEW p \in Nat, NEW open \in BOOLEAN, NEW groups \in Seq(Seq(Str))
  PROVE  /\ ParseGroups(b, p) = GroupsFrom(b, p, FALSE, <<>>)
         /\ GroupsFrom(b, p, open, groups) = GroupsTurn(b, p, open, groups)
<1> DEFINE parse == CHOOSE f : IsGroups(f, b)
<1>1. \A q, o, g : GroupsFrom(b, q, o, g) = parse[ListFrom(q, o, g)] BY DEF GroupsFrom
<1>2. ParseGroups(b, p) = GroupsFrom(b, p, FALSE, <<>>)
  BY DEF GroupsFrom, ParseGroups, IsGroups, GroupsBody
<1>3. IsGroups(parse, b) BY GroupsExist
<1> HIDE DEF parse
<1>4. PICK l : l = ListFrom(p, open, groups) OBVIOUS
<1>5. l \in Lists /\ l.p = p /\ l.open = open /\ l.groups = groups BY <1>4 DEF ListFrom, Lists
<1>6. parse[l] = GroupsBody(b, l, parse) BY <1>3, <1>5 DEF IsGroups
<1>7. GroupsBody(b, l, parse) = GroupsTurn(b, p, open, groups)
  BY <1>1, <1>5 DEF GroupsBody, GroupsTurn
<1> QED BY <1>1, <1>2, <1>4, <1>6, <1>7

(***************************************************************************)
(* The groups end where the list of them is skipped to; all urls in them   *)
(* are valid utf-8.                                                        *)
(***************************************************************************)
LEMMA GroupsSkip ==
  ASSUME NEW b \in Seq(Token), NEW p \in Nat, NEW open \in BOOLEAN, NEW groups \in Seq(Seq(Utf8)),
         NEW x, x = GroupsFrom(b, p, open, groups)
  PROVE  /\ x.list \in Seq(Seq(Utf8))
         /\ x.pos \in {Error, IF open THEN SkipItems(b, SkipItems(b, p)) ELSE SkipItems(b, p)}
<1> DEFINE Skips(q, o, y) ==
             /\ y.list \in Seq(Seq(Utf8))
             /\ y.pos \in {Error, IF o THEN SkipItems(b, SkipItems(b, q)) ELSE SkipItems(b, q)}
           T == {q \in Nat : \A o \in BOOLEAN, g \in Seq(Seq(Utf8)) : Skips(q, o, GroupsFrom(b, q, o, g))}
<1>1. Seq(Seq(Utf8)) \subseteq Seq(Seq(Str)) BY BencodeAssumption
<1>2. Len(b) \in Nat OBVIOUS
<1>3. ASSUME NEW q \in Nat, \A n \in Nat : n > q /\ q <= Len(b) => n \in T
      PROVE  q \in T
  <2> SUFFICES ASSUME NEW o \in BOOLEAN, NEW g \in Seq(Seq(Utf8)),
                      NEW y, y = GroupsFrom(b, q, o, g)
               PROVE  Skips(q, o, y)
    OBVIOUS
  <2>1. g \in Seq(Seq(Str)) BY <1>1
  <2>2. y = GroupsTurn(b, q, o, g) BY <2>1, GroupsIs
  <2>3. \A t : At(b, q, t) => q <= Len(b) BY TokenIs
  <2>4. \A t, k, h : At(b, q, t) /\ k \in BOOLEAN /\ h \in Seq(Seq(Utf8)) =>
                       Skips(q + 1, k, GroupsFrom(b, q + 1, k, h))
    <3> SUFFICES ASSUME NEW t, At(b, q, t), NEW k \in BOOLEAN, NEW h \in Seq(Seq(Utf8))
                 PROVE  Skips(q + 1, k, GroupsFrom(b, q + 1, k, h))
      OBVIOUS
    <3>1. q + 1 \in Nat /\ q + 1 > q /\ q <= Len(b) BY <2>3
    <3>2. q + 1 \in T BY <1>3, <3>1
    <3> HIDE DEF Skips
    <3> QED BY <3>2
  <2>5. CASE At(b, q, "e")
    <3>1. SkipItems(b, q) = q + 1 BY <2>5, SkipItemsIs
    <3>2. CASE o
      <4>1. y = GroupsFrom(b, q + 1, FALSE, g) BY <2>2, <2>5, <3>2 DEF GroupsTurn
      <4>2. Skips(q + 1, FALSE, y) BY <2>4, <2>5, <4>1
      <4> QED BY <3>1, <3>2, <4>2
    <3>3. CASE ~o
      <4>1. y = [pos |-> q + 1, list |-> g] BY <2>2, <2>5, <3>3 DEF GroupsTurn
      <4> QED BY <3>1, <3>3, <4>1
    <3> QED BY <3>2, <3>3
  <2>6. CASE ~At(b, q, "e") /\ At(b, q, "l") /\ ~o
    <3>1. y = GroupsFrom(b, q + 1, TRUE, Append(g, <<>>)) BY <2>2, <2>6 DEF GroupsTurn
    <3>2. Append(g, <<>>) \in Seq(Seq(Utf8))
      <4>1. <<>> \in Seq(Utf8) BY EmptySeq
      <4> QED BY <4>1, AppendProperties
    <3>3. Skips(q + 1, TRUE, y) BY <2>4, <2>6, <3>1, <3>2
    <3>4. PICK r : r = SkipItems(b, q + 1) OBVIOUS
    <3>5. SkipValue(b, q) = r BY <2>6, <3>4, SkipValueIs DEF At
    <3>6. SkipItems(b, q) = IF r = Error THEN Error ELSE SkipItems(b, r) BY <2>6, <3>5, SkipItemsIs
    <3>7. r = Error => SkipItems(b, r) = Error
      <4> SUFFICES ASSUME r = Error PROVE SkipItems(b, r) = Error
        OBVIOUS
      <4>1. ~At(b, r, "e") /\ ~At(b, r, "s") /\ ~At(b, r, "i") /\ ~At(b, r, "l") /\ ~At(b, r, "d")
        BY DEF At, Error
      <4>2. r \in Nat BY DEF Error
      <4>3. SkipValue(b, r) = Error BY <4>1, <4>2, SkipValueIs
      <4> QED BY <4>1, <4>2, <4>3, SkipItemsIs
    <3> QED BY <2>6, <3>3, <3>4, <3>6, <3>7
  <2>7. CASE ~At(b, q, "e") /\ ~(At(b, q, "l") /\ ~o) /\ ReadUtf8(b, q) = Error
    <3>1. y = NoList BY <2>2, <2>7 DEF GroupsTurn
    <3>2. <<>> \in Seq(Seq(Utf8)) BY EmptySeq
    <3> QED BY <3>1, <3>2 DEF NoList
  <2>8. CASE ~At(b, q, "e") /\ ~(At(b, q, "l") /\ ~o) /\ ReadUtf8(b, q) # Error
    <3>1. y = GroupsFrom(b, q + 1, o, Join(g, b[q].v)) BY <2>2, <2>8 DEF GroupsTurn
    <3>2. At(b, q, "s") /\ b[q].v \in Utf8 BY <2>8 DEF ReadUtf8
    <3>3. Join(g, b[q].v) \in Seq(Seq(Utf8)) BY <3>2, JoinType
    <3>4. Skips(q + 1, o, y) BY <2>4, <3>1, <3>2, <3>3
    <3>5. SkipValue(b, q) = q + 1 BY <3>2, SkipValueIs DEF At
    <3>6. SkipItems(b, q) = SkipItems(b, q + 1) BY <2>8, <3>5, SkipItemsIs DEF Error
    <3> QED BY <3>4, <3>6
  <2> QED BY <2>5, <2>6, <2>7, <2>8
<1>4. T = Nat
  <2>1. T \in SUBSET Nat OBVIOUS
  <2> HIDE DEF T
  <2> QED BY <1>3, <2>1, PositionInduction
<1>5. \A q \in Nat, o \in BOOLEAN, g \in Seq(Seq(Utf8)) : Skips(q, o, GroupsFrom(b, q, o, g))
  <2> HIDE DEF Skips
  <2> QED BY <1>4
<1>6. Skips(p, open, x)
  <2> HIDE DEF Skips
  <2> QED BY <1>5
<1> QED BY <1>6

(***************************************************************************)
(* parse_announce_list stops where skip_value does.                        *)
(***************************************************************************)
THEOREM ParseAnnounceListSkips ==
  ASSUME NEW b \in Seq(Token), NEW p \in Nat, NEW al, al = ParseAnnounceList(b, p)
  PROVE  /\ al.pos \in {Error, SkipValue(b, p)}
         /\ al.list \in Seq(Seq(Utf8))
<1>1. <<>> \in Seq(Seq(Utf8)) /\ <<>> \in Seq(Seq(Str)) BY EmptySeq
<1>2. CASE At(b, p, "l")
  <2>1. al = GroupsFrom(b, p + 1, FALSE, <<>>)
    <3>1. p + 1 \in Nat OBVIOUS
    <3>2. al = ParseGroups(b, p + 1) BY <1>2 DEF ParseAnnounceList
    <3> QED BY <1>1, <3>1, <3>2, GroupsIs
  <2>2. al.list \in Seq(Seq(Utf8)) /\ al.pos \in {Error, SkipItems(b, p + 1)}
    <3>1. PICK q, g : q = p + 1 /\ g = <<>> OBVIOUS
    <3>2. q \in Nat /\ g \in Seq(Seq(Utf8)) BY <1>1, <3>1
    <3>3. al = GroupsFrom(b, q, FALSE, g) BY <2>1, <3>1
    <3>4. al.list \in Seq(Seq(Utf8)) /\ al.pos \in {Error, SkipItems(b, q)} BY <3>2, <3>3, GroupsSkip
    <3> QED BY <3>1, <3>4
  <2>3. SkipValue(b, p) = SkipItems(b, p + 1) BY <1>2, SkipValueIs DEF At
  <2> QED BY <2>2, <2>3
<1>3. CASE ~At(b, p, "l") /\ ReadUtf8(b, p) = Error
  <2>1. al = NoList BY <1>3 DEF ParseAnnounceList
  <2> QED BY <1>1, <2>1 DEF NoList
<1>4. CASE ~At(b, p, "l") /\ ReadUtf8(b, p) # Error
  <2>1. al = [pos |-> p + 1, list |-> <<<<b[p].v>>>>] BY <1>4 DEF ParseAnnounceList
  <2>2. At(b, p, "s") /\ b[p].v \in Utf8 BY <1>4 DEF ReadUtf8
  <2>3. <<<<b[p].v>>>> \in Seq(Seq(Utf8)) BY <2>2
  <2>4. SkipValue(b, p) = p + 1 BY <2>2, SkipValueIs DEF At
  <2> QED BY <2>1, <2>3, <2>4
<1> QED BY <1>2, <1>3, <1>4

-----------------------------------------------------------------------------
(***************************************************************************)
(* Reading a part of a buffer.  A buffer c lies in b behind the first d    *)
(* tokens; what is read of c is what is read of b, unless this goes beyond *)
(* the end of c.                                                           *)
(***************************************************************************)
LiesIn(c, b, d) ==
  /\ d \in Nat /\ Len(c) + d <= Len(b)
  /\ \A i \in 1..Len(c) : c[i] = b[i + d]

\* The position y of b as one of c.
Seen(c, d, y) == IF y # Error /\ y <= Len(c) + d + 1 THEN y - d ELSE Error

\* The position behind something in b that has been read from the i-th token of c on.
LEMMA SeenIs ==
  ASSUME NEW b \in Seq(Token), NEW c \in Seq(Token), NEW d, LiesIn(c, b, d),
         NEW i \in Nat, i # 0, NEW y \in EndsBehind(b, i + d), NEW x, x = Seen(c, d, y)
  PROVE  /\ x \in EndsBehind(c, i)
         /\ x # Error => y # Error /\ y = x + d
         /\ x = Error => y = Error \/ y > Len(c) + d + 1
         /\ i > Len(c) => x = Error
<1>1. Len(b) \in Nat /\ Len(c) \in Nat /\ d \in Nat BY DEF LiesIn
<1>2. y = 0 \/ (y \in Int /\ y > i + d) BY <1>1 DEF EndsBehind, Error
<1> QED BY <1>1, <1>2 DEF Seen, EndsBehind, Error

\* The tokens are the same.
LEMMA SameTokens ==
  ASSUME NEW b \in Seq(Token), NEW c \in Seq(Token), NEW d, LiesIn(c, b, d),
         NEW i \in 1..Len(c)
  PROVE  /\ c[i] = b[i + d]
         /\ \A t : At(c, i, t) <=> At(b, i + d, t)
         /\ \A prev : NextKey(c, i, prev) <=> NextKey(b, i + d, prev)
         /\ (ReadUtf8(c, i) = Error) <=> (ReadUtf8(b, i + d) = Error)
<1>1. Len(b) \in Nat /\ Len(c) \in Nat /\ d \in Nat /\ i + d \in 1..Len(b) BY DEF LiesIn
<1>2. c[i] = b[i + d] BY DEF LiesIn
<1>3. \A t : At(c, i, t) <=> At(b, i + d, t) BY <1>1, <1>2 DEF At
<1>4. (ReadUtf8(c, i) = Error) <=> (ReadUtf8(b, i + d) = Error)
  BY <1>1, <1>2, <1>3 DEF ReadUtf8, Error
<1> QED BY <1>2, <1>3, <1>4 DEF NextKey

\* Behind the last token there is nothing to read.
LEMMA NothingBehind ==
  ASSUME NEW c \in Seq(Token), NEW i \in Nat, i = 0 \/ i > Len(c)
  PROVE  /\ \A t : ~At(c, i, t)
         /\ \A prev : ~NextKey(c, i, prev)
         /\ SkipValue(c, i) = Error /\ SkipItems(c, i) = Error
         /\ \A prev \in Nat : SkipEntries(c, i, prev) = Error
<1>1. \A t : ~At(c, i, t) BY DEF At
<1>2. \A prev : ~NextKey(c, i, prev) BY <1>1, TokenIs
<1>3. SkipValue(c, i) = Error BY <1>1, SkipValueIs
<1> QED BY <1>1, <1>2, <1>3, SkipItemsIs, SkipEntriesIs

\* What is skipped in one place is skipped in the other.
SkipsAlike(c, b, d, i) ==
  /\ SkipValue(c, i) = Seen(c, d, SkipValue(b, i + d))
  /\ SkipItems(c, i) = Seen(c, d, SkipItems(b, i + d))
  /\ \A prev \in Nat : SkipEntries(c, i, prev) = Seen(c, d, SkipEntries(b, i + d, prev))

\* In a part of a buffer all skip alike.
LEMMA SkipSeen ==
  ASSUME NEW b \in Seq(Token), NEW c \in Seq(Token), NEW d, LiesIn(c, b, d)
  PROVE  \A i \in Nat : i # 0 => SkipsAlike(c, b, d, i)
<1>1. Len(b) \in Nat /\ Len(c) \in Nat /\ d \in Nat BY DEF LiesIn
<1> DEFINE T == {i \in Nat : i # 0 => SkipsAlike(c, b, d, i)}
<1>2. ASSUME NEW i \in Nat, \A q \in Nat : q > i /\ i <= Len(c) => q \in T PROVE i \in T
  <2> SUFFICES ASSUME i # 0 PROVE SkipsAlike(c, b, d, i)
    OBVIOUS
  <2>1. PICK k : k = i + d OBVIOUS
  <2>2. k \in Nat BY <1>1, <2>1
  <2>3. CASE i > Len(c)
    <3>1. \A y \in EndsBehind(b, k) : Seen(c, d, y) = Error BY <2>1, <2>3, SeenIs
    <3>2. SkipValue(b, k) \in EndsBehind(b, k) /\ SkipItems(b, k) \in EndsBehind(b, k)
      BY <2>2, SkipValueIs, SkipItemsIs
    <3>3. \A prev \in Nat : SkipEntries(b, k, prev) \in EndsBehind(b, k) BY <2>2, SkipEntriesIs
    <3> QED BY <2>1, <2>3, <3>1, <3>2, <3>3, NothingBehind DEF SkipsAlike
  <2>4. CASE i <= Len(c)
    <3>1. i \in 1..Len(c) BY <1>1, <2>4
    <3>2. c[i] = b[k] /\ (\A t : At(c, i, t) <=> At(b, k, t)) /\ \A prev : NextKey(c, i, prev) <=> NextKey(b, k, prev)
      BY <2>1, <3>1, SameTokens
    <3>3. \A q \in Nat : q > i => SkipsAlike(c, b, d, q) BY <1>2, <2>4
    <3>4. SkipsAlike(c, b, d, i + 1) BY <3>3
    <3>5. i + 1 \in Nat /\ k + 1 \in Nat /\ (i + 1) + d = k + 1 BY <1>1, <2>1
    <3>6. Seen(c, d, k + 1) = i + 1
      BY <1>1, <2>1, <2>4 DEF Seen, Error
    <3>7. Seen(c, d, Error) = Error BY DEF Seen
    <3>8. SkipValue(c, i) = Seen(c, d, SkipValue(b, k))
      <4>1. /\ SkipItems(c, i + 1) = Seen(c, d, SkipItems(b, k + 1))
            /\ SkipEntries(c, i + 1, 0) = Seen(c, d, SkipEntries(b, k + 1, 0))
        BY <3>4, <3>5 DEF SkipsAlike
      <4>2. CASE At(c, i, "s") \/ At(c, i, "i")
        <5>1. SkipValue(c, i) = i + 1 BY <4>2, SkipValueIs DEF At
        <5>2. SkipValue(b, k) = k + 1 BY <2>2, <3>2, <4>2, SkipValueIs DEF At
        <5> QED BY <3>6, <5>1, <5>2
      <4>3. CASE At(c, i, "l")
        <5>1. SkipValue(c, i) = SkipItems(c, i + 1) BY <4>3, SkipValueIs DEF At
        <5>2. SkipValue(b, k) = SkipItems(b, k + 1) BY <2>2, <3>2, <4>3, SkipValueIs DEF At
        <5> QED BY <4>1, <5>1, <5>2
      <4>4. CASE At(c, i, "d")
        <5>1. SkipValue(c, i) = SkipEntries(c, i + 1, 0) BY <4>4, SkipValueIs DEF At
        <5>2. SkipValue(b, k) = SkipEntries(b, k + 1, 0) BY <2>2, <3>2, <4>4, SkipValueIs DEF At
        <5> QED BY <4>1, <5>1, <5>2
      <4>5. CASE ~At(c, i, "s") /\ ~At(c, i, "i") /\ ~At(c, i, "l") /\ ~At(c, i, "d")
        <5>1. SkipValue(c, i) = Error BY <4>5, SkipValueIs
        <5>2. SkipValue(b, k) = Error BY <2>2, <3>2, <4>5, SkipValueIs
        <5> QED BY <3>7, <5>1, <5>2
      <4> QED BY <4>2, <4>3, <4>4, <4>5
    <3>9. SkipItems(c, i) = Seen(c, d, SkipItems(b, k))
      <4>1. CASE At(c, i, "e")
        <5>1. SkipItems(c, i) = i + 1 /\ SkipItems(b, k) = k + 1 BY <2>2, <3>2, <4>1, SkipItemsIs
        <5> QED BY <3>6, <5>1
      <4>2. CASE ~At(c, i, "e")
        <5>1. PICK x, y : x = SkipValue(c, i) /\ y = SkipValue(b, k) OBVIOUS
        <5>2. y \in EndsBehind(b, i + d) /\ x = Seen(c, d, y) BY <2>1, <2>2, <3>8, <5>1, SkipValueIs
        <5>3. /\ x \in EndsBehind(c, i)
              /\ x # Error => y # Error /\ y = x + d
              /\ x = Error => y = Error \/ y > Len(c) + d + 1
          BY <5>2, SeenIs
        <5>4. SkipItems(c, i) = IF x = Error THEN Error ELSE SkipItems(c, x) BY <4>2, <5>1, SkipItemsIs
        <5>5. SkipItems(b, k) = IF y = Error THEN Error ELSE SkipItems(b, y)
          BY <2>2, <3>2, <4>2, <5>1, SkipItemsIs
        <5>6. CASE x # Error
          <6>1. x \in Nat /\ x > i BY <1>1, <5>3, <5>6 DEF EndsBehind
          <6>2. SkipItems(c, x) = Seen(c, d, SkipItems(b, x + d)) BY <3>3, <6>1 DEF SkipsAlike
          <6> QED BY <5>3, <5>4, <5>5, <5>6, <6>2
        <5>7. CASE x = Error /\ y = Error BY <3>7, <5>4, <5>5, <5>7
        <5>8. CASE x = Error /\ y # Error
          <6>1. y \in Nat /\ y > Len(c) + d + 1 BY <1>1, <2>2, <2>1, <5>2, <5>3, <5>8 DEF EndsBehind
          <6>2. SkipItems(b, y) \in EndsBehind(b, y) BY <6>1, SkipItemsIs
          <6>3. Seen(c, d, SkipItems(b, y)) = Error BY <1>1, <6>1, <6>2 DEF Seen, EndsBehind
          <6> QED BY <5>4, <5>5, <5>8, <6>3
        <5> QED BY <5>6, <5>7, <5>8
      <4> QED BY <4>1, <4>2
    <3>10. ASSUME NEW prev \in Nat
           PROVE  SkipEntries(c, i, prev) = Seen(c, d, SkipEntries(b, k, prev))
      <4>1. CASE At(c, i, "e")
        <5>1. SkipEntries(c, i, prev) = i + 1 /\ SkipEntries(b, k, prev) = k + 1
          BY <2>2, <3>2, <4>1, SkipEntriesIs
        <5> QED BY <3>6, <5>1
      <4>2. CASE ~At(c, i, "e") /\ ~NextKey(c, i, prev)
        <5>1. SkipEntries(c, i, prev) = Error /\ SkipEntries(b, k, prev) = Error
          BY <2>2, <3>2, <4>2, SkipEntriesIs
        <5> QED BY <3>7, <5>1
      <4>3. CASE ~At(c, i, "e") /\ NextKey(c, i, prev)
        <5>1. PICK x, y, r : x = SkipValue(c, i + 1) /\ y = SkipValue(b, k + 1) /\ r = Rank[c[i].v] OBVIOUS
        <5>2. y \in EndsBehind(b, i + 1 + d) /\ x = Seen(c, d, y)
          BY <3>4, <3>5, <5>1, SkipValueIs DEF SkipsAlike
        <5>3. /\ x \in EndsBehind(c, i + 1)
              /\ x # Error => y # Error /\ y = x + d
              /\ x = Error => y = Error \/ y > Len(c) + d + 1
          BY <5>2, SeenIs
        <5>4. SkipEntries(c, i, prev) = IF x = Error THEN Error ELSE SkipEntries(c, x, r)
          BY <4>3, <5>1, SkipEntriesIs
        <5>5. SkipEntries(b, k, prev) = IF y = Error THEN Error ELSE SkipEntries(b, y, r)
          BY <2>2, <3>2, <4>3, <5>1, SkipEntriesIs
        <5>6. r \in Nat BY <4>3, <5>1, TokenIs
        <5>7. CASE x # Error
          <6>1. x \in Nat /\ x > i BY <1>1, <5>3, <5>7 DEF EndsBehind
          <6>2. SkipEntries(c, x, r) = Seen(c, d, SkipEntries(b, x + d, r))
            BY <3>3, <5>6, <6>1 DEF SkipsAlike
          <6> QED BY <5>3, <5>4, <5>5, <5>7, <6>2
        <5>8. CASE x = Error /\ y = Error BY <3>7, <5>4, <5>5, <5>8
        <5>9. CASE x = Error /\ y # Error
          <6>1. y \in Nat /\ y > Len(c) + d + 1 BY <1>1, <2>2, <2>1, <5>2, <5>3, <5>9 DEF EndsBehind
          <6>2. SkipEntries(b, y, r) \in EndsBehind(b, y) BY <5>6, <6>1, SkipEntriesIs
          <6>3. Seen(c, d, SkipEntries(b, y, r)) = Error BY <1>1, <6>1, <6>2 DEF Seen, EndsBehind
          <6> QED BY <5>4, <5>5, <5>9, <6>3
        <5> QED BY <5>7, <5>8, <5>9
      <4> QED BY <4>1, <4>2, <4>3
    <3> QED BY <2>1, <3>8, <3>9, <3>10 DEF SkipsAlike
  <2> QED BY <1>1, <2>3, <2>4
<1>3. T = Nat
  <2>1. T \in SUBSET Nat OBVIOUS
  <2> HIDE DEF T
  <2> QED BY <1>2, <2>1, PositionInduction
<1> QED BY <1>3

(***************************************************************************)
(* A key looked up in one place is found in the other.                     *)
(***************************************************************************)
SeesEntry(c, d, e, f) ==
  IF e.pos = Error THEN ~e.found /\ (f.pos = Error \/ f.pos > Len(c) + d)
  ELSE f.pos = e.pos + d /\ f.found = e.found /\ f.to = e.to + d /\ e.pos <= Len(c) + 1

\* And try_next_dict_entry finds the same.
LEMMA TrySeen ==
  ASSUME NEW b \in Seq(Token), NEW c \in Seq(Token), NEW d, LiesIn(c, b, d), NEW search \in Str
  PROVE  \A i, prev \in Nat : i # 0 =>
           SeesEntry(c, d, TryNext(c, i, search, prev), TryNext(b, i + d, search, prev))
<1>1. Len(b) \in Nat /\ Len(c) \in Nat /\ d \in Nat BY DEF LiesIn
<1> DEFINE T == {i \in Nat : i # 0 => \A prev \in Nat :
                   SeesEntry(c, d, TryNext(c, i, search, prev), TryNext(b, i + d, search, prev))}
<1>2. ASSUME NEW i \in Nat, \A q \in Nat : q > i /\ i <= Len(c) => q \in T PROVE i \in T
  <2> SUFFICES ASSUME i # 0, NEW prev \in Nat, NEW e, e = TryNext(c, i, search, prev),
                      NEW f, f = TryNext(b, i + d, search, prev)
               PROVE  SeesEntry(c, d, e, f)
    OBVIOUS
  <2>1. PICK k : k = i + d OBVIOUS
  <2>2. k \in Nat /\ f = TryNext(b, k, search, prev) BY <1>1, <2>1
  <2>3. f.pos \in Nat /\ (f.pos = Error \/ f.pos >= k)
    <3>1. Stops(b, k, search, prev, f) BY <2>2, TryNextStops
    <3> QED BY <2>2, <3>1 DEF Stops
  <2>4. CASE i > Len(c)
    <3>1. e = [found |-> FALSE, pos |-> Error, to |-> i] BY <2>4, NothingBehind, TryNextIs
    <3>2. f.pos = Error \/ f.pos > Len(c) + d BY <1>1, <2>1, <2>2, <2>3, <2>4
    <3> QED BY <3>1, <3>2 DEF SeesEntry
  <2>5. CASE i <= Len(c)
    <3>1. i \in 1..Len(c) BY <1>1, <2>5
    <3>2. c[i] = b[k] /\ (At(c, i, "e") <=> At(b, k, "e")) /\ (NextKey(c, i, prev) <=> NextKey(b, k, prev))
      BY <2>1, <3>1, SameTokens
    <3>3. i # Error /\ i + 1 # Error /\ i + 1 \in Nat BY <3>1 DEF Error
    <3>4. CASE At(c, i, "e")
      <4>1. e = [found |-> FALSE, pos |-> i, to |-> i] BY <3>4, TryNextIs
      <4>2. f = [found |-> FALSE, pos |-> k, to |-> k]
        <5>1. At(b, k, "e") BY <3>2, <3>4
        <5> QED BY <2>2, <5>1, TryNextIs
      <4>3. /\ e.pos = i /\ e.found = FALSE /\ e.to = i
            /\ f.pos = k /\ f.found = FALSE /\ f.to = k
        BY <4>1, <4>2
      <4>4. k = i + d /\ i <= Len(c) + 1 BY <1>1, <2>1, <2>5
      <4> QED BY <3>3, <4>3, <4>4 DEF SeesEntry
    <3>5. CASE ~At(c, i, "e") /\ ~NextKey(c, i, prev)
      <4>1. /\ e = [found |-> FALSE, pos |-> Error, to |-> i]
            /\ f = [found |-> FALSE, pos |-> Error, to |-> k]
        BY <2>2, <3>2, <3>5, TryNextIs
      <4> QED BY <4>1 DEF SeesEntry
    <3>6. CASE ~At(c, i, "e") /\ NextKey(c, i, prev)
      <4>1. PICK r, x, y : r = Rank[c[i].v] /\ x = SkipValue(c, i + 1) /\ y = SkipValue(b, k + 1) OBVIOUS
      <4>2. r \in Nat /\ Rank[search] \in Nat BY <3>6, <4>1, TokenIs, BencodeAssumption
      <4>3. e = TryTurn(c, i, search, r, x) BY <3>6, <4>1, TryNextTurn
      <4>4. f = TryTurn(b, k, search, r, y)
        <5>1. r = Rank[b[k].v] BY <3>2, <4>1
        <5>2. ~At(b, k, "e") /\ NextKey(b, k, prev) BY <3>2, <3>6
        <5> QED BY <2>2, <4>1, <5>1, <5>2, TryNextTurn
      <4>5. CASE r = Rank[search]
        <5>1. e = [found |-> TRUE, pos |-> i + 1, to |-> i] BY <4>3, <4>5 DEF TryTurn
        <5>2. f = [found |-> TRUE, pos |-> k + 1, to |-> k] BY <4>4, <4>5 DEF TryTurn
        <5>3. /\ e.pos = i + 1 /\ e.found = TRUE /\ e.to = i
              /\ f.pos = k + 1 /\ f.found = TRUE /\ f.to = k
          BY <5>1, <5>2
        <5>4. k = i + d /\ k + 1 = (i + 1) + d /\ i + 1 <= Len(c) + 1 BY <1>1, <2>1, <2>5
        <5> QED BY <3>3, <5>3, <5>4 DEF SeesEntry
      <4>6. CASE r > Rank[search]
        <5>1. r # Rank[search] BY <4>2, <4>6
        <5>2. e = [found |-> FALSE, pos |-> i, to |-> i] BY <4>3, <4>6, <5>1 DEF TryTurn
        <5>3. f = [found |-> FALSE, pos |-> k, to |-> k] BY <4>4, <4>6, <5>1 DEF TryTurn
        <5>4. /\ e.pos = i /\ e.found = FALSE /\ e.to = i
              /\ f.pos = k /\ f.found = FALSE /\ f.to = k
          BY <5>2, <5>3
        <5>5. k = i + d /\ i <= Len(c) + 1 BY <1>1, <2>1, <2>5
        <5> QED BY <3>3, <5>4, <5>5 DEF SeesEntry
      <4>7. CASE r < Rank[search]
        <5>1. r # Rank[search] /\ ~(r > Rank[search]) BY <4>2, <4>7
        <5>2. y \in EndsBehind(b, i + 1 + d) /\ x = Seen(c, d, y)
          <6>1. SkipsAlike(c, b, d, i + 1) BY <3>3, SkipSeen
          <6>2. k + 1 = i + 1 + d /\ k + 1 \in Nat BY <1>1, <2>1
          <6> QED BY <4>1, <6>1, <6>2, SkipValueIs DEF SkipsAlike
        <5>3. /\ x \in EndsBehind(c, i + 1)
              /\ x # Error => y # Error /\ y = x + d
              /\ x = Error => y = Error \/ y > Len(c) + d + 1
          BY <3>3, <5>2, SeenIs DEF Error
        <5>4. CASE x # Error
          <6>1. x \in Nat /\ x > i /\ x # 0 BY <1>1, <5>3, <5>4 DEF EndsBehind
          <6>2. x \in T BY <1>2, <2>5, <6>1
          <6>3. SeesEntry(c, d, TryNext(c, x, search, r), TryNext(b, x + d, search, r))
            BY <4>2, <6>1, <6>2
          <6> QED BY <4>3, <4>4, <5>1, <5>3, <5>4, <6>3 DEF TryTurn
        <5>5. CASE x = Error /\ y = Error
          <6>1. e.pos = Error /\ ~e.found /\ f.pos = Error BY <4>3, <4>4, <5>1, <5>5 DEF TryTurn
          <6> QED BY <6>1 DEF SeesEntry
        <5>6. CASE x = Error /\ y # Error
          <6>1. y \in Nat /\ y > Len(c) + d + 1 BY <1>1, <5>2, <5>3, <5>6 DEF EndsBehind
          <6>2. f = TryNext(b, y, search, r) BY <4>4, <5>1, <5>6 DEF TryTurn
          <6>3. Stops(b, y, search, r, f) BY <4>2, <6>1, <6>2, TryNextStops
          <6>4. f.pos \in Nat /\ (f.pos = Error \/ f.pos >= y) BY <6>1, <6>3 DEF Stops
          <6>5. f.pos = Error \/ f.pos > Len(c) + d BY <1>1, <6>1, <6>4
          <6>6. e.pos = Error /\ ~e.found BY <4>3, <5>1, <5>6 DEF TryTurn
          <6> QED BY <6>5, <6>6 DEF SeesEntry
        <5> QED BY <5>4, <5>5, <5>6
      <4> QED BY <4>2, <4>5, <4>6, <4>7
    <3> QED BY <3>4, <3>5, <3>6
  <2> QED BY <1>1, <2>4, <2>5
<1>3. T = Nat
  <2>1. T \in SUBSET Nat OBVIOUS
  <2> HIDE DEF T
  <2> QED BY <1>2, <2>1, PositionInduction
<1> QED BY <1>3

(***************************************************************************)
(* So is a list whose items are read in one place as in the other.         *)
(***************************************************************************)
LEMMA EachSeen ==
  ASSUME NEW b \in Seq(Token), NEW c \in Seq(Token), NEW d, LiesIn(c, b, d), NEW u, NEW w,
         \A n \in Nat : u[n] \in {Error, SkipValue(c, n)},
         \A n \in Nat : w[n] \in {Error, SkipValue(b, n)},
         \A n \in Nat : n # 0 => u[n] = Seen(c, d, w[n + d])
  PROVE  \A i \in Nat : i # 0 => EachItem(c, i, u) = Seen(c, d, EachItem(b, i + d, w))
<1>1. Len(b) \in Nat /\ Len(c) \in Nat /\ d \in Nat BY DEF LiesIn
<1>2. \A n \in Nat : u[n] \in EndsBehind(c, n) /\ w[n] \in EndsBehind(b, n) BY SkipValueIs DEF EndsBehind
<1>3. \A n \in Nat : EachItem(b, n, w) \in EndsBehind(b, n) BY EachItemSkips, SkipItemsIs DEF EndsBehind
<1> DEFINE T == {i \in Nat : i # 0 => EachItem(c, i, u) = Seen(c, d, EachItem(b, i + d, w))}
<1>4. ASSUME NEW i \in Nat, \A q \in Nat : q > i /\ i <= Len(c) => q \in T PROVE i \in T
  <2> SUFFICES ASSUME i # 0 PROVE EachItem(c, i, u) = Seen(c, d, EachItem(b, i + d, w))
    OBVIOUS
  <2>1. PICK k, x, y : k = i + d /\ x = u[i] /\ y = w[k] OBVIOUS
  <2>2. k \in Nat /\ x = Seen(c, d, y) /\ y \in EndsBehind(b, i + d) BY <1>1, <1>2, <2>1
  <2>3. /\ x \in EndsBehind(c, i)
        /\ x # Error => y # Error /\ y = x + d
        /\ x = Error => y = Error \/ y > Len(c) + d + 1
        /\ i > Len(c) => x = Error
    BY <2>2, SeenIs
  <2>4. EachItem(c, i, u) = IF At(c, i, "e") THEN i + 1 ELSE IF x = Error THEN Error ELSE EachItem(c, x, u)
    BY <1>2, <2>1, EachItemIs
  <2>5. EachItem(b, k, w) = IF At(b, k, "e") THEN k + 1 ELSE IF y = Error THEN Error ELSE EachItem(b, y, w)
    BY <1>2, <2>1, <2>2, EachItemIs
  <2>6. CASE i > Len(c)
    <3>1. EachItem(c, i, u) = Error BY <2>3, <2>4, <2>6, NothingBehind
    <3>2. EachItem(b, i + d, w) \in EndsBehind(b, i + d) BY <1>3, <2>1, <2>2
    <3> QED BY <2>6, <3>1, <3>2, SeenIs
  <2>7. CASE i <= Len(c)
    <3>1. i \in 1..Len(c) BY <1>1, <2>7
    <3>2. At(c, i, "e") <=> At(b, k, "e") BY <2>1, <3>1, SameTokens
    <3>3. CASE At(c, i, "e")
      <4>1. Seen(c, d, k + 1) = i + 1 BY <1>1, <2>1, <2>7 DEF Seen, Error
      <4> QED BY <2>1, <2>4, <2>5, <3>2, <3>3, <4>1
    <3>4. CASE ~At(c, i, "e") /\ x # Error
      <4>1. x \in Nat /\ x > i /\ x # 0
        <5>1. x \in EndsBehind(c, i) /\ x # Error BY <2>3, <3>4
        <5> QED BY ONLY <5>1, <1>1, i \in Nat DEF EndsBehind
      <4>2. EachItem(c, x, u) = Seen(c, d, EachItem(b, x + d, w)) BY <1>4, <2>7, <4>1
      <4> QED BY <2>1, <2>3, <2>4, <2>5, <3>2, <3>4, <4>2
    <3>5. CASE ~At(c, i, "e") /\ x = Error /\ y = Error
      <4>1. Seen(c, d, Error) = Error BY DEF Seen
      <4> QED BY <2>1, <2>4, <2>5, <3>2, <3>5, <4>1
    <3>6. CASE ~At(c, i, "e") /\ x = Error /\ y # Error
      <4>1. y \in Nat /\ y > Len(c) + d + 1 BY <1>1, <2>2, <2>3, <3>6 DEF EndsBehind
      <4>2. EachItem(b, y, w) \in EndsBehind(b, y) BY <1>3, <4>1
      <4>3. Seen(c, d, EachItem(b, y, w)) = Error BY <1>1, <4>1, <4>2 DEF Seen, EndsBehind
      <4> QED BY <2>1, <2>4, <2>5, <3>2, <3>6, <4>3
    <3> QED BY <3>3, <3>4, <3>5, <3>6
  <2> QED BY <1>1, <2>6, <2>7
<1>5. T = Nat
  <2>1. T \in SUBSET Nat OBVIOUS
  <2> HIDE DEF T
  <2> QED BY <1>4, <2>1, PositionInduction
<1> QED BY <1>5

\* A value of a kind is read in one place as in the other.
LEMMA TokenSeen ==
  ASSUME NEW b \in Seq(Token), NEW c \in Seq(Token), NEW d, LiesIn(c, b, d), NEW v,
         NEW i \in Nat, i # 0, NEW k, k = i + d, NEW kind \in Kinds \ {"path"}
  PROVE  ReadAs(c, i, kind, v) = Seen(c, d, ReadAs(b, k, kind, v))
<1>1. Len(b) \in Nat /\ Len(c) \in Nat /\ d \in Nat BY DEF LiesIn
<1>2. Seen(c, d, Error) = Error BY DEF Seen
<1>3. CASE i > Len(c)
  <2>1. ~At(c, i, "s") /\ ~At(c, i, "i") BY <1>3, NothingBehind
  <2>2. Seen(c, d, k + 1) = Error BY <1>1, <1>3 DEF Seen
  <2>3. \A x \in Kinds \ {"path"} : ReadAs(c, i, x, v) = Error
    BY <2>1 DEF Kinds, ReadAs, ReadNumber, ReadLength, ReadPieces, ReadFlag, ReadInfoUtf8, ReadUtf8, ReadString
  <2>4. \A x \in Kinds \ {"path"} : ReadAs(b, k, x, v) \in {Error, k + 1}
    BY DEF Kinds, ReadAs, ReadNumber, ReadLength, ReadPieces, ReadFlag, ReadInfoUtf8, ReadUtf8, ReadString
  <2> QED BY <1>2, <2>2, <2>3, <2>4
<1>4. CASE i <= Len(c)
  <2>1. i \in 1..Len(c) BY <1>1, <1>4
  <2>2. c[i] = b[k] /\ (At(c, i, "s") <=> At(b, k, "s")) /\ (At(c, i, "i") <=> At(b, k, "i"))
    BY <2>1, SameTokens
  <2>3. Seen(c, d, k + 1) = i + 1 BY <1>1, <1>4 DEF Seen, Error
  <2>4. CASE kind = "number" BY <1>2, <2>2, <2>3, <2>4 DEF ReadAs, ReadNumber
  <2>5. CASE kind = "length" BY <1>2, <2>2, <2>3, <2>5 DEF ReadAs, ReadLength, ReadNumber
  <2>6. CASE kind = "pieces" BY <1>2, <2>2, <2>3, <2>6 DEF ReadAs, ReadPieces, ReadString
  <2>7. CASE kind = "flag" BY <1>2, <2>2, <2>3, <2>7 DEF ReadAs, ReadFlag, ReadNumber
  <2>8. CASE kind = "name" BY <1>2, <2>2, <2>3, <2>8 DEF ReadAs, ReadInfoUtf8, ReadUtf8, ReadString
  <2> QED BY <2>4, <2>5, <2>6, <2>7, <2>8 DEF Kinds
<1> QED BY <1>1, <1>3, <1>4

\* So is a path.
LEMMA ReadSeen ==
  ASSUME NEW b \in Seq(Token), NEW c \in Seq(Token), NEW d, LiesIn(c, b, d),
         NEW kind \in Kinds, NEW v, NEW i \in Nat, i # 0
  PROVE  ReadAs(c, i, kind, v) = Seen(c, d, ReadAs(b, i + d, kind, v))
<1>1. CASE kind # "path"
  <2>1. PICK k : k = i + d OBVIOUS
  <2>2. kind \in Kinds \ {"path"} BY <1>1
  <2>3. ReadAs(c, i, kind, v) = Seen(c, d, ReadAs(b, k, kind, v)) BY <2>1, <2>2, TokenSeen
  <2> QED BY <2>1, <2>3
<1>2. CASE kind = "path"
  <2>1. Len(c) \in Nat /\ d \in Nat BY DEF LiesIn
  <2>2. PICK u, w : /\ u = [n \in Nat |-> ReadInfoUtf8(c, n, v)]
                    /\ w = [n \in Nat |-> ReadInfoUtf8(b, n, v)]
    OBVIOUS
  <2>3. \A n \in Nat : u[n] \in {Error, SkipValue(c, n)} BY <2>2, ReadInfoSkips
  <2>4. \A n \in Nat : w[n] \in {Error, SkipValue(b, n)} BY <2>2, ReadInfoSkips
  <2>5. \A n \in Nat : n # 0 => u[n] = Seen(c, d, w[n + d])
    <3> SUFFICES ASSUME NEW n \in Nat, n # 0 PROVE u[n] = Seen(c, d, w[n + d])
      OBVIOUS
    <3>1. n + d \in Nat BY <2>1
    <3>2. u[n] = ReadInfoUtf8(c, n, v) /\ w[n + d] = ReadInfoUtf8(b, n + d, v) BY <2>2, <3>1
    <3>3. PICK m, name : m = n + d /\ name = "name" OBVIOUS
    <3>4. name \in Kinds \ {"path"} BY <3>3 DEF Kinds
    <3>5. ReadAs(c, n, name, v) = Seen(c, d, ReadAs(b, m, name, v)) BY <3>3, <3>4, TokenSeen
    <3> QED BY <3>2, <3>3, <3>5 DEF ReadAs
  <2>6. PICK x, y : x = EachItem(c, i + 1, u) /\ y = EachItem(b, i + d + 1, w) OBVIOUS
  <2>7. x = Seen(c, d, y)
    <3>1. PICK j : j = i + 1 OBVIOUS
    <3>2. j \in Nat /\ j # 0 /\ j + d = i + d + 1 BY <2>1, <3>1
    <3>3. EachItem(c, j, u) = Seen(c, d, EachItem(b, j + d, w))
      BY <2>3, <2>4, <2>5, <3>2, EachSeen
    <3> QED BY <2>6, <3>1, <3>2, <3>3
  <2>8. /\ ReadAs(c, i, kind, v) = IF At(c, i, "l") THEN x ELSE Error
        /\ ReadAs(b, i + d, kind, v) = IF At(b, i + d, "l") THEN y ELSE Error
    BY <1>2, <2>2, <2>6 DEF ReadAs, ParsePath
  <2>9. CASE i > Len(c)
    <3>1. i + d \in Nat BY <2>1
    <3>2. ReadAs(b, i + d, kind, v) \in EndsBehind(b, i + d)
      BY <3>1, ReadSkips, SkipValueIs DEF EndsBehind
    <3>3. Seen(c, d, ReadAs(b, i + d, kind, v)) = Error BY <2>9, <3>2, SeenIs
    <3> QED BY <2>8, <2>9, <3>3, NothingBehind
  <2>10. CASE i <= Len(c)
    <3>1. i \in 1..Len(c) BY <2>1, <2>10
    <3>2. At(c, i, "l") <=> At(b, i + d, "l") BY <3>1, SameTokens
    <3> QED BY <2>7, <2>8, <3>2 DEF Seen
  <2> QED BY <2>1, <2>9, <2>10
<1> QED BY <1>1, <1>2 DEF Kinds

(***************************************************************************)
(* Where reading goes on: at the same token, or nowhere in c and not       *)
(* before its end in b.                                                    *)
(***************************************************************************)
Follows(c, d, x, y) ==
  \/ x \in 1..(Len(c) + 1) /\ y = x + d
  \/ x = Error /\ (y = Error \/ (y \in Nat /\ y > Len(c) + d))

\* Behind a value reading goes on that way.
LEMMA SeenFollows ==
  ASSUME NEW b \in Seq(Token), NEW c \in Seq(Token), NEW d, LiesIn(c, b, d),
         NEW i \in Nat, i # 0, NEW y \in EndsBehind(b, i + d), NEW x, x = Seen(c, d, y)
  PROVE  Follows(c, d, x, y) /\ x \in Nat /\ y \in Nat
<1>1. Len(b) \in Nat /\ Len(c) \in Nat /\ d \in Nat BY DEF LiesIn
<1>2. /\ x \in EndsBehind(c, i)
      /\ x # Error => y # Error /\ y = x + d
      /\ x = Error => y = Error \/ y > Len(c) + d + 1
  BY SeenIs
<1>3. x \in Nat /\ y \in Nat BY <1>1, <1>2 DEF EndsBehind, Error
<1> QED BY <1>1, <1>2, <1>3 DEF EndsBehind, Follows

\* The rest of a dictionary is skipped to the same place.
LEMMA SkipFollows ==
  ASSUME NEW b \in Seq(Token), NEW c \in Seq(Token), NEW d, LiesIn(c, b, d),
         NEW x \in Nat, NEW y \in Nat, Follows(c, d, x, y), NEW prev \in Nat
  PROVE  SkipEntries(c, x, prev) = Seen(c, d, SkipEntries(b, y, prev))
<1>1. Len(b) \in Nat /\ Len(c) \in Nat /\ d \in Nat BY DEF LiesIn
<1>2. Seen(c, d, Error) = Error BY DEF Seen
<1>3. CASE x \in 1..(Len(c) + 1) /\ y = x + d
  <2>1. SkipsAlike(c, b, d, x) BY <1>3, SkipSeen
  <2> QED BY <1>3, <2>1 DEF SkipsAlike
<1>4. CASE x = Error /\ y = Error
  <2>1. SkipEntries(c, x, prev) = Error BY <1>4, NothingBehind DEF Error
  <2>2. SkipEntries(b, y, prev) = Error BY <1>4, NothingBehind DEF Error
  <2> QED BY <1>2, <2>1, <2>2
<1>5. CASE x = Error /\ y > Len(c) + d
  <2>1. SkipEntries(c, x, prev) = Error BY <1>5, NothingBehind DEF Error
  <2>2. PICK z : z = SkipEntries(b, y, prev) OBVIOUS
  <2>3. z \in EndsBehind(b, y) BY <2>2, SkipEntriesIs
  <2>4. Seen(c, d, z) = Error BY <1>1, <1>5, <2>3 DEF Seen, EndsBehind
  <2> QED BY <2>1, <2>2, <2>4
<1> QED BY <1>3, <1>4, <1>5 DEF Follows

\* A key looked up leads to the same place.
LEMMA LookUpFollows ==
  ASSUME NEW b \in Seq(Token), NEW c \in Seq(Token), NEW d, LiesIn(c, b, d),
         NEW x \in Nat, NEW y \in Nat, Follows(c, d, x, y),
         NEW key \in Str, NEW prev \in Str, NEW kind \in Kinds, NEW v
  PROVE  /\ Follows(c, d, Optional(c, x, key, prev, kind, v), Optional(b, y, key, prev, kind, v))
         /\ Follows(c, d, Required(c, x, key, prev, kind, v), Required(b, y, key, prev, kind, v))
<1>1. Len(b) \in Nat /\ Len(c) \in Nat /\ d \in Nat /\ Rank[prev] \in Nat
  BY BencodeAssumption DEF LiesIn
<1>2. PICK e, f : e = TryNext(c, x, key, Rank[prev]) /\ f = TryNext(b, y, key, Rank[prev]) OBVIOUS
<1>3. e.found \in BOOLEAN /\ e.pos \in Nat /\ (e.pos = Error => ~e.found) BY <1>1, <1>2, TryNextStops DEF Stops
<1>4. f.found \in BOOLEAN /\ f.pos \in Nat /\ (f.pos = Error => ~f.found) BY <1>1, <1>2, TryNextStops DEF Stops
<1>5. PICK z, w : z = ReadAs(c, e.pos, kind, v) /\ w = ReadAs(b, f.pos, kind, v) OBVIOUS
<1>6. /\ Optional(c, x, key, prev, kind, v) = IF e.found THEN z ELSE e.pos
      /\ Required(c, x, key, prev, kind, v) = IF e.found THEN z ELSE Error
      /\ Optional(b, y, key, prev, kind, v) = IF f.found THEN w ELSE f.pos
      /\ Required(b, y, key, prev, kind, v) = IF f.found THEN w ELSE Error
  BY <1>2, <1>5 DEF Optional, Required
<1>7. w \in EndsBehind(b, f.pos) BY <1>4, <1>5, ReadSkips, SkipValueIs DEF EndsBehind
<1>8. w = Error \/ (w \in Nat /\ w > f.pos) BY <1>1, <1>4, <1>7 DEF EndsBehind, Error
<1>9. Follows(c, d, Error, Error) BY DEF Follows
<1>10. CASE x \in 1..(Len(c) + 1) /\ y = x + d
  <2>1. SeesEntry(c, d, e, f) BY <1>1, <1>2, <1>10, TrySeen
  <2>2. CASE e.pos = Error
    <3>1. ~e.found /\ (f.pos = Error \/ f.pos > Len(c) + d) BY <2>1, <2>2 DEF SeesEntry
    <3> QED BY <1>1, <1>4, <1>6, <1>8, <1>9, <2>2, <3>1 DEF Follows
  <2>3. CASE e.pos # Error
    <3>1. f.pos = e.pos + d /\ f.found = e.found /\ e.pos <= Len(c) + 1 BY <2>1, <2>3 DEF SeesEntry
    <3>2. e.pos # 0 BY <2>3 DEF Error
    <3>3. z = Seen(c, d, w) BY <1>3, <1>5, <3>1, <3>2, ReadSeen
    <3>4. Follows(c, d, z, w) BY <1>3, <1>7, <3>1, <3>2, <3>3, SeenFollows
    <3>5. Follows(c, d, e.pos, f.pos) BY <1>1, <1>3, <3>1, <3>2 DEF Follows
    <3> QED BY <1>6, <1>9, <3>1, <3>4, <3>5
  <2> QED BY <2>2, <2>3
<1>11. CASE x = Error /\ (y = Error \/ y > Len(c) + d)
  <2>1. e.pos = Error /\ ~e.found
    <3>1. ~At(c, x, "e") /\ ~NextKey(c, x, Rank[prev]) BY <1>11, NothingBehind DEF Error
    <3>2. e = [found |-> FALSE, pos |-> Error, to |-> x] BY <1>1, <1>2, <3>1, TryNextIs
    <3> QED BY <3>2
  <2>2. PICK o, r : /\ o = Optional(b, y, key, prev, kind, v)
                    /\ r = Required(b, y, key, prev, kind, v)
    OBVIOUS
  <2>3. LookedUp(b, y, key, prev, o) /\ LookedUp(b, y, key, prev, r) BY <2>2, LookUp
  <2>4. /\ o = Error \/ (o \in Nat /\ o > Len(c) + d)
        /\ r = Error \/ (r \in Nat /\ r > Len(c) + d)
    BY <1>1, <1>11, <2>3 DEF LookedUp
  <2> QED BY <1>6, <2>1, <2>2, <2>4 DEF Follows
<1> QED BY <1>10, <1>11 DEF Follows

(***************************************************************************)
(* So parse_info and its parts read a part of a buffer as the same tokens  *)
(* in the whole of it.                                                     *)
(***************************************************************************)
LEMMA ParseFileSeen ==
  ASSUME NEW b \in Seq(Token), NEW c \in Seq(Token), NEW d, LiesIn(c, b, d), NEW v,
         NEW i \in Nat, i # 0
  PROVE  ParseFile(c, i, v) = Seen(c, d, ParseFile(b, i + d, v))
<1>1. Len(b) \in Nat /\ Len(c) \in Nat /\ d \in Nat BY DEF LiesIn
<1>2. PICK k : k = i + d OBVIOUS
<1>3. k \in Nat BY <1>1, <1>2
<1>4. CASE i > Len(c)
  <2>1. ~At(c, i, "d") BY <1>4, NothingBehind
  <2>2. ParseFile(c, i, v) = Error BY <2>1 DEF ParseFile
  <2>3. ParseFile(b, k, v) \in EndsBehind(b, k) BY <1>3, ParseFileSkips, SkipValueIs DEF EndsBehind
  <2>4. Seen(c, d, ParseFile(b, k, v)) = Error BY <1>2, <1>4, <2>3, SeenIs
  <2> QED BY <1>2, <2>2, <2>4
<1>5. CASE i <= Len(c)
  <2>1. i \in 1..Len(c) BY <1>1, <1>5
  <2>2. At(c, i, "d") <=> At(b, k, "d") BY <1>2, <2>1, SameTokens
  <2>3. "" \in Str /\ "length" \in Str /\ "path" \in Str BY InfoAssumption
  <2>4. "length" \in Kinds /\ "path" \in Kinds BY DEF Kinds
  <2>5. PICK j, l : j = i + 1 /\ l = k + 1 OBVIOUS
  <2>6. j \in Nat /\ l \in Nat /\ Follows(c, d, j, l) BY <1>1, <1>2, <1>3, <2>1, <2>5 DEF Follows
  <2>7. PICK x1, y1 : /\ x1 = Required(c, j, "length", "", "length", v)
                      /\ y1 = Required(b, l, "length", "", "length", v)
    OBVIOUS
  <2>8. Follows(c, d, x1, y1) BY <2>3, <2>4, <2>6, <2>7, LookUpFollows
  <2>9. x1 \in Nat /\ y1 \in Nat BY <2>3, <2>4, <2>6, <2>7, LookUp DEF LookedUp
  <2>10. PICK x2, y2 : /\ x2 = Required(c, x1, "path", "length", "path", v)
                       /\ y2 = Required(b, y1, "path", "length", "path", v)
    OBVIOUS
  <2>11. Follows(c, d, x2, y2) BY <2>3, <2>4, <2>8, <2>9, <2>10, LookUpFollows
  <2>12. x2 \in Nat /\ y2 \in Nat BY <2>3, <2>4, <2>9, <2>10, LookUp DEF LookedUp
  <2>13. PICK r : r = Rank["path"] OBVIOUS
  <2>14. r \in Nat BY <2>3, <2>13, BencodeAssumption
  <2>15. SkipEntries(c, x2, r) = Seen(c, d, SkipEntries(b, y2, r)) BY <2>11, <2>12, <2>14, SkipFollows
  <2>16. /\ ParseFile(c, i, v) = IF At(c, i, "d") THEN SkipEntries(c, x2, r) ELSE Error
         /\ ParseFile(b, k, v) = IF At(b, k, "d") THEN SkipEntries(b, y2, r) ELSE Error
    BY <2>5, <2>7, <2>10, <2>13 DEF ParseFile
  <2>17. Seen(c, d, Error) = Error BY DEF Seen
  <2> QED BY <1>2, <2>2, <2>15, <2>16, <2>17
<1> QED BY <1>1, <1>4, <1>5

\* A list of files.
LEMMA ParseFilesSeen ==
  ASSUME NEW b \in Seq(Token), NEW c \in Seq(Token), NEW d, LiesIn(c, b, d), NEW v,
         NEW i \in Nat, i # 0
  PROVE  ParseFiles(c, i, v) = Seen(c, d, ParseFiles(b, i + d, v))
<1>1. Len(b) \in Nat /\ Len(c) \in Nat /\ d \in Nat BY DEF LiesIn
<1>2. PICK k : k = i + d OBVIOUS
<1>3. k \in Nat BY <1>1, <1>2
<1>4. Seen(c, d, Error) = Error BY DEF Seen
<1>5. PICK u, w : u = [n \in Nat |-> ParseFile(c, n, v)] /\ w = [n \in Nat |-> ParseFile(b, n, v)]
  OBVIOUS
<1>6. \A n \in Nat : u[n] \in {Error, SkipValue(c, n)} BY <1>5, ParseFileSkips
<1>7. \A n \in Nat : w[n] \in {Error, SkipValue(b, n)} BY <1>5, ParseFileSkips
<1>8. \A n \in Nat : n # 0 => u[n] = Seen(c, d, w[n + d])
  <2> SUFFICES ASSUME NEW n \in Nat, n # 0 PROVE u[n] = Seen(c, d, w[n + d])
    OBVIOUS
  <2>1. n + d \in Nat BY <1>1
  <2>2. u[n] = ParseFile(c, n, v) /\ w[n + d] = ParseFile(b, n + d, v) BY <1>5, <2>1
  <2> QED BY <2>2, ParseFileSeen
<1>9. PICK j, x, y : j = i + 1 /\ x = EachItem(c, j, u) /\ y = EachItem(b, k + 1, w) OBVIOUS
<1>10. j \in Nat /\ j # 0 /\ j + d = k + 1 BY <1>1, <1>2, <1>9
<1>11. x = Seen(c, d, y)
  <2>1. EachItem(c, j, u) = Seen(c, d, EachItem(b, j + d, w)) BY <1>6, <1>7, <1>8, <1>10, EachSeen
  <2> QED BY <1>9, <1>10, <2>1
<1>12. /\ ParseFiles(c, i, v) = IF At(c, i, "l") /\ ~At(c, j, "e") THEN x ELSE Error
       /\ ParseFiles(b, k, v) = IF At(b, k, "l") /\ ~At(b, k + 1, "e") THEN y ELSE Error
  BY <1>5, <1>9 DEF ParseFiles
<1>13. CASE i > Len(c)
  <2>1. ~At(c, i, "l") BY <1>13, NothingBehind
  <2>2. ParseFiles(b, k, v) \in EndsBehind(b, k) BY <1>3, ParseFilesSkips, SkipValueIs DEF EndsBehind
  <2>3. Seen(c, d, ParseFiles(b, k, v)) = Error BY <1>2, <1>13, <2>2, SeenIs
  <2> QED BY <1>2, <1>12, <2>1, <2>3
<1>14. CASE i = Len(c)
  <2>1. x = Error
    <3>1. ~At(c, j, "e") /\ SkipItems(c, j) = Error
      <4>1. j > Len(c) BY <1>1, <1>9, <1>14
      <4> QED BY <1>10, <4>1, NothingBehind
    <3>2. x \in {Error, SkipItems(c, j)} BY <1>6, <1>9, <1>10, EachItemSkips
    <3> QED BY <3>1, <3>2
  <2>2. Seen(c, d, y) = Error BY <1>11, <2>1
  <2> QED BY <1>2, <1>4, <1>12, <2>1, <2>2
<1>15. CASE i < Len(c)
  <2>1. i \in 1..Len(c) /\ j \in 1..Len(c) BY <1>1, <1>9, <1>15
  <2>2. At(c, i, "l") <=> At(b, k, "l") BY <1>2, <2>1, SameTokens
  <2>3. At(c, j, "e") <=> At(b, k + 1, "e") BY <1>10, <2>1, SameTokens
  <2> QED BY <1>2, <1>4, <1>11, <1>12, <2>2, <2>3
<1> QED BY <1>1, <1>13, <1>14, <1>15

\* The entries from "files" or "length" on.
LEMMA ParseDetailsSeen ==
  ASSUME NEW b \in Seq(Token), NEW c \in Seq(Token), NEW d, LiesIn(c, b, d), NEW v, NEW prev \in Str,
         NEW x \in Nat, NEW y \in Nat, Follows(c, d, x, y)
  PROVE  ParseDetails(c, x, prev, v) = Seen(c, d, ParseDetails(b, y, prev, v))
<1>1. {"name", "piece length", "pieces", "private"} \subseteq Str BY InfoAssumption
<1>2. {"name", "number", "pieces", "flag"} \subseteq Kinds BY DEF Kinds
<1>3. PICK x1, y1 : /\ x1 = Optional(c, x, "name", prev, "name", v)
                    /\ y1 = Optional(b, y, "name", prev, "name", v)
  OBVIOUS
<1>4. Follows(c, d, x1, y1) /\ x1 \in Nat /\ y1 \in Nat
  <2>1. Follows(c, d, x1, y1) BY <1>1, <1>2, <1>3, LookUpFollows
  <2>2. x1 \in Nat /\ y1 \in Nat BY <1>1, <1>2, <1>3, LookUp DEF LookedUp
  <2> QED BY <2>1, <2>2
<1>5. PICK x2, y2 : /\ x2 = Required(c, x1, "piece length", "name", "number", v)
                    /\ y2 = Required(b, y1, "piece length", "name", "number", v)
  OBVIOUS
<1>6. Follows(c, d, x2, y2) /\ x2 \in Nat /\ y2 \in Nat
  <2>1. Follows(c, d, x2, y2) BY <1>1, <1>2, <1>4, <1>5, LookUpFollows
  <2>2. x2 \in Nat /\ y2 \in Nat BY <1>1, <1>2, <1>4, <1>5, LookUp DEF LookedUp
  <2> QED BY <2>1, <2>2
<1>7. PICK x3, y3 : /\ x3 = Required(c, x2, "pieces", "piece length", "pieces", v)
                    /\ y3 = Required(b, y2, "pieces", "piece length", "pieces", v)
  OBVIOUS
<1>8. Follows(c, d, x3, y3) /\ x3 \in Nat /\ y3 \in Nat
  <2>1. Follows(c, d, x3, y3) BY <1>1, <1>2, <1>6, <1>7, LookUpFollows
  <2>2. x3 \in Nat /\ y3 \in Nat BY <1>1, <1>2, <1>6, <1>7, LookUp DEF LookedUp
  <2> QED BY <2>1, <2>2
<1>9. PICK x4, y4 : /\ x4 = Optional(c, x3, "private", "pieces", "flag", v)
                    /\ y4 = Optional(b, y3, "private", "pieces", "flag", v)
  OBVIOUS
<1>10. Follows(c, d, x4, y4) /\ x4 \in Nat /\ y4 \in Nat
  <2>1. Follows(c, d, x4, y4) BY <1>1, <1>2, <1>8, <1>9, LookUpFollows
  <2>2. x4 \in Nat /\ y4 \in Nat BY <1>1, <1>2, <1>8, <1>9, LookUp DEF LookedUp
  <2> QED BY <2>1, <2>2
<1>11. PICK r : r = Rank["private"] OBVIOUS
<1>12. r \in Nat BY <1>1, <1>11, BencodeAssumption
<1>13. SkipEntries(c, x4, r) = Seen(c, d, SkipEntries(b, y4, r)) BY <1>10, <1>12, SkipFollows
<1>14. ParseDetails(c, x, prev, v) = SkipEntries(c, x4, r)
  BY <1>3, <1>5, <1>7, <1>9, <1>11 DEF ParseDetails
<1>15. ParseDetails(b, y, prev, v) = SkipEntries(b, y4, r)
  BY <1>3, <1>5, <1>7, <1>9, <1>11 DEF ParseDetails
<1> QED BY <1>13, <1>14, <1>15

\* The whole of the info.
LEMMA ParseInfoSeen ==
  ASSUME NEW b \in Seq(Token), NEW c \in Seq(Token), NEW d, LiesIn(c, b, d), NEW v,
         NEW i \in 1..Len(c)
  PROVE  ParseInfo(c, i, v) = Seen(c, d, ParseInfo(b, i + d, v))
<1>1. Len(b) \in Nat /\ Len(c) \in Nat /\ d \in Nat BY DEF LiesIn
<1>2. PICK k, j, l : k = i + d /\ j = i + 1 /\ l = k + 1 OBVIOUS
<1>3. k \in Nat /\ j \in Nat /\ l \in Nat /\ j # 0 /\ j + d = l BY <1>1, <1>2
<1>4. At(c, i, "d") <=> At(b, k, "d") BY <1>2, SameTokens
<1>5. "files" \in Str /\ "length" \in Str BY InfoAssumption
<1>6. "number" \in Kinds BY DEF Kinds
<1>7. PICK e, f : e = TryNext(c, j, "files", 0) /\ f = TryNext(b, l, "files", 0) OBVIOUS
<1>8. SeesEntry(c, d, e, f)
  <2>1. f = TryNext(b, j + d, "files", 0) BY <1>3, <1>7
  <2> QED BY <1>3, <1>5, <1>7, <2>1, TrySeen
<1>9. e.found \in BOOLEAN /\ e.pos \in Nat /\ (e.pos = Error => ~e.found) BY <1>3, <1>5, <1>7, TryNextStops DEF Stops
<1>10. f.found \in BOOLEAN /\ f.pos \in Nat /\ (f.pos = Error => ~f.found)
  BY <1>3, <1>5, <1>7, TryNextStops DEF Stops
<1>11. PICK x1, y1, x2, y2 : /\ x1 = ParseFiles(c, e.pos, v) /\ y1 = ParseFiles(b, f.pos, v)
                             /\ x2 = Required(c, e.pos, "length", "files", "number", v)
                             /\ y2 = Required(b, f.pos, "length", "files", "number", v)
  OBVIOUS
<1>12. /\ ParseInfo(c, i, v) = IF ~At(c, i, "d") THEN Error
                               ELSE IF e.found THEN ParseDetails(c, x1, "files", v)
                               ELSE ParseDetails(c, x2, "length", v)
       /\ ParseInfo(b, k, v) = IF ~At(b, k, "d") THEN Error
                               ELSE IF f.found THEN ParseDetails(b, y1, "files", v)
                               ELSE ParseDetails(b, y2, "length", v)
  BY <1>2, <1>7, <1>11 DEF ParseInfo
<1>13. Follows(c, d, e.pos, f.pos)
  BY <1>1, <1>8, <1>9, <1>10 DEF SeesEntry, Follows, Error
<1>14. Follows(c, d, x2, y2) /\ x2 \in Nat /\ y2 \in Nat
  <2>1. Follows(c, d, x2, y2) BY <1>5, <1>6, <1>9, <1>10, <1>11, <1>13, LookUpFollows
  <2>2. x2 \in Nat /\ y2 \in Nat BY <1>5, <1>6, <1>9, <1>10, <1>11, LookUp DEF LookedUp
  <2> QED BY <2>1, <2>2
<1>15. ParseDetails(c, x2, "length", v) = Seen(c, d, ParseDetails(b, y2, "length", v))
  BY <1>5, <1>14, ParseDetailsSeen
<1>16. y1 \in EndsBehind(b, f.pos) BY <1>10, <1>11, ParseFilesSkips, SkipValueIs DEF EndsBehind
<1>17. CASE e.pos # Error
  <2>1. f.pos = e.pos + d /\ f.found = e.found /\ e.pos # 0 BY <1>8, <1>17 DEF SeesEntry, Error
  <2>2. x1 = Seen(c, d, y1) BY <1>9, <1>11, <2>1, ParseFilesSeen
  <2>3. Follows(c, d, x1, y1) /\ x1 \in Nat /\ y1 \in Nat BY <1>9, <1>16, <2>1, <2>2, SeenFollows
  <2>4. ParseDetails(c, x1, "files", v) = Seen(c, d, ParseDetails(b, y1, "files", v))
    BY <1>5, <2>3, ParseDetailsSeen
  <2>5. Seen(c, d, Error) = Error BY DEF Seen
  <2> QED BY <1>2, <1>4, <1>12, <1>15, <2>1, <2>4, <2>5
<1>18. CASE e.pos = Error
  <2>1. ~e.found /\ (f.pos = Error \/ f.pos > Len(c) + d) BY <1>8, <1>18 DEF SeesEntry
  <2>2. x2 = Error
    <3>1. LookedUp(c, e.pos, "length", "files", x2) BY <1>5, <1>6, <1>9, <1>11, LookUp
    <3> QED BY <1>18, <3>1 DEF LookedUp
  <2>3. f.found => Follows(c, d, Error, y1) /\ y1 \in Nat /\ Error \in Nat
    BY <1>1, <1>10, <1>16, <2>1 DEF Follows, EndsBehind, Error
  <2>4. ParseDetails(c, Error, "files", v) = Error /\ ParseDetails(c, x2, "length", v) = Error
    <3>1. Error \in Nat BY DEF Error
    <3>2. ParseDetails(c, Error, "files", v) = Error BY <1>5, <3>1, ParseDetailsSkips
    <3>3. ParseDetails(c, x2, "length", v) = Error BY <1>5, <1>14, <2>2, ParseDetailsSkips
    <3> QED BY <3>2, <3>3
  <2>5. f.found => Seen(c, d, ParseDetails(b, y1, "files", v)) = Error
    BY <1>5, <2>3, <2>4, ParseDetailsSeen
  <2>6. Seen(c, d, Error) = Error BY DEF Seen
  <2> QED BY <1>2, <1>4, <1>12, <1>15, <2>1, <2>4, <2>5, <2>6
<1> QED BY <1>17, <1>18

(***************************************************************************)
(* And so does parse_announce_list.                                        *)
(***************************************************************************)
SeesList(c, d, x, y) == x.pos = Seen(c, d, y.pos) /\ (x.pos # Error => x.list = y.list)

\* The groups end behind where they begin.
LEMMA GroupsEnd ==
  ASSUME NEW b \in Seq(Token), NEW p \in Nat, NEW open \in BOOLEAN, NEW groups \in Seq(Seq(Utf8))
  PROVE  GroupsFrom(b, p, open, groups).pos \in EndsBehind(b, p)
<1>1. PICK x, q : x = GroupsFrom(b, p, open, groups) /\ q = SkipItems(b, p) OBVIOUS
<1>2. x.pos \in {Error, IF open THEN SkipItems(b, q) ELSE q} BY <1>1, GroupsSkip
<1>3. q \in EndsBehind(b, p) /\ Len(b) \in Nat BY <1>1, SkipItemsIs
<1>4. CASE q = Error
  <2>1. q \in Nat /\ q = 0 BY <1>4 DEF Error
  <2>2. SkipItems(b, q) = Error BY <2>1, NothingBehind
  <2> QED BY <1>1, <1>2, <1>4, <2>2 DEF EndsBehind
<1>5. CASE q # Error
  <2>1. q \in Nat /\ q > p BY <1>3, <1>5 DEF EndsBehind
  <2>2. SkipItems(b, q) \in EndsBehind(b, q) BY <2>1, SkipItemsIs
  <2> QED BY <1>1, <1>2, <1>3, <2>1, <2>2 DEF EndsBehind
<1> QED BY <1>4, <1>5

\* The groups in one place are those in the other.
LEMMA GroupsSeen ==
  ASSUME NEW b \in Seq(Token), NEW c \in Seq(Token), NEW d, LiesIn(c, b, d)
  PROVE  \A i \in Nat, open \in BOOLEAN, groups \in Seq(Seq(Utf8)) : i # 0 =>
           SeesList(c, d, GroupsFrom(c, i, open, groups), GroupsFrom(b, i + d, open, groups))
<1>1. Len(b) \in Nat /\ Len(c) \in Nat /\ d \in Nat BY DEF LiesIn
<1>2. Seq(Seq(Utf8)) \subseteq Seq(Seq(Str)) BY BencodeAssumption
<1>3. Seen(c, d, Error) = Error BY DEF Seen
<1> DEFINE T == {i \in Nat : i # 0 => \A open \in BOOLEAN, groups \in Seq(Seq(Utf8)) :
                   SeesList(c, d, GroupsFrom(c, i, open, groups), GroupsFrom(b, i + d, open, groups))}
<1>4. ASSUME NEW i \in Nat, \A q \in Nat : q > i /\ i <= Len(c) => q \in T PROVE i \in T
  <2> SUFFICES ASSUME i # 0, NEW o \in BOOLEAN, NEW g \in Seq(Seq(Utf8)),
                      NEW x, x = GroupsFrom(c, i, o, g), NEW y, y = GroupsFrom(b, i + d, o, g)
               PROVE  SeesList(c, d, x, y)
    OBVIOUS
  <2>1. PICK k, l : k = i + d /\ l = k + 1 OBVIOUS
  <2>2. k \in Nat /\ l \in Nat /\ y = GroupsFrom(b, k, o, g) /\ g \in Seq(Seq(Str)) BY <1>1, <1>2, <2>1
  <2>3. x = GroupsTurn(c, i, o, g) BY <2>2, GroupsIs
  <2>4. y = GroupsTurn(b, k, o, g) BY <2>2, GroupsIs
  <2>5. CASE i > Len(c)
    <3>1. ~At(c, i, "e") /\ ~At(c, i, "l") /\ ~At(c, i, "s") BY <2>5, NothingBehind
    <3>2. x = NoList
      <4>1. ReadUtf8(c, i) = Error BY <3>1 DEF ReadUtf8
      <4> QED BY <2>3, <3>1, <4>1 DEF GroupsTurn
    <3>3. y.pos \in EndsBehind(b, k) BY <2>2, GroupsEnd
    <3>4. Seen(c, d, y.pos) = Error BY <2>1, <2>5, <3>3, SeenIs
    <3> QED BY <3>2, <3>4 DEF SeesList, NoList
  <2>6. CASE i <= Len(c)
    <3>1. i \in 1..Len(c) BY <1>1, <2>6
    <3>2. /\ c[i] = b[k] /\ (At(c, i, "e") <=> At(b, k, "e")) /\ (At(c, i, "l") <=> At(b, k, "l"))
          /\ (ReadUtf8(c, i) = Error) <=> (ReadUtf8(b, k) = Error)
      BY <2>1, <3>1, SameTokens
    <3>3. ASSUME NEW m \in BOOLEAN, NEW h \in Seq(Seq(Utf8))
          PROVE  SeesList(c, d, GroupsFrom(c, i + 1, m, h), GroupsFrom(b, l, m, h))
      <4>1. PICK j : j = i + 1 OBVIOUS
      <4>2. j \in Nat /\ j # 0 /\ j > i /\ j + d = l BY <1>1, <2>1, <4>1
      <4>3. j \in T BY <1>4, <2>6, <4>2
      <4>4. SeesList(c, d, GroupsFrom(c, j, m, h), GroupsFrom(b, j + d, m, h)) BY <4>2, <4>3
      <4> QED BY <4>1, <4>2, <4>4
    <3> HIDE DEF T
    <3>4. CASE At(c, i, "e") /\ o
      <4>1. x = GroupsFrom(c, i + 1, FALSE, g) BY <2>3, <3>4 DEF GroupsTurn
      <4>2. y = GroupsFrom(b, l, FALSE, g)
        <5>1. At(b, k, "e") BY <3>2, <3>4
        <5> QED BY <2>1, <2>4, <3>4, <5>1 DEF GroupsTurn
      <4> QED BY <3>3, <4>1, <4>2
    <3>5. CASE At(c, i, "e") /\ ~o
      <4>1. x = [pos |-> i + 1, list |-> g] BY <2>3, <3>5 DEF GroupsTurn
      <4>2. y = [pos |-> l, list |-> g]
        <5>1. At(b, k, "e") BY <3>2, <3>5
        <5> QED BY <2>1, <2>4, <3>5, <5>1 DEF GroupsTurn
      <4>3. Seen(c, d, l) = i + 1 BY <1>1, <2>1, <2>6 DEF Seen, Error
      <4> QED BY <4>1, <4>2, <4>3 DEF SeesList
    <3>6. CASE ~At(c, i, "e") /\ At(c, i, "l") /\ ~o
      <4>1. PICK h : h = Append(g, <<>>) OBVIOUS
      <4>2. h \in Seq(Seq(Utf8))
        <5>1. <<>> \in Seq(Utf8) BY EmptySeq
        <5> QED BY <4>1, <5>1, AppendProperties
      <4>3. x = GroupsFrom(c, i + 1, TRUE, h) BY <2>3, <3>6, <4>1 DEF GroupsTurn
      <4>4. y = GroupsFrom(b, l, TRUE, h)
        <5>1. ~At(b, k, "e") /\ At(b, k, "l") BY <3>2, <3>6
        <5> QED BY <2>1, <2>4, <3>6, <4>1, <5>1 DEF GroupsTurn
      <4> QED BY <3>3, <4>2, <4>3, <4>4
    <3>7. CASE ~At(c, i, "e") /\ ~(At(c, i, "l") /\ ~o) /\ ReadUtf8(c, i) = Error
      <4>1. x = NoList BY <2>3, <3>7 DEF GroupsTurn
      <4>2. y = NoList
        <5>1. ~At(b, k, "e") /\ ~(At(b, k, "l") /\ ~o) /\ ReadUtf8(b, k) = Error BY <3>2, <3>7
        <5> QED BY <2>1, <2>4, <5>1 DEF GroupsTurn
      <4> QED BY <1>3, <4>1, <4>2 DEF SeesList, NoList
    <3>8. CASE ~At(c, i, "e") /\ ~(At(c, i, "l") /\ ~o) /\ ReadUtf8(c, i) # Error
      <4>1. PICK h : h = Join(g, c[i].v) OBVIOUS
      <4>2. h \in Seq(Seq(Utf8))
        <5>1. c[i].v \in Utf8 BY <3>8 DEF ReadUtf8
        <5> QED BY <4>1, <5>1, JoinType
      <4>3. x = GroupsFrom(c, i + 1, o, h) BY <2>3, <3>8, <4>1 DEF GroupsTurn
      <4>4. y = GroupsFrom(b, l, o, h)
        <5>1. ~At(b, k, "e") /\ ~(At(b, k, "l") /\ ~o) /\ ReadUtf8(b, k) # Error BY <3>2, <3>8
        <5>2. h = Join(g, b[k].v) BY <3>2, <4>1
        <5> QED BY <2>1, <2>4, <5>1, <5>2 DEF GroupsTurn
      <4> QED BY <3>3, <4>2, <4>3, <4>4
    <3> QED BY <3>4, <3>5, <3>6, <3>7, <3>8
  <2> QED BY <1>1, <2>5, <2>6
<1>5. T = Nat
  <2>1. T \in SUBSET Nat OBVIOUS
  <2> HIDE DEF T
  <2> QED BY <1>4, <2>1, PositionInduction
<1> QED BY <1>5

\* And so is the announce-list.
LEMMA AnnounceListSeen ==
  ASSUME NEW b \in Seq(Token), NEW c \in Seq(Token), NEW d, LiesIn(c, b, d), NEW i \in 1..Len(c),
         NEW k, k = i + d
  PROVE  SeesList(c, d, ParseAnnounceList(c, i), ParseAnnounceList(b, k))
<1>1. Len(b) \in Nat /\ Len(c) \in Nat /\ d \in Nat BY DEF LiesIn
<1>2. k \in Nat BY <1>1
<1>3. /\ c[i] = b[k] /\ (At(c, i, "l") <=> At(b, k, "l"))
      /\ (ReadUtf8(c, i) = Error) <=> (ReadUtf8(b, k) = Error)
  BY SameTokens
<1>4. <<>> \in Seq(Seq(Utf8)) /\ <<>> \in Seq(Seq(Str)) BY EmptySeq
<1>5. PICK x, y : x = ParseAnnounceList(c, i) /\ y = ParseAnnounceList(b, k) OBVIOUS
<1>6. CASE At(c, i, "l")
  <2>1. PICK j : j = i + 1 OBVIOUS
  <2>2. j \in Nat /\ j # 0 /\ j + d = k + 1 /\ k + 1 \in Nat BY <1>1, <1>2, <2>1
  <2>3. x = ParseGroups(c, j) BY <1>5, <1>6, <2>1 DEF ParseAnnounceList
  <2>4. y = ParseGroups(b, k + 1) BY <1>3, <1>5, <1>6 DEF ParseAnnounceList
  <2>5. x = GroupsFrom(c, j, FALSE, <<>>) BY <1>4, <2>2, <2>3, GroupsIs DEF GroupsTurn
  <2>6. y = GroupsFrom(b, k + 1, FALSE, <<>>) BY <1>4, <2>2, <2>4, GroupsIs DEF GroupsTurn
  <2>7. SeesList(c, d, GroupsFrom(c, j, FALSE, <<>>), GroupsFrom(b, j + d, FALSE, <<>>))
    BY <1>4, <2>2, GroupsSeen
  <2> QED BY <1>5, <2>2, <2>5, <2>6, <2>7
<1>7. CASE ~At(c, i, "l") /\ ReadUtf8(c, i) = Error
  <2>1. x = NoList /\ y = NoList BY <1>3, <1>5, <1>7 DEF ParseAnnounceList
  <2> QED BY <1>5, <2>1 DEF SeesList, Seen, NoList
<1>8. CASE ~At(c, i, "l") /\ ReadUtf8(c, i) # Error
  <2>1. x = [pos |-> i + 1, list |-> <<<<c[i].v>>>>] BY <1>5, <1>8 DEF ParseAnnounceList
  <2>2. y = [pos |-> k + 1, list |-> <<<<c[i].v>>>>] BY <1>3, <1>5, <1>8 DEF ParseAnnounceList
  <2>3. Seen(c, d, k + 1) = i + 1 BY <1>1 DEF Seen, Error
  <2> QED BY <1>5, <2>1, <2>2, <2>3 DEF SeesList
<1> QED BY <1>6, <1>7, <1>8
=============================================================================
