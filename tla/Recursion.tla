----------------------------- MODULE Recursion -----------------------------
(***************************************************************************)
(* Induction over the natural numbers and definitions by recursion, stated *)
(* with sets and functions instead of operators as parameters: what the    *)
(* proofs about loops over bytes, columns and lines rest on.               *)
(***************************************************************************)
EXTENDS SequencesExt, Integers, SequenceTheorems, WellFoundedInduction, TLAPS

(***************************************************************************)
(* A set with 0 and every successor of a member is all of Nat.             *)
(***************************************************************************)
THEOREM Induction ==
  ASSUME NEW T \in SUBSET Nat, 0 \in T, \A n \in T : n + 1 \in T
  PROVE  T = Nat
<1> SUFFICES ASSUME Nat \ T # {} PROVE FALSE
  OBVIOUS
<1>1. PICK n \in Nat \ T : \A k \in Nat \ T : <<k, n>> \notin OpToRel(<, Nat)
  BY NatLessThanWellFounded, WFMin
<1>2. n # 0 /\ n - 1 \in Nat OBVIOUS
<1>3. n - 1 \notin T BY <1>2
<1>4. <<n - 1, n>> \in OpToRel(<, Nat) BY <1>2 DEF OpToRel
<1> QED BY <1>1, <1>2, <1>3, <1>4

(***************************************************************************)
(* A set of natural numbers that is not empty has a least member.          *)
(***************************************************************************)
THEOREM LeastExists ==
  ASSUME NEW T \in SUBSET Nat, T # {}
  PROVE  \E n \in T : \A k \in T : n <= k
<1>1. PICK n \in T : \A k \in T : <<k, n>> \notin OpToRel(<, Nat)
  BY NatLessThanWellFounded, WFMin
<1>2. \A k \in T : ~(k < n) BY <1>1 DEF OpToRel
<1> QED BY <1>2

(***************************************************************************)
(* The same with all smaller members to go by.                             *)
(***************************************************************************)
THEOREM StrongInduction ==
  ASSUME NEW T \in SUBSET Nat, \A n \in Nat : (\A k \in 0..(n - 1) : k \in T) => n \in T
  PROVE  T = Nat
<1> SUFFICES ASSUME Nat \ T # {} PROVE FALSE
  OBVIOUS
<1>1. PICK n \in Nat \ T : \A k \in Nat \ T : n <= k BY LeastExists
<1>2. \A k \in 0..(n - 1) : k \in T BY <1>1
<1> QED BY <1>1, <1>2

(***************************************************************************)
(* The same for elements of any set that have a measure.                   *)
(***************************************************************************)
THEOREM MeasureInduction ==
  ASSUME NEW D, NEW m \in [D -> Nat], NEW T \in SUBSET D,
         \A x \in D : (\A y \in D : m[y] < m[x] => y \in T) => x \in T
  PROVE  T = D
<1> DEFINE N == {n \in Nat : \A x \in D : m[x] = n => x \in T}
<1>1. ASSUME NEW n \in Nat, \A k \in 0..(n - 1) : k \in N PROVE n \in N
  <2> SUFFICES ASSUME NEW x \in D, m[x] = n PROVE x \in T
    OBVIOUS
  <2>1. \A y \in D : m[y] < m[x] => m[y] \in 0..(n - 1) OBVIOUS
  <2>2. \A y \in D : m[y] < m[x] => y \in T BY <1>1, <2>1
  <2> QED BY <2>2
<1>2. N \in SUBSET Nat OBVIOUS
<1>3. N = Nat
  <2> HIDE DEF N
  <2> QED BY <1>1, <1>2, StrongInduction
<1>4. \A x \in D : m[x] \in N BY <1>3
<1> QED BY <1>4

(***************************************************************************)
(* A set with the empty sequence and every member with one element more is *)
(* all of Seq(S).                                                          *)
(***************************************************************************)
THEOREM SeqInduction ==
  ASSUME NEW S, NEW T \in SUBSET Seq(S), <<>> \in T,
         \A s \in T : \A c \in S : Append(s, c) \in T
  PROVE  T = Seq(S)
<1> DEFINE N == {n \in Nat : \A s \in Seq(S) : Len(s) = n => s \in T}
<1>1. 0 \in N BY EmptySeq
<1>2. ASSUME NEW n \in N PROVE n + 1 \in N
  <2> SUFFICES ASSUME NEW s \in Seq(S), Len(s) = n + 1 PROVE s \in T
    BY <1>2
  <2>1. PICK r, c : r = SubSeq(s, 1, n) /\ c = s[n + 1] OBVIOUS
  <2>2. c \in S /\ r \in Seq(S) /\ Len(r) = n /\ \A m \in 1..n : r[m] = s[m] BY <1>2, <2>1
  <2>3. s = Append(r, c)
    <3>1. /\ Append(r, c) \in Seq(S) /\ Len(Append(r, c)) = Len(r) + 1
          /\ Append(r, c)[Len(r) + 1] = c /\ \A m \in 1..Len(r) : Append(r, c)[m] = r[m]
      <4>1. r \in Seq(S) /\ c \in S BY <2>2
      <4> QED BY ONLY <4>1, AppendProperties
    <3>2. \A m \in 1..(n + 1) : Append(r, c)[m] = s[m]
      <4> SUFFICES ASSUME NEW m \in 1..(n + 1) PROVE Append(r, c)[m] = s[m]
        OBVIOUS
      <4>1. m \in 1..n \/ m = n + 1 BY <1>2
      <4> QED BY <2>1, <2>2, <3>1, <4>1
    <3> QED BY <1>2, <2>2, <3>1, <3>2, SeqEqual
  <2>4. r \in T BY <1>2, <2>2
  <2> QED BY <2>2, <2>3, <2>4
<1>3. N = Nat
  <2>1. N \in SUBSET Nat OBVIOUS
  <2> HIDE DEF N
  <2> QED BY <1>1, <1>2, <2>1, Induction
<1>4. \A s \in Seq(S) : Len(s) \in N BY <1>3, LenProperties
<1> QED BY <1>4

-----------------------------------------------------------------------------
\* f solves x = B[x, f] for the arguments below n in the order m.
Solves(D, m, B, f, n) == \A x \in D : m[x] < n => f[x] = B[<<x, f>>]

\* B[x, f] depends on the values of f for smaller arguments only.
LooksBack(D, R, m, B) ==
  \A x \in D : \A f, g \in [D -> R] :
    (\A y \in D : m[y] < m[x] => f[y] = g[y]) => B[<<x, f>>] = B[<<x, g>>]

\* B defines a function from D to R by recursion on the measure m.
Defines(D, R, m, B) ==
  /\ R # {} /\ m \in [D -> Nat]
  /\ B \in [D \X [D -> R] -> R]
  /\ LooksBack(D, R, m, B)

\* There is such a function.
Solvable(D, R, B) == \E f \in [D -> R] : \A x \in D : f[x] = B[<<x, f>>]

(***************************************************************************)
(* Two solutions agree as far as both are solutions.                       *)
(***************************************************************************)
THEOREM SolutionsAgree ==
  ASSUME NEW D, NEW R, NEW m \in [D -> Nat], NEW B, LooksBack(D, R, m, B),
         NEW f \in [D -> R], NEW g \in [D -> R], NEW n \in Nat,
         Solves(D, m, B, f, n), Solves(D, m, B, g, n)
  PROVE  \A x \in D : m[x] < n => f[x] = g[x]
<1> DEFINE T == {k \in Nat : \A x \in D : m[x] < k /\ m[x] < n => f[x] = g[x]}
<1>1. 0 \in T OBVIOUS
<1>2. ASSUME NEW k \in T PROVE k + 1 \in T
  <2> SUFFICES ASSUME NEW x \in D, m[x] < k + 1, m[x] < n PROVE f[x] = g[x]
    BY <1>2
  <2>1. \A y \in D : m[y] < m[x] => m[y] < k /\ m[y] < n BY <1>2
  <2>2. \A y \in D : m[y] < m[x] => f[y] = g[y] BY <1>2, <2>1
  <2>3. B[<<x, f>>] = B[<<x, g>>] BY <2>2 DEF LooksBack
  <2> QED BY <2>3 DEF Solves
<1>3. T = Nat
  <2> HIDE DEF T
  <2>1. T \in SUBSET Nat BY DEF T
  <2> QED BY <1>1, <1>2, <2>1, Induction
<1>4. n \in T BY <1>3
<1> QED BY <1>4

(***************************************************************************)
(* There is a solution for all arguments.                                  *)
(***************************************************************************)
THEOREM SolutionExists ==
  ASSUME NEW D, NEW R, NEW m, NEW B, Defines(D, R, m, B)
  PROVE  Solvable(D, R, B)
<1> SUFFICES ASSUME R # {}, m \in [D -> Nat], B \in [D \X [D -> R] -> R],
                    LooksBack(D, R, m, B)
             PROVE  \E f \in [D -> R] : \A x \in D : f[x] = B[<<x, f>>]
  BY DEF Defines, Solvable
<1> DEFINE T == {n \in Nat : \E f \in [D -> R] : Solves(D, m, B, f, n)}
<1>1. 0 \in T
  <2>1. PICK r \in R : TRUE OBVIOUS
  <2>2. [x \in D |-> r] \in [D -> R] OBVIOUS
  <2>3. Solves(D, m, B, [x \in D |-> r], 0) BY DEF Solves
  <2> QED BY <2>2, <2>3
<1>2. ASSUME NEW n \in T PROVE n + 1 \in T
  <2>1. PICK f \in [D -> R] : Solves(D, m, B, f, n) BY <1>2
  <2> DEFINE g == [x \in D |-> IF m[x] < n + 1 THEN B[<<x, f>>] ELSE f[x]]
  <2>2. g \in [D -> R] OBVIOUS
  <2>3. \A x \in D : m[x] < n => g[x] = f[x]
    BY <1>2, <2>1 DEF Solves
  <2>4. ASSUME NEW x \in D, m[x] < n + 1 PROVE g[x] = B[<<x, g>>]
    <3>1. \A y \in D : m[y] < m[x] => f[y] = g[y] BY <1>2, <2>3, <2>4
    <3> HIDE DEF g
    <3>2. B[<<x, f>>] = B[<<x, g>>] BY <2>2, <3>1 DEF LooksBack
    <3> QED BY <2>4, <3>2 DEF g
  <2> HIDE DEF g
  <2>5. Solves(D, m, B, g, n + 1) BY <2>4 DEF Solves
  <2> QED BY <1>2, <2>2, <2>5
<1>3. T = Nat
  <2> HIDE DEF T
  <2>1. T \in SUBSET Nat BY DEF T
  <2> QED BY <1>1, <1>2, <2>1, Induction
<1> DEFINE S(n) == CHOOSE f \in [D -> R] : Solves(D, m, B, f, n)
           F == [x \in D |-> S(m[x] + 1)[x]]
<1>4. ASSUME NEW n \in Nat PROVE S(n) \in [D -> R] /\ Solves(D, m, B, S(n), n)
  <2>1. \E f \in [D -> R] : Solves(D, m, B, f, n) BY <1>3
  <2> QED BY <2>1
<1> HIDE DEF S
<1>5. F \in [D -> R] BY <1>4
<1>6. ASSUME NEW x \in D PROVE F[x] = B[<<x, F>>]
  <2> DEFINE f == S(m[x] + 1)
  <2>1. f \in [D -> R] /\ Solves(D, m, B, f, m[x] + 1) BY <1>4
  <2>2. ASSUME NEW y \in D, m[y] < m[x] PROVE f[y] = F[y]
    <3>0. m[y] + 1 \in Nat OBVIOUS
    <3>1. S(m[y] + 1) \in [D -> R] /\ Solves(D, m, B, S(m[y] + 1), m[y] + 1) BY <1>4, <3>0, Zenon
    <3> HIDE DEF f
    <3>2. Solves(D, m, B, f, m[y] + 1) BY <2>1, <2>2 DEF Solves
    <3>3. f[y] = S(m[y] + 1)[y]
      <4>1. PICK g : g = S(m[y] + 1) OBVIOUS
      <4>2. m[y] + 1 \in Nat /\ m[y] < m[y] + 1 OBVIOUS
      <4> QED BY <2>1, <3>1, <3>2, <4>1, <4>2, SolutionsAgree
    <3> QED BY <3>3
  <2> HIDE DEF f, F
  <2>3. B[<<x, f>>] = B[<<x, F>>] BY <1>5, <2>1, <2>2 DEF LooksBack
  <2>4. f[x] = B[<<x, f>>] BY <2>1 DEF Solves
  <2>5. F[x] = f[x] BY Zenon DEF f, F
  <2> QED BY <2>3, <2>4, <2>5
<1> QED BY <1>5, <1>6

-----------------------------------------------------------------------------
\* What FlattenSeq computes on the way.
Flattens(f, ss) ==
  f = [i \in 1..Len(ss) |-> IF i = 1 THEN ss[i] ELSE f[i - 1] \o ss[i]]

(***************************************************************************)
(* The recursive function of FlattenSeq exists.                            *)
(***************************************************************************)
LEMMA FlattensExists ==
  ASSUME NEW S, NEW ss \in Seq(Seq(S))
  PROVE  \E f : Flattens(f, ss)
<1> DEFINE D == 1..Len(ss)
           R == Seq(S)
           m == [i \in D |-> i]
           B == [z \in D \X [D -> R] |->
                   IF z[1] = 1 THEN ss[z[1]] ELSE z[2][z[1] - 1] \o ss[z[1]]]
<1>0. Len(ss) \in Nat BY LenProperties
<1>1. m \in [D -> Nat] BY <1>0
<1>2. R # {} BY EmptySeq
<1>3. B \in [D \X [D -> R] -> R]
  <2> SUFFICES ASSUME NEW i \in D, NEW f \in [D -> R]
               PROVE  (IF i = 1 THEN ss[i] ELSE f[i - 1] \o ss[i]) \in R
    OBVIOUS
  <2>1. ss[i] \in R OBVIOUS
  <2>2. CASE i = 1 BY <2>1, <2>2
  <2>3. CASE i # 1
    <3>1. i - 1 \in D BY <1>0, <2>3
    <3>2. f[i - 1] \in R BY <3>1
    <3> QED BY <2>1, <2>3, <3>2, ConcatProperties
  <2> QED BY <2>2, <2>3
<1>4. \A i \in D, f \in [D -> R] : B[<<i, f>>] = IF i = 1 THEN ss[i] ELSE f[i - 1] \o ss[i]
  OBVIOUS
<1>5. \A i \in D : m[i] = i OBVIOUS
<1>6. LooksBack(D, R, m, B)
  <2> HIDE DEF B, m, R, D
  <2> SUFFICES ASSUME NEW i \in D, NEW f \in [D -> R], NEW g \in [D -> R],
                      \A j \in D : m[j] < m[i] => f[j] = g[j]
               PROVE  B[<<i, f>>] = B[<<i, g>>]
    BY DEF LooksBack
  <2>1. CASE i = 1 BY <1>4, <2>1
  <2>2. CASE i # 1
    <3>1. i - 1 \in D /\ i \in Int BY <1>0, <2>2 DEF D
    <3>2. m[i - 1] = i - 1 /\ m[i] = i BY <1>5, <3>1
    <3>3. f[i - 1] = g[i - 1] BY <3>1, <3>2
    <3>4. B[<<i, f>>] = f[i - 1] \o ss[i] BY <1>4, <2>2
    <3>5. B[<<i, g>>] = g[i - 1] \o ss[i] BY <1>4, <2>2
    <3> QED BY <3>3, <3>4, <3>5
  <2> QED BY <2>1, <2>2
<1>7. \E f \in [D -> R] : \A i \in D : f[i] = B[<<i, f>>]
  <2> HIDE DEF B, m, R, D
  <2>1. PICK b, n, d, r : b = B /\ n = m /\ d = D /\ r = R OBVIOUS
  <2>2. Defines(D, R, m, B) BY <1>1, <1>2, <1>3, <1>6, Zenon DEF Defines
  <2>3. Defines(d, r, n, b) BY <2>1, <2>2, Zenon
  <2>4. Solvable(d, r, b) BY <2>3, SolutionExists
  <2> QED BY <2>1, <2>4, Zenon DEF Solvable
<1>8. PICK f \in [D -> R] : \A i \in D : f[i] = B[<<i, f>>] BY <1>7
<1>9. \A i \in D : f[i] = IF i = 1 THEN ss[i] ELSE f[i - 1] \o ss[i] BY <1>4, <1>8
<1>10. f = [i \in D |-> IF i = 1 THEN ss[i] ELSE f[i - 1] \o ss[i]] BY <1>9
<1> QED BY <1>10 DEF Flattens

(***************************************************************************)
(* What FlattenSeq returns of lists, and where it comes from.              *)
(***************************************************************************)
LEMMA FlattenIs ==
  ASSUME NEW S, NEW ss \in Seq(Seq(S)), ss # <<>>
  PROVE  /\ Len(ss) \in Nat \ {0}
         /\ \E f \in [1..Len(ss) -> Seq(S)] : Flattens(f, ss) /\ FlattenSeq(ss) = f[Len(ss)]
<1>1. Len(ss) \in Nat \ {0} BY EmptySeq
<1>2. \E f : Flattens(f, ss) BY FlattensExists
<1> DEFINE g == CHOOSE f : Flattens(f, ss)
<1>3. Flattens(g, ss) BY <1>2, Zenon
<1>4. FlattenSeq(ss) = g[Len(ss)] BY <1>1 DEF FlattenSeq, Flattens
<1> HIDE DEF g
<1>5. \A i \in 1..Len(ss) : g[i] = IF i = 1 THEN ss[i] ELSE g[i - 1] \o ss[i]
  BY <1>3 DEF Flattens
<1> DEFINE T == {i \in Nat : i \in 1..Len(ss) => g[i] \in Seq(S)}
<1>6. 0 \in T OBVIOUS
<1>7. ASSUME NEW i \in T PROVE i + 1 \in T
  <2> SUFFICES ASSUME i + 1 \in 1..Len(ss) PROVE g[i + 1] \in Seq(S)
    BY <1>7
  <2>1. ss[i + 1] \in Seq(S) OBVIOUS
  <2>2. CASE i = 0 BY <1>5, <2>1, <2>2
  <2>3. CASE i # 0
    <3>1. g[i] \in Seq(S) BY <1>7, <2>3
    <3>2. i + 1 # 1 /\ (i + 1) - 1 = i BY <1>7, <2>3
    <3>3. g[i + 1] = g[i] \o ss[i + 1] BY <1>5, <3>2
    <3> QED BY <2>1, <3>1, <3>3, ConcatProperties
  <2> QED BY <2>2, <2>3
<1>8. T = Nat
  <2>1. T \in SUBSET Nat OBVIOUS
  <2> HIDE DEF T
  <2> QED BY <1>6, <1>7, <2>1, Induction
<1>9. ASSUME NEW i \in 1..Len(ss) PROVE g[i] \in Seq(S)
  <2>1. i \in Nat BY <1>1
  <2>2. i \in T BY <1>8, <2>1
  <2> QED BY <2>2
<1>10. g \in [1..Len(ss) -> Seq(S)] BY <1>3, <1>9 DEF Flattens
<1> QED BY <1>1, <1>3, <1>4, <1>10

(***************************************************************************)
(* FlattenSeq of lists is a list.                                          *)
(***************************************************************************)
LEMMA FlattenType ==
  ASSUME NEW S, NEW ss \in Seq(Seq(S))
  PROVE  FlattenSeq(ss) \in Seq(S)
<1>1. CASE ss = <<>>
  <2>1. FlattenSeq(ss) = <<>> BY <1>1, EmptySeq DEF FlattenSeq
  <2> QED BY <2>1, EmptySeq
<1>2. CASE ss # <<>>
  <2>1. PICK f \in [1..Len(ss) -> Seq(S)] : FlattenSeq(ss) = f[Len(ss)] BY <1>2, FlattenIs
  <2>2. Len(ss) \in 1..Len(ss) BY <1>2, FlattenIs
  <2> QED BY <2>1, <2>2
<1> QED BY <1>1, <1>2

(***************************************************************************)
(* One more list: what it has comes behind the rest.                       *)
(***************************************************************************)
THEOREM FlattenAppend ==
  ASSUME NEW S, NEW ss \in Seq(Seq(S)), NEW s \in Seq(S)
  PROVE  FlattenSeq(Append(ss, s)) = FlattenSeq(ss) \o s
<1> DEFINE tt == Append(ss, s)
           n == Len(ss)
<1>1. /\ tt \in Seq(Seq(S)) /\ tt # <<>> /\ Len(tt) = n + 1 /\ n \in Nat
      /\ tt[n + 1] = s /\ \A i \in 1..n : tt[i] = ss[i]
  BY AppendProperties, LenProperties
<1> HIDE DEF tt
<1>2. PICK g \in [1..Len(tt) -> Seq(S)] : Flattens(g, tt) /\ FlattenSeq(tt) = g[Len(tt)]
  BY <1>1, FlattenIs
<1>3. \A i \in 1..(n + 1) : g[i] = IF i = 1 THEN tt[i] ELSE g[i - 1] \o tt[i]
  BY <1>1, <1>2 DEF Flattens
<1>4. CASE ss = <<>>
  <2>1. n = 0 BY <1>4, EmptySeq
  <2>2. FlattenSeq(ss) = <<>> BY <1>4, <2>1 DEF FlattenSeq
  <2>3. FlattenSeq(tt) = s BY <1>1, <1>2, <1>3, <2>1
  <2>4. <<>> \o s = s BY ConcatEmptySeq
  <2> QED BY <2>2, <2>3, <2>4 DEF tt
<1>5. CASE ss # <<>>
  <2>1. n \in Nat \ {0} BY <1>5, FlattenIs
  <2>2. PICK f \in [1..n -> Seq(S)] : Flattens(f, ss) /\ FlattenSeq(ss) = f[n]
    BY <1>5, FlattenIs
  <2>3. \A i \in 1..n : f[i] = IF i = 1 THEN ss[i] ELSE f[i - 1] \o ss[i]
    BY <2>2 DEF Flattens
  <2> DEFINE T == {i \in Nat : i \in 1..n => g[i] = f[i]}
  <2>4. 0 \in T OBVIOUS
  <2>5. ASSUME NEW i \in T PROVE i + 1 \in T
    <3> SUFFICES ASSUME i + 1 \in 1..n PROVE g[i + 1] = f[i + 1]
      BY <2>5
    <3>1. tt[i + 1] = ss[i + 1] BY <1>1
    <3>2. CASE i = 0
      <4>1. 1 \in 1..n /\ 1 \in 1..(n + 1) BY <2>1
      <4>2. g[1] = tt[1] /\ f[1] = ss[1] BY <1>3, <2>3, <4>1
      <4> QED BY <3>1, <3>2, <4>2
    <3>3. CASE i # 0
      <4>1. i \in 1..n /\ i + 1 # 1 /\ (i + 1) - 1 = i /\ i + 1 \in 1..(n + 1) BY <2>5, <3>3
      <4>2. g[i] = f[i] BY <2>5, <4>1
      <4>3. g[i + 1] = g[i] \o tt[i + 1] BY <1>3, <4>1
      <4>4. f[i + 1] = f[i] \o ss[i + 1] BY <2>3, <4>1
      <4> QED BY <3>1, <4>2, <4>3, <4>4
    <3> QED BY <3>2, <3>3
  <2>6. T = Nat
    <3>1. T \in SUBSET Nat OBVIOUS
    <3> HIDE DEF T
    <3> QED BY <2>4, <2>5, <3>1, Induction
  <2>7. g[n] = f[n]
    <3>1. n \in T BY <2>1, <2>6, Zenon
    <3>2. n \in 1..n BY <2>1
    <3> QED BY <3>1, <3>2
  <2>8. g[n + 1] = g[n] \o s
    <3>1. n + 1 \in 1..(n + 1) /\ n + 1 # 1 /\ (n + 1) - 1 = n BY <2>1
    <3>2. g[n + 1] = g[n] \o tt[n + 1] BY <1>3, <3>1
    <3> QED BY <1>1, <3>2
  <2>9. FlattenSeq(tt) = FlattenSeq(ss) \o s BY <1>1, <1>2, <2>2, <2>7, <2>8
  <2> QED BY <2>9 DEF tt
<1> QED BY <1>4, <1>5
=============================================================================
