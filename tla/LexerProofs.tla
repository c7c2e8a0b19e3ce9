---------------------------- MODULE LexerProofs ----------------------------
(***************************************************************************)
(* The loops of Lexer over digits stay inside the buffer and inside the    *)
(* range of int64_t, and a call that fails leaves the position alone: for  *)
(* any buffer and for integers of any width, of which TLC checks a small   *)
(* one.  And what they accept is what they should: a call succeeds exactly *)
(* if a number or a string in decimal form stands at its position, and     *)
(* then ends behind it with its value.                                     *)
(***************************************************************************)
EXTENDS Lexer, Recursion

-----------------------------------------------------------------------------
(***************************************************************************)
(* Decimal forms, for all numbers.  The recursive functions of Lexer exist *)
(* and satisfy their equations.                                            *)
(***************************************************************************)
IsForm(f) ==
  f = [m \in Nat |-> IF m < 10 THEN <<Zero + m>> ELSE Append(f[m \div 10], Zero + (m % 10))]
IsValue(f, s) ==
  f = [m \in 0..Len(s) |-> IF m = 0 THEN 0 ELSE 10 * f[m - 1] + (s[m] - Zero)]

\* Sequences of integers; the ones that are digits.
Ints == Seq(Int)
AllDigits(s) == \A m \in 1..Len(s) : IsDigit(s[m])

(***************************************************************************)
(* Division by ten, as far as the decimal form needs it.                   *)
(***************************************************************************)
LEMMA ByTen ==
  /\ \A m \in Nat : m >= 10 => m \div 10 \in 1..(m - 1)
  /\ \A m \in Nat : m \div 10 \in Nat /\ m % 10 \in 0..9 /\ m = 10 * (m \div 10) + (m % 10)
  /\ \A q \in Nat, d \in 0..9 : (10 * q + d) \div 10 = q /\ (10 * q + d) % 10 = d
  OBVIOUS

(***************************************************************************)
(* There is a decimal form of every number: the quotient is smaller.       *)
(***************************************************************************)
LEMMA FormExists == \E f : IsForm(f) /\ f \in [Nat -> Ints]
<1> DEFINE D == Nat
           R == Ints
           m == [x \in D |-> x]
           Step(x, f) == IF x < 10 THEN <<Zero + x>> ELSE Append(f[x \div 10], Zero + (x % 10))
           B == [z \in D \X [D -> R] |-> Step(z[1], z[2])]
<1>1. m \in [D -> Nat] OBVIOUS
<1>2. R # {} BY EmptySeq DEF Ints
<1>3. ASSUME NEW x \in D, NEW f \in [D -> R] PROVE Step(x, f) \in R
  <2>1. CASE x < 10 BY <2>1 DEF Ints, Zero
  <2>2. CASE ~(x < 10)
    <3>1. x \div 10 \in Nat /\ Zero + (x % 10) \in Int BY ByTen DEF Zero
    <3>2. f[x \div 10] \in Ints BY <3>1
    <3>3. Append(f[x \div 10], Zero + (x % 10)) \in Ints BY <3>1, <3>2 DEF Ints
    <3> QED BY <2>2, <3>3
  <2> QED BY <2>1, <2>2
<1>4. \A x \in D, f \in [D -> R] : B[<<x, f>>] = Step(x, f) OBVIOUS
<1>5. B \in [D \X [D -> R] -> R]
  <2> HIDE DEF Step, R, D
  <2> QED BY <1>3
<1>6. LooksBack(D, R, m, B)
  <2> SUFFICES ASSUME NEW x \in D, NEW f \in [D -> R], NEW g \in [D -> R],
                      \A y \in D : m[y] < m[x] => f[y] = g[y]
               PROVE  Step(x, f) = Step(x, g)
    <3> HIDE DEF Step, B, m, R, D
    <3> QED BY <1>4 DEF LooksBack
  <2>1. CASE x < 10 BY <2>1
  <2>2. CASE ~(x < 10)
    <3>1. x \div 10 \in Nat /\ x \div 10 < x BY <2>2, ByTen
    <3>2. f[x \div 10] = g[x \div 10] BY <3>1
    <3> QED BY <2>2, <3>2
  <2> QED BY <2>1, <2>2
<1>7. \E f \in [D -> R] : \A x \in D : f[x] = B[<<x, f>>]
  <2> HIDE DEF B, m, R, D
  <2>1. PICK b, n, d, r : b = B /\ n = m /\ d = D /\ r = R OBVIOUS
  <2>2. Defines(D, R, m, B) BY <1>1, <1>2, <1>5, <1>6, Zenon DEF Defines
  <2>3. Defines(d, r, n, b) BY <2>1, <2>2, Zenon
  <2>4. Solvable(d, r, b) BY <2>3, SolutionExists
  <2> QED BY <2>1, <2>4, Zenon DEF Solvable
<1>8. PICK f \in [D -> R] : \A x \in D : f[x] = B[<<x, f>>] BY <1>7
<1>9. \A x \in D : f[x] = Step(x, f)
  <2> HIDE DEF Step, B
  <2> QED BY <1>4, <1>8
<1>10. f = [x \in Nat |-> Step(x, f)] BY <1>9
<1> QED BY <1>8, <1>10 DEF IsForm

(***************************************************************************)
(* Digits(n) has the digits of n divided by ten in front of the last one.  *)
(***************************************************************************)
LEMMA DigitsAre ==
  \A n \in Nat : /\ Digits(n) \in Ints
                 /\ Digits(n) = IF n < 10 THEN <<Zero + n>>
                                ELSE Append(Digits(n \div 10), Zero + (n % 10))
<1> DEFINE g == CHOOSE f : IsForm(f)
<1>1. IsForm(g) BY FormExists, Zenon
<1>2. \A n \in Nat : Digits(n) = g[n] BY DEF Digits, IsForm
<1> HIDE DEF g
<1>3. \A n \in Nat : g[n] = IF n < 10 THEN <<Zero + n>> ELSE Append(g[n \div 10], Zero + (n % 10))
  BY <1>1 DEF IsForm
<1> DEFINE T == {n \in Nat : g[n] \in Ints}
<1>4. ASSUME NEW n \in Nat, \A k \in 0..(n - 1) : k \in T PROVE n \in T
  <2>1. CASE n < 10
    <3>1. g[n] = <<Zero + n>> BY <1>3, <2>1
    <3>2. <<Zero + n>> \in Ints BY DEF Ints, Zero
    <3> QED BY <3>1, <3>2
  <2>2. CASE ~(n < 10)
    <3>1. n \div 10 \in 0..(n - 1) /\ Zero + (n % 10) \in Int BY <2>2, ByTen DEF Zero
    <3>2. g[n \div 10] \in Ints BY <1>4, <3>1
    <3>3. g[n] = Append(g[n \div 10], Zero + (n % 10)) BY <1>3, <2>2
    <3>4. Append(g[n \div 10], Zero + (n % 10)) \in Ints BY <3>1, <3>2 DEF Ints
    <3> QED BY <3>3, <3>4
  <2> QED BY <2>1, <2>2
<1>5. T = Nat
  <2>1. T \in SUBSET Nat OBVIOUS
  <2> HIDE DEF T
  <2> QED BY <1>4, <2>1, StrongInduction
<1>6. \A n \in Nat : g[n] \in Ints BY <1>5
<1> QED BY <1>2, <1>3, <1>6, ByTen

(***************************************************************************)
(* The value of bytes is computed from the left.                           *)
(***************************************************************************)
LEMMA ValueExists ==
  ASSUME NEW s \in Ints
  PROVE  \E f : IsValue(f, s) /\ f \in [0..Len(s) -> Int]
<1> DEFINE D == 0..Len(s)
           R == Int
           m == [x \in D |-> x]
           Step(x, f) == IF x = 0 THEN 0 ELSE 10 * f[x - 1] + (s[x] - Zero)
           B == [z \in D \X [D -> R] |-> Step(z[1], z[2])]
<1>1. Len(s) \in Nat /\ \A x \in 1..Len(s) : s[x] \in Int BY DEF Ints
<1>2. m \in [D -> Nat] BY <1>1
<1>3. R # {} OBVIOUS
<1>4. ASSUME NEW x \in D, NEW f \in [D -> R] PROVE Step(x, f) \in R
  <2>1. CASE x = 0 BY <2>1
  <2>2. CASE x # 0
    <3>1. x - 1 \in D /\ s[x] \in Int BY <1>1, <2>2
    <3>2. f[x - 1] \in Int BY <3>1
    <3> QED BY <2>2, <3>1, <3>2 DEF Zero
  <2> QED BY <2>1, <2>2
<1>5. \A x \in D, f \in [D -> R] : B[<<x, f>>] = Step(x, f) OBVIOUS
<1>6. B \in [D \X [D -> R] -> R]
  <2> HIDE DEF Step, R, D
  <2> QED BY <1>4
<1>7. LooksBack(D, R, m, B)
  <2> SUFFICES ASSUME NEW x \in D, NEW f \in [D -> R], NEW g \in [D -> R],
                      \A y \in D : m[y] < m[x] => f[y] = g[y]
               PROVE  Step(x, f) = Step(x, g)
    <3> HIDE DEF Step, B, m, R, D
    <3> QED BY <1>5 DEF LooksBack
  <2>1. CASE x = 0 BY <2>1
  <2>2. CASE x # 0
    <3>1. x - 1 \in D /\ x - 1 < x BY <1>1, <2>2
    <3>2. f[x - 1] = g[x - 1] BY <3>1
    <3> QED BY <2>2, <3>2
  <2> QED BY <2>1, <2>2
<1>8. \E f \in [D -> R] : \A x \in D : f[x] = B[<<x, f>>]
  <2> HIDE DEF B, m, R, D
  <2>1. PICK b, n, d, r : b = B /\ n = m /\ d = D /\ r = R OBVIOUS
  <2>2. Defines(D, R, m, B) BY <1>2, <1>3, <1>6, <1>7, Zenon DEF Defines
  <2>3. Defines(d, r, n, b) BY <2>1, <2>2, Zenon
  <2>4. Solvable(d, r, b) BY <2>3, SolutionExists
  <2> QED BY <2>1, <2>4, Zenon DEF Solvable
<1>9. PICK f \in [D -> R] : \A x \in D : f[x] = B[<<x, f>>] BY <1>8
<1>10. \A x \in D : f[x] = Step(x, f)
  <2> HIDE DEF Step, B
  <2> QED BY <1>5, <1>9
<1>11. f = [x \in 0..Len(s) |-> Step(x, f)] BY <1>10
<1> QED BY <1>9, <1>11 DEF IsValue

(***************************************************************************)
(* ValueOf(s) is the last of the values of what s begins with.             *)
(***************************************************************************)
LEMMA ValuesAre ==
  ASSUME NEW s \in Ints
  PROVE  \E f \in [0..Len(s) -> Int] :
           /\ f[0] = 0 /\ \A m \in 1..Len(s) : f[m] = 10 * f[m - 1] + (s[m] - Zero)
           /\ ValueOf(s) = f[Len(s)]
<1>1. Len(s) \in Nat /\ \A x \in 1..Len(s) : s[x] \in Int BY DEF Ints
<1> DEFINE g == CHOOSE f : IsValue(f, s)
<1>2. IsValue(g, s) BY ValueExists, Zenon
<1>3. ValueOf(s) = g[Len(s)] BY DEF ValueOf, IsValue
<1> HIDE DEF g
<1>4. \A m \in 0..Len(s) : g[m] = IF m = 0 THEN 0 ELSE 10 * g[m - 1] + (s[m] - Zero)
  BY <1>2 DEF IsValue
<1>5. g[0] = 0 /\ \A m \in 1..Len(s) : g[m] = 10 * g[m - 1] + (s[m] - Zero) BY <1>1, <1>4
<1> DEFINE T == {m \in Nat : m \in 0..Len(s) => g[m] \in Int}
<1>6. 0 \in T BY <1>5
<1>7. ASSUME NEW m \in T PROVE m + 1 \in T
  <2> SUFFICES ASSUME m + 1 \in 0..Len(s) PROVE g[m + 1] \in Int
    BY <1>7
  <2>1. g[m] \in Int BY <1>1, <1>7
  <2>2. m + 1 \in 1..Len(s) /\ (m + 1) - 1 = m BY <1>1, <1>7
  <2>3. g[m + 1] = 10 * g[m] + (s[m + 1] - Zero) BY <1>5, <2>2
  <2> QED BY <1>1, <2>1, <2>2, <2>3 DEF Zero
<1>8. T = Nat
  <2>1. T \in SUBSET Nat OBVIOUS
  <2> HIDE DEF T
  <2> QED BY <1>6, <1>7, <2>1, Induction
<1>9. \A m \in 0..Len(s) : g[m] \in Int BY <1>1, <1>8
<1>10. g \in [0..Len(s) -> Int] BY <1>2, <1>9 DEF IsValue
<1> QED BY <1>3, <1>5, <1>10

(***************************************************************************)
(* One digit more makes ten times the value and the digit.                 *)
(***************************************************************************)
LEMMA ValueNext ==
  /\ ValueOf(<<>>) = 0
  /\ \A s \in Ints, c \in Int : /\ Append(s, c) \in Ints /\ ValueOf(s) \in Int
                                /\ ValueOf(Append(s, c)) = 10 * ValueOf(s) + (c - Zero)
<1>1. ValueOf(<<>>) = 0
  <2>1. <<>> \in Ints /\ Len(<<>>) = 0 BY EmptySeq DEF Ints
  <2>2. PICK f \in [0..Len(<<>>) -> Int] : f[0] = 0 /\ ValueOf(<<>>) = f[Len(<<>>)]
    BY <2>1, ValuesAre
  <2> QED BY <2>1, <2>2
<1>2. ASSUME NEW s \in Ints, NEW c \in Int
      PROVE  /\ Append(s, c) \in Ints /\ ValueOf(s) \in Int
             /\ ValueOf(Append(s, c)) = 10 * ValueOf(s) + (c - Zero)
  <2>1. PICK f \in [0..Len(s) -> Int] :
           /\ f[0] = 0 /\ \A m \in 1..Len(s) : f[m] = 10 * f[m - 1] + (s[m] - Zero)
           /\ ValueOf(s) = f[Len(s)]
    BY ValuesAre
  <2>2. PICK t, n : t = Append(s, c) /\ n = Len(s) OBVIOUS
  <2>3. /\ n \in Nat /\ t \in Ints /\ Len(t) = n + 1 /\ t[n + 1] = c
        /\ \A m \in 1..n : t[m] = s[m] /\ s[m] \in Int
    BY <2>2 DEF Ints
  <2>4. PICK g \in [0..Len(t) -> Int] :
           /\ g[0] = 0 /\ \A m \in 1..Len(t) : g[m] = 10 * g[m - 1] + (t[m] - Zero)
           /\ ValueOf(t) = g[Len(t)]
    BY <2>3, ValuesAre
  <2> DEFINE T == {m \in Nat : m \in 0..n => g[m] = f[m]}
  <2>5. 0 \in T BY <2>1, <2>4
  <2>6. ASSUME NEW m \in T PROVE m + 1 \in T
    <3> SUFFICES ASSUME m + 1 \in 0..n PROVE g[m + 1] = f[m + 1]
      BY <2>6
    <3>1. g[m] = f[m] BY <2>3, <2>6
    <3>2. m + 1 \in 1..n /\ (m + 1) - 1 = m /\ m + 1 \in 1..Len(t) BY <2>3, <2>6
    <3>3. g[m + 1] = 10 * g[m] + (t[m + 1] - Zero) BY <2>4, <3>2
    <3>4. f[m + 1] = 10 * f[m] + (s[m + 1] - Zero) BY <2>1, <2>2, <3>2
    <3> QED BY <2>3, <3>1, <3>2, <3>3, <3>4
  <2>7. T = Nat
    <3>1. T \in SUBSET Nat OBVIOUS
    <3> HIDE DEF T
    <3> QED BY <2>5, <2>6, <3>1, Induction
  <2>8. g[n] = f[n]
    <3>1. n \in T BY <2>3, <2>7
    <3> QED BY <2>3, <3>1
  <2>9. n + 1 \in 1..Len(t) /\ (n + 1) - 1 = n BY <2>3
  <2>10. g[n + 1] = 10 * g[n] + (t[n + 1] - Zero) BY <2>4, <2>9
  <2>11. ValueOf(t) = 10 * ValueOf(s) + (c - Zero) BY <2>1, <2>2, <2>3, <2>4, <2>8, <2>10
  <2>12. ValueOf(s) \in Int BY <2>1, <2>2, <2>3
  <2> QED BY <2>2, <2>3, <2>11, <2>12
<1> QED BY <1>1, <1>2

(***************************************************************************)
(* The value of a single byte.                                             *)
(***************************************************************************)
LEMMA ValueOfOne ==
  \A c \in Int : /\ <<c>> \in Ints /\ ValueOf(<<c>>) = c - Zero
                 /\ IsDigit(c) => AllDigits(<<c>>)
<1> SUFFICES ASSUME NEW c \in Int
             PROVE  /\ <<c>> \in Ints /\ ValueOf(<<c>>) = c - Zero
                    /\ IsDigit(c) => AllDigits(<<c>>)
  OBVIOUS
<1>1. <<>> \in Ints BY EmptySeq DEF Ints
<1>2. Append(<<>>, c) = <<c>> OBVIOUS
<1>3. ValueOf(Append(<<>>, c)) = 10 * ValueOf(<<>>) + (c - Zero) BY <1>1, ValueNext
<1>4. ValueOf(<<c>>) = 10 * 0 + (c - Zero) BY <1>2, <1>3, ValueNext
<1>5. ValueOf(<<c>>) = c - Zero BY <1>4 DEF Zero
<1>6. <<c>> \in Ints BY DEF Ints
<1>7. IsDigit(c) => AllDigits(<<c>>) BY DEF AllDigits
<1> QED BY <1>5, <1>6, <1>7

-----------------------------------------------------------------------------
\* Digits without a zero in front of others.
Canonical(s) == s # <<>> /\ AllDigits(s) /\ (s[1] = Zero => Len(s) = 1)

(***************************************************************************)
(* Appending a digit.                                                      *)
(***************************************************************************)
LEMMA OneMoreByte ==
  ASSUME NEW s \in Ints, NEW c \in Int
  PROVE  /\ Append(s, c) \in Ints /\ Append(s, c) # <<>> /\ Len(Append(s, c)) = Len(s) + 1
         /\ Len(s) \in Nat /\ Append(s, c)[Len(s) + 1] = c
         /\ \A m \in 1..Len(s) : Append(s, c)[m] = s[m] /\ s[m] \in Int
         /\ AllDigits(Append(s, c)) <=> AllDigits(s) /\ IsDigit(c)
<1>1. PICK t, n : t = Append(s, c) /\ n = Len(s) OBVIOUS
<1>2. /\ t \in Ints /\ t # <<>> /\ Len(t) = n + 1 /\ n \in Nat /\ t[n + 1] = c
      /\ \A m \in 1..n : t[m] = s[m] /\ s[m] \in Int
  BY <1>1, AppendProperties DEF Ints
<1>3. AllDigits(t) <=> AllDigits(s) /\ IsDigit(c)
  <2>1. 1..Len(t) = 1..n \cup {n + 1} BY <1>2
  <2> QED BY <1>1, <1>2, <2>1 DEF AllDigits
<1> QED BY <1>1, <1>2, <1>3

(***************************************************************************)
(* The decimal form is canonical and has the value it is the form of.      *)
(***************************************************************************)
LEMMA FormsAreCanonical ==
  \A n \in Nat : /\ Canonical(Digits(n)) /\ ValueOf(Digits(n)) = n
                 /\ n > 0 => Digits(n)[1] # Zero
<1> DEFINE Right(n) == /\ Canonical(Digits(n)) /\ ValueOf(Digits(n)) = n
                       /\ n > 0 => Digits(n)[1] # Zero
           T == {n \in Nat : Right(n)}
<1>1. ASSUME NEW n \in Nat, \A k \in 0..(n - 1) : k \in T PROVE n \in T
  <2>1. CASE n < 10
    <3>1. PICK c : c = Zero + n OBVIOUS
    <3>2. c \in Int /\ IsDigit(c) /\ c - Zero = n BY <2>1, <3>1 DEF IsDigit, Zero, Nine
    <3>3. Digits(n) = <<c>> BY <2>1, <3>1, DigitsAre
    <3>4. ValueOf(<<c>>) = n /\ AllDigits(<<c>>) BY <3>2, ValueOfOne
    <3>5. <<c>> # <<>> /\ Len(<<c>>) = 1 /\ <<c>>[1] = c OBVIOUS
    <3>6. Canonical(<<c>>) BY <3>4, <3>5 DEF Canonical
    <3>7. n > 0 => <<c>>[1] # Zero BY <3>2, <3>5 DEF Zero
    <3> QED BY <3>3, <3>4, <3>6, <3>7
  <2>2. CASE ~(n < 10)
    <3>1. PICK q, s, c : q = n \div 10 /\ s = Digits(q) /\ c = Zero + (n % 10) OBVIOUS
    <3>2. q \in 1..(n - 1) /\ n % 10 \in 0..9 /\ n = 10 * q + (n % 10) BY <2>2, <3>1, ByTen
    <3>3. q \in T BY <1>1, <3>2
    <3>4. s \in Ints /\ c \in Int BY <3>1, <3>2, DigitsAre DEF Zero
    <3>5. Canonical(s) /\ ValueOf(s) = q /\ s[1] # Zero BY <3>1, <3>2, <3>3
    <3>6. Digits(n) = Append(s, c) BY <2>2, <3>1, DigitsAre
    <3>7. ValueOf(Append(s, c)) = 10 * q + (c - Zero) BY <3>4, <3>5, ValueNext
    <3>8. c - Zero = n % 10 BY <3>1, <3>2 DEF Zero
    <3>9. IsDigit(c) BY <3>1, <3>2 DEF IsDigit, Zero, Nine
    <3>10. 1 \in 1..Len(s) BY <3>4, <3>5, OneMoreByte, EmptySeq DEF Canonical, Ints
    <3>11. Append(s, c)[1] # Zero BY <3>4, <3>5, <3>10, OneMoreByte
    <3>12. Canonical(Append(s, c)) BY <3>4, <3>5, <3>9, <3>11, OneMoreByte DEF Canonical
    <3> QED BY <3>2, <3>6, <3>7, <3>8, <3>11, <3>12
  <2> QED BY <2>1, <2>2
<1>2. T = Nat
  <2>1. T \in SUBSET Nat OBVIOUS
  <2> HIDE DEF T
  <2> QED BY <1>1, <2>1, StrongInduction
<1> QED BY <1>2

(***************************************************************************)
(* What is canonical is the decimal form of its value.                     *)
(***************************************************************************)
LEMMA CanonicalIsForm ==
  \A s \in Ints : Canonical(s) => /\ ValueOf(s) \in Nat /\ Digits(ValueOf(s)) = s
                                  /\ s[1] # Zero => ValueOf(s) > 0
<1> DEFINE Right(s) == Canonical(s) => /\ ValueOf(s) \in Nat /\ Digits(ValueOf(s)) = s
                                       /\ s[1] # Zero => ValueOf(s) > 0
           T == {s \in Ints : Right(s)}
<1>1. <<>> \in T
  <2>1. <<>> \in Ints BY EmptySeq DEF Ints
  <2> QED BY <2>1 DEF Canonical
<1>2. ASSUME NEW s \in T, NEW c \in Int PROVE Append(s, c) \in T
  <2>1. s \in Ints BY <1>2
  <2> SUFFICES ASSUME Canonical(Append(s, c))
               PROVE  /\ ValueOf(Append(s, c)) \in Nat
                      /\ Digits(ValueOf(Append(s, c))) = Append(s, c)
                      /\ Append(s, c)[1] # Zero => ValueOf(Append(s, c)) > 0
    BY <2>1, OneMoreByte
  <2>2. PICK v, d : v = ValueOf(s) /\ d = c - Zero OBVIOUS
  <2>3. IsDigit(c) /\ AllDigits(s) BY <2>1, OneMoreByte DEF Canonical
  <2>4. d \in 0..9 /\ c = Zero + d BY <2>2, <2>3 DEF IsDigit, Zero, Nine
  <2>5. v \in Int /\ ValueOf(Append(s, c)) = 10 * v + d BY <2>1, <2>2, ValueNext
  <2>6. CASE s = <<>>
    <3>1. Append(s, c) = <<c>> BY <2>6
    <3>2. ValueOf(<<c>>) = d BY <2>2, ValueOfOne
    <3>3. Digits(d) = <<c>> BY <2>4, DigitsAre
    <3>4. <<c>>[1] # Zero => d > 0 BY <2>4 DEF Zero
    <3>5. d \in Nat BY <2>4
    <3> QED BY <3>1, <3>2, <3>3, <3>4, <3>5, Zenon
  <2>7. CASE s # <<>>
    <3>1. 1 \in 1..Len(s) BY <2>1, <2>7, OneMoreByte, EmptySeq DEF Ints
    <3>2. Append(s, c)[1] = s[1] /\ Len(Append(s, c)) = Len(s) + 1 /\ Len(s) \in Nat
      BY <2>1, <3>1, OneMoreByte
    <3>3. s[1] # Zero BY <3>1, <3>2 DEF Canonical
    <3>4. Canonical(s) BY <2>3, <2>7, <3>3 DEF Canonical
    <3>5. v \in Nat /\ v > 0 /\ Digits(v) = s BY <1>2, <2>2, <3>3, <3>4
    <3>6. PICK w : w = 10 * v + d OBVIOUS
    <3>7. w \in Nat /\ ~(w < 10) /\ w \div 10 = v /\ w % 10 = d BY <2>4, <3>5, <3>6, ByTen
    <3>8. Digits(w) = Append(Digits(v), Zero + d) BY <3>7, DigitsAre
    <3> QED BY <2>4, <2>5, <3>5, <3>6, <3>7, <3>8
  <2> QED BY <2>6, <2>7
<1>3. T = Ints
  <2>1. T \in SUBSET Seq(Int) BY DEF Ints
  <2> HIDE DEF T
  <2> QED BY <1>1, <1>2, <2>1, SeqInduction DEF Ints
<1> QED BY <1>3

\* s is what t begins with.
Begins(s, t) == Len(s) <= Len(t) /\ \A m \in 1..Len(s) : s[m] = t[m]

(***************************************************************************)
(* With more digits the value does not get smaller.                        *)
(***************************************************************************)
LEMMA ValueGrows ==
  \A t \in Ints : \A s \in Ints :
    Begins(s, t) /\ AllDigits(t) /\ ValueOf(s) >= 0 => ValueOf(t) >= ValueOf(s)
<1> DEFINE Right(t) == \A s \in Ints :
             Begins(s, t) /\ AllDigits(t) /\ ValueOf(s) >= 0 => ValueOf(t) >= ValueOf(s)
           T == {t \in Ints : Right(t)}
<1>1. ASSUME NEW s \in Ints, NEW t \in Ints, Begins(s, t), Len(s) = Len(t)
      PROVE  ValueOf(t) >= ValueOf(s)
  <2>1. s = t BY <1>1, SeqEqual DEF Begins, Ints
  <2>2. ValueOf(s) \in Int BY ValueNext
  <2> QED BY <2>1, <2>2
<1>2. <<>> \in T
  <2>1. <<>> \in Ints /\ Len(<<>>) = 0 BY EmptySeq DEF Ints
  <2>2. \A s \in Ints : Begins(s, <<>>) => Len(s) = Len(<<>>) BY <2>1 DEF Begins, Ints
  <2>3. Right(<<>>) BY <1>1, <2>1, <2>2
  <2> HIDE DEF Right
  <2> QED BY <2>1, <2>3
<1>3. ASSUME NEW t \in T, NEW c \in Int PROVE Append(t, c) \in T
  <2>1. t \in Ints /\ Append(t, c) \in Ints BY <1>3, ValueNext
  <2>2. ASSUME NEW s \in Ints, Begins(s, Append(t, c)), AllDigits(Append(t, c)), ValueOf(s) >= 0
        PROVE  ValueOf(Append(t, c)) >= ValueOf(s)
    <3>1. CASE Len(s) = Len(Append(t, c)) BY <1>1, <2>1, <2>2, <3>1
    <3>2. CASE Len(s) # Len(Append(t, c))
      <4>1. Len(s) \in Nat /\ Len(t) \in Nat BY <2>1 DEF Ints
      <4>2. Len(s) <= Len(t) BY <2>1, <2>2, <3>2, <4>1, OneMoreByte DEF Begins
      <4>3. \A m \in 1..Len(s) : Append(t, c)[m] = t[m] BY <2>1, <4>1, <4>2, OneMoreByte
      <4>4. Begins(s, t) BY <2>2, <4>2, <4>3 DEF Begins
      <4>5. AllDigits(t) /\ IsDigit(c) BY <2>1, <2>2, OneMoreByte
      <4>6. ValueOf(t) >= ValueOf(s) BY <1>3, <2>2, <4>4, <4>5
      <4>7. c - Zero \in 0..9 BY <4>5 DEF IsDigit, Zero, Nine
      <4>8. /\ ValueOf(t) \in Int /\ ValueOf(s) \in Int
            /\ ValueOf(Append(t, c)) = 10 * ValueOf(t) + (c - Zero)
        BY <2>1, ValueNext
      <4>9. PICK v, w, d : v = ValueOf(s) /\ w = ValueOf(t) /\ d = c - Zero OBVIOUS
      <4>10. v \in Int /\ w \in Int /\ d \in 0..9 /\ v >= 0 /\ w >= v
        BY <2>2, <4>6, <4>7, <4>8, <4>9
      <4>11. 10 * w + d >= v BY <4>10
      <4> QED BY <4>8, <4>9, <4>11
    <3> QED BY <3>1, <3>2
  <2>3. Right(Append(t, c)) BY <2>2
  <2> HIDE DEF Right
  <2> QED BY <2>1, <2>3
<1>4. T = Ints
  <2>1. T \in SUBSET Seq(Int) BY DEF Ints
  <2> HIDE DEF T
  <2> QED BY <1>2, <1>3, <2>1, SeqInduction DEF Ints
<1> QED BY <1>4

-----------------------------------------------------------------------------
\* The decimal form of a number that may be negative: no "-0".
Signed(s) ==
  \/ Canonical(s)
  \/ Len(s) > 1 /\ s[1] = Minus /\ Canonical(Tail(s)) /\ s[2] # Zero

(***************************************************************************)
(* What is behind the first byte.                                          *)
(***************************************************************************)
LEMMA BehindFirst ==
  ASSUME NEW s \in Ints, Len(s) > 1
  PROVE  /\ Tail(s) \in Ints /\ Len(Tail(s)) = Len(s) - 1 /\ Tail(s) # <<>>
         /\ \A m \in 1..(Len(s) - 1) : Tail(s)[m] = s[m + 1]
<1>1. Tail(s) \in Ints /\ Len(Tail(s)) = Len(s) - 1 /\ Len(s) \in Nat BY DEF Ints
<1>2. \A m \in 1..(Len(s) - 1) : Tail(s)[m] = s[m + 1] BY DEF Ints
<1>3. Tail(s) # <<>>
  <2>1. PICK r : r = Tail(s) OBVIOUS
  <2>2. r \in Seq(Int) /\ Len(r) # 0 BY <1>1, <2>1 DEF Ints
  <2>3. r # <<>> BY ONLY <2>2, EmptySeq
  <2> QED BY <2>1, <2>3
<1> QED BY <1>1, <1>2, <1>3

(***************************************************************************)
(* A minus in front of the decimal form of a positive number, and no other *)
(* bytes, make the form of a negative one.                                 *)
(***************************************************************************)
LEMMA SignedIsDecimal ==
  ASSUME NEW s \in Ints
  PROVE  /\ NumberOf(s) \in Int
         /\ s = Decimal(NumberOf(s)) <=> Signed(s)
<1>1. Len(s) \in Nat /\ (Len(s) = 0 <=> s = <<>>) BY EmptySeq DEF Ints
<1>2. NumberOf(s) \in Int
  <2>1. CASE Len(s) > 1 /\ s[1] = Minus BY <2>1, BehindFirst, ValueNext DEF NumberOf
  <2>2. CASE ~(Len(s) > 1 /\ s[1] = Minus) BY <2>2, ValueNext DEF NumberOf
  <2> QED BY <2>1, <2>2
<1>3. ASSUME s = Decimal(NumberOf(s)) PROVE Signed(s)
  <2>1. PICK n : n = NumberOf(s) OBVIOUS
  <2>2. CASE n >= 0
    <3>1. s = Digits(n) /\ n \in Nat BY <1>2, <1>3, <2>1, <2>2 DEF Decimal
    <3> QED BY <3>1, FormsAreCanonical DEF Signed
  <2>3. CASE n < 0
    <3>1. PICK k, r : k = -n /\ r = Digits(k) OBVIOUS
    <3>2. k \in Nat /\ k > 0 BY <1>2, <2>1, <2>3, <3>1
    <3>3. r \in Ints /\ Canonical(r) /\ r[1] # Zero BY <3>1, <3>2, DigitsAre, FormsAreCanonical
    <3>4. s = <<Minus>> \o r BY <1>3, <2>1, <2>3, <3>1 DEF Decimal
    <3>5. Len(r) \in Nat /\ Len(r) # 0 BY <3>3, EmptySeq DEF Canonical, Ints
    <3>6. Len(s) = Len(r) + 1 /\ s[1] = Minus /\ \A m \in 1..Len(r) : s[m + 1] = r[m]
      BY <3>3, <3>4, <3>5 DEF Ints
    <3>7. Tail(s) = r
      <4>1. Len(Tail(s)) = Len(r) /\ \A m \in 1..Len(r) : Tail(s)[m] = r[m]
        BY <3>5, <3>6, BehindFirst
      <4>2. Tail(s) \in Ints BY <3>5, <3>6, BehindFirst
      <4> QED BY <3>3, <4>1, <4>2, SeqEqual DEF Ints
    <3>8. s[2] = r[1] BY <3>5, <3>6
    <3>9. Len(s) > 1 BY <3>5, <3>6
    <3> QED BY <3>3, <3>6, <3>7, <3>8, <3>9, Zenon DEF Signed
  <2> QED BY <1>2, <2>1, <2>2, <2>3
<1>4. ASSUME Signed(s) PROVE s = Decimal(NumberOf(s))
  <2>1. CASE Canonical(s)
    <3>1. 1 \in 1..Len(s) BY <1>1, <2>1 DEF Canonical
    <3>2. s[1] # Minus BY <2>1, <3>1 DEF Canonical, AllDigits, IsDigit, Zero, Nine, Minus
    <3>3. NumberOf(s) = ValueOf(s) BY <3>2 DEF NumberOf
    <3>4. ValueOf(s) \in Nat /\ Digits(ValueOf(s)) = s BY <2>1, CanonicalIsForm
    <3> QED BY <3>3, <3>4 DEF Decimal
  <2>2. CASE Len(s) > 1 /\ s[1] = Minus /\ Canonical(Tail(s)) /\ s[2] # Zero
    <3>1. PICK r : r = Tail(s) OBVIOUS
    <3>2. r \in Ints /\ Len(r) = Len(s) - 1 /\ \A m \in 1..(Len(s) - 1) : r[m] = s[m + 1]
      BY <2>2, <3>1, BehindFirst
    <3>3. r[1] # Zero BY <1>1, <2>2, <3>2
    <3>4. ValueOf(r) \in Nat /\ Digits(ValueOf(r)) = r /\ ValueOf(r) > 0
      BY <2>2, <3>1, <3>2, <3>3, CanonicalIsForm
    <3>5. PICK n : n = NumberOf(s) OBVIOUS
    <3>6. n = -ValueOf(r) BY <2>2, <3>1, <3>5 DEF NumberOf
    <3>7. n < 0 /\ -n = ValueOf(r) BY <3>4, <3>6
    <3>8. Decimal(n) = <<Minus>> \o r BY <3>4, <3>7 DEF Decimal
    <3>9. s = <<Minus>> \o r
      <4>1. PICK u : u = <<Minus>> \o r OBVIOUS
      <4>2. u \in Ints /\ Len(u) = Len(r) + 1 /\ u[1] = Minus /\ \A m \in 1..Len(r) : u[m + 1] = r[m]
        BY <3>2, <4>1 DEF Ints, Minus
      <4>3. \A m \in 1..Len(s) : u[m] = s[m]
        <5> SUFFICES ASSUME NEW m \in 1..Len(s) PROVE u[m] = s[m]
          OBVIOUS
        <5>1. CASE m = 1 BY <2>2, <4>2, <5>1
        <5>2. CASE m # 1
          <6>1. m - 1 \in 1..Len(r) /\ (m - 1) + 1 = m BY <1>1, <3>2, <5>2
          <6> QED BY <3>2, <4>2, <6>1
        <5> QED BY <5>1, <5>2
      <4>4. s \in Seq(Int) /\ u \in Seq(Int) /\ Len(u) = Len(s) BY <1>1, <3>2, <4>2 DEF Ints
      <4>5. s = u BY ONLY <4>3, <4>4, SeqEqual
      <4> QED BY <4>1, <4>5
    <3> QED BY <3>5, <3>8, <3>9
  <2> QED BY <1>4, <2>1, <2>2 DEF Signed
<1> QED BY <1>2, <1>3, <1>4

-----------------------------------------------------------------------------
(***************************************************************************)
(* A part of some bytes, as the loops go through them.                     *)
(***************************************************************************)
LEMMA PartIs ==
  ASSUME NEW d \in Ints, NEW a \in 1..(Len(d) + 1), NEW b \in (a - 1)..Len(d)
  PROVE  /\ Len(d) \in Nat /\ SubSeq(d, a, b) \in Ints /\ Len(SubSeq(d, a, b)) = b - a + 1
         /\ \A k \in 1..(b - a + 1) : SubSeq(d, a, b)[k] = d[a + k - 1]
         /\ \A k \in a..b : SubSeq(d, a, b)[k - a + 1] = d[k]
<1>1. Len(d) \in Nat /\ \A k \in 1..Len(d) : d[k] \in Int BY DEF Ints
<1>2. PICK p : p = SubSeq(d, a, b) OBVIOUS
<1>3. p \in Seq(Int) /\ Len(p) = b - a + 1 /\ \A k \in 1..(b - a + 1) : p[k] = d[a + k - 1]
  <2>1. a \in Int /\ b \in Int /\ a >= 1 /\ b <= Len(d) /\ b >= a - 1 BY <1>1
  <2>2. \A k \in a..b : d[k] \in Int BY <1>1, <2>1
  <2>3. /\ SubSeq(d, a, b) \in Seq(Int)
        /\ Len(SubSeq(d, a, b)) = IF a <= b THEN b - a + 1 ELSE 0
        /\ \A k \in 1..(b - a + 1) : SubSeq(d, a, b)[k] = d[a + k - 1]
    BY ONLY <1>1, <2>1, <2>2, SubSeqProperties
  <2> QED BY <1>2, <2>1, <2>3
<1>4. ASSUME NEW k \in a..b PROVE p[k - a + 1] = d[k]
  <2>1. k - a + 1 \in 1..(b - a + 1) /\ a + (k - a + 1) - 1 = k BY <1>1
  <2> QED BY <1>3, <2>1
<1> QED BY <1>1, <1>2, <1>3, <1>4 DEF Ints

\* p are n bytes of d, from a on.
IsPart(p, d, a, n) == p \in Ints /\ Len(p) = n /\ \A k \in 1..n : p[k] = d[a + k - 1]

\* The same, for a part that has a name.
LEMMA NamedPart ==
  ASSUME NEW d \in Ints, NEW a \in 1..(Len(d) + 1), NEW b \in (a - 1)..Len(d)
  PROVE  IsPart(SubSeq(d, a, b), d, a, b - a + 1)
BY PartIs DEF IsPart

(***************************************************************************)
(* Two parts of the same length are equal if their bytes are.              *)
(***************************************************************************)
LEMMA SameParts ==
  ASSUME NEW s \in Ints, NEW t \in Ints, Len(s) = Len(t),
         \A k \in 1..Len(s) : s[k] = t[k]
  PROVE  s = t
BY SeqEqual DEF Ints

(***************************************************************************)
(* A part with the next byte; a part of a part; a part without its first   *)
(* byte.                                                                   *)
(***************************************************************************)
LEMMA PartGrows ==
  ASSUME NEW d \in Ints, NEW a \in 1..(Len(d) + 1), NEW b \in (a - 1)..(Len(d) - 1)
  PROVE  SubSeq(d, a, b + 1) = Append(SubSeq(d, a, b), d[b + 1])
<1>1. Len(d) \in Nat /\ \A k \in 1..Len(d) : d[k] \in Int BY DEF Ints
<1>2. PICK p, q, t : p = SubSeq(d, a, b) /\ q = SubSeq(d, a, b + 1) /\ t = Append(p, d[b + 1])
  OBVIOUS
<1>3. p \in Ints /\ Len(p) = b - a + 1 /\ \A k \in 1..(b - a + 1) : p[k] = d[a + k - 1]
  BY <1>1, <1>2, PartIs
<1>4. q \in Ints /\ Len(q) = b - a + 2 /\ \A k \in 1..(b - a + 2) : q[k] = d[a + k - 1]
  <2>1. b + 1 \in (a - 1)..Len(d) /\ (b + 1) - a + 1 = b - a + 2 BY <1>1
  <2> QED BY <1>2, <2>1, PartIs
<1>5. /\ t \in Ints /\ Len(t) = Len(p) + 1 /\ t[Len(p) + 1] = d[b + 1]
      /\ \A k \in 1..Len(p) : t[k] = p[k]
  <2>1. b + 1 \in 1..Len(d) BY <1>1
  <2> QED BY <1>1, <1>2, <1>3, <2>1, OneMoreByte
<1>6. ASSUME NEW k \in 1..Len(q) PROVE q[k] = t[k]
  <2>1. CASE k = b - a + 2
    <3>1. q[k] = d[a + k - 1] /\ a + k - 1 = b + 1 /\ k = Len(p) + 1 BY <1>1, <1>3, <1>4, <2>1
    <3> QED BY <1>5, <3>1
  <2>2. CASE k # b - a + 2
    <3>1. k \in 1..Len(p) /\ k \in 1..(b - a + 1) /\ k \in 1..(b - a + 2)
      BY <1>1, <1>3, <1>4, <2>2
    <3> QED BY <1>3, <1>4, <1>5, <3>1
  <2> QED BY <2>1, <2>2
<1>7. Len(q) = Len(t) BY <1>1, <1>3, <1>4, <1>5
<1>8. q = t BY <1>4, <1>5, <1>6, <1>7, SameParts
<1> QED BY <1>2, <1>8

\* A part of a part is a part of the whole, and its bytes are there.
LEMMA PartOfPart ==
  ASSUME NEW d \in Ints, NEW a \in 1..(Len(d) + 1), NEW b \in (a - 1)..Len(d),
         NEW x \in 1..(b - a + 2), NEW y \in (x - 1)..(b - a + 1)
  PROVE  SubSeq(SubSeq(d, a, b), x, y) = SubSeq(d, a + x - 1, a + y - 1)
<1>1. Len(d) \in Nat BY DEF Ints
<1>2. PICK p, q, t : p = SubSeq(d, a, b) /\ q = SubSeq(p, x, y) /\ t = SubSeq(d, a + x - 1, a + y - 1)
  OBVIOUS
<1>3. p \in Ints /\ Len(p) = b - a + 1 /\ \A k \in 1..(b - a + 1) : p[k] = d[a + k - 1]
  BY <1>1, <1>2, PartIs
<1>4. q \in Ints /\ Len(q) = y - x + 1 /\ \A k \in 1..(y - x + 1) : q[k] = p[x + k - 1]
  <2>1. x \in 1..(Len(p) + 1) /\ y \in (x - 1)..Len(p) BY <1>1, <1>3
  <2> QED BY <1>2, <1>3, <2>1, PartIs
<1>5. t \in Ints /\ Len(t) = y - x + 1 /\ \A k \in 1..(y - x + 1) : t[k] = d[a + x + k - 2]
  <2>1. PICK i, j : i = a + x - 1 /\ j = a + y - 1 OBVIOUS
  <2>2. i \in 1..(Len(d) + 1) /\ j \in (i - 1)..Len(d) /\ j - i + 1 = y - x + 1 BY <1>1, <2>1
  <2>3. t \in Ints /\ Len(t) = j - i + 1 /\ \A k \in 1..(j - i + 1) : t[k] = d[i + k - 1]
    BY <1>2, <2>1, <2>2, PartIs
  <2>4. \A k \in 1..(y - x + 1) : i + k - 1 = a + x + k - 2 BY <1>1, <2>1
  <2> QED BY <2>2, <2>3, <2>4
<1>6. ASSUME NEW k \in 1..Len(q) PROVE q[k] = t[k]
  <2>1. k \in 1..(y - x + 1) BY <1>4
  <2>2. x + k - 1 \in 1..(b - a + 1) /\ a + (x + k - 1) - 1 = a + x + k - 2 BY <1>1, <2>1
  <2>3. p[x + k - 1] = d[a + x + k - 2] BY <1>3, <2>2
  <2> QED BY <1>4, <1>5, <2>1, <2>3
<1>7. q = t BY <1>4, <1>5, <1>6, SameParts
<1> QED BY <1>2, <1>7

\* What is left of a part without its first byte.
LEMMA PartTail ==
  ASSUME NEW d \in Ints, NEW a \in 1..Len(d), NEW b \in (a + 1)..Len(d)
  PROVE  Tail(SubSeq(d, a, b)) = SubSeq(d, a + 1, b)
<1>1. Len(d) \in Nat BY DEF Ints
<1>2. PICK p, q, t : p = SubSeq(d, a, b) /\ q = Tail(p) /\ t = SubSeq(d, a + 1, b) OBVIOUS
<1>3. p \in Ints /\ Len(p) = b - a + 1 /\ \A k \in 1..(b - a + 1) : p[k] = d[a + k - 1]
  BY <1>1, <1>2, PartIs
<1>4. q \in Ints /\ Len(q) = b - a /\ \A k \in 1..(b - a) : q[k] = p[k + 1]
  <2>1. Len(p) > 1 /\ Len(p) - 1 = b - a BY <1>1, <1>3
  <2> QED BY <1>2, <1>3, <2>1, BehindFirst
<1>5. t \in Ints /\ Len(t) = b - a /\ \A k \in 1..(b - a) : t[k] = d[a + k]
  <2>1. PICK i : i = a + 1 OBVIOUS
  <2>2. i \in 1..(Len(d) + 1) /\ b \in (i - 1)..Len(d) /\ b - i + 1 = b - a BY <1>1, <2>1
  <2>3. t \in Ints /\ Len(t) = b - i + 1 /\ \A k \in 1..(b - i + 1) : t[k] = d[i + k - 1]
    BY <1>2, <2>1, <2>2, PartIs
  <2>4. \A k \in 1..(b - a) : i + k - 1 = a + k BY <1>1, <2>1
  <2> QED BY <2>2, <2>3, <2>4
<1>6. ASSUME NEW k \in 1..Len(q) PROVE q[k] = t[k]
  <2>1. k \in 1..(b - a) /\ k + 1 \in 1..(b - a + 1) /\ a + (k + 1) - 1 = a + k BY <1>1, <1>4
  <2>2. p[k + 1] = d[a + k] BY <1>3, <2>1
  <2> QED BY <1>4, <1>5, <2>1, <2>2
<1>7. q = t BY <1>4, <1>5, <1>6, SameParts
<1> QED BY <1>2, <1>7

(***************************************************************************)
(* A part is canonical if all its bytes are digits, the first one a zero   *)
(* only if there are no others.                                            *)
(***************************************************************************)
LEMMA CanonicalPart ==
  ASSUME NEW d \in Ints, NEW a \in 1..Len(d), NEW b \in (a - 1)..Len(d)
  PROVE  Canonical(SubSeq(d, a, b)) <=>
           a <= b /\ (\A k \in a..b : IsDigit(d[k])) /\ (d[a] = Zero => b = a)
<1>1. Len(d) \in Nat BY DEF Ints
<1>2. PICK p : p = SubSeq(d, a, b) OBVIOUS
<1>3. /\ p \in Ints /\ Len(p) = b - a + 1
      /\ \A k \in 1..(b - a + 1) : p[k] = d[a + k - 1]
      /\ \A k \in a..b : p[k - a + 1] = d[k]
  BY <1>1, <1>2, PartIs
<1>4. p # <<>> <=> a <= b
  <2>1. p # <<>> <=> Len(p) # 0
    <3>1. p \in Seq(Int) BY <1>3 DEF Ints
    <3> QED BY ONLY <3>1, EmptySeq
  <2> QED BY <1>1, <1>3, <2>1
<1>5. AllDigits(p) <=> \A k \in a..b : IsDigit(d[k])
  <2>1. ASSUME AllDigits(p), NEW k \in a..b PROVE IsDigit(d[k])
    <3>1. k - a + 1 \in 1..Len(p) BY <1>1, <1>3
    <3> QED BY <1>3, <2>1, <3>1 DEF AllDigits
  <2>2. ASSUME \A k \in a..b : IsDigit(d[k]), NEW k \in 1..Len(p) PROVE IsDigit(p[k])
    <3>1. a + k - 1 \in a..b /\ k \in 1..(b - a + 1) BY <1>1, <1>3
    <3> QED BY <1>3, <2>2, <3>1
  <2> QED BY <2>1, <2>2 DEF AllDigits
<1>6. a <= b => p[1] = d[a] /\ (Len(p) = 1 <=> b = a)
  <2>1. a <= b => 1 \in 1..(b - a + 1) /\ a + 1 - 1 = a BY <1>1
  <2> QED BY <1>1, <1>3, <2>1
<1>7. Canonical(p) <=> a <= b /\ (\A k \in a..b : IsDigit(d[k])) /\ (d[a] = Zero => b = a)
  BY <1>4, <1>5, <1>6, Zenon DEF Canonical
<1> QED BY <1>2, <1>7

(***************************************************************************)
(* A canonical part ends before a byte that is no digit.  Seen from any    *)
(* position up to which there are only digits, that byte is this one or    *)
(* further on, and what comes further on does not make the value smaller.  *)
(***************************************************************************)
LEMMA EndsHere ==
  ASSUME NEW d \in Ints, NEW a \in 1..Len(d), NEW e \in (a + 1)..Len(d), NEW p \in (a + 1)..Len(d),
         Canonical(SubSeq(d, a, e - 1)), ~IsDigit(d[e]), \A k \in a..(p - 1) : IsDigit(d[k])
  PROVE  /\ p <= e
         /\ ~IsDigit(d[p]) => p = e
         /\ IsDigit(d[p]) =>
              /\ p < e /\ SubSeq(d, a, p) \in Ints /\ SubSeq(d, a, p - 1) \in Ints
              /\ ValueOf(SubSeq(d, a, p)) = 10 * ValueOf(SubSeq(d, a, p - 1)) + (d[p] - Zero)
              /\ ValueOf(SubSeq(d, a, p - 1)) >= 0
                   => ValueOf(SubSeq(d, a, e - 1)) >= ValueOf(SubSeq(d, a, p))
<1>1. Len(d) \in Nat /\ \A k \in 1..Len(d) : d[k] \in Int BY DEF Ints
<1>2. \A k \in a..(e - 1) : IsDigit(d[k])
  <2>1. e - 1 \in (a - 1)..Len(d) BY <1>1
  <2> QED BY <2>1, CanonicalPart
<1>3. p <= e
  <2> SUFFICES ASSUME ~(p <= e) PROVE FALSE
    OBVIOUS
  <2>1. e \in a..(p - 1) BY <1>1
  <2> QED BY <2>1
<1>4. ~IsDigit(d[p]) => p = e
  <2> SUFFICES ASSUME ~IsDigit(d[p]), p # e PROVE FALSE
    OBVIOUS
  <2>1. p \in a..(e - 1) BY <1>1, <1>3
  <2> QED BY <1>2, <2>1
<1>5. ASSUME IsDigit(d[p])
      PROVE  /\ p < e /\ SubSeq(d, a, p) \in Ints /\ SubSeq(d, a, p - 1) \in Ints
             /\ ValueOf(SubSeq(d, a, p)) = 10 * ValueOf(SubSeq(d, a, p - 1)) + (d[p] - Zero)
             /\ ValueOf(SubSeq(d, a, p - 1)) >= 0
                  => ValueOf(SubSeq(d, a, e - 1)) >= ValueOf(SubSeq(d, a, p))
  <2>1. p < e
    <3>1. p # e BY <1>5
    <3> QED BY <1>1, <1>3, <3>1
  <2>2. PICK r, s, t, c : /\ r = SubSeq(d, a, p - 1) /\ s = SubSeq(d, a, p)
                          /\ t = SubSeq(d, a, e - 1) /\ c = d[p]
    OBVIOUS
  <2>3. r \in Ints /\ c \in Int /\ IsDigit(c)
    <3>1. p - 1 \in (a - 1)..Len(d) /\ a \in 1..(Len(d) + 1) BY <1>1
    <3> QED BY <1>1, <1>5, <2>2, <3>1, PartIs
  <2>4. s = Append(r, c)
    <3>1. p - 1 \in (a - 1)..(Len(d) - 1) /\ a \in 1..(Len(d) + 1) /\ (p - 1) + 1 = p BY <1>1
    <3> QED BY <2>2, <3>1, PartGrows
  <2>5. s \in Ints /\ ValueOf(r) \in Int /\ ValueOf(s) = 10 * ValueOf(r) + (c - Zero)
    BY <2>3, <2>4, ValueNext
  <2>6. Len(s) = p - a + 1 /\ \A k \in 1..(p - a + 1) : s[k] = d[a + k - 1]
    <3>1. p \in (a - 1)..Len(d) /\ a \in 1..(Len(d) + 1) BY <1>1
    <3> QED BY <2>2, <3>1, PartIs
  <2>7. t \in Ints /\ Len(t) = e - a /\ \A k \in 1..(e - a) : t[k] = d[a + k - 1]
    <3>1. e - 1 \in (a - 1)..Len(d) /\ a \in 1..(Len(d) + 1) /\ (e - 1) - a + 1 = e - a BY <1>1
    <3> QED BY <2>2, <3>1, PartIs
  <2>8. Begins(s, t)
    <3>1. Len(s) <= Len(t) BY <1>1, <2>1, <2>6, <2>7
    <3>2. \A k \in 1..Len(s) : k \in 1..(e - a) BY <1>1, <2>1, <2>6
    <3> QED BY <2>6, <2>7, <3>1, <3>2 DEF Begins
  <2>9. AllDigits(t) BY <2>2 DEF Canonical
  <2>10. ValueOf(r) >= 0 => ValueOf(t) >= ValueOf(s)
    <3> SUFFICES ASSUME ValueOf(r) >= 0 PROVE ValueOf(t) >= ValueOf(s)
      OBVIOUS
    <3>1. c - Zero \in 0..9 BY <2>3 DEF IsDigit, Zero, Nine
    <3>2. ValueOf(s) >= 0
      <4>1. PICK v, w, z : v = ValueOf(r) /\ w = ValueOf(s) /\ z = c - Zero OBVIOUS
      <4>2. v \in Int /\ v >= 0 /\ z \in 0..9 /\ w = 10 * v + z BY <2>5, <3>1, <4>1
      <4>3. w >= 0 BY ONLY <4>2
      <4> QED BY <4>1, <4>3
    <3> QED BY <2>5, <2>7, <2>8, <2>9, <3>2, ValueGrows
  <2> QED BY <2>1, <2>2, <2>3, <2>5, <2>10
<1> QED BY <1>3, <1>4, <1>5

(***************************************************************************)
(* One sequence, a byte and another sequence.                              *)
(***************************************************************************)
LEMMA JoinIs ==
  ASSUME NEW x \in Ints, NEW c \in Int, NEW y \in Ints,
         NEW u, u = x \o <<c>>, NEW t, t = u \o y
  PROVE  /\ t \in Ints /\ Len(x) \in Nat /\ Len(y) \in Nat
         /\ Len(t) = Len(x) + 1 + Len(y)
         /\ \A k \in 1..Len(x) : t[k] = x[k]
         /\ t[Len(x) + 1] = c
         /\ \A k \in 1..Len(y) : t[Len(x) + 1 + k] = y[k]
<1>1. Len(x) \in Nat /\ Len(y) \in Nat BY DEF Ints
<1>2. u = x \o <<c>> /\ t = u \o y OBVIOUS
<1>3. u \in Ints /\ Len(u) = Len(x) + 1 /\ u[Len(x) + 1] = c /\ \A k \in 1..Len(x) : u[k] = x[k]
  <2>1. <<c>> \in Seq(Int) /\ Len(<<c>>) = 1 /\ <<c>>[1] = c OBVIOUS
  <2> QED BY <1>1, <1>2, <2>1 DEF Ints
<1>4. /\ t \in Ints /\ Len(t) = Len(x) + 1 + Len(y)
      /\ \A k \in 1..Len(u) : t[k] = u[k]
      /\ \A k \in 1..Len(y) : t[Len(u) + k] = y[k]
  <2>1. t \in Seq(Int) /\ Len(t) = Len(u) + Len(y) BY <1>2, <1>3 DEF Ints
  <2>2. \A k \in 1..Len(u) : t[k] = u[k] BY <1>1, <1>2, <1>3 DEF Ints
  <2>3. \A k \in 1..Len(y) : t[Len(u) + k] = y[k] BY <1>1, <1>2, <1>3 DEF Ints
  <2> QED BY <1>3, <2>1, <2>2, <2>3 DEF Ints
<1>5. /\ \A k \in 1..Len(x) : t[k] = x[k]
      /\ t[Len(x) + 1] = c
      /\ \A k \in 1..Len(y) : t[Len(x) + 1 + k] = y[k]
  <2>1. \A k \in 1..Len(x) : k \in 1..Len(u) BY <1>1, <1>3
  <2>2. Len(x) + 1 \in 1..Len(u) BY <1>1, <1>3
  <2> QED BY <1>3, <1>4, <2>1, <2>2
<1> QED BY <1>1, <1>2, <1>4, <1>5

\* The same, for a string that has a name.
LEMMA Joined ==
  ASSUME NEW s \in Ints, NEW x \in Ints, NEW c \in Int, NEW y \in Ints,
         Len(s) = Len(x) + 1 + Len(y),
         \A k \in 1..Len(x) : s[k] = x[k],
         s[Len(x) + 1] = c,
         \A k \in 1..Len(y) : s[Len(x) + 1 + k] = y[k]
  PROVE  s = x \o <<c>> \o y
<1>1. PICK u, t : u = x \o <<c>> /\ t = u \o y /\ t = x \o <<c>> \o y OBVIOUS
<1>2. /\ t \in Ints /\ Len(x) \in Nat /\ Len(y) \in Nat
      /\ Len(t) = Len(x) + 1 + Len(y)
      /\ \A k \in 1..Len(x) : t[k] = x[k]
      /\ t[Len(x) + 1] = c
      /\ \A k \in 1..Len(y) : t[Len(x) + 1 + k] = y[k]
  <2>1. x \in Ints /\ y \in Ints /\ c \in Int /\ u = x \o <<c>> /\ t = u \o y BY <1>1
  <2>2. t \in Ints /\ Len(x) \in Nat /\ Len(y) \in Nat BY ONLY <2>1, JoinIs
  <2>3. Len(t) = Len(x) + 1 + Len(y) /\ t[Len(x) + 1] = c BY ONLY <2>1, JoinIs
  <2>4. \A k \in 1..Len(x) : t[k] = x[k] BY ONLY <2>1, JoinIs
  <2>5. \A k \in 1..Len(y) : t[Len(x) + 1 + k] = y[k] BY ONLY <2>1, JoinIs
  <2> QED BY <2>2, <2>3, <2>4, <2>5
<1>3. ASSUME NEW k \in 1..Len(s) PROVE s[k] = t[k]
  <2>1. CASE k <= Len(x)
    <3>1. k \in 1..Len(x) BY <1>2, <2>1
    <3> QED BY <1>2, <3>1
  <2>2. CASE k = Len(x) + 1 BY <1>2, <2>2
  <2>3. CASE k > Len(x) + 1
    <3>1. PICK j : j = k - Len(x) - 1 OBVIOUS
    <3>2. j \in 1..Len(y) /\ Len(x) + 1 + j = k BY <1>2, <2>3, <3>1
    <3> QED BY <1>2, <3>2
  <2> QED BY <1>2, <2>1, <2>2, <2>3
<1>4. s = t BY <1>2, <1>3, SameParts
<1> QED BY <1>1, <1>4

(***************************************************************************)
(* The first digit, and one digit more.                                    *)
(***************************************************************************)
LEMMA FirstDigit ==
  ASSUME NEW d \in Ints, NEW a \in 1..Len(d), IsDigit(d[a])
  PROVE  Canonical(SubSeq(d, a, a)) /\ ValueOf(SubSeq(d, a, a)) = d[a] - Zero
<1>1. Len(d) \in Nat /\ d[a] \in Int BY DEF Ints
<1>2. PICK p, c : p = SubSeq(d, a, a) /\ c = d[a] OBVIOUS
<1>3. a \in (a - 1)..Len(d) /\ a \in 1..(Len(d) + 1) /\ a - a + 1 = 1 BY <1>1
<1>4. p \in Ints /\ Len(p) = 1 /\ p[1] = c
  <2>1. p \in Ints /\ Len(p) = a - a + 1 /\ \A k \in 1..(a - a + 1) : p[k] = d[a + k - 1]
    BY <1>2, <1>3, PartIs
  <2>2. 1 \in 1..(a - a + 1) /\ a + 1 - 1 = a BY <1>1
  <2> QED BY <1>2, <1>3, <2>1, <2>2
<1>5. <<c>> \in Ints /\ Len(<<c>>) = 1 /\ <<c>>[1] = c BY <1>1, <1>2 DEF Ints
<1>6. p = <<c>>
  <2>1. \A k \in 1..Len(p) : p[k] = <<c>>[k]
    <3>1. \A k \in 1..1 : k = 1 OBVIOUS
    <3> QED BY <1>4, <1>5, <3>1
  <2> QED BY <1>4, <1>5, <2>1, SameParts
<1>7. ValueOf(p) = c - Zero BY <1>1, <1>2, <1>6, ValueOfOne
<1>8. Canonical(p)
  <2>1. \A k \in a..a : IsDigit(d[k])
    <3>1. \A k \in a..a : k = a BY <1>1
    <3> QED BY <3>1
  <2> QED BY <1>1, <1>2, <1>3, <2>1, CanonicalPart
<1> QED BY <1>2, <1>7, <1>8

\* And one digit more.
LEMMA NextDigit ==
  ASSUME NEW d \in Ints, NEW a \in 1..Len(d), NEW p \in (a + 1)..Len(d),
         Canonical(SubSeq(d, a, p - 1)), d[a] # Zero, IsDigit(d[p])
  PROVE  /\ Canonical(SubSeq(d, a, p)) /\ ValueOf(SubSeq(d, a, p - 1)) \in Int
         /\ ValueOf(SubSeq(d, a, p)) = 10 * ValueOf(SubSeq(d, a, p - 1)) + (d[p] - Zero)
<1>1. Len(d) \in Nat /\ d[p] \in Int BY DEF Ints
<1>2. /\ p - 1 \in (a - 1)..Len(d) /\ p \in (a - 1)..Len(d) /\ a \in 1..(Len(d) + 1)
      /\ p - 1 \in (a - 1)..(Len(d) - 1) /\ (p - 1) + 1 = p /\ a <= p
  BY <1>1
<1>3. \A k \in a..(p - 1) : IsDigit(d[k]) BY <1>2, CanonicalPart
<1>4. \A k \in a..p : IsDigit(d[k])
  <2> SUFFICES ASSUME NEW k \in a..p PROVE IsDigit(d[k])
    OBVIOUS
  <2>1. k = p \/ k \in a..(p - 1) BY <1>1
  <2> QED BY <1>3, <2>1
<1>5. Canonical(SubSeq(d, a, p)) BY <1>2, <1>4, CanonicalPart
<1>6. SubSeq(d, a, p) = Append(SubSeq(d, a, p - 1), d[p]) BY <1>2, PartGrows
<1>7. SubSeq(d, a, p - 1) \in Ints BY <1>2, PartIs
<1> QED BY <1>1, <1>5, <1>6, <1>7, ValueNext

-----------------------------------------------------------------------------
\* A string that begins where the call does, with the colon at c, ends at e.
StringAt(c, e) ==
  /\ c \in (start + 1)..Len(data) /\ e \in c..Len(data)
  /\ data[c] = Colon /\ Canonical(SubSeq(data, start, c - 1))
  /\ ValueOf(SubSeq(data, start, c - 1)) = e - c /\ e - c <= 10 * LengthMax + 9

\* A number, of which the digits begin at from, ends at e; which number it is.
NumberAt(from, e) ==
  /\ from \in (start + 1)..(start + 2) /\ e \in (from + 1)..Len(data)
  /\ data[start] = CharI /\ data[e] = CharE /\ Canonical(SubSeq(data, from, e - 1))
  /\ from = start + 2 => data[start + 1] = Minus /\ data[from] # Zero
Value(from, e) ==
  IF from = start + 1 THEN ValueOf(SubSeq(data, from, e - 1))
  ELSE -ValueOf(SubSeq(data, from, e - 1))

(***************************************************************************)
(* The rest of the data and its parts.                                     *)
(***************************************************************************)
LEMMA RestIs ==
  ASSUME TypeOK
  PROVE  /\ data \in Ints /\ Len(data) \in Nat /\ start \in 1..(Len(data) + 1)
         /\ Rest \in Ints /\ Len(Rest) = Len(data) - start + 1
         /\ \A k \in 1..Len(Rest) : Rest[k] = data[start + k - 1]
         /\ \A x \in 1..(Len(Rest) + 1) : \A y \in (x - 1)..Len(Rest) :
              SubSeq(Rest, x, y) = SubSeq(data, start + x - 1, start + y - 1)
<1>1. data \in Ints /\ Len(data) \in Nat /\ start \in 1..(Len(data) + 1)
  <2>1. data \in Seq(Byte) /\ start \in 1..(Len(data) + 1) BY DEF TypeOK
  <2>2. Byte \subseteq Int BY DEF Byte
  <2>3. Len(data) \in Nat /\ \A k \in 1..Len(data) : data[k] \in Byte BY ONLY <2>1
  <2>4. Len(data) \in Nat /\ \A k \in 1..Len(data) : data[k] \in Int BY ONLY <2>2, <2>3
  <2>5. data = [k \in 1..Len(data) |-> data[k]] BY <2>1
  <2> QED BY <2>1, <2>4, <2>5, IsASeq DEF Ints
<1>2. Len(data) \in (start - 1)..Len(data) BY <1>1
<1>3. /\ Rest \in Ints /\ Len(Rest) = Len(data) - start + 1
      /\ \A k \in 1..(Len(data) - start + 1) : Rest[k] = data[start + k - 1]
  BY <1>1, <1>2, PartIs DEF Rest
<1>4. ASSUME NEW x \in 1..(Len(Rest) + 1), NEW y \in (x - 1)..Len(Rest)
      PROVE  SubSeq(Rest, x, y) = SubSeq(data, start + x - 1, start + y - 1)
  <2>1. x \in 1..(Len(data) - start + 2) /\ y \in (x - 1)..(Len(data) - start + 1) BY <1>1, <1>3
  <2> QED BY <1>1, <1>2, <2>1, PartOfPart DEF Rest
<1> QED BY <1>1, <1>3, <1>4

(***************************************************************************)
(* The data begin with a string exactly if there is one at the positions.  *)
(***************************************************************************)
LEMMA StringEndsAre ==
  ASSUME TypeOK
  PROVE  /\ \A m \in StringEnds : m \in Int /\ \E c \in Int : StringAt(c, start + m - 1)
         /\ \A c, e \in Int : StringAt(c, e) =>
              /\ e - start + 1 \in StringEnds
              /\ SubSeq(Rest, 1, e - start + 1) = Encoded(SubSeq(data, c + 1, e))
<1>1. /\ data \in Ints /\ Len(data) \in Nat /\ start \in 1..(Len(data) + 1)
      /\ Rest \in Ints /\ Len(Rest) = Len(data) - start + 1
      /\ \A x \in 1..(Len(Rest) + 1) : \A y \in (x - 1)..Len(Rest) :
           SubSeq(Rest, x, y) = SubSeq(data, start + x - 1, start + y - 1)
      /\ LengthMax \in Nat
  BY RestIs, LexerAssumption
<1>a. /\ Len(data) \in Nat /\ start \in 1..(Len(data) + 1)
      /\ Len(Rest) = Len(data) - start + 1 /\ LengthMax \in Nat
  BY <1>1
<1>d. data \in Ints BY <1>1
<1>c. Colon \in Int BY DEF Colon
<1>2. ASSUME NEW m \in StringEnds PROVE m \in Int /\ \E c \in Int : StringAt(c, start + m - 1)
  <2>1. /\ m \in 2..Len(Rest)
        /\ \E n \in 0..(m - 2) : /\ n <= 10 * LengthMax + 9
                                 /\ SubSeq(Rest, 1, m) = Encoded(SubSeq(Rest, m - n + 1, m))
    BY <1>2, Zenon DEF StringEnds
  <2>2. PICK n \in 0..(m - 2) : /\ n <= 10 * LengthMax + 9
                                /\ SubSeq(Rest, 1, m) = Encoded(SubSeq(Rest, m - n + 1, m))
    BY <2>1
  <2>3. PICK e, s, x, y, c : /\ e = start + m - 1 /\ s = SubSeq(data, start, e) /\ x = Digits(n)
                             /\ y = SubSeq(data, start + m - n, e) /\ c = start + Len(x)
    OBVIOUS
  <2>4. SubSeq(Rest, 1, m) = s
    <3>1. 1 \in 1..(Len(Rest) + 1) /\ m \in (1 - 1)..Len(Rest) /\ start + 1 - 1 = start
      BY <1>a, <2>1
    <3> QED BY <1>1, <2>3, <3>1
  <2>5. SubSeq(Rest, m - n + 1, m) = y
    <3>1. /\ m - n + 1 \in 1..(Len(Rest) + 1) /\ m \in ((m - n + 1) - 1)..Len(Rest)
          /\ start + (m - n + 1) - 1 = start + m - n
      BY <1>a, <2>1, <2>2
    <3> QED BY <1>1, <2>3, <3>1
  <2>6. s \in Ints /\ Len(s) = m /\ \A k \in 1..m : s[k] = data[start + k - 1]
    <3>1. e \in (start - 1)..Len(data) /\ e - start + 1 = m BY <1>a, <2>1, <2>3
    <3>2. data \in Ints /\ start \in 1..(Len(data) + 1) /\ s = SubSeq(data, start, e)
      BY <1>d, <1>a, <2>3
    <3>3. m = e - start + 1 BY <3>1
    <3>4. IsPart(SubSeq(data, start, e), data, start, e - start + 1) BY ONLY <3>1, <3>2, NamedPart
    <3>5. IsPart(s, data, start, m) BY ONLY <3>2, <3>3, <3>4
    <3> QED BY <3>5 DEF IsPart
  <2>7. y \in Ints /\ Len(y) = n
    <3>1. PICK i : i = start + m - n OBVIOUS
    <3>2. i \in 1..(Len(data) + 1) /\ e \in (i - 1)..Len(data) /\ e - i + 1 = n
      BY <1>a, <2>1, <2>2, <2>3, <3>1
    <3>3. data \in Ints /\ y = SubSeq(data, i, e) /\ n = e - i + 1 BY <1>d, <2>3, <3>1, <3>2
    <3>4. IsPart(SubSeq(data, i, e), data, i, e - i + 1) BY ONLY <3>2, <3>3, NamedPart
    <3>5. IsPart(y, data, i, n) BY ONLY <3>3, <3>4
    <3> QED BY <3>5 DEF IsPart
  <2>8. n \in Nat /\ x \in Ints /\ Canonical(x) /\ ValueOf(x) = n /\ Len(x) \in Nat /\ Len(x) # 0
    <3>1. n \in Nat BY <2>2
    <3>2. x \in Ints /\ Canonical(x) /\ ValueOf(x) = n BY <2>3, <3>1, DigitsAre, FormsAreCanonical
    <3>3. x \in Seq(Int) /\ x # <<>> BY <3>2 DEF Ints, Canonical
    <3>4. Len(x) \in Nat /\ Len(x) # 0 BY ONLY <3>3, EmptySeq, LenProperties
    <3> QED BY <3>1, <3>2, <3>4
  <2>9. s = x \o <<Colon>> \o y
    <3>1. Decimal(n) = x BY <2>3, <2>8 DEF Decimal
    <3> QED BY <2>2, <2>4, <2>7, <2>5, <3>1 DEF Encoded
  <2>10. /\ m = Len(x) + 1 + n /\ s[Len(x) + 1] = Colon
         /\ \A k \in 1..Len(x) : s[k] = x[k]
    <3>1. s \in Ints /\ x \in Ints /\ y \in Ints BY <2>6, <2>7, <2>8
    <3>2. /\ Len(s) = Len(x) + 1 + Len(y) /\ s[Len(x) + 1] = Colon
          /\ \A k \in 1..Len(x) : s[k] = x[k]
      <4>1. PICK u : u = x \o <<Colon>> /\ s = u \o y BY <2>9
      <4> QED BY ONLY <1>c, <3>1, <4>1, JoinIs
    <3> QED BY <2>6, <2>7, <3>2
  <2>11. PICK k, l : k = Len(x) /\ l = Len(data) OBVIOUS
  <2>12. /\ k \in Nat /\ k # 0 /\ l \in Nat /\ start \in 1..(l + 1) /\ n \in Nat
         /\ m \in 2..(l - start + 1) /\ m = k + 1 + n
         /\ e = start + m - 1 /\ c = start + k
    BY <1>a, <2>1, <2>3, <2>8, <2>10, <2>11
  <2>13. c \in (start + 1)..Len(data) /\ e \in c..Len(data) /\ e - c = n
    <3>1. c \in (start + 1)..l /\ e \in c..l /\ e - c = n BY ONLY <2>12
    <3> QED BY <2>11, <3>1
  <2>14. data[c] = Colon
    <3>1. Len(x) + 1 \in 1..m /\ start + (Len(x) + 1) - 1 = c
      <4>1. k + 1 \in 1..m /\ start + (k + 1) - 1 = c BY ONLY <2>12
      <4> QED BY <2>11, <4>1
    <3> QED BY <2>6, <2>10, <3>1
  <2>15. SubSeq(data, start, c - 1) = x
    <3>1. PICK p : p = SubSeq(data, start, c - 1) OBVIOUS
    <3>2. c - 1 \in (start - 1)..Len(data) /\ k = (c - 1) - start + 1
      <4>1. c - 1 \in (start - 1)..l /\ k = (c - 1) - start + 1 BY ONLY <2>12
      <4> QED BY <2>11, <4>1
    <3>3. p \in Ints /\ Len(p) = k /\ \A i \in 1..k : p[i] = data[start + i - 1]
      <4>1. data \in Ints /\ start \in 1..(Len(data) + 1) BY <1>a, <1>d
      <4>2. IsPart(SubSeq(data, start, c - 1), data, start, (c - 1) - start + 1)
        BY ONLY <3>2, <4>1, NamedPart
      <4>3. IsPart(p, data, start, k) BY ONLY <3>1, <3>2, <4>2
      <4> QED BY <4>3 DEF IsPart
    <3>4. \A i \in 1..k : i \in 1..m BY ONLY <2>12
    <3>5. \A i \in 1..Len(x) : p[i] = x[i] BY <2>6, <2>10, <2>11, <3>3, <3>4
    <3>6. Len(p) = Len(x) BY <2>11, <3>3
    <3> QED BY <2>8, <3>1, <3>3, <3>5, <3>6, SameParts
  <2>16. StringAt(c, e) BY <2>2, <2>8, <2>13, <2>14, <2>15 DEF StringAt
  <2>17. m \in Int /\ c \in Int BY <2>1, <2>13
  <2> QED BY <2>3, <2>16, <2>17
<1>3. ASSUME NEW c \in Int, NEW e \in Int, StringAt(c, e)
      PROVE  /\ e - start + 1 \in StringEnds
             /\ SubSeq(Rest, 1, e - start + 1) = Encoded(SubSeq(data, c + 1, e))
  <2>1. PICK m, n, x, y, s : /\ m = e - start + 1 /\ n = e - c /\ x = SubSeq(data, start, c - 1)
                             /\ y = SubSeq(data, c + 1, e) /\ s = SubSeq(data, start, e)
    OBVIOUS
  <2>2. /\ c \in (start + 1)..Len(data) /\ e \in c..Len(data) /\ data[c] = Colon
        /\ Canonical(x) /\ ValueOf(x) = n /\ n <= 10 * LengthMax + 9
    BY <1>3, <2>1 DEF StringAt
  <2>3. m \in 2..Len(Rest) /\ n \in 0..(m - 2) BY <1>a, <2>1, <2>2
  <2>4. x \in Ints /\ Len(x) = c - start /\ \A k \in 1..(c - start) : x[k] = data[start + k - 1]
    <3>1. c - 1 \in (start - 1)..Len(data) /\ (c - 1) - start + 1 = c - start BY <1>a, <2>2
    <3>2. data \in Ints /\ start \in 1..(Len(data) + 1) /\ x = SubSeq(data, start, c - 1)
      BY <1>a, <1>d, <2>1
    <3>3. PICK k : k = c - start OBVIOUS
    <3>4. k = (c - 1) - start + 1 BY <3>1, <3>3
    <3>5. x \in Ints /\ Len(x) = k /\ \A i \in 1..k : x[i] = data[start + i - 1]
      <4>1. IsPart(SubSeq(data, start, c - 1), data, start, (c - 1) - start + 1)
        BY ONLY <3>1, <3>2, NamedPart
      <4>2. IsPart(x, data, start, k) BY ONLY <3>2, <3>4, <4>1
      <4> QED BY <4>2 DEF IsPart
    <3> QED BY <3>3, <3>5
  <2>5. y \in Ints /\ Len(y) = n /\ \A k \in 1..n : y[k] = data[c + k]
    <3>1. PICK i : i = c + 1 OBVIOUS
    <3>2. i \in 1..(Len(data) + 1) /\ e \in (i - 1)..Len(data) /\ e - i + 1 = n
      BY <1>a, <2>1, <2>2, <3>1
    <3>3. y \in Ints /\ Len(y) = n /\ \A k \in 1..n : y[k] = data[i + k - 1]
      <4>1. data \in Ints /\ y = SubSeq(data, i, e) /\ n = e - i + 1 BY <1>d, <2>1, <3>1, <3>2
      <4>2. IsPart(SubSeq(data, i, e), data, i, e - i + 1) BY ONLY <3>2, <4>1, NamedPart
      <4>3. IsPart(y, data, i, n) BY ONLY <4>1, <4>2
      <4> QED BY <4>3 DEF IsPart
    <3>4. \A k \in 1..n : i + k - 1 = c + k BY <2>3, <3>1
    <3> QED BY <3>3, <3>4
  <2>6. s \in Ints /\ Len(s) = m /\ \A k \in 1..m : s[k] = data[start + k - 1]
    <3>1. e \in (start - 1)..Len(data) BY <1>a, <2>2
    <3>2. data \in Ints /\ start \in 1..(Len(data) + 1) /\ s = SubSeq(data, start, e) /\ m = e - start + 1
      BY <1>a, <1>d, <2>1
    <3>3. IsPart(SubSeq(data, start, e), data, start, e - start + 1) BY ONLY <3>1, <3>2, NamedPart
    <3>4. IsPart(s, data, start, m) BY ONLY <3>2, <3>3
    <3> QED BY <3>4 DEF IsPart
  <2>7. PICK k, l : k = Len(x) /\ l = Len(data) OBVIOUS
  <2>8. /\ k \in Nat /\ k = c - start /\ l \in Nat /\ start \in 1..(l + 1) /\ n \in Nat
        /\ c \in (start + 1)..l /\ e \in c..l /\ m = e - start + 1 /\ n = e - c
    BY <1>a, <2>1, <2>2, <2>4, <2>7
  <2>9. m = k + 1 + n /\ k + 1 \in 1..m /\ start + (k + 1) - 1 = c BY ONLY <2>8
  <2>10. s = x \o <<Colon>> \o y
    <3>1. Len(s) = Len(x) + 1 + Len(y) BY <2>5, <2>6, <2>7, <2>9
    <3>2. \A j \in 1..Len(x) : s[j] = x[j]
      <4>1. \A i \in 1..k : i \in 1..m /\ i \in 1..(c - start) BY ONLY <2>8, <2>9
      <4> QED BY <2>4, <2>6, <2>7, <4>1
    <3>3. s[Len(x) + 1] = Colon
      <4>1. s[k + 1] = data[start + (k + 1) - 1] BY <2>6, <2>9
      <4> QED BY <2>2, <2>7, <2>9, <4>1
    <3>4. \A j \in 1..Len(y) : s[Len(x) + 1 + j] = y[j]
      <4>1. \A i \in 1..n : k + 1 + i \in 1..m /\ start + (k + 1 + i) - 1 = c + i
        BY ONLY <2>8, <2>9
      <4> QED BY <2>5, <2>6, <2>7, <4>1
    <3>5. s \in Ints /\ x \in Ints /\ y \in Ints BY <2>4, <2>5, <2>6
    <3> QED BY <1>c, <3>1, <3>2, <3>3, <3>4, <3>5, Joined, Zenon
  <2>11. Encoded(y) = s
    <3>1. Digits(n) = x BY <2>2, <2>4, CanonicalIsForm
    <3>2. Decimal(Len(y)) = x BY <2>3, <2>5, <3>1 DEF Decimal
    <3> QED BY <2>10, <3>2 DEF Encoded
  <2>12. SubSeq(Rest, 1, m) = s
    <3>1. /\ 1 \in 1..(Len(Rest) + 1) /\ m \in (1 - 1)..Len(Rest)
          /\ start + 1 - 1 = start /\ start + m - 1 = e
      BY <1>a, <2>1, <2>3
    <3> QED BY <1>1, <2>1, <3>1
  <2>13. SubSeq(Rest, m - n + 1, m) = y
    <3>1. /\ m - n + 1 \in 1..(Len(Rest) + 1) /\ m \in ((m - n + 1) - 1)..Len(Rest)
          /\ start + (m - n + 1) - 1 = c + 1 /\ start + m - 1 = e
      BY <1>a, <2>1, <2>2, <2>3
    <3> QED BY <1>1, <2>1, <3>1
  <2>14. m \in StringEnds BY <2>2, <2>3, <2>11, <2>12, <2>13, Zenon DEF StringEnds
  <2> QED BY <2>1, <2>11, <2>12, <2>14
<1> QED BY <1>2, <1>3

(***************************************************************************)
(* The number bytes would be the form of.                                  *)
(***************************************************************************)
LEMMA NumberOfIs ==
  ASSUME NEW s \in Ints
  PROVE  /\ Canonical(s) => NumberOf(s) = ValueOf(s)
         /\ Len(s) > 1 /\ s[1] = Minus => NumberOf(s) = -ValueOf(Tail(s))
<1>1. ASSUME Canonical(s) PROVE NumberOf(s) = ValueOf(s)
  <2>1. Len(s) > 1 => IsDigit(s[1])
    <3>1. Len(s) \in Nat BY DEF Ints
    <3>2. Len(s) > 1 => 1 \in 1..Len(s) BY <3>1
    <3> QED BY <1>1, <3>2 DEF Canonical, AllDigits
  <2>2. ~IsDigit(Minus) BY DEF IsDigit, Zero, Nine, Minus
  <2>3. ~(Len(s) > 1 /\ s[1] = Minus) BY <2>1, <2>2
  <2> QED BY <2>3, Zenon DEF NumberOf
<1>2. Len(s) > 1 /\ s[1] = Minus => NumberOf(s) = -ValueOf(Tail(s)) BY Zenon DEF NumberOf
<1> QED BY <1>1, <1>2

(***************************************************************************)
(* The data begin with a number exactly if there is one at the positions.  *)
(***************************************************************************)
LEMMA NumberEndsAre ==
  ASSUME TypeOK, NEW range
  PROVE  /\ \A m \in NumberEnds(range) :
              m \in Int /\ \E from \in Int : /\ NumberAt(from, start + m - 1)
                                             /\ Value(from, start + m - 1) \in range
         /\ \A from, e \in Int : NumberAt(from, e) =>
              /\ Value(from, e) \in Int /\ NumberOf(Body(e - start + 1)) = Value(from, e)
              /\ Value(from, e) \in range => e - start + 1 \in NumberEnds(range)
<1>1. /\ data \in Ints /\ Len(data) \in Nat /\ start \in 1..(Len(data) + 1)
      /\ Rest \in Ints /\ Len(Rest) = Len(data) - start + 1
      /\ \A k \in 1..Len(Rest) : Rest[k] = data[start + k - 1]
      /\ \A x \in 1..(Len(Rest) + 1) : \A y \in (x - 1)..Len(Rest) :
           SubSeq(Rest, x, y) = SubSeq(data, start + x - 1, start + y - 1)
  BY RestIs
<1>2. ASSUME NEW e \in (start + 2)..Len(data)
      PROVE  /\ e - start + 1 \in 3..Len(Rest)
             /\ Rest[1] = data[start] /\ Rest[e - start + 1] = data[e]
             /\ Body(e - start + 1) = SubSeq(data, start + 1, e - 1)
             /\ SubSeq(data, start + 1, e - 1) \in Ints
             /\ Len(SubSeq(data, start + 1, e - 1)) = e - start - 1
             /\ SubSeq(data, start + 1, e - 1)[1] = data[start + 1]
             /\ e >= start + 3 => /\ SubSeq(data, start + 1, e - 1)[2] = data[start + 2]
                                  /\ Tail(SubSeq(data, start + 1, e - 1)) = SubSeq(data, start + 2, e - 1)
  <2>1. PICK m, i, j, s : /\ m = e - start + 1 /\ i = start + 1 /\ j = e - 1
                          /\ s = SubSeq(data, i, j)
    OBVIOUS
  <2>2. m \in 3..Len(Rest) BY <1>1, <2>1
  <2>3. Rest[1] = data[start] /\ Rest[m] = data[e]
    <3>1. 1 \in 1..Len(Rest) /\ m \in 1..Len(Rest) /\ start + 1 - 1 = start /\ start + m - 1 = e
      BY <1>1, <2>1, <2>2
    <3> QED BY <1>1, <3>1
  <2>4. Body(m) = s
    <3>1. /\ 2 \in 1..(Len(Rest) + 1) /\ m - 1 \in (2 - 1)..Len(Rest)
          /\ start + 2 - 1 = i /\ start + (m - 1) - 1 = j
      BY <1>1, <2>1, <2>2
    <3>2. SubSeq(Rest, 2, m - 1) = SubSeq(data, start + 2 - 1, start + (m - 1) - 1)
      BY <1>1, <3>1
    <3> QED BY <2>1, <3>1, <3>2 DEF Body
  <2>5. i \in 1..(Len(data) + 1) /\ j \in (i - 1)..Len(data) /\ j - i + 1 = e - start - 1
    BY <1>1, <2>1
  <2>6. /\ s \in Ints /\ Len(s) = e - start - 1
        /\ \A k \in 1..(e - start - 1) : s[k] = data[i + k - 1]
    <3>1. s \in Ints /\ Len(s) = j - i + 1 /\ \A k \in 1..(j - i + 1) : s[k] = data[i + k - 1]
      BY <1>1, <2>1, <2>5, PartIs
    <3> QED BY <2>5, <3>1
  <2>7. s[1] = data[start + 1]
    <3>1. 1 \in 1..(e - start - 1) /\ i + 1 - 1 = start + 1 BY <1>1, <2>1
    <3> QED BY <2>6, <3>1
  <2>8. ASSUME e >= start + 3 PROVE s[2] = data[start + 2] /\ Tail(s) = SubSeq(data, start + 2, e - 1)
    <3>1. 2 \in 1..(e - start - 1) /\ i + 2 - 1 = start + 2 BY <1>1, <2>1, <2>8
    <3>2. i \in 1..Len(data) /\ j \in (i + 1)..Len(data) /\ i + 1 = start + 2 BY <1>1, <2>1, <2>8
    <3>3. Tail(s) = SubSeq(data, i + 1, j) BY <1>1, <2>1, <3>2, PartTail
    <3> QED BY <2>1, <2>6, <3>1, <3>2, <3>3
  <2> QED BY <2>1, <2>2, <2>3, <2>4, <2>6, <2>7, <2>8
<1>3. ASSUME NEW m \in NumberEnds(range)
      PROVE  m \in Int /\ \E from \in Int : /\ NumberAt(from, start + m - 1)
                                            /\ Value(from, start + m - 1) \in range
  <2>1. /\ m \in 3..Len(Rest) /\ Rest[1] = CharI /\ Rest[m] = CharE
        /\ Body(m) = Decimal(NumberOf(Body(m))) /\ NumberOf(Body(m)) \in range
    BY <1>3, Zenon DEF NumberEnds
  <2>2. PICK e : e = start + m - 1 OBVIOUS
  <2>3. e \in (start + 2)..Len(data) /\ m = e - start + 1 BY <1>1, <2>1, <2>2
  <2>4. PICK s : s = SubSeq(data, start + 1, e - 1) OBVIOUS
  <2>5. /\ data[start] = CharI /\ data[e] = CharE /\ Body(m) = s /\ s \in Ints
        /\ Len(s) = e - start - 1 /\ s[1] = data[start + 1]
        /\ e >= start + 3 => s[2] = data[start + 2] /\ Tail(s) = SubSeq(data, start + 2, e - 1)
    BY <1>2, <2>1, <2>3, <2>4
  <2>6. Signed(s) BY <2>1, <2>5, SignedIsDecimal
  <2>7. CASE Canonical(s)
    <3>1. PICK f : f = start + 1 OBVIOUS
    <3>2. /\ f \in (start + 1)..(start + 2) /\ e \in (f + 1)..Len(data) /\ f # start + 2 /\ f \in Int
      BY <1>1, <2>3, <3>1
    <3>3. NumberAt(f, e) BY <2>4, <2>5, <2>7, <3>1, <3>2 DEF NumberAt
    <3>4. Value(f, e) \in range BY <2>1, <2>4, <2>5, <2>7, <3>1, NumberOfIs DEF Value
    <3> QED BY <2>1, <2>2, <3>2, <3>3, <3>4
  <2>8. CASE Len(s) > 1 /\ s[1] = Minus /\ Canonical(Tail(s)) /\ s[2] # Zero
    <3>1. PICK f : f = start + 2 OBVIOUS
    <3>2. /\ f \in (start + 1)..(start + 2) /\ e \in (f + 1)..Len(data) /\ f # start + 1 /\ f \in Int
          /\ e >= start + 3
      BY <1>1, <2>3, <2>5, <2>8, <3>1
    <3>3. NumberAt(f, e) BY <2>4, <2>5, <2>8, <3>1, <3>2 DEF NumberAt
    <3>4. Value(f, e) \in range BY <2>1, <2>4, <2>5, <2>8, <3>1, <3>2, NumberOfIs DEF Value
    <3> QED BY <2>1, <2>2, <3>2, <3>3, <3>4
  <2> QED BY <2>6, <2>7, <2>8 DEF Signed
<1>4. ASSUME NEW from \in Int, NEW e \in Int, NumberAt(from, e)
      PROVE  /\ Value(from, e) \in Int /\ NumberOf(Body(e - start + 1)) = Value(from, e)
             /\ Value(from, e) \in range => e - start + 1 \in NumberEnds(range)
  <2>1. PICK m, s : m = e - start + 1 /\ s = SubSeq(data, start + 1, e - 1) OBVIOUS
  <2>2. /\ from \in (start + 1)..(start + 2) /\ e \in (from + 1)..Len(data)
        /\ data[start] = CharI /\ data[e] = CharE /\ Canonical(SubSeq(data, from, e - 1))
        /\ from = start + 2 => data[start + 1] = Minus /\ data[from] # Zero
    BY <1>4 DEF NumberAt
  <2>3. e \in (start + 2)..Len(data) BY <1>1, <2>2
  <2>4. /\ m \in 3..Len(Rest) /\ Rest[1] = CharI /\ Rest[m] = CharE /\ Body(m) = s /\ s \in Ints
        /\ Len(s) = e - start - 1 /\ s[1] = data[start + 1]
        /\ e >= start + 3 => s[2] = data[start + 2] /\ Tail(s) = SubSeq(data, start + 2, e - 1)
    BY <1>2, <2>1, <2>2, <2>3
  <2>5. Signed(s) /\ NumberOf(s) = Value(from, e) /\ Value(from, e) \in Int
    <3>1. CASE from = start + 1
      <4>1. Canonical(s) BY <2>1, <2>2, <3>1
      <4>2. Value(from, e) = ValueOf(s) BY <2>1, <3>1 DEF Value
      <4> QED BY <2>4, <4>1, <4>2, NumberOfIs, ValueNext DEF Signed
    <3>2. CASE from # start + 1
      <4>1. from = start + 2 /\ e >= start + 3 /\ Len(s) > 1 BY <1>1, <2>2, <2>4, <3>2
      <4>2. /\ s[1] = Minus /\ s[2] # Zero /\ Tail(s) = SubSeq(data, from, e - 1)
            /\ Canonical(Tail(s))
        BY <2>2, <2>4, <4>1
      <4>3. Value(from, e) = -ValueOf(Tail(s)) BY <3>2, <4>2 DEF Value
      <4>4. ValueOf(Tail(s)) \in Int BY <2>4, <4>1, BehindFirst, ValueNext
      <4>5. Signed(s) BY <4>1, <4>2 DEF Signed
      <4>6. NumberOf(s) = -ValueOf(Tail(s)) BY <2>4, <4>1, <4>2, NumberOfIs
      <4> QED BY <4>3, <4>4, <4>5, <4>6
    <3> QED BY <3>1, <3>2
  <2>6. s = Decimal(NumberOf(s)) BY <2>4, <2>5, SignedIsDecimal
  <2>7. NumberOf(s) \in range => m \in NumberEnds(range) BY <2>4, <2>6, Zenon DEF NumberEnds
  <2> QED BY <2>1, <2>4, <2>5, <2>7
<1> QED BY <1>3, <1>4

-----------------------------------------------------------------------------
(***************************************************************************)
(* Strings as chains of characters: each goes on 1 to 4 bytes further.     *)
(***************************************************************************)
\* f says from where on the steps lead past n.
IsChain(f, len, steps) ==
  f = [i \in Nat |-> i > len \/ \E n \in 1..4 : <<i, n>> \in steps /\ f[i + n]]

\* There is such a function, whatever the steps.
LEMMA ChainExists ==
  ASSUME NEW len \in Nat, NEW steps
  PROVE  \E f \in [Nat -> BOOLEAN] : IsChain(f, len, steps)
<1> DEFINE R == BOOLEAN
           m == [i \in Nat |-> IF i > len THEN 0 ELSE len + 1 - i]
           Step(i, f) == i > len \/ \E n \in 1..4 : <<i, n>> \in steps /\ f[i + n]
           B == [z \in Nat \X [Nat -> R] |-> Step(z[1], z[2])]
<1>1. m \in [Nat -> Nat] OBVIOUS
<1>2. R # {} OBVIOUS
<1>3. ASSUME NEW i \in Nat, NEW f \in [Nat -> R] PROVE Step(i, f) \in R
  OBVIOUS
<1>4. \A i \in Nat, f \in [Nat -> R] : B[<<i, f>>] = Step(i, f) OBVIOUS
<1>5. B \in [Nat \X [Nat -> R] -> R]
  <2> HIDE DEF Step, R
  <2> QED BY <1>3
<1>6. LooksBack(Nat, R, m, B)
  <2> SUFFICES ASSUME NEW i \in Nat, NEW f \in [Nat -> R], NEW g \in [Nat -> R],
                      \A j \in Nat : m[j] < m[i] => f[j] = g[j]
               PROVE  Step(i, f) = Step(i, g)
    <3> HIDE DEF Step, B, m, R
    <3> QED BY <1>4 DEF LooksBack
  <2>1. CASE i > len BY <2>1
  <2>2. CASE ~(i > len)
    <3>1. \A n \in 1..4 : m[i + n] < m[i] BY <2>2
    <3> HIDE DEF m
    <3>2. \A n \in 1..4 : f[i + n] = g[i + n] BY <3>1
    <3> QED BY <2>2, <3>2
  <2> QED BY <2>1, <2>2
<1>7. \E f \in [Nat -> R] : \A i \in Nat : f[i] = B[<<i, f>>]
  <2> HIDE DEF B, m, R
  <2>1. PICK b, n, r : b = B /\ n = m /\ r = R OBVIOUS
  <2>2. Defines(Nat, R, m, B) BY <1>1, <1>2, <1>5, <1>6, Zenon DEF Defines
  <2>3. Defines(Nat, r, n, b) BY <2>1, <2>2, Zenon
  <2>4. Solvable(Nat, r, b) BY <2>3, SolutionExists
  <2> QED BY <2>1, <2>4, Zenon DEF Solvable
<1>8. PICK f \in [Nat -> R] : \A i \in Nat : f[i] = B[<<i, f>>] BY <1>7
<1>9. \A i \in Nat : f[i] = Step(i, f)
  <2> HIDE DEF Step, B
  <2> QED BY <1>4, <1>8
<1>10. f = [i \in Nat |-> Step(i, f)] BY <1>9
<1> QED BY <1>8, <1>10 DEF IsChain

\* The steps of the loops of validUTF8Text and validUTF8, and of a string made
\* of characters.
TextAt(s, behind, i, n) ==
  /\ SeqLen(s[i]) >= 0 /\ n = SeqLen(s[i]) + 1 /\ Enough(s, i)
  /\ \E tail \in {Following(s, behind, i)} :
       /\ \A m \in 1..Len(tail) : Continuation(tail[m])
       /\ ~Overlong(Len(tail), CodeOf(s[i], tail)) /\ TextCode(CodeOf(s[i], tail))

ScalarAt(s, behind, i, n) ==
  /\ s[i] <= 244 /\ SeqLen(s[i]) >= 0 /\ n = SeqLen(s[i]) + 1 /\ Enough(s, i)
  /\ \E tail \in {Following(s, behind, i)} :
       /\ \A m \in 1..Len(tail) : Continuation(tail[m])
       /\ tail # <<>> => SecondByte(s[i], tail[1])

\* What the recursive functions that define them are.
IsText(f, s, behind) ==
  f = [i \in Nat |->
        \/ i > Len(s)
        \/ /\ SeqLen(s[i]) >= 0 /\ Enough(s, i)
           /\ \E tail \in {Following(s, behind, i)} :
                /\ \A n \in 1..Len(tail) : Continuation(tail[n])
                /\ ~Overlong(Len(tail), CodeOf(s[i], tail)) /\ TextCode(CodeOf(s[i], tail))
           /\ f[i + SeqLen(s[i]) + 1]]

IsScalars(f, s, behind) ==
  f = [i \in Nat |->
        \/ i > Len(s)
        \/ /\ s[i] <= 244 /\ SeqLen(s[i]) >= 0 /\ Enough(s, i)
           /\ \E tail \in {Following(s, behind, i)} :
                /\ \A n \in 1..Len(tail) : Continuation(tail[n])
                /\ tail # <<>> => SecondByte(s[i], tail[1])
           /\ f[i + SeqLen(s[i]) + 1]]

IsMade(f, s, kind) ==
  f = [i \in Nat |-> i > Len(s) \/ \E n \in 1..4 : Character(s, kind, i, n) /\ f[i + n]]

\* A sequence has at most three bytes behind the first one.
LEMMA SeqLenIs == \A c : SeqLen(c) \in {-1, 0, 1, 2, 3}
BY DEF SeqLen

\* The loop of validUTF8Text.
LEMMA TextLeads ==
  ASSUME NEW s \in Seq(Byte), NEW behind \in Byte
  PROVE  \E f \in [Nat -> BOOLEAN] :
           /\ ValidUTF8Text(s, behind) = f[1]
           /\ \A i \in Nat : f[i] <=> i > Len(s) \/ \E n \in 1..4 : TextAt(s, behind, i, n) /\ f[i + n]
<1> DEFINE Goes(f, i) == \/ i > Len(s)
                         \/ /\ SeqLen(s[i]) >= 0 /\ Enough(s, i)
                            /\ \E tail \in {Following(s, behind, i)} :
                                 /\ \A n \in 1..Len(tail) : Continuation(tail[n])
                                 /\ ~Overlong(Len(tail), CodeOf(s[i], tail))
                                 /\ TextCode(CodeOf(s[i], tail))
                            /\ f[i + SeqLen(s[i]) + 1]
<1>1. ASSUME NEW f, NEW i \in Nat
      PROVE  Goes(f, i) <=> i > Len(s) \/ \E n \in 1..4 : TextAt(s, behind, i, n) /\ f[i + n]
  <2>1. PICK q : q = SeqLen(s[i]) OBVIOUS
  <2>2. q \in {-1, 0, 1, 2, 3} BY <2>1, SeqLenIs
  <2>3. i + (q + 1) = i + q + 1 BY <2>2
  <2>4. q >= 0 => q + 1 \in 1..4 BY <2>2
  <2> QED BY <2>1, <2>3, <2>4 DEF TextAt
<1>2. \E g : IsText(g, s, behind)
  <2> DEFINE steps == {x \in Nat \X (1..4) : TextAt(s, behind, x[1], x[2])}
  <2>1. \A i \in Nat, n \in 1..4 : <<i, n>> \in steps <=> TextAt(s, behind, i, n) OBVIOUS
  <2> HIDE DEF steps
  <2>2. Len(s) \in Nat OBVIOUS
  <2>3. PICK g \in [Nat -> BOOLEAN] : IsChain(g, Len(s), steps) BY <2>2, ChainExists
  <2>4. \A i \in Nat : g[i] = (i > Len(s) \/ \E n \in 1..4 : <<i, n>> \in steps /\ g[i + n])
    BY <2>3 DEF IsChain
  <2>5. ASSUME NEW i \in Nat PROVE g[i] = Goes(g, i)
    <3> HIDE DEF Goes
    <3>1. g[i] <=> i > Len(s) \/ \E n \in 1..4 : TextAt(s, behind, i, n) /\ g[i + n] BY <2>1, <2>4
    <3>2. g[i] <=> Goes(g, i) BY <1>1, <3>1
    <3>3. Goes(g, i) \in BOOLEAN BY DEF Goes
    <3> QED BY <2>3, <3>2, <3>3
  <2> HIDE DEF Goes
  <2>6. g = [i \in Nat |-> Goes(g, i)] BY <2>3, <2>5
  <2> QED BY <2>6 DEF IsText, Goes
<1> DEFINE v == CHOOSE g : IsText(g, s, behind)
<1>3. IsText(v, s, behind) BY <1>2, Zenon
<1>4. ValidUTF8Text(s, behind) = v[1] BY DEF ValidUTF8Text, IsText
<1> HIDE DEF v
<1>5. v = [i \in Nat |-> Goes(v, i)] BY <1>3 DEF IsText
<1>6. v \in [Nat -> BOOLEAN]
  <2>1. \A i \in Nat : Goes(v, i) \in BOOLEAN OBVIOUS
  <2> HIDE DEF Goes
  <2> QED BY <1>5, <2>1
<1>7. \A i \in Nat : v[i] <=> Goes(v, i)
  <2> HIDE DEF Goes
  <2> QED BY <1>5
<1>8. \A i \in Nat : v[i] <=> i > Len(s) \/ \E n \in 1..4 : TextAt(s, behind, i, n) /\ v[i + n]
  <2> HIDE DEF Goes
  <2> QED BY <1>1, <1>7
<1> QED BY <1>4, <1>6, <1>8
\* The loop of validUTF8.
LEMMA ScalarLeads ==
  ASSUME NEW s \in Seq(Byte), NEW behind \in Byte
  PROVE  \E f \in [Nat -> BOOLEAN] :
           /\ ValidUTF8(s, behind) = f[1]
           /\ \A i \in Nat : f[i] <=> i > Len(s) \/ \E n \in 1..4 : ScalarAt(s, behind, i, n) /\ f[i + n]
<1> DEFINE Goes(f, i) == \/ i > Len(s)
                         \/ /\ s[i] <= 244 /\ SeqLen(s[i]) >= 0 /\ Enough(s, i)
                            /\ \E tail \in {Following(s, behind, i)} :
                                 /\ \A n \in 1..Len(tail) : Continuation(tail[n])
                                 /\ tail # <<>> => SecondByte(s[i], tail[1])
                            /\ f[i + SeqLen(s[i]) + 1]
<1>1. ASSUME NEW f, NEW i \in Nat
      PROVE  Goes(f, i) <=> i > Len(s) \/ \E n \in 1..4 : ScalarAt(s, behind, i, n) /\ f[i + n]
  <2>1. PICK q : q = SeqLen(s[i]) OBVIOUS
  <2>2. q \in {-1, 0, 1, 2, 3} BY <2>1, SeqLenIs
  <2>3. i + (q + 1) = i + q + 1 BY <2>2
  <2>4. q >= 0 => q + 1 \in 1..4 BY <2>2
  <2> QED BY <2>1, <2>3, <2>4 DEF ScalarAt
<1>2. \E g : IsScalars(g, s, behind)
  <2> DEFINE steps == {x \in Nat \X (1..4) : ScalarAt(s, behind, x[1], x[2])}
  <2>1. \A i \in Nat, n \in 1..4 : <<i, n>> \in steps <=> ScalarAt(s, behind, i, n) OBVIOUS
  <2> HIDE DEF steps
  <2>2. Len(s) \in Nat OBVIOUS
  <2>3. PICK g \in [Nat -> BOOLEAN] : IsChain(g, Len(s), steps) BY <2>2, ChainExists
  <2>4. \A i \in Nat : g[i] = (i > Len(s) \/ \E n \in 1..4 : <<i, n>> \in steps /\ g[i + n])
    BY <2>3 DEF IsChain
  <2>5. ASSUME NEW i \in Nat PROVE g[i] = Goes(g, i)
    <3> HIDE DEF Goes
    <3>1. g[i] <=> i > Len(s) \/ \E n \in 1..4 : ScalarAt(s, behind, i, n) /\ g[i + n] BY <2>1, <2>4
    <3>2. g[i] <=> Goes(g, i) BY <1>1, <3>1
    <3>3. Goes(g, i) \in BOOLEAN BY DEF Goes
    <3> QED BY <2>3, <3>2, <3>3
  <2> HIDE DEF Goes
  <2>6. g = [i \in Nat |-> Goes(g, i)] BY <2>3, <2>5
  <2> QED BY <2>6 DEF IsScalars, Goes
<1> DEFINE v == CHOOSE g : IsScalars(g, s, behind)
<1>3. IsScalars(v, s, behind) BY <1>2, Zenon
<1>4. ValidUTF8(s, behind) = v[1] BY DEF ValidUTF8, IsScalars
<1> HIDE DEF v
<1>5. v = [i \in Nat |-> Goes(v, i)] BY <1>3 DEF IsScalars
<1>6. v \in [Nat -> BOOLEAN]
  <2>1. \A i \in Nat : Goes(v, i) \in BOOLEAN OBVIOUS
  <2> HIDE DEF Goes
  <2> QED BY <1>5, <2>1
<1>7. \A i \in Nat : v[i] <=> Goes(v, i)
  <2> HIDE DEF Goes
  <2> QED BY <1>5
<1>8. \A i \in Nat : v[i] <=> i > Len(s) \/ \E n \in 1..4 : ScalarAt(s, behind, i, n) /\ v[i + n]
  <2> HIDE DEF Goes
  <2> QED BY <1>1, <1>7
<1> QED BY <1>4, <1>6, <1>8

\* The characters of a string.
LEMMA MadeLeads ==
  ASSUME NEW s \in Seq(Byte), NEW kind
  PROVE  \E f \in [Nat -> BOOLEAN] :
           /\ Made(s, kind) = f[1]
           /\ \A i \in Nat : f[i] <=> i > Len(s) \/ \E n \in 1..4 : Character(s, kind, i, n) /\ f[i + n]
<1>1. \E g : IsMade(g, s, kind)
  <2> DEFINE steps == {x \in Nat \X (1..4) : Character(s, kind, x[1], x[2])}
  <2>1. \A i \in Nat, n \in 1..4 : <<i, n>> \in steps <=> Character(s, kind, i, n) OBVIOUS
  <2> HIDE DEF steps
  <2>2. Len(s) \in Nat OBVIOUS
  <2>3. PICK g \in [Nat -> BOOLEAN] : IsChain(g, Len(s), steps) BY <2>2, ChainExists
  <2>4. \A i \in Nat : g[i] = (i > Len(s) \/ \E n \in 1..4 : <<i, n>> \in steps /\ g[i + n])
    BY <2>3 DEF IsChain
  <2>5. \A i \in Nat : g[i] = (i > Len(s) \/ \E n \in 1..4 : Character(s, kind, i, n) /\ g[i + n])
    BY <2>1, <2>4
  <2>6. g = [i \in Nat |-> i > Len(s) \/ \E n \in 1..4 : Character(s, kind, i, n) /\ g[i + n]]
    BY <2>3, <2>5
  <2> QED BY <2>6 DEF IsMade
<1> DEFINE v == CHOOSE g : IsMade(g, s, kind)
<1>2. IsMade(v, s, kind) BY <1>1, Zenon
<1>3. Made(s, kind) = v[1] BY DEF Made, IsMade
<1> HIDE DEF v
<1>4. v = [i \in Nat |-> i > Len(s) \/ \E n \in 1..4 : Character(s, kind, i, n) /\ v[i + n]]
  BY <1>2 DEF IsMade
<1>5. v \in [Nat -> BOOLEAN] BY <1>4
<1>6. \A i \in Nat : v[i] <=> i > Len(s) \/ \E n \in 1..4 : Character(s, kind, i, n) /\ v[i + n]
  BY <1>4
<1> QED BY <1>3, <1>5, <1>6

-----------------------------------------------------------------------------
(***************************************************************************)
(* Codes of up to four bytes, in steps of six bits.                        *)
(***************************************************************************)
LEMMA BySixtyFour ==
  /\ \A q, r \in Nat : r < 64 => (64 * q + r) \div 64 = q /\ (64 * q + r) % 64 = r
  /\ \A q, r \in Nat : r < 4096 => (4096 * q + r) \div 4096 = q
  /\ \A q, r \in Nat : r < 262144 => (262144 * q + r) \div 262144 = q
  /\ \A c \in Nat : c \div 1 = c
  /\ \A c \in Nat : 128 <= c /\ c <= 191 => c \div 64 = 2 /\ c % 64 = c - 128
BY SMT

\* The bytes that follow a leading one.
LEMMA ContinuationIs ==
  \A c \in Byte : /\ c \in Nat /\ c <= 255
                  /\ Continuation(c) <=> 128 <= c /\ c <= 191
                  /\ Continuation(c) => c % 64 = c - 128
BY DEF Byte, Continuation

\* Which bytes lead a character of which length.
LEMMA SeqLenOf ==
  \A c \in Byte : /\ SeqLen(c) = 0 <=> c \in 0..127
                  /\ SeqLen(c) = 1 <=> c \in 194..223
                  /\ SeqLen(c) = 2 <=> c \in 224..239
                  /\ SeqLen(c) = 3 <=> c \in 240..247
BY DEF SeqLen, Byte

\* The own bits of a leading byte are what is above the mark of its length.
LeadIsFirst(c) ==
  /\ SeqLen(c) = 0 => LeadBits(c) = c
  /\ SeqLen(c) = 1 => LeadBits(c) = c - 192
  /\ SeqLen(c) = 2 => LeadBits(c) = c - 224
  /\ SeqLen(c) = 3 => LeadBits(c) = c - 240

\* It is so for the four lengths.
LEMMA LeadIs ==
  ASSUME NEW c \in Byte
  PROVE  LeadIsFirst(c)
<1>1. /\ SeqLen(c) = 0 <=> c \in 0..127
      /\ SeqLen(c) = 1 <=> c \in 194..223
      /\ SeqLen(c) = 2 <=> c \in 224..239
      /\ SeqLen(c) = 3 <=> c \in 240..247
  BY SeqLenOf
<1>2. CASE SeqLen(c) = 0
  <2>1. LeadBits(c) = c % 128 BY <1>2 DEF LeadBits
  <2> QED BY <1>1, <1>2, <2>1 DEF LeadIsFirst
<1>3. CASE SeqLen(c) = 1
  <2>1. LeadBits(c) = c % 32 BY <1>3 DEF LeadBits
  <2> QED BY <1>1, <1>3, <2>1 DEF LeadIsFirst
<1>4. CASE SeqLen(c) = 2
  <2>1. LeadBits(c) = c % 16 BY <1>4 DEF LeadBits
  <2> QED BY <1>1, <1>4, <2>1 DEF LeadIsFirst
<1>5. CASE SeqLen(c) = 3
  <2>1. LeadBits(c) = c % 8 BY <1>5 DEF LeadBits
  <2> QED BY <1>1, <1>5, <2>1 DEF LeadIsFirst
<1>6. SeqLen(c) \in {-1, 0, 1, 2, 3} BY SeqLenIs
<1> QED BY <1>2, <1>3, <1>4, <1>5, <1>6 DEF LeadIsFirst

\* The recursive functions of CodeIn and CodeOf.
IsCodeIn(f, s) ==
  f = [m \in 1..Len(s) |-> IF m = 1 THEN s[1] - Lead[Len(s)] ELSE 64 * f[m - 1] + (s[m] - 128)]
IsFirst(f, lead, tail) ==
  f = [n \in 0..Len(tail) |-> IF n = 0 THEN LeadBits(lead) ELSE 64 * f[n - 1] + (tail[n] % 64)]

\* The code that up to four bytes would be the form of.
InCode(s) ==
  /\ CodeIn(s) \in Int
  /\ Len(s) = 1 => CodeIn(s) = s[1]
  /\ Len(s) = 2 => CodeIn(s) = 64 * (s[1] - 192) + (s[2] - 128)
  /\ Len(s) = 3 => CodeIn(s) = 64 * (64 * (s[1] - 224) + (s[2] - 128)) + (s[3] - 128)
  /\ Len(s) = 4 => CodeIn(s) = 64 * (64 * (64 * (s[1] - 240) + (s[2] - 128)) + (s[3] - 128))
                                 + (s[4] - 128)

\* So it is computed.
LEMMA CodeInIs ==
  ASSUME NEW s \in Seq(Byte), Len(s) \in 1..4
  PROVE  InCode(s)
<1> DEFINE a == s[1] - Lead[Len(s)]
           b == 64 * a + (s[2] - 128)
           c == 64 * b + (s[3] - 128)
           d == 64 * c + (s[4] - 128)
           g == [m \in 1..Len(s) |-> IF m = 1 THEN a ELSE IF m = 2 THEN b ELSE IF m = 3 THEN c ELSE d]
<1>1. \A m \in 1..Len(s) : s[m] \in Int
  <2>1. \A m \in 1..Len(s) : s[m] \in Byte OBVIOUS
  <2> QED BY <2>1, ContinuationIs
<1>2. Lead[1] = 0 /\ Lead[2] = 192 /\ Lead[3] = 224 /\ Lead[4] = 240 BY DEF Lead
<1>3. a \in Int
  <2>1. \A n \in 1..4 : Lead[n] \in Int BY <1>2
  <2>2. Lead[Len(s)] \in Int BY <2>1
  <2>3. s[1] \in Int BY <1>1
  <2> QED BY <2>2, <2>3
<1>4. \E f : IsCodeIn(f, s)
  <2>1. ASSUME NEW m \in 1..Len(s)
        PROVE  g[m] = IF m = 1 THEN a ELSE 64 * g[m - 1] + (s[m] - 128)
    <3> HIDE DEF a
    <3>1. CASE m = 1 BY <3>1
    <3>2. CASE m = 2 BY <3>2
    <3>3. CASE m = 3 BY <3>3
    <3>4. CASE m = 4 BY <3>4
    <3> QED BY <3>1, <3>2, <3>3, <3>4
  <2>2. g = [m \in 1..Len(s) |-> IF m = 1 THEN a ELSE 64 * g[m - 1] + (s[m] - 128)]
    <3> HIDE DEF a, b, c, d
    <3> QED BY <2>1
  <2>3. IsCodeIn(g, s) BY <2>2 DEF IsCodeIn
  <2> QED BY <2>3
<1> DEFINE f == CHOOSE h : IsCodeIn(h, s)
<1>5. IsCodeIn(f, s) BY <1>4, Zenon
<1>6. CodeIn(s) = f[Len(s)] BY DEF CodeIn, IsCodeIn
<1> HIDE DEF f
<1>7. \A m \in 1..Len(s) : f[m] = IF m = 1 THEN a ELSE 64 * f[m - 1] + (s[m] - 128)
  BY <1>5 DEF IsCodeIn
<1>8. f[1] = a BY <1>7
<1>9. Len(s) >= 2 => f[2] = 64 * f[1] + (s[2] - 128) BY <1>7
<1>10. Len(s) >= 3 => f[3] = 64 * f[2] + (s[3] - 128) BY <1>7
<1>11. Len(s) >= 4 => f[4] = 64 * f[3] + (s[4] - 128) BY <1>7
<1>12. CASE Len(s) = 1
  <2>1. CodeIn(s) = s[1] BY <1>1, <1>2, <1>6, <1>8, <1>12
  <2> QED BY <1>1, <1>12, <2>1 DEF InCode
<1>13. CASE Len(s) = 2
  <2>1. CodeIn(s) = 64 * (s[1] - 192) + (s[2] - 128) BY <1>2, <1>6, <1>8, <1>9, <1>13
  <2> QED BY <1>1, <1>13, <2>1 DEF InCode
<1>14. CASE Len(s) = 3
  <2>1. CodeIn(s) = 64 * (64 * (s[1] - 224) + (s[2] - 128)) + (s[3] - 128)
    BY <1>2, <1>6, <1>8, <1>9, <1>10, <1>14
  <2> QED BY <1>1, <1>14, <2>1 DEF InCode
<1>15. CASE Len(s) = 4
  <2>1. CodeIn(s) = 64 * (64 * (64 * (s[1] - 240) + (s[2] - 128)) + (s[3] - 128)) + (s[4] - 128)
    BY <1>2, <1>6, <1>8, <1>9, <1>10, <1>11, <1>15
  <2>2. s[1] \in Int /\ s[2] \in Int /\ s[3] \in Int /\ s[4] \in Int BY <1>1, <1>15
  <2>3. PICK w \in Int, x \in Int, y \in Int, z \in Int :
          w = s[1] /\ x = s[2] /\ y = s[3] /\ z = s[4]
    BY <2>2
  <2>4. CodeIn(s) = 64 * (64 * (64 * (w - 240) + (x - 128)) + (y - 128)) + (z - 128)
    BY <2>1, <2>3
  <2>5. 64 * (64 * (64 * (w - 240) + (x - 128)) + (y - 128)) + (z - 128) \in Int OBVIOUS
  <2>6. CodeIn(s) \in Int BY <2>4, <2>5
  <2> QED BY <1>15, <2>1, <2>6 DEF InCode
<1> QED BY <1>12, <1>13, <1>14, <1>15 DEF InCode

\* The code the loop of validUTF8Text puts together.
OfCode(lead, tail) ==
  /\ Len(tail) = 0 => CodeOf(lead, tail) = LeadBits(lead)
  /\ Len(tail) = 1 => CodeOf(lead, tail) = 64 * LeadBits(lead) + (tail[1] - 128)
  /\ Len(tail) = 2 => CodeOf(lead, tail) = 64 * (64 * LeadBits(lead) + (tail[1] - 128)) + (tail[2] - 128)
  /\ Len(tail) = 3 => CodeOf(lead, tail) =
       64 * (64 * (64 * LeadBits(lead) + (tail[1] - 128)) + (tail[2] - 128)) + (tail[3] - 128)

\* It is computed from the left, the own bits of the leading byte first.
LEMMA CodeOfIs ==
  ASSUME NEW lead, LeadBits(lead) \in Int, NEW tail \in Seq(Byte), Len(tail) \in 0..3,
         \A m \in 1..Len(tail) : Continuation(tail[m])
  PROVE  OfCode(lead, tail)
<1> DEFINE a == LeadBits(lead)
           b == 64 * a + (tail[1] % 64)
           c == 64 * b + (tail[2] % 64)
           d == 64 * c + (tail[3] % 64)
           g == [m \in 0..Len(tail) |-> IF m = 0 THEN a ELSE IF m = 1 THEN b ELSE IF m = 2 THEN c ELSE d]
<1>1. \A m \in 1..Len(tail) : tail[m] \in Nat /\ tail[m] % 64 = tail[m] - 128
  <2>1. \A m \in 1..Len(tail) : tail[m] \in Byte OBVIOUS
  <2> QED BY <2>1, ContinuationIs
<1>2. \E f : IsFirst(f, lead, tail)
  <2>1. ASSUME NEW m \in 0..Len(tail)
        PROVE  g[m] = IF m = 0 THEN a ELSE 64 * g[m - 1] + (tail[m] % 64)
    <3> HIDE DEF a
    <3>1. CASE m = 0 BY <3>1
    <3>2. CASE m = 1 BY <3>2
    <3>3. CASE m = 2 BY <3>3
    <3>4. CASE m = 3 BY <3>4
    <3> QED BY <3>1, <3>2, <3>3, <3>4
  <2>2. g = [m \in 0..Len(tail) |-> IF m = 0 THEN a ELSE 64 * g[m - 1] + (tail[m] % 64)]
    <3> HIDE DEF a, b, c, d
    <3> QED BY <2>1
  <2>3. IsFirst(g, lead, tail) BY <2>2 DEF IsFirst
  <2> QED BY <2>3
<1> DEFINE f == CHOOSE h : IsFirst(h, lead, tail)
<1>3. IsFirst(f, lead, tail) BY <1>2, Zenon
<1>4. CodeOf(lead, tail) = f[Len(tail)] BY DEF CodeOf, IsFirst
<1> HIDE DEF f
<1>5. \A m \in 0..Len(tail) : f[m] = IF m = 0 THEN a ELSE 64 * f[m - 1] + (tail[m] % 64)
  BY <1>3 DEF IsFirst
<1>6. f[0] = a BY <1>5
<1>7. Len(tail) >= 1 => f[1] = 64 * f[0] + (tail[1] - 128)
  <2>1. Len(tail) >= 1 => f[1] = 64 * f[0] + (tail[1] % 64) BY <1>5
  <2> QED BY <1>1, <2>1
<1>8. Len(tail) >= 2 => f[2] = 64 * f[1] + (tail[2] - 128)
  <2>1. Len(tail) >= 2 => f[2] = 64 * f[1] + (tail[2] % 64) BY <1>5
  <2> QED BY <1>1, <2>1
<1>9. Len(tail) >= 3 => f[3] = 64 * f[2] + (tail[3] - 128)
  <2>1. Len(tail) >= 3 => f[3] = 64 * f[2] + (tail[3] % 64) BY <1>5
  <2> QED BY <1>1, <2>1
<1> HIDE DEF b, c, d, g
<1>10. CASE Len(tail) = 0 BY <1>4, <1>6, <1>10 DEF OfCode
<1>11. CASE Len(tail) = 1
  <2>1. CodeOf(lead, tail) = 64 * LeadBits(lead) + (tail[1] - 128) BY <1>4, <1>6, <1>7, <1>11
  <2> QED BY <1>11, <2>1 DEF OfCode
<1>12. CASE Len(tail) = 2
  <2>1. CodeOf(lead, tail) = 64 * (64 * LeadBits(lead) + (tail[1] - 128)) + (tail[2] - 128)
    BY <1>4, <1>6, <1>7, <1>8, <1>12
  <2> QED BY <1>12, <2>1 DEF OfCode
<1>13. CASE Len(tail) = 3
  <2>1. CodeOf(lead, tail) =
          64 * (64 * (64 * LeadBits(lead) + (tail[1] - 128)) + (tail[2] - 128)) + (tail[3] - 128)
    BY <1>4, <1>6, <1>7, <1>8, <1>9, <1>13
  <2> QED BY <1>13, <2>1 DEF OfCode
<1> QED BY <1>10, <1>11, <1>12, <1>13 DEF OfCode

\* s is the form of the code in it.
Formed(s) == CodeIn(s) >= 0 /\ s = Form(Len(s), CodeIn(s))

\* What division leaves of a code of up to four digits of six bits.
LEMMA SixBits ==
  ASSUME NEW a \in Nat, NEW x \in Nat, NEW y \in Nat, NEW z \in Nat, x < 64, y < 64, z < 64
  PROVE  /\ (64 * a + z) \div 64 = a /\ (64 * a + z) % 64 = z
         /\ (64 * (64 * a + y) + z) \div 4096 = a
         /\ (64 * (64 * a + y) + z) \div 64 = 64 * a + y
         /\ (64 * (64 * a + y) + z) % 64 = z
         /\ (64 * (64 * (64 * a + x) + y) + z) \div 262144 = a
         /\ (64 * (64 * (64 * a + x) + y) + z) \div 4096 = 64 * a + x
         /\ (64 * (64 * (64 * a + x) + y) + z) \div 64 = 64 * (64 * a + x) + y
         /\ (64 * (64 * (64 * a + x) + y) + z) % 64 = z
<1>1. PICK b \in Nat : b = 64 * a + y OBVIOUS
<1>2. PICK c \in Nat : c = 64 * (64 * a + x) + y OBVIOUS
<1>3. PICK d \in Nat : d = 64 * a + x OBVIOUS
<1>4. \A q \in Nat : (64 * q + z) \div 64 = q /\ (64 * q + z) % 64 = z BY BySixtyFour, SMT
<1>5. 64 * y + z \in Nat /\ 64 * y + z < 4096 OBVIOUS
<1>6. 4096 * x + 64 * y + z \in Nat /\ 4096 * x + 64 * y + z < 262144 BY SMT
<1>7. (4096 * a + (64 * y + z)) \div 4096 = a BY <1>5, BySixtyFour, SMT
<1>8. (4096 * d + (64 * y + z)) \div 4096 = d BY <1>5, BySixtyFour, SMT
<1>9. (262144 * a + (4096 * x + 64 * y + z)) \div 262144 = a BY <1>6, BySixtyFour, SMT
<1>10. 64 * (64 * a + y) + z = 4096 * a + (64 * y + z) BY SMT
<1>11. 64 * (64 * (64 * a + x) + y) + z = 4096 * d + (64 * y + z) BY <1>3, SMT
<1>12. 64 * (64 * (64 * a + x) + y) + z = 262144 * a + (4096 * x + 64 * y + z) BY SMT
<1>13. (64 * a + z) \div 64 = a /\ (64 * a + z) % 64 = z BY <1>4
<1>14. (64 * b + z) \div 64 = b /\ (64 * b + z) % 64 = z BY <1>4
<1>15. (64 * c + z) \div 64 = c /\ (64 * c + z) % 64 = z BY <1>4
<1>16. (64 * (64 * a + y) + z) \div 4096 = a BY <1>7, <1>10, SMT
<1>17. (64 * (64 * (64 * a + x) + y) + z) \div 4096 = 64 * a + x BY <1>3, <1>8, <1>11, SMT
<1>18. (64 * (64 * (64 * a + x) + y) + z) \div 262144 = a BY <1>9, <1>12, SMT
<1> QED BY ONLY <1>1, <1>2, <1>13, <1>14, <1>15, <1>16, <1>17, <1>18, SMT

\* The forms of such a code.
FormsAre(a, x, y, z) ==
  /\ Form(1, a) = <<a>>
  /\ Form(2, 64 * a + z) = <<192 + a, 128 + z>>
  /\ Form(3, 64 * (64 * a + y) + z) = <<224 + a, 128 + y, 128 + z>>
  /\ Form(4, 64 * (64 * (64 * a + x) + y) + z) = <<240 + a, 128 + x, 128 + y, 128 + z>>

\* Each is computed by division.
LEMMA FormOfBits ==
  ASSUME NEW a \in Nat, NEW x \in Nat, NEW y \in Nat, NEW z \in Nat, x < 64, y < 64, z < 64
  PROVE  FormsAre(a, x, y, z)
<1>1. Lead[1] = 0 /\ Lead[2] = 192 /\ Lead[3] = 224 /\ Lead[4] = 240 BY DEF Lead
<1>2. Weight[1] = 1 /\ Weight[2] = 64 /\ Weight[3] = 4096 /\ Weight[4] = 262144 BY SMT DEF Weight
<1>3. \A q \in Nat : q \div 1 = q OBVIOUS
<1>4. Form(1, a) = <<a>>
  <2>1. Form(1, a)[1] = a BY <1>1, <1>2, <1>3, SMT DEF Form
  <2> QED BY <2>1, SMT DEF Form
<1>5. Form(2, 64 * a + z) = <<192 + a, 128 + z>>
  <2>1. PICK c \in Nat : c = 64 * a + z BY SMT
  <2>2. c \div 64 = a /\ c % 64 = z BY <2>1, SixBits, SMT
  <2>3. c \div 1 = c BY <1>3
  <2>4. Form(2, c)[1] = 192 + a BY <1>1, <1>2, <2>2, SMT DEF Form
  <2>5. Form(2, c)[2] = 128 + z BY <1>2, <2>2, <2>3, SMT DEF Form
  <2>6. Form(2, c) = <<192 + a, 128 + z>> BY <2>4, <2>5, SMT DEF Form
  <2> QED BY <2>1, <2>6
<1>6. Form(3, 64 * (64 * a + y) + z) = <<224 + a, 128 + y, 128 + z>>
  <2>1. PICK c \in Nat, d \in Nat : c = 64 * (64 * a + y) + z /\ d = 64 * a + y BY SMT
  <2>2. c \div 4096 = a /\ c \div 64 = d /\ c % 64 = z BY <2>1, SixBits, SMT
  <2>3. c \div 1 = c /\ d % 64 = y BY <1>3, <2>1, SixBits, SMT
  <2>4. Form(3, c)[1] = 224 + a BY <1>1, <1>2, <2>2, SMT DEF Form
  <2>5. Form(3, c)[2] = 128 + y BY <1>2, <2>2, <2>3, SMT DEF Form
  <2>6. Form(3, c)[3] = 128 + z BY <1>2, <2>2, <2>3, SMT DEF Form
  <2>7. Form(3, c) = <<224 + a, 128 + y, 128 + z>> BY <2>4, <2>5, <2>6, SMT DEF Form
  <2> QED BY <2>1, <2>7
<1>7. Form(4, 64 * (64 * (64 * a + x) + y) + z) = <<240 + a, 128 + x, 128 + y, 128 + z>>
  <2>1. PICK c \in Nat, d \in Nat, e \in Nat :
          c = 64 * (64 * (64 * a + x) + y) + z /\ d = 64 * (64 * a + x) + y /\ e = 64 * a + x
    BY SMT
  <2>2. c \div 262144 = a /\ c \div 4096 = e /\ c \div 64 = d /\ c % 64 = z BY <2>1, SixBits, SMT
  <2>3. d % 64 = y
    <3>1. d = 64 * e + y BY <2>1
    <3> QED BY <3>1, BySixtyFour, SMT
  <2>4. c \div 1 = c /\ e % 64 = x
    <3>1. e = 64 * a + x BY <2>1
    <3> QED BY <1>3, <3>1, BySixtyFour, SMT
  <2>5. Form(4, c)[1] = 240 + a BY <1>1, <1>2, <2>2, SMT DEF Form
  <2>6. Form(4, c)[2] = 128 + x BY <1>2, <2>2, <2>4, SMT DEF Form
  <2>7. Form(4, c)[3] = 128 + y BY <1>2, <2>2, <2>3, SMT DEF Form
  <2>8. Form(4, c)[4] = 128 + z BY <1>2, <2>2, <2>4, SMT DEF Form
  <2>9. Form(4, c) = <<240 + a, 128 + x, 128 + y, 128 + z>> BY <2>5, <2>6, <2>7, <2>8, SMT DEF Form
  <2> QED BY <2>1, <2>9
<1> QED BY <1>4, <1>5, <1>6, <1>7 DEF FormsAre

\* Bytes are the form of a code if those behind the first are continuations,
\* and the first one is none of a shorter form.
LEMMA FormIs ==
  ASSUME NEW s \in Seq(Byte), Len(s) \in 1..4
  PROVE  Formed(s) <=> s[1] >= Lead[Len(s)] /\ \A m \in 2..Len(s) : Continuation(s[m])
<1>1. \A m \in 1..Len(s) : /\ s[m] \in Nat /\ s[m] <= 255
                           /\ Continuation(s[m]) <=> 128 <= s[m] /\ s[m] <= 191
  <2>1. \A m \in 1..Len(s) : s[m] \in Byte OBVIOUS
  <2> QED BY <2>1, ContinuationIs
<1>2. Lead[1] = 0 /\ Lead[2] = 192 /\ Lead[3] = 224 /\ Lead[4] = 240 BY DEF Lead
<1>3. Weight[1] = 1 /\ Weight[2] = 64 /\ Weight[3] = 4096 /\ Weight[4] = 262144 BY SMT DEF Weight
<1>4. PICK c : c = CodeIn(s) OBVIOUS
<1>5. c \in Int BY <1>4, CodeInIs, SMT DEF InCode
<1>6. c \in Nat => \A m \in 1..4 : c \div Weight[m] \in Nat /\ (c \div Weight[m]) % 64 \in Nat
                                    /\ (c \div Weight[m]) % 64 < 64
  <2>1. SUFFICES ASSUME c \in Nat, NEW m \in 1..4
                 PROVE  c \div Weight[m] \in Nat /\ (c \div Weight[m]) % 64 \in Nat
                        /\ (c \div Weight[m]) % 64 < 64
    OBVIOUS
  <2>2. PICK w \in Nat : w = Weight[m] /\ w > 0 BY <1>3, SMT
  <2>3. PICK q : q = c \div w OBVIOUS
  <2>4. q \in Nat BY <2>1, <2>2, <2>3
  <2> QED BY <2>2, <2>3, <2>4
<1>7. Formed(s) => s[1] >= Lead[Len(s)] /\ \A m \in 2..Len(s) : Continuation(s[m])
  <2>1. SUFFICES ASSUME Formed(s)
                 PROVE  s[1] >= Lead[Len(s)] /\ \A m \in 2..Len(s) : Continuation(s[m])
    OBVIOUS
  <2>2. c \in Nat BY <1>4, <1>5, <2>1 DEF Formed
  <2>3. s = Form(Len(s), c) BY <1>4, <2>1 DEF Formed
  <2>4. \A m \in 1..Len(s) : s[m] = IF m = 1 THEN Lead[Len(s)] + (c \div Weight[Len(s)])
                                    ELSE 128 + ((c \div Weight[Len(s) - m + 1]) % 64)
    BY <2>3, SMT DEF Form
  <2>5. s[1] >= Lead[Len(s)]
    <3>1. s[1] = Lead[Len(s)] + (c \div Weight[Len(s)]) BY <2>4
    <3>2. c \div Weight[Len(s)] \in Nat BY <1>6, <2>2
    <3>3. \A n \in 1..4 : Lead[n] \in Nat BY <1>2
    <3>4. Lead[Len(s)] \in Nat BY <3>3
    <3> QED BY <3>1, <3>2, <3>4
  <2>6. ASSUME NEW m \in 2..Len(s) PROVE Continuation(s[m])
    <3>1. Len(s) - m + 1 \in 1..4
      <4>1. PICK k \in 1..4 : k = Len(s) OBVIOUS
      <4>2. m \in 2..k BY <2>6, <4>1
      <4>3. k - m + 1 \in 1..4 BY ONLY <4>2
      <4> QED BY <4>1, <4>3
    <3>2. PICK r : r = (c \div Weight[Len(s) - m + 1]) % 64 OBVIOUS
    <3>3. r \in Nat /\ r < 64 BY <1>6, <2>2, <3>1, <3>2
    <3>4. m \in 1..Len(s) /\ m # 1 OBVIOUS
    <3>5. s[m] = 128 + r BY <2>4, <3>2, <3>4
    <3> QED BY <1>1, <3>3, <3>4, <3>5
  <2> QED BY <2>5, <2>6
<1>8. ASSUME s[1] >= Lead[Len(s)], \A m \in 2..Len(s) : Continuation(s[m]) PROVE Formed(s)
  <2>1. \A m \in 2..Len(s) : s[m] - 128 \in Nat /\ s[m] - 128 < 64 BY <1>1, <1>8
  <2>2. s[1] \in Nat BY <1>1
  <2>3. PICK w \in Nat, x \in Nat, y \in Nat, z \in Nat :
          /\ x < 64 /\ y < 64 /\ z < 64 /\ w = s[1] - Lead[Len(s)]
          /\ Len(s) = 4 => x = s[2] - 128
          /\ Len(s) >= 3 => y = s[Len(s) - 1] - 128
          /\ Len(s) >= 2 => z = s[Len(s)] - 128
    <3>1. s[1] - Lead[Len(s)] \in Nat
      <4>1. \A n \in 1..4 : Lead[n] \in Nat BY <1>2
      <4>2. Lead[Len(s)] \in Nat BY <4>1
      <4> QED BY <1>8, <2>2, <4>2
    <3>2. \A m \in 1..Len(s) : \E v \in Nat : v < 64 /\ (m >= 2 => v = s[m] - 128)
      <4>1. SUFFICES ASSUME NEW m \in 1..Len(s) PROVE \E v \in Nat : v < 64 /\ (m >= 2 => v = s[m] - 128)
        OBVIOUS
      <4>2. CASE m >= 2 BY <2>1, <4>2
      <4>3. CASE ~(m >= 2) BY <4>3
      <4> QED BY <4>2, <4>3
    <3>3. \E x \in Nat : x < 64 /\ (Len(s) = 4 => x = s[2] - 128)
      <4>1. CASE Len(s) = 4 BY <3>2, <4>1
      <4>2. CASE Len(s) # 4 BY <4>2
      <4> QED BY <4>1, <4>2
    <3>4. \E y \in Nat : y < 64 /\ (Len(s) >= 3 => y = s[Len(s) - 1] - 128)
      <4>1. CASE Len(s) >= 3 BY <3>2, <4>1
      <4>2. CASE ~(Len(s) >= 3) BY <4>2
      <4> QED BY <4>1, <4>2
    <3>5. \E z \in Nat : z < 64 /\ (Len(s) >= 2 => z = s[Len(s)] - 128)
      <4>1. CASE Len(s) >= 2 BY <3>2, <4>1
      <4>2. CASE ~(Len(s) >= 2) BY <4>2
      <4> QED BY <4>1, <4>2
    <3> QED BY <3>1, <3>3, <3>4, <3>5
  <2>4. FormsAre(w, x, y, z)
    <3>1. x < 64 /\ y < 64 /\ z < 64 BY <2>3
    <3> QED BY <3>1, FormOfBits, Zenon
  <2>5. CASE Len(s) = 1
    <3>1. s[1] = w BY <1>2, <2>2, <2>3, <2>5
    <3>2. s = <<w>> BY <2>5, <3>1
    <3>3. CodeIn(s) = w BY <2>5, <3>1, CodeInIs DEF InCode
    <3>4. Form(1, w) = <<w>> BY <2>4 DEF FormsAre
    <3> QED BY <2>5, <3>2, <3>3, <3>4 DEF Formed
  <2>6. CASE Len(s) = 2
    <3>1. s[1] = 192 + w /\ s[2] = 128 + z
      <4>1. w = s[1] - 192 /\ z = s[2] - 128 BY <1>2, <2>3, <2>6
      <4>2. s[1] \in Nat /\ s[2] \in Nat BY <1>1, <2>6
      <4>3. w \in Int /\ z \in Int OBVIOUS
      <4> QED BY ONLY <4>1, <4>2, <4>3, SMT
    <3>2. s = <<192 + w, 128 + z>> BY <2>6, <3>1
    <3>3. CodeIn(s) = 64 * (s[1] - 192) + (s[2] - 128) BY <2>6, CodeInIs, SMT DEF InCode
    <3>4. CodeIn(s) = 64 * w + z BY <3>1, <3>3, SMT
    <3>5. Form(2, 64 * w + z) = <<192 + w, 128 + z>> BY <2>4 DEF FormsAre
    <3>6. 64 * w + z >= 0 OBVIOUS
    <3> QED BY <2>6, <3>2, <3>4, <3>5, <3>6 DEF Formed
  <2>7. CASE Len(s) = 3
    <3>1. s[1] = 224 + w /\ s[2] = 128 + y /\ s[3] = 128 + z
      <4>1. w = s[1] - 224 /\ y = s[2] - 128 /\ z = s[3] - 128 BY <1>2, <2>3, <2>7
      <4>2. s[1] \in Nat /\ s[2] \in Nat /\ s[3] \in Nat BY <1>1, <2>7
      <4>3. s[1] = 224 + w
        <5>1. w \in Int OBVIOUS
        <5>2. PICK p \in Nat : p = s[1] BY <4>2
        <5>3. w = p - 224 BY <4>1, <5>2
        <5>4. p = 224 + w BY ONLY <5>1, <5>3, p \in Nat
        <5> QED BY <5>2, <5>4
      <4>4. s[2] = 128 + y BY <4>1, <4>2
      <4>5. s[3] = 128 + z BY <4>1, <4>2
      <4> QED BY <4>3, <4>4, <4>5
    <3>2. s = <<224 + w, 128 + y, 128 + z>> BY <2>7, <3>1
    <3>3. CodeIn(s) = 64 * (64 * (s[1] - 224) + (s[2] - 128)) + (s[3] - 128) BY <2>7, CodeInIs, SMT DEF InCode
    <3>4. CodeIn(s) = 64 * (64 * w + y) + z BY <3>1, <3>3, SMT
    <3>5. Form(3, 64 * (64 * w + y) + z) = <<224 + w, 128 + y, 128 + z>> BY <2>4 DEF FormsAre
    <3>6. 64 * (64 * w + y) + z >= 0 OBVIOUS
    <3> QED BY <2>7, <3>2, <3>4, <3>5, <3>6 DEF Formed
  <2>8. CASE Len(s) = 4
    <3>1. s[1] = 240 + w /\ s[2] = 128 + x /\ s[3] = 128 + y /\ s[4] = 128 + z
      <4>1. w = s[1] - 240 /\ x = s[2] - 128 /\ y = s[3] - 128 /\ z = s[4] - 128
        BY <1>2, <2>3, <2>8
      <4>2. s[1] \in Nat /\ s[2] \in Nat /\ s[3] \in Nat /\ s[4] \in Nat BY <1>1, <2>8
      <4>3. s[1] = 240 + w
        <5>1. w \in Int OBVIOUS
        <5>2. PICK p \in Nat : p = s[1] BY <4>2
        <5>3. w = p - 240 BY <4>1, <5>2
        <5>4. p = 240 + w BY ONLY <5>1, <5>3, p \in Nat
        <5> QED BY <5>2, <5>4
      <4>4. s[2] = 128 + x
        <5>1. x \in Int OBVIOUS
        <5>2. PICK p \in Nat : p = s[2] BY <4>2
        <5>3. x = p - 128 BY <4>1, <5>2
        <5>4. p = 128 + x BY ONLY <5>1, <5>3, p \in Nat
        <5> QED BY <5>2, <5>4
      <4>5. s[3] = 128 + y BY <4>1, <4>2
      <4>6. s[4] = 128 + z BY <4>1, <4>2
      <4> QED BY <4>3, <4>4, <4>5, <4>6
    <3>2. s = <<240 + w, 128 + x, 128 + y, 128 + z>> BY <2>8, <3>1
    <3>3. CodeIn(s) = 64 * (64 * (64 * (s[1] - 240) + (s[2] - 128)) + (s[3] - 128)) + (s[4] - 128)
      BY <2>8, CodeInIs, SMT DEF InCode
    <3>4. CodeIn(s) = 64 * (64 * (64 * w + x) + y) + z BY <3>1, <3>3, SMT
    <3>5. Form(4, 64 * (64 * (64 * w + x) + y) + z) = <<240 + w, 128 + x, 128 + y, 128 + z>>
      BY <2>4 DEF FormsAre
    <3>6. 64 * (64 * (64 * w + x) + y) + z >= 0 OBVIOUS
    <3> QED BY <2>8, <3>2, <3>4, <3>5, <3>6 DEF Formed
  <2> QED BY <2>5, <2>6, <2>7, <2>8
<1> QED BY <1>7, <1>8

\* The codes of a form whose first byte the validators take for one of its
\* length.
OfLength(n, c) ==
  /\ n = 1 => c < 128
  /\ n = 2 => 128 <= c /\ c < 2048
  /\ n = 3 => c < 65536
  /\ n = 4 => c < 2097152

\* Forms by the bits of their bytes.
Bits(s, a, x, y, z) ==
  /\ x < 64 /\ y < 64 /\ z < 64 /\ CodeIn(s) \in Nat
  /\ Len(s) = 1 => s[1] = a /\ CodeIn(s) = a
  /\ Len(s) = 2 => s[1] = 192 + a /\ s[2] = 128 + z /\ CodeIn(s) = 64 * a + z
  /\ Len(s) = 3 => /\ s[1] = 224 + a /\ s[2] = 128 + y /\ s[3] = 128 + z
                   /\ CodeIn(s) = 4096 * a + 64 * y + z
  /\ Len(s) = 4 => /\ s[1] = 240 + a /\ s[2] = 128 + x /\ s[3] = 128 + y /\ s[4] = 128 + z
                   /\ CodeIn(s) = 262144 * a + 4096 * x + 64 * y + z

\* The bytes of a form are its bits behind a mark each.
LEMMA FormedBits ==
  ASSUME NEW s \in Seq(Byte), Len(s) \in 1..4, Formed(s)
  PROVE  \E a \in Nat, x \in Nat, y \in Nat, z \in Nat : Bits(s, a, x, y, z)
<1>1. s[1] >= Lead[Len(s)] /\ \A m \in 2..Len(s) : Continuation(s[m]) BY FormIs
<1>2. CodeIn(s) \in Nat
  <2>1. CodeIn(s) \in Int BY CodeInIs DEF InCode
  <2> QED BY <2>1 DEF Formed
<1>3. \A m \in 1..Len(s) : s[m] \in Nat
  <2>1. \A m \in 1..Len(s) : s[m] \in Byte OBVIOUS
  <2> QED BY <2>1, ContinuationIs
<1>4. \A m \in 2..Len(s) : \E v \in Nat : v < 64 /\ s[m] = 128 + v
  <2>1. SUFFICES ASSUME NEW m \in 2..Len(s) PROVE \E v \in Nat : v < 64 /\ s[m] = 128 + v
    OBVIOUS
  <2>2. s[m] \in Byte OBVIOUS
  <2>3. s[m] \in Nat /\ 128 <= s[m] /\ s[m] <= 191 BY <1>1, <2>2, ContinuationIs
  <2>4. s[m] - 128 \in Nat /\ s[m] - 128 < 64 /\ s[m] = 128 + (s[m] - 128) BY <2>3
  <2> QED BY <2>4
<1>5. 0 \in Nat /\ 0 < 64 OBVIOUS
<1>6. CASE Len(s) = 1
  <2>1. CodeIn(s) = s[1] BY <1>6, CodeInIs, SMT DEF InCode
  <2>2. s[1] \in Nat BY <1>3, <1>6
  <2>3. Bits(s, s[1], 0, 0, 0) BY <1>2, <1>6, <2>1, <2>2, SMT DEF Bits
  <2> QED BY <1>5, <2>2, <2>3
<1>7. CASE Len(s) = 2
  <2>1. PICK z \in Nat : z < 64 /\ s[2] = 128 + z BY <1>4, <1>7
  <2>2. s[1] \in Nat /\ s[1] >= 192 BY <1>1, <1>3, <1>7 DEF Lead
  <2>3. PICK a \in Nat : s[1] = 192 + a
    <3>1. s[1] - 192 \in Nat /\ s[1] = 192 + (s[1] - 192) BY <2>2
    <3> QED BY <3>1
  <2>4. CodeIn(s) = 64 * (s[1] - 192) + (s[2] - 128) BY <1>7, CodeInIs, SMT DEF InCode
  <2>5. CodeIn(s) = 64 * a + z BY <2>1, <2>3, <2>4, SMT
  <2>6. Bits(s, a, 0, 0, z) BY <1>2, <1>7, <2>1, <2>3, <2>5, SMT DEF Bits
  <2> QED BY <1>5, <2>6
<1>8. CASE Len(s) = 3
  <2>1. PICK y \in Nat : y < 64 /\ s[2] = 128 + y BY <1>4, <1>8
  <2>2. PICK z \in Nat : z < 64 /\ s[3] = 128 + z BY <1>4, <1>8
  <2>3. s[1] \in Nat /\ s[1] >= 224 BY <1>1, <1>3, <1>8 DEF Lead
  <2>4. PICK a \in Nat : s[1] = 224 + a
    <3>1. s[1] - 224 \in Nat /\ s[1] = 224 + (s[1] - 224) BY <2>3
    <3> QED BY <3>1
  <2>5. CodeIn(s) = 64 * (64 * (s[1] - 224) + (s[2] - 128)) + (s[3] - 128) BY <1>8, CodeInIs, SMT DEF InCode
  <2>6. CodeIn(s) = 4096 * a + 64 * y + z BY <2>1, <2>2, <2>4, <2>5, SMT
  <2>7. Bits(s, a, 0, y, z) BY <1>2, <1>8, <2>1, <2>2, <2>4, <2>6, SMT DEF Bits
  <2> QED BY <1>5, <2>7
<1>9. CASE Len(s) = 4
  <2>1. PICK x \in Nat : x < 64 /\ s[2] = 128 + x BY <1>4, <1>9
  <2>2. PICK y \in Nat : y < 64 /\ s[3] = 128 + y BY <1>4, <1>9
  <2>3. PICK z \in Nat : z < 64 /\ s[4] = 128 + z BY <1>4, <1>9
  <2>4. s[1] \in Nat /\ s[1] >= 240 BY <1>1, <1>3, <1>9 DEF Lead
  <2>5. PICK a \in Nat : s[1] = 240 + a
    <3>1. s[1] - 240 \in Nat /\ s[1] = 240 + (s[1] - 240) BY <2>4
    <3> QED BY <3>1
  <2>6. CodeIn(s) = 64 * (64 * (64 * (s[1] - 240) + (s[2] - 128)) + (s[3] - 128)) + (s[4] - 128)
    BY <1>9, CodeInIs, SMT DEF InCode
  <2>7. CodeIn(s) = 262144 * a + 4096 * x + 64 * y + z BY <2>1, <2>2, <2>3, <2>5, <2>6, SMT
  <2>8. Bits(s, a, x, y, z) BY <1>2, <1>9, <2>1, <2>2, <2>3, <2>5, <2>7, SMT DEF Bits
  <2> QED BY <2>8
<1> QED BY <1>6, <1>7, <1>8, <1>9

\* The first byte tells the length.
LEMMA LengthIs ==
  ASSUME NEW s \in Seq(Byte), Len(s) \in 1..4, Formed(s)
  PROVE  SeqLen(s[1]) = Len(s) - 1 <=> OfLength(Len(s), CodeIn(s))
<1>1. PICK a \in Nat, x \in Nat, y \in Nat, z \in Nat : Bits(s, a, x, y, z) BY FormedBits, Zenon
<1>2. /\ x < 64 /\ y < 64 /\ z < 64 /\ CodeIn(s) \in Nat
      /\ Len(s) = 1 => s[1] = a /\ CodeIn(s) = a
      /\ Len(s) = 2 => s[1] = 192 + a /\ CodeIn(s) = 64 * a + z
      /\ Len(s) = 3 => s[1] = 224 + a /\ CodeIn(s) = 4096 * a + 64 * y + z
      /\ Len(s) = 4 => s[1] = 240 + a /\ CodeIn(s) = 262144 * a + 4096 * x + 64 * y + z
  BY <1>1, SMT DEF Bits
<1>3. PICK p \in Byte : p = s[1] OBVIOUS
<1>4. p \in Nat BY ContinuationIs
<1>5. /\ SeqLen(p) = 0 <=> p \in 0..127
      /\ SeqLen(p) = 1 <=> p \in 194..223
      /\ SeqLen(p) = 2 <=> p \in 224..239
      /\ SeqLen(p) = 3 <=> p \in 240..247
  BY SeqLenOf, SMT
<1>6. CASE Len(s) = 1
  <2>1. p \in 0..127 <=> a < 128
    <3>1. p = a BY <1>2, <1>3, <1>6
    <3> QED BY <3>1
  <2> QED BY <1>2, <1>3, <1>5, <1>6, <2>1, SMT DEF OfLength
<1>7. CASE Len(s) = 2
  <2>1. p \in 194..223 <=> 2 <= a /\ a < 32
    <3>1. p = 192 + a BY <1>2, <1>3, <1>7
    <3> QED BY <3>1
  <2>2. 2 <= a /\ a < 32 <=> 128 <= 64 * a + z /\ 64 * a + z < 2048 BY <1>2, SMT
  <2> QED BY <1>2, <1>3, <1>5, <1>7, <2>1, <2>2, SMT DEF OfLength
<1>8. CASE Len(s) = 3
  <2>1. p \in 224..239 <=> a < 16
    <3>1. p = 224 + a BY <1>2, <1>3, <1>8
    <3> QED BY <3>1
  <2>2. a < 16 <=> 4096 * a + 64 * y + z < 65536 BY <1>2, SMT
  <2> QED BY <1>2, <1>3, <1>5, <1>8, <2>1, <2>2, SMT DEF OfLength
<1>9. CASE Len(s) = 4
  <2>1. p \in 240..247 <=> a < 8
    <3>1. p = 240 + a BY <1>2, <1>3, <1>9
    <3> QED BY <3>1
  <2>2. a < 8 <=> 262144 * a + 4096 * x + 64 * y + z < 2097152 BY <1>2, SMT
  <2> QED BY <1>2, <1>3, <1>5, <1>9, <2>1, <2>2, SMT DEF OfLength
<1> QED BY <1>6, <1>7, <1>8, <1>9

\* The tests of validUTF8Text leave what has to be accepted, and no more than
\* what may be.
LEMMA TestsLeave ==
  ASSUME NEW n \in 1..4, NEW c \in Nat
  PROVE  /\ Sure(n, c) => OfLength(n, c) /\ ~Overlong(n - 1, c) /\ TextCode(c)
         /\ OfLength(n, c) /\ ~Overlong(n - 1, c) /\ TextCode(c) => Possible(n, c)
<1>1. PICK r \in Nat : r = c % 65536 BY SMT
<1>2. /\ r < 65536 /\ r <= c
      /\ c < 65536 => r = c
  BY <1>1, SMT
<1> DEFINE Low == c = 9 \/ c = 10 \/ c = 13
           Mid == c >= 32 /\ (c < 127 \/ c > 159)
           High == /\ c < 55296 \/ c > 57343
                   /\ c < 64976 \/ c > 65007
                   /\ c < 8203 \/ c > 8207
                   /\ c < 8234 \/ c > 8238
                   /\ c < 983040
           Odd == 4094 <= r /\ r <= 4095
           AtEnd == 65534 <= r /\ r <= 65535
           Plain == (Low \/ Mid) /\ High
           Long == Shortest(n, c) \/ (n = 4 /\ c >= 4096 /\ c < 65536)
           Others == {k \in {3} : n = 4 /\ c >= 4096}
<1>3. r \div 2 # 2047 <=> ~Odd
  <2>1. r = 2 * (r \div 2) + (r % 2) /\ r % 2 \in {0, 1} /\ r \div 2 \in Nat OBVIOUS
  <2> QED BY <2>1, SMT
<1>4. TextCode(c) <=> Plain /\ ~Odd
  <2>1. Low => High /\ ~Odd BY <1>2, SMT
  <2>2. TextCode(c) <=> Low \/ (Mid /\ High /\ ~Odd)
    BY <1>1, <1>3, SMT DEF TextCode, Invisible
  <2> HIDE DEF Low, Mid, High, Odd
  <2> QED BY <2>1, <2>2
<1>5. ASSUME NEW m PROVE Claimed(m, c) <=> Shortest(m, c) /\ Plain /\ ~AtEnd
  <2>1. Claimed(m, c) <=> Shortest(m, c) /\ (Low \/ Mid) /\ High /\ ~AtEnd
    <3>1. Noncharacter(c) <=> AtEnd \/ (64976 <= c /\ c <= 65007) BY <1>1, SMT DEF Noncharacter
    <3>2. Surrogate(c) <=> 55296 <= c /\ c <= 57343 BY SMT DEF Surrogate
    <3>3. c \in Invisible <=> (8203 <= c /\ c <= 8207) \/ (8234 <= c /\ c <= 8238)
      BY SMT DEF Invisible
    <3>4. c < 15 * 65536 <=> c < 983040 BY SMT
    <3>5. c \in {9, 10, 13} \/ (c >= 32 /\ c \notin 127..159) <=> Low \/ Mid BY SMT
    <3>6. High <=> /\ ~(64976 <= c /\ c <= 65007) /\ ~(55296 <= c /\ c <= 57343) /\ c < 983040
                   /\ ~((8203 <= c /\ c <= 8207) \/ (8234 <= c /\ c <= 8238))
      BY SMT
    <3>7. Claimed(m, c) <=> /\ Shortest(m, c)
                            /\ c \in {9, 10, 13} \/ (c >= 32 /\ c \notin 127..159)
                            /\ ~Surrogate(c) /\ ~Noncharacter(c) /\ c < 15 * 65536
                            /\ c \notin Invisible
      BY DEF Claimed
    <3> HIDE DEF Low, Mid, High, AtEnd
    <3> QED BY <3>1, <3>2, <3>3, <3>4, <3>5, <3>6, <3>7, SMT
  <2> HIDE DEF Low, Mid, High, AtEnd
  <2> QED BY <2>1
<1>6. Plain => c < 983040 BY SMT
<1>7. Beyond[1] = 128 /\ Beyond[2] = 2048 /\ Beyond[3] = 65536 /\ Beyond[4] = 2097152
  BY SMT DEF Beyond
<1>8. /\ Shortest(1, c) <=> c < 128
      /\ Shortest(2, c) <=> c < 2048 /\ c >= 128
      /\ Shortest(3, c) <=> c < 65536 /\ c >= 2048
      /\ Shortest(4, c) <=> c < 2097152 /\ c >= 65536
  BY <1>7, SMT DEF Shortest
<1>9. Sure(n, c) <=> Shortest(n, c) /\ Plain /\ ~AtEnd /\ ~Odd
  <2>1. Sure(n, c) <=> Claimed(n, c) /\ ~Odd BY <1>1, SMT DEF Sure
  <2>2. Claimed(n, c) <=> Shortest(n, c) /\ Plain /\ ~AtEnd
    <3> HIDE DEF Plain, AtEnd
    <3> QED BY <1>5
  <2> HIDE DEF Plain, Odd, AtEnd
  <2> QED BY <2>1, <2>2, Zenon
<1>10. \A m \in {n} \cup Others : Shortest(m, c) /\ Plain => Possible(n, c)
  <2>1. SUFFICES ASSUME NEW m \in {n} \cup Others, Shortest(m, c), Plain
                 PROVE  Claimed(m, c) \/ (Shortest(m, c) /\ c < 15 * 65536 /\ c % 65536 \in 65534..65535)
    BY DEF Possible
  <2>2. c < 15 * 65536 <=> c < 983040 BY SMT
  <2>3. c % 65536 \in 65534..65535 <=> AtEnd BY <1>1, SMT
  <2>4. Claimed(m, c) <=> Shortest(m, c) /\ Plain /\ ~AtEnd
    <3> HIDE DEF Plain, AtEnd, Others
    <3> QED BY <1>5
  <2> HIDE DEF Plain, AtEnd, Others
  <2> QED BY <1>6, <2>1, <2>2, <2>3, <2>4, SMT
<1>11. Long /\ Plain => Possible(n, c)
  <2>1. CASE Shortest(n, c)
    <3> HIDE DEF Plain, Long, Others
    <3> QED BY <1>10, <2>1
  <2>2. CASE ~Shortest(n, c)
    <3>1. SUFFICES ASSUME Long, Plain PROVE Possible(n, c)
      OBVIOUS
    <3>2. n = 4 /\ c >= 4096 /\ c < 65536 BY <2>2, <3>1
    <3>3. Shortest(3, c) /\ 3 \in Others BY <1>8, <3>2, SMT
    <3> HIDE DEF Plain, Long, Others
    <3> QED BY <1>10, <3>1, <3>3, Zenon
  <2> QED BY <2>1, <2>2
<1>12. Long <=> OfLength(n, c) /\ ~Overlong(n - 1, c)
  <2>1. CASE n = 1 BY <1>8, <2>1, SMT DEF OfLength, Overlong
  <2>2. CASE n = 2 BY <1>8, <2>2, SMT DEF OfLength, Overlong
  <2>3. CASE n = 3 BY <1>8, <2>3, SMT DEF OfLength, Overlong
  <2>4. CASE n = 4 BY <1>8, <2>4, SMT DEF OfLength, Overlong
  <2>5. n = 1 \/ n = 2 \/ n = 3 \/ n = 4 OBVIOUS
  <2> HIDE DEF Long
  <2> QED BY <2>1, <2>2, <2>3, <2>4, <2>5, Zenon
<1>13. Sure(n, c) => Long BY <1>9
<1> HIDE DEF Plain, Long, Odd, AtEnd, Others
<1> QED BY <1>4, <1>9, <1>11, <1>12, <1>13, Zenon

\* What the tests of validUTF8 leave are the scalar values.
LEMMA ScalarIs ==
  ASSUME NEW s \in Seq(Byte), Len(s) \in 1..4, Formed(s)
  PROVE  Scalar(Len(s), CodeIn(s)) <=>
           /\ OfLength(Len(s), CodeIn(s)) /\ s[1] <= 244
           /\ Len(s) > 1 => SecondByte(s[1], s[2])
<1>1. PICK a \in Nat, x \in Nat, y \in Nat, z \in Nat : Bits(s, a, x, y, z) BY FormedBits, Zenon
<1>2. PICK c \in Nat : c = CodeIn(s) BY <1>1 DEF Bits
<1>3. PICK p, q : p = s[1] /\ q = s[2] OBVIOUS
<1>4. Beyond[1] = 128 /\ Beyond[2] = 2048 /\ Beyond[3] = 65536 /\ Beyond[4] = 2097152
  BY SMT DEF Beyond
<1>5. x < 64 /\ y < 64 /\ z < 64 BY <1>1 DEF Bits
<1>6. Surrogate(c) <=> 55296 <= c /\ c <= 57343 BY SMT DEF Surrogate
<1>7. c < 17 * 65536 <=> c < 1114112 BY SMT
<1>8. CASE Len(s) = 1
  <2>1. p = c
    <3>1. s[1] = a /\ CodeIn(s) = a BY <1>1, <1>8, SMT DEF Bits
    <3> QED BY <1>2, <1>3, <3>1
  <2>2. Scalar(1, c) <=> c < 128 BY <1>4, <1>6, <1>7, SMT DEF Scalar, Shortest
  <2>3. OfLength(1, c) /\ p <= 244 <=> c < 128 BY <2>1, SMT DEF OfLength
  <2> QED BY <1>2, <1>3, <1>8, <2>2, <2>3
<1>9. CASE Len(s) = 2
  <2>1. p = 192 + a /\ q = 128 + z /\ c = 64 * a + z
    <3>1. s[1] = 192 + a /\ s[2] = 128 + z /\ CodeIn(s) = 64 * a + z BY <1>1, <1>9, SMT DEF Bits
    <3> QED BY <1>2, <1>3, <3>1
  <2>2. Scalar(2, c) <=> 128 <= c /\ c < 2048 BY <1>4, <1>6, <1>7, SMT DEF Scalar, Shortest
  <2>3. OfLength(2, c) <=> 128 <= c /\ c < 2048 BY SMT DEF OfLength
  <2>4. OfLength(2, c) => p < 224 BY <1>5, <2>1, <2>3, SMT
  <2>5. p < 224 => p <= 244 /\ SecondByte(p, q)
    <3>1. p < 224 => p <= 244 /\ p # 224 /\ p # 237 /\ p # 240 /\ p # 244 BY <2>1, SMT
    <3> QED BY <3>1 DEF SecondByte
  <2> QED BY <1>2, <1>3, <1>9, <2>2, <2>3, <2>4, <2>5
<1>10. CASE Len(s) = 3
  <2>1. p = 224 + a /\ q = 128 + y /\ c = 4096 * a + 64 * y + z
    <3>1. s[1] = 224 + a /\ s[2] = 128 + y /\ CodeIn(s) = 4096 * a + 64 * y + z
      BY <1>1, <1>10, SMT DEF Bits
    <3> QED BY <1>2, <1>3, <3>1
  <2>2. Scalar(3, c) <=> 2048 <= c /\ c < 65536 /\ ~(55296 <= c /\ c <= 57343)
    BY <1>4, <1>6, <1>7, SMT DEF Scalar, Shortest
  <2>3. OfLength(3, c) <=> c < 65536 BY SMT DEF OfLength
  <2>4. c < 65536 <=> a < 16 BY <1>5, <2>1, SMT
  <2>5. a < 16 => p <= 244 BY <2>1, SMT
  <2>6. CASE a = 0
    <3>1. SecondByte(p, q) <=> y >= 32
      <4>1. p = 224 BY <2>1, <2>6
      <4>2. SecondByte(p, q) <=> q \in 160..191 BY <4>1 DEF SecondByte
      <4> QED BY <1>5, <2>1, <4>2, SMT
    <3>2. c = 64 * y + z BY <2>1, <2>6, SMT
    <3>3. c >= 2048 <=> y >= 32 BY <1>5, <3>2, SMT
    <3>4. c < 4096 BY <1>5, <3>2, SMT
    <3> QED BY <1>2, <1>3, <1>10, <2>2, <2>3, <2>4, <2>5, <2>6, <3>1, <3>3, <3>4, SMT
  <2>7. CASE a = 13
    <3>1. SecondByte(p, q) <=> y < 32
      <4>1. p = 237 BY <2>1, <2>7
      <4>2. SecondByte(p, q) <=> q \in 128..159 BY <4>1 DEF SecondByte
      <4> QED BY <1>5, <2>1, <4>2, SMT
    <3>2. c = 53248 + 64 * y + z BY <2>1, <2>7, SMT
    <3>3. ~(55296 <= c /\ c <= 57343) <=> y < 32 BY <1>5, <3>2, SMT
    <3>4. c >= 2048 BY <3>2, SMT
    <3> QED BY <1>2, <1>3, <1>10, <2>2, <2>3, <2>4, <2>5, <2>7, <3>1, <3>3, <3>4, SMT
  <2>8. CASE a # 0 /\ a # 13
    <3>1. a < 16 => SecondByte(p, q)
      <4>1. a < 16 => p # 224 /\ p # 237 /\ p # 240 /\ p # 244 BY <2>1, <2>8, SMT
      <4> QED BY <4>1 DEF SecondByte
    <3>2. c >= 2048 BY <2>1, <2>8, SMT
    <3>3. ~(55296 <= c /\ c <= 57343) BY <1>5, <2>1, <2>8, SMT
    <3> QED BY <1>2, <1>3, <1>10, <2>2, <2>3, <2>4, <2>5, <3>1, <3>2, <3>3, SMT
  <2> QED BY <2>6, <2>7, <2>8
<1>11. CASE Len(s) = 4
  <2>1. p = 240 + a /\ q = 128 + x /\ c = 262144 * a + 4096 * x + 64 * y + z
    <3>1. s[1] = 240 + a /\ s[2] = 128 + x /\ CodeIn(s) = 262144 * a + 4096 * x + 64 * y + z
      BY <1>1, <1>11, SMT DEF Bits
    <3> QED BY <1>2, <1>3, <3>1
  <2>2. Scalar(4, c) <=> 65536 <= c /\ c < 1114112
    BY <1>4, <1>6, <1>7, SMT DEF Scalar, Shortest
  <2>3. OfLength(4, c) <=> c < 2097152 BY SMT DEF OfLength
  <2>4. p <= 244 <=> a <= 4 BY <2>1, SMT
  <2>5. CASE a = 0
    <3>1. SecondByte(p, q) <=> x >= 16
      <4>1. p = 240 BY <2>1, <2>5
      <4>2. SecondByte(p, q) <=> (q % 64) \div 16 # 0 BY <4>1 DEF SecondByte
      <4>3. q % 64 = x BY <1>5, <2>1
      <4>4. x \div 16 # 0 <=> x >= 16 OBVIOUS
      <4> QED BY <4>2, <4>3, <4>4
    <3>2. c = 4096 * x + 64 * y + z BY <2>1, <2>5, SMT
    <3>3. c >= 65536 <=> x >= 16 BY <1>5, <3>2, SMT
    <3>4. c < 262144 BY <1>5, <3>2, SMT
    <3> QED BY <1>2, <1>3, <1>11, <2>2, <2>3, <2>4, <2>5, <3>1, <3>3, <3>4, SMT
  <2>6. CASE a = 4
    <3>1. SecondByte(p, q) <=> x < 16
      <4>1. p = 244 BY <2>1, <2>6
      <4>2. SecondByte(p, q) <=> q \in 128..143 BY <4>1 DEF SecondByte
      <4> QED BY <1>5, <2>1, <4>2, SMT
    <3>2. c = 1048576 + 4096 * x + 64 * y + z BY <2>1, <2>6, SMT
    <3>3. c < 1114112 <=> x < 16 BY <1>5, <3>2, SMT
    <3>4. c >= 65536 /\ c < 2097152 BY <1>5, <3>2, SMT
    <3> QED BY <1>2, <1>3, <1>11, <2>2, <2>3, <2>4, <2>6, <3>1, <3>3, <3>4, SMT
  <2>7. CASE a # 0 /\ a # 4
    <3>1. SecondByte(p, q)
      <4>1. p # 224 /\ p # 237 /\ p # 240 /\ p # 244 BY <2>1, <2>7, SMT
      <4> QED BY <4>1 DEF SecondByte
    <3>2. c >= 65536 BY <2>1, <2>7, SMT
    <3>3. c < 1114112 <=> a < 4 BY <1>5, <2>1, <2>7, SMT
    <3>4. a < 4 => c < 2097152 BY <3>3, SMT
    <3> QED BY <1>2, <1>3, <1>11, <2>2, <2>3, <2>4, <2>7, <3>1, <3>2, <3>3, <3>4, SMT
  <2> QED BY <2>5, <2>6, <2>7
<1> QED BY <1>8, <1>9, <1>10, <1>11

-----------------------------------------------------------------------------
(***************************************************************************)
(* A step of a validator's loop is one character, of the string with the   *)
(* byte behind it.                                                         *)
(***************************************************************************)
\* What the loops ask of the bytes of one step.
OneText(p) ==
  /\ SeqLen(p[1]) = Len(p) - 1 /\ \A m \in 2..Len(p) : Continuation(p[m])
  /\ ~Overlong(Len(p) - 1, CodeIn(p)) /\ TextCode(CodeIn(p))
TextFrom(u, i, n) == i + n <= Len(u) + 1 /\ OneText(SubSeq(u, i, i + n - 1))
OneScalar(p) ==
  /\ p[1] <= 244
  /\ SeqLen(p[1]) = Len(p) - 1 /\ \A m \in 2..Len(p) : Continuation(p[m])
  /\ Len(p) > 1 => SecondByte(p[1], p[2])

\* A first byte of a length is none of a shorter form.
LEMMA LeadsItsForm ==
  ASSUME NEW p \in Seq(Byte), Len(p) \in 1..4
  PROVE  /\ SeqLen(p[1]) = Len(p) - 1 => p[1] >= Lead[Len(p)]
         /\ SeqLen(p[1]) = Len(p) - 1 /\ (\A m \in 2..Len(p) : Continuation(p[m])) => Formed(p)
<1>1. PICK c \in Byte : c = p[1] OBVIOUS
<1>2. c \in Nat BY ContinuationIs
<1>3. /\ SeqLen(c) = 0 => c >= Lead[1]
      /\ SeqLen(c) = 1 => c >= Lead[2]
      /\ SeqLen(c) = 2 => c >= Lead[3]
      /\ SeqLen(c) = 3 => c >= Lead[4]
  BY <1>2, SeqLenOf, SMT DEF Lead
<1>4. ASSUME SeqLen(p[1]) = Len(p) - 1 PROVE p[1] >= Lead[Len(p)]
  <2>1. CASE Len(p) = 1 BY <1>1, <1>3, <1>4, <2>1
  <2>2. CASE Len(p) = 2 BY <1>1, <1>3, <1>4, <2>2
  <2>3. CASE Len(p) = 3 BY <1>1, <1>3, <1>4, <2>3
  <2>4. CASE Len(p) = 4 BY <1>1, <1>3, <1>4, <2>4
  <2> QED BY <2>1, <2>2, <2>3, <2>4
<1> QED BY <1>4, FormIs

\* A step of validUTF8Text accepts the characters it has to, and none but what
\* it may.
LEMMA TextCharacter ==
  ASSUME NEW u \in Seq(Byte), NEW i \in Nat \ {0}, NEW n \in 1..4
  PROVE  /\ Character(u, "sure", i, n) => TextFrom(u, i, n)
         /\ TextFrom(u, i, n) => Character(u, "possible", i, n)
<1>1. CASE ~(i + n <= Len(u) + 1) BY <1>1 DEF Character, TextFrom
<1>2. CASE i + n <= Len(u) + 1
  <2>1. PICK p : p = SubSeq(u, i, i + n - 1) OBVIOUS
  <2>2. p \in Seq(Byte) /\ Len(p) = n BY <1>2, <2>1
  <2>3. /\ Character(u, "sure", i, n) <=> Formed(p) /\ Sure(n, CodeIn(p))
        /\ Character(u, "possible", i, n) <=> Formed(p) /\ Possible(n, CodeIn(p))
    BY <1>2, <2>1, <2>2 DEF Character, Formed
  <2>4. Formed(p) => \A m \in 2..Len(p) : Continuation(p[m]) BY <2>2, FormIs
  <2>5. Formed(p) => CodeIn(p) \in Nat /\ (SeqLen(p[1]) = n - 1 <=> OfLength(n, CodeIn(p)))
    <3>1. SUFFICES ASSUME Formed(p)
                   PROVE  CodeIn(p) \in Nat /\ (SeqLen(p[1]) = n - 1 <=> OfLength(n, CodeIn(p)))
      OBVIOUS
    <3>2. CodeIn(p) \in Int BY <2>2, CodeInIs DEF InCode
    <3>3. CodeIn(p) \in Nat BY <3>1, <3>2 DEF Formed
    <3> QED BY <2>2, <3>1, <3>3, LengthIs
  <2>6. Formed(p) => /\ Sure(n, CodeIn(p)) => /\ OfLength(n, CodeIn(p)) /\ ~Overlong(n - 1, CodeIn(p))
                                               /\ TextCode(CodeIn(p))
                     /\ (/\ OfLength(n, CodeIn(p)) /\ ~Overlong(n - 1, CodeIn(p))
                         /\ TextCode(CodeIn(p))) => Possible(n, CodeIn(p))
    BY <2>5, TestsLeave
  <2>7. OneText(p) => Formed(p) BY <2>2, LeadsItsForm DEF OneText
  <2>8. Formed(p) => (OneText(p) <=> /\ OfLength(n, CodeIn(p)) /\ ~Overlong(n - 1, CodeIn(p))
                                     /\ TextCode(CodeIn(p)))
    BY <2>2, <2>4, <2>5 DEF OneText
  <2>9. TextFrom(u, i, n) <=> OneText(p) BY <1>2, <2>1 DEF TextFrom
  <2> QED BY <2>3, <2>6, <2>7, <2>8, <2>9
<1> QED BY <1>1, <1>2

\* A scalar value is what a step of validUTF8 accepts.
LEMMA ScalarCharacter ==
  ASSUME NEW u \in Seq(Byte), NEW i \in Nat \ {0}, NEW n \in 1..4
  PROVE  Character(u, "scalar", i, n) <=> i + n <= Len(u) + 1 /\ OneScalar(SubSeq(u, i, i + n - 1))
<1>1. CASE ~(i + n <= Len(u) + 1) BY <1>1 DEF Character
<1>2. CASE i + n <= Len(u) + 1
  <2>1. PICK p : p = SubSeq(u, i, i + n - 1) OBVIOUS
  <2>2. p \in Seq(Byte) /\ Len(p) = n BY <1>2, <2>1
  <2>3. Character(u, "scalar", i, n) <=> Formed(p) /\ Scalar(n, CodeIn(p))
    BY <1>2, <2>1, <2>2 DEF Character, Formed
  <2>4. Formed(p) => \A m \in 2..Len(p) : Continuation(p[m]) BY <2>2, FormIs
  <2>5. Formed(p) => (SeqLen(p[1]) = n - 1 <=> OfLength(n, CodeIn(p))) BY <2>2, LengthIs
  <2>6. Formed(p) => (Scalar(n, CodeIn(p)) <=> /\ OfLength(n, CodeIn(p)) /\ p[1] <= 244
                                               /\ n > 1 => SecondByte(p[1], p[2]))
    BY <2>2, ScalarIs
  <2>7. OneScalar(p) => Formed(p) BY <2>2, LeadsItsForm DEF OneScalar
  <2>8. Formed(p) => (Scalar(n, CodeIn(p)) <=> OneScalar(p)) BY <2>2, <2>4, <2>5, <2>6 DEF OneScalar
  <2>9. Character(u, "scalar", i, n) <=> OneScalar(p) BY <2>3, <2>7, <2>8
  <2> QED BY <1>2, <2>1, <2>9
<1> QED BY <1>1, <1>2

\* The bytes a step looks at.
Looked(s, behind, i, n, p, tail) ==
  /\ p = SubSeq(Append(s, behind), i, i + n - 1) /\ tail = Following(s, behind, i)
  /\ Len(p) = n /\ p[1] = s[i] /\ Len(tail) = n - 1
  /\ \A m \in 1..(n - 1) : tail[m] = p[m + 1]

\* A string and the byte behind it.
LEMMA AppendByte ==
  ASSUME NEW s \in Seq(Byte), NEW b \in Byte
  PROVE  /\ Append(s, b) \in Seq(Byte) /\ Len(Append(s, b)) = Len(s) + 1
         /\ \A k \in 1..Len(s) : Append(s, b)[k] = s[k]
         /\ Append(s, b)[Len(s) + 1] = b
  OBVIOUS

\* A step looks at bytes of the string, the last perhaps the one behind.
LEMMA FollowingIs ==
  ASSUME NEW s \in Seq(Byte), NEW behind \in Byte, NEW i \in 1..Len(s), NEW n \in 1..4,
         SeqLen(s[i]) = n - 1, i + n <= Len(s) + 2
  PROVE  \E p \in Seq(Byte), tail \in Seq(Byte) : Looked(s, behind, i, n, p, tail)
<1>1. PICK u \in Seq(Byte) : /\ u = Append(s, behind) /\ Len(u) = Len(s) + 1
                             /\ \A k \in 1..Len(u) : u[k] = IF k <= Len(s) THEN s[k] ELSE behind
  <2>1. Append(s, behind) \in Seq(Byte) /\ Len(Append(s, behind)) = Len(s) + 1 BY AppendByte
  <2>2. \A k \in 1..(Len(s) + 1) : Append(s, behind)[k] = IF k <= Len(s) THEN s[k] ELSE behind
    BY AppendByte
  <2> QED BY <2>1, <2>2
<1>2. PICK p \in Seq(Byte) : /\ p = SubSeq(u, i, i + n - 1) /\ Len(p) = n
                             /\ \A m \in 1..n : p[m] = u[i + m - 1]
  <2>1. i + n - 1 \in i..Len(u) BY <1>1
  <2>2. SubSeq(u, i, i + n - 1) \in Seq(Byte) BY <2>1
  <2>3. Len(SubSeq(u, i, i + n - 1)) = n BY <2>1
  <2>4. \A m \in 1..n : SubSeq(u, i, i + n - 1)[m] = u[i + m - 1] BY <2>1
  <2> QED BY <2>2, <2>3, <2>4
<1>3. p[1] = s[i]
  <2>1. p[1] = u[i + 1 - 1] BY <1>2
  <2>2. i + 1 - 1 = i OBVIOUS
  <2> QED BY <1>1, <2>1, <2>2
<1>4. PICK tail : tail = Following(s, behind, i) OBVIOUS
<1>5. tail = [m \in 1..(n - 1) |-> IF i + m <= Len(s) THEN s[i + m] ELSE behind]
  BY <1>4 DEF Following
<1>6. \A m \in 1..(n - 1) : tail[m] = p[m + 1]
  <2>1. SUFFICES ASSUME NEW m \in 1..(n - 1) PROVE tail[m] = p[m + 1]
    OBVIOUS
  <2>2. p[m + 1] = u[i + (m + 1) - 1] BY <1>2
  <2>3. i + (m + 1) - 1 = i + m /\ i + m \in 1..Len(u) BY <1>1
  <2>4. u[i + m] = IF i + m <= Len(s) THEN s[i + m] ELSE behind BY <1>1, <2>3
  <2> QED BY <1>5, <2>2, <2>3, <2>4
<1>7. tail \in Seq(Byte) /\ Len(tail) = n - 1
  <2>1. \A m \in 1..(n - 1) : tail[m] \in Byte
    <3>1. SUFFICES ASSUME NEW m \in 1..(n - 1) PROVE tail[m] \in Byte
      OBVIOUS
    <3>2. m + 1 \in 1..Len(p) BY <1>2
    <3>3. p[m + 1] \in Byte BY <3>2
    <3> QED BY <1>6, <3>3
  <2>2. n - 1 \in Nat OBVIOUS
  <2> QED BY <1>5, <2>1, <2>2
<1> QED BY <1>1, <1>2, <1>3, <1>4, <1>6, <1>7 DEF Looked

\* So a step of validUTF8Text accepts bytes of them,
LEMMA TextStep ==
  ASSUME NEW s \in Seq(Byte), NEW behind \in Byte, NEW i \in 1..Len(s), NEW n \in 1..4
  PROVE  TextAt(s, behind, i, n) <=> TextFrom(Append(s, behind), i, n)
<1>1. PICK u \in Seq(Byte) : u = Append(s, behind) /\ Len(u) = Len(s) + 1
  BY AppendByte
<1>2. TextFrom(u, i, n) <=> i + n <= Len(u) + 1 /\ OneText(SubSeq(u, i, i + n - 1))
  BY DEF TextFrom
<1>3. PICK q \in {-1, 0, 1, 2, 3} : q = SeqLen(s[i]) BY SeqLenIs
<1>4. SubSeq(u, i, i + n - 1)[1] = s[i] \/ ~(i + n <= Len(u) + 1) BY <1>1
<1>5. Enough(s, i) <=> q <= Len(s) - i + 1 BY <1>3 DEF Enough
<1>6. CASE ~(q = n - 1 /\ i + n <= Len(s) + 2)
  <2>1. ~TextAt(s, behind, i, n) BY <1>3, <1>5, <1>6 DEF TextAt
  <2>2. ~TextFrom(u, i, n)
    <3>1. CASE ~(i + n <= Len(s) + 2) BY <1>1, <1>2, <3>1
    <3>2. CASE i + n <= Len(s) + 2 /\ q # n - 1
      <4>1. Len(SubSeq(u, i, i + n - 1)) = n BY <1>1, <3>2
      <4>2. SeqLen(SubSeq(u, i, i + n - 1)[1]) # n - 1 BY <1>1, <1>3, <1>4, <3>2
      <4> QED BY <1>2, <4>1, <4>2 DEF OneText
    <3> QED BY <1>6, <3>1, <3>2
  <2> QED BY <1>1, <2>1, <2>2
<1>7. CASE q = n - 1 /\ i + n <= Len(s) + 2
  <2>1. SeqLen(s[i]) = n - 1 /\ i + n <= Len(s) + 2 BY <1>3, <1>7
  <2>2. PICK p \in Seq(Byte), tail \in Seq(Byte) :
          /\ p = SubSeq(Append(s, behind), i, i + n - 1) /\ tail = Following(s, behind, i)
          /\ Len(p) = n /\ p[1] = s[i] /\ Len(tail) = n - 1
          /\ \A m \in 1..(n - 1) : tail[m] = p[m + 1]
    <3>1. \E p \in Seq(Byte), tail \in Seq(Byte) : Looked(s, behind, i, n, p, tail)
      BY <2>1, FollowingIs, Zenon
    <3> QED BY <3>1 DEF Looked
  <2>3. (\A m \in 1..Len(tail) : Continuation(tail[m])) <=> \A m \in 2..Len(p) : Continuation(p[m])
    <3>1. ASSUME \A m \in 1..Len(tail) : Continuation(tail[m]), NEW k \in 2..Len(p)
          PROVE  Continuation(p[k])
      <4>1. k - 1 \in 1..(n - 1) /\ (k - 1) + 1 = k BY <2>2, <3>1
      <4> QED BY <2>2, <3>1, <4>1
    <3>2. ASSUME \A m \in 2..Len(p) : Continuation(p[m]), NEW k \in 1..Len(tail)
          PROVE  Continuation(tail[k])
      <4>1. k \in 1..(n - 1) /\ k + 1 \in 2..n BY <2>2, <3>2
      <4> QED BY <2>2, <3>2, <4>1
    <3> QED BY <3>1, <3>2
  <2>4. (\A m \in 1..Len(tail) : Continuation(tail[m])) => CodeOf(s[i], tail) = CodeIn(p)
    <3>1. SUFFICES ASSUME \A m \in 1..Len(tail) : Continuation(tail[m])
                   PROVE  CodeOf(s[i], tail) = CodeIn(p)
      OBVIOUS
    <3>2. PICK c \in Byte : c = s[i] OBVIOUS
    <3>3. c \in Nat BY ContinuationIs
    <3>4. SeqLen(c) = n - 1 BY <2>1, <3>2
    <3>5. /\ n = 1 => LeadBits(c) = c
          /\ n = 2 => LeadBits(c) = c - 192
          /\ n = 3 => LeadBits(c) = c - 224
          /\ n = 4 => LeadBits(c) = c - 240
      BY <3>4, LeadIs, SMT DEF LeadIsFirst
    <3>6. LeadBits(c) \in Int
      <4>1. n = 1 \/ n = 2 \/ n = 3 \/ n = 4 OBVIOUS
      <4> QED BY <3>3, <3>5, <4>1
    <3>7. Len(tail) \in 0..3 BY <2>2
    <3>8. /\ Len(tail) = 0 => CodeOf(c, tail) = LeadBits(c)
          /\ Len(tail) = 1 => CodeOf(c, tail) = 64 * LeadBits(c) + (tail[1] - 128)
          /\ Len(tail) = 2 => CodeOf(c, tail) = 64 * (64 * LeadBits(c) + (tail[1] - 128)) + (tail[2] - 128)
          /\ Len(tail) = 3 => CodeOf(c, tail) =
               64 * (64 * (64 * LeadBits(c) + (tail[1] - 128)) + (tail[2] - 128)) + (tail[3] - 128)
      BY <3>1, <3>6, <3>7, CodeOfIs, SMT DEF OfCode
    <3>9. InCode(p) /\ p[1] = c
      <4>1. Len(p) \in 1..4 BY <2>2
      <4> QED BY <2>2, <3>2, <4>1, CodeInIs
    <3>10. Len(p) = n /\ Len(tail) = n - 1 /\ \A m \in 1..(n - 1) : tail[m] = p[m + 1] BY <2>2
    <3>11. CASE n = 1
      <4>1. CodeIn(p) = c BY <3>9, <3>10, <3>11 DEF InCode
      <4> QED BY <3>2, <3>5, <3>8, <3>10, <3>11, <4>1
    <3>12. CASE n = 2
      <4>1. CodeIn(p) = 64 * (c - 192) + (p[2] - 128) BY <3>9, <3>10, <3>12, SMT DEF InCode
      <4>2. tail[1] = p[1 + 1] BY <3>10, <3>12
      <4>3. CodeOf(c, tail) = 64 * (c - 192) + (tail[1] - 128) BY <3>5, <3>8, <3>10, <3>12, SMT
      <4> QED BY <3>2, <4>1, <4>2, <4>3
    <3>13. CASE n = 3
      <4>1. CodeIn(p) = 64 * (64 * (c - 224) + (p[2] - 128)) + (p[3] - 128)
        BY <3>9, <3>10, <3>13, SMT DEF InCode
      <4>2. tail[1] = p[1 + 1] BY <3>10, <3>13
      <4>3. tail[2] = p[2 + 1] BY <3>10, <3>13
      <4>4. CodeOf(c, tail) = 64 * (64 * (c - 224) + (tail[1] - 128)) + (tail[2] - 128)
        BY <3>5, <3>8, <3>10, <3>13, SMT
      <4> QED BY <3>2, <4>1, <4>2, <4>3, <4>4
    <3>14. CASE n = 4
      <4>1. CodeIn(p) = 64 * (64 * (64 * (c - 240) + (p[2] - 128)) + (p[3] - 128)) + (p[4] - 128)
        BY <3>9, <3>10, <3>14, SMT DEF InCode
      <4>2. tail[1] = p[1 + 1] BY <3>10, <3>14
      <4>3. tail[2] = p[2 + 1] BY <3>10, <3>14
      <4>4. tail[3] = p[3 + 1] BY <3>10, <3>14
      <4>5. CodeOf(c, tail) =
              64 * (64 * (64 * (c - 240) + (tail[1] - 128)) + (tail[2] - 128)) + (tail[3] - 128)
        BY <3>5, <3>8, <3>10, <3>14, SMT
      <4> QED BY <3>2, <4>1, <4>2, <4>3, <4>4, <4>5
    <3>15. n = 1 \/ n = 2 \/ n = 3 \/ n = 4 OBVIOUS
    <3> QED BY <3>11, <3>12, <3>13, <3>14, <3>15
  <2>5. TextAt(s, behind, i, n) <=>
          /\ \A m \in 1..Len(tail) : Continuation(tail[m])
          /\ ~Overlong(Len(tail), CodeOf(s[i], tail)) /\ TextCode(CodeOf(s[i], tail))
    <3>1. SeqLen(s[i]) >= 0 /\ n = SeqLen(s[i]) + 1 /\ Enough(s, i) BY <1>3, <1>5, <1>7
    <3> QED BY <2>2, <3>1 DEF TextAt
  <2>6. OneText(p) <=> /\ \A m \in 2..Len(p) : Continuation(p[m])
                       /\ ~Overlong(n - 1, CodeIn(p)) /\ TextCode(CodeIn(p))
    BY <2>1, <2>2 DEF OneText
  <2>7. TextAt(s, behind, i, n) <=> OneText(p) BY <2>2, <2>3, <2>4, <2>5, <2>6
  <2>8. i + n <= Len(u) + 1 BY <1>1, <2>1
  <2> QED BY <1>1, <1>2, <2>2, <2>7, <2>8
<1> QED BY <1>6, <1>7

\* and so does one of validUTF8.
LEMMA ScalarStep ==
  ASSUME NEW s \in Seq(Byte), NEW behind \in Byte, NEW i \in 1..Len(s), NEW n \in 1..4
  PROVE  ScalarAt(s, behind, i, n) <=> Character(Append(s, behind), "scalar", i, n)
<1>1. PICK u \in Seq(Byte) : u = Append(s, behind) /\ Len(u) = Len(s) + 1
  BY AppendByte
<1>2. Character(u, "scalar", i, n) <=> i + n <= Len(u) + 1 /\ OneScalar(SubSeq(u, i, i + n - 1))
  BY ScalarCharacter
<1>3. PICK q \in {-1, 0, 1, 2, 3} : q = SeqLen(s[i]) BY SeqLenIs
<1>4. SubSeq(u, i, i + n - 1)[1] = s[i] \/ ~(i + n <= Len(u) + 1) BY <1>1
<1>5. Enough(s, i) <=> q <= Len(s) - i + 1 BY <1>3 DEF Enough
<1>6. CASE ~(q = n - 1 /\ i + n <= Len(s) + 2)
  <2>1. ~ScalarAt(s, behind, i, n) BY <1>3, <1>5, <1>6 DEF ScalarAt
  <2>2. ~Character(u, "scalar", i, n)
    <3>1. CASE ~(i + n <= Len(s) + 2) BY <1>1, <1>2, <3>1
    <3>2. CASE i + n <= Len(s) + 2 /\ q # n - 1
      <4>1. Len(SubSeq(u, i, i + n - 1)) = n BY <1>1, <3>2
      <4>2. SeqLen(SubSeq(u, i, i + n - 1)[1]) # n - 1 BY <1>1, <1>3, <1>4, <3>2
      <4> QED BY <1>2, <4>1, <4>2 DEF OneScalar
    <3> QED BY <1>6, <3>1, <3>2
  <2> QED BY <1>1, <2>1, <2>2
<1>7. CASE q = n - 1 /\ i + n <= Len(s) + 2
  <2>1. SeqLen(s[i]) = n - 1 /\ i + n <= Len(s) + 2 BY <1>3, <1>7
  <2>2. PICK p \in Seq(Byte), tail \in Seq(Byte) :
          /\ p = SubSeq(Append(s, behind), i, i + n - 1) /\ tail = Following(s, behind, i)
          /\ Len(p) = n /\ p[1] = s[i] /\ Len(tail) = n - 1
          /\ \A m \in 1..(n - 1) : tail[m] = p[m + 1]
    <3>1. \E p \in Seq(Byte), tail \in Seq(Byte) : Looked(s, behind, i, n, p, tail)
      BY <2>1, FollowingIs, Zenon
    <3> QED BY <3>1 DEF Looked
  <2>3. (\A m \in 1..Len(tail) : Continuation(tail[m])) <=> \A m \in 2..Len(p) : Continuation(p[m])
    <3>1. ASSUME \A m \in 1..Len(tail) : Continuation(tail[m]), NEW k \in 2..Len(p)
          PROVE  Continuation(p[k])
      <4>1. k - 1 \in 1..(n - 1) /\ (k - 1) + 1 = k BY <2>2, <3>1
      <4> QED BY <2>2, <3>1, <4>1
    <3>2. ASSUME \A m \in 2..Len(p) : Continuation(p[m]), NEW k \in 1..Len(tail)
          PROVE  Continuation(tail[k])
      <4>1. k \in 1..(n - 1) /\ k + 1 \in 2..n BY <2>2, <3>2
      <4> QED BY <2>2, <3>2, <4>1
    <3> QED BY <3>1, <3>2
  <2>4. (tail # <<>> => SecondByte(s[i], tail[1])) <=> (Len(p) > 1 => SecondByte(p[1], p[2]))
    <3>1. tail # <<>> <=> n > 1 BY <2>2
    <3>2. n > 1 => tail[1] = p[2] BY <2>2
    <3> QED BY <2>2, <3>1, <3>2
  <2>5. ScalarAt(s, behind, i, n) <=>
          /\ s[i] <= 244
          /\ \A m \in 1..Len(tail) : Continuation(tail[m])
          /\ tail # <<>> => SecondByte(s[i], tail[1])
    <3>1. SeqLen(s[i]) >= 0 /\ n = SeqLen(s[i]) + 1 /\ Enough(s, i) BY <1>3, <1>5, <1>7
    <3> QED BY <2>2, <3>1 DEF ScalarAt
  <2>6. OneScalar(p) <=> /\ p[1] <= 244
                         /\ \A m \in 2..Len(p) : Continuation(p[m])
                         /\ Len(p) > 1 => SecondByte(p[1], p[2])
    BY <2>1, <2>2 DEF OneScalar
  <2>7. ScalarAt(s, behind, i, n) <=> OneScalar(p) BY <2>2, <2>3, <2>4, <2>5, <2>6
  <2>8. i + n <= Len(u) + 1 BY <1>1, <2>1
  <2> QED BY <1>1, <1>2, <2>2, <2>7, <2>8
<1> QED BY <1>6, <1>7

-----------------------------------------------------------------------------
(***************************************************************************)
(* What the validators accept is made of characters, of the string or of   *)
(* the string with the byte behind it.                                     *)
(***************************************************************************)
\* Chains of steps past the end of a string (w), past that of the string with
\* one byte more (x), and past either (v).
Chains(len, steps, v, w, x) ==
  /\ \A i \in Nat \ {0}, n \in 1..4 : <<i, n>> \in steps => i + n <= len + 2
  /\ \A i \in Nat \ {0} : v[i] <=> i > len \/ \E n \in 1..4 : <<i, n>> \in steps /\ v[i + n]
  /\ \A i \in Nat \ {0} :
       w[i] <=> i > len \/ \E n \in 1..4 : <<i, n>> \in steps /\ i + n <= len + 1 /\ w[i + n]
  /\ \A i \in Nat \ {0} : x[i] <=> i > len + 1 \/ \E n \in 1..4 : <<i, n>> \in steps /\ x[i + n]

\* One leads from the beginning to the end if one of the other two does.
LEMMA ChainsMeet ==
  ASSUME NEW len \in Nat, NEW steps,
         NEW v \in [Nat -> BOOLEAN], NEW w \in [Nat -> BOOLEAN], NEW x \in [Nat -> BOOLEAN],
         Chains(len, steps, v, w, x)
  PROVE  v[1] <=> w[1] \/ x[1]
<1>1. /\ \A i \in Nat \ {0}, n \in 1..4 : <<i, n>> \in steps => i + n <= len + 2
      /\ \A i \in Nat \ {0} : v[i] <=> i > len \/ \E n \in 1..4 : <<i, n>> \in steps /\ v[i + n]
      /\ \A i \in Nat \ {0} :
           w[i] <=> i > len \/ \E n \in 1..4 : <<i, n>> \in steps /\ i + n <= len + 1 /\ w[i + n]
      /\ \A i \in Nat \ {0} : x[i] <=> i > len + 1 \/ \E n \in 1..4 : <<i, n>> \in steps /\ x[i + n]
  BY DEF Chains
<1> DEFINE Same(i) == v[i] <=> w[i] \/ x[i]
           T == {k \in Nat : \A i \in Nat \ {0} : i + k = len + 2 => Same(i)}
<1>2. ASSUME NEW k \in Nat, \A l \in 0..(k - 1) : l \in T PROVE k \in T
  <2>1. SUFFICES ASSUME NEW i \in Nat \ {0}, i + k = len + 2 PROVE Same(i)
    OBVIOUS
  <2>2. ASSUME NEW j \in Nat \ {0}, i < j, j <= len + 2 PROVE Same(j)
    <3>1. len + 2 - j \in 0..(k - 1) /\ j + (len + 2 - j) = len + 2 BY <2>1, <2>2
    <3> QED BY <1>2, <3>1
  <2>3. CASE i > len BY <1>1, <2>3
  <2>4. CASE ~(i > len)
    <3>1. ASSUME v[i] PROVE w[i] \/ x[i]
      <4>1. PICK n \in 1..4 : <<i, n>> \in steps /\ v[i + n] BY <1>1, <2>4, <3>1
      <4>2. i + n \in Nat \ {0} /\ i < i + n /\ i + n <= len + 2
        <5>1. i + n <= len + 2 BY <1>1, <4>1
        <5>2. i + n \in Nat \ {0} /\ i < i + n OBVIOUS
        <5> QED BY <5>1, <5>2
      <4>3. w[i + n] \/ x[i + n] BY <1>1, <2>2, <4>1, <4>2
      <4>4. CASE x[i + n] BY <1>1, <4>1, <4>4
      <4>5. CASE i + n <= len + 1 /\ w[i + n] BY <1>1, <4>1, <4>5
      <4>6. CASE ~(i + n <= len + 1)
        <5>1. i + n > len + 1 BY <4>2, <4>6
        <5>2. x[i + n] BY <1>1, <4>2, <5>1
        <5> QED BY <1>1, <4>1, <5>2
      <4> QED BY <4>3, <4>4, <4>5, <4>6
    <3>2. ASSUME w[i] PROVE v[i]
      <4>1. PICK n \in 1..4 : <<i, n>> \in steps /\ i + n <= len + 1 /\ w[i + n] BY <1>1, <2>4, <3>2
      <4>2. i + n \in Nat \ {0} /\ i < i + n /\ i + n <= len + 2 BY <1>1, <4>1
      <4>3. v[i + n] BY <1>1, <2>2, <4>1, <4>2
      <4> QED BY <1>1, <2>4, <4>1, <4>3
    <3>3. ASSUME x[i] PROVE v[i]
      <4>1. ~(i > len + 1) BY <1>1, <2>4
      <4>2. PICK n \in 1..4 : <<i, n>> \in steps /\ x[i + n] BY <1>1, <3>3, <4>1
      <4>3. i + n \in Nat \ {0} /\ i < i + n /\ i + n <= len + 2
        <5>1. i + n <= len + 2 BY <1>1, <4>2
        <5>2. i + n \in Nat \ {0} /\ i < i + n OBVIOUS
        <5> QED BY <5>1, <5>2
      <4>4. v[i + n] BY <1>1, <2>2, <4>2, <4>3
      <4> QED BY <1>1, <2>4, <4>2, <4>4
    <3> QED BY <3>1, <3>2, <3>3
  <2> QED BY <2>3, <2>4
<1>3. T = Nat
  <2>1. T \in SUBSET Nat OBVIOUS
  <2> HIDE DEF T
  <2> QED BY <1>2, <2>1, StrongInduction
<1>4. 1 + (len + 1) = len + 2 OBVIOUS
<1>5. Same(1)
  <2>1. len + 1 \in Nat OBVIOUS
  <2>2. len + 1 \in T
    <3> HIDE DEF T
    <3> QED BY <1>3, <2>1
  <2> QED BY <1>4, <2>2
<1> QED BY <1>5

\* The characters of a string are those of a longer one that end in it.
LEMMA CharacterBefore ==
  ASSUME NEW s \in Seq(Byte), NEW b \in Byte, NEW kind, NEW i \in Nat \ {0}, NEW n \in 1..4
  PROVE  Character(s, kind, i, n) <=> Character(Append(s, b), kind, i, n) /\ i + n <= Len(s) + 1
<1>1. CASE ~(i + n <= Len(s) + 1) BY <1>1 DEF Character
<1>2. CASE i + n <= Len(s) + 1
  <2>1. SubSeq(s, i, i + n - 1) = SubSeq(Append(s, b), i, i + n - 1) BY <1>2, AppendByte
  <2>2. i + n <= Len(Append(s, b)) + 1 BY <1>2, AppendByte
  <2> QED BY <1>2, <2>1, <2>2 DEF Character
<1> QED BY <1>1, <1>2

\* A character ends inside its string.
LEMMA CharacterInside ==
  ASSUME NEW u \in Seq(Byte), NEW kind, NEW i \in Nat \ {0}, NEW n \in 1..4, Character(u, kind, i, n)
  PROVE  i + n <= Len(u) + 1
  BY DEF Character

\* A chain leads as far as one whose steps are all its own.
LEMMA ChainGrows ==
  ASSUME NEW len \in Nat, NEW steps, NEW a \in [Nat -> BOOLEAN], NEW c \in [Nat -> BOOLEAN],
         \A i \in 1..len : a[i] => \E n \in 1..4 : <<i, n>> \in steps /\ a[i + n],
         \A i \in Nat \ {0} : i > len \/ (\E n \in 1..4 : <<i, n>> \in steps /\ c[i + n]) => c[i]
  PROVE  a[1] => c[1]
<1> DEFINE T == {k \in Nat : \A i \in Nat \ {0} : i + k = len + 1 => (a[i] => c[i])}
<1>1. ASSUME NEW k \in Nat, \A l \in 0..(k - 1) : l \in T PROVE k \in T
  <2>1. SUFFICES ASSUME NEW i \in Nat \ {0}, i + k = len + 1, a[i] PROVE c[i]
    OBVIOUS
  <2>2. CASE i > len BY <2>2
  <2>3. CASE ~(i > len)
    <3>1. PICK n \in 1..4 : <<i, n>> \in steps /\ a[i + n] BY <2>1, <2>3
    <3>2. CASE i + n > len
      <4>1. i + n \in Nat \ {0} OBVIOUS
      <4> QED BY <3>1, <3>2, <4>1
    <3>3. CASE ~(i + n > len)
      <4>1. k - n \in 0..(k - 1) /\ i + n \in Nat \ {0} /\ (i + n) + (k - n) = len + 1 BY <2>1, <3>3
      <4>2. c[i + n] BY <1>1, <3>1, <4>1
      <4> QED BY <3>1, <4>2
    <3> QED BY <3>2, <3>3
  <2> QED BY <2>2, <2>3
<1>2. T = Nat
  <2>1. T \in SUBSET Nat OBVIOUS
  <2> HIDE DEF T
  <2> QED BY <1>1, <2>1, StrongInduction
<1>3. len \in T BY <1>2
<1>4. 1 \in Nat \ {0} /\ 1 + len = len + 1 OBVIOUS
<1> QED BY <1>3, <1>4

\* A character that ends in the byte behind a string, and begins in it, goes
\* on with that byte; without one the string is made of characters itself.
LEMMA NoneCutOff ==
  ASSUME NEW s \in Seq(Byte), NEW b \in Byte, NEW kind, Made(Append(s, b), kind), ~Continuation(b)
  PROVE  Made(s, kind)
<1> DEFINE u == Append(s, b)
           steps == {z \in Nat \X (1..4) : Character(s, kind, z[1], z[2])}
<1>1. u \in Seq(Byte) /\ Len(u) = Len(s) + 1 /\ Len(s) \in Nat /\ u[Len(s) + 1] = b BY AppendByte
<1>2. PICK x \in [Nat -> BOOLEAN] :
        /\ Made(u, kind) = x[1]
        /\ \A i \in Nat : x[i] <=> i > Len(u) \/ \E n \in 1..4 : Character(u, kind, i, n) /\ x[i + n]
  BY <1>1, MadeLeads
<1>3. PICK w \in [Nat -> BOOLEAN] :
        /\ Made(s, kind) = w[1]
        /\ \A i \in Nat : w[i] <=> i > Len(s) \/ \E n \in 1..4 : Character(s, kind, i, n) /\ w[i + n]
  BY MadeLeads
<1>4. \A i \in Nat, n \in 1..4 : <<i, n>> \in steps <=> Character(s, kind, i, n) OBVIOUS
<1>5. ASSUME NEW i \in 1..Len(s), NEW n \in 1..4, Character(u, kind, i, n)
      PROVE  Character(s, kind, i, n)
  <2>1. i + n <= Len(u) + 1
    <3>1. i \in Nat \ {0} OBVIOUS
    <3> HIDE DEF u
    <3> QED BY <1>1, <1>5, <3>1, CharacterInside
  <2>2. ASSUME i + n > Len(s) + 1 PROVE FALSE
    <3>1. PICK p : p = SubSeq(u, i, i + n - 1) OBVIOUS
    <3>2. i + n - 1 = Len(s) + 1 /\ n > 1 BY <1>1, <2>1, <2>2
    <3>3. p \in Seq(Byte) /\ Len(p) = n /\ p[n] = u[i + n - 1]
      <4> HIDE DEF u
      <4>1. i + n - 1 \in i..Len(u) BY <1>1, <2>1
      <4>2. SubSeq(u, i, i + n - 1) \in Seq(Byte) BY <1>1, <4>1
      <4>3. Len(SubSeq(u, i, i + n - 1)) = n BY <1>1, <4>1
      <4>4. \A m \in 1..n : SubSeq(u, i, i + n - 1)[m] = u[i + m - 1] BY <1>1, <4>1
      <4>5. n \in 1..n OBVIOUS
      <4>6. SubSeq(u, i, i + n - 1)[n] = u[i + n - 1] BY <4>4, <4>5
      <4> QED BY <3>1, <4>2, <4>3, <4>6, Zenon
    <3>4. Formed(p) BY <1>5, <3>1, <3>3 DEF Character, Formed
    <3>5. Continuation(p[n])
      <4>1. Len(p) \in 1..4 BY <3>3
      <4>2. \A m \in 2..Len(p) : Continuation(p[m]) BY <3>3, <3>4, <4>1, FormIs
      <4>3. n \in 2..Len(p) BY <3>2, <3>3
      <4> QED BY <4>2, <4>3
    <3> HIDE DEF u
    <3> QED BY <1>1, <3>2, <3>3, <3>5
  <2>3. i \in Nat \ {0} OBVIOUS
  <2>4. i + n <= Len(s) + 1 BY <1>1, <2>2
  <2> QED BY <1>5, <2>3, <2>4, CharacterBefore
<1> HIDE DEF u, steps
<1>6. \A i \in 1..Len(s) : x[i] => \E n \in 1..4 : <<i, n>> \in steps /\ x[i + n]
  <2>1. SUFFICES ASSUME NEW i \in 1..Len(s), x[i]
                 PROVE  \E n \in 1..4 : <<i, n>> \in steps /\ x[i + n]
    OBVIOUS
  <2>2. i \in Nat /\ ~(i > Len(u)) BY <1>1
  <2>3. PICK n \in 1..4 : Character(u, kind, i, n) /\ x[i + n] BY <1>2, <2>1, <2>2
  <2>4. <<i, n>> \in steps BY <1>4, <1>5, <2>2, <2>3
  <2> QED BY <2>3, <2>4
<1>7. \A i \in Nat \ {0} :
        i > Len(s) \/ (\E n \in 1..4 : <<i, n>> \in steps /\ w[i + n]) => w[i]
  BY <1>3, <1>4
<1>8. x[1] => w[1]
  <2>1. PICK len \in Nat : len = Len(s) BY <1>1
  <2>2. \A i \in 1..len : x[i] => \E n \in 1..4 : <<i, n>> \in steps /\ x[i + n] BY <1>6, <2>1
  <2>3. \A i \in Nat \ {0} : i > len \/ (\E n \in 1..4 : <<i, n>> \in steps /\ w[i + n]) => w[i]
    BY <1>7, <2>1
  <2> QED BY ONLY <2>2, <2>3, ChainGrows
<1>9. Made(u, kind) BY DEF u
<1> QED BY <1>2, <1>3, <1>8, <1>9

\* A string whose steps are all characters of a kind is made of them.
LEMMA StepsMake ==
  ASSUME NEW s \in Seq(Byte), NEW kind, NEW steps, NEW f \in [Nat -> BOOLEAN],
         IsChain(f, Len(s), steps), f[1],
         \A i \in 1..Len(s), n \in 1..4 : <<i, n>> \in steps => Character(s, kind, i, n)
  PROVE  Made(s, kind)
<1> DEFINE own == {z \in Nat \X (1..4) : Character(s, kind, z[1], z[2])}
<1>1. PICK w \in [Nat -> BOOLEAN] :
        /\ Made(s, kind) = w[1]
        /\ \A i \in Nat : w[i] <=> i > Len(s) \/ \E n \in 1..4 : Character(s, kind, i, n) /\ w[i + n]
  BY MadeLeads
<1>2. \A i \in Nat, n \in 1..4 : <<i, n>> \in own <=> Character(s, kind, i, n) OBVIOUS
<1> HIDE DEF own
<1>3. PICK len \in Nat : len = Len(s) OBVIOUS
<1>4. \A i \in 1..len : f[i] => \E n \in 1..4 : <<i, n>> \in own /\ f[i + n]
  <2>1. SUFFICES ASSUME NEW i \in 1..len, f[i] PROVE \E n \in 1..4 : <<i, n>> \in own /\ f[i + n]
    OBVIOUS
  <2>2. i \in Nat /\ ~(i > len) OBVIOUS
  <2>3. f[i] = (i > len \/ \E n \in 1..4 : <<i, n>> \in steps /\ f[i + n])
    BY <1>3, <2>2 DEF IsChain
  <2>4. PICK n \in 1..4 : <<i, n>> \in steps /\ f[i + n] BY <2>1, <2>2, <2>3
  <2>5. Character(s, kind, i, n) BY <1>3, <2>4
  <2> QED BY <1>2, <2>2, <2>4, <2>5
<1>5. \A i \in Nat \ {0} : i > len \/ (\E n \in 1..4 : <<i, n>> \in own /\ w[i + n]) => w[i]
  BY <1>1, <1>2, <1>3
<1>6. f[1] => w[1] BY ONLY <1>4, <1>5, ChainGrows
<1> QED BY <1>1, <1>6

(***************************************************************************)
(* validUTF8Text accepts a string made of what has to be accepted,         *)
(***************************************************************************)
LEMMA SureIsText ==
  ASSUME NEW s \in Seq(Byte), NEW b \in Byte, Made(s, "sure")
  PROVE  ValidUTF8Text(s, b)
<1> DEFINE steps == {z \in Nat \X (1..4) : TextAt(s, b, z[1], z[2])}
<1>1. PICK v \in [Nat -> BOOLEAN] :
        /\ ValidUTF8Text(s, b) = v[1]
        /\ \A i \in Nat : v[i] <=> i > Len(s) \/ \E n \in 1..4 : TextAt(s, b, i, n) /\ v[i + n]
  BY TextLeads
<1>2. PICK w \in [Nat -> BOOLEAN] :
        /\ Made(s, "sure") = w[1]
        /\ \A i \in Nat : w[i] <=> i > Len(s) \/ \E n \in 1..4 : Character(s, "sure", i, n) /\ w[i + n]
  BY MadeLeads
<1>3. \A i \in Nat, n \in 1..4 : <<i, n>> \in steps <=> TextAt(s, b, i, n) OBVIOUS
<1> HIDE DEF steps
<1>4. PICK len \in Nat : len = Len(s) OBVIOUS
<1>5. \A i \in 1..len : w[i] => \E n \in 1..4 : <<i, n>> \in steps /\ w[i + n]
  <2>1. SUFFICES ASSUME NEW i \in 1..len, w[i] PROVE \E n \in 1..4 : <<i, n>> \in steps /\ w[i + n]
    OBVIOUS
  <2>2. i \in Nat /\ i \in Nat \ {0} /\ ~(i > len) /\ i \in 1..Len(s) BY <1>4
  <2>3. PICK n \in 1..4 : Character(s, "sure", i, n) /\ w[i + n] BY <1>2, <1>4, <2>1, <2>2
  <2>4. Character(Append(s, b), "sure", i, n) BY <2>2, <2>3, CharacterBefore
  <2>5. TextFrom(Append(s, b), i, n) BY <2>2, <2>4, AppendByte, TextCharacter
  <2>6. TextAt(s, b, i, n) BY <2>2, <2>5, TextStep
  <2> QED BY <1>3, <2>2, <2>3, <2>6
<1>6. \A i \in Nat \ {0} : i > len \/ (\E n \in 1..4 : <<i, n>> \in steps /\ v[i + n]) => v[i]
  BY <1>1, <1>3, <1>4
<1>7. w[1] => v[1] BY ONLY <1>5, <1>6, ChainGrows
<1> QED BY <1>1, <1>2, <1>7

(***************************************************************************)
(* and nothing but what is made of what may be, with or without the byte   *)
(* behind;                                                                 *)
(***************************************************************************)
LEMMA TextIsPossible ==
  ASSUME NEW s \in Seq(Byte), NEW b \in Byte, ValidUTF8Text(s, b)
  PROVE  MadeWith(s, b, "possible")
<1> DEFINE u == Append(s, b)
           steps == {z \in Nat \X (1..4) : TextFrom(u, z[1], z[2])}
           inside == {z \in steps : z[1] + z[2] <= Len(s) + 1}
<1>1. u \in Seq(Byte) /\ Len(u) = Len(s) + 1 /\ Len(s) \in Nat BY AppendByte
<1>2. PICK v \in [Nat -> BOOLEAN] :
        /\ ValidUTF8Text(s, b) = v[1]
        /\ \A i \in Nat : v[i] <=> i > Len(s) \/ \E n \in 1..4 : TextAt(s, b, i, n) /\ v[i + n]
  BY TextLeads
<1>3. \A i \in Nat, n \in 1..4 : <<i, n>> \in steps <=> TextFrom(u, i, n) OBVIOUS
<1>4. \A i \in Nat, n \in 1..4 : <<i, n>> \in inside <=> TextFrom(u, i, n) /\ i + n <= Len(s) + 1
  OBVIOUS
<1>5. \A i \in Nat, n \in 1..4 : TextFrom(u, i, n) => i + n <= Len(s) + 2
  <2>1. SUFFICES ASSUME NEW i \in Nat, NEW n \in 1..4, TextFrom(u, i, n) PROVE i + n <= Len(s) + 2
    OBVIOUS
  <2>2. i + n <= Len(u) + 1 BY <2>1 DEF TextFrom
  <2> HIDE DEF u
  <2> QED BY <1>1, <2>2
<1>6. \A i \in 1..Len(s), n \in 1..4 : TextAt(s, b, i, n) <=> TextFrom(u, i, n) BY TextStep
<1> HIDE DEF u, steps, inside
<1>7. PICK len \in Nat : len = Len(s) BY <1>1
<1>8. PICK f \in [Nat -> BOOLEAN] : IsChain(f, len, inside) BY ChainExists
<1>9. PICK g \in [Nat -> BOOLEAN] : IsChain(g, len + 1, steps)
  <2>1. len + 1 \in Nat OBVIOUS
  <2> QED BY <2>1, ChainExists
<1>10. v[1] <=> f[1] \/ g[1]
  <2>1. \A i \in Nat \ {0}, n \in 1..4 : <<i, n>> \in steps => i + n <= len + 2
    BY <1>3, <1>5, <1>7
  <2>2. \A i \in Nat \ {0} : v[i] <=> i > len \/ \E n \in 1..4 : <<i, n>> \in steps /\ v[i + n]
    <3>1. SUFFICES ASSUME NEW i \in Nat \ {0}
                   PROVE  v[i] <=> i > len \/ \E n \in 1..4 : <<i, n>> \in steps /\ v[i + n]
      OBVIOUS
    <3>2. CASE i > len BY <1>2, <1>7, <3>2
    <3>3. CASE ~(i > len)
      <4>1. i \in 1..Len(s) /\ i \in Nat BY <1>7, <3>3
      <4>2. \A n \in 1..4 : TextAt(s, b, i, n) <=> <<i, n>> \in steps BY <1>3, <1>6, <4>1
      <4> QED BY <1>2, <1>7, <4>2
    <3> QED BY <3>2, <3>3
  <2>3. \A i \in Nat \ {0} :
          f[i] <=> i > len \/ \E n \in 1..4 : <<i, n>> \in steps /\ i + n <= len + 1 /\ f[i + n]
    <3>1. SUFFICES ASSUME NEW i \in Nat \ {0}
                   PROVE  f[i] <=> i > len \/ \E n \in 1..4 : <<i, n>> \in steps /\ i + n <= len + 1 /\ f[i + n]
      OBVIOUS
    <3>2. f[i] = (i > len \/ \E n \in 1..4 : <<i, n>> \in inside /\ f[i + n]) BY <1>8 DEF IsChain
    <3>3. \A n \in 1..4 : <<i, n>> \in inside <=> <<i, n>> \in steps /\ i + n <= len + 1
      BY <1>3, <1>4, <1>7
    <3> QED BY <3>2, <3>3
  <2>4. \A i \in Nat \ {0} : g[i] <=> i > len + 1 \/ \E n \in 1..4 : <<i, n>> \in steps /\ g[i + n]
    BY <1>9 DEF IsChain
  <2>5. Chains(len, steps, v, f, g) BY <2>1, <2>2, <2>3, <2>4 DEF Chains
  <2> QED BY <2>5, ChainsMeet
<1>11. ASSUME NEW i \in Nat \ {0}, NEW n \in 1..4, TextFrom(u, i, n)
       PROVE  Character(u, "possible", i, n)
  BY <1>1, <1>11, TextCharacter
<1>12. CASE f[1]
  <2>1. \A i \in 1..Len(s), n \in 1..4 : <<i, n>> \in inside => Character(s, "possible", i, n)
    <3>1. SUFFICES ASSUME NEW i \in 1..Len(s), NEW n \in 1..4, <<i, n>> \in inside
                   PROVE  Character(s, "possible", i, n)
      OBVIOUS
    <3>2. i \in Nat /\ i \in Nat \ {0} OBVIOUS
    <3>3. TextFrom(u, i, n) /\ i + n <= Len(s) + 1 BY <1>4, <3>1, <3>2
    <3>4. Character(Append(s, b), "possible", i, n) BY <1>11, <3>2, <3>3 DEF u
    <3> QED BY <3>2, <3>3, <3>4, CharacterBefore
  <2>2. IsChain(f, Len(s), inside) BY <1>7, <1>8
  <2>3. Made(s, "possible") BY <1>12, <2>1, <2>2, StepsMake
  <2> QED BY <2>3 DEF MadeWith
<1>13. CASE g[1]
  <2>1. \A i \in 1..Len(u), n \in 1..4 : <<i, n>> \in steps => Character(u, "possible", i, n)
    <3>1. SUFFICES ASSUME NEW i \in 1..Len(u), NEW n \in 1..4, <<i, n>> \in steps
                   PROVE  Character(u, "possible", i, n)
      OBVIOUS
    <3>2. i \in Nat /\ i \in Nat \ {0} OBVIOUS
    <3> QED BY <1>3, <1>11, <3>1, <3>2
  <2>2. IsChain(g, Len(u), steps) BY <1>1, <1>7, <1>9
  <2>3. Made(u, "possible") BY <1>1, <1>13, <2>1, <2>2, StepsMake
  <2>4. CASE Continuation(b) BY <2>3, <2>4 DEF MadeWith, u
  <2>5. CASE ~Continuation(b)
    <3>1. Made(s, "possible") BY <2>3, <2>5, NoneCutOff DEF u
    <3> QED BY <3>1 DEF MadeWith
  <2> QED BY <2>4, <2>5
<1> QED BY <1>2, <1>10, <1>12, <1>13

(***************************************************************************)
(* validUTF8 what is made of encodings of Unicode scalar values, again     *)
(* with or without the byte behind.                                        *)
(***************************************************************************)
LEMMA ScalarIsMade ==
  ASSUME NEW s \in Seq(Byte), NEW b \in Byte
  PROVE  ValidUTF8(s, b) <=> MadeWith(s, b, "scalar")
<1> DEFINE u == Append(s, b)
           steps == {z \in Nat \X (1..4) : Character(u, "scalar", z[1], z[2])}
<1>1. u \in Seq(Byte) /\ Len(u) = Len(s) + 1 /\ Len(s) \in Nat BY AppendByte
<1>2. PICK v \in [Nat -> BOOLEAN] :
        /\ ValidUTF8(s, b) = v[1]
        /\ \A i \in Nat : v[i] <=> i > Len(s) \/ \E n \in 1..4 : ScalarAt(s, b, i, n) /\ v[i + n]
  BY ScalarLeads
<1>3. PICK w \in [Nat -> BOOLEAN] :
        /\ Made(s, "scalar") = w[1]
        /\ \A i \in Nat : w[i] <=> i > Len(s) \/ \E n \in 1..4 : Character(s, "scalar", i, n) /\ w[i + n]
  BY MadeLeads
<1>4. PICK x \in [Nat -> BOOLEAN] :
        /\ Made(u, "scalar") = x[1]
        /\ \A i \in Nat : x[i] <=> i > Len(u) \/ \E n \in 1..4 : Character(u, "scalar", i, n) /\ x[i + n]
  BY <1>1, MadeLeads
<1>5. \A i \in Nat, n \in 1..4 : <<i, n>> \in steps <=> Character(u, "scalar", i, n) OBVIOUS
<1> HIDE DEF u, steps
<1>6. \A i \in Nat \ {0}, n \in 1..4 : <<i, n>> \in steps => i + n <= Len(s) + 2
  <2>1. SUFFICES ASSUME NEW i \in Nat \ {0}, NEW n \in 1..4, <<i, n>> \in steps
                 PROVE  i + n <= Len(s) + 2
    OBVIOUS
  <2>2. i \in Nat OBVIOUS
  <2>3. Character(u, "scalar", i, n) BY <1>5, <2>1, <2>2
  <2>4. i + n <= Len(u) + 1 BY <1>1, <2>3, CharacterInside
  <2>5. PICK k \in Nat : k = Len(s) BY <1>1
  <2>6. Len(u) = k + 1 BY <1>1, <2>5
  <2> QED BY <2>4, <2>5, <2>6
<1>7. ASSUME NEW i \in Nat \ {0}
      PROVE  v[i] <=> i > Len(s) \/ \E n \in 1..4 : <<i, n>> \in steps /\ v[i + n]
  <2>1. CASE i > Len(s) BY <1>2, <2>1
  <2>2. CASE ~(i > Len(s))
    <3>1. i \in 1..Len(s) BY <1>1, <2>2
    <3>2. \A n \in 1..4 : ScalarAt(s, b, i, n) <=> <<i, n>> \in steps
      BY <1>5, <3>1, ScalarStep DEF u
    <3> QED BY <1>2, <3>2
  <2> QED BY <2>1, <2>2
<1>8. ASSUME NEW i \in Nat \ {0}
      PROVE  w[i] <=> i > Len(s) \/ \E n \in 1..4 : <<i, n>> \in steps /\ i + n <= Len(s) + 1 /\ w[i + n]
  <2>1. \A n \in 1..4 : Character(s, "scalar", i, n) <=> <<i, n>> \in steps /\ i + n <= Len(s) + 1
    BY <1>5, CharacterBefore DEF u
  <2> QED BY <1>3, <2>1
<1>9. \A i \in Nat \ {0} : x[i] <=> i > Len(s) + 1 \/ \E n \in 1..4 : <<i, n>> \in steps /\ x[i + n]
  <2>1. SUFFICES ASSUME NEW i \in Nat \ {0}
                 PROVE  x[i] <=> i > Len(s) + 1 \/ \E n \in 1..4 : <<i, n>> \in steps /\ x[i + n]
    OBVIOUS
  <2>2. x[i] <=> i > Len(u) \/ \E n \in 1..4 : Character(u, "scalar", i, n) /\ x[i + n] BY <1>4
  <2>3. \A n \in 1..4 : <<i, n>> \in steps <=> Character(u, "scalar", i, n) BY <1>5
  <2>4. Len(u) = Len(s) + 1 BY <1>1
  <2> QED BY <2>2, <2>3, <2>4
<1>10. v[1] <=> w[1] \/ x[1]
  <2>1. PICK len \in Nat : len = Len(s) BY <1>1
  <2>2. \A i \in Nat \ {0}, n \in 1..4 : <<i, n>> \in steps => i + n <= len + 2 BY <1>6, <2>1
  <2>3. \A i \in Nat \ {0} : v[i] <=> i > len \/ \E n \in 1..4 : <<i, n>> \in steps /\ v[i + n]
    BY <1>7, <2>1
  <2>4. \A i \in Nat \ {0} :
          w[i] <=> i > len \/ \E n \in 1..4 : <<i, n>> \in steps /\ i + n <= len + 1 /\ w[i + n]
    BY <1>8, <2>1
  <2>5. \A i \in Nat \ {0} : x[i] <=> i > len + 1 \/ \E n \in 1..4 : <<i, n>> \in steps /\ x[i + n]
    BY <1>9, <2>1
  <2>6. Chains(len, steps, v, w, x) BY <2>2, <2>3, <2>4, <2>5 DEF Chains
  <2> QED BY <2>6, ChainsMeet
<1>11. Made(u, "scalar") /\ ~Continuation(b) => Made(s, "scalar") BY NoneCutOff DEF u
<1> QED BY <1>2, <1>3, <1>4, <1>10, <1>11, Zenon DEF MadeWith, u

-----------------------------------------------------------------------------
\* s is what x, a colon and p make.
Marked(s, x, p) ==
  /\ s \in Ints /\ Len(x) \in Nat /\ Len(p) \in Nat /\ Len(s) = Len(x) + 1 + Len(p)
  /\ \A k \in 1..Len(x) : s[k] = x[k] /\ IsDigit(s[k])
  /\ s[Len(x) + 1] = Colon
  /\ \A k \in 1..Len(p) : s[Len(x) + 1 + k] = p[k]

\* An encoding is the length, a colon and the string.
LEMMA EncodedIs ==
  ASSUME NEW p \in Ints
  PROVE  Marked(Encoded(p), Digits(Len(p)), p)
<1>1. Len(p) \in Nat BY DEF Ints
<1>2. PICK n \in Nat : n = Len(p) BY <1>1
<1>3. PICK x, s, u : x = Digits(n) /\ u = x \o <<Colon>> /\ s = u \o p OBVIOUS
<1>4. Encoded(p) = s
  <2>1. Decimal(n) = x BY <1>3 DEF Decimal
  <2> QED BY <1>2, <1>3, <2>1 DEF Encoded
<1>5. x \in Ints /\ Canonical(x) BY <1>3, DigitsAre, FormsAreCanonical
<1>6. Colon \in Int BY DEF Colon
<1>7. /\ s \in Ints /\ Len(x) \in Nat /\ Len(s) = Len(x) + 1 + Len(p)
      /\ \A k \in 1..Len(x) : s[k] = x[k]
      /\ s[Len(x) + 1] = Colon
      /\ \A k \in 1..Len(p) : s[Len(x) + 1 + k] = p[k]
  <2>1. u = x \o <<Colon>> /\ s = u \o p BY <1>3
  <2>2. s \in Ints /\ Len(x) \in Nat BY ONLY <1>5, <1>6, <2>1, p \in Ints, JoinIs
  <2>3. Len(s) = Len(x) + 1 + Len(p) BY ONLY <1>5, <1>6, <2>1, p \in Ints, JoinIs
  <2>4. \A k \in 1..Len(x) : s[k] = x[k] BY ONLY <1>5, <1>6, <2>1, p \in Ints, JoinIs
  <2>5. s[Len(x) + 1] = Colon BY ONLY <1>5, <1>6, <2>1, p \in Ints, JoinIs
  <2>6. \A k \in 1..Len(p) : s[Len(x) + 1 + k] = p[k] BY ONLY <1>5, <1>6, <2>1, p \in Ints, JoinIs
  <2> QED BY <2>2, <2>4, <2>5, <2>6, <2>3
<1>8. \A k \in 1..Len(x) : IsDigit(s[k]) BY <1>5, <1>7 DEF Canonical, AllDigits
<1>9. Marked(s, x, p) BY <1>1, <1>7, <1>8 DEF Marked
<1> QED BY <1>2, <1>3, <1>4, <1>9

(***************************************************************************)
(* Different strings have different encodings: the first colon is behind   *)
(* the length.                                                             *)
(***************************************************************************)
LEMMA EncodedOnce ==
  ASSUME NEW p \in Ints, NEW q \in Ints, Encoded(p) = Encoded(q)
  PROVE  p = q
<1>1. PICK s, x, y : s = Encoded(p) /\ x = Digits(Len(p)) /\ y = Digits(Len(q)) OBVIOUS
<1>2. Marked(s, x, p) /\ Marked(s, y, q) BY <1>1, EncodedIs
<1>3. ~IsDigit(Colon) BY DEF IsDigit, Zero, Nine, Colon
<1>4. PICK k \in Nat, l \in Nat : k = Len(x) /\ l = Len(y) BY <1>2 DEF Marked
<1>5. /\ \A j \in 1..k : IsDigit(s[j]) 
      /\ \A j \in 1..l : IsDigit(s[j])
      /\ s[k + 1] = Colon /\ s[l + 1] = Colon
  BY <1>2, <1>4 DEF Marked
<1>6. k = l
  <2>1. ASSUME k < l PROVE FALSE
    <3>1. k + 1 \in 1..l BY <2>1
    <3> QED BY <1>3, <1>5, <3>1
  <2>2. ASSUME l < k PROVE FALSE
    <3>1. l + 1 \in 1..k BY <2>2
    <3> QED BY <1>3, <1>5, <3>1
  <2> QED BY <2>1, <2>2
<1>7. /\ Len(p) \in Nat /\ Len(q) \in Nat /\ Len(s) = k + 1 + Len(p) /\ Len(s) = k + 1 + Len(q)
      /\ \A j \in 1..Len(p) : s[k + 1 + j] = p[j]
      /\ \A j \in 1..Len(q) : s[k + 1 + j] = q[j]
  BY <1>2, <1>4, <1>6 DEF Marked
<1>8. Len(p) = Len(q) BY <1>7
<1>9. \A j \in 1..Len(p) : p[j] = q[j] BY <1>7, <1>8
<1> QED BY <1>8, <1>9, SameParts

(***************************************************************************)
(* If the data begin with one string only, it is text or none is.          *)
(***************************************************************************)
LEMMA TextEndsAre ==
  ASSUME TypeOK, StringEnds = {at - start}, SubSeq(Rest, 1, at - start) = Encoded(text)
  PROVE  TextEnds = IF Made(text, "sure") THEN {at - start} ELSE {}
<1>1. /\ Len(data) \in Nat /\ start \in 1..(Len(data) + 1) /\ Rest \in Ints
      /\ Len(Rest) \in Nat /\ start \in Int /\ at \in Int
  BY RestIs DEF TypeOK
<1>2. text \in Ints
  <2>1. text \in Seq(Byte) BY DEF TypeOK
  <2>2. Byte \subseteq Int BY DEF Byte
  <2>3. Len(text) \in Nat /\ \A k \in 1..Len(text) : text[k] \in Byte BY ONLY <2>1
  <2>4. Len(text) \in Nat /\ \A k \in 1..Len(text) : text[k] \in Int BY ONLY <2>2, <2>3
  <2>5. text = [k \in 1..Len(text) |-> text[k]] BY <2>1
  <2> QED BY <2>4, <2>5, IsASeq DEF Ints
<1>3. PICK m : m = at - start OBVIOUS
<1>4. m \in StringEnds BY <1>3
<1>5. m \in 2..Len(Rest) /\ start + m = at BY <1>1, <1>3, <1>4 DEF StringEnds
<1>6. ASSUME NEW n \in 0..(m - 2), SubSeq(Rest, 1, m) = Encoded(SubSeq(Rest, m - n + 1, m))
      PROVE  SubSeq(Rest, m - n + 1, m) = text
  <2>1. PICK i : i = m - n + 1 OBVIOUS
  <2>2. i \in 1..(Len(Rest) + 1) /\ m \in (i - 1)..Len(Rest) BY <1>1, <1>5, <2>1
  <2>3. SubSeq(Rest, i, m) \in Ints BY <1>1, <2>2, PartIs
  <2>4. Encoded(SubSeq(Rest, i, m)) = Encoded(text) BY <1>3, <1>6, <2>1
  <2> QED BY <1>2, <2>1, <2>3, <2>4, EncodedOnce
<1>7. \E n \in 0..(m - 2) : SubSeq(Rest, 1, m) = Encoded(SubSeq(Rest, m - n + 1, m))
  BY <1>4 DEF StringEnds
<1>8. m \in TextEnds <=> Made(text, "sure")
  <2>1. m \in TextEnds <=>
          \E n \in 0..(m - 2) :
            /\ SubSeq(Rest, 1, m) = Encoded(SubSeq(Rest, m - n + 1, m))
            /\ Made(SubSeq(Rest, m - n + 1, m), "sure")
    BY <1>4, Zenon DEF TextEnds
  <2> HIDE DEF Made
  <2>2. PICK n \in 0..(m - 2) : SubSeq(Rest, 1, m) = Encoded(SubSeq(Rest, m - n + 1, m)) BY <1>7
  <2>3. SubSeq(Rest, m - n + 1, m) = text BY <1>6, <2>2
  <2> QED BY <1>5, <1>6, <2>1, <2>2, <2>3, Zenon
<1>9. TextEnds \subseteq {m} BY <1>3, Zenon DEF TextEnds
<1> QED BY <1>3, <1>8, <1>9, Zenon

-----------------------------------------------------------------------------
USE LexerAssumption

\* What the loops know of the number so far.
NumberInv ==
  /\ pc = "head" => num = 0
  /\ pc = "length" => num >= 0
  /\ pc = "length" => num <= 10 * LengthMax + 9
  /\ neg => MinInt <= num /\ num <= 0
  /\ ~neg => 0 <= num /\ num <= MaxInt

\* How the two positions are related.
PositionInv ==
  /\ pos >= start
  /\ pc \in {"head", "length", "digits", "failed"} => at = start
  /\ pc \in {"text", "done"} => at > start
  /\ pc = "head" => pos = start
  /\ pc = "length" => fn \in StringFn
  /\ pc \in {"head", "length"} => neg = FALSE

LexInv == TypeOK /\ ReadsInside /\ NumberInv /\ PositionInv

(***************************************************************************)
(* A call begins so.                                                       *)
(***************************************************************************)
LEMMA LexInit == Init => LexInv
<1> SUFFICES ASSUME Init PROVE LexInv
  OBVIOUS
<1>1. Len(data) \in Nat BY DEF Init
<1>2. TypeOK
  <2>1. text \in Seq(Byte) BY DEF Init
  <2>2. start \in 1..(Len(data) + 1) /\ at = start /\ pos = start BY DEF Init
  <2>3. fn \in StringFn \cup NumberFn /\ data \in Seq(Byte) BY DEF Init
  <2>4. num = 0 /\ neg = FALSE /\ pc = "head" BY DEF Init
  <2>5. pos \in 1..(Len(data) + 1) /\ at \in 1..(Len(data) + 1) BY <2>2
  <2>6. neg \in BOOLEAN BY <2>4, Zenon
  <2>7. num \in Int /\ pc \in {"head", "length", "text", "digits", "done", "failed"} BY <2>4
  <2> QED BY <2>1, <2>2, <2>3, <2>5, <2>6, <2>7 DEF TypeOK
<1>3. NumberInv BY DEF Init, NumberInv
<1>4. ReadsInside /\ PositionInv BY <1>1 DEF Init, ReadsInside, PositionInv
<1> QED BY <1>2, <1>3, <1>4 DEF LexInv

(***************************************************************************)
(* The bytes of the buffer are integers, a digit is one from 0 to 9.       *)
(***************************************************************************)
LEMMA BytesOf ==
  ASSUME TypeOK
  PROVE  /\ Len(data) \in Nat
         /\ \A n \in 1..Len(data) : data[n] \in Int
         /\ \A n \in 1..Len(data) : IsDigit(data[n]) => data[n] - Zero \in 0..9
<1>1. Len(data) \in Nat /\ \A n \in 1..Len(data) : data[n] \in Byte BY DEF TypeOK
<1>2. Byte \subseteq Int BY DEF Byte
<1>3. \A c \in Int : IsDigit(c) => c - Zero \in 0..9 BY DEF IsDigit, Zero, Nine
<1> QED BY <1>1, <1>2, <1>3

(***************************************************************************)
(* So are the bytes of the string, and the one behind it.                  *)
(***************************************************************************)
LEMMA BytesRead ==
  ASSUME TypeOK
  PROVE  text \in Seq(Byte) /\ ByteAt(at) \in Byte
<1>1. /\ text \in Seq(Byte) /\ at \in 1..(Len(data) + 1) /\ Len(data) \in Nat
      /\ \A n \in 1..Len(data) : data[n] \in Byte
  BY DEF TypeOK
<1>2. 0 \in Byte BY DEF Byte
<1>3. CASE at <= Len(data)
  <2>1. at \in 1..Len(data) BY <1>1, <1>3
  <2> QED BY <1>1, <1>3, <2>1 DEF ByteAt
<1>4. CASE ~(at <= Len(data)) BY <1>1, <1>2, <1>4 DEF ByteAt
<1> QED BY <1>3, <1>4

(***************************************************************************)
(* Who has found that one more digit fits does not leave the range.        *)
(***************************************************************************)
LEMMA OneMoreDigit ==
  ASSUME NumberInv, num \in Int, neg \in BOOLEAN, NEW d \in 0..9, Fits(d)
  PROVE  /\ neg => MinInt <= 10 * num - d /\ 10 * num - d <= 0
         /\ ~neg => 0 <= 10 * num + d /\ 10 * num + d <= MaxInt
<1>1. CASE neg
  <2> DEFINE n == -(MinInt + d)
  <2>1. n \in Nat BY <1>1
  <2>2. 10 * (n \div 10) <= n /\ n \div 10 \in Int BY <2>1
  <2>3. -(n \div 10) <= num BY <1>1 DEF Fits
  <2> QED BY <1>1, <2>1, <2>2, <2>3 DEF NumberInv
<1>2. CASE ~neg
  <2> DEFINE n == MaxInt - d
  <2>1. n \in Int BY <1>2
  <2>2. 10 * (n \div 10) <= n /\ n \div 10 \in Int BY <2>1
  <2>3. num <= n \div 10 BY <1>2 DEF Fits
  <2> QED BY <1>2, <2>1, <2>2, <2>3 DEF NumberInv
<1> QED BY <1>1, <1>2

(***************************************************************************)
(* A call that fails has changed nothing but that.                         *)
(***************************************************************************)
LEMMA FailKept ==
  ASSUME LexInv, Fail, pc \in {"head", "length", "digits"} PROVE LexInv'
BY DEF LexInv, TypeOK, ReadsInside, NumberInv, PositionInv, Fail

(***************************************************************************)
(* No step leaves the invariant.                                           *)
(***************************************************************************)
LEMMA LexStep == LexInv /\ [Next]_lexvars => LexInv'
<1> SUFFICES ASSUME LexInv, [Next]_lexvars PROVE LexInv'
  OBVIOUS
<1> USE DEF LexInv
<1>b. /\ Len(data) \in Nat
      /\ \A n \in 1..Len(data) : data[n] \in Int
      /\ \A n \in 1..Len(data) : IsDigit(data[n]) => data[n] - Zero \in 0..9
  BY BytesOf
<1>1. CASE StringHead
  <2>1. CASE Fail BY <1>1, <2>1, FailKept DEF StringHead
  <2>2. CASE pc' = "length"
    <3>1. /\ pc = "head" /\ fn \in StringFn /\ pos < Len(data)
          /\ IsDigit(data[pos]) /\ num' = data[pos] - Zero /\ pos' = pos + 1
          /\ UNCHANGED <<fn, data, start, at, neg, text>>
      BY <1>1, <2>2 DEF StringHead, Fail
    <3>2. pos \in 1..Len(data) BY <3>1, <1>b DEF TypeOK
    <3>3. num' \in 0..9 BY <3>1, <3>2, <1>b
    <3>4. TypeOK' /\ ReadsInside' BY <1>b, <2>2, <3>1, <3>2, <3>3 DEF TypeOK, ReadsInside
    <3>5. NumberInv'
      <4>1. neg' = FALSE BY <3>1 DEF PositionInv
      <4>2. num' <= 10 * LengthMax + 9 /\ num' <= MaxInt BY <3>3
      <4> QED BY <2>2, <3>3, <4>1, <4>2 DEF NumberInv
    <3>6. PositionInv' BY <2>2, <3>1, <3>2 DEF PositionInv, TypeOK
    <3> QED BY <3>4, <3>5, <3>6
  <2> QED BY <1>1, <2>1, <2>2 DEF StringHead
<1>2. CASE LengthDigit
  <2>1. CASE Fail BY <1>2, <2>1, FailKept DEF LengthDigit
  <2>2. CASE ~Fail
    <3>1. /\ pc = "length" /\ IsDigit(data[pos]) /\ pos < Len(data) /\ num <= LengthMax
          /\ num' = 10 * num + (data[pos] - Zero) /\ pos' = pos + 1
          /\ UNCHANGED <<fn, data, start, at, neg, text, pc>>
      BY <1>2, <2>2 DEF LengthDigit
    <3>2. pos \in 1..Len(data) BY <3>1, <1>b DEF TypeOK
    <3> DEFINE d == data[pos] - Zero
    <3>3. d \in 0..9 BY <3>1, <3>2, <1>b
    <3>4. num \in Nat BY <3>1 DEF NumberInv, TypeOK
    <3> HIDE DEF d
    <3>5. num' = 10 * num + d BY <3>1 DEF d
    <3>6. num' \in Nat /\ num' <= 10 * LengthMax + 9 BY <3>1, <3>3, <3>4, <3>5
    <3>7. TypeOK' /\ ReadsInside' BY <1>b, <3>1, <3>2, <3>6 DEF TypeOK, ReadsInside
    <3>8. NumberInv' BY <3>1, <3>6 DEF NumberInv, PositionInv
    <3>9. PositionInv' BY <3>1, <3>2 DEF PositionInv, TypeOK
    <3> QED BY <3>7, <3>8, <3>9
  <2> QED BY <2>1, <2>2
<1>3. CASE LengthEnd
  <2>1. CASE Fail BY <1>3, <2>1, FailKept DEF LengthEnd
  <2>2. CASE ~Fail
    <3>1. /\ pc = "length" /\ num <= Len(data) - pos
          /\ text' = SubSeq(data, pos + 1, pos + num)
          /\ pos' = pos + 1 + num /\ at' = pos + 1 + num
          /\ pc' \in {"text", "done"}
          /\ UNCHANGED <<fn, data, start, num, neg>>
      BY <1>3, <2>2 DEF LengthEnd
    <3>2. num \in Nat /\ pos \in 1..Len(data) /\ start \in 1..pos
      BY <3>1, <1>b DEF NumberInv, TypeOK, PositionInv, ReadsInside
    <3>3. text' \in Seq(Byte)
      <4>1. data \in Seq(Byte) BY DEF TypeOK
      <4>2. \A n \in (pos + 1)..(pos + num) : n \in 1..Len(data) BY <3>1, <3>2, <1>b
      <4> QED BY <3>1, <3>2, <4>1, <4>2
    <3>4. pos' \in 1..(Len(data) + 1) /\ at' \in 1..(Len(data) + 1) /\ at' > start /\ pos' >= start
      BY <1>b, <3>1, <3>2
    <3>5. TypeOK' BY <3>1, <3>3, <3>4 DEF TypeOK
    <3>6. ReadsInside' /\ PositionInv' BY <3>1, <3>4 DEF ReadsInside, PositionInv
    <3>7. NumberInv' BY <3>1 DEF NumberInv
    <3> QED BY <3>5, <3>6, <3>7
  <2> QED BY <2>1, <2>2
<1>4. CASE CheckText
  <2>1. /\ pc = "text" /\ UNCHANGED <<fn, data, start, pos, num, neg, text>>
        /\ (pc' = "done" /\ at' = at) \/ (pc' = "failed" /\ at' = start)
    BY <1>4, Zenon DEF CheckText
  <2> QED BY <2>1 DEF TypeOK, ReadsInside, NumberInv, PositionInv
<1>5. CASE NumberHead
  <2>1. CASE Fail BY <1>5, <2>1, FailKept DEF NumberHead
  <2>2. CASE PositiveHead /\ ~neg'
    <3>1. /\ pc = "head" /\ pos + 2 <= Len(data) /\ IsDigit(data[pos + 1])
          /\ num' = Computed(data[pos + 1] - Zero) /\ neg' = FALSE
          /\ pos' = pos + 2 /\ pc' = "digits"
          /\ UNCHANGED <<fn, data, start, at, text>>
      BY <1>5, <2>2 DEF NumberHead, PositiveHead, Fail, TypeOK, PositionInv
    <3>2. pos + 1 \in 1..Len(data) BY <3>1, <1>b DEF TypeOK
    <3>3. data[pos + 1] - Zero \in 0..9 BY <3>1, <3>2, <1>b
    <3>4. num' \in Nat /\ num' <= MaxInt
      <4>1. num = 0 BY <3>1 DEF NumberInv
      <4>2. num' = data[pos + 1] - Zero \/ num' = 0 BY <3>1, <4>1 DEF Computed
      <4> QED BY <3>3, <4>2
    <3>5. pos \in Nat \ {0} /\ pos' \in 1..Len(data) BY <1>b, <3>1 DEF TypeOK
    <3>6. TypeOK'
      <4>1. neg' \in BOOLEAN BY <3>1, Zenon
      <4> QED BY <3>1, <3>4, <3>5, <4>1 DEF TypeOK
    <3>7. ReadsInside' BY <3>1, <3>5 DEF ReadsInside
    <3>8. NumberInv' BY <3>1, <3>4 DEF NumberInv
    <3>9. PositionInv' BY <3>1, <3>2 DEF PositionInv, TypeOK
    <3> QED BY <3>6, <3>7, <3>8, <3>9
  <2>3. CASE NegativeHead /\ neg'
    <3>1. /\ pc = "head" /\ pos + 3 <= Len(data) /\ IsDigit(data[pos + 2])
          /\ num' = Computed(Zero - data[pos + 2]) /\ neg' = TRUE
          /\ pos' = pos + 3 /\ pc' = "digits"
          /\ UNCHANGED <<fn, data, start, at, text>>
      BY <1>5, <2>3 DEF NumberHead, NegativeHead, Fail, TypeOK, PositionInv
    <3>2. pos + 2 \in 1..Len(data) BY <3>1, <1>b DEF TypeOK
    <3>3. data[pos + 2] - Zero \in 0..9 /\ data[pos + 2] \in Int BY <3>1, <3>2, <1>b
    <3>4. num' \in Int /\ MinInt <= num' /\ num' <= 0
      <4>1. num = 0 BY <3>1 DEF NumberInv
      <4>2. num' = Zero - data[pos + 2] \/ num' = 0 BY <3>1, <4>1 DEF Computed
      <4> QED BY <3>3, <4>2 DEF Zero
    <3>5. pos \in Nat \ {0} /\ pos' \in 1..Len(data) BY <1>b, <3>1 DEF TypeOK
    <3>6. TypeOK'
      <4>1. neg' \in BOOLEAN BY <3>1, Zenon
      <4> QED BY <3>1, <3>4, <3>5, <4>1 DEF TypeOK
    <3>7. ReadsInside' BY <3>1, <3>5 DEF ReadsInside
    <3>8. NumberInv' BY <3>1, <3>4 DEF NumberInv
    <3>9. PositionInv' BY <3>1, <3>2 DEF PositionInv, TypeOK
    <3> QED BY <3>6, <3>7, <3>8, <3>9
  <2> QED BY <1>5, <2>1, <2>2, <2>3 DEF NumberHead
<1>6. CASE NumberDigit
  <2>1. CASE Fail BY <1>6, <2>1, FailKept DEF NumberDigit
  <2>2. CASE ~Fail
    <3> DEFINE d == data[pos] - Zero
    <3>1. /\ pc = "digits" /\ IsDigit(data[pos]) /\ pos < Len(data)
          /\ fn = "read_number" => Fits(d)
          /\ num' = Computed(IF neg THEN 10 * num - d ELSE 10 * num + d)
          /\ pos' = pos + 1
          /\ UNCHANGED <<fn, data, start, at, neg, text, pc>>
      BY <1>6, <2>2 DEF NumberDigit
    <3>2. pos \in 1..Len(data) BY <3>1, <1>b DEF TypeOK
    <3>3. d \in 0..9 BY <3>1, <3>2, <1>b
    <3> HIDE DEF d
    <3>4. num \in Int /\ neg \in BOOLEAN BY DEF TypeOK
    <3>5. /\ num' \in Int
          /\ neg => MinInt <= num' /\ num' <= 0
          /\ ~neg => 0 <= num' /\ num' <= MaxInt
      <4>1. CASE fn = "read_number"
        <5>1. num' = IF neg THEN 10 * num - d ELSE 10 * num + d BY <3>1, <4>1 DEF Computed
        <5>2. Fits(d) BY <3>1, <4>1
        <5> QED BY <3>3, <3>4, <5>1, <5>2, OneMoreDigit
      <4>2. CASE fn # "read_number"
        <5>1. num' = num BY <3>1, <4>2 DEF Computed
        <5> QED BY <3>4, <5>1 DEF NumberInv
      <4> QED BY <4>1, <4>2
    <3>6. TypeOK' /\ ReadsInside' BY <1>b, <3>1, <3>2, <3>5 DEF TypeOK, ReadsInside
    <3>7. NumberInv' BY <3>1, <3>5 DEF NumberInv
    <3>8. PositionInv' BY <3>1, <3>2 DEF PositionInv, TypeOK
    <3> QED BY <3>6, <3>7, <3>8
  <2> QED BY <2>1, <2>2
<1>7. CASE NumberEnd
  <2>1. /\ pc = "digits" /\ pos' = pos + 1 /\ at' = pos + 1 /\ pc' = "done"
        /\ UNCHANGED <<fn, data, start, num, neg, text>>
    BY <1>7 DEF NumberEnd
  <2>2. pos \in 1..Len(data) BY <2>1 DEF ReadsInside
  <2>3. TypeOK' BY <1>b, <2>1, <2>2 DEF TypeOK
  <2>4. ReadsInside' /\ NumberInv' BY <2>1 DEF ReadsInside, NumberInv
  <2>5. PositionInv' BY <2>1, <2>2 DEF PositionInv, TypeOK
  <2> QED BY <2>3, <2>4, <2>5
<1>8. CASE UNCHANGED lexvars
  BY <1>8 DEF lexvars, TypeOK, ReadsInside, NumberInv, PositionInv
<1> QED BY <1>1, <1>2, <1>3, <1>4, <1>5, <1>6, <1>7, <1>8 DEF Next

-----------------------------------------------------------------------------
\* Where the digits of a number begin.
From == IF neg THEN start + 2 ELSE start + 1

\* What the loop over a length has read: the decimal form of slen.
LengthInv ==
  pc = "length" =>
    /\ start < pos /\ Canonical(SubSeq(data, start, pos - 1))
    /\ data[start] = Zero => data[pos] = Colon
    /\ num = ValueOf(SubSeq(data, start, pos - 1))

\* What the loops over a number have read: the decimal form of it so far.
DigitsInv ==
  pc = "digits" =>
    /\ fn \in NumberFn /\ data[start] = CharI
    /\ From < pos /\ Canonical(SubSeq(data, From, pos - 1))
    /\ data[From] = Zero => ~neg /\ data[pos] = CharE
    /\ neg => data[start + 1] = Minus
    /\ fn = "read_number" =>
         num = IF neg THEN -ValueOf(SubSeq(data, From, pos - 1))
               ELSE ValueOf(SubSeq(data, From, pos - 1))

\* What read_utf8 has to check: the one string that is there.
TextInv ==
  /\ pc = "text" => /\ fn = "read_utf8" /\ StringEnds = {at - start}
                    /\ SubSeq(Rest, 1, at - start) = Encoded(text)
  /\ AcceptsText

ExactInv == LexInv /\ LengthInv /\ DigitsInv /\ TextInv /\ ReadsExactly

(***************************************************************************)
(* What the loop over a length finds says where the string can end.        *)
(***************************************************************************)
LEMMA StringThere ==
  ASSUME LexInv, LengthInv, pc = "length", NEW c \in Int, NEW e \in Int, StringAt(c, e)
  PROVE  /\ ~IsDigit(data[pos]) => c = pos /\ e = pos + num
         /\ IsDigit(data[pos]) => pos < Len(data) /\ num <= LengthMax
<1>1. /\ data \in Ints /\ Len(data) \in Nat /\ start \in 1..Len(data)
      /\ pos \in (start + 1)..Len(data)
      /\ Canonical(SubSeq(data, start, pos - 1)) /\ num = ValueOf(SubSeq(data, start, pos - 1))
  <2>1. data \in Ints /\ Len(data) \in Nat /\ start \in 1..(Len(data) + 1) BY RestIs DEF LexInv
  <2>2. pos \in 1..Len(data) BY DEF LexInv, ReadsInside
  <2>3. start < pos /\ Canonical(SubSeq(data, start, pos - 1)) /\ num = ValueOf(SubSeq(data, start, pos - 1))
    BY DEF LengthInv
  <2> QED BY <2>1, <2>2, <2>3
<1>2. \A k \in start..(pos - 1) : IsDigit(data[k])
  <2>1. pos - 1 \in (start - 1)..Len(data) BY <1>1
  <2> QED BY <1>1, <2>1, CanonicalPart
<1>3. /\ c \in (start + 1)..Len(data) /\ e \in c..Len(data) /\ data[c] = Colon
      /\ Canonical(SubSeq(data, start, c - 1))
      /\ ValueOf(SubSeq(data, start, c - 1)) = e - c /\ e - c <= 10 * LengthMax + 9
  BY DEF StringAt
<1>4. ~IsDigit(data[c]) BY <1>3 DEF IsDigit, Zero, Nine, Colon
<1>5. /\ ~IsDigit(data[pos]) => pos = c
      /\ IsDigit(data[pos]) =>
           /\ pos < c /\ SubSeq(data, start, pos - 1) \in Ints
           /\ ValueOf(SubSeq(data, start, pos)) = 10 * ValueOf(SubSeq(data, start, pos - 1)) + (data[pos] - Zero)
           /\ ValueOf(SubSeq(data, start, pos - 1)) >= 0
                => ValueOf(SubSeq(data, start, c - 1)) >= ValueOf(SubSeq(data, start, pos))
  BY <1>1, <1>2, <1>3, <1>4, EndsHere
<1>6. ASSUME ~IsDigit(data[pos]) PROVE c = pos /\ e = pos + num
  <2>1. c = pos BY <1>5, <1>6
  <2>2. num = e - c BY <1>1, <1>3, <2>1
  <2> QED BY <1>1, <2>1, <2>2
<1>7. ASSUME IsDigit(data[pos]) PROVE pos < Len(data) /\ num <= LengthMax
  <2>1. PICK v, d, w : /\ v = ValueOf(SubSeq(data, start, pos)) /\ d = data[pos] - Zero
                       /\ w = ValueOf(SubSeq(data, start, c - 1))
    OBVIOUS
  <2>2. d \in 0..9 BY <1>1, <1>7, <2>1, BytesOf DEF LexInv
  <2>3. num \in Int /\ num >= 0
    <3>1. num \in Int BY DEF LexInv, TypeOK
    <3> QED BY <3>1 DEF LexInv, NumberInv
  <2>4. v = 10 * num + d /\ w >= v /\ pos < c BY <1>1, <1>5, <1>7, <2>1, <2>3
  <2>5. w <= 10 * LengthMax + 9 /\ w \in Int BY <1>3, <2>1
  <2>6. num <= LengthMax BY <2>2, <2>3, <2>4, <2>5
  <2> QED BY <1>1, <1>3, <2>4, <2>6
<1> QED BY <1>6, <1>7

(***************************************************************************)
(* The same for a number: who is at its end has read it, and who stops     *)
(* before sees that there is none in range.                                *)
(***************************************************************************)
LEMMA NumberThere ==
  ASSUME LexInv, DigitsInv, pc = "digits", NEW from \in Int, NEW e \in Int, NumberAt(from, e)
  PROVE  /\ ~IsDigit(data[pos]) => from = From /\ e = pos
         /\ IsDigit(data[pos]) =>
              /\ pos < Len(data)
              /\ fn = "read_number" /\ ~Fits(data[pos] - Zero) => Value(from, e) \notin MinInt..MaxInt
<1>1. /\ data \in Ints /\ Len(data) \in Nat /\ start \in 1..(Len(data) + 1)
      /\ pos \in 1..Len(data) /\ neg \in BOOLEAN /\ num \in Int
  <2>1. data \in Ints /\ Len(data) \in Nat /\ start \in 1..(Len(data) + 1) BY RestIs DEF LexInv
  <2>2. pos \in 1..Len(data) BY DEF LexInv, ReadsInside
  <2>3. neg \in BOOLEAN /\ num \in Int BY DEF LexInv, TypeOK
  <2> QED BY <2>1, <2>2, <2>3
<1>2. /\ From < pos /\ Canonical(SubSeq(data, From, pos - 1)) /\ (neg => data[start + 1] = Minus)
      /\ fn = "read_number" =>
           num = IF neg THEN -ValueOf(SubSeq(data, From, pos - 1))
                 ELSE ValueOf(SubSeq(data, From, pos - 1))
  BY DEF DigitsInv
<1>3. From \in 1..Len(data) /\ pos \in (From + 1)..Len(data) /\ From = IF neg THEN start + 2 ELSE start + 1
  BY <1>1, <1>2 DEF From
<1>4. \A k \in From..(pos - 1) : IsDigit(data[k])
  <2>1. pos - 1 \in (From - 1)..Len(data) BY <1>1, <1>3
  <2> HIDE DEF From
  <2> QED BY <1>1, <1>2, <1>3, <2>1, CanonicalPart
<1>5. /\ from \in (start + 1)..(start + 2) /\ e \in (from + 1)..Len(data) /\ data[e] = CharE
      /\ Canonical(SubSeq(data, from, e - 1)) /\ (from = start + 2 => data[start + 1] = Minus)
  BY DEF NumberAt
<1>6. ~IsDigit(data[e]) /\ ~IsDigit(Minus) BY <1>5 DEF IsDigit, Zero, Nine, CharE, Minus
<1>7. from = From
  <2>1. ASSUME neg PROVE from = start + 2
    <3> SUFFICES ASSUME from = start + 1 PROVE FALSE
      BY <1>1, <1>5
    <3>1. from \in 1..Len(data) /\ e - 1 \in (from - 1)..Len(data) /\ from \in from..(e - 1) BY <1>1, <1>5
    <3>2. IsDigit(data[from]) BY <1>1, <1>5, <3>1, CanonicalPart
    <3> QED BY <1>2, <1>6, <2>1, <3>2
  <2>2. ASSUME ~neg PROVE from = start + 1
    <3> SUFFICES ASSUME from = start + 2 PROVE FALSE
      BY <1>1, <1>5
    <3>1. start + 1 \in From..(pos - 1) BY <1>1, <1>3, <2>2
    <3> QED BY <1>4, <1>5, <1>6, <3>1
  <2> QED BY <1>1, <1>3, <2>1, <2>2
<1>8. /\ ~IsDigit(data[pos]) => pos = e
      /\ IsDigit(data[pos]) =>
           /\ pos < e
           /\ ValueOf(SubSeq(data, from, pos)) = 10 * ValueOf(SubSeq(data, from, pos - 1)) + (data[pos] - Zero)
           /\ ValueOf(SubSeq(data, from, pos - 1)) >= 0
                => ValueOf(SubSeq(data, from, e - 1)) >= ValueOf(SubSeq(data, from, pos))
  <2>1. /\ from \in 1..Len(data) /\ pos \in (from + 1)..Len(data)
        /\ \A k \in from..(pos - 1) : IsDigit(data[k])
    BY <1>3, <1>4, <1>7
  <2> QED BY <1>1, <1>5, <1>6, <2>1, EndsHere
<1>9. ASSUME IsDigit(data[pos]), fn = "read_number", ~Fits(data[pos] - Zero)
      PROVE  Value(from, e) \notin MinInt..MaxInt
  <2>1. PICK v, d, w, u : /\ v = ValueOf(SubSeq(data, from, pos)) /\ d = data[pos] - Zero
                          /\ w = ValueOf(SubSeq(data, from, e - 1))
                          /\ u = ValueOf(SubSeq(data, from, pos - 1))
    OBVIOUS
  <2>2. d \in 0..9 BY <1>1, <1>9, <2>1, BytesOf DEF LexInv
  <2>3. num = IF neg THEN -u ELSE u BY <1>2, <1>7, <1>9, <2>1
  <2>4. w \in Int /\ u \in Int
    <3>1. /\ from \in 1..(Len(data) + 1) /\ e - 1 \in (from - 1)..Len(data)
          /\ pos - 1 \in (from - 1)..Len(data)
      BY <1>1, <1>3, <1>5, <1>7
    <3>2. SubSeq(data, from, e - 1) \in Ints /\ SubSeq(data, from, pos - 1) \in Ints
      BY <1>1, <3>1, PartIs
    <3> QED BY <2>1, <3>2, ValueNext
  <2>5. u >= 0
    <3>1. CASE neg
      <4>1. num <= 0 BY <3>1 DEF LexInv, NumberInv
      <4> QED BY <2>3, <2>4, <3>1, <4>1
    <3>2. CASE ~neg
      <4>1. num >= 0 BY <1>1, <3>2 DEF LexInv, NumberInv
      <4> QED BY <2>3, <3>2, <4>1
    <3> QED BY <3>1, <3>2
  <2>6. w >= 10 * u + d BY <1>8, <1>9, <2>1, <2>5
  <2>7. ~Fits(d) BY <1>9, <2>1
  <2>8. CASE neg
    <3>1. Value(from, e) = -w BY <1>1, <1>3, <1>7, <2>1, <2>8 DEF Value
    <3>2. PICK q, n : n = -(MinInt + d) /\ q = n \div 10 OBVIOUS
    <3>3. n \in Nat /\ q \in Nat /\ n <= 10 * q + 9 BY <2>2, <3>2
    <3>4. ~(-q <= -u) BY <2>3, <2>7, <2>8, <3>2 DEF Fits
    <3>5. u >= q + 1 BY <2>4, <3>3, <3>4
    <3>6. w > -MinInt BY <2>2, <2>4, <2>6, <3>2, <3>3, <3>5
    <3> QED BY <2>4, <3>1, <3>6
  <2>9. CASE ~neg
    <3>1. Value(from, e) = w BY <1>1, <1>3, <1>7, <2>1, <2>9 DEF Value
    <3>2. PICK q, n : n = MaxInt - d /\ q = n \div 10 OBVIOUS
    <3>3. n \in Int /\ q \in Int /\ n <= 10 * q + 9 BY <2>2, <3>2
    <3>4. ~(u <= q) BY <2>3, <2>7, <2>9, <3>2 DEF Fits
    <3>5. u >= q + 1 BY <2>4, <3>3, <3>4
    <3>6. w > MaxInt BY <2>2, <2>4, <2>6, <3>2, <3>3, <3>5
    <3> QED BY <2>4, <3>1, <3>6
  <2> QED BY <1>1, <2>8, <2>9
<1>10. IsDigit(data[pos]) => pos < Len(data) BY <1>1, <1>5, <1>8
<1> QED BY <1>7, <1>8, <1>9, <1>10

(***************************************************************************)
(* From positions back to lengths: none, or one.                           *)
(***************************************************************************)
LEMMA NoString ==
  ASSUME TypeOK, \A c, e \in Int : ~StringAt(c, e)
  PROVE  StringEnds = {}
<1> SUFFICES ASSUME NEW m \in StringEnds PROVE FALSE
  OBVIOUS
<1>1. m \in Int /\ \E c \in Int : StringAt(c, start + m - 1) BY StringEndsAre
<1>2. start + m - 1 \in Int BY <1>1 DEF TypeOK
<1> QED BY <1>1, <1>2

\* The same for numbers.
LEMMA NoNumber ==
  ASSUME TypeOK, NEW range, \A from, e \in Int : NumberAt(from, e) => Value(from, e) \notin range
  PROVE  NumberEnds(range) = {}
<1> SUFFICES ASSUME NEW m \in NumberEnds(range) PROVE FALSE
  OBVIOUS
<1>1. m \in Int /\ \E from \in Int : /\ NumberAt(from, start + m - 1)
                                     /\ Value(from, start + m - 1) \in range
  BY NumberEndsAre
<1>2. start + m - 1 \in Int BY <1>1 DEF TypeOK
<1> QED BY <1>1, <1>2

\* The one there is.
LEMMA OneString ==
  ASSUME TypeOK, NEW c \in Int, NEW e \in Int, StringAt(c, e),
         \A b, f \in Int : StringAt(b, f) => f = e
  PROVE  /\ StringEnds = {e - start + 1}
         /\ SubSeq(Rest, 1, e - start + 1) = Encoded(SubSeq(data, c + 1, e))
<1>1. /\ e - start + 1 \in StringEnds
      /\ SubSeq(Rest, 1, e - start + 1) = Encoded(SubSeq(data, c + 1, e))
  BY StringEndsAre
<1>2. ASSUME NEW m \in StringEnds PROVE m = e - start + 1
  <2>1. m \in Int /\ \E b \in Int : StringAt(b, start + m - 1) BY StringEndsAre
  <2>2. start + m - 1 \in Int /\ start \in Int BY <2>1 DEF TypeOK
  <2>3. start + m - 1 = e BY <2>1, <2>2
  <2> QED BY <2>1, <2>2, <2>3
<1> QED BY <1>1, <1>2

\* And the one number.
LEMMA OneNumber ==
  ASSUME TypeOK, NEW range, NEW from \in Int, NEW e \in Int, NumberAt(from, e),
         Value(from, e) \in range, \A b, f \in Int : NumberAt(b, f) => f = e
  PROVE  /\ NumberEnds(range) = {e - start + 1}
         /\ NumberOf(Body(e - start + 1)) = Value(from, e)
<1>1. /\ e - start + 1 \in NumberEnds(range)
      /\ NumberOf(Body(e - start + 1)) = Value(from, e)
  BY NumberEndsAre
<1>2. ASSUME NEW m \in NumberEnds(range) PROVE m = e - start + 1
  <2>1. m \in Int /\ \E b \in Int : NumberAt(b, start + m - 1) BY NumberEndsAre
  <2>2. start + m - 1 \in Int /\ start \in Int BY <2>1 DEF TypeOK
  <2>3. start + m - 1 = e BY <2>1, <2>2
  <2> QED BY <2>1, <2>2, <2>3
<1> QED BY <1>1, <1>2

(***************************************************************************)
(* No step changes the data, where the call begins, or what it calls.      *)
(***************************************************************************)
LEMMA EndsKept ==
  ASSUME fn' = fn, data' = data, start' = start
  PROVE  /\ Ends' = Ends /\ Rest' = Rest
         /\ StringEnds' = StringEnds /\ TextEnds' = TextEnds
<1>1. Rest' = Rest BY DEF Rest
<1>2. StringEnds' = StringEnds BY <1>1 DEF StringEnds
<1>3. (NumberEnds(MinInt..MaxInt))' = NumberEnds(MinInt..MaxInt) /\ (NumberEnds(Int))' = NumberEnds(Int)
  BY <1>1 DEF NumberEnds, Body
<1>4. TextEnds' = TextEnds BY <1>1, <1>2 DEF TextEnds
<1>5. Ends' = Ends BY <1>1, <1>2, <1>3, Zenon DEF Ends
<1> QED BY <1>1, <1>2, <1>4, <1>5

(***************************************************************************)
(* The step that ends a call leaves ReadsExactly true if there is no end,  *)
(* or the one it has found.                                                *)
(***************************************************************************)
LEMMA FailsRightly ==
  ASSUME fn' = fn, data' = data, start' = start, pc' = "failed", fn # "read_utf8" => Ends = {}
  PROVE  ReadsExactly'
BY EndsKept DEF ReadsExactly

\* Nor does one that ends a call for text.
LEMMA NoTextThere ==
  ASSUME fn' = fn, data' = data, start' = start, pc' = "failed", StringEnds = {}
  PROVE  TextInv'
<1>1. TextEnds' = TextEnds /\ TextEnds = {} BY EndsKept DEF TextEnds
<1> QED BY <1>1 DEF TextInv, AcceptsText

\* Who reads a number has nothing to do with text.
LEMMA NoTextRead == ASSUME fn' \in NumberFn, pc' # "text" PROVE TextInv'
BY DEF TextInv, AcceptsText, NumberFn

\* The other way to end: with what was found.
LEMMA EndsRightly ==
  ASSUME fn' = fn, data' = data, start' = start, pc' = "done",
         fn # "read_utf8" =>
           /\ Ends = {at' - start}
           /\ fn = "read_number" => num' = NumberOf(Body(at' - start))
           /\ fn = "read_string" => SubSeq(Rest, 1, at' - start) = Encoded(text')
  PROVE  ReadsExactly'
<1>1. Ends' = Ends /\ Rest' = Rest BY EndsKept
<1>2. (Body(at - start))' = Body(at' - start) BY <1>1 DEF Body
<1> QED BY <1>1, <1>2 DEF ReadsExactly

(***************************************************************************)
(* Between the first byte and the last there is nothing to say.            *)
(***************************************************************************)
LEMMA GoesOn == ASSUME pc' \notin {"failed", "done"} PROVE ReadsExactly' /\ AcceptsText'
BY DEF ReadsExactly, AcceptsText

(***************************************************************************)
(* No step of a call for a string leaves the invariant.                    *)
(***************************************************************************)
LEMMA StringHeadKeeps == ASSUME ExactInv, LexInv', StringHead PROVE ExactInv'
<1>1. /\ data \in Ints /\ Len(data) \in Nat /\ start \in 1..(Len(data) + 1) /\ TypeOK
      /\ pc = "head" /\ pos = start /\ fn \in StringFn
  BY RestIs DEF ExactInv, LexInv, PositionInv, StringHead
<1>2. CASE pos < Len(data) /\ IsDigit(data[pos]) /\ (data[pos] = Zero => data[pos + 1] = Colon)
  <2>1. /\ num' = data[pos] - Zero /\ pos' = pos + 1 /\ pc' = "length"
        /\ UNCHANGED <<fn, data, start, at, neg, text>>
    BY <1>2 DEF StringHead
  <2>2. start \in 1..Len(data) /\ pos' - 1 = start /\ start < pos' BY <1>1, <1>2, <2>1
  <2>3. Canonical(SubSeq(data, start, start)) /\ ValueOf(SubSeq(data, start, start)) = data[start] - Zero
    BY <1>1, <1>2, <2>2, FirstDigit
  <2>4. LengthInv' BY <1>1, <1>2, <2>1, <2>2, <2>3 DEF LengthInv
  <2>5. DigitsInv' /\ TextInv' BY <2>1, GoesOn DEF DigitsInv, TextInv
  <2>6. ReadsExactly' BY <2>1, GoesOn
  <2> QED BY <2>4, <2>5, <2>6 DEF ExactInv
<1>3. CASE ~(pos < Len(data) /\ IsDigit(data[pos]) /\ (data[pos] = Zero => data[pos + 1] = Colon))
  <2>1. pc' = "failed" /\ UNCHANGED <<fn, data, start>> BY <1>3 DEF StringHead, Fail
  <2>2. ASSUME NEW c \in Int, NEW e \in Int, StringAt(c, e) PROVE FALSE
    <3>1. /\ c \in (start + 1)..Len(data) /\ e \in c..Len(data) /\ data[c] = Colon
          /\ Canonical(SubSeq(data, start, c - 1))
      BY <2>2 DEF StringAt
    <3>2. start \in 1..Len(data) /\ c - 1 \in (start - 1)..Len(data) /\ start \in start..(c - 1)
      BY <1>1, <3>1
    <3>3. IsDigit(data[start]) /\ (data[start] = Zero => c - 1 = start)
      BY <1>1, <3>1, <3>2, CanonicalPart
    <3>4. data[start] = Zero => data[start + 1] = Colon
      <4>1. c - 1 = start => c = start + 1 BY <1>1, <3>1
      <4> QED BY <3>1, <3>3, <4>1
    <3>5. start < Len(data) BY <1>1, <3>1
    <3> QED BY <1>1, <1>3, <3>3, <3>4, <3>5
  <2>3. StringEnds = {} BY <1>1, <2>2, NoString
  <2>4. Ends = {} BY <1>1, <2>3 DEF Ends, StringFn
  <2>5. ReadsExactly' BY <2>1, <2>4, FailsRightly
  <2>6. TextInv' BY <2>1, <2>3, NoTextThere
  <2> QED BY <2>1, <2>5, <2>6 DEF ExactInv, LengthInv, DigitsInv
<1> QED BY <1>2, <1>3

\* A digit of the length, or a byte that is none.
LEMMA LengthDigitKeeps == ASSUME ExactInv, LexInv', LengthDigit PROVE ExactInv'
<1>1. /\ data \in Ints /\ Len(data) \in Nat /\ start \in 1..(Len(data) + 1) /\ TypeOK
      /\ pc = "length" /\ fn \in StringFn /\ data[pos] # Colon /\ pos \in 1..Len(data)
      /\ start < pos /\ Canonical(SubSeq(data, start, pos - 1))
      /\ data[start] # Zero /\ num = ValueOf(SubSeq(data, start, pos - 1))
  BY RestIs DEF ExactInv, LexInv, PositionInv, LengthDigit, ReadsInside, LengthInv
<1>2. CASE IsDigit(data[pos]) /\ pos < Len(data) /\ num <= LengthMax
  <2>1. /\ num' = 10 * num + (data[pos] - Zero) /\ pos' = pos + 1
        /\ UNCHANGED <<fn, data, start, at, neg, text, pc>>
    BY <1>2 DEF LengthDigit
  <2>2. start \in 1..Len(data) /\ pos \in (start + 1)..Len(data) /\ pos' - 1 = pos /\ start < pos'
    BY <1>1, <2>1
  <2>3. /\ Canonical(SubSeq(data, start, pos))
        /\ ValueOf(SubSeq(data, start, pos)) = 10 * num + (data[pos] - Zero)
    BY <1>1, <1>2, <2>2, NextDigit
  <2>4. LengthInv' BY <1>1, <2>1, <2>2, <2>3 DEF LengthInv
  <2>5. DigitsInv' /\ TextInv' BY <1>1, <2>1, GoesOn DEF DigitsInv, TextInv
  <2>6. ReadsExactly' BY <1>1, <2>1, GoesOn
  <2> QED BY <2>4, <2>5, <2>6 DEF ExactInv
<1>3. CASE ~(IsDigit(data[pos]) /\ pos < Len(data) /\ num <= LengthMax)
  <2>1. pc' = "failed" /\ UNCHANGED <<fn, data, start>> BY <1>3 DEF LengthDigit, Fail
  <2>2. ASSUME NEW c \in Int, NEW e \in Int, StringAt(c, e) PROVE FALSE
    <3>1. ~IsDigit(data[pos]) BY <1>1, <1>3, <2>2, StringThere DEF ExactInv
    <3>2. c = pos BY <1>1, <2>2, <3>1, StringThere DEF ExactInv
    <3> QED BY <1>1, <2>2, <3>2 DEF StringAt
  <2>3. StringEnds = {} BY <1>1, <2>2, NoString
  <2>4. Ends = {} BY <1>1, <2>3 DEF Ends, StringFn
  <2>5. ReadsExactly' BY <2>1, <2>4, FailsRightly
  <2>6. TextInv' BY <2>1, <2>3, NoTextThere
  <2> QED BY <2>1, <2>5, <2>6 DEF ExactInv, LengthInv, DigitsInv
<1> QED BY <1>2, <1>3

\* The colon: all of the string is there, or not.
LEMMA LengthEndKeeps == ASSUME ExactInv, LexInv', LengthEnd PROVE ExactInv'
<1>1. /\ data \in Ints /\ Len(data) \in Nat /\ start \in 1..(Len(data) + 1) /\ TypeOK
      /\ pc = "length" /\ fn \in StringFn /\ data[pos] = Colon /\ pos \in 1..Len(data)
      /\ start < pos /\ Canonical(SubSeq(data, start, pos - 1))
      /\ num = ValueOf(SubSeq(data, start, pos - 1))
      /\ num \in Int /\ num >= 0 /\ num <= 10 * LengthMax + 9
  BY RestIs DEF ExactInv, LexInv, PositionInv, LengthEnd, ReadsInside, LengthInv, NumberInv, TypeOK
<1>2. ~IsDigit(data[pos]) BY <1>1 DEF IsDigit, Zero, Nine, Colon
<1>3. \A c, e \in Int : StringAt(c, e) => c = pos /\ e = pos + num
  BY <1>1, <1>2, StringThere DEF ExactInv
<1>4. CASE num <= Len(data) - pos
  <2>1. /\ text' = SubSeq(data, pos + 1, pos + num) /\ at' = pos + 1 + num
        /\ pc' = IF fn = "read_utf8" THEN "text" ELSE "done"
        /\ UNCHANGED <<fn, data, start>>
    BY <1>4 DEF LengthEnd
  <2>2. pos \in Int /\ num \in Int /\ start \in Int /\ at' = pos + 1 + num BY <1>1, <2>1
  <2>3. StringAt(pos, pos + num)
    <3>1. /\ pos \in (start + 1)..Len(data) /\ pos + num \in pos..Len(data) /\ (pos + num) - pos = num
      BY <1>1, <1>4
    <3> QED BY <1>1, <3>1 DEF StringAt
  <2>4. /\ StringEnds = {at' - start}
        /\ SubSeq(Rest, 1, at' - start) = Encoded(text')
    <3>1. PICK e : e = pos + num OBVIOUS
    <3>2. /\ e \in Int /\ StringAt(pos, e) /\ e - start + 1 = at' - start
          /\ text' = SubSeq(data, pos + 1, e) /\ \A b, f \in Int : StringAt(b, f) => f = e
      <4>1. StringAt(pos, e) BY <2>3, <3>1, Zenon
      <4>2. e \in Int /\ e - start + 1 = at' - start BY ONLY <2>2, <3>1
      <4>3. text' = SubSeq(data, pos + 1, e) BY <2>1, <3>1, Zenon
      <4>4. \A b, f \in Int : StringAt(b, f) => f = e BY <1>3, <3>1, Zenon
      <4> QED BY <4>1, <4>3, <4>4, <4>2, Zenon
    <3>3. /\ StringEnds = {e - start + 1}
          /\ SubSeq(Rest, 1, e - start + 1) = Encoded(SubSeq(data, pos + 1, e))
      BY <1>1, <2>2, <3>2, OneString
    <3> QED BY <3>2, <3>3
  <2>5. ReadsExactly'
    <3>1. CASE fn = "read_utf8" BY <2>1, <3>1, GoesOn
    <3>2. CASE fn # "read_utf8"
      <4>1. Ends = {at' - start} BY <1>1, <2>4 DEF Ends, StringFn
      <4>2. fn # "read_number" BY <1>1 DEF StringFn
      <4> QED BY <2>1, <2>4, <3>2, <4>1, <4>2, EndsRightly
    <3> QED BY <3>1, <3>2
  <2>6. LengthInv' /\ DigitsInv' BY <2>1 DEF LengthInv, DigitsInv
  <2>7. TextInv'
    <3>1. AcceptsText'
      <4>1. CASE fn = "read_utf8" BY <2>1, <4>1, GoesOn
      <4>2. CASE fn # "read_utf8" BY <2>1, <4>2 DEF AcceptsText
      <4> QED BY <4>1, <4>2
    <3>2. pc' = "text" => fn = "read_utf8" BY <2>1
    <3>3. StringEnds' = StringEnds /\ Rest' = Rest BY <2>1, EndsKept
    <3> QED BY <2>1, <2>4, <3>1, <3>2, <3>3 DEF TextInv
  <2> QED BY <2>5, <2>6, <2>7 DEF ExactInv
<1>5. CASE ~(num <= Len(data) - pos)
  <2>1. pc' = "failed" /\ UNCHANGED <<fn, data, start>> BY <1>5 DEF LengthEnd, Fail
  <2>2. ASSUME NEW c \in Int, NEW e \in Int, StringAt(c, e) PROVE FALSE
    <3>1. c = pos /\ e = pos + num BY <1>3, <2>2
    <3>2. e <= Len(data) BY <1>1, <2>2 DEF StringAt
    <3> QED BY <1>1, <1>5, <3>1, <3>2
  <2>3. StringEnds = {} BY <1>1, <2>2, NoString
  <2>4. Ends = {} BY <1>1, <2>3 DEF Ends, StringFn
  <2>5. ReadsExactly' BY <2>1, <2>4, FailsRightly
  <2>6. TextInv' BY <2>1, <2>3, NoTextThere
  <2> QED BY <2>1, <2>5, <2>6 DEF ExactInv, LengthInv, DigitsInv
<1> QED BY <1>4, <1>5

\* The string is text, or not.
LEMMA CheckTextKeeps == ASSUME ExactInv, LexInv', CheckText PROVE ExactInv'
<1>1. /\ fn' = fn /\ data' = data /\ start' = start /\ text' = text
      /\ fn = "read_utf8" /\ TypeOK
      /\ StringEnds = {at - start} /\ SubSeq(Rest, 1, at - start) = Encoded(text)
  BY DEF ExactInv, LexInv, TextInv, CheckText
<1>2. \/ ValidUTF8Text(text, ByteAt(at)) /\ pc' = "done" /\ at' = at
      \/ ~ValidUTF8Text(text, ByteAt(at)) /\ pc' = "failed"
  BY Zenon DEF CheckText
<1>3. /\ Made(text, "sure") => ValidUTF8Text(text, ByteAt(at))
      /\ ValidUTF8Text(text, ByteAt(at)) => MadeWith(text, ByteAt(at), "possible")
  <2>1. text \in Seq(Byte) /\ ByteAt(at) \in Byte BY <1>1, BytesRead
  <2> QED BY <2>1, SureIsText, TextIsPossible
<1>4. TextEnds = IF Made(text, "sure") THEN {at - start} ELSE {} BY <1>1, TextEndsAre
<1>5. TextEnds' = TextEnds /\ StringEnds' = StringEnds /\ Rest' = Rest BY <1>1, EndsKept
<1>6. AcceptsText'
  <2>1. CASE ValidUTF8Text(text, ByteAt(at)) /\ pc' = "done" /\ at' = at
    <3>1. StringEnds' = {at' - start'} BY <1>1, <1>5, <2>1
    <3>2. SubSeq(Rest, 1, at - start)' = Encoded(text)' BY <1>1, <1>5, <2>1 DEF Encoded
    <3>3. MadeWith(text, ByteAt(at), "possible")' <=> MadeWith(text, ByteAt(at), "possible")
      BY <1>1, <2>1 DEF MadeWith, ByteAt
    <3> QED BY <1>1, <1>3, <2>1, <3>1, <3>2, <3>3 DEF AcceptsText
  <2>2. CASE ~ValidUTF8Text(text, ByteAt(at)) /\ pc' = "failed"
    <3>1. TextEnds' = {} BY <1>3, <1>4, <1>5, <2>2, Zenon
    <3> QED BY <2>2, <3>1 DEF AcceptsText
  <2> QED BY <1>2, <2>1, <2>2, Zenon
<1>7. pc' \in {"done", "failed"} BY <1>2
<1>8. TextInv' BY <1>6, <1>7 DEF TextInv
<1>9. ReadsExactly' BY <1>1 DEF ReadsExactly
<1> QED BY <1>7, <1>8, <1>9 DEF ExactInv, LengthInv, DigitsInv

(***************************************************************************)
(* No step of a call for a number leaves the invariant.                    *)
(***************************************************************************)
LEMMA NumberHeadKeeps == ASSUME ExactInv, LexInv', NumberHead PROVE ExactInv'
<1>1. /\ data \in Ints /\ Len(data) \in Nat /\ start \in 1..(Len(data) + 1) /\ TypeOK
      /\ pc = "head" /\ pos = start /\ fn \in NumberFn /\ num = 0
  BY RestIs DEF ExactInv, LexInv, PositionInv, NumberInv, NumberHead
<1>2. CASE PositiveHead /\ pc' = "digits" /\ neg' = FALSE
  <2>1. /\ num' = Computed(data[pos + 1] - Zero) /\ pos' = pos + 2
        /\ UNCHANGED <<fn, data, start>>
        /\ pos + 2 <= Len(data) /\ data[pos] = CharI
        /\ IsDigit(data[pos + 1]) /\ (data[pos + 1] = Zero => data[pos + 2] = CharE)
    BY <1>1, <1>2 DEF NumberHead, PositiveHead, Fail
  <2>2. PICK f : f = start + 1 OBVIOUS
  <2>3. f \in 1..Len(data) /\ pos + 1 = f /\ pos' - 1 = f /\ f < pos' /\ From' = f
    BY <1>1, <1>2, <2>1, <2>2 DEF From
  <2>4. Canonical(SubSeq(data, f, f)) /\ ValueOf(SubSeq(data, f, f)) = data[f] - Zero
    BY <1>1, <2>1, <2>3, FirstDigit
  <2>5. fn = "read_number" => num' = ValueOf(SubSeq(data, f, f)) BY <2>1, <2>3, <2>4 DEF Computed
  <2>6. data[f] = Zero => data[pos'] = CharE BY <2>1, <2>3
  <2>7. DigitsInv'
    <3> HIDE DEF From
    <3> QED BY <1>1, <1>2, <2>1, <2>3, <2>4, <2>5, <2>6 DEF DigitsInv
  <2>8. LengthInv' /\ TextInv' BY <1>1, <2>1, <1>2, NoTextRead DEF LengthInv
  <2>9. ReadsExactly' BY <1>2, GoesOn
  <2> QED BY <2>7, <2>8, <2>9 DEF ExactInv
<1>3. CASE NegativeHead /\ pc' = "digits" /\ neg' = TRUE
  <2>1. /\ num' = Computed(Zero - data[pos + 2]) /\ pos' = pos + 3
        /\ UNCHANGED <<fn, data, start>>
        /\ pos + 3 <= Len(data) /\ data[pos] = CharI
        /\ data[pos + 1] = Minus /\ IsDigit(data[pos + 2]) /\ data[pos + 2] # Zero
    BY <1>1, <1>3 DEF NumberHead, NegativeHead, Fail
  <2>2. PICK f : f = start + 2 OBVIOUS
  <2>3. f \in 1..Len(data) /\ pos + 2 = f /\ pos' - 1 = f /\ f < pos' /\ From' = f
    BY <1>1, <1>3, <2>1, <2>2 DEF From
  <2>4. Canonical(SubSeq(data, f, f)) /\ ValueOf(SubSeq(data, f, f)) = data[f] - Zero
    BY <1>1, <2>1, <2>3, FirstDigit
  <2>5. fn = "read_number" => num' = -ValueOf(SubSeq(data, f, f))
    <3>1. data[f] \in Int BY <1>1, <2>3 DEF Ints
    <3>2. Zero - data[f] = -(data[f] - Zero) BY <3>1 DEF Zero
    <3> QED BY <2>1, <2>3, <2>4, <3>2 DEF Computed
  <2>6. data[f] # Zero /\ data[start + 1] = Minus BY <1>1, <2>1, <2>3
  <2>7. DigitsInv'
    <3> HIDE DEF From
    <3> QED BY <1>1, <1>3, <2>1, <2>3, <2>4, <2>5, <2>6 DEF DigitsInv
  <2>8. LengthInv' /\ TextInv' BY <1>1, <2>1, <1>3, NoTextRead DEF LengthInv
  <2>9. ReadsExactly' BY <1>3, GoesOn
  <2> QED BY <2>7, <2>8, <2>9 DEF ExactInv
<1>4. CASE ~PositiveHead /\ ~NegativeHead /\ Fail
  <2>1. pc' = "failed" /\ UNCHANGED <<fn, data, start>> BY <1>4 DEF Fail
  <2>2. ASSUME NEW from \in Int, NEW e \in Int, NumberAt(from, e) PROVE FALSE
    <3>1. /\ from \in (start + 1)..(start + 2) /\ e \in (from + 1)..Len(data)
          /\ data[start] = CharI /\ data[e] = CharE /\ Canonical(SubSeq(data, from, e - 1))
          /\ from = start + 2 => data[start + 1] = Minus /\ data[from] # Zero
      BY <2>2 DEF NumberAt
    <3>2. from \in 1..Len(data) /\ e - 1 \in (from - 1)..Len(data) /\ from \in from..(e - 1)
      BY <1>1, <3>1
    <3>3. IsDigit(data[from]) /\ (data[from] = Zero => e - 1 = from)
      BY <1>1, <3>1, <3>2, CanonicalPart
    <3>4. CASE from = start + 1
      <4>1. pos + 2 <= Len(data) /\ pos + 1 = from /\ pos + 2 = from + 1 BY <1>1, <3>1, <3>4
      <4>2. data[from] = Zero => data[from + 1] = CharE
        <5>1. e - 1 = from => e = from + 1 BY <1>1, <3>1
        <5> QED BY <3>1, <3>3, <5>1
      <4> QED BY <1>1, <1>4, <3>1, <3>3, <4>1, <4>2 DEF PositiveHead
    <3>5. CASE from = start + 2
      <4>1. pos + 3 <= Len(data) /\ pos + 2 = from BY <1>1, <3>1, <3>5
      <4> QED BY <1>1, <1>4, <3>1, <3>3, <3>5, <4>1 DEF NegativeHead
    <3> QED BY <1>1, <3>1, <3>4, <3>5
  <2>3. NumberEnds(MinInt..MaxInt) = {} /\ NumberEnds(Int) = {} BY <1>1, <2>2, NoNumber
  <2>4. Ends = {} BY <1>1, <2>3, Zenon DEF Ends, NumberFn
  <2>5. ReadsExactly' BY <2>1, <2>4, FailsRightly
  <2>6. TextInv' BY <1>1, <2>1, NoTextRead
  <2> QED BY <2>1, <2>5, <2>6 DEF ExactInv, LengthInv, DigitsInv
<1> QED BY <1>2, <1>3, <1>4, Zenon DEF NumberHead

\* A digit of the number, or a byte that is none.
LEMMA NumberDigitKeeps == ASSUME ExactInv, LexInv', NumberDigit PROVE ExactInv'
<1>1. /\ data \in Ints /\ Len(data) \in Nat /\ start \in 1..(Len(data) + 1) /\ TypeOK
      /\ pc = "digits" /\ fn \in NumberFn /\ data[pos] # CharE /\ pos \in 1..Len(data)
      /\ neg \in BOOLEAN /\ num \in Int
  BY RestIs DEF ExactInv, LexInv, TypeOK, NumberDigit, ReadsInside, DigitsInv
<1>2. /\ From < pos /\ Canonical(SubSeq(data, From, pos - 1)) /\ data[From] # Zero
      /\ data[start] = CharI /\ (neg => data[start + 1] = Minus)
      /\ fn = "read_number" =>
           num = IF neg THEN -ValueOf(SubSeq(data, From, pos - 1))
                 ELSE ValueOf(SubSeq(data, From, pos - 1))
  BY <1>1 DEF ExactInv, DigitsInv
<1>3. CASE /\ pos < Len(data) /\ IsDigit(data[pos])
           /\ fn = "read_number" => Fits(data[pos] - Zero)
  <2>1. /\ num' = Computed(IF neg THEN 10 * num - (data[pos] - Zero)
                           ELSE 10 * num + (data[pos] - Zero))
        /\ pos' = pos + 1 /\ UNCHANGED <<fn, data, start, at, neg, text, pc>>
    BY <1>3 DEF NumberDigit
  <2>2. PICK f : f = From OBVIOUS
  <2>3. /\ f \in 1..Len(data) /\ pos \in (f + 1)..Len(data) /\ pos' - 1 = pos /\ f < pos'
        /\ From' = f
    BY <1>1, <1>2, <2>1, <2>2 DEF From
  <2>4. /\ Canonical(SubSeq(data, f, pos)) /\ ValueOf(SubSeq(data, f, pos - 1)) \in Int
        /\ ValueOf(SubSeq(data, f, pos)) =
             10 * ValueOf(SubSeq(data, f, pos - 1)) + (data[pos] - Zero)
    BY <1>1, <1>2, <1>3, <2>2, <2>3, NextDigit
  <2>5. fn = "read_number" =>
          num' = IF neg THEN -ValueOf(SubSeq(data, f, pos)) ELSE ValueOf(SubSeq(data, f, pos))
    <3> SUFFICES ASSUME fn = "read_number"
                 PROVE num' = IF neg THEN -ValueOf(SubSeq(data, f, pos)) ELSE ValueOf(SubSeq(data, f, pos))
      OBVIOUS
    <3>1. PICK u, v, d : /\ u = ValueOf(SubSeq(data, f, pos - 1)) /\ v = ValueOf(SubSeq(data, f, pos))
                         /\ d = data[pos] - Zero
      OBVIOUS
    <3>2. data[pos] \in Int /\ d \in Int BY <1>1, <3>1 DEF Ints, Zero
    <3>3. u \in Int /\ v = 10 * u + d /\ num = IF neg THEN -u ELSE u BY <1>2, <2>2, <2>4, <3>1
    <3>4. num' = IF neg THEN 10 * num - d ELSE 10 * num + d BY <2>1, <3>1 DEF Computed
    <3>5. CASE neg
      <4>1. num' = 10 * (-u) - d BY <3>3, <3>4, <3>5
      <4>2. num' = -v BY ONLY <3>2, <3>3, <4>1
      <4> QED BY <3>1, <3>5, <4>2
    <3>6. CASE ~neg
      <4>1. num' = 10 * u + d BY <3>3, <3>4, <3>6
      <4> QED BY <3>1, <3>3, <3>6, <4>1
    <3> QED BY <3>5, <3>6
  <2>6. DigitsInv'
    <3> HIDE DEF From
    <3> QED BY <1>1, <1>2, <2>1, <2>2, <2>3, <2>4, <2>5 DEF DigitsInv
  <2>7. LengthInv' /\ TextInv' BY <1>1, <2>1, NoTextRead DEF LengthInv
  <2>8. ReadsExactly' BY <1>1, <2>1, GoesOn
  <2> QED BY <2>6, <2>7, <2>8 DEF ExactInv
<1>4. CASE ~(/\ pos < Len(data) /\ IsDigit(data[pos])
             /\ fn = "read_number" => Fits(data[pos] - Zero))
  <2>1. pc' = "failed" /\ UNCHANGED <<fn, data, start>> BY <1>4 DEF NumberDigit, Fail
  <2>2. ASSUME NEW from \in Int, NEW e \in Int, NumberAt(from, e)
        PROVE  fn = "read_number" /\ Value(from, e) \notin MinInt..MaxInt
    <3>1. IsDigit(data[pos])
      <4> SUFFICES ASSUME ~IsDigit(data[pos]) PROVE FALSE
        OBVIOUS
      <4>1. e = pos BY <1>1, <2>2, NumberThere DEF ExactInv
      <4> QED BY <1>1, <2>2, <4>1 DEF NumberAt
    <3>2. /\ pos < Len(data)
          /\ fn = "read_number" /\ ~Fits(data[pos] - Zero) => Value(from, e) \notin MinInt..MaxInt
      BY <1>1, <2>2, <3>1, NumberThere DEF ExactInv
    <3> QED BY <1>4, <3>1, <3>2
  <2>3. CASE fn = "read_number"
    <3>1. NumberEnds(MinInt..MaxInt) = {} BY <1>1, <2>2, NoNumber
    <3>2. TextInv' BY <1>1, <2>1, NoTextRead
    <3> QED BY <2>1, <2>3, <3>1, <3>2, FailsRightly DEF ExactInv, LengthInv, DigitsInv, Ends
  <2>4. CASE fn # "read_number"
    <3>1. NumberEnds(Int) = {} BY <1>1, <2>2, <2>4, NoNumber
    <3>2. fn = "skip_number" BY <1>1, <2>4 DEF NumberFn
    <3>3. TextInv' BY <1>1, <2>1, NoTextRead
    <3> QED BY <2>1, <3>1, <3>2, <3>3, FailsRightly DEF ExactInv, LengthInv, DigitsInv, Ends
  <2> QED BY <2>3, <2>4
<1> QED BY <1>3, <1>4

\* The "e" behind it.
LEMMA NumberEndKeeps == ASSUME ExactInv, LexInv', NumberEnd PROVE ExactInv'
<1>1. /\ data \in Ints /\ Len(data) \in Nat /\ start \in 1..(Len(data) + 1) /\ TypeOK
      /\ pc = "digits" /\ fn \in NumberFn /\ data[pos] = CharE /\ pos \in 1..Len(data)
      /\ neg \in BOOLEAN /\ num \in Int
      /\ pc' = "done" /\ at' = pos + 1 /\ num' = num /\ UNCHANGED <<fn, data, start>>
  BY RestIs DEF ExactInv, LexInv, TypeOK, NumberEnd, ReadsInside, DigitsInv
<1>2. /\ From < pos /\ Canonical(SubSeq(data, From, pos - 1))
      /\ data[start] = CharI /\ (neg => data[From] # Zero /\ data[start + 1] = Minus)
      /\ fn = "read_number" =>
           num = IF neg THEN -ValueOf(SubSeq(data, From, pos - 1))
                 ELSE ValueOf(SubSeq(data, From, pos - 1))
  BY <1>1 DEF ExactInv, DigitsInv
<1>3. ~IsDigit(data[pos]) BY <1>1 DEF IsDigit, Zero, Nine, CharE
<1>4. \A b, f \in Int : NumberAt(b, f) => f = pos
  BY <1>1, <1>3, NumberThere DEF ExactInv
<1>5. PICK f : f = From OBVIOUS
<1>6. /\ f \in Int /\ pos \in Int /\ f \in (start + 1)..(start + 2) /\ pos \in (f + 1)..Len(data)
      /\ (f = start + 1 <=> ~neg) /\ (f = start + 2 <=> neg)
      /\ pos - start + 1 = at' - start
  BY <1>1, <1>2, <1>5 DEF From
<1>7. NumberAt(f, pos) BY <1>1, <1>2, <1>5, <1>6 DEF NumberAt
<1>8. Value(f, pos) \in Int BY <1>1, <1>6, <1>7, NumberEndsAre
<1>9. CASE fn = "read_number"
  <2>1. Value(f, pos) = num BY <1>2, <1>5, <1>6, <1>9 DEF Value
  <2>2. num \in MinInt..MaxInt BY <1>1 DEF ExactInv, LexInv, NumberInv
  <2>3. NumberEnds(MinInt..MaxInt) = {at' - start} /\ NumberOf(Body(at' - start)) = num
    <3>1. PICK range : range = MinInt..MaxInt OBVIOUS
    <3>2. Value(f, pos) \in range BY <2>1, <2>2, <3>1, Zenon
    <3>3. NumberEnds(range) = {pos - start + 1} /\ NumberOf(Body(pos - start + 1)) = Value(f, pos)
      BY <1>1, <1>4, <1>6, <1>7, <3>2, OneNumber
    <3> QED BY <1>6, <2>1, <3>1, <3>3, Zenon
  <2>4. TextInv' BY <1>1, NoTextRead
  <2> QED BY <1>1, <1>9, <2>3, <2>4, EndsRightly DEF ExactInv, LengthInv, DigitsInv, Ends
<1>10. CASE fn # "read_number"
  <2>1. fn = "skip_number" BY <1>1, <1>10 DEF NumberFn
  <2>2. NumberEnds(Int) = {at' - start} BY <1>1, <1>4, <1>6, <1>7, <1>8, OneNumber
  <2>3. TextInv' BY <1>1, NoTextRead
  <2> QED BY <1>1, <2>1, <2>2, <2>3, EndsRightly DEF ExactInv, LengthInv, DigitsInv, Ends
<1> QED BY <1>9, <1>10

(***************************************************************************)
(* The invariant and what follows from it.                                 *)
(***************************************************************************)
LEMMA AlwaysLexInv == Spec => []LexInv
BY LexInit, LexStep, PTL DEF Spec

(***************************************************************************)
(* The type invariant of a call: the positions never leave the buffer.     *)
(***************************************************************************)
THEOREM TypeCorrect == Spec => []TypeOK
<1>1. LexInv => TypeOK BY DEF LexInv
<1> QED BY <1>1, AlwaysLexInv, PTL

(***************************************************************************)
(* No digit is read behind the end of the buffer, though the loops read    *)
(* before they compare.                                                    *)
(***************************************************************************)
THEOREM AlwaysReadsInside == Spec => []ReadsInside
<1>1. LexInv => ReadsInside BY DEF LexInv
<1> QED BY <1>1, AlwaysLexInv, PTL

(***************************************************************************)
(* No length and no number overflows, whatever the width of the integers,  *)
(* as long as ten times the greatest length fits.                          *)
(***************************************************************************)
THEOREM NeverOverflows == Spec => []NoOverflow
<1>1. LexInv => NoOverflow
  <2> SUFFICES ASSUME LexInv PROVE NoOverflow
    OBVIOUS
  <2>1. num \in Int /\ neg \in BOOLEAN BY DEF LexInv, TypeOK
  <2>2. MinInt <= num /\ num <= MaxInt BY <2>1 DEF LexInv, NumberInv
  <2> QED BY <2>1, <2>2 DEF NoOverflow
<1> QED BY <1>1, AlwaysLexInv, PTL

(***************************************************************************)
(* A call that fails leaves the position where it was, and one that        *)
(* succeeds moves it on.                                                   *)
(***************************************************************************)
THEOREM AlwaysMovesOnSuccess == Spec => []MovesOnSuccess
<1>1. LexInv => MovesOnSuccess BY DEF LexInv, PositionInv, MovesOnSuccess
<1> QED BY <1>1, AlwaysLexInv, PTL

(***************************************************************************)
(* Together.                                                               *)
(***************************************************************************)
LEMMA ExactInit == Init => ExactInv
<1> SUFFICES ASSUME Init PROVE ExactInv
  OBVIOUS
<1>1. LexInv BY LexInit
<1>2. pc = "head" BY DEF Init
<1> QED BY <1>1, <1>2 DEF ExactInv, LengthInv, DigitsInv, TextInv, ReadsExactly, AcceptsText

\* No step leaves it.
LEMMA ExactStep == ExactInv /\ [Next]_lexvars => ExactInv'
<1> SUFFICES ASSUME ExactInv, [Next]_lexvars PROVE ExactInv'
  OBVIOUS
<1>1. LexInv' BY LexStep DEF ExactInv
<1>2. ASSUME UNCHANGED lexvars PROVE ExactInv'
  <2>1. /\ fn' = fn /\ data' = data /\ start' = start /\ at' = at /\ pos' = pos /\ num' = num
        /\ neg' = neg /\ text' = text /\ pc' = pc
    BY <1>2 DEF lexvars
  <2>2. LengthInv' BY <2>1 DEF ExactInv, LengthInv
  <2>3. DigitsInv' BY <2>1 DEF ExactInv, DigitsInv, From
  <2>4. TextInv'
    <3>1. Rest' = Rest /\ StringEnds' = StringEnds /\ TextEnds' = TextEnds BY <2>1, EndsKept
    <3>2. MadeWith(text, ByteAt(at), "possible")' <=> MadeWith(text, ByteAt(at), "possible")
      BY <2>1 DEF MadeWith, ByteAt
    <3> QED BY <2>1, <3>1, <3>2 DEF ExactInv, TextInv, AcceptsText
  <2>5. ReadsExactly'
    <3>1. Ends' = Ends /\ Rest' = Rest BY <2>1, EndsKept
    <3>2. (Body(at - start))' = Body(at - start) BY <2>1, <3>1 DEF Body
    <3> QED BY <2>1, <3>1, <3>2 DEF ExactInv, ReadsExactly
  <2> QED BY <1>1, <2>2, <2>3, <2>4, <2>5 DEF ExactInv
<1> QED BY <1>1, <1>2, StringHeadKeeps, LengthDigitKeeps, LengthEndKeeps, CheckTextKeeps,
        NumberHeadKeeps, NumberDigitKeeps, NumberEndKeeps, Zenon DEF Next

(***************************************************************************)
(* read_number accepts exactly the decimal form of a number in range, and  *)
(* returns that number; skip_number that of any number; read_string        *)
(* exactly a string with the decimal form of its length in front.  For     *)
(* buffers of any length and integers of any width.                        *)
(***************************************************************************)
THEOREM AlwaysReadsExactly == Spec => []ReadsExactly
<1>1. ExactInv => ReadsExactly BY DEF ExactInv
<1> QED BY <1>1, ExactInit, ExactStep, PTL DEF Spec

(***************************************************************************)
(* read_utf8 accepts every string of what the comments of validUTF8Text    *)
(* call text and no other, up to the codes of its two wrong tests, and a   *)
(* string cut off only where the byte behind goes on with the character:   *)
(* whatever the bytes and however many they are.                           *)
(***************************************************************************)
THEOREM AlwaysAcceptsText == Spec => []AcceptsText
<1>1. ExactInv => AcceptsText BY DEF ExactInv, TextInv
<1> QED BY <1>1, ExactInit, ExactStep, PTL DEF Spec

(***************************************************************************)
(* validUTF8 accepts exactly the encodings of Unicode scalar values, and   *)
(* what the byte behind the string makes one.                              *)
(***************************************************************************)
THEOREM AlwaysAcceptsScalars == Spec => []AcceptsScalars
<1>1. LexInv => AcceptsScalars
  <2> SUFFICES ASSUME LexInv PROVE AcceptsScalars
    OBVIOUS
  <2>1. text \in Seq(Byte) /\ ByteAt(at) \in Byte BY BytesRead DEF LexInv
  <2>2. ValidUTF8(text, ByteAt(at)) <=> MadeWith(text, ByteAt(at), "scalar") BY <2>1, ScalarIsMade
  <2> QED BY <2>2, Zenon DEF AcceptsScalars
<1> QED BY <1>1, AlwaysLexInv, PTL
=============================================================================
