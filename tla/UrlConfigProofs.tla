-------------------------- MODULE UrlConfigProofs --------------------------
(***************************************************************************)
(* The counts of PcreHandle are right, for any number of objects the count *)
(* has room for: each operation is a release of a pattern, a share of one, *)
(* or a new one of count 1, or a release and then one of the others, and   *)
(* each of these keeps a count and a function from objects in step.        *)
(*                                                                         *)
(* The options of torrent-sanitize, for any files, flags and bounds.  They *)
(* use the handles of PcreHandle as they are meant to be used: every step  *)
(* of UrlConfig is a step of PcreHandle or leaves the handles alone, so    *)
(* the counts are right whatever the files say. The flags decide the mode  *)
(* and the filter; and the filter a program ends up with has the rules and *)
(* urls that the words of its files describe: nothing of a line, of a rule *)
(* or of a group of rules is lost, doubled or left to a pattern that is    *)
(* not its own.  Each line is divided into the columns that                *)
(* url-filter.example describes, whatever the characters in it.            *)
(***************************************************************************)
EXTENDS UrlConfig, Recursion, FiniteSetTheorems

\* c counts the objects that f maps to a pattern.
Matches(c, f) ==
  /\ f \in [Handle -> Pcre \cup {Null}]
  /\ c \in [Pcre -> 0..RefMax]
  /\ \A p \in Pcre : c[p] = Cardinality({h \in Handle : f[h] = p})

USE HandleAssumption

-----------------------------------------------------------------------------
(***************************************************************************)
(* A set of objects is finite, and the count has room for it.              *)
(***************************************************************************)
LEMMA Room ==
  ASSUME NEW S \in SUBSET Handle
  PROVE  IsFiniteSet(S) /\ Cardinality(S) \in Nat /\ Cardinality(S) < RefMax
<1>1. IsFiniteSet(S) /\ Cardinality(S) <= Cardinality(Handle) BY FS_Subset
<1>2. Cardinality(S) \in Nat /\ Cardinality(Handle) \in Nat BY <1>1, FS_CardinalityType
<1> QED BY <1>1, <1>2

(***************************************************************************)
(* An object that holds a pattern is counted.                              *)
(***************************************************************************)
LEMMA HeldIsCounted ==
  ASSUME NEW c, NEW f, Matches(c, f), NEW h \in Handle, f[h] \in Pcre
  PROVE  c[f[h]] > 0
<1> DEFINE S == {x \in Handle : f[x] = f[h]}
<1>1. h \in S /\ S \in SUBSET Handle OBVIOUS
<1>2. Cardinality(S) # 0 BY <1>1, Room, FS_EmptySet
<1>3. Cardinality(S) \in Nat BY <1>1, Room
<1>4. c[f[h]] = Cardinality(S) BY DEF Matches
<1> QED BY <1>2, <1>3, <1>4

(***************************************************************************)
(* An object gives up what it holds, or nothing (clear).                   *)
(***************************************************************************)
LEMMA ReleaseMatches ==
  ASSUME NEW c, NEW f, Matches(c, f), NEW h \in Handle
  PROVE  Matches(Release(c, f[h]), [f EXCEPT ![h] = Null])
<1> DEFINE g == [f EXCEPT ![h] = Null]
           d == Release(c, f[h])
<1>1. g \in [Handle -> Pcre \cup {Null}] BY DEF Matches
<1>2. CASE f[h] = Null
  <2>1. g = f /\ d = c BY <1>2 DEF Release, Matches
  <2> QED BY <2>1
<1>3. CASE f[h] \in Pcre
  <2>1. c[f[h]] > 0 BY <1>3, HeldIsCounted
  <2>2. d = [c EXCEPT ![f[h]] = c[f[h]] - 1] BY <1>3, <2>1 DEF Release
  <2>3. d \in [Pcre -> 0..RefMax] BY <1>3, <2>1, <2>2 DEF Matches
  <2>4. ASSUME NEW p \in Pcre
        PROVE  d[p] = Cardinality({x \in Handle : g[x] = p})
    <3> DEFINE S == {x \in Handle : f[x] = p}
    <3>1. S \in SUBSET Handle /\ IsFiniteSet(S) /\ c[p] = Cardinality(S)
      BY Room DEF Matches
    <3>2. CASE p # f[h]
      <4>1. {x \in Handle : g[x] = p} = S BY <3>2 DEF Matches
      <4>2. d[p] = c[p] BY <2>2, <3>2 DEF Matches
      <4> QED BY <3>1, <4>1, <4>2
    <3>3. CASE p = f[h]
      <4>1. {x \in Handle : g[x] = p} = S \ {h} BY <3>3 DEF Matches
      <4>2. h \in S BY <3>3
      <4>3. Cardinality(S \ {h}) = Cardinality(S) - 1 BY <3>1, <4>2, FS_RemoveElement
      <4>4. d[p] = c[p] - 1 BY <2>2, <3>3 DEF Matches
      <4> QED BY <3>1, <4>1, <4>3, <4>4
    <3> QED BY <3>2, <3>3
  <2> QED BY <1>1, <2>3, <2>4 DEF Matches
<1> QED BY <1>2, <1>3 DEF Matches

(***************************************************************************)
(* An object that holds nothing gets a pattern, and one more is counted.   *)
(***************************************************************************)
LEMMA GetMatches ==
  ASSUME NEW c, NEW f, Matches(c, f), NEW h \in Handle, f[h] = Null, NEW q \in Pcre
  PROVE  Matches([c EXCEPT ![q] = c[q] + 1], [f EXCEPT ![h] = q]) /\ c[q] < RefMax
<1> DEFINE g == [f EXCEPT ![h] = q]
           d == [c EXCEPT ![q] = c[q] + 1]
<1>1. g \in [Handle -> Pcre \cup {Null}] BY DEF Matches
<1>2. c[q] < RefMax /\ c[q] \in Nat
  <2>1. c[q] = Cardinality({x \in Handle : f[x] = q}) BY DEF Matches
  <2> QED BY <2>1, Room
<1>3. d \in [Pcre -> 0..RefMax] BY <1>2 DEF Matches
<1>4. ASSUME NEW p \in Pcre
      PROVE  d[p] = Cardinality({x \in Handle : g[x] = p})
  <2> DEFINE S == {x \in Handle : f[x] = p}
  <2>1. S \in SUBSET Handle /\ IsFiniteSet(S) /\ c[p] = Cardinality(S)
    BY Room DEF Matches
  <2>2. h \notin S OBVIOUS
  <2>3. CASE p # q
    <3>1. {x \in Handle : g[x] = p} = S BY <2>2, <2>3 DEF Matches
    <3>2. d[p] = c[p] BY <2>3 DEF Matches
    <3> QED BY <2>1, <3>1, <3>2
  <2>4. CASE p = q
    <3>1. {x \in Handle : g[x] = p} = S \cup {h} BY <2>4 DEF Matches
    <3>2. Cardinality(S \cup {h}) = Cardinality(S) + 1 BY <2>1, <2>2, FS_AddElement
    <3>3. d[p] = c[p] + 1 BY <2>4 DEF Matches
    <3> QED BY <2>1, <3>1, <3>2, <3>3
  <2> QED BY <2>3, <2>4
<1> QED BY <1>1, <1>2, <1>3, <1>4 DEF Matches

(***************************************************************************)
(* An object that holds nothing shares what another one holds.             *)
(***************************************************************************)
LEMMA ShareMatches ==
  ASSUME NEW c, NEW f, Matches(c, f), NEW h \in Handle, f[h] = Null,
         NEW other \in Handle
  PROVE  Matches(Share(c, f[other]), [f EXCEPT ![h] = f[other]])
<1>1. CASE f[other] = Null
  <2>1. [f EXCEPT ![h] = f[other]] = f /\ Share(c, f[other]) = c
    BY <1>1 DEF Share, Matches
  <2> QED BY <2>1
<1>2. CASE f[other] \in Pcre
  <2>1. c[f[other]] > 0 BY <1>2, HeldIsCounted
  <2>2. c[f[other]] < RefMax BY <1>2, GetMatches
  <2>3. Share(c, f[other]) = [c EXCEPT ![f[other]] = c[f[other]] + 1]
    BY <1>2, <2>1, <2>2 DEF Share
  <2> QED BY <1>2, <2>3, GetMatches
<1> QED BY <1>1, <1>2 DEF Matches

-----------------------------------------------------------------------------
\* The invariant: types and counts, and objects are where they may be.
HandleInv == HandlesOK /\ Counted

(***************************************************************************)
(* The invariant in the terms of the lemmas.                               *)
(***************************************************************************)
LEMMA InvIsMatches ==
  HandleInv <=> /\ alive \subseteq Handle
                /\ Matches(count, m_re)
                /\ \A h \in Handle \ alive : m_re[h] = Null
BY DEF HandleInv, HandlesOK, Counted, Holders, Matches

(***************************************************************************)
(* The objects begin with no pattern and no counts.                        *)
(***************************************************************************)
LEMMA InitInv == InitHandles => HandleInv
<1> SUFFICES ASSUME InitHandles PROVE HandleInv
  OBVIOUS
<1>1. ASSUME NEW p \in Pcre PROVE {h \in Handle : m_re[h] = p} = {}
  BY DEF InitHandles
<1>2. \A p \in Pcre : count[p] = Cardinality({h \in Handle : m_re[h] = p})
  BY <1>1, FS_EmptySet DEF InitHandles
<1>3. Matches(count, m_re) BY <1>2 DEF InitHandles, Matches
<1> QED BY <1>3, InvIsMatches DEF InitHandles

(***************************************************************************)
(* Every operation keeps the counts right.                                 *)
(***************************************************************************)
LEMMA StepInv == HandleInv /\ [NextHandles]_handlevars => HandleInv'
<1> SUFFICES ASSUME HandleInv, [NextHandles]_handlevars
             PROVE  HandleInv'
  OBVIOUS
<1>0. /\ alive \subseteq Handle
      /\ Matches(count, m_re)
      /\ \A h \in Handle \ alive : m_re[h] = Null
  BY InvIsMatches
<1>f. m_re \in [Handle -> Pcre \cup {Null}] /\ count \in [Pcre -> 0..RefMax]
  BY <1>0 DEF Matches
<1>inv. (HandleInv)' <=> /\ alive' \subseteq Handle
                        /\ Matches(count', m_re')
                        /\ \A h \in Handle \ alive' : m_re'[h] = Null
  BY DEF HandleInv, HandlesOK, Counted, Holders, Matches
<1>1. ASSUME NEW h \in Handle, Construct(h) PROVE HandleInv'
  <2>1. m_re' = m_re BY <1>0, <1>1, <1>f DEF Construct
  <2> QED BY <1>0, <1>1, <1>inv, <2>1 DEF Construct
<1>2. ASSUME NEW h \in Handle, NEW p \in Pcre, Load(h, p) PROVE HandleInv'
  <2> DEFINE f == [m_re EXCEPT ![h] = Null]
             c == Release(count, m_re[h])
  <2>1. Matches(c, f) /\ f[h] = Null BY <1>0, <1>f, ReleaseMatches
  <2>2. m_re' = [f EXCEPT ![h] = p] BY <1>2, <1>f DEF Load
  <2>3. c[p] = 0 /\ count' = [c EXCEPT ![p] = 1] BY <1>2 DEF Load
  <2> HIDE DEF c, f
  <2>4. count' = [c EXCEPT ![p] = c[p] + 1] BY <2>3
  <2>5. Matches(count', m_re') BY <2>1, <2>2, <2>4, GetMatches
  <2>6. alive' = alive /\ h \in alive BY <1>2 DEF Load
  <2>7. \A x \in Handle \ alive : m_re'[x] = m_re[x] BY <1>2, <1>f, <2>6 DEF Load
  <2> QED BY <1>0, <1>inv, <2>5, <2>6, <2>7
<1>3. ASSUME NEW h \in Handle, LoadFails(h) PROVE HandleInv'
  <2>1. Matches(count', m_re') BY <1>0, <1>3, ReleaseMatches DEF LoadFails
  <2>2. \A x \in Handle \ alive : m_re'[x] = m_re[x] BY <1>3, <1>f DEF LoadFails
  <2> QED BY <1>0, <1>3, <1>inv, <2>1, <2>2 DEF LoadFails
<1>4. ASSUME NEW h \in Handle, Destroy(h) PROVE HandleInv'
  <2>1. Matches(count', m_re') BY <1>0, <1>4, ReleaseMatches DEF Destroy
  <2>2. \A x \in Handle \ alive' : m_re'[x] = Null BY <1>0, <1>4, <1>f DEF Destroy
  <2> QED BY <1>0, <1>4, <1>inv, <2>1, <2>2 DEF Destroy
<1>5. ASSUME NEW h \in Handle, NEW other \in Handle, Copy(h, other) PROVE HandleInv'
  <2>1. m_re[h] = Null BY <1>0, <1>5 DEF Copy
  <2>2. Matches(count', m_re') BY <1>0, <1>5, <2>1, ShareMatches DEF Copy
  <2>3. \A x \in Handle \ alive' : m_re'[x] = Null BY <1>0, <1>5, <1>f DEF Copy
  <2> QED BY <1>0, <1>5, <1>inv, <2>2, <2>3 DEF Copy
<1>6. ASSUME NEW h \in Handle, NEW other \in Handle, Assign(h, other) PROVE HandleInv'
  <2> DEFINE f == [m_re EXCEPT ![h] = Null]
             c == Release(count, m_re[h])
  <2>1. Matches(c, f) /\ f[h] = Null BY <1>0, <1>f, ReleaseMatches
  <2>2. f[other] = m_re[other] BY <1>6, <1>f DEF Assign
  <2>3. m_re' = [f EXCEPT ![h] = f[other]] BY <1>6, <1>f, <2>2 DEF Assign
  <2>4. count' = Share(c, f[other]) BY <1>6, <2>2 DEF Assign
  <2> HIDE DEF c, f
  <2>5. Matches(count', m_re') BY <2>1, <2>3, <2>4, ShareMatches
  <2>6. alive' = alive /\ h \in alive BY <1>6 DEF Assign
  <2>7. \A x \in Handle \ alive : m_re'[x] = m_re[x] BY <1>6, <1>f, <2>6 DEF Assign
  <2> QED BY <1>0, <1>inv, <2>5, <2>6, <2>7
<1>7. CASE UNCHANGED handlevars
  BY <1>0, <1>7, <1>inv DEF handlevars
<1> QED BY <1>1, <1>2, <1>3, <1>4, <1>5, <1>6, <1>7 DEF NextHandles

(***************************************************************************)
(* However objects are constructed, loaded, copied, assigned and           *)
(* destroyed, a pattern is freed exactly when no object holds it any more. *)
(***************************************************************************)
THEOREM AlwaysCounted == HandleSpec => []Counted
<1>1. HandleInv => Counted BY DEF HandleInv
<1> QED BY <1>1, InitInv, StepInv, PTL DEF HandleSpec

-----------------------------------------------------------------------------
USE ConfigAssumption

\* What the steps need: the handles as they should be, and a list of rules.
ConfigInv == HandleInv /\ \E S : rules \in Seq(S)

(***************************************************************************)
(* Everything starts with no handles and no rules.                         *)
(***************************************************************************)
LEMMA ConfigInit == Init => InitHandles /\ ConfigInv
<1> SUFFICES ASSUME Init PROVE InitHandles /\ ConfigInv
  OBVIOUS
<1>1. InitHandles BY DEF Init
<1>2. rules \in Seq({}) BY DEF Init
<1> QED BY <1>1, <1>2, InitInv DEF ConfigInv

(***************************************************************************)
(* The objects on the stack and in the vector are handles.                 *)
(***************************************************************************)
LEMMA ObjectsAreHandles ==
  /\ Objects \subseteq Handle
  /\ Rep \in Objects
  /\ \A n \in 1..Len(Members) : Members[n] \in Objects
  /\ \A n \in 1..MaxRules : Slot(n) \in Objects
<1>1. \A n \in 1..Len(Members) : Members[n] \in Range(Members)
  BY DEF Range, Members, Meta
<1> QED BY <1>1 DEF Objects

(***************************************************************************)
(* Every step is one of PcreHandle or leaves the handles alone.            *)
(***************************************************************************)
LEMMA ConfigStep ==
  ConfigInv /\ [Next]_vars => [NextHandles]_handlevars
<1> SUFFICES ASSUME ConfigInv, [Next]_vars
             PROVE  [NextHandles]_handlevars
  OBVIOUS
<1>0. alive \subseteq Handle /\ Cardinality(alive) \in Nat
  BY Room DEF ConfigInv, HandleInv, HandlesOK
<1>l. ASSUME NEW h, NEW a, Compile(h, a) PROVE NextHandles
  BY <1>0, <1>l DEF Compile, Load, NextHandles
<1>f. ASSUME NEW h, LoadFails(h) PROVE NextHandles
  BY <1>0, <1>f DEF LoadFails, NextHandles
<1>d. ASSUME NEW h, Destroy(h) PROVE NextHandles
  BY <1>0, <1>d DEF Destroy, NextHandles
<1>1. CASE ConstructMember
  <2>1. Cardinality(alive) + 1 \in 1..Len(Members)
    BY <1>0, <1>1 DEF ConstructMember, Members, Meta
  <2> QED BY <1>1, <2>1, ObjectsAreHandles DEF ConstructMember, NextHandles
<1>2. CASE LoadDefault BY <1>2, <1>l DEF LoadDefault
<1>3. CASE FlagOption BY <1>3 DEF FlagOption
<1>4. CASE MetaOption BY <1>4, <1>l, <1>f DEF MetaOption
<1>5. CASE FileOption BY <1>5 DEF FileOption
<1>6. CASE ReadLine BY <1>6 DEF ReadLine
<1>7. CASE ReadRule BY <1>7, ObjectsAreHandles DEF ReadRule, NextHandles
<1>8. CASE LoadRule BY <1>8, <1>l, <1>f DEF LoadRule
<1>9. CASE PushRule
  <2>1. PICK S : rules \in Seq(S) BY DEF ConfigInv
  <2>2. Len(rules) < MaxRules BY <1>9 DEF PushRule
  <2>3. Len(rules) + 1 \in 1..MaxRules BY <2>1, <2>2
  <2> QED BY <1>9, <2>3, ObjectsAreHandles DEF PushRule, NextHandles
<1>10. CASE EndRule BY <1>10, <1>d DEF EndRule
<1>11. CASE LoadWhitelist BY <1>11, <1>l, <1>f DEF LoadWhitelist
<1>12. CASE LoadBlacklist BY <1>12, <1>l, <1>f DEF LoadBlacklist
<1>13. CASE Run BY <1>13 DEF Run
<1>14. CASE Syntax BY <1>14 DEF Syntax
<1>15. CASE DestroyMember BY <1>15, <1>d DEF DestroyMember
<1>16. CASE Return BY <1>16 DEF Return
<1>17. CASE UNCHANGED vars BY <1>17 DEF vars
<1> QED
  BY <1>1, <1>2, <1>3, <1>4, <1>5, <1>6, <1>7, <1>8, <1>9, <1>10, <1>11, <1>12, <1>13,
     <1>14, <1>15, <1>16, <1>17 DEF Next

(***************************************************************************)
(* The rules stay a list.                                                  *)
(***************************************************************************)
LEMMA ConfigKept == ConfigInv /\ [Next]_vars => ConfigInv'
<1> SUFFICES ASSUME ConfigInv, [Next]_vars PROVE ConfigInv'
  OBVIOUS
<1>1. HandleInv' BY ConfigStep, StepInv DEF ConfigInv
<1>2. \E S : rules' \in Seq(S)
  <2>1. PICK S : rules \in Seq(S) BY DEF ConfigInv
  <2>2. CASE PushRule
    <3>1. rules' = Append(rules, cols) BY <2>2 DEF PushRule
    <3>2. rules \in Seq(S \cup {cols}) BY <2>1
    <3> QED BY <3>1, <3>2
  <2>3. CASE rules' = rules BY <2>1, <2>3
  <2>4. PushRule \/ rules' = rules
    BY DEF Next, vars, loadvars, ConstructMember, LoadDefault, FlagOption, MetaOption,
       FileOption, ReadLine, ReadRule, LoadRule, EndRule, LoadWhitelist, LoadBlacklist,
       Run, Syntax, DestroyMember, Return
  <2> QED BY <2>2, <2>3, <2>4
<1> QED BY <1>1, <1>2 DEF ConfigInv

(***************************************************************************)
(* Loading the configuration is a use of PcreHandle.                       *)
(***************************************************************************)
THEOREM UsesHandles == Spec => HandleSpec
<1>1. Init => InitHandles /\ ConfigInv BY ConfigInit
<1> QED BY <1>1, ConfigStep, ConfigKept, PTL DEF Spec, HandleSpec

(***************************************************************************)
(* Whatever the options and files are, and wherever loading fails: no      *)
(* pattern of a filter is freed while it is in use, and none is lost.      *)
(***************************************************************************)
THEOREM ConfigCounted == Spec => []Counted
BY UsesHandles, AlwaysCounted, PTL

-----------------------------------------------------------------------------
(***************************************************************************)
(* A text without the spaces in front is a text, and not longer.           *)
(***************************************************************************)
LEMMA TrimmedType ==
  ASSUME NEW s \in Seq(Char)
  PROVE  /\ Trimmed(s) \in Seq(Char) /\ Len(Trimmed(s)) <= Len(s)
         /\ s # <<>> /\ s[1] = Space => Len(Trimmed(s)) < Len(s)
<1> DEFINE I == {i \in 1..Len(s) : s[i] # Space}
           n == SelectInSeq(s, LAMBDA c : c # Space)
<1>0. Len(s) \in Nat BY LenProperties
<1>1. n = IF I # {} THEN Min(I) ELSE 0 BY DEF SelectInSeq
<1>2. I # {} => Min(I) \in I
  <2>1. I \in SUBSET Nat BY <1>0
  <2> HIDE DEF I
  <2>2. I # {} => \E m \in I : \A k \in I : m <= k BY <2>1, LeastExists
  <2> QED BY <2>2, Zenon DEF Min
<1>3. n = 0 \/ (n \in 1..Len(s) /\ s[n] # Space) BY <1>1, <1>2
<1>4. Trimmed(s) = IF n = 0 THEN <<>> ELSE SubSeq(s, n, Len(s)) BY DEF Trimmed
<1> HIDE DEF n, I
<1>5. CASE n = 0
  <2>1. Trimmed(s) = <<>> BY <1>4, <1>5
  <2>2. s # <<>> => Len(s) > 0 BY EmptySeq
  <2> QED BY <1>0, <2>1, <2>2, EmptySeq
<1>6. CASE n \in 1..Len(s) /\ s[n] # Space
  <2>1. Trimmed(s) = SubSeq(s, n, Len(s)) BY <1>0, <1>4, <1>6
  <2>2. n \in Int /\ n <= Len(s) /\ \A i \in n..Len(s) : s[i] \in Char BY <1>0, <1>6
  <2>3. SubSeq(s, n, Len(s)) \in Seq(Char) /\ Len(SubSeq(s, n, Len(s))) = Len(s) - n + 1
    BY <1>0, <2>2, SubSeqProperties
  <2>4. s[1] = Space => n # 1 BY <1>6
  <2> QED BY <1>0, <1>6, <2>1, <2>3, <2>4
<1> QED BY <1>3, <1>5, <1>6

(***************************************************************************)
(* What is behind the first word is a text, and shorter.                   *)
(***************************************************************************)
LEMMA BehindType ==
  ASSUME NEW s \in Seq(Char), s # <<>>
  PROVE  Word(s) \in Seq(Char) /\ Behind(s) \in Seq(Char) /\ Len(Behind(s)) < Len(s)
<1> DEFINE I == {i \in 1..Len(s) : s[i] = Space}
           n == SelectInSeq(s, LAMBDA c : c = Space)
           e == WordEnd(s)
<1>0. Len(s) \in Nat \ {0} BY EmptySeq
<1>1. n = IF I # {} THEN Min(I) ELSE 0 BY DEF SelectInSeq
<1>2. I # {} => Min(I) \in I
  <2>1. I \in SUBSET Nat BY <1>0
  <2> HIDE DEF I
  <2>2. I # {} => \E m \in I : \A k \in I : m <= k BY <2>1, LeastExists
  <2> QED BY <2>2, Zenon DEF Min
<1>3. n = 0 \/ (n \in 1..Len(s) /\ s[n] = Space) BY <1>1, <1>2
<1>4. e = IF n = 0 THEN Len(s) ELSE n - 1 BY DEF WordEnd
<1> HIDE DEF n, I
<1>5. e \in 0..Len(s) /\ (e = 0 => s[1] = Space) BY <1>0, <1>3, <1>4
<1> HIDE DEF e
<1>6. Word(s) \in Seq(Char)
  <2>1. \A i \in 1..e : s[i] \in Char BY <1>0, <1>5
  <2>2. SubSeq(s, 1, e) \in Seq(Char) BY <1>5, <2>1, SubSeqProperties
  <2> QED BY <2>2 DEF Word, e
<1>7. PICK t : t = SubSeq(s, e + 1, Len(s)) OBVIOUS
<1>8. t \in Seq(Char) /\ Len(t) = Len(s) - e /\ (e < Len(s) => t[1] = s[e + 1])
  <2>1. e + 1 \in Int /\ Len(s) \in Int /\ \A i \in (e + 1)..Len(s) : s[i] \in Char BY <1>0, <1>5
  <2>2. /\ SubSeq(s, e + 1, Len(s)) \in Seq(Char)
        /\ Len(SubSeq(s, e + 1, Len(s))) = IF e + 1 <= Len(s) THEN Len(s) - (e + 1) + 1 ELSE 0
        /\ \A i \in 1..(Len(s) - (e + 1) + 1) : SubSeq(s, e + 1, Len(s))[i] = s[e + 1 + i - 1]
    BY <2>1, SubSeqProperties
  <2>3. Len(t) = Len(s) - e BY <1>0, <1>5, <1>7, <2>2
  <2>4. ASSUME e < Len(s) PROVE t[1] = s[e + 1]
    <3>1. 1 \in 1..(Len(s) - (e + 1) + 1) BY <1>0, <1>5, <2>4
    <3>2. SubSeq(s, e + 1, Len(s))[1] = s[e + 1 + 1 - 1] BY <2>2, <3>1
    <3>3. e + 1 + 1 - 1 = e + 1 BY <1>5
    <3> QED BY <1>7, <3>2, <3>3
  <2> QED BY <1>7, <2>2, <2>3, <2>4
<1>9. Behind(s) = Trimmed(t) BY <1>7 DEF Behind, e
<1>10. Trimmed(t) \in Seq(Char) /\ Len(Trimmed(t)) <= Len(t)
       /\ (t # <<>> /\ t[1] = Space => Len(Trimmed(t)) < Len(t))
  BY <1>8, TrimmedType
<1>11. Len(Trimmed(t)) < Len(s)
  <2>1. Len(Trimmed(t)) \in Nat BY <1>10, LenProperties
  <2>2. CASE e > 0 BY <1>0, <1>5, <1>8, <1>10, <2>1, <2>2
  <2>3. CASE e = 0
    <3>1. t[1] = Space /\ Len(t) = Len(s) BY <1>0, <1>5, <1>8, <2>3
    <3>2. t # <<>> BY <1>0, <3>1, EmptySeq
    <3> QED BY <1>10, <3>1, <3>2
  <2> QED BY <1>5, <2>2, <2>3
<1> QED BY <1>6, <1>9, <1>10, <1>11

\* What the columns are computed with.
Splits(f) ==
  f = [s \in Seq(Char) |-> IF s = <<>> \/ s[1] = "#" THEN <<>> ELSE <<Word(s)>> \o f[Behind(s)]]

(***************************************************************************)
(* The loop of splitLine ends: the recursive function of Columns exists.   *)
(***************************************************************************)
LEMMA SplitsExists == \E f \in [Seq(Char) -> Seq(Seq(Char))] : Splits(f)
<1> DEFINE D == Seq(Char)
           R == Seq(Seq(Char))
           m == [s \in D |-> Len(s)]
           B == [z \in D \X [D -> R] |->
                   IF z[1] = <<>> \/ z[1][1] = "#" THEN <<>> ELSE <<Word(z[1])>> \o z[2][Behind(z[1])]]
<1>1. m \in [D -> Nat] BY LenProperties
<1>2. R # {} BY EmptySeq
<1>3. B \in [D \X [D -> R] -> R]
  <2> SUFFICES ASSUME NEW s \in D, NEW f \in [D -> R]
               PROVE  (IF s = <<>> \/ s[1] = "#" THEN <<>> ELSE <<Word(s)>> \o f[Behind(s)]) \in R
    OBVIOUS
  <2>1. <<>> \in R BY EmptySeq
  <2>2. CASE s # <<>>
    <3>1. <<Word(s)>> \in R BY <2>2, BehindType
    <3>2. f[Behind(s)] \in R BY <2>2, BehindType
    <3> QED BY <2>1, <3>1, <3>2, ConcatProperties
  <2> QED BY <2>1, <2>2
<1>4. \A s \in D, f \in [D -> R] :
        B[<<s, f>>] = IF s = <<>> \/ s[1] = "#" THEN <<>> ELSE <<Word(s)>> \o f[Behind(s)]
  OBVIOUS
<1>5. \A s \in D : m[s] = Len(s) OBVIOUS
<1>6. LooksBack(D, R, m, B)
  <2> HIDE DEF B, m, R, D
  <2> SUFFICES ASSUME NEW s \in D, NEW f \in [D -> R], NEW g \in [D -> R],
                      \A t \in D : m[t] < m[s] => f[t] = g[t]
               PROVE  B[<<s, f>>] = B[<<s, g>>]
    BY DEF LooksBack
  <2>1. CASE s = <<>> BY <1>4, <2>1
  <2>2. CASE s # <<>>
    <3>1. Behind(s) \in D /\ Len(Behind(s)) < Len(s) BY <2>2, BehindType DEF D
    <3>2. f[Behind(s)] = g[Behind(s)] BY <1>5, <3>1
    <3>3. B[<<s, f>>] = IF s = <<>> \/ s[1] = "#" THEN <<>> ELSE <<Word(s)>> \o f[Behind(s)]
      BY <1>4
    <3>4. B[<<s, g>>] = IF s = <<>> \/ s[1] = "#" THEN <<>> ELSE <<Word(s)>> \o g[Behind(s)]
      BY <1>4
    <3> QED BY <3>2, <3>3, <3>4
  <2> QED BY <2>1, <2>2
<1>7. \E f \in [D -> R] : \A s \in D : f[s] = B[<<s, f>>]
  <2> HIDE DEF B, m, R, D
  <2>1. PICK b, n, d, r : b = B /\ n = m /\ d = D /\ r = R OBVIOUS
  <2>2. Defines(D, R, m, B) BY <1>1, <1>2, <1>3, <1>6, Zenon DEF Defines
  <2>3. Defines(d, r, n, b) BY <2>1, <2>2, Zenon
  <2>4. Solvable(d, r, b) BY <2>3, SolutionExists
  <2> QED BY <2>1, <2>4, Zenon DEF Solvable
<1>8. PICK f \in [D -> R] : \A s \in D : f[s] = B[<<s, f>>] BY <1>7
<1>9. \A s \in D : f[s] = IF s = <<>> \/ s[1] = "#" THEN <<>> ELSE <<Word(s)>> \o f[Behind(s)]
  BY <1>4, <1>8
<1>10. Splits(f)
  <2> HIDE DEF B, m
  <2> QED BY <1>9 DEF Splits
<1> QED BY <1>10

(***************************************************************************)
(* splitLine returns a list of columns, for any line.                      *)
(***************************************************************************)
LEMMA ColumnsType ==
  ASSUME NEW text \in Seq(Char)
  PROVE  Columns(text) \in Seq(Seq(Char))
<1> DEFINE g == CHOOSE f : Splits(f)
<1>1. Splits(g) BY SplitsExists, Zenon
<1>2. Columns(text) = g[Trimmed(text)] BY DEF Columns, Splits
<1> HIDE DEF g
<1>3. \A s \in Seq(Char) :
        g[s] = IF s = <<>> \/ s[1] = "#" THEN <<>> ELSE <<Word(s)>> \o g[Behind(s)]
  BY <1>1 DEF Splits
<1> DEFINE T == {n \in Nat : \A s \in Seq(Char) : Len(s) < n => g[s] \in Seq(Seq(Char))}
<1>4. 0 \in T BY LenProperties
<1>5. ASSUME NEW n \in T PROVE n + 1 \in T
  <2> SUFFICES ASSUME NEW s \in Seq(Char), Len(s) < n + 1
               PROVE  g[s] \in Seq(Seq(Char))
    BY <1>5
  <2>1. <<>> \in Seq(Seq(Char)) BY EmptySeq
  <2>2. CASE s # <<>>
    <3>1. Word(s) \in Seq(Char) /\ Behind(s) \in Seq(Char) /\ Len(Behind(s)) < Len(s)
      BY <2>2, BehindType
    <3>2. Len(Behind(s)) \in Nat /\ Len(s) \in Nat BY <3>1, LenProperties
    <3>3. Len(Behind(s)) < n BY <1>5, <3>1, <3>2
    <3>4. g[Behind(s)] \in Seq(Seq(Char)) BY <1>5, <3>1, <3>3
    <3>5. <<Word(s)>> \o g[Behind(s)] \in Seq(Seq(Char)) BY <3>1, <3>4, ConcatProperties
    <3> QED BY <1>3, <2>1, <3>5
  <2> QED BY <1>3, <2>1, <2>2
<1>6. T = Nat
  <2>1. T \in SUBSET Nat OBVIOUS
  <2> HIDE DEF T
  <2> QED BY <1>4, <1>5, <2>1, Induction
<1>7. Trimmed(text) \in Seq(Char) /\ Len(Trimmed(text)) + 1 \in Nat
  BY TrimmedType, LenProperties
<1>8. Len(Trimmed(text)) + 1 \in T BY <1>6, <1>7
<1> QED BY <1>2, <1>7, <1>8

(***************************************************************************)
(* So does all of splitLine.                                               *)
(***************************************************************************)
LEMMA SplitLineType ==
  ASSUME NEW line \in Seq(Char)
  PROVE  SplitLine(line) \in Seq(Seq(Char))
<1>1. PICK s : s = Trimmed(line) OBVIOUS
<1>2. s \in Seq(Char) BY <1>1, TrimmedType
<1>3. SplitLine(line) = IF s = <<>> THEN <<>>
                        ELSE IF Prefix(s) = <<>> THEN Columns(s)
                        ELSE <<Prefix(s)>> \o Columns(SubSeq(s, Len(Prefix(s)) + 1, Len(s)))
  BY <1>1 DEF SplitLine
<1>4. CASE s = <<>> BY <1>3, <1>4, EmptySeq
<1>5. CASE s # <<>>
  <2>0. Len(s) \in Nat \ {0} BY <1>2, <1>5, EmptySeq
  <2>1. s[1] \in Char BY <1>2, <2>0
  <2>2. Prefix(s) \in Seq(Char)
    <3>1. Prefix(s) \in {<<>>, <<s[1]>>, <<"-">>, <<"-", "-">>} BY DEF Prefix
    <3>2. \A S : \A x, y \in S : <<>> \in Seq(S) /\ <<x>> \in Seq(S) /\ <<x, y>> \in Seq(S)
      OBVIOUS
    <3>3. "-" \in Char BY CharAssumption, Zenon
    <3>4. <<>> \in Seq(Char) /\ <<"-">> \in Seq(Char) /\ <<"-", "-">> \in Seq(Char)
      BY ONLY <3>2, <3>3, Zenon
    <3>5. <<s[1]>> \in Seq(Char) BY <2>1
    <3> QED BY <3>1, <3>4, <3>5
  <2>3. PICK n \in Nat : n = Len(Prefix(s)) BY <2>2, LenProperties
  <2>4. \A i \in (n + 1)..Len(s) : s[i] \in Char BY <1>2, <2>0, <2>3
  <2>5. SubSeq(s, n + 1, Len(s)) \in Seq(Char) BY <2>0, <2>4, SubSeqProperties
  <2>6. Columns(SubSeq(s, n + 1, Len(s))) \in Seq(Seq(Char)) BY <2>5, ColumnsType
  <2>7. <<Prefix(s)>> \in Seq(Seq(Char)) BY <2>2
  <2>8. <<Prefix(s)>> \o Columns(SubSeq(s, n + 1, Len(s))) \in Seq(Seq(Char))
    BY <2>6, <2>7, ConcatProperties
  <2>9. Columns(s) \in Seq(Seq(Char)) BY <1>2, ColumnsType
  <2> QED BY <1>3, <1>5, <2>3, <2>8, <2>9
<1> QED BY <1>4, <1>5

-----------------------------------------------------------------------------
(***************************************************************************)
(* What a line gives are words and rules.                                  *)
(***************************************************************************)
LEMMA LineType ==
  ASSUME NEW line \in Seq(Char)
  PROVE  /\ \A prefix : WordsOf(line, prefix) \in Seq(Seq(Char))
         /\ RuleOf(line) \in Seq(Seq(Seq(Char)))
<1>1. PICK c \in Seq(Seq(Char)) : c = SplitLine(line) BY SplitLineType
<1>2. c # <<>> => Tail(c) \in Seq(Seq(Char)) BY HeadTailProperties
<1>3. <<>> \in Seq(Seq(Char)) /\ <<>> \in Seq(Seq(Seq(Char))) BY EmptySeq
<1>4. <<c>> \in Seq(Seq(Seq(Char))) BY <1>1
<1> QED BY <1>1, <1>2, <1>3, <1>4 DEF WordsOf, RuleOf

(***************************************************************************)
(* What the lines of a text give, and what one more gives.                 *)
(***************************************************************************)
LEMMA TextGives ==
  ASSUME NEW text \in Seq(Seq(Char)), NEW prefix
  PROVE  /\ Words(text, prefix) \in Seq(Seq(Char))
         /\ RulesIn(text) \in Seq(Seq(Seq(Char)))
         /\ \A line \in Seq(Char) :
              /\ Words(Append(text, line), prefix) = Words(text, prefix) \o WordsOf(line, prefix)
              /\ RulesIn(Append(text, line)) = RulesIn(text) \o RuleOf(line)
<1> DEFINE w == [n \in 1..Len(text) |-> WordsOf(text[n], prefix)]
           r == [n \in 1..Len(text) |-> RuleOf(text[n])]
<1>0. Len(text) \in Nat BY LenProperties
<1>1. w \in Seq(Seq(Seq(Char))) /\ Len(w) = Len(text)
  <2>1. \A n \in 1..Len(text) : WordsOf(text[n], prefix) \in Seq(Seq(Char))
    BY LineType, ElementOfSeq
  <2> QED BY <1>0, <2>1
<1>2. r \in Seq(Seq(Seq(Seq(Char)))) /\ Len(r) = Len(text)
  <2>1. \A n \in 1..Len(text) : RuleOf(text[n]) \in Seq(Seq(Seq(Char)))
    BY LineType, ElementOfSeq
  <2> QED BY <1>0, <2>1
<1>3. Words(text, prefix) = FlattenSeq(w) /\ RulesIn(text) = FlattenSeq(r)
  BY DEF Words, RulesIn
<1>4. ASSUME NEW line \in Seq(Char)
      PROVE  /\ Words(Append(text, line), prefix) = FlattenSeq(Append(w, WordsOf(line, prefix)))
             /\ RulesIn(Append(text, line)) = FlattenSeq(Append(r, RuleOf(line)))
  <2>1. PICK more : more = Append(text, line) OBVIOUS
  <2>2. /\ Len(more) = Len(text) + 1
        /\ \A n \in 1..Len(text) : more[n] = text[n]
        /\ more[Len(text) + 1] = line
    BY <2>1, AppendProperties
  <2>3. ASSUME NEW n \in 1..Len(more)
        PROVE  (n \in 1..Len(text) /\ more[n] = text[n]) \/ (n = Len(text) + 1 /\ more[n] = line)
    BY <1>0, <2>2
  <2>4. [n \in 1..Len(more) |-> WordsOf(more[n], prefix)] = Append(w, WordsOf(line, prefix))
    <3>1. PICK x : x = WordsOf(line, prefix) OBVIOUS
    <3>2. Append(w, x) = [n \in 1..(Len(text) + 1) |-> IF n = Len(text) + 1 THEN x ELSE w[n]]
      BY <1>1
    <3>3. ASSUME NEW n \in 1..Len(more)
          PROVE  WordsOf(more[n], prefix) = IF n = Len(text) + 1 THEN x ELSE w[n]
      <4>1. CASE n \in 1..Len(text) /\ more[n] = text[n]
        <5>1. w[n] = WordsOf(more[n], prefix) /\ n # Len(text) + 1 BY <1>0, <4>1
        <5> QED BY <5>1
      <4>2. CASE n = Len(text) + 1 /\ more[n] = line BY <3>1, <4>2
      <4> QED BY <2>3, <4>1, <4>2
    <3> QED BY <2>2, <3>1, <3>2, <3>3
  <2>5. [n \in 1..Len(more) |-> RuleOf(more[n])] = Append(r, RuleOf(line))
    <3>1. PICK x : x = RuleOf(line) OBVIOUS
    <3>2. Append(r, x) = [n \in 1..(Len(text) + 1) |-> IF n = Len(text) + 1 THEN x ELSE r[n]]
      BY <1>2
    <3>3. ASSUME NEW n \in 1..Len(more)
          PROVE  RuleOf(more[n]) = IF n = Len(text) + 1 THEN x ELSE r[n]
      <4>1. CASE n \in 1..Len(text) /\ more[n] = text[n]
        <5>1. r[n] = RuleOf(more[n]) /\ n # Len(text) + 1 BY <1>0, <4>1
        <5> QED BY <5>1
      <4>2. CASE n = Len(text) + 1 /\ more[n] = line BY <3>1, <4>2
      <4> QED BY <2>3, <4>1, <4>2
    <3> QED BY <2>2, <3>1, <3>2, <3>3
  <2>6. Words(more, prefix) = FlattenSeq(Append(w, WordsOf(line, prefix)))
    BY <2>4, Zenon DEF Words
  <2>7. RulesIn(more) = FlattenSeq(Append(r, RuleOf(line))) BY <2>5, Zenon DEF RulesIn
  <2> QED BY <2>1, <2>6, <2>7
<1> HIDE DEF w, r
<1>5. \A line \in Seq(Char) :
        /\ FlattenSeq(Append(w, WordsOf(line, prefix))) = FlattenSeq(w) \o WordsOf(line, prefix)
        /\ FlattenSeq(Append(r, RuleOf(line))) = FlattenSeq(r) \o RuleOf(line)
  BY <1>1, <1>2, LineType, FlattenAppend
<1>6. FlattenSeq(w) \in Seq(Seq(Char)) /\ FlattenSeq(r) \in Seq(Seq(Seq(Char)))
  BY <1>1, <1>2, FlattenType
<1> QED BY <1>3, <1>4, <1>5, <1>6

(***************************************************************************)
(* What files give, and what one more gives.                               *)
(***************************************************************************)
LEMMA FilesGive ==
  ASSUME NEW fs \in Seq(File), NEW prefix
  PROVE  /\ AllWords(fs, prefix) \in Seq(Seq(Char))
         /\ AllRules(fs) \in Seq(Seq(Seq(Char)))
         /\ \A f \in File :
              /\ AllWords(Append(fs, f), prefix) = AllWords(fs, prefix) \o Words(f.text, prefix)
              /\ AllRules(Append(fs, f)) = AllRules(fs) \o RulesIn(f.text)
<1> DEFINE w == [n \in 1..Len(fs) |-> Words(fs[n].text, prefix)]
           r == [n \in 1..Len(fs) |-> RulesIn(fs[n].text)]
<1>0. Len(fs) \in Nat BY LenProperties
<1>t. \A f \in File : Words(f.text, prefix) \in Seq(Seq(Char))
                      /\ RulesIn(f.text) \in Seq(Seq(Seq(Char)))
  BY TextGives
<1>1. w \in Seq(Seq(Seq(Char))) /\ Len(w) = Len(fs)
  <2>1. \A n \in 1..Len(fs) : Words(fs[n].text, prefix) \in Seq(Seq(Char))
    BY <1>t, ElementOfSeq
  <2> QED BY <1>0, <2>1
<1>2. r \in Seq(Seq(Seq(Seq(Char)))) /\ Len(r) = Len(fs)
  <2>1. \A n \in 1..Len(fs) : RulesIn(fs[n].text) \in Seq(Seq(Seq(Char)))
    BY <1>t, ElementOfSeq
  <2> QED BY <1>0, <2>1
<1>3. AllWords(fs, prefix) = FlattenSeq(w) /\ AllRules(fs) = FlattenSeq(r)
  BY DEF AllWords, AllRules
<1>4. ASSUME NEW f \in File
      PROVE  /\ AllWords(Append(fs, f), prefix) = FlattenSeq(Append(w, Words(f.text, prefix)))
             /\ AllRules(Append(fs, f)) = FlattenSeq(Append(r, RulesIn(f.text)))
  <2>1. PICK more : more = Append(fs, f) OBVIOUS
  <2>2. /\ Len(more) = Len(fs) + 1
        /\ \A n \in 1..Len(fs) : more[n] = fs[n]
        /\ more[Len(fs) + 1] = f
    BY <2>1, AppendProperties
  <2>3. ASSUME NEW n \in 1..Len(more)
        PROVE  (n \in 1..Len(fs) /\ more[n] = fs[n]) \/ (n = Len(fs) + 1 /\ more[n] = f)
    BY <1>0, <2>2
  <2>4. [n \in 1..Len(more) |-> Words(more[n].text, prefix)] = Append(w, Words(f.text, prefix))
    <3>1. PICK x : x = Words(f.text, prefix) OBVIOUS
    <3>2. Append(w, x) = [n \in 1..(Len(fs) + 1) |-> IF n = Len(fs) + 1 THEN x ELSE w[n]]
      BY <1>1
    <3>3. ASSUME NEW n \in 1..Len(more)
          PROVE  Words(more[n].text, prefix) = IF n = Len(fs) + 1 THEN x ELSE w[n]
      <4>1. CASE n \in 1..Len(fs) /\ more[n] = fs[n]
        <5>1. w[n] = Words(more[n].text, prefix) /\ n # Len(fs) + 1 BY <1>0, <4>1
        <5> QED BY <5>1
      <4>2. CASE n = Len(fs) + 1 /\ more[n] = f BY <3>1, <4>2
      <4> QED BY <2>3, <4>1, <4>2
    <3> QED BY <2>2, <3>1, <3>2, <3>3
  <2>5. [n \in 1..Len(more) |-> RulesIn(more[n].text)] = Append(r, RulesIn(f.text))
    <3>1. PICK x : x = RulesIn(f.text) OBVIOUS
    <3>2. Append(r, x) = [n \in 1..(Len(fs) + 1) |-> IF n = Len(fs) + 1 THEN x ELSE r[n]]
      BY <1>2
    <3>3. ASSUME NEW n \in 1..Len(more)
          PROVE  RulesIn(more[n].text) = IF n = Len(fs) + 1 THEN x ELSE r[n]
      <4>1. CASE n \in 1..Len(fs) /\ more[n] = fs[n]
        <5>1. r[n] = RulesIn(more[n].text) /\ n # Len(fs) + 1 BY <1>0, <4>1
        <5> QED BY <5>1
      <4>2. CASE n = Len(fs) + 1 /\ more[n] = f BY <3>1, <4>2
      <4> QED BY <2>3, <4>1, <4>2
    <3> QED BY <2>2, <3>1, <3>2, <3>3
  <2>6. AllWords(more, prefix) = FlattenSeq(Append(w, Words(f.text, prefix)))
    BY <2>4, Zenon DEF AllWords
  <2>7. AllRules(more) = FlattenSeq(Append(r, RulesIn(f.text))) BY <2>5, Zenon DEF AllRules
  <2> QED BY <2>1, <2>6, <2>7
<1> HIDE DEF w, r
<1>5. \A f \in File :
        /\ FlattenSeq(Append(w, Words(f.text, prefix))) = FlattenSeq(w) \o Words(f.text, prefix)
        /\ FlattenSeq(Append(r, RulesIn(f.text))) = FlattenSeq(r) \o RulesIn(f.text)
  BY <1>t, <1>1, <1>2, FlattenAppend
<1>6. FlattenSeq(w) \in Seq(Seq(Char)) /\ FlattenSeq(r) \in Seq(Seq(Seq(Char)))
  BY <1>1, <1>2, FlattenType
<1> QED BY <1>3, <1>4, <1>5, <1>6

-----------------------------------------------------------------------------
\* The parts of the invariant.
TypeInv ==
  /\ HandleInv /\ TypeOK
  /\ lines \in Seq(Seq(Char)) /\ cols \in Seq(Seq(Char))
  /\ regex = [p \in Pcre |-> regex[p]]

\* The flags decide about info, and a program that is chosen keeps its flags.
ModeInv ==
  /\ info = IF "i" \in flags THEN 1 ELSE IF flags \cap {"h", "u"} # {} THEN 0 ELSE -1
  /\ pc \notin {"return", "exited"} => status = "none"
  /\ ModeFromFlags

\* Of the last of these files the lines ln are left, and what the lines before
\* them and the other files say has been collected.
ReadSo(fs, ln, ad, ls, ru) ==
  /\ fs # <<>>
  /\ \E n \in 0..Len(Last(fs).text) :
       LET read == SubSeq(Last(fs).text, 1, n)
       IN /\ ln = SubSeq(Last(fs).text, n + 1, Len(Last(fs).text))
          /\ ad = AllWords(Front(fs), Plus) \o Words(read, Plus)
          /\ ls = [white |-> Words(read, Star), black |-> Words(read, Minus),
                   domains |-> Words(read, MinusMinus)]
          /\ ru = AllRules(Front(fs)) \o RulesIn(read)

Loading == pc \in {"lines", "load", "push", "next", "blacklist"}

LoadInv ==
  Loading =>
    /\ ReadSo(files, lines, added, lists,
              IF pc \in {"load", "push"} THEN Append(rules, cols) ELSE rules)
    /\ pc = "push" => Has(Rep, {Url(cols[1])})
    /\ pc = "blacklist" => lines = <<>> /\ Has(Whitelist, WhiteOf(Last(files).text))

\* The members of san get their patterns one after the other.
StartInv ==
  pc = "construct" =>
    /\ files = <<>> /\ added = <<>> /\ rules = <<>>
    /\ \A n \in 2..Len(Meta) : m_re[Meta[n]] # Null => m_re[Meta[n - 1]] # Null

\* As long as nothing has failed no pattern is missing.
PatternInv ==
  Loading \/ pc = "options" =>
    /\ \A n \in 1..Len(Meta) : m_re[Meta[n]] # Null
    /\ \A n \in 1..Len(rules) : Has(Slot(n), {Url(rules[n][1])})

OptionsInv ==
  pc = "options" =>
    /\ added = AllWords(files, Plus) /\ rules = AllRules(files)
    /\ files # <<>> => /\ Has(Whitelist, WhiteOf(Last(files).text))
                       /\ Has(Blacklist, BlackOf(Last(files).text))

FilterInv == StartInv /\ LoadInv /\ PatternInv /\ OptionsInv

-----------------------------------------------------------------------------
(***************************************************************************)
(* The members of san that hold patterns are objects.                      *)
(***************************************************************************)
LEMMA MembersAreObjects ==
  /\ \A n \in 1..Len(Meta) : Meta[n] \in Objects
  /\ Whitelist \in Objects /\ Blacklist \in Objects
<1>1. /\ Meta[1] = Members[1] /\ Meta[2] = Members[2] /\ Meta[3] = Members[3]
      /\ Whitelist = Members[4] /\ Blacklist = Members[5]
      /\ Len(Meta) = 3 /\ Len(Members) = 5
  BY DEF Meta, Members
<1>2. \A n \in 1..Len(Meta) : n = 1 \/ n = 2 \/ n = 3 BY <1>1
<1>3. 1 \in 1..Len(Members) /\ 2 \in 1..Len(Members) /\ 3 \in 1..Len(Members)
      /\ 4 \in 1..Len(Members) /\ 5 \in 1..Len(Members)
  BY <1>1
<1> QED BY <1>1, <1>2, <1>3, ObjectsAreHandles

(***************************************************************************)
(* The types hold at the start.                                            *)
(***************************************************************************)
LEMMA TypeInit == Init => TypeInv
<1> SUFFICES ASSUME Init PROVE TypeInv
  OBVIOUS
<1>1. HandleInv BY ConfigInit DEF ConfigInv
<1>2. /\ files = <<>> /\ flags = {} /\ info = -1 /\ added = <<>> /\ rules = <<>>
      /\ lines = <<>> /\ cols = <<>> /\ alive = {} /\ status = "none"
      /\ regex = [p \in Pcre |-> {}]
  BY DEF Init, InitHandles
<1>3. /\ files \in Seq(File) /\ added \in Seq(Seq(Char)) /\ rules \in Seq(Seq(Seq(Char)))
      /\ lines \in Seq(Seq(Char)) /\ cols \in Seq(Seq(Char)) /\ Len(rules) = 0
  BY <1>2, EmptySeq
<1>4. regex = [p \in Pcre |-> regex[p]] BY <1>2
<1>5. TypeOK BY <1>1, <1>2, <1>3 DEF TypeOK, HandleInv
<1> QED BY <1>1, <1>3, <1>4, <1>5 DEF TypeInv

(***************************************************************************)
(* A step changes at most these; the pattern of a place is defined.        *)
(***************************************************************************)
LEMMA CompileType ==
  ASSUME TypeInv, NEW h \in Objects, NEW a, Compile(h, a)
  PROVE  alive' \subseteq Objects /\ regex' = [p \in Pcre |-> regex'[p]]
<1>1. PICK p \in Pcre : Load(h, p) /\ regex' = [regex EXCEPT ![p] = a] BY DEF Compile
<1>2. alive' = alive BY <1>1 DEF Load
<1>3. regex' = [q \in Pcre |-> regex'[q]] BY <1>1 DEF TypeInv
<1> QED BY <1>2, <1>3 DEF TypeInv, TypeOK

(***************************************************************************)
(* Every step keeps the types.                                             *)
(***************************************************************************)
LEMMA TypeStep == TypeInv /\ [Next]_vars => TypeInv'
<1> SUFFICES ASSUME TypeInv, [Next]_vars PROVE TypeInv'
  OBVIOUS
<1>1. HandleInv'
  <2>1. ConfigInv BY DEF ConfigInv, TypeInv, TypeOK
  <2> QED BY <2>1, ConfigStep, StepInv DEF ConfigInv
<1>t. /\ status \in {"none", "sanitize", "info", "hash", "urls", "2", "100"}
      /\ files \in Seq(File) /\ flags \subseteq Flag /\ info \in {-1, 0, 1}
      /\ added \in Seq(Seq(Char)) /\ rules \in Seq(Seq(Seq(Char))) /\ Len(rules) <= MaxRules
      /\ alive \subseteq Objects
      /\ lines \in Seq(Seq(Char)) /\ cols \in Seq(Seq(Char))
      /\ regex = [p \in Pcre |-> regex[p]]
  BY DEF TypeInv, TypeOK
<1> DEFINE Handles == alive' \subseteq Objects /\ regex' = [p \in Pcre |-> regex'[p]]
           Rest == /\ status' \in {"none", "sanitize", "info", "hash", "urls", "2", "100"}
                   /\ files' \in Seq(File) /\ flags' \subseteq Flag /\ info' \in {-1, 0, 1}
                   /\ added' \in Seq(Seq(Char))
                   /\ rules' \in Seq(Seq(Seq(Char))) /\ Len(rules') <= MaxRules
                   /\ lines' \in Seq(Seq(Char)) /\ cols' \in Seq(Seq(Char))
<1>2. Handles
  <2>l. ASSUME NEW h \in Objects, NEW a, Compile(h, a) PROVE Handles BY <2>l, CompileType
  <2>f. ASSUME NEW h, LoadFails(h) \/ Destroy(h), UNCHANGED regex PROVE Handles
    BY <1>t, <2>f DEF LoadFails, Destroy
  <2>c. ASSUME NEW h \in Objects, NEW other, Construct(h) \/ Copy(h, other), UNCHANGED regex
        PROVE  Handles
    BY <1>t, <2>c DEF Construct, Copy
  <2>u. ASSUME UNCHANGED <<handlevars, regex>> PROVE Handles BY <1>t, <2>u DEF handlevars
  <2> HIDE DEF Handles
  <2>1. CASE ConstructMember
    <3>1. Cardinality(alive) + 1 \in 1..Len(Members)
      <4>1. Cardinality(alive) \in Nat BY Room DEF TypeInv, HandleInv, HandlesOK
      <4> QED BY <2>1, <4>1 DEF ConstructMember, Members, Meta
    <3>2. Members[Cardinality(alive) + 1] \in Objects BY <3>1, ObjectsAreHandles
    <3> QED BY <2>1, <2>c, <3>2 DEF ConstructMember
  <2>2. CASE LoadDefault BY <2>2, <2>l, MembersAreObjects DEF LoadDefault
  <2>3. CASE MetaOption BY <2>3, <2>l, <2>f, MembersAreObjects DEF MetaOption
  <2>4. CASE ReadRule BY <2>4, <2>c, ObjectsAreHandles DEF ReadRule
  <2>5. CASE LoadRule BY <2>5, <2>l, <2>f, ObjectsAreHandles DEF LoadRule
  <2>6. CASE PushRule
    <3>1. Len(rules) + 1 \in 1..MaxRules
      <4>1. Len(rules) \in Nat /\ Len(rules) < MaxRules BY <1>t, <2>6, LenProperties DEF PushRule
      <4> QED BY <4>1
    <3>2. Slot(Len(rules) + 1) \in Objects BY <3>1, ObjectsAreHandles
    <3> QED BY <2>6, <2>c, <3>2 DEF PushRule
  <2>7. CASE EndRule BY <2>7, <2>f DEF EndRule
  <2>8. CASE LoadWhitelist BY <2>8, <2>l, <2>f, MembersAreObjects DEF LoadWhitelist
  <2>9. CASE LoadBlacklist BY <2>9, <2>l, <2>f, MembersAreObjects DEF LoadBlacklist
  <2>10. CASE DestroyMember BY <2>10, <2>f DEF DestroyMember
  <2>11. CASE FlagOption \/ FileOption \/ ReadLine \/ Run \/ Syntax \/ Return \/ UNCHANGED vars
    BY <2>11, <2>u DEF FlagOption, FileOption, ReadLine, Run, Syntax, Return, vars
  <2> QED BY <2>1, <2>2, <2>3, <2>4, <2>5, <2>6, <2>7, <2>8, <2>9, <2>10, <2>11 DEF Next
<1>3. Rest
  <2>1. CASE FlagOption
    <3>1. PICK c \in Flag : GiveFlag(c) BY <2>1 DEF FlagOption
    <3> QED BY <1>t, <2>1, <3>1 DEF FlagOption, GiveFlag, loadvars
  <2>2. CASE FileOption
    <3>1. PICK f \in File : files' = Append(files, f) /\ lines' = f.text BY <2>2 DEF FileOption
    <3> QED BY <1>t, <2>2, <3>1 DEF FileOption
  <2>3. CASE ReadLine
    <3>1. Head(lines) \in Seq(Char) /\ lines' \in Seq(Seq(Char))
      BY <1>t, <2>3, HeadTailProperties DEF ReadLine
    <3>2. PICK c : c = SplitLine(Head(lines)) OBVIOUS
    <3>3. c \in Seq(Seq(Char)) BY <3>1, <3>2, SplitLineType
    <3>4. added' = IF c # <<>> /\ c[1] = Plus THEN added \o Tail(c) ELSE added
      BY <2>3, <3>2 DEF ReadLine
    <3>5. c # <<>> => added \o Tail(c) \in Seq(Seq(Char))
      BY <1>t, <3>3, HeadTailProperties, ConcatProperties
    <3>6. added' \in Seq(Seq(Char)) BY <1>t, <3>4, <3>5
    <3> QED BY <1>t, <2>3, <3>1, <3>6 DEF ReadLine, mainvars
  <2>4. CASE ReadRule
    <3>1. Head(lines) \in Seq(Char) /\ lines' \in Seq(Seq(Char))
      BY <1>t, <2>4, HeadTailProperties DEF ReadRule
    <3>2. cols' \in Seq(Seq(Char)) BY <2>4, <3>1, SplitLineType DEF ReadRule
    <3> QED BY <1>t, <2>4, <3>1, <3>2 DEF ReadRule, mainvars
  <2>5. CASE PushRule
    <3>1. rules' = Append(rules, cols) /\ Len(rules) < MaxRules BY <2>5 DEF PushRule
    <3>2. rules' \in Seq(Seq(Seq(Char))) /\ Len(rules') = Len(rules) + 1
      BY <1>t, <3>1, AppendProperties
    <3>3. Len(rules') <= MaxRules
      <4>1. Len(rules) \in Nat BY <1>t, LenProperties
      <4> QED BY <3>1, <3>2, <4>1
    <3> QED BY <1>t, <2>5, <3>2, <3>3 DEF PushRule, mainvars
  <2>6. CASE EndRule
    <3>1. cols' = <<>> BY <2>6 DEF EndRule
    <3>2. cols' \in Seq(Seq(Char)) BY <3>1, EmptySeq
    <3> QED BY <1>t, <2>6, <3>2 DEF EndRule, Refuse
  <2>7. CASE Run
    BY <1>t, <2>7 DEF Run, Mode, loadvars
  <2>8. CASE ConstructMember \/ LoadDefault \/ MetaOption \/ LoadRule \/ LoadWhitelist
             \/ LoadBlacklist \/ Syntax \/ DestroyMember \/ Return \/ UNCHANGED vars
    BY <1>t, <2>8 DEF ConstructMember, LoadDefault, MetaOption, LoadRule, LoadWhitelist,
       LoadBlacklist, Syntax, DestroyMember, Return, Refuse, vars, loadvars, mainvars
  <2> QED BY <2>1, <2>2, <2>3, <2>4, <2>5, <2>6, <2>7, <2>8 DEF Next
<1>4. TypeOK' BY <1>1, <1>2, <1>3 DEF TypeOK, HandleInv
<1> QED BY <1>1, <1>2, <1>3, <1>4 DEF TypeInv

(***************************************************************************)
(* TypeOK holds for any files, flags and bounds.                           *)
(***************************************************************************)
THEOREM TypeCorrect == Spec => []TypeOK
<1>1. TypeInv => TypeOK BY DEF TypeInv
<1> QED BY <1>1, TypeInit, TypeStep, PTL DEF Spec

-----------------------------------------------------------------------------
(***************************************************************************)
(* splitLine divides a line where url-filter.example says.                 *)
(***************************************************************************)
\* c are the columns of the line that begin at the positions of a set.
Enumerates(c, line, K) ==
  \E p \in [1..Len(c) -> K] :
    /\ \A m \in 1..Len(c) : \A n \in 1..(m - 1) : p[n] < p[m]
    /\ \A i \in K : \E m \in 1..Len(c) : p[m] = i
    /\ \A m \in 1..Len(c) : c[m] = Column(line, p[m])

\* Where the columns from a position on begin.
KeptFrom(line, a) ==
  {i \in Starts(line) : a <= i /\ \A k \in Starts(line) : a <= k /\ k <= i => line[k] # "#"}

\* No column goes over a position, and what is glued to a prefix is not behind.
Boundary(line, a) ==
  /\ a \in 1..(Len(line) + 1)
  /\ \/ a = 1 \/ a = Len(line) + 1 \/ line[a] = Space
     \/ a > 1 /\ line[a - 1] = Space
     \/ a \in Glued(line)
  /\ \A g \in Glued(line) : g <= a

(***************************************************************************)
(* A part of a text is a text.                                             *)
(***************************************************************************)
LEMMA TextPart ==
  ASSUME NEW line \in Seq(Char), NEW a \in 1..(Len(line) + 1), NEW e \in (a - 1)..Len(line)
  PROVE  /\ SubSeq(line, a, e) \in Seq(Char) /\ Len(SubSeq(line, a, e)) = e - a + 1
         /\ \A k \in 1..(e - a + 1) : SubSeq(line, a, e)[k] = line[a + k - 1]
<1>1. a \in Int /\ e \in Int /\ Len(line) \in Nat OBVIOUS
<1>2. \A i \in a..e : line[i] \in Char
  <2>1. \A i \in a..e : i \in 1..Len(line) BY <1>1
  <2> QED BY <2>1
<1>3. /\ SubSeq(line, a, e) \in Seq(Char)
      /\ Len(SubSeq(line, a, e)) = IF a <= e THEN e - a + 1 ELSE 0
      /\ \A i \in 1..(e - a + 1) : SubSeq(line, a, e)[i] = line[a + i - 1]
  BY ONLY <1>1, <1>2, SubSeqProperties
<1> QED BY <1>1, <1>3

(***************************************************************************)
(* A part of what is behind a position is a part of the whole.             *)
(***************************************************************************)
LEMMA RestPart ==
  ASSUME NEW line \in Seq(Char), NEW a \in 1..(Len(line) + 1),
         NEW x \in 1..(Len(line) - a + 2), NEW y \in (x - 1)..(Len(line) - a + 1)
  PROVE  SubSeq(SubSeq(line, a, Len(line)), x, y) = SubSeq(line, a + x - 1, a + y - 1)
<1>0. Len(line) \in Nat OBVIOUS
<1>1. PICK r : r = SubSeq(line, a, Len(line)) OBVIOUS
<1>2. Len(line) \in (a - 1)..Len(line) BY <1>0
<1>3. /\ r \in Seq(Char) /\ Len(r) = Len(line) - a + 1
      /\ \A k \in 1..(Len(line) - a + 1) : r[k] = line[a + k - 1]
  BY <1>1, <1>2, TextPart
<1>4. x \in 1..(Len(r) + 1) /\ y \in (x - 1)..Len(r) BY <1>0, <1>3
<1>5. PICK s : s = SubSeq(r, x, y) OBVIOUS
<1>6. s \in Seq(Char) /\ Len(s) = y - x + 1 /\ \A k \in 1..(y - x + 1) : s[k] = r[x + k - 1]
  BY <1>3, <1>4, <1>5, TextPart
<1>7. PICK b, e : b = a + x - 1 /\ e = a + y - 1 OBVIOUS
<1>8. b \in 1..(Len(line) + 1) /\ e \in (b - 1)..Len(line) /\ e - b + 1 = y - x + 1 BY <1>0, <1>7
<1>9. PICK t : t = SubSeq(line, b, e) OBVIOUS
<1>10. t \in Seq(Char) /\ Len(t) = e - b + 1 /\ \A k \in 1..(e - b + 1) : t[k] = line[b + k - 1]
  BY <1>8, <1>9, TextPart
<1>11. Len(s) = Len(t) BY <1>6, <1>8, <1>10
<1>12. ASSUME NEW k \in 1..Len(s) PROVE s[k] = t[k]
  <2>1. k \in 1..(y - x + 1) /\ k \in 1..(e - b + 1) BY <1>6, <1>8
  <2>2. x + k - 1 \in 1..(Len(line) - a + 1) /\ a + (x + k - 1) - 1 = b + k - 1
    BY <1>0, <1>7, <2>1
  <2>3. s[k] = r[x + k - 1] BY <1>6, <2>1
  <2>4. r[x + k - 1] = line[a + (x + k - 1) - 1] BY <1>3, <2>2
  <2>5. t[k] = line[b + k - 1] BY <1>10, <2>1
  <2> QED BY <2>2, <2>3, <2>4, <2>5
<1>13. s = t BY <1>6, <1>10, <1>11, <1>12, SeqEqual
<1> QED BY <1>1, <1>5, <1>7, <1>9, <1>13

(***************************************************************************)
(* Trimming goes to the next character that is none of the spaces.         *)
(***************************************************************************)
LEMMA TrimmedIs ==
  ASSUME NEW line \in Seq(Char), NEW a \in 1..(Len(line) + 1)
  PROVE  \E b \in a..(Len(line) + 1) :
           /\ Trimmed(SubSeq(line, a, Len(line))) = SubSeq(line, b, Len(line))
           /\ \A i \in a..(b - 1) : line[i] = Space
           /\ b <= Len(line) => line[b] # Space
<1>0. Len(line) \in Nat /\ Len(line) \in (a - 1)..Len(line) OBVIOUS
<1>1. PICK s : s = SubSeq(line, a, Len(line)) OBVIOUS
<1>2. /\ s \in Seq(Char) /\ Len(s) = Len(line) - a + 1
      /\ \A k \in 1..(Len(line) - a + 1) : s[k] = line[a + k - 1]
  BY <1>0, <1>1, TextPart
<1> DEFINE I == {i \in 1..Len(s) : s[i] # Space}
           n == SelectInSeq(s, LAMBDA c : c # Space)
<1>3. n = IF I # {} THEN Min(I) ELSE 0 BY DEF SelectInSeq
<1>4. I # {} => Min(I) \in I /\ \A k \in I : Min(I) <= k
  <2>1. I \in SUBSET Nat BY <1>2
  <2> HIDE DEF I
  <2>2. I # {} => \E m \in I : \A k \in I : m <= k BY <2>1, LeastExists
  <2> QED BY <2>2, Zenon DEF Min
<1>5. Trimmed(s) = IF n = 0 THEN <<>> ELSE SubSeq(s, n, Len(s)) BY DEF Trimmed
<1>6. CASE I = {}
  <2>1. Trimmed(s) = <<>> BY <1>3, <1>5, <1>6
  <2>2. SubSeq(line, Len(line) + 1, Len(line)) = <<>>
    <3>1. Len(line) + 1 \in 1..(Len(line) + 1) /\ Len(line) \in (Len(line) + 1 - 1)..Len(line) BY <1>0
    <3>2. /\ SubSeq(line, Len(line) + 1, Len(line)) \in Seq(Char)
          /\ Len(SubSeq(line, Len(line) + 1, Len(line))) = Len(line) - (Len(line) + 1) + 1
      BY <3>1, TextPart
    <3>3. Len(SubSeq(line, Len(line) + 1, Len(line))) = 0 BY <1>0, <3>2
    <3> QED BY <3>2, <3>3, EmptySeq
  <2>3. ASSUME NEW i \in a..Len(line) PROVE line[i] = Space
    <3>1. i - a + 1 \in 1..Len(s) /\ a + (i - a + 1) - 1 = i BY <1>0, <1>2
    <3>2. s[i - a + 1] = Space BY <1>6, <3>1
    <3>3. s[i - a + 1] = line[a + (i - a + 1) - 1] BY <1>2, <3>1
    <3> QED BY <3>1, <3>2, <3>3
  <2>4. Len(line) + 1 \in a..(Len(line) + 1) /\ ~(Len(line) + 1 <= Len(line)) /\ (Len(line) + 1) - 1 = Len(line)
    BY <1>0
  <2> QED BY <1>1, <2>1, <2>2, <2>3, <2>4
<1>7. CASE I # {}
  <2>1. n \in I /\ \A k \in I : n <= k BY <1>3, <1>4, <1>7
  <2>2. n \in 1..Len(s) /\ s[n] # Space BY <2>1
  <2>3. \A i \in 1..(n - 1) : s[i] = Space
    <3>1. SUFFICES ASSUME NEW i \in 1..(n - 1), s[i] # Space PROVE FALSE
      OBVIOUS
    <3> HIDE DEF n
    <3>2. i \in 1..Len(s) /\ ~(n <= i) BY <1>2, <2>2
    <3>3. i \in I BY <3>1, <3>2
    <3> QED BY <2>1, <3>2, <3>3
  <2> HIDE DEF n, I
  <2>4. Trimmed(s) = SubSeq(s, n, Len(s)) BY <1>2, <1>5, <2>2
  <2>5. PICK b : b = a + n - 1 OBVIOUS
  <2>6. b \in a..Len(line) /\ b \in a..(Len(line) + 1) BY <1>0, <1>2, <2>2, <2>5
  <2>7. SubSeq(s, n, Len(s)) = SubSeq(line, b, Len(line))
    <3>1. /\ n \in 1..(Len(line) - a + 2) /\ Len(s) \in (n - 1)..(Len(line) - a + 1)
          /\ a + Len(s) - 1 = Len(line)
      BY <1>0, <1>2, <2>2
    <3>2. SubSeq(s, n, Len(s)) = SubSeq(line, a + n - 1, a + Len(s) - 1) BY <1>1, <3>1, RestPart
    <3> QED BY <2>5, <3>1, <3>2
  <2>8. line[b] # Space BY <1>2, <2>2, <2>5
  <2>9. ASSUME NEW i \in a..(b - 1) PROVE line[i] = Space
    <3>0. PICK l \in Nat : l = Len(line) BY <1>0
    <3>1. a \in 1..(l + 1) /\ n \in 1..(l - a + 1) /\ b = a + n - 1 BY <1>2, <2>2, <2>5, <3>0
    <3>2. PICK k : k = i - a + 1 OBVIOUS
    <3>3. k \in 1..(n - 1) BY ONLY <3>1, <3>2, i \in a..(b - 1), l \in Nat
    <3>4. k \in 1..(l - a + 1) /\ a + k - 1 = i BY ONLY <3>1, <3>2, i \in a..(b - 1), l \in Nat
    <3>5. s[k] = Space BY <2>3, <3>3
    <3>6. s[k] = line[a + k - 1] BY <1>2, <3>0, <3>4
    <3> QED BY <3>4, <3>5, <3>6
  <2> QED BY <1>1, <2>4, <2>6, <2>7, <2>8, <2>9
<1> QED BY <1>6, <1>7

(***************************************************************************)
(* A word goes to the next space.                                          *)
(***************************************************************************)
LEMMA WordIs ==
  ASSUME NEW line \in Seq(Char), NEW a \in 1..Len(line), line[a] # Space
  PROVE  \E e \in a..Len(line) :
           /\ \A k \in a..e : line[k] # Space
           /\ e < Len(line) => line[e + 1] = Space
           /\ Word(SubSeq(line, a, Len(line))) = SubSeq(line, a, e)
           /\ Behind(SubSeq(line, a, Len(line))) = Trimmed(SubSeq(line, e + 1, Len(line)))
<1>0. Len(line) \in Nat /\ a \in 1..(Len(line) + 1) /\ Len(line) \in (a - 1)..Len(line) OBVIOUS
<1>1. PICK s : s = SubSeq(line, a, Len(line)) OBVIOUS
<1>2. /\ s \in Seq(Char) /\ Len(s) = Len(line) - a + 1
      /\ \A k \in 1..(Len(line) - a + 1) : s[k] = line[a + k - 1]
  BY <1>0, <1>1, TextPart
<1> DEFINE I == {i \in 1..Len(s) : s[i] = Space}
           n == SelectInSeq(s, LAMBDA c : c = Space)
           w == WordEnd(s)
<1>3. n = IF I # {} THEN Min(I) ELSE 0 BY DEF SelectInSeq
<1>4. I # {} => Min(I) \in I /\ \A k \in I : Min(I) <= k
  <2>1. I \in SUBSET Nat BY <1>2
  <2> HIDE DEF I
  <2>2. I # {} => \E m \in I : \A k \in I : m <= k BY <2>1, LeastExists
  <2> QED BY <2>2, Zenon DEF Min
<1>5. w = IF n = 0 THEN Len(s) ELSE n - 1 BY DEF WordEnd
<1>6. s[1] # Space /\ 1 \in 1..Len(s)
  <2>1. 1 \in 1..(Len(line) - a + 1) /\ a + 1 - 1 = a BY <1>0
  <2> QED BY <1>2, <2>1
<1>7. /\ w \in 1..Len(s) /\ \A k \in 1..w : s[k] # Space
      /\ w < Len(s) => s[w + 1] = Space
  <2>1. CASE I = {}
    <3>1. w = Len(s) BY <1>3, <1>5, <2>1
    <3>2. \A k \in 1..Len(s) : s[k] # Space BY <2>1
    <3> HIDE DEF w
    <3>3. Len(s) \in 1..Len(s) /\ ~(Len(s) < Len(s)) BY <1>0, <1>2
    <3> QED BY ONLY <3>1, <3>2, <3>3
  <2>2. CASE I # {}
    <3>1. n \in I /\ \A k \in I : n <= k BY <1>3, <1>4, <2>2
    <3> HIDE DEF n
    <3>2. n \in 1..Len(s) /\ s[n] = Space /\ n # 1 BY <1>6, <3>1
    <3>3. w = n - 1 BY <1>5, <3>2
    <3> HIDE DEF w
    <3>4. ASSUME NEW k \in 1..w PROVE s[k] # Space
      <4>1. k \in 1..Len(s) /\ ~(n <= k) BY <1>2, <3>2, <3>3
      <4> QED BY <3>1, <4>1
    <3>5. w \in 1..Len(s) /\ w + 1 = n BY <1>2, <3>2, <3>3
    <3> QED BY <3>2, <3>4, <3>5
  <2> QED BY <2>1, <2>2
<1>8. Word(s) = SubSeq(s, 1, w) /\ Behind(s) = Trimmed(SubSeq(s, w + 1, Len(s))) BY DEF Word, Behind
<1> HIDE DEF n, I, w
<1>9. PICK e : e = a + w - 1 OBVIOUS
<1>10. e \in a..Len(line) /\ e + 1 = a + (w + 1) - 1 BY <1>0, <1>2, <1>7, <1>9
<1>11. SubSeq(s, 1, w) = SubSeq(line, a, e)
  <2>1. 1 \in 1..(Len(line) - a + 2) /\ w \in (1 - 1)..(Len(line) - a + 1) /\ a + 1 - 1 = a
    BY <1>0, <1>2, <1>7
  <2>2. SubSeq(s, 1, w) = SubSeq(line, a + 1 - 1, a + w - 1) BY <1>0, <1>1, <2>1, RestPart
  <2> QED BY <1>9, <2>1, <2>2
<1>12. SubSeq(s, w + 1, Len(s)) = SubSeq(line, e + 1, Len(line))
  <2>1. /\ w + 1 \in 1..(Len(line) - a + 2) /\ Len(s) \in (w + 1 - 1)..(Len(line) - a + 1)
        /\ a + Len(s) - 1 = Len(line)
    BY <1>0, <1>2, <1>7
  <2>2. PICK x, y : x = w + 1 /\ y = Len(s) OBVIOUS
  <2>3. x \in 1..(Len(line) - a + 2) /\ y \in (x - 1)..(Len(line) - a + 1) BY <2>1, <2>2
  <2>4. SubSeq(SubSeq(line, a, Len(line)), x, y) = SubSeq(line, a + x - 1, a + y - 1)
    BY ONLY line \in Seq(Char), a \in 1..(Len(line) + 1), <1>0, <2>3, RestPart
  <2> QED BY <1>1, <1>10, <2>1, <2>2, <2>4
<1>13. ASSUME NEW k \in a..e PROVE line[k] # Space
  <2>1. k - a + 1 \in 1..w /\ k - a + 1 \in 1..(Len(line) - a + 1) /\ a + (k - a + 1) - 1 = k
    BY <1>0, <1>2, <1>7, <1>9
  <2>2. s[k - a + 1] = line[a + (k - a + 1) - 1] BY <1>2, <2>1
  <2> QED BY <1>7, <2>1, <2>2
<1>14. ASSUME e < Len(line) PROVE line[e + 1] = Space
  <2>1. w < Len(s) /\ w + 1 \in 1..(Len(line) - a + 1) BY <1>0, <1>2, <1>7, <1>9, <1>14
  <2>2. s[w + 1] = line[a + (w + 1) - 1] BY <1>2, <2>1
  <2> QED BY <1>7, <1>10, <2>1, <2>2
<1> QED BY <1>1, <1>8, <1>10, <1>11, <1>12, <1>13, <1>14

(***************************************************************************)
(* A column ends at a space or where the text behind a prefix begins.      *)
(***************************************************************************)
LEMMA ColumnIs ==
  ASSUME NEW line \in Seq(Char), NEW b \in 1..Len(line), NEW e \in b..Len(line),
         \A k \in b..e : line[k] # Space /\ (k > b => k \notin Glued(line)),
         e < Len(line) => line[e + 1] = Space \/ e + 1 \in Glued(line)
  PROVE  Column(line, b) = SubSeq(line, b, e)
<1>0. Len(line) \in Nat OBVIOUS
<1> DEFINE End(j) == /\ \A k \in b..j : line[k] # Space /\ (k > b => k \notin Glued(line))
                     /\ j < Len(line) => line[j + 1] = Space \/ j + 1 \in Glued(line)
<1>1. End(e) OBVIOUS
<1>2. ASSUME NEW j \in b..Len(line), End(j) PROVE j = e
  <2>1. CASE j < e
    <3>1. j < Len(line) /\ j + 1 \in b..e /\ j + 1 > b BY <1>0, <2>1
    <3>2. line[j + 1] = Space \/ j + 1 \in Glued(line) BY <1>2, <3>1
    <3> QED BY <1>1, <3>1, <3>2
  <2>2. CASE e < j
    <3>1. e < Len(line) /\ e + 1 \in b..j /\ e + 1 > b BY <1>0, <2>2
    <3>2. line[e + 1] = Space \/ e + 1 \in Glued(line) BY <1>1, <3>1
    <3> QED BY <1>2, <3>1, <3>2
  <2> QED BY <1>0, <2>1, <2>2
<1>3. Column(line, b) = SubSeq(line, b, CHOOSE j \in b..Len(line) : End(j)) BY Zenon DEF Column
<1> HIDE DEF End
<1>4. (CHOOSE j \in b..Len(line) : End(j)) = e BY <1>1, <1>2, Zenon
<1> QED BY <1>3, <1>4

(***************************************************************************)
(* One column more, in front of the others.                                *)
(***************************************************************************)
LEMMA OneMoreColumn ==
  ASSUME NEW line \in Seq(Char), NEW c \in Seq(Seq(Char)), NEW K \in SUBSET Int,
         Enumerates(c, line, K), NEW b \in Int, \A i \in K : b < i,
         NEW w \in Seq(Char), w = Column(line, b)
  PROVE  Enumerates(<<w>> \o c, line, {b} \cup K)
<1>1. PICK p \in [1..Len(c) -> K] :
        /\ \A m \in 1..Len(c) : \A n \in 1..(m - 1) : p[n] < p[m]
        /\ \A i \in K : \E m \in 1..Len(c) : p[m] = i
        /\ \A m \in 1..Len(c) : c[m] = Column(line, p[m])
  BY DEF Enumerates
<1>2. PICK d : d = <<w>> \o c OBVIOUS
<1>3. PICK l \in Nat : l = Len(c) BY LenProperties
<1>4. Len(d) = l + 1 /\ d[1] = w /\ \A m \in 2..(l + 1) : d[m] = c[m - 1]
  BY <1>2, <1>3
<1>5. PICK q : q = [m \in 1..(l + 1) |-> IF m = 1 THEN b ELSE p[m - 1]] OBVIOUS
<1>6. q[1] = b BY <1>3, <1>5
<1>7. ASSUME NEW m \in 2..(l + 1)
      PROVE  m - 1 \in 1..l /\ q[m] = p[m - 1] /\ p[m - 1] \in K
  <2>1. m - 1 \in 1..l /\ m \in 1..(l + 1) /\ m # 1 BY <1>3
  <2>2. q[m] = p[m - 1] BY <1>5, <2>1
  <2>3. p[m - 1] \in K BY <1>1, <1>3, <2>1
  <2> QED BY <2>1, <2>2, <2>3
<1>8. q \in [1..(l + 1) -> {b} \cup K]
  <2>1. ASSUME NEW m \in 1..(l + 1) PROVE (IF m = 1 THEN b ELSE p[m - 1]) \in {b} \cup K
    <3>1. m = 1 \/ m \in 2..(l + 1) BY <1>3
    <3>2. m \in 2..(l + 1) => p[m - 1] \in K BY <1>7
    <3> QED BY <3>1, <3>2
  <2> QED BY <1>5, <2>1
<1>9. ASSUME NEW m \in 1..(l + 1), NEW n \in 1..(m - 1) PROVE q[n] < q[m]
  <2>1. m \in 2..(l + 1) /\ (n = 1 \/ n \in 2..(l + 1)) BY <1>3
  <2>2. CASE n = 1 BY <1>6, <1>7, <2>1, <2>2
  <2>3. CASE n \in 2..(l + 1)
    <3>1. m - 1 \in 1..l /\ n - 1 \in 1..((m - 1) - 1) BY <1>3, <2>1, <2>3
    <3>2. p[n - 1] < p[m - 1] BY <1>1, <1>3, <3>1
    <3>3. q[n] = p[n - 1] /\ q[m] = p[m - 1] BY <1>7, <2>1, <2>3
    <3> QED BY <3>2, <3>3
  <2> QED BY <2>1, <2>2, <2>3
<1>10. ASSUME NEW i \in {b} \cup K PROVE \E m \in 1..(l + 1) : q[m] = i
  <2>1. CASE i = b
    <3>1. 1 \in 1..(l + 1) BY <1>3
    <3> QED BY <1>6, <2>1, <3>1
  <2>2. CASE i \in K
    <3>1. PICK m \in 1..l : p[m] = i BY <1>1, <1>3, <2>2
    <3>2. m + 1 \in 2..(l + 1) /\ m + 1 \in 1..(l + 1) /\ (m + 1) - 1 = m BY <1>3
    <3>3. q[m + 1] = p[m] BY <1>7, <3>2
    <3> QED BY <3>1, <3>2, <3>3
  <2> QED BY <2>1, <2>2
<1>11. ASSUME NEW m \in 1..(l + 1) PROVE d[m] = Column(line, q[m])
  <2>1. CASE m = 1 BY <1>4, <1>6, <2>1
  <2>2. CASE m \in 2..(l + 1)
    <3>1. c[m - 1] = Column(line, p[m - 1]) BY <1>1, <1>3, <1>7, <2>2
    <3> QED BY <1>4, <1>7, <2>2, <3>1
  <2> QED BY <1>3, <2>1, <2>2
<1>12. Enumerates(d, line, {b} \cup K)
  <2>1. \E r \in [1..(l + 1) -> {b} \cup K] :
          /\ \A m \in 1..(l + 1) : \A n \in 1..(m - 1) : r[n] < r[m]
          /\ \A i \in {b} \cup K : \E m \in 1..(l + 1) : r[m] = i
          /\ \A m \in 1..(l + 1) : d[m] = Column(line, r[m])
    BY <1>8, <1>9, <1>10, <1>11, Zenon
  <2>2. Len(d) = l + 1 BY <1>4
  <2> QED BY ONLY <2>1, <2>2, Zenon DEF Enumerates
<1> QED BY <1>2, <1>12

(***************************************************************************)
(* No columns.                                                             *)
(***************************************************************************)
LEMMA NoColumns == ASSUME NEW line PROVE Enumerates(<<>>, line, {})
<1>1. Len(<<>>) = 0 OBVIOUS
<1>2. PICK p : p = [m \in 1..0 |-> 0] OBVIOUS
<1>3. p \in [1..0 -> {}] BY <1>2
<1>4. \A m \in 1..0 : FALSE OBVIOUS
<1>5. \E q \in [1..0 -> {}] :
        /\ \A m \in 1..0 : \A n \in 1..(m - 1) : q[n] < q[m]
        /\ \A i \in {} : \E m \in 1..0 : q[m] = i
        /\ \A m \in 1..0 : <<>>[m] = Column(line, q[m])
  BY <1>3, <1>4, Zenon
<1> QED BY ONLY <1>1, <1>5, Zenon DEF Enumerates

(***************************************************************************)
(* Behind spaces begins a column.                                          *)
(***************************************************************************)
LEMMA NextStart ==
  ASSUME NEW line \in Seq(Char), NEW a, Boundary(line, a), NEW b \in a..Len(line),
         \A i \in a..(b - 1) : line[i] = Space, line[b] # Space
  PROVE  b \in Starts(line) /\ \A k \in Starts(line) : a <= k => b <= k
<1>1. Len(line) \in Nat /\ a \in 1..(Len(line) + 1) /\ b \in 1..Len(line) BY DEF Boundary
<1>2. b \in Starts(line)
  <2>1. CASE b = a
    <3>1. a # Len(line) + 1 BY <1>1, <2>1
    <3>2. a = 1 \/ line[a - 1] = Space \/ a \in Glued(line) BY <2>1, <3>1 DEF Boundary
    <3> QED BY <1>1, <2>1, <3>2 DEF Starts
  <2>2. CASE b # a
    <3>1. b - 1 \in a..(b - 1) BY <1>1, <2>2
    <3> QED BY <1>1, <3>1 DEF Starts
  <2> QED BY <2>1, <2>2
<1>3. ASSUME NEW k \in Starts(line), a <= k PROVE b <= k
  <2>1. k \in 1..Len(line) /\ line[k] # Space BY DEF Starts
  <2>2. ~(b <= k) => k \in a..(b - 1) BY <1>1, <1>3, <2>1
  <2> QED BY <2>1, <2>2
<1> QED BY <1>2, <1>3

(***************************************************************************)
(* What begins a column is kept up to a comment.                           *)
(***************************************************************************)
LEMMA NoneKept ==
  ASSUME NEW line \in Seq(Char), NEW a, Boundary(line, a), NEW b \in a..(Len(line) + 1),
         \A i \in a..(b - 1) : line[i] = Space,
         b <= Len(line) => line[b] # Space /\ line[b] = "#"
  PROVE  KeptFrom(line, a) = {}
<1>1. Len(line) \in Nat /\ a \in 1..(Len(line) + 1) BY DEF Boundary
<1>2. SUFFICES ASSUME NEW i \in KeptFrom(line, a) PROVE FALSE
  OBVIOUS
<1>3. /\ i \in Starts(line) /\ a <= i
      /\ \A k \in Starts(line) : a <= k /\ k <= i => line[k] # "#"
  BY DEF KeptFrom
<1>4. i \in 1..Len(line) /\ line[i] # Space BY <1>3 DEF Starts
<1>5. CASE b <= Len(line)
  <2>1. b \in a..Len(line) /\ line[b] # Space /\ line[b] = "#" BY <1>1, <1>5
  <2>2. b \in Starts(line) /\ \A k \in Starts(line) : a <= k => b <= k BY <2>1, NextStart
  <2>3. a <= b /\ b <= i BY <1>1, <1>3, <2>2
  <2> QED BY <1>3, <2>1, <2>2, <2>3
<1>6. CASE ~(b <= Len(line))
  <2>1. i \in a..(b - 1) BY <1>1, <1>3, <1>4, <1>6
  <2> QED BY <1>4, <2>1
<1> QED BY <1>5, <1>6

(***************************************************************************)
(* A word is a column, and the columns behind it are the others.           *)
(***************************************************************************)
LEMMA NextKept ==
  ASSUME NEW line \in Seq(Char), NEW a, Boundary(line, a), NEW b \in a..Len(line),
         \A i \in a..(b - 1) : line[i] = Space, line[b] # "#",
         NEW e \in b..Len(line), \A k \in b..e : line[k] # Space,
         e < Len(line) => line[e + 1] = Space
  PROVE  /\ Boundary(line, e + 1) /\ Column(line, b) = SubSeq(line, b, e)
         /\ KeptFrom(line, a) = {b} \cup KeptFrom(line, e + 1)
         /\ \A i \in KeptFrom(line, e + 1) : b < i
<1>1. Len(line) \in Nat /\ a \in 1..(Len(line) + 1) /\ b \in 1..Len(line) /\ e \in 1..Len(line)
  BY DEF Boundary
<1>2. \A g \in Glued(line) : g <= a /\ g \in Int BY DEF Boundary, Glued
<1>3. \A k \in b..e : line[k] # Space /\ (k > b => k \notin Glued(line)) BY <1>1, <1>2
<1>4. Column(line, b) = SubSeq(line, b, e) BY <1>1, <1>3, ColumnIs
<1>5. Boundary(line, e + 1)
  <2>1. e + 1 \in 1..(Len(line) + 1) /\ (e + 1 = Len(line) + 1 \/ e < Len(line)) BY <1>1
  <2>2. \A g \in Glued(line) : g <= e + 1 BY <1>1, <1>2
  <2> QED BY <2>1, <2>2 DEF Boundary
<1>6. b \in b..e BY <1>1
<1>7. b \in Starts(line) /\ \A k \in Starts(line) : a <= k => b <= k
  BY <1>6, NextStart
<1>8. ASSUME NEW k \in Starts(line), a <= k PROVE k \in Int /\ (k = b \/ e + 1 <= k)
  <2>1. k \in 1..Len(line) /\ (k = 1 \/ line[k - 1] = Space \/ k \in Glued(line)) /\ b <= k
    BY <1>7, <1>8 DEF Starts
  <2>2. CASE k # b /\ ~(e + 1 <= k)
    <3>1. k \in b..e /\ k > b /\ k # 1 /\ k - 1 \in b..e BY <1>1, <2>1, <2>2
    <3>2. line[k - 1] # Space /\ k \notin Glued(line) BY <1>3, <3>1
    <3> QED BY <2>1, <3>1, <3>2
  <2> QED BY <2>1, <2>2
<1>9. ASSUME NEW i \in KeptFrom(line, e + 1)
      PROVE  i \in KeptFrom(line, a) /\ b < i
  <2>1. /\ i \in Starts(line) /\ i \in Int /\ e + 1 <= i
        /\ \A k \in Starts(line) : e + 1 <= k /\ k <= i => line[k] # "#"
    BY DEF KeptFrom, Starts
  <2>2. a <= i /\ b < i BY <1>1, <2>1
  <2>3. \A k \in Starts(line) : a <= k /\ k <= i => line[k] # "#" BY <1>8, <2>1
  <2> QED BY <2>1, <2>2, <2>3 DEF KeptFrom
<1>10. b \in KeptFrom(line, a)
  <2>1. a <= b BY <1>1
  <2>2. ASSUME NEW k \in Starts(line), a <= k, k <= b PROVE line[k] # "#"
    <3>1. k = b BY <1>1, <1>8, <2>2
    <3> QED BY <3>1
  <2> QED BY <1>7, <2>1, <2>2 DEF KeptFrom
<1>11. ASSUME NEW i \in KeptFrom(line, a), i # b PROVE i \in KeptFrom(line, e + 1)
  <2>1. /\ i \in Starts(line) /\ a <= i
        /\ \A k \in Starts(line) : a <= k /\ k <= i => line[k] # "#"
    BY DEF KeptFrom
  <2>2. e + 1 <= i /\ i \in Int BY <1>8, <1>11, <2>1
  <2>3. ASSUME NEW k \in Starts(line), e + 1 <= k, k <= i PROVE line[k] # "#"
    <3>1. k \in Int BY DEF Starts
    <3>2. a <= k BY <1>1, <2>3, <3>1
    <3> QED BY <2>1, <2>3, <3>2
  <2> QED BY <2>1, <2>2, <2>3 DEF KeptFrom
<1>12. KeptFrom(line, a) = {b} \cup KeptFrom(line, e + 1) BY <1>9, <1>10, <1>11
<1> QED BY <1>4, <1>5, <1>9, <1>12

(***************************************************************************)
(* What the columns of a text are, and those of a rest of it.              *)
(***************************************************************************)
LEMMA ColumnsStep ==
  ASSUME NEW text \in Seq(Char)
  PROVE  /\ Trimmed(text) = <<>> \/ Trimmed(text)[1] = "#" => Columns(text) = <<>>
         /\ ~(Trimmed(text) = <<>> \/ Trimmed(text)[1] = "#") =>
              \A rest \in Seq(Char) : Behind(Trimmed(text)) = Trimmed(rest) =>
                Columns(text) = <<Word(Trimmed(text))>> \o Columns(rest)
<1> DEFINE g == CHOOSE f : Splits(f)
<1>1. Splits(g) BY SplitsExists, Zenon
<1>2. \A t : Columns(t) = g[Trimmed(t)] BY DEF Columns, Splits
<1> HIDE DEF g
<1>3. \A s \in Seq(Char) :
        g[s] = IF s = <<>> \/ s[1] = "#" THEN <<>> ELSE <<Word(s)>> \o g[Behind(s)]
  BY <1>1 DEF Splits
<1>4. PICK s \in Seq(Char) : s = Trimmed(text) BY TrimmedType
<1>5. Columns(text) = IF s = <<>> \/ s[1] = "#" THEN <<>> ELSE <<Word(s)>> \o g[Behind(s)]
  BY <1>2, <1>3, <1>4
<1> QED BY <1>2, <1>4, <1>5

(***************************************************************************)
(* The columns from a position on are those that begin there.              *)
(***************************************************************************)
LEMMA ColumnsFrom ==
  ASSUME NEW line \in Seq(Char), NEW start, Boundary(line, start)
  PROVE  Enumerates(Columns(SubSeq(line, start, Len(line))), line, KeptFrom(line, start))
<1> DEFINE Right(a) == Enumerates(Columns(SubSeq(line, a, Len(line))), line, KeptFrom(line, a))
           T == {n \in Nat : \A a \in 1..(Len(line) + 1) :
                               Boundary(line, a) /\ a = Len(line) + 1 - n => Right(a)}
<1>0. Len(line) \in Nat OBVIOUS
<1>1. ASSUME NEW n \in Nat, \A k \in 0..(n - 1) : k \in T PROVE n \in T
  <2> SUFFICES ASSUME NEW a \in 1..(Len(line) + 1), Boundary(line, a), a = Len(line) + 1 - n
               PROVE  Right(a)
    OBVIOUS
  <2>1. \A x \in (a + 1)..(Len(line) + 1) : Boundary(line, x) => Right(x)
    <3> SUFFICES ASSUME NEW x \in (a + 1)..(Len(line) + 1), Boundary(line, x) PROVE Right(x)
      OBVIOUS
    <3> HIDE DEF Right
    <3>1. Len(line) + 1 - x \in 0..(n - 1) /\ x \in 1..(Len(line) + 1)
          /\ x = Len(line) + 1 - (Len(line) + 1 - x)
      BY <1>0
    <3>2. Len(line) + 1 - x \in T BY <1>1, <3>1
    <3> QED BY <3>1, <3>2
  <2> HIDE DEF T
  <2>2. PICK b \in a..(Len(line) + 1) :
          /\ Trimmed(SubSeq(line, a, Len(line))) = SubSeq(line, b, Len(line))
          /\ \A i \in a..(b - 1) : line[i] = Space
          /\ b <= Len(line) => line[b] # Space
    BY TrimmedIs
  <2>3. PICK text : text = SubSeq(line, a, Len(line)) OBVIOUS
  <2>4. text \in Seq(Char)
    <3>1. Len(line) \in (a - 1)..Len(line) BY <1>0
    <3> QED BY <2>3, <3>1, TextPart
  <2>5. PICK s : s = SubSeq(line, b, Len(line)) OBVIOUS
  <2>6. s \in Seq(Char) /\ Len(s) = Len(line) - b + 1 /\ (b <= Len(line) => s[1] = line[b])
    <3>1. b \in 1..(Len(line) + 1) /\ Len(line) \in (b - 1)..Len(line) BY <1>0
    <3>2. s \in Seq(Char) /\ Len(s) = Len(line) - b + 1
          /\ \A k \in 1..(Len(line) - b + 1) : s[k] = line[b + k - 1]
      BY <2>5, <3>1, TextPart
    <3>3. ASSUME b <= Len(line) PROVE s[1] = line[b]
      <4>1. 1 \in 1..(Len(line) - b + 1) /\ b + 1 - 1 = b BY <1>0, <3>3
      <4>2. s[1] = line[b + 1 - 1] BY <3>2, <4>1
      <4> QED BY <4>1, <4>2
    <3> QED BY <3>2, <3>3
  <2>7. Trimmed(text) = s BY <2>2, <2>3, <2>5
  <2>8. CASE ~(b <= Len(line)) \/ line[b] = "#"
    <3>1. s = <<>> \/ s[1] = "#"
      <4>1. ~(b <= Len(line)) => Len(s) = 0 BY <1>0, <2>6
      <4>2. Len(s) = 0 => s = <<>> BY <2>6, EmptySeq
      <4> QED BY <2>6, <2>8, <4>1, <4>2
    <3>2. Columns(text) = <<>> BY <2>4, <2>7, <3>1, ColumnsStep
    <3>3. KeptFrom(line, a) = {} BY <2>2, <2>8, NoneKept
    <3>4. Enumerates(<<>>, line, {}) BY NoColumns
    <3> QED BY <2>3, <3>2, <3>3, <3>4
  <2>9. CASE b <= Len(line) /\ line[b] # "#"
    <3>0. b \in a..Len(line) /\ b \in 1..Len(line) /\ line[b] # Space BY <1>0, <2>2, <2>9
    <3>1. PICK e \in b..Len(line) :
            /\ \A k \in b..e : line[k] # Space
            /\ e < Len(line) => line[e + 1] = Space
            /\ Word(SubSeq(line, b, Len(line))) = SubSeq(line, b, e)
            /\ Behind(SubSeq(line, b, Len(line))) = Trimmed(SubSeq(line, e + 1, Len(line)))
      BY <3>0, WordIs
    <3>2. /\ Boundary(line, e + 1) /\ Column(line, b) = SubSeq(line, b, e)
          /\ KeptFrom(line, a) = {b} \cup KeptFrom(line, e + 1)
          /\ \A i \in KeptFrom(line, e + 1) : b < i
      <4>1. \A i \in a..(b - 1) : line[i] = Space BY <2>2
      <4>2. line[b] # "#" /\ b \in a..Len(line) BY <2>9, <3>0
      <4>3. (\A k \in b..e : line[k] # Space) /\ (e < Len(line) => line[e + 1] = Space) BY <3>1
      <4> QED
        BY ONLY line \in Seq(Char), Boundary(line, a), e \in b..Len(line), <4>1, <4>2, <4>3, NextKept
    <3>3. PICK rest : rest = SubSeq(line, e + 1, Len(line)) OBVIOUS
    <3>4. rest \in Seq(Char)
      <4>1. e + 1 \in 1..(Len(line) + 1) /\ Len(line) \in (e + 1 - 1)..Len(line) BY <1>0, <3>0
      <4> QED BY <3>3, <4>1, TextPart
    <3>5. Enumerates(Columns(rest), line, KeptFrom(line, e + 1))
      <4>1. e + 1 \in (a + 1)..(Len(line) + 1) BY <1>0
      <4> QED BY <2>1, <3>2, <3>3, <4>1
    <3>6. ~(s = <<>> \/ s[1] = "#")
      <4>1. Len(s) > 0 BY <1>0, <2>6, <2>9
      <4>2. s # <<>> BY <4>1
      <4> QED BY <2>6, <2>9, <4>2
    <3>7. PICK w : w = Word(s) OBVIOUS
    <3>8. w = Column(line, b) /\ w \in Seq(Char)
      <4>1. w = SubSeq(line, b, e) BY <2>5, <3>1, <3>7
      <4>2. b \in 1..(Len(line) + 1) /\ e \in (b - 1)..Len(line) BY <1>0
      <4>3. SubSeq(line, b, e) \in Seq(Char) BY <4>2, TextPart
      <4> QED BY <3>2, <4>1, <4>3
    <3>9. Columns(text) = <<w>> \o Columns(rest)
      <4>1. Behind(s) = Trimmed(rest) BY <2>5, <3>1, <3>3
      <4> QED BY <2>4, <2>7, <3>4, <3>6, <3>7, <4>1, ColumnsStep
    <3>10. PICK c : c = Columns(rest) OBVIOUS
    <3>11. PICK K : K = KeptFrom(line, e + 1) OBVIOUS
    <3>12. c \in Seq(Seq(Char)) /\ K \in SUBSET Int
      BY <3>4, <3>10, <3>11, ColumnsType DEF KeptFrom, Starts
    <3>13. Enumerates(c, line, K) /\ b \in Int /\ \A i \in K : b < i
      BY <3>2, <3>5, <3>10, <3>11
    <3>14. Enumerates(<<w>> \o c, line, {b} \cup K)
      BY ONLY line \in Seq(Char), <3>8, <3>12, <3>13, OneMoreColumn
    <3> QED BY <2>3, <3>2, <3>9, <3>10, <3>11, <3>14
  <2> QED BY <2>8, <2>9
<1>2. T \in SUBSET Nat OBVIOUS
<1>3. T = Nat
  <2> HIDE DEF T
  <2> QED BY <1>1, <1>2, StrongInduction
<1>4. start \in 1..(Len(line) + 1) /\ Len(line) + 1 - start \in Nat
      /\ start = Len(line) + 1 - (Len(line) + 1 - start)
  BY <1>0 DEF Boundary
<1>5. Len(line) + 1 - start \in T BY <1>3, <1>4
<1> HIDE DEF Right
<1>6. Right(start) BY <1>4, <1>5
<1> QED BY <1>6 DEF Right

(***************************************************************************)
(* The prefix of a line, and where the text behind it begins.              *)
(***************************************************************************)
LEMMA GluedIs ==
  ASSUME NEW line \in Seq(Char), NEW f \in 1..Len(line),
         \A i \in 1..(f - 1) : line[i] = Space, line[f] # Space
  PROVE  LET s == SubSeq(line, f, Len(line)) IN
           \/ Prefix(s) = <<>> /\ Glued(line) = {}
           \/ \E k \in 1..2 :
                /\ f + k <= Len(line) + 1 /\ Glued(line) = {f + k}
                /\ Prefix(s) = SubSeq(line, f, f + k - 1) /\ Len(Prefix(s)) = k
                /\ line[f] # "#" /\ \A j \in f..(f + k - 1) : line[j] # Space
<1>0. Len(line) \in Nat OBVIOUS
<1>1. PICK s : s = SubSeq(line, f, Len(line)) OBVIOUS
<1>2. s \in Seq(Char) /\ Len(s) = Len(line) - f + 1 /\ s[1] = line[f]
      /\ (Len(s) > 1 => s[2] = line[f + 1])
  <2>1. f \in 1..(Len(line) + 1) /\ Len(line) \in (f - 1)..Len(line) BY <1>0
  <2>2. s \in Seq(Char) /\ Len(s) = Len(line) - f + 1
        /\ \A k \in 1..(Len(line) - f + 1) : s[k] = line[f + k - 1]
    BY <1>1, <2>1, TextPart
  <2>3. 1 \in 1..(Len(line) - f + 1) /\ f + 1 - 1 = f /\ f + 2 - 1 = f + 1 BY <1>0
  <2>4. Len(s) > 1 => 2 \in 1..(Len(line) - f + 1) BY <1>0, <2>2
  <2>5. s[1] = line[f] BY <2>2, <2>3
  <2>6. Len(s) > 1 => s[2] = line[f + 1] BY <2>2, <2>3, <2>4
  <2> QED BY <2>2, <2>5, <2>6
<1>3. ASSUME NEW g
      PROVE  g \in Glued(line) <=>
               /\ g \in (f + 1)..(Len(line) + 1)
               /\ \/ g = f + 1 /\ line[f] \in {"+", "*"}
                  \/ g = f + 1 /\ line[f] = "-" /\ (g <= Len(line) => line[g] # "-")
                  \/ g = f + 2 /\ line[f] = "-" /\ line[f + 1] = "-"
  <2> DEFINE Glues(x) ==
        \/ g = x + 1 /\ line[x] \in {"+", "*"}
        \/ g = x + 1 /\ line[x] = "-" /\ (g <= Len(line) => line[g] # "-")
        \/ g = x + 2 /\ line[x] = "-" /\ line[x + 1] = "-"
  <2>1. g \in Glued(line) <=>
          g \in 2..(Len(line) + 1)
          /\ \E x \in 1..(g - 1) : (\A j \in 1..(x - 1) : line[j] = Space) /\ Glues(x)
    BY DEF Glued
  <2>2. \A x : Glues(x) => line[x] # Space BY DEF Space
  <2> HIDE DEF Glues
  <2>3. ASSUME NEW x \in Nat, x >= 1, x <= Len(line),
               \A j \in 1..(x - 1) : line[j] = Space, Glues(x)
        PROVE  x = f
    <3>1. line[x] # Space BY <2>2, <2>3
    <3>2. ~(x < f)
      <4>1. x < f => x \in 1..(f - 1) BY <2>3
      <4> QED BY <3>1, <4>1
    <3>3. ~(f < x)
      <4>1. f < x => f \in 1..(x - 1) BY <2>3
      <4> QED BY <2>3, <4>1
    <3> QED BY <2>3, <3>2, <3>3
  <2>4. g \in 2..(Len(line) + 1) => \A x \in 1..(g - 1) : x \in Nat /\ x >= 1 /\ x <= Len(line)
    BY <1>0
  <2>5. g \in Glued(line) => g \in (f + 1)..(Len(line) + 1) /\ Glues(f)
    <3> SUFFICES ASSUME g \in Glued(line) PROVE g \in (f + 1)..(Len(line) + 1) /\ Glues(f)
      OBVIOUS
    <3>1. PICK x \in 1..(g - 1) : (\A j \in 1..(x - 1) : line[j] = Space) /\ Glues(x) BY <2>1
    <3>2. g \in 2..(Len(line) + 1) BY <2>1
    <3>3. x = f BY <2>3, <2>4, <3>1, <3>2
    <3> QED BY <1>0, <3>1, <3>2, <3>3
  <2>6. g \in (f + 1)..(Len(line) + 1) /\ Glues(f) => g \in Glued(line)
    <3>1. g \in (f + 1)..(Len(line) + 1) => g \in 2..(Len(line) + 1) /\ f \in 1..(g - 1) BY <1>0
    <3> QED BY <2>1, <3>1
  <2>7. g \in Glued(line) <=> g \in (f + 1)..(Len(line) + 1) /\ Glues(f) BY <2>5, <2>6
  <2> QED BY <2>7 DEF Glues
<1>4. CASE line[f] \in {"+", "*"}
  <2>1. Prefix(s) = <<line[f]>> BY <1>2, <1>4 DEF Prefix
  <2>2. line[f] # "-" /\ line[f] # "#" BY <1>4
  <2>3. f + 1 \in (f + 1)..(Len(line) + 1) BY <1>0
  <2>4. Glued(line) = {f + 1} BY <1>3, <1>4, <2>2, <2>3
  <2>5. <<line[f]>> = SubSeq(line, f, f) /\ Len(<<line[f]>>) = 1 BY <1>0
  <2>6. (\A j \in f..f : line[j] # Space) /\ f + 1 - 1 = f OBVIOUS
  <2>7. 1 \in 1..2 /\ f + 1 <= Len(line) + 1 BY <1>0
  <2> QED BY <1>1, <2>1, <2>2, <2>4, <2>5, <2>6, <2>7
<1>5. CASE line[f] = "-" /\ f < Len(line) /\ line[f + 1] = "-"
  <2>1. Prefix(s) = <<"-", "-">>
    <3>1. s[1] = "-" /\ Len(s) > 1 /\ s[2] = "-" BY <1>0, <1>2, <1>5
    <3> QED BY <3>1 DEF Prefix
  <2>2. line[f] \notin {"+", "*"} /\ line[f] # "#" BY <1>5
  <2>3. f + 2 \in (f + 1)..(Len(line) + 1) /\ f + 1 <= Len(line) BY <1>0, <1>5
  <2>4. Glued(line) = {f + 2} BY <1>3, <1>5, <2>2, <2>3
  <2>5. <<"-", "-">> = SubSeq(line, f, f + 1) /\ Len(<<"-", "-">>) = 2
    <3>1. f \in 1..(Len(line) + 1) /\ f + 1 \in (f - 1)..Len(line) BY <1>0, <1>5
    <3>2. PICK t : t = SubSeq(line, f, f + 1) OBVIOUS
    <3>3. t \in Seq(Char) /\ Len(t) = f + 1 - f + 1 /\ \A k \in 1..(f + 1 - f + 1) : t[k] = line[f + k - 1]
      BY <3>1, <3>2, TextPart
    <3>4. f + 1 - f + 1 = 2 /\ 1 \in 1..2 /\ 2 \in 1..2 /\ f + 1 - 1 = f /\ f + 2 - 1 = f + 1 BY <1>0
    <3>5. Len(t) = 2 /\ t[1] = "-" /\ t[2] = "-" BY <1>5, <3>3, <3>4
    <3>6. "-" \in Char BY CharAssumption, Zenon
    <3>7. t = <<"-", "-">> BY <3>3, <3>5, <3>6
    <3> QED BY <3>2, <3>7
  <2>6. (\A j \in f..(f + 1) : line[j] # Space) /\ f + 2 - 1 = f + 1
    <3>1. \A j \in f..(f + 1) : j = f \/ j = f + 1 BY <1>0
    <3>2. "-" # Space BY DEF Space
    <3> QED BY <1>0, <1>5, <3>1, <3>2
  <2>7. 2 \in 1..2 /\ f + 2 <= Len(line) + 1 BY <1>0, <1>5
  <2> QED BY <1>1, <2>1, <2>2, <2>4, <2>5, <2>6, <2>7
<1>6. CASE line[f] = "-" /\ ~(f < Len(line) /\ line[f + 1] = "-")
  <2>1. Prefix(s) = <<line[f]>>
    <3>1. s[1] = "-" /\ ~(Len(s) > 1 /\ s[2] = "-") BY <1>0, <1>2, <1>6
    <3> QED BY <1>6, <3>1 DEF Prefix
  <2>2. line[f] \notin {"+", "*"} /\ line[f] # "#" BY <1>6
  <2>3. f + 1 \in (f + 1)..(Len(line) + 1) /\ (f + 1 <= Len(line) => line[f + 1] # "-") BY <1>0, <1>6
  <2>4. ~(f + 2 \in (f + 1)..(Len(line) + 1) /\ line[f + 1] = "-") BY <1>0, <1>6
  <2>5. Glued(line) = {f + 1} BY <1>3, <1>6, <2>2, <2>3, <2>4
  <2>6. <<line[f]>> = SubSeq(line, f, f) /\ Len(<<line[f]>>) = 1 BY <1>0
  <2>7. (\A j \in f..f : line[j] # Space) /\ f + 1 - 1 = f OBVIOUS
  <2>8. 1 \in 1..2 /\ f + 1 <= Len(line) + 1 BY <1>0
  <2> QED BY <1>1, <2>1, <2>2, <2>5, <2>6, <2>7, <2>8
<1>7. CASE line[f] \notin {"+", "*", "-"}
  <2>1. Prefix(s) = <<>> BY <1>2, <1>7 DEF Prefix
  <2>2. Glued(line) = {} BY <1>3, <1>7
  <2> QED BY <1>1, <2>1, <2>2
<1> QED BY <1>4, <1>5, <1>6, <1>7

(***************************************************************************)
(* If none is glued to a prefix, comments are the columns that begin with  *)
(* a "#".                                                                  *)
(***************************************************************************)
LEMMA KeptIs ==
  ASSUME NEW line \in Seq(Char), ~GluedComment(line)
  PROVE  Kept(line) = {i \in Starts(line) : \A c \in Starts(line) : c <= i => line[c] # "#"}
<1>1. \A c : c \in Comments(line) <=> c \in Starts(line) /\ line[c] = "#"
  <2>1. ASSUME NEW c, c \in Comments(line) PROVE c \in Starts(line) /\ line[c] = "#"
    BY <2>1 DEF Comments, Starts, Space
  <2>2. ASSUME NEW c \in Starts(line), line[c] = "#" PROVE c \in Comments(line)
    <3>1. c \in 1..Len(line) /\ (c = 1 \/ line[c - 1] = Space \/ c \in Glued(line)) BY DEF Starts
    <3>2. c \notin Glued(line) BY <2>2, <3>1 DEF GluedComment
    <3> QED BY <2>2, <3>1, <3>2 DEF Comments
  <2> QED BY <2>1, <2>2
<1>2. \A c \in Starts(line) : c \in Int BY DEF Starts
<1>3. \A i \in Starts(line) :
        (\A c \in Comments(line) : i < c) <=> \A c \in Starts(line) : c <= i => line[c] # "#"
  BY <1>1, <1>2
<1> QED BY <1>3 DEF Kept

(***************************************************************************)
(* splitLine divides every such line as it is documented.                  *)
(***************************************************************************)
LEMMA SplitsRight ==
  ASSUME NEW line \in Seq(Char), ~GluedComment(line)
  PROVE  Divides(SplitLine(line), line)
<1>0. Len(line) \in Nat OBVIOUS
<1>1. PICK f \in 1..(Len(line) + 1) :
        /\ Trimmed(line) = SubSeq(line, f, Len(line))
        /\ \A i \in 1..(f - 1) : line[i] = Space
        /\ f <= Len(line) => line[f] # Space
  <2>1. 1 \in 1..(Len(line) + 1) BY <1>0
  <2>2. SubSeq(line, 1, Len(line)) = line BY <1>0
  <2> QED BY <2>1, <2>2, TrimmedIs
<1>2. PICK s : s = SubSeq(line, f, Len(line)) OBVIOUS
<1>3. s \in Seq(Char) /\ Len(s) = Len(line) - f + 1
  <2>1. Len(line) \in (f - 1)..Len(line) BY <1>0
  <2> QED BY <1>2, <2>1, TextPart
<1>4. SplitLine(line) = IF s = <<>> THEN <<>>
                        ELSE IF Prefix(s) = <<>> THEN Columns(s)
                        ELSE <<Prefix(s)>> \o Columns(SubSeq(s, Len(Prefix(s)) + 1, Len(s)))
  BY <1>1, <1>2 DEF SplitLine
<1>5. \A i \in Starts(line) : i \in 1..Len(line) /\ f <= i
  <2> SUFFICES ASSUME NEW i \in Starts(line) PROVE i \in 1..Len(line) /\ f <= i
    OBVIOUS
  <2>1. i \in 1..Len(line) /\ line[i] # Space BY DEF Starts
  <2>2. ~(f <= i) => i \in 1..(f - 1) BY <1>0, <2>1
  <2> QED BY <1>1, <2>1, <2>2
<1>6. Kept(line) = KeptFrom(line, f) BY <1>5, KeptIs DEF KeptFrom
<1>7. SUFFICES Enumerates(SplitLine(line), line, Kept(line))
  BY Zenon DEF Divides, Enumerates
<1>8. CASE s = <<>>
  <2>1. ~(f <= Len(line)) BY <1>0, <1>3, <1>8
  <2>2. Kept(line) = {} BY <1>0, <1>5, <2>1, KeptIs
  <2> QED BY <1>4, <1>8, <2>2, NoColumns
<1>9. CASE s # <<>>
  <2>0. f \in 1..Len(line) /\ line[f] # Space
    <3>1. Len(s) # 0 BY <1>3, <1>9, EmptySeq
    <3> QED BY <1>0, <1>1, <1>3, <3>1
  <2>1. \/ Prefix(s) = <<>> /\ Glued(line) = {}
        \/ \E k \in 1..2 :
             /\ f + k <= Len(line) + 1 /\ Glued(line) = {f + k}
             /\ Prefix(s) = SubSeq(line, f, f + k - 1) /\ Len(Prefix(s)) = k
             /\ line[f] # "#" /\ \A j \in f..(f + k - 1) : line[j] # Space
    BY <1>1, <1>2, <2>0, GluedIs
  <2>2. f = 1 \/ line[f - 1] = Space
    <3>1. f # 1 => f - 1 \in 1..(f - 1) BY <1>0
    <3> QED BY <1>1, <3>1
  <2>3. CASE Prefix(s) = <<>> /\ Glued(line) = {}
    <3>1. f = 1 \/ f > 1 BY <1>0
    <3>2. Boundary(line, f) BY <2>2, <2>3, <3>1 DEF Boundary
    <3>3. Enumerates(Columns(s), line, KeptFrom(line, f)) BY <1>2, <3>2, ColumnsFrom
    <3> QED BY <1>4, <1>6, <1>9, <2>3, <3>3
  <2>4. CASE \E k \in 1..2 :
               /\ f + k <= Len(line) + 1 /\ Glued(line) = {f + k}
               /\ Prefix(s) = SubSeq(line, f, f + k - 1) /\ Len(Prefix(s)) = k
               /\ line[f] # "#" /\ \A j \in f..(f + k - 1) : line[j] # Space
    <3>1. PICK k \in 1..2 :
            /\ f + k <= Len(line) + 1 /\ Glued(line) = {f + k}
            /\ Prefix(s) = SubSeq(line, f, f + k - 1) /\ Len(Prefix(s)) = k
            /\ line[f] # "#" /\ \A j \in f..(f + k - 1) : line[j] # Space
      BY <2>4
    <3>2. PICK g, w : g = f + k /\ w = Prefix(s) OBVIOUS
    <3>3. g \in 1..(Len(line) + 1) /\ g - 1 \in f..Len(line) /\ g - 1 = f + k - 1
          /\ g - 1 \in (f - 1)..Len(line) /\ f \in 1..(Len(line) + 1)
      BY <1>0, <3>1, <3>2
    <3>4. Glued(line) = {g} /\ w = SubSeq(line, f, g - 1) /\ \A j \in f..(g - 1) : line[j] # Space
      BY <3>1, <3>2, <3>3
    <3>5. w \in Seq(Char) /\ w # <<>>
      <4>1. w \in Seq(Char) BY <3>3, <3>4, TextPart
      <4>2. Len(w) = k BY <3>1, <3>2
      <4> QED BY <4>1, <4>2
    <3>6. Boundary(line, g)
      <4>1. \A x \in Glued(line) : x <= g BY <3>3, <3>4
      <4>2. g \in Glued(line) BY <3>4
      <4>3. g > 1 \/ g = 1 BY <3>3
      <4> QED BY <3>3, <4>1, <4>2 DEF Boundary
    <3>7. w = Column(line, f)
      <4>1. \A j \in f..(g - 1) : line[j] # Space /\ (j > f => j \notin Glued(line)) BY <3>3, <3>4
      <4>2. g - 1 < Len(line) => line[(g - 1) + 1] = Space \/ (g - 1) + 1 \in Glued(line)
        BY <3>3, <3>4
      <4>3. Column(line, f) = SubSeq(line, f, g - 1)
        BY ONLY line \in Seq(Char), <2>0, <3>3, <4>1, <4>2, ColumnIs
      <4> QED BY <3>4, <4>3
    <3>8. \A i \in Starts(line) : i \in Int /\ (i = f \/ g <= i)
      <4> SUFFICES ASSUME NEW i \in Starts(line), i # f, ~(g <= i) PROVE FALSE
        BY <1>5
      <4>1. i \in 1..Len(line) /\ f <= i /\ (i = 1 \/ line[i - 1] = Space \/ i \in Glued(line))
        BY <1>5 DEF Starts
      <4>2. i # 1 /\ i - 1 \in f..(g - 1) /\ i # g BY <1>0, <3>3, <4>1
      <4> QED BY <3>4, <4>1, <4>2
    <3>9. PICK K : K = KeptFrom(line, g) OBVIOUS
    <3>10. K \in SUBSET Int /\ \A i \in K : f < i
      <4> SUFFICES ASSUME NEW i \in K PROVE i \in Int /\ f < i
        OBVIOUS
      <4>1. i \in 1..Len(line) /\ g <= i BY <3>9 DEF KeptFrom, Starts
      <4> QED BY <1>0, <3>3, <4>1
    <3>11. Kept(line) = {f} \cup K
      <4>1. f \in Starts(line) BY <2>0, <2>2 DEF Starts
      <4>2. ASSUME NEW i \in Kept(line), i # f PROVE i \in K
        <5>1. i \in Starts(line) /\ \A c \in Starts(line) : c <= i => line[c] # "#" BY KeptIs
        <5>2. g <= i BY <3>8, <4>2, <5>1
        <5> QED BY <3>9, <5>1, <5>2 DEF KeptFrom
      <4>3. f \in Kept(line)
        <5>1. ASSUME NEW c \in Starts(line), c <= f PROVE line[c] # "#"
          <6>1. c = f BY <1>5, <5>1
          <6> QED BY <3>1, <6>1
        <5> QED BY <4>1, <5>1, KeptIs
      <4>4. ASSUME NEW i \in K PROVE i \in Kept(line)
        <5>1. i \in Starts(line) /\ \A c \in Starts(line) : g <= c /\ c <= i => line[c] # "#"
          BY <3>9 DEF KeptFrom
        <5>2. ASSUME NEW c \in Starts(line), c <= i PROVE line[c] # "#"
          <6>1. c = f \/ g <= c BY <3>8
          <6> QED BY <3>1, <5>1, <5>2, <6>1
        <5> QED BY <5>1, <5>2, KeptIs
      <4> QED BY <4>2, <4>3, <4>4
    <3>12. PICK rest : rest = SubSeq(line, g, Len(line)) OBVIOUS
    <3>13. rest \in Seq(Char)
      <4>1. Len(line) \in (g - 1)..Len(line) BY <1>0, <3>3
      <4> QED BY <3>3, <3>12, <4>1, TextPart
    <3>14. PICK c : c = Columns(rest) OBVIOUS
    <3>15. c \in Seq(Seq(Char)) BY <3>13, <3>14, ColumnsType
    <3>16. Enumerates(c, line, K) BY <3>6, <3>9, <3>12, <3>14, ColumnsFrom
    <3>17. SplitLine(line) = <<w>> \o c
      <4>1. PICK x, y : x = k + 1 /\ y = Len(s) OBVIOUS
      <4>2. x \in 1..(Len(line) - f + 2) /\ y \in (x - 1)..(Len(line) - f + 1)
            /\ f + x - 1 = g /\ f + y - 1 = Len(line)
        BY <1>0, <1>3, <3>1, <3>2, <4>1
      <4>3. SubSeq(SubSeq(line, f, Len(line)), x, y) = SubSeq(line, f + x - 1, f + y - 1)
        BY ONLY line \in Seq(Char), <3>3, <4>2, RestPart
      <4>4. SubSeq(s, Len(Prefix(s)) + 1, Len(s)) = rest BY <1>2, <3>1, <3>12, <4>1, <4>2, <4>3
      <4> QED BY <1>4, <1>9, <3>2, <3>5, <3>14, <4>4
    <3>18. f \in Int BY <1>0
    <3>19. Enumerates(<<w>> \o c, line, {f} \cup K)
      BY ONLY line \in Seq(Char), <3>5, <3>7, <3>10, <3>15, <3>16, <3>18, OneMoreColumn
    <3> QED BY <3>11, <3>17, <3>19
  <2> QED BY <2>1, <2>3, <2>4
<1> QED BY <1>8, <1>9

(***************************************************************************)
(* Every line that is read is divided into the columns that                *)
(* url-filter.example describes, with comments only "after a whitespace":  *)
(* whatever the characters in it, unless a "#" is glued to its prefix.     *)
(***************************************************************************)
THEOREM AlwaysSplitsAsDocumented == Spec => []SplitsAsDocumented
<1>1. TypeInv => SplitsAsDocumented
  <2> SUFFICES ASSUME TypeInv, NEW n \in 1..Len(lines), ~GluedComment(lines[n])
               PROVE  Divides(SplitLine(lines[n]), lines[n])
    BY DEF SplitsAsDocumented
  <2>1. lines[n] \in Seq(Char) BY ElementOfSeq DEF TypeInv
  <2> QED BY <2>1, SplitsRight
<1> QED BY <1>1, TypeInit, TypeStep, PTL DEF Spec

-----------------------------------------------------------------------------
(***************************************************************************)
(* No flags, no program.                                                   *)
(***************************************************************************)
LEMMA ModeInit == Init => ModeInv
BY DEF Init, ModeInv, ModeFromFlags

(***************************************************************************)
(* The flags still decide about info after one more, whichever it is.      *)
(***************************************************************************)
LEMMA ModeStep == ModeInv /\ [Next]_vars => ModeInv'
<1> SUFFICES ASSUME ModeInv, [Next]_vars PROVE ModeInv'
  OBVIOUS
<1> DEFINE Decided(f, i) == i = IF "i" \in f THEN 1 ELSE IF f \cap {"h", "u"} # {} THEN 0 ELSE -1
<1>1. Decided(flags, info) BY DEF ModeInv
<1>2. CASE FlagOption
  <2>1. PICK c \in Flag : GiveFlag(c) BY <1>2 DEF FlagOption
  <2>2. Decided(flags', info')
    <3>1. flags' = flags \cup {c} BY <2>1 DEF GiveFlag
    <3>2. CASE c = "i" BY <2>1, <3>1, <3>2 DEF GiveFlag
    <3>3. CASE c \in {"h", "u"} BY <1>1, <2>1, <3>1, <3>3 DEF GiveFlag
    <3>4. CASE c \notin {"i", "h", "u"} BY <1>1, <2>1, <3>1, <3>4 DEF GiveFlag
    <3> QED BY <3>2, <3>3, <3>4
  <2>3. status' = "none"
    <3>1. pc = "options" BY <1>2 DEF FlagOption, Option
    <3> QED BY <1>2, <3>1 DEF FlagOption, ModeInv
  <2> QED BY <2>2, <2>3 DEF ModeInv, ModeFromFlags
<1>3. CASE Run
  <2>1. status' = Mode /\ pc' = "return" /\ flags' = flags /\ info' = info BY <1>3 DEF Run
  <2>2. info # 0 <=> "i" \in flags \/ flags \cap {"h", "u"} = {} BY <1>1
  <2>3. Mode = IF "s" \in flags THEN "sanitize"
               ELSE IF "i" \in flags \/ flags \cap {"h", "u"} = {} THEN "info"
               ELSE IF "h" \in flags THEN "hash" ELSE "urls"
    BY <2>2 DEF Mode
  <2> QED BY <1>1, <2>1, <2>3 DEF ModeInv, ModeFromFlags
<1> DEFINE Goes == /\ UNCHANGED <<flags, info, status>>
                   /\ pc' \notin {"return", "exited"} => pc \notin {"return", "exited"}
           Stops == /\ UNCHANGED <<flags, info>>
                    /\ pc' \in {"return", "exited"} /\ status' \in {"2", "100"}
<1>4. CASE Goes BY <1>1, <1>4 DEF ModeInv, ModeFromFlags
<1>5. CASE Stops BY <1>1, <1>5 DEF ModeInv, ModeFromFlags
<1>6. ConstructMember \/ LoadDefault \/ FileOption \/ ReadLine \/ ReadRule \/ PushRule => Goes
  BY DEF ConstructMember, LoadDefault, FileOption, ReadLine, ReadRule, PushRule, Option, mainvars
<1>7. MetaOption \/ LoadRule \/ EndRule \/ LoadWhitelist \/ LoadBlacklist => Goes \/ Stops
  BY DEF MetaOption, LoadRule, EndRule, LoadWhitelist, LoadBlacklist, Refuse, Option, mainvars
<1>8. Syntax \/ DestroyMember \/ Return \/ UNCHANGED vars => Goes \/ Stops
  BY DEF Syntax, DestroyMember, Return, vars, mainvars
<1> QED BY <1>2, <1>3, <1>4, <1>5, <1>6, <1>7, <1>8 DEF Next

(***************************************************************************)
(* What main does depends on the set of flags and not on their order.      *)
(***************************************************************************)
THEOREM FlagsDecide == Spec => []ModeFromFlags
<1>1. ModeInv => ModeFromFlags BY DEF ModeInv
<1> QED BY <1>1, ModeInit, ModeStep, PTL DEF Spec

-----------------------------------------------------------------------------
(***************************************************************************)
(* A file is opened: nothing of it has been read.                          *)
(***************************************************************************)
LEMMA ReadStarts ==
  ASSUME NEW fs \in Seq(File), NEW f \in File
  PROVE  ReadSo(Append(fs, f), f.text, AllWords(fs, Plus), NoLists, AllRules(fs))
<1>1. PICK more : more = Append(fs, f) OBVIOUS
<1>2. more # <<>> /\ Last(more) = f /\ Front(more) = fs
  <2>1. /\ more \in Seq(File) /\ more # <<>> /\ Len(more) = Len(fs) + 1 /\ Len(fs) \in Nat
        /\ more[Len(fs) + 1] = f /\ \A i \in 1..Len(fs) : more[i] = fs[i]
    BY <1>1, AppendProperties, LenProperties
  <2>2. Last(more) = f BY <2>1 DEF Last
  <2>3. /\ SubSeq(more, 1, Len(fs)) \in Seq(File) /\ Len(SubSeq(more, 1, Len(fs))) = Len(fs)
        /\ \A i \in 1..Len(fs) : SubSeq(more, 1, Len(fs))[i] = fs[i]
    <3>1. 1 \in Int /\ Len(fs) \in Int /\ \A i \in 1..Len(fs) : more[i] \in File BY <2>1
    <3>2. /\ SubSeq(more, 1, Len(fs)) \in Seq(File)
          /\ Len(SubSeq(more, 1, Len(fs))) = IF 1 <= Len(fs) THEN Len(fs) - 1 + 1 ELSE 0
          /\ \A i \in 1..(Len(fs) - 1 + 1) : SubSeq(more, 1, Len(fs))[i] = more[1 + i - 1]
      BY ONLY <3>1, SubSeqProperties
    <3> QED BY <2>1, <3>2
  <2>4. SubSeq(more, 1, Len(fs)) = fs BY <2>3, SeqEqual
  <2>5. Len(more) - 1 = Len(fs) BY <2>1
  <2> QED BY <2>1, <2>2, <2>4, <2>5 DEF Front
<1>3. f.text \in Seq(Seq(Char)) /\ Len(f.text) \in Nat BY LenProperties
<1>4. SubSeq(f.text, 0 + 1, Len(f.text)) = f.text BY <1>3, SubSeqFull
<1>5. SubSeq(f.text, 1, 0) = <<>> BY SubSeqEmpty
<1>6. \A prefix : Words(<<>>, prefix) = <<>>
  <2>1. Len(<<>>) = 0 BY EmptySeq
  <2> QED BY <2>1 DEF Words, FlattenSeq
<1>7. RulesIn(<<>>) = <<>>
  <2>1. Len(<<>>) = 0 BY EmptySeq
  <2> QED BY <2>1 DEF RulesIn, FlattenSeq
<1>8. AllWords(fs, Plus) \o <<>> = AllWords(fs, Plus) /\ AllRules(fs) \o <<>> = AllRules(fs)
  BY FilesGive, ConcatEmptySeq
<1>9. 0 \in 0..Len(f.text) BY <1>3
<1> QED BY <1>1, <1>2, <1>4, <1>5, <1>6, <1>7, <1>8, <1>9 DEF ReadSo, NoLists

(***************************************************************************)
(* One more line is read: what it gives comes behind the rest.             *)
(***************************************************************************)
LEMMA ReadGoesOn ==
  ASSUME NEW fs \in Seq(File), NEW ln, NEW ad, NEW ls, NEW ru,
         ReadSo(fs, ln, ad, ls, ru), ln # <<>>
  PROVE  /\ Head(ln) \in Seq(Char)
         /\ ad \in Seq(Seq(Char)) /\ ru \in Seq(Seq(Seq(Char)))
         /\ ls \in [white : Seq(Seq(Char)), black : Seq(Seq(Char)), domains : Seq(Seq(Char))]
         /\ ReadSo(fs, Tail(ln), ad \o WordsOf(Head(ln), Plus),
                   [white |-> ls.white \o WordsOf(Head(ln), Star),
                    black |-> ls.black \o WordsOf(Head(ln), Minus),
                    domains |-> ls.domains \o WordsOf(Head(ln), MinusMinus)],
                   ru \o RuleOf(Head(ln)))
<1>1. fs # <<>> BY DEF ReadSo
<1>2. PICK text : text = Last(fs).text OBVIOUS
<1>3. text \in Seq(Seq(Char)) /\ Len(text) \in Nat
  <2>1. Len(fs) \in Nat \ {0} BY <1>1, EmptySeq
  <2>2. Last(fs) \in File BY <2>1 DEF Last
  <2> QED BY <1>2, <2>2, LenProperties
<1>4. PICK n \in 0..Len(text) :
        /\ ln = SubSeq(text, n + 1, Len(text))
        /\ ad = AllWords(Front(fs), Plus) \o Words(SubSeq(text, 1, n), Plus)
        /\ ls = [white |-> Words(SubSeq(text, 1, n), Star), black |-> Words(SubSeq(text, 1, n), Minus),
                 domains |-> Words(SubSeq(text, 1, n), MinusMinus)]
        /\ ru = AllRules(Front(fs)) \o RulesIn(SubSeq(text, 1, n))
  BY <1>2 DEF ReadSo
<1>5. n + 1 \in 1..Len(text)
  <2>1. CASE n = Len(text)
    <3>1. ln = <<>> BY <1>3, <1>4, <2>1, SubSeqEmpty
    <3> QED BY <3>1
  <2> QED BY <1>3, <2>1
<1>6. PICK line : line = Head(ln) OBVIOUS
<1>7. line = text[n + 1] /\ line \in Seq(Char) /\ Tail(ln) = SubSeq(text, n + 2, Len(text))
  <2>1. Len(text) \in (n + 1)..Len(text) BY <1>3, <1>5
  <2>2. Head(ln) = text[n + 1] /\ Tail(ln) = SubSeq(text, n + 1 + 1, Len(text))
    BY <1>3, <1>4, <1>5, <2>1, HeadTailOfSubSeq
  <2>3. n + 1 + 1 = n + 2 BY <1>5
  <2> QED BY <1>3, <1>5, <1>6, <2>2, <2>3, ElementOfSeq
<1>8. PICK read : read = SubSeq(text, 1, n) OBVIOUS
<1>9. read \in Seq(Seq(Char)) /\ SubSeq(text, 1, n + 1) = Append(read, line)
  <2>1. 1 \in 1..Len(text) /\ n + 1 \in 1..Len(text) BY <1>3, <1>5
  <2>2. SubSeq(text, 1, n + 1) = SubSeq(text, 1, n + 1 - 1) \o <<text[n + 1]>>
    BY <1>3, <2>1, SubSeqRecursiveSecond
  <2>3. n + 1 - 1 = n BY <1>5
  <2>4. \A i \in 1..n : text[i] \in Seq(Char) BY <1>3
  <2>5. read \in Seq(Seq(Char)) BY <1>8, <2>4, SubSeqProperties
  <2>6. Append(read, line) = read \o <<line>> BY <1>7, <2>5, AppendIsConcat
  <2> QED BY <1>7, <1>8, <2>2, <2>3, <2>5, <2>6
<1>10. PICK more : more = SubSeq(text, 1, n + 1) OBVIOUS
<1>11. \A prefix : /\ Words(read, prefix) \in Seq(Seq(Char))
                   /\ Words(more, prefix) = Words(read, prefix) \o WordsOf(line, prefix)
  BY <1>7, <1>9, <1>10, TextGives
<1>12. RulesIn(read) \in Seq(Seq(Seq(Char))) /\ RulesIn(more) = RulesIn(read) \o RuleOf(line)
  BY <1>7, <1>9, <1>10, TextGives
<1>13. PICK W, R : W = AllWords(Front(fs), Plus) /\ R = AllRules(Front(fs)) OBVIOUS
<1>14. W \in Seq(Seq(Char)) /\ R \in Seq(Seq(Seq(Char)))
  <2>1. Len(fs) \in Nat \ {0} BY <1>1, EmptySeq
  <2>2. \A i \in 1..(Len(fs) - 1) : fs[i] \in File BY <2>1
  <2>3. Front(fs) \in Seq(File) BY <2>1, <2>2, SubSeqProperties DEF Front
  <2> QED BY <1>13, <2>3, FilesGive
<1>15. ad \o WordsOf(line, Plus) = W \o Words(more, Plus)
  <2>1. ad = W \o Words(read, Plus) BY <1>4, <1>8, <1>13
  <2>2. WordsOf(line, Plus) \in Seq(Seq(Char)) BY <1>7, LineType
  <2>3. (W \o Words(read, Plus)) \o WordsOf(line, Plus) = W \o (Words(read, Plus) \o WordsOf(line, Plus))
    <3>1. PICK x, y, S : x = Words(read, Plus) /\ y = WordsOf(line, Plus) /\ S = Seq(Char) OBVIOUS
    <3>2. W \in Seq(S) /\ x \in Seq(S) /\ y \in Seq(S) BY <1>11, <1>14, <2>2, <3>1
    <3>3. (W \o x) \o y = W \o (x \o y) BY ONLY <3>2, SMTT(30)
    <3> QED BY <3>1, <3>3, Zenon
  <2> QED BY <1>11, <2>1, <2>3
<1>16. ru \o RuleOf(line) = R \o RulesIn(more)
  <2>1. ru = R \o RulesIn(read) BY <1>4, <1>8, <1>13
  <2>2. RuleOf(line) \in Seq(Seq(Seq(Char))) BY <1>7, LineType
  <2>3. (R \o RulesIn(read)) \o RuleOf(line) = R \o (RulesIn(read) \o RuleOf(line))
    <3>1. PICK x, y, S : x = RulesIn(read) /\ y = RuleOf(line) /\ S = Seq(Seq(Char)) OBVIOUS
    <3>2. R \in Seq(S) /\ x \in Seq(S) /\ y \in Seq(S) BY <1>12, <1>14, <2>2, <3>1
    <3>3. (R \o x) \o y = R \o (x \o y) BY ONLY <3>2, SMTT(30)
    <3> QED BY <3>1, <3>3, Zenon
  <2> QED BY <1>12, <2>1, <2>3
<1>17. /\ ls = [white |-> Words(read, Star), black |-> Words(read, Minus),
                domains |-> Words(read, MinusMinus)]
       /\ [white |-> ls.white \o WordsOf(line, Star), black |-> ls.black \o WordsOf(line, Minus),
           domains |-> ls.domains \o WordsOf(line, MinusMinus)]
          = [white |-> Words(more, Star), black |-> Words(more, Minus),
             domains |-> Words(more, MinusMinus)]
  BY <1>4, <1>8, <1>11
<1>18. n + 1 \in 0..Len(text) /\ n + 1 + 1 = n + 2 BY <1>3, <1>5
<1>19. ReadSo(fs, Tail(ln), ad \o WordsOf(line, Plus),
              [white |-> ls.white \o WordsOf(line, Star), black |-> ls.black \o WordsOf(line, Minus),
               domains |-> ls.domains \o WordsOf(line, MinusMinus)],
              ru \o RuleOf(line))
  BY <1>1, <1>2, <1>7, <1>10, <1>13, <1>15, <1>16, <1>17, <1>18 DEF ReadSo
<1>20. /\ ad \in Seq(Seq(Char)) /\ ru \in Seq(Seq(Seq(Char)))
       /\ ls \in [white : Seq(Seq(Char)), black : Seq(Seq(Char)), domains : Seq(Seq(Char))]
  BY <1>4, <1>8, <1>11, <1>12, <1>13, <1>14, <1>17, ConcatProperties
<1> QED BY <1>6, <1>7, <1>19, <1>20

(***************************************************************************)
(* All lines are read: what is collected is what the files say.            *)
(***************************************************************************)
LEMMA ReadEnds ==
  ASSUME NEW fs \in Seq(File), NEW ad, NEW ls, NEW ru, ReadSo(fs, <<>>, ad, ls, ru)
  PROVE  /\ ad = AllWords(fs, Plus) /\ ru = AllRules(fs)
         /\ ls = [white |-> Words(Last(fs).text, Star), black |-> Words(Last(fs).text, Minus),
                  domains |-> Words(Last(fs).text, MinusMinus)]
<1>1. fs # <<>> BY DEF ReadSo
<1>2. PICK text : text = Last(fs).text OBVIOUS
<1>3. /\ Len(fs) \in Nat \ {0} /\ Last(fs) \in File /\ Front(fs) \in Seq(File)
      /\ Append(Front(fs), Last(fs)) = fs
  <2>1. Len(fs) \in Nat \ {0} BY <1>1, EmptySeq
  <2>2. Last(fs) \in File BY <2>1 DEF Last
  <2>3. \A i \in 1..(Len(fs) - 1) : fs[i] \in File BY <2>1
  <2>4. Front(fs) \in Seq(File) BY <2>1, <2>3, SubSeqProperties DEF Front
  <2>5. 1 \in 1..Len(fs) /\ Len(fs) \in 1..Len(fs) BY <2>1
  <2>6. SubSeq(fs, 1, Len(fs)) = SubSeq(fs, 1, Len(fs) - 1) \o <<fs[Len(fs)]>>
    BY <2>5, SubSeqRecursiveSecond
  <2>7. SubSeq(fs, 1, Len(fs)) = fs BY SubSeqFull
  <2>8. Append(Front(fs), Last(fs)) = Front(fs) \o <<Last(fs)>> BY <2>2, <2>4, AppendIsConcat
  <2> QED BY <2>1, <2>2, <2>4, <2>6, <2>7, <2>8 DEF Front, Last
<1>4. text \in Seq(Seq(Char)) /\ Len(text) \in Nat BY <1>2, <1>3, LenProperties
<1>5. PICK n \in 0..Len(text) :
        /\ <<>> = SubSeq(text, n + 1, Len(text))
        /\ ad = AllWords(Front(fs), Plus) \o Words(SubSeq(text, 1, n), Plus)
        /\ ls = [white |-> Words(SubSeq(text, 1, n), Star), black |-> Words(SubSeq(text, 1, n), Minus),
                 domains |-> Words(SubSeq(text, 1, n), MinusMinus)]
        /\ ru = AllRules(Front(fs)) \o RulesIn(SubSeq(text, 1, n))
  BY <1>2 DEF ReadSo
<1>6. n = Len(text)
  <2>1. n + 1 \in Int /\ Len(text) \in Int /\ \A i \in (n + 1)..Len(text) : text[i] \in Seq(Char)
    BY <1>4
  <2>2. Len(SubSeq(text, n + 1, Len(text)))
          = IF n + 1 <= Len(text) THEN Len(text) - (n + 1) + 1 ELSE 0
    BY ONLY <2>1, SubSeqProperties
  <2>3. Len(<<>>) = 0 BY EmptySeq
  <2>4. Len(SubSeq(text, n + 1, Len(text))) = 0 BY <1>5, <2>3, Zenon
  <2> QED BY <1>4, <2>2, <2>4
<1>7. SubSeq(text, 1, n) = text BY <1>4, <1>6, SubSeqFull
<1>8. /\ AllWords(fs, Plus) = AllWords(Front(fs), Plus) \o Words(text, Plus)
      /\ AllRules(fs) = AllRules(Front(fs)) \o RulesIn(text)
  <2>1. PICK gs, f : gs = Front(fs) /\ f = Last(fs) OBVIOUS
  <2>2. gs \in Seq(File) /\ f \in File /\ Append(gs, f) = fs BY <1>3, <2>1
  <2>3. /\ AllWords(Append(gs, f), Plus) = AllWords(gs, Plus) \o Words(f.text, Plus)
        /\ AllRules(Append(gs, f)) = AllRules(gs) \o RulesIn(f.text)
    BY <2>2, FilesGive
  <2> QED BY <1>2, <2>1, <2>2, <2>3
<1> QED BY <1>2, <1>5, <1>7, <1>8

-----------------------------------------------------------------------------
\* Has, after a step; a step leaves the patterns of all objects but one alone.
HasNext(h, alternatives) == m_re'[h] # Null /\ regex'[m_re'[h]] = alternatives
Keeps(h) ==
  \A x \in Handle \ {h} :
    m_re'[x] = m_re[x] /\ (m_re[x] # Null => regex'[m_re[x]] = regex[m_re[x]])

(***************************************************************************)
(* What an object has is kept, unless the step is about it.                *)
(***************************************************************************)
LEMMA KeepsHas ==
  ASSUME NEW h, Keeps(h), NEW x \in Handle, x # h
  PROVE  /\ m_re'[x] = m_re[x]
         /\ \A a : Has(x, a) => HasNext(x, a)
BY DEF Keeps, Has, HasNext

(***************************************************************************)
(* A pattern is compiled into a place that no other object holds.          *)
(***************************************************************************)
LEMMA CompileGives ==
  ASSUME TypeInv, NEW h \in Handle, NEW a, Compile(h, a)
  PROVE  Keeps(h) /\ HasNext(h, a)
<1>1. PICK p \in Pcre : Load(h, p) /\ regex' = [regex EXCEPT ![p] = a] BY DEF Compile
<1>2. /\ Matches(count, m_re) /\ m_re \in [Handle -> Pcre \cup {Null}]
      /\ regex = [q \in Pcre |-> regex[q]]
  BY InvIsMatches DEF TypeInv, HandleInv, HandlesOK
<1>3. m_re' = [m_re EXCEPT ![h] = p] /\ Release(count, m_re[h])[p] = 0 BY <1>1 DEF Load
<1>4. HasNext(h, a)
  <2>1. m_re'[h] = p /\ p # Null BY <1>2, <1>3, HandleAssumption
  <2>2. regex'[p] = a BY <1>1, <1>2
  <2> QED BY <2>1, <2>2 DEF HasNext
<1>5. ASSUME NEW x \in Handle \ {h}, m_re[x] = p PROVE FALSE
  <2>1. PICK c, f : c = Release(count, m_re[h]) /\ f = [m_re EXCEPT ![h] = Null] OBVIOUS
  <2>2. Matches(c, f) BY <1>2, <2>1, ReleaseMatches
  <2>3. f[x] = p BY <1>2, <1>5, <2>1
  <2>4. c[p] > 0 BY <1>5, <2>2, <2>3, HeldIsCounted
  <2> QED BY <1>3, <2>1, <2>4
<1>6. Keeps(h)
  <2> SUFFICES ASSUME NEW x \in Handle \ {h}
               PROVE  m_re'[x] = m_re[x] /\ (m_re[x] # Null => regex'[m_re[x]] = regex[m_re[x]])
    BY DEF Keeps
  <2>1. m_re'[x] = m_re[x] BY <1>2, <1>3
  <2>2. ASSUME m_re[x] # Null PROVE regex'[m_re[x]] = regex[m_re[x]]
    <3>1. m_re[x] \in Pcre /\ m_re[x] # p BY <1>2, <1>5, <2>2
    <3> QED BY <1>1, <1>2, <3>1
  <2> QED BY <2>1, <2>2
<1> QED BY <1>4, <1>6

(***************************************************************************)
(* A copy has what the other has.                                          *)
(***************************************************************************)
LEMMA CopyGives ==
  ASSUME TypeInv, NEW h \in Handle, NEW other \in Handle, Copy(h, other), UNCHANGED regex
  PROVE  Keeps(h) /\ \A a : Has(other, a) => HasNext(h, a)
<1>1. m_re \in [Handle -> Pcre \cup {Null}] BY DEF TypeInv, HandleInv, HandlesOK
<1>2. m_re' = [m_re EXCEPT ![h] = m_re[other]] BY DEF Copy
<1> QED BY <1>1, <1>2 DEF Keeps, Has, HasNext

(***************************************************************************)
(* Construction, a failed load and the end of an object change no pattern  *)
(* but its own.                                                            *)
(***************************************************************************)
LEMMA OthersKeep ==
  ASSUME TypeInv, NEW h \in Handle, Construct(h) \/ LoadFails(h) \/ Destroy(h), UNCHANGED regex
  PROVE  Keeps(h)
<1>1. m_re \in [Handle -> Pcre \cup {Null}] BY DEF TypeInv, HandleInv, HandlesOK
<1>2. m_re' = [m_re EXCEPT ![h] = Null] BY DEF Construct, LoadFails, Destroy
<1> QED BY <1>1, <1>2 DEF Keeps

(***************************************************************************)
(* The objects are different ones.                                         *)
(***************************************************************************)
LEMMA ObjectsDiffer ==
  /\ Rep # Whitelist /\ Rep # Blacklist /\ Whitelist # Blacklist
  /\ \A n \in 1..Len(Meta) : Meta[n] # Rep /\ Meta[n] # Whitelist /\ Meta[n] # Blacklist
  /\ \A k \in 1..MaxRules :
       /\ Slot(k) # Rep /\ Slot(k) # Whitelist /\ Slot(k) # Blacklist
       /\ \A n \in 1..Len(Meta) : Slot(k) # Meta[n]
       /\ \A j \in 1..MaxRules : j # k => Slot(k) # Slot(j)
<1>1. \A n \in 1..Len(Meta) : n = 1 \/ n = 2 \/ n = 3 BY DEF Meta
<1>2. Meta[1] = <<"filter_meta_text">> /\ Meta[2] = <<"filter_meta_num">> /\ Meta[3] = <<"filter_meta_other">>
  BY DEF Meta
<1>3. Rep # Whitelist /\ Rep # Blacklist /\ Whitelist # Blacklist BY DEF Rep, Whitelist, Blacklist
<1>4. \A n \in 1..Len(Meta) : Meta[n] # Rep /\ Meta[n] # Whitelist /\ Meta[n] # Blacklist
  BY <1>1, <1>2 DEF Rep, Whitelist, Blacklist
<1>5. ASSUME NEW k \in 1..MaxRules
      PROVE  /\ Slot(k) # Rep /\ Slot(k) # Whitelist /\ Slot(k) # Blacklist
             /\ \A n \in 1..Len(Meta) : Slot(k) # Meta[n]
             /\ \A j \in 1..MaxRules : j # k => Slot(k) # Slot(j)
  <2>1. Len(Slot(k)) = 2 BY DEF Slot
  <2>2. Len(Rep) = 1 /\ Len(Whitelist) = 1 /\ Len(Blacklist) = 1 BY DEF Rep, Whitelist, Blacklist
  <2>3. \A n \in 1..Len(Meta) : Len(Meta[n]) = 1
    <3>1. Len(Meta[1]) = 1 /\ Len(Meta[2]) = 1 /\ Len(Meta[3]) = 1 BY <1>2
    <3> QED BY <1>1, <3>1
  <2>4. Slot(k) # Rep /\ Slot(k) # Whitelist /\ Slot(k) # Blacklist BY <2>1, <2>2
  <2>5. ASSUME NEW n \in 1..Len(Meta) PROVE Slot(k) # Meta[n]
    <3>1. Len(Meta[n]) = 1 BY <2>3
    <3> QED BY <2>1, <3>1
  <2>6. Slot(k)[2] = k /\ \A j \in 1..MaxRules : Slot(j)[2] = j BY DEF Slot
  <2> QED BY <2>4, <2>5, <2>6
<1> QED BY <1>3, <1>4, <1>5

(***************************************************************************)
(* A step about an object that holds no rule keeps the rules as they are.  *)
(***************************************************************************)
LEMMA PatternsKept ==
  ASSUME TypeInv, PatternInv, Loading \/ pc = "options", UNCHANGED rules,
         NEW h \in {Rep, Whitelist, Blacklist}, Keeps(h)
  PROVE  /\ \A n \in 1..Len(Meta) : m_re'[Meta[n]] # Null
         /\ \A n \in 1..Len(rules') : HasNext(Slot(n), {Url(rules'[n][1])})
<1>1. ASSUME NEW n \in 1..Len(Meta) PROVE m_re'[Meta[n]] # Null
  <2>1. Meta[n] \in Handle /\ Meta[n] # h BY MembersAreObjects, ObjectsAreHandles, ObjectsDiffer
  <2>2. m_re[Meta[n]] # Null BY DEF PatternInv
  <2> QED BY <2>1, <2>2, KeepsHas
<1>2. ASSUME NEW n \in 1..Len(rules) PROVE HasNext(Slot(n), {Url(rules[n][1])})
  <2>1. n \in 1..MaxRules BY LenProperties DEF TypeInv, TypeOK
  <2>2. Slot(n) \in Handle /\ Slot(n) # h BY <2>1, ObjectsAreHandles, ObjectsDiffer
  <2>3. Has(Slot(n), {Url(rules[n][1])}) BY DEF PatternInv
  <2> QED BY <2>2, <2>3, KeepsHas
<1> QED BY <1>1, <1>2

(***************************************************************************)
(* No files, no words and no rules.                                        *)
(***************************************************************************)
LEMMA NoFiles == AllWords(<<>>, Plus) = <<>> /\ AllRules(<<>>) = <<>>
<1>1. Len(<<>>) = 0 BY EmptySeq
<1> QED BY <1>1 DEF AllWords, AllRules, FlattenSeq

(***************************************************************************)
(* The prefixes are different ones.                                        *)
(***************************************************************************)
LEMMA PrefixesDiffer ==
  /\ Plus # Minus /\ Plus # MinusMinus /\ Plus # Star
  /\ Minus # MinusMinus /\ Minus # Star /\ MinusMinus # Star
<1>1. Plus[1] # Minus[1] /\ Plus[1] # Star[1] /\ Minus[1] # Star[1] BY DEF Plus, Minus, Star
<1>2. Len(Plus) = 1 /\ Len(Minus) = 1 /\ Len(Star) = 1 /\ Len(MinusMinus) = 2
  BY DEF Plus, Minus, Star, MinusMinus
<1> QED BY <1>1, <1>2

(***************************************************************************)
(* The filter at the start.                                                *)
(***************************************************************************)
LEMMA FilterInit == Init => FilterInv
<1> SUFFICES ASSUME Init PROVE FilterInv
  OBVIOUS
<1>1. /\ pc = "construct" /\ files = <<>> /\ added = <<>> /\ rules = <<>>
      /\ m_re = [h \in Handle |-> Null]
  BY DEF Init, InitHandles
<1>2. \A n \in 1..Len(Meta) : m_re[Meta[n]] = Null
  BY <1>1, MembersAreObjects, ObjectsAreHandles
<1>3. \A n \in 2..Len(Meta) : n \in 1..Len(Meta) BY DEF Meta
<1> QED BY <1>1, <1>2, <1>3 DEF FilterInv, StartInv, LoadInv, Loading, PatternInv, OptionsInv

\* The invariant after a step.
StartNext ==
  pc' = "construct" =>
    /\ files' = <<>> /\ added' = <<>> /\ rules' = <<>>
    /\ \A n \in 2..Len(Meta) : m_re'[Meta[n]] # Null => m_re'[Meta[n - 1]] # Null
LoadNext ==
  pc' \in {"lines", "load", "push", "next", "blacklist"} =>
    /\ ReadSo(files', lines', added', lists',
              IF pc' \in {"load", "push"} THEN Append(rules', cols') ELSE rules')
    /\ pc' = "push" => HasNext(Rep, {Url(cols'[1])})
    /\ pc' = "blacklist" => lines' = <<>> /\ HasNext(Whitelist, WhiteOf(Last(files').text))
PatternNext ==
  pc' \in {"lines", "load", "push", "next", "blacklist", "options"} =>
    /\ \A n \in 1..Len(Meta) : m_re'[Meta[n]] # Null
    /\ \A n \in 1..Len(rules') : HasNext(Slot(n), {Url(rules'[n][1])})
OptionsNext ==
  pc' = "options" =>
    /\ added' = AllWords(files', Plus) /\ rules' = AllRules(files')
    /\ files' # <<>> => /\ HasNext(Whitelist, WhiteOf(Last(files').text))
                        /\ HasNext(Blacklist, BlackOf(Last(files').text))

(***************************************************************************)
(* This is the invariant of the next state.                                *)
(***************************************************************************)
LEMMA NextIsPrimed ==
  StartNext /\ LoadNext /\ PatternNext /\ OptionsNext => FilterInv'
<1>1. StartNext => StartInv' BY DEF StartNext, StartInv
<1>2. LoadNext => LoadInv' BY DEF LoadNext, LoadInv, Loading, Has, HasNext
<1>3. PatternNext => PatternInv' BY DEF PatternNext, PatternInv, Loading, Has, HasNext
<1>4. OptionsNext => OptionsInv' BY DEF OptionsNext, OptionsInv, Has, HasNext
<1> QED BY <1>1, <1>2, <1>3, <1>4 DEF FilterInv

(***************************************************************************)
(* One of the first steps of main: the members of san.                     *)
(***************************************************************************)
LEMMA StartStep ==
  ASSUME TypeInv, FilterInv, ConstructMember \/ LoadDefault
  PROVE  FilterInv'
<1>0. pc = "construct" BY DEF ConstructMember, LoadDefault
<1>1. /\ files = <<>> /\ added = <<>> /\ rules = <<>>
      /\ \A n \in 2..Len(Meta) : m_re[Meta[n]] # Null => m_re[Meta[n - 1]] # Null
  BY <1>0 DEF FilterInv, StartInv
<1>2. UNCHANGED <<files, added, rules>> BY DEF ConstructMember, LoadDefault, loadvars, mainvars
<1>3. \A n \in 1..Len(Meta) : Meta[n] \in Handle BY MembersAreObjects, ObjectsAreHandles
<1>m. Len(Meta) = 3 BY DEF Meta
<1>4. CASE ConstructMember
  <2>1. PICK h : Construct(h) BY <1>4 DEF ConstructMember
  <2>2. pc' = "construct" BY <1>0, <1>4 DEF ConstructMember
  <2>3. m_re' = m_re
    <3>1. m_re \in [Handle -> Pcre \cup {Null}] BY DEF TypeInv, HandleInv, HandlesOK
    <3>2. h \in Handle => m_re[h] = Null
      BY <2>1 DEF Construct, TypeInv, HandleInv, Counted
    <3> QED BY <2>1, <3>1, <3>2 DEF Construct
  <2>4. StartNext BY <1>1, <1>2, <2>3 DEF StartNext
  <2>5. LoadNext /\ PatternNext /\ OptionsNext BY <2>2 DEF LoadNext, PatternNext, OptionsNext
  <2> QED BY <2>4, <2>5, NextIsPrimed
<1>5. CASE LoadDefault
  <2>1. PICK n \in 1..Len(Meta) :
          /\ n > 1 => m_re[Meta[n - 1]] # Null
          /\ Compile(Meta[n], {Url(<<"default">>)})
          /\ pc' = IF n < Len(Meta) THEN pc ELSE "options"
    BY <1>5 DEF LoadDefault
  <2>2. PICK a : Compile(Meta[n], a) BY <2>1
  <2>3. Keeps(Meta[n]) /\ m_re'[Meta[n]] # Null BY <1>3, <2>2, CompileGives DEF HasNext
  <2>4. \A x \in Handle : m_re[x] # Null => m_re'[x] # Null BY <2>3 DEF Keeps
  <2>5. ASSUME NEW k \in 2..Len(Meta), m_re'[Meta[k]] # Null PROVE m_re'[Meta[k - 1]] # Null
    <3>1. Meta[k] \in Handle /\ Meta[k - 1] \in Handle
      <4>1. k \in 1..Len(Meta) /\ k - 1 \in 1..Len(Meta) BY <1>m
      <4> QED BY <1>3, <4>1
    <3>2. CASE k = n
      <4>1. m_re[Meta[k - 1]] # Null BY <2>1, <3>2
      <4> QED BY <2>4, <3>1, <4>1
    <3>3. CASE k # n
      <4>1. Meta[k] # Meta[n]
        <5>1. Meta[1] # Meta[2] /\ Meta[2] # Meta[3] /\ Meta[1] # Meta[3] BY DEF Meta
        <5>2. (k = 2 \/ k = 3) /\ (n = 1 \/ n = 2 \/ n = 3) BY <1>m
        <5> QED BY <3>3, <5>1, <5>2
      <4>2. m_re[Meta[k]] # Null BY <2>3, <2>5, <3>1, <4>1, KeepsHas
      <4> QED BY <1>1, <2>4, <3>1, <4>2
    <3> QED BY <3>2, <3>3
  <2>6. StartNext BY <1>1, <1>2, <2>5 DEF StartNext
  <2>7. CASE n < Len(Meta)
    <3>1. pc' = "construct" BY <1>0, <2>1, <2>7
    <3> QED BY <2>6, <3>1, NextIsPrimed DEF LoadNext, PatternNext, OptionsNext
  <2>8. CASE n = Len(Meta)
    <3>1. pc' = "options" BY <1>m, <2>1, <2>8
    <3>2. m_re'[Meta[3]] # Null /\ m_re'[Meta[2]] # Null /\ m_re'[Meta[1]] # Null
      <4>1. m_re'[Meta[3]] # Null BY <1>m, <2>3, <2>8
      <4>2. 2 \in 2..Len(Meta) /\ 3 \in 2..Len(Meta) /\ 3 - 1 = 2 /\ 2 - 1 = 1 BY <1>m
      <4>3. m_re'[Meta[2]] # Null BY <2>5, <4>1, <4>2
      <4>4. m_re'[Meta[1]] # Null BY <2>5, <4>2, <4>3
      <4> QED BY <4>1, <4>3, <4>4
    <3>3. \A k \in 1..Len(Meta) : k = 1 \/ k = 2 \/ k = 3 BY <1>m
    <3>4. PatternNext
      <4>1. Len(rules') = 0 BY <1>1, <1>2, EmptySeq
      <4> QED BY <3>2, <3>3, <4>1 DEF PatternNext
    <3>5. OptionsNext BY <1>1, <1>2, NoFiles DEF OptionsNext
    <3>6. LoadNext BY <3>1 DEF LoadNext
    <3> QED BY <2>6, <3>4, <3>5, <3>6, NextIsPrimed
  <2> QED BY <1>m, <2>7, <2>8
<1> QED BY <1>4, <1>5

(***************************************************************************)
(* An option is read.                                                      *)
(***************************************************************************)
LEMMA OptionStep ==
  ASSUME TypeInv, FilterInv, FlagOption \/ MetaOption \/ FileOption
  PROVE  FilterInv'
<1>0. pc = "options" BY DEF FlagOption, MetaOption, FileOption, Option
<1>1. /\ added = AllWords(files, Plus) /\ rules = AllRules(files)
      /\ files # <<>> => /\ Has(Whitelist, WhiteOf(Last(files).text))
                         /\ Has(Blacklist, BlackOf(Last(files).text))
  BY <1>0 DEF FilterInv, OptionsInv
<1>2. UNCHANGED <<added, rules>> BY DEF FlagOption, MetaOption, FileOption, loadvars
<1>h. /\ Rep \in Handle /\ Whitelist \in Handle /\ Blacklist \in Handle
      /\ Rep # Whitelist /\ Rep # Blacklist
  BY MembersAreObjects, ObjectsAreHandles, ObjectsDiffer
<1>u. ASSUME UNCHANGED <<m_re, regex>> PROVE Keeps(Rep) BY <1>u DEF Keeps
<1>3. CASE FlagOption
  <2>1. pc' = "options" /\ Keeps(Rep) /\ UNCHANGED files
    BY <1>0, <1>3, <1>u DEF FlagOption, handlevars
  <2>2. OptionsNext BY <1>1, <1>2, <1>h, <2>1, KeepsHas DEF OptionsNext
  <2>3. PatternNext BY <1>0, <1>2, <2>1, PatternsKept DEF PatternNext, FilterInv
  <2> QED BY <2>1, <2>2, <2>3, NextIsPrimed DEF StartNext, LoadNext
<1>4. CASE MetaOption
  <2>1. PICK n \in 1..Len(Meta) :
          \/ Compile(Meta[n], {Url(<<"given">>)}) /\ UNCHANGED <<pc, status>>
          \/ LoadFails(Meta[n]) /\ Refuse /\ UNCHANGED regex
    BY <1>4 DEF MetaOption
  <2>2. CASE LoadFails(Meta[n]) /\ Refuse /\ UNCHANGED regex
    BY <2>2, NextIsPrimed DEF Refuse, StartNext, LoadNext, PatternNext, OptionsNext
  <2>3. CASE Compile(Meta[n], {Url(<<"given">>)}) /\ UNCHANGED <<pc, status>>
    <3>1. PICK a : Compile(Meta[n], a) BY <2>3
    <3>2. Meta[n] \in Handle BY MembersAreObjects, ObjectsAreHandles
    <3>3. Keeps(Meta[n]) /\ m_re'[Meta[n]] # Null BY <3>1, <3>2, CompileGives DEF HasNext
    <3>4. UNCHANGED files /\ pc' = "options" BY <1>0, <1>4, <2>3 DEF MetaOption
    <3>5. OptionsNext
      <4>1. Meta[n] # Whitelist /\ Meta[n] # Blacklist BY ObjectsDiffer
      <4> QED BY <1>1, <1>2, <1>h, <3>3, <3>4, <4>1, KeepsHas DEF OptionsNext
    <3>6. \A k \in 1..Len(Meta) : m_re'[Meta[k]] # Null
      <4>1. \A k \in 1..Len(Meta) : Meta[k] \in Handle BY MembersAreObjects, ObjectsAreHandles
      <4>2. \A k \in 1..Len(Meta) : m_re[Meta[k]] # Null BY <1>0 DEF FilterInv, PatternInv
      <4> QED BY <3>3, <4>1, <4>2 DEF Keeps
    <3>7. ASSUME NEW k \in 1..Len(rules) PROVE HasNext(Slot(k), {Url(rules[k][1])})
      <4>1. k \in 1..MaxRules BY LenProperties DEF TypeInv, TypeOK
      <4>2. Slot(k) \in Handle /\ Slot(k) # Meta[n] BY <4>1, ObjectsAreHandles, ObjectsDiffer
      <4>3. Has(Slot(k), {Url(rules[k][1])}) BY <1>0 DEF FilterInv, PatternInv
      <4> QED BY <3>3, <4>2, <4>3, KeepsHas
    <3>8. PatternNext BY <1>2, <3>6, <3>7 DEF PatternNext
    <3> QED BY <3>4, <3>5, <3>8, NextIsPrimed DEF StartNext, LoadNext
  <2> QED BY <2>1, <2>2, <2>3
<1>5. CASE FileOption
  <2>1. PICK f \in File : files' = Append(files, f) /\ lines' = f.text BY <1>5 DEF FileOption
  <2>2. /\ lists' = NoLists /\ pc' = "lines" /\ Keeps(Rep)
    BY <1>5, <1>u DEF FileOption, handlevars
  <2>3. LoadNext
    <3>1. files \in Seq(File) BY DEF TypeInv, TypeOK
    <3>2. ReadSo(files', lines', added', lists', rules')
      BY <1>1, <1>2, <2>1, <2>2, <3>1, ReadStarts
    <3> QED BY <2>2, <3>2 DEF LoadNext
  <2>4. PatternNext BY <1>0, <1>2, <2>2, PatternsKept DEF PatternNext, FilterInv
  <2> QED BY <2>2, <2>3, <2>4, NextIsPrimed DEF StartNext, OptionsNext
<1> QED BY <1>3, <1>4, <1>5

(***************************************************************************)
(* A line is read.                                                         *)
(***************************************************************************)
LEMMA LineStep ==
  ASSUME TypeInv, FilterInv, ReadLine \/ ReadRule
  PROVE  FilterInv'
<1>0. pc = "lines" /\ lines # <<>> /\ lines' = Tail(lines) BY DEF ReadLine, ReadRule
<1>1. ReadSo(files, lines, added, lists, rules) BY <1>0 DEF FilterInv, LoadInv, Loading
<1>2. PICK line : line = Head(lines) OBVIOUS
<1>3. PICK c : c = SplitLine(line) OBVIOUS
<1>4. /\ line \in Seq(Char)
      /\ added \in Seq(Seq(Char)) /\ rules \in Seq(Seq(Seq(Char)))
      /\ lists \in [white : Seq(Seq(Char)), black : Seq(Seq(Char)), domains : Seq(Seq(Char))]
      /\ ReadSo(files, lines', added \o WordsOf(line, Plus),
                [white |-> lists.white \o WordsOf(line, Star),
                 black |-> lists.black \o WordsOf(line, Minus),
                 domains |-> lists.domains \o WordsOf(line, MinusMinus)],
                rules \o RuleOf(line))
  <2>1. files \in Seq(File) BY DEF TypeInv, TypeOK
  <2> QED BY <1>0, <1>1, <1>2, <2>1, ReadGoesOn
<1>5. c \in Seq(Seq(Char)) BY <1>3, <1>4, SplitLineType
<1>6. UNCHANGED <<files, rules>> BY DEF ReadLine, ReadRule, mainvars
<1>n. /\ added \o <<>> = added /\ rules \o <<>> = rules
      /\ lists.white \o <<>> = lists.white /\ lists.black \o <<>> = lists.black
      /\ lists.domains \o <<>> = lists.domains
      /\ lists = [white |-> lists.white, black |-> lists.black, domains |-> lists.domains]
  BY <1>4, ConcatEmptySeq
<1>7. CASE ReadLine
  <2>1. /\ c # <<>> => c[1] \in {Plus, Minus, MinusMinus, Star}
        /\ added' = IF c # <<>> /\ c[1] = Plus THEN added \o Tail(c) ELSE added
        /\ lists' = IF c = <<>> \/ c[1] = Plus THEN lists
                    ELSE IF c[1] = Minus THEN [lists EXCEPT !.black = lists.black \o Tail(c)]
                    ELSE IF c[1] = MinusMinus THEN [lists EXCEPT !.domains = lists.domains \o Tail(c)]
                    ELSE [lists EXCEPT !.white = lists.white \o Tail(c)]
    BY <1>2, <1>3, <1>7 DEF ReadLine
  <2>2. pc' = "lines" /\ Keeps(Rep) BY <1>0, <1>7 DEF ReadLine, handlevars, Keeps
  <2>3. \A prefix : WordsOf(line, prefix) = IF c # <<>> /\ c[1] = prefix THEN Tail(c) ELSE <<>>
    BY <1>3 DEF WordsOf
  <2>4. RuleOf(line) = <<>> BY <1>3, <2>1 DEF RuleOf
  <2>5. added' = added \o WordsOf(line, Plus) BY <1>n, <2>1, <2>3
  <2>6. lists' = [white |-> lists.white \o WordsOf(line, Star),
                  black |-> lists.black \o WordsOf(line, Minus),
                  domains |-> lists.domains \o WordsOf(line, MinusMinus)]
    <3>1. PICK w, b, d : w = lists.white /\ b = lists.black /\ d = lists.domains OBVIOUS
    <3>2. lists = [white |-> w, black |-> b, domains |-> d]
          /\ w \o <<>> = w /\ b \o <<>> = b /\ d \o <<>> = d
      BY <1>n, <3>1
    <3>3. lists' = [white |-> w \o WordsOf(line, Star), black |-> b \o WordsOf(line, Minus),
                    domains |-> d \o WordsOf(line, MinusMinus)]
      <4>1. CASE c = <<>> BY <2>1, <2>3, <3>2, <4>1
      <4>2. CASE c # <<>> /\ c[1] = Plus BY <2>1, <2>3, <3>2, <4>2, PrefixesDiffer
      <4>3. CASE c # <<>> /\ c[1] = Minus
        BY <2>1, <2>3, <3>1, <3>2, <4>3, PrefixesDiffer
      <4>4. CASE c # <<>> /\ c[1] = MinusMinus
        BY <2>1, <2>3, <3>1, <3>2, <4>4, PrefixesDiffer
      <4>5. CASE c # <<>> /\ c[1] = Star
        BY <2>1, <2>3, <3>1, <3>2, <4>5, PrefixesDiffer
      <4> QED BY <2>1, <4>1, <4>2, <4>3, <4>4, <4>5
    <3> QED BY <3>1, <3>3
  <2>7. LoadNext
    <3>1. ReadSo(files', lines', added', lists', rules') BY <1>4, <1>6, <1>n, <2>4, <2>5, <2>6
    <3> QED BY <2>2, <3>1 DEF LoadNext
  <2>8. PatternNext BY <1>0, <1>6, <2>2, PatternsKept DEF PatternNext, FilterInv, Loading
  <2> QED BY <2>2, <2>7, <2>8, NextIsPrimed DEF StartNext, OptionsNext
<1>8. CASE ReadRule
  <2>1. /\ cols' = c /\ c # <<>> /\ c[1] \notin {Plus, Minus, MinusMinus, Star}
        /\ pc' = "load" /\ UNCHANGED <<lists, added>>
    BY <1>2, <1>3, <1>8 DEF ReadRule
  <2>2. Keeps(Rep)
    <3>1. Rep \in Handle BY ObjectsAreHandles
    <3> QED BY <1>8, <3>1, OthersKeep DEF ReadRule
  <2>3. /\ WordsOf(line, Plus) = <<>> /\ WordsOf(line, Star) = <<>>
        /\ WordsOf(line, Minus) = <<>> /\ WordsOf(line, MinusMinus) = <<>>
    BY <1>3, <2>1 DEF WordsOf
  <2>4. RuleOf(line) = <<c>> BY <1>3, <2>1 DEF RuleOf
  <2>5. rules \o <<c>> = Append(rules, c) BY <1>4, <1>5, AppendIsConcat
  <2>6. LoadNext
    <3>1. ReadSo(files', lines', added', lists', Append(rules', cols'))
      BY <1>4, <1>6, <1>n, <2>1, <2>3, <2>4, <2>5
    <3> QED BY <2>1, <3>1 DEF LoadNext
  <2>7. PatternNext BY <1>0, <1>6, <2>2, PatternsKept DEF PatternNext, FilterInv, Loading
  <2> QED BY <2>1, <2>6, <2>7, NextIsPrimed DEF StartNext, OptionsNext
<1> QED BY <1>7, <1>8

(***************************************************************************)
(* A rule is loaded, copied and destroyed.                                 *)
(***************************************************************************)
LEMMA RuleStep ==
  ASSUME TypeInv, FilterInv, LoadRule \/ PushRule \/ EndRule
  PROVE  FilterInv'
<1>1. Rep \in Handle BY ObjectsAreHandles
<1>2. CASE LoadRule
  <2>1. pc = "load" /\ UNCHANGED <<files, lines, added, lists, rules, cols>>
    BY <1>2 DEF LoadRule, loadvars, mainvars
  <2>2. ReadSo(files, lines, added, lists, Append(rules, cols))
    BY <2>1 DEF FilterInv, LoadInv, Loading
  <2>3. CASE Compile(Rep, {Url(cols[1])}) /\ pc' = "push"
    <3>1. PICK a : a = {Url(cols[1])} OBVIOUS
    <3>2. Compile(Rep, a) BY <2>3, <3>1
    <3>3. Keeps(Rep) /\ HasNext(Rep, a) BY <1>1, <3>2, CompileGives
    <3>4. LoadNext BY <2>1, <2>2, <2>3, <3>1, <3>3 DEF LoadNext
    <3>5. PatternNext BY <2>1, <3>3, PatternsKept DEF PatternNext, FilterInv, Loading
    <3> QED BY <2>3, <3>4, <3>5, NextIsPrimed DEF StartNext, OptionsNext
  <2>4. CASE pc' = "bad rule"
    BY <2>4, NextIsPrimed DEF StartNext, LoadNext, PatternNext, OptionsNext
  <2> QED BY <1>2, <2>3, <2>4 DEF LoadRule
<1>3. CASE PushRule
  <2>1. /\ pc = "push" /\ pc' = "next" /\ Len(rules) < MaxRules
        /\ Copy(Slot(Len(rules) + 1), Rep) /\ rules' = Append(rules, cols)
        /\ UNCHANGED <<files, lines, added, lists, regex>>
    BY <1>3 DEF PushRule, mainvars
  <2>2. ReadSo(files, lines, added, lists, Append(rules, cols)) /\ Has(Rep, {Url(cols[1])})
    BY <2>1 DEF FilterInv, LoadInv, Loading
  <2>3. LoadNext BY <2>1, <2>2 DEF LoadNext
  <2>4. PICK k : k = Len(rules) + 1 OBVIOUS
  <2>5. rules \in Seq(Seq(Seq(Char))) /\ cols \in Seq(Seq(Char)) /\ Len(rules) \in Nat
    BY LenProperties DEF TypeInv, TypeOK
  <2>6. k \in 1..MaxRules BY <2>1, <2>4, <2>5
  <2>7. Slot(k) \in Handle BY <2>6, ObjectsAreHandles
  <2>8. Keeps(Slot(k)) /\ HasNext(Slot(k), {Url(cols[1])})
    <3>1. Copy(Slot(k), Rep) BY <2>1, <2>4
    <3> QED BY <1>1, <2>1, <2>2, <2>7, <3>1, CopyGives
  <2>9. \A n \in 1..Len(Meta) : m_re'[Meta[n]] # Null
    <3>1. \A n \in 1..Len(Meta) : Meta[n] \in Handle /\ Meta[n] # Slot(k)
      BY <2>6, MembersAreObjects, ObjectsAreHandles, ObjectsDiffer
    <3>2. \A n \in 1..Len(Meta) : m_re[Meta[n]] # Null
      BY <2>1 DEF FilterInv, PatternInv, Loading
    <3> QED BY <2>8, <3>1, <3>2, KeepsHas
  <2>10. ASSUME NEW n \in 1..Len(rules') PROVE HasNext(Slot(n), {Url(rules'[n][1])})
    <3>1. /\ Len(rules') = Len(rules) + 1 /\ rules'[Len(rules) + 1] = cols
          /\ \A i \in 1..Len(rules) : rules'[i] = rules[i]
      BY <2>1, <2>5, AppendProperties
    <3>2. CASE n = k
      <4>1. rules'[n] = cols BY <2>4, <3>1, <3>2
      <4> QED BY <2>8, <3>2, <4>1
    <3>3. CASE n # k
      <4>1. n \in 1..Len(rules) /\ n \in 1..MaxRules BY <2>4, <2>5, <2>6, <3>1, <3>3
      <4>2. Slot(n) \in Handle /\ Slot(n) # Slot(k)
        BY <2>6, <3>3, <4>1, ObjectsAreHandles, ObjectsDiffer
      <4>3. Has(Slot(n), {Url(rules[n][1])})
        BY <2>1, <4>1 DEF FilterInv, PatternInv, Loading
      <4>4. HasNext(Slot(n), {Url(rules[n][1])}) BY <2>8, <4>2, <4>3, KeepsHas
      <4>5. rules'[n] = rules[n] BY <3>1, <4>1
      <4> QED BY <4>4, <4>5
    <3> QED BY <3>2, <3>3
  <2>11. PatternNext BY <2>9, <2>10 DEF PatternNext
  <2> QED BY <2>1, <2>3, <2>11, NextIsPrimed DEF StartNext, OptionsNext
<1>4. CASE EndRule
  <2>1. CASE pc = "next"
    <3>1. pc' = "lines" /\ UNCHANGED <<files, lines, added, lists, rules, regex>> /\ Destroy(Rep)
      BY <1>4, <2>1 DEF EndRule
    <3>2. LoadNext BY <2>1, <3>1 DEF LoadNext, FilterInv, LoadInv, Loading
    <3>3. Keeps(Rep) BY <1>1, <3>1, OthersKeep
    <3>4. PatternNext BY <2>1, <3>1, <3>3, PatternsKept DEF PatternNext, FilterInv, Loading
    <3> QED BY <3>1, <3>2, <3>4, NextIsPrimed DEF StartNext, OptionsNext
  <2>2. CASE pc # "next"
    BY <1>4, <2>2, NextIsPrimed DEF EndRule, Refuse, StartNext, LoadNext, PatternNext, OptionsNext
  <2> QED BY <2>1, <2>2
<1> QED BY <1>2, <1>3, <1>4

(***************************************************************************)
(* The file has been read: the lists become patterns.                      *)
(***************************************************************************)
LEMMA ListStep ==
  ASSUME TypeInv, FilterInv, LoadWhitelist \/ LoadBlacklist
  PROVE  FilterInv'
<1>1. Whitelist \in Handle /\ Blacklist \in Handle /\ Whitelist # Blacklist
  BY MembersAreObjects, ObjectsAreHandles, ObjectsDiffer
<1>2. /\ pc \in {"lines", "blacklist"} /\ lines = <<>>
      /\ UNCHANGED <<files, lines, added, lists, rules, cols>>
  BY DEF LoadWhitelist, LoadBlacklist, loadvars, FilterInv, LoadInv, Loading
<1>3. ReadSo(files, <<>>, added, lists, rules) BY <1>2 DEF FilterInv, LoadInv, Loading
<1>4. /\ added = AllWords(files, Plus) /\ rules = AllRules(files)
      /\ lists = [white |-> Words(Last(files).text, Star),
                  black |-> Words(Last(files).text, Minus),
                  domains |-> Words(Last(files).text, MinusMinus)]
  <2>1. files \in Seq(File) BY DEF TypeInv, TypeOK
  <2> QED BY <1>3, <2>1, ReadEnds
<1>5. CASE pc' = "return"
  BY <1>5, NextIsPrimed DEF StartNext, LoadNext, PatternNext, OptionsNext
<1>6. CASE LoadWhitelist /\ pc' # "return"
  <2>1. pc = "lines" /\ pc' = "blacklist" BY <1>6 DEF LoadWhitelist, Refuse
  <2>2. PICK a : a = {Url(<<>>)} \cup Urls(lists.white) OBVIOUS
  <2>3. Compile(Whitelist, a) BY <1>6, <2>2 DEF LoadWhitelist, Refuse
  <2>4. Keeps(Whitelist) /\ HasNext(Whitelist, a) BY <1>1, <2>3, CompileGives
  <2>5. a = WhiteOf(Last(files).text) BY <1>4, <2>2 DEF WhiteOf
  <2>6. LoadNext BY <1>2, <1>3, <2>1, <2>4, <2>5 DEF LoadNext
  <2>7. PatternNext BY <1>2, <2>1, <2>4, PatternsKept DEF PatternNext, FilterInv, Loading
  <2> QED BY <2>1, <2>6, <2>7, NextIsPrimed DEF StartNext, OptionsNext
<1>7. CASE LoadBlacklist /\ pc' # "return"
  <2>1. pc = "blacklist" /\ pc' = "options" BY <1>7 DEF LoadBlacklist, Refuse
  <2>2. PICK a : a = {Url(<<>>)} \cup Urls(lists.black) \cup {Domain(s) : s \in Range(lists.domains)}
    OBVIOUS
  <2>3. Compile(Blacklist, a) BY <1>7, <2>2 DEF LoadBlacklist, Refuse
  <2>4. Keeps(Blacklist) /\ HasNext(Blacklist, a) BY <1>1, <2>3, CompileGives
  <2>5. a = BlackOf(Last(files).text) BY <1>4, <2>2 DEF BlackOf
  <2>6. Has(Whitelist, WhiteOf(Last(files).text)) BY <2>1 DEF FilterInv, LoadInv, Loading
  <2>7. HasNext(Whitelist, WhiteOf(Last(files).text)) BY <1>1, <2>4, <2>6, KeepsHas
  <2>8. OptionsNext BY <1>2, <1>4, <2>4, <2>5, <2>7 DEF OptionsNext
  <2>9. PatternNext BY <1>2, <2>1, <2>4, PatternsKept DEF PatternNext, FilterInv, Loading
  <2> QED BY <2>1, <2>8, <2>9, NextIsPrimed DEF StartNext, LoadNext
<1> QED BY <1>5, <1>6, <1>7

(***************************************************************************)
(* Every step keeps the filter as the files describe it.                   *)
(***************************************************************************)
LEMMA FilterStep == TypeInv /\ FilterInv /\ [Next]_vars => FilterInv'
<1> SUFFICES ASSUME TypeInv, FilterInv, [Next]_vars PROVE FilterInv'
  OBVIOUS
<1>1. CASE Run \/ Syntax \/ DestroyMember \/ Return
  <2>1. pc' \in {"return", "exited"} BY <1>1 DEF Run, Syntax, DestroyMember, Return
  <2> QED BY <2>1, NextIsPrimed DEF StartNext, LoadNext, PatternNext, OptionsNext
<1>2. CASE UNCHANGED vars
  <2>1. UNCHANGED <<pc, files, lines, added, lists, rules, cols, m_re, regex>>
    BY <1>2 DEF vars, handlevars, loadvars, mainvars
  <2>2. \A h : \A a : Has(h, a) => HasNext(h, a) BY <2>1 DEF Has, HasNext
  <2>3. StartNext BY <2>1 DEF StartNext, FilterInv, StartInv
  <2>4. LoadNext BY <2>1, <2>2 DEF LoadNext, FilterInv, LoadInv, Loading
  <2>5. PatternNext BY <2>1, <2>2 DEF PatternNext, FilterInv, PatternInv, Loading
  <2>6. OptionsNext BY <2>1, <2>2 DEF OptionsNext, FilterInv, OptionsInv
  <2> QED BY <2>3, <2>4, <2>5, <2>6, NextIsPrimed
<1> QED BY <1>1, <1>2, StartStep, OptionStep, LineStep, RuleStep, ListStep DEF Next

(***************************************************************************)
(* Whatever the files and options are: a program that goes to work has     *)
(* exactly the filter its files describe.                                  *)
(***************************************************************************)
THEOREM FilterIsWhatFilesSay == Spec => []FilterMeansFiles
<1>1. TypeInv /\ FilterInv => FilterMeansFiles
  <2> SUFFICES ASSUME TypeInv, FilterInv, pc = "options", files # <<>>
               PROVE  FilterMeansFiles
    BY DEF FilterMeansFiles
  <2>1. files[Len(files)] = Last(files) BY DEF Last
  <2> QED BY <2>1 DEF FilterInv, PatternInv, OptionsInv, FilterMeansFiles
<1> QED BY <1>1, TypeInit, TypeStep, FilterInit, FilterStep, PTL DEF Spec
=============================================================================
