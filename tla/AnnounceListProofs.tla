------------------------- MODULE AnnounceListProofs -------------------------
(***************************************************************************)
(* Proofs about AnnounceList, for any filter and any inputs.               *)
(***************************************************************************)
EXTENDS AnnounceList, SequenceTheorems, TLAPS

\* m_index and the groups point at each other.
IndexInv ==
  /\ \A d \in Domain : index[d] # 0 =>
       \A m \in 1..Len(list[index[d]]) : DomainOf[list[index[d]][m]] = d
  /\ \A g \in 1..Len(list) :
       /\ list[g] # <<>>
       /\ \A m \in 1..Len(list[g]) : index[DomainOf[list[g][m]]] = g
       /\ \A m, n \in 1..Len(list[g]) : list[g][m] = list[g][n] => m = n

InputInv == pc = "add" => i > 1 /\ annurls = FilterUrl[Input[i - 1]]

\* The head of the list comes from the first input that passes.
PrimaryInv ==
  /\ list = <<>> =>
       /\ \A j \in 1..Complete : FilterUrl[Input[j]] = <<>>
       /\ pc = "add" => k = 1
  /\ list # <<>> => \E j \in 1..Len(Input) :
       FirstPassing(j) /\ list[1][1] = FilterUrl[Input[j]][1]

Inv == TypeOK /\ IndexInv /\ InputInv /\ PrimaryInv /\ MergedExactly /\ FirstBecomesPrimary

-----------------------------------------------------------------------------
(***************************************************************************)
(* The urls to merge: those of the filter file, then those of the          *)
(* torrents.                                                               *)
(***************************************************************************)
LEMMA InputType ==
  ASSUME TypeOK
  PROVE  /\ Input \in Seq(Raw) /\ Len(Input) = Len(extra) + Len(files)
         /\ Len(Input) \in Nat
         /\ \A j \in 1..Len(extra) : Input[j] = extra[j]
         /\ \A j \in 1..Len(Input) : j > Len(extra) => Input[j] = files[j - Len(extra)]
         /\ \A j \in 1..Len(Input) : Input[j] \in Raw /\ FilterUrl[Input[j]] \in Seq(Url)
<1>1. Input \in Seq(Raw) /\ Len(Input) = Len(extra) + Len(files)
  BY DEF TypeOK, Input
<1>2. \A j \in 1..Len(Input) : Input[j] = IF j <= Len(extra) THEN extra[j] ELSE files[j - Len(extra)]
  BY DEF TypeOK, Input
<1>3. \A j \in 1..Len(Input) : Input[j] \in Raw
  BY <1>1, ElementOfSeq
<1>4. \A j \in 1..Len(Input) : FilterUrl[Input[j]] \in Seq(Url)
  BY <1>3, ConstantsAssumption
<1>5. Len(extra) \in Nat /\ Len(files) \in Nat
  BY DEF TypeOK
<1> QED
  BY <1>1, <1>2, <1>3, <1>4, <1>5

(***************************************************************************)
(* Nothing has been merged at the start.                                   *)
(***************************************************************************)
LEMMA InvInit == Init => Inv
BY ConstantsAssumption
   DEF Init, Inv, TypeOK, IndexInv, InputInv, PrimaryInv, Complete, MergedExactly,
       Listed, MergedSoFar, FirstBecomesPrimary, Input

(***************************************************************************)
(* The next url goes through the filter: its results are still to be       *)
(* added, so nothing is merged completely that was not before.             *)
(***************************************************************************)
LEMMA MergeStep ==
  ASSUME Inv, ForceMergeNext \/ MergeNext PROVE Inv'
<1>1. /\ pc = "merge" /\ pc' = "add" /\ i <= Len(Input) /\ i' = i + 1 /\ k' = 1
      /\ annurls' = FilterUrl[Input[i]]
      /\ UNCHANGED <<extra, files, list, index, announce, announceList>>
  <2>1. i \in Nat /\ i > 0 /\ Len(extra) \in Nat /\ Len(files) \in Nat
    BY DEF Inv, TypeOK
  <2>2. CASE ForceMergeNext
    BY <2>1, <2>2, InputType DEF Inv, ForceMergeNext, Merge
  <2>3. CASE MergeNext
    BY <2>1, <2>3, InputType DEF Inv, MergeNext, Merge
  <2> QED
    BY <2>2, <2>3
<1>2. Input' = Input
  BY <1>1 DEF Input
<1>3. TypeOK'
  BY <1>1, <1>2, InputType, SMTT(30) DEF Inv, TypeOK
<1>4. IndexInv'
  BY <1>1 DEF Inv, IndexInv
<1>5. InputInv'
  BY <1>1, <1>2, InputType DEF Inv, TypeOK, InputInv
<1>6. PrimaryInv'
  BY <1>1, <1>2, InputType DEF Inv, TypeOK, PrimaryInv, Complete, FirstPassing
<1>7. MergedExactly'
  <2>1. i \in Nat /\ Complete' = Complete
    BY <1>1 DEF Inv, TypeOK, Complete
  <2>2. MergedSoFar' = MergedSoFar
    BY <1>1, <1>2, <2>1 DEF MergedSoFar
  <2> QED
    BY <1>1, <2>2 DEF Inv, MergedExactly, Listed
<1>8. FirstBecomesPrimary'
  BY <1>1 DEF FirstBecomesPrimary
<1> QED
  BY <1>3, <1>4, <1>5, <1>6, <1>7, <1>8 DEF Inv

(***************************************************************************)
(* All results of a url have been added: one url more is merged            *)
(* completely.                                                             *)
(***************************************************************************)
LEMMA EndAddStep ==
  ASSUME Inv, EndAdd PROVE Inv'
<1>1. /\ pc = "add" /\ pc' = "merge" /\ k > Len(annurls)
      /\ UNCHANGED <<extra, files, i, annurls, k, list, index, announce, announceList>>
  BY DEF EndAdd
<1>2. Input' = Input
  BY <1>1 DEF Input
<1>3. TypeOK'
  BY <1>1, <1>2 DEF Inv, TypeOK
<1>4. IndexInv'
  BY <1>1 DEF Inv, IndexInv
<1>5. InputInv'
  BY <1>1 DEF InputInv
<1>6. PrimaryInv'
  BY <1>1, <1>2, InputType DEF Inv, TypeOK, InputInv, PrimaryInv, Complete, FirstPassing
<1>7. MergedExactly'
  <2>1. i \in Nat /\ i > 1 /\ annurls = FilterUrl[Input[i - 1]]
    BY <1>1 DEF Inv, TypeOK, InputInv
  <2>2. Complete = i - 2 /\ Complete' = i - 1
    BY <1>1 DEF Complete
  <2>3. k - 1 = Len(annurls)
    BY <1>1 DEF Inv, TypeOK
  <2>4. 1..Complete' = 1..Complete \cup {i - 1}
    BY <2>1, <2>2
  <2>5. MergedSoFar' = {u \in Url : \E m \in 1..Complete' : \E n \in 1..Len(FilterUrl[Input[m]]) :
                                     FilterUrl[Input[m]][n] = u}
    BY <1>1, <1>2 DEF MergedSoFar
  <2>6. MergedSoFar' = MergedSoFar
    BY <1>1, <2>1, <2>3, <2>4, <2>5 DEF MergedSoFar
  <2> QED
    BY <1>1, <2>6 DEF Inv, MergedExactly, Listed
<1>8. FirstBecomesPrimary'
  BY <1>1 DEF FirstBecomesPrimary
<1> QED
  BY <1>3, <1>4, <1>5, <1>6, <1>7, <1>8 DEF Inv

(***************************************************************************)
(* The first url of the list becomes the primary one when all are merged.  *)
(***************************************************************************)
LEMMA FinishStep ==
  ASSUME Inv, Finish PROVE Inv'
<1>1. /\ pc = "merge" /\ pc' = "done" /\ i > Len(Input)
      /\ announce' = IF list = <<>> THEN Dht ELSE list[1][1]
      /\ announceList' = list
      /\ UNCHANGED <<extra, files, i, annurls, k, list, index>>
  BY DEF Finish
<1>2. Input' = Input
  BY <1>1 DEF Input
<1>3. TypeOK'
  BY <1>1, <1>2, ConstantsAssumption, SMTT(30) DEF Inv, TypeOK, IndexInv
<1>4. IndexInv'
  BY <1>1 DEF Inv, IndexInv
<1>5. InputInv'
  BY <1>1 DEF InputInv
<1>6. PrimaryInv'
  BY <1>1, <1>2, InputType DEF Inv, TypeOK, InputInv, PrimaryInv, Complete, FirstPassing
<1>7. MergedExactly'
  <2>1. MergedSoFar' = MergedSoFar
    BY <1>1, <1>2 DEF MergedSoFar, Complete
  <2> QED
    BY <1>1, <2>1 DEF Inv, MergedExactly, Listed
<1>8. FirstBecomesPrimary'
  <2>1. CASE list = <<>>
    <3>1. 1..Complete = 1..Len(Input)
      BY <1>1, InputType DEF Inv, TypeOK, Complete
    <3> QED
      BY <1>1, <1>2, <2>1, <3>1 DEF Inv, PrimaryInv, FirstBecomesPrimary
  <2>2. CASE list # <<>>
    BY <1>1, <1>2, <2>2 DEF Inv, PrimaryInv, FirstBecomesPrimary, FirstPassing
  <2> QED
    BY <2>1, <2>2
<1> QED
  BY <1>3, <1>4, <1>5, <1>6, <1>7, <1>8 DEF Inv

(***************************************************************************)
(* What a turn of the loop of merge has before it and leaves alone.        *)
(***************************************************************************)
LEMMA AddType ==
  ASSUME Inv, AddNext
  PROVE  /\ pc = "add" /\ pc' = "add" /\ k' = k + 1 /\ k \in 1..Len(annurls)
         /\ annurls[k] \in Url /\ DomainOf[annurls[k]] \in Domain
         /\ UNCHANGED <<extra, files, i, annurls, announce, announceList>>
         /\ Input' = Input
         /\ \A g \in 1..Len(list) : list[g] \in Seq(Url)
<1>1. \A g \in 1..Len(list) : list[g] \in Seq(Url)
  BY ElementOfSeq DEF Inv, TypeOK
<1> QED
  BY <1>1, ConstantsAssumption DEF Inv, TypeOK, AddNext, Input

(***************************************************************************)
(* With the list and the index all variables keep their types.             *)
(***************************************************************************)
LEMMA RestType ==
  ASSUME Inv, AddNext, list' \in Seq(Seq(Url)), index' \in [Domain -> 0..Len(list')]
  PROVE  TypeOK'
<1>1. k + 1 \in 1..(Len(annurls) + 1)
  BY AddType DEF Inv, TypeOK
<1>2. i \in 1..(Len(Input) + 1) /\ extra \in Seq(Raw) /\ files \in Seq(Raw)
      /\ annurls \in Seq(Url) /\ announce \in Url \cup {Dht, NoUrl}
      /\ announceList \in Seq(Seq(Url))
  BY DEF Inv, TypeOK
<1> QED
  BY <1>1, <1>2, AddType DEF TypeOK

(***************************************************************************)
(* A url of a domain that has no group yet gets one of its own, at the     *)
(* end.                                                                    *)
(***************************************************************************)
LEMMA AddGroupStep ==
  ASSUME Inv, AddNext, AddGroup(annurls[k])
  PROVE  /\ TypeOK' /\ IndexInv' /\ list' # <<>>
         /\ Listed' = Listed \cup {annurls[k]}
         /\ list'[1][1] = IF list = <<>> THEN annurls[k] ELSE list[1][1]
<1> DEFINE u == annurls[k]
           d == DomainOf[u]
           L == Len(list)
<1>1. /\ L \in Nat /\ u \in Url /\ d \in Domain /\ list \in Seq(Seq(Url))
      /\ index \in [Domain -> 0..L]
  BY AddType DEF Inv, TypeOK
<1>2. /\ index[d] = 0
      /\ index' = [index EXCEPT ![d] = L + 1]
      /\ list' = Append(list, <<u>>)
  <2>1. index[d] \in 0..L /\ index[d] \notin 1..L
    BY <1>1 DEF AddGroup
  <2>2. index[d] = 0
    BY <1>1, <2>1
  <2> QED
    BY <2>2 DEF AddGroup
<1>3. /\ Len(list') = L + 1 /\ list' \in Seq(Seq(Url))
      /\ \A g \in 1..L : list'[g] = list[g]
      /\ list'[L + 1] = <<u>> /\ Len(<<u>>) = 1 /\ <<u>>[1] = u
  BY <1>1, <1>2
<1>4. TypeOK'
  BY <1>1, <1>2, <1>3, AddType, SMTT(30) DEF Inv, TypeOK
<1>5. IndexInv'
  <2>1. \A e \in Domain : index'[e] # 0 =>
          \A m \in 1..Len(list'[index'[e]]) : DomainOf[list'[index'[e]][m]] = e
    <3> SUFFICES ASSUME NEW e \in Domain, index'[e] # 0
                 PROVE  \A m \in 1..Len(list'[index'[e]]) : DomainOf[list'[index'[e]][m]] = e
      OBVIOUS
    <3>1. CASE e = d
      BY <1>1, <1>2, <1>3, <3>1
    <3>2. CASE e # d
      <4>1. index'[e] = index[e] /\ index[e] \in 1..L
        BY <1>1, <1>2, <3>2
      <4>2. list'[index'[e]] = list[index[e]]
        BY <1>3, <4>1
      <4>3. \A m \in 1..Len(list[index[e]]) : DomainOf[list[index[e]][m]] = e
        BY <1>1, <3>2, <4>1 DEF Inv, IndexInv
      <4> QED
        BY <4>2, <4>3
    <3> QED
      BY <3>1, <3>2
  <2>2. ASSUME NEW g \in 1..Len(list')
        PROVE  /\ list'[g] # <<>>
               /\ \A m \in 1..Len(list'[g]) : index'[DomainOf[list'[g][m]]] = g
               /\ \A m, n \in 1..Len(list'[g]) : list'[g][m] = list'[g][n] => m = n
    <3>1. CASE g = L + 1
      BY <1>1, <1>2, <1>3, <3>1
    <3>2. CASE g # L + 1
      <4>1. g \in 1..L /\ list'[g] = list[g]
        BY <1>1, <1>3, <3>2
      <4>2. ASSUME NEW m \in 1..Len(list[g]) PROVE index'[DomainOf[list[g][m]]] = g
        <5>1. index[DomainOf[list[g][m]]] = g
          BY <4>1 DEF Inv, IndexInv
        <5>2. DomainOf[list[g][m]] \in Domain
          BY <4>1, AddType, ElementOfSeq, ConstantsAssumption
        <5> QED
          BY <1>1, <1>2, <4>1, <5>1, <5>2
      <4> QED
        BY <4>1, <4>2 DEF Inv, IndexInv
    <3> QED
      BY <3>1, <3>2
  <2> QED
    BY <2>1, <2>2 DEF IndexInv
<1>6. Listed' = Listed \cup {u}
  <2>1. \A v \in Url : v \in Listed => v \in Listed'
    BY <1>1, <1>3 DEF Listed
  <2>2. u \in Listed'
    <3>1. L + 1 \in 1..Len(list') /\ 1 \in 1..Len(list'[L + 1]) /\ list'[L + 1][1] = u
      BY <1>1, <1>3
    <3> QED
      BY <1>1, <3>1 DEF Listed
  <2>3. \A v \in Url : v \in Listed' => v \in Listed \/ v = u
    <3> SUFFICES ASSUME NEW g \in 1..Len(list'), NEW m \in 1..Len(list'[g])
                 PROVE  list'[g][m] \in Url => list'[g][m] \in Listed \/ list'[g][m] = u
      BY DEF Listed
    <3>1. CASE g = L + 1
      BY <1>3, <3>1
    <3>2. CASE g # L + 1
      <4>1. g \in 1..L /\ list'[g] = list[g]
        BY <1>1, <1>3, <3>2
      <4> QED
        BY <4>1 DEF Listed
    <3> QED
      BY <3>1, <3>2
  <2> QED
    BY <1>1, <2>1, <2>2, <2>3 DEF Listed
<1>7. list' # <<>> /\ list'[1][1] = IF list = <<>> THEN u ELSE list[1][1]
  <2>1. CASE list = <<>>
    BY <1>3, <2>1
  <2>2. CASE list # <<>>
    <3>1. 1 \in 1..L
      BY <1>1, <2>2
    <3> QED
      BY <1>3, <2>2, <3>1
  <2> QED
    BY <1>1, <1>3, <2>1, <2>2
<1> QED
  BY <1>4, <1>5, <1>6, <1>7

(***************************************************************************)
(* What appending u to group g changes.                                    *)
(***************************************************************************)
LEMMA AppendAt ==
  ASSUME NEW S, NEW l \in Seq(Seq(S)), NEW g \in 1..Len(l), NEW u \in S,
         NEW ll, ll = [l EXCEPT ![g] = Append(l[g], u)]
  PROVE  /\ ll \in Seq(Seq(S)) /\ Len(ll) = Len(l)
         /\ \A h \in 1..Len(l) : h # g => ll[h] = l[h]
         /\ Len(l[g]) \in Nat /\ Len(ll[g]) = Len(l[g]) + 1
         /\ \A m \in 1..Len(l[g]) : ll[g][m] = l[g][m]
         /\ ll[g][Len(l[g]) + 1] = u
         /\ \A m \in 1..Len(ll[g]) : m \in 1..Len(l[g]) \/ m = Len(l[g]) + 1
<1>1. l[g] \in Seq(S)
  BY ElementOfSeq
<1>2. ll[g] = Append(l[g], u)
  OBVIOUS
<1>3. ll \in Seq(Seq(S)) /\ Len(ll) = Len(l) /\ \A h \in 1..Len(l) : h # g => ll[h] = l[h]
  BY <1>1
<1>4. /\ Len(l[g]) \in Nat /\ Len(ll[g]) = Len(l[g]) + 1
      /\ \A m \in 1..Len(l[g]) : ll[g][m] = l[g][m]
      /\ ll[g][Len(l[g]) + 1] = u
  BY <1>1, <1>2
<1> QED
  BY <1>3, <1>4, SMTT(30)

(***************************************************************************)
(* A url of a domain that has a group is appended to it unless it is       *)
(* there.                                                                  *)
(***************************************************************************)
LEMMA AddToGroupStep ==
  ASSUME Inv, AddNext, AddToGroup(annurls[k])
  PROVE  /\ TypeOK' /\ IndexInv' /\ list' # <<>> /\ list # <<>>
         /\ Listed' = Listed \cup {annurls[k]}
         /\ list'[1][1] = list[1][1]
<1>1. PICK u, d, g, L : u = annurls[k] /\ d = DomainOf[u] /\ g = index[d] /\ L = Len(list)
  OBVIOUS
<1>2. /\ L \in Nat /\ u \in Url /\ d \in Domain /\ list \in Seq(Seq(Url))
      /\ index \in [Domain -> 0..L]
  BY <1>1, AddType DEF Inv, TypeOK
<1>3. /\ g \in 1..L /\ index' = index
      /\ list' = IF \E m \in 1..Len(list[g]) : list[g][m] = u
                 THEN list ELSE [list EXCEPT ![g] = Append(list[g], u)]
  BY <1>1 DEF AddToGroup
<1>4. \A h \in 1..L :
        /\ list[h] # <<>> /\ list[h] \in Seq(Url) /\ 1 \in 1..Len(list[h])
        /\ \A m \in 1..Len(list[h]) : index[DomainOf[list[h][m]]] = h
        /\ \A m, n \in 1..Len(list[h]) : list[h][m] = list[h][n] => m = n
  BY <1>1, AddType DEF Inv, IndexInv
<1>5. \A e \in Domain : index[e] # 0 =>
        \A m \in 1..Len(list[index[e]]) : DomainOf[list[index[e]][m]] = e
  BY DEF Inv, IndexInv
<1>6. list # <<>> /\ 1 \in 1..L
  BY <1>1, <1>2, <1>3
<1>7. CASE \E m \in 1..Len(list[g]) : list[g][m] = u
  <2>1. list' = list
    BY <1>3, <1>7
  <2>2. Listed' = Listed /\ u \in Listed
    BY <1>1, <1>2, <1>3, <1>7, <2>1 DEF Listed
  <2>3. TypeOK'
    BY <1>1, <1>2, <1>3, <2>1, RestType
  <2>4. IndexInv'
    BY <1>3, <2>1 DEF Inv, IndexInv
  <2> QED
    BY <1>1, <1>6, <2>1, <2>2, <2>3, <2>4
<1>8. CASE ~ \E m \in 1..Len(list[g]) : list[g][m] = u
  <2>1. list' = [list EXCEPT ![g] = Append(list[g], u)]
    BY <1>3, <1>8
  <2>2. /\ list' \in Seq(Seq(Url)) /\ Len(list') = L
        /\ \A h \in 1..L : h # g => list'[h] = list[h]
        /\ Len(list[g]) \in Nat /\ Len(list'[g]) = Len(list[g]) + 1
        /\ \A m \in 1..Len(list[g]) : list'[g][m] = list[g][m]
        /\ list'[g][Len(list[g]) + 1] = u
        /\ \A m \in 1..Len(list'[g]) : m \in 1..Len(list[g]) \/ m = Len(list[g]) + 1
    <3>1. u \in Url /\ list \in Seq(Seq(Url)) /\ g \in 1..Len(list) /\ L = Len(list)
      BY <1>1, <1>2, <1>3
    <3> QED
      BY ONLY <2>1, <3>1, AppendAt
  <2>3. TypeOK'
    BY <1>1, <1>2, <1>3, <2>2, RestType
  <2>4. ASSUME NEW h \in 1..L, NEW m \in 1..Len(list'[h])
        PROVE  index[DomainOf[list'[h][m]]] = h
    <3>1. CASE h # g
      <4>1. list'[h] = list[h]
        BY <2>2, <3>1
      <4>2. m \in 1..Len(list[h])
        BY <4>1
      <4> QED
        BY <1>4, <4>1, <4>2
    <3>2. CASE h = g /\ m \in 1..Len(list[g])
      <4>1. list'[h][m] = list[g][m]
        BY <2>2, <3>2
      <4> QED
        BY <1>4, <3>2, <4>1
    <3>3. CASE h = g /\ m = Len(list[g]) + 1
      BY <1>1, <2>2, <3>3
    <3> QED
      BY <2>2, <3>1, <3>2, <3>3
  <2>5. \A e \in Domain : index[e] # 0 =>
          \A m \in 1..Len(list'[index[e]]) : DomainOf[list'[index[e]][m]] = e
    <3>1. ASSUME NEW e \in Domain, index[e] = g PROVE e = d
      <4>1. DomainOf[list[g][1]] = e
        BY <1>3, <1>4, <1>5, <3>1
      <4>2. DomainOf[list[g][1]] = d
        <5>1. index[d] # 0 /\ 1 \in 1..Len(list[index[d]])
          BY <1>1, <1>2, <1>3, <1>4
        <5>2. \A m \in 1..Len(list[index[d]]) : DomainOf[list[index[d]][m]] = d
          BY <1>2, <1>5, <5>1
        <5> QED
          BY <1>1, <5>1, <5>2
      <4> QED
        BY <4>1, <4>2
    <3>2. ASSUME NEW e \in Domain, index[e] # 0, index[e] # g
          PROVE  list'[index[e]] = list[index[e]]
      BY <1>2, <2>2, <3>2
    <3>3. ASSUME NEW e \in Domain, index[e] # 0, NEW m \in 1..Len(list'[index[e]])
          PROVE  DomainOf[list'[index[e]][m]] = e
      <4>1. CASE index[e] # g
        BY <1>5, <3>2, <3>3, <4>1
      <4>2. CASE index[e] = g /\ m \in 1..Len(list[g])
        <5>1. list'[index[e]][m] = list[index[e]][m]
          BY <2>2, <4>2
        <5> QED
          BY <1>5, <3>3, <4>2, <5>1
      <4>3. CASE index[e] = g /\ m = Len(list[g]) + 1
        BY <1>1, <2>2, <3>1, <4>3
      <4> QED
        BY <2>2, <3>3, <4>1, <4>2, <4>3
    <3> QED
      BY <3>3
  <2>6. \A h \in 1..L : \A m, n \in 1..Len(list'[h]) : list'[h][m] = list'[h][n] => m = n
    <3> SUFFICES ASSUME NEW h \in 1..L, NEW m \in 1..Len(list'[h]), NEW n \in 1..Len(list'[h]),
                        list'[h][m] = list'[h][n]
                 PROVE  m = n
      OBVIOUS
    <3>1. CASE h # g
      BY <1>4, <2>2, <3>1
    <3>2. CASE h = g
      <4>1. CASE m \in 1..Len(list[g]) /\ n \in 1..Len(list[g])
        <5>1. list[g][m] = list[g][n]
          BY <2>2, <3>2, <4>1
        <5> QED
          BY <1>3, <1>4, <4>1, <5>1
      <4>2. CASE ~(m \in 1..Len(list[g]) /\ n \in 1..Len(list[g]))
        BY <1>8, <2>2, <3>2, <4>2
      <4> QED
        BY <4>1, <4>2
    <3> QED
      BY <3>1, <3>2
  <2>7. \A h \in 1..L : list'[h] # <<>>
    <3>1. Len(list'[g]) # 0
      BY <2>2
    <3>2. list'[g] # <<>>
      BY <3>1
    <3> QED
      BY <1>4, <2>2, <3>2
  <2>8. IndexInv'
    <3>1. \A h \in 1..Len(list') :
            /\ list'[h] # <<>>
            /\ \A m \in 1..Len(list'[h]) : index'[DomainOf[list'[h][m]]] = h
            /\ \A m, n \in 1..Len(list'[h]) : list'[h][m] = list'[h][n] => m = n
      <4>1. Len(list') = L /\ index' = index
        BY <1>3, <2>2
      <4> QED
        BY <2>4, <2>6, <2>7, <4>1
    <3>2. \A e \in Domain : index'[e] # 0 =>
            \A m \in 1..Len(list'[index'[e]]) : DomainOf[list'[index'[e]][m]] = e
      BY <1>3, <2>5
    <3> QED
      BY <3>1, <3>2 DEF IndexInv
  <2>9. Listed' = Listed \cup {u}
    <3>1. \A v \in Url : v \in Listed => v \in Listed'
      <4>1. ASSUME NEW h \in 1..L, NEW m \in 1..Len(list[h])
            PROVE  m \in 1..Len(list'[h]) /\ list'[h][m] = list[h][m]
        <5>1. CASE h = g
          BY <2>2, <5>1
        <5>2. CASE h # g
          BY <2>2, <5>2
        <5> QED
          BY <5>1, <5>2
      <4>2. Len(list) = L /\ Len(list') = L
        BY <1>1, <2>2
      <4> QED
        BY <4>1, <4>2 DEF Listed
    <3>2. u \in Listed'
      <4>1. Len(list[g]) + 1 \in 1..Len(list'[g]) /\ g \in 1..Len(list')
        BY <1>3, <2>2
      <4> QED
        BY <1>2, <2>2, <4>1 DEF Listed
    <3>3. \A v \in Url : v \in Listed' => v \in Listed \/ v = u
      <4> SUFFICES ASSUME NEW h \in 1..L, NEW m \in 1..Len(list'[h]), list'[h][m] \in Url
                   PROVE  list'[h][m] \in Listed \/ list'[h][m] = u
        BY <2>2 DEF Listed
      <4>1. CASE h # g
        BY <1>1, <2>2, <4>1 DEF Listed
      <4>2. CASE h = g
        <5>1. m \in 1..Len(list[g]) => list'[h][m] = list[g][m]
          BY <2>2, <4>2
        <5>2. m \in 1..Len(list[g]) \/ list'[h][m] = u
          BY <2>2, <4>2
        <5> QED
          BY <1>1, <1>3, <5>1, <5>2 DEF Listed
      <4> QED
        BY <4>1, <4>2
    <3> QED
      BY <1>2, <3>1, <3>2, <3>3 DEF Listed
  <2>10. list' # <<>> /\ list'[1][1] = list[1][1]
    <3>1. list'[1][1] = list[1][1]
      <4>1. CASE g = 1
        BY <1>4, <1>6, <2>2, <4>1
      <4>2. CASE g # 1
        BY <1>6, <2>2, <4>2
      <4> QED
        BY <4>1, <4>2
    <3>2. list' # <<>>
      <4>1. 1 \in 1..Len(list')
        BY <1>6, <2>2
      <4> QED
        BY ONLY <4>1
    <3> QED
      BY <3>1, <3>2
  <2> QED
    BY <1>1, <1>6, <2>3, <2>8, <2>9, <2>10
<1> QED
  BY <1>7, <1>8

(***************************************************************************)
(* Every turn of the loop of merge keeps the invariant.                    *)
(***************************************************************************)
LEMMA AddStep ==
  ASSUME Inv, AddNext PROVE Inv'
<1>1. AddGroup(annurls[k]) \/ AddToGroup(annurls[k])
  BY DEF AddNext
<1>2. /\ TypeOK' /\ IndexInv' /\ list' # <<>>
      /\ Listed' = Listed \cup {annurls[k]}
      /\ list'[1][1] = IF list = <<>> THEN annurls[k] ELSE list[1][1]
  BY <1>1, AddGroupStep, AddToGroupStep
<1>3. /\ i \in 1..(Len(Input) + 1) /\ i > 1 /\ annurls = FilterUrl[Input[i - 1]]
      /\ k \in 1..Len(annurls) /\ Complete = i - 2 /\ Complete' = i - 2
      /\ Len(Input) \in Nat
  BY AddType, InputType DEF Inv, TypeOK, InputInv, Complete
<1>4. InputInv'
  BY <1>3, AddType DEF InputInv
<1>5. PrimaryInv'
  <2>1. CASE list = <<>>
    <3>1. k = 1 /\ \A j \in 1..(i - 2) : FilterUrl[Input[j]] = <<>>
      BY <1>3, <2>1, AddType DEF Inv, PrimaryInv
    <3>2. FirstPassing(i - 1) /\ i - 1 \in 1..Len(Input)
      BY <1>3, <3>1 DEF FirstPassing
    <3>3. list'[1][1] = FilterUrl[Input[i - 1]][1]
      BY <1>2, <1>3, <2>1, <3>1
    <3> QED
      BY <1>2, <3>2, <3>3, AddType DEF PrimaryInv, FirstPassing
  <2>2. CASE list # <<>>
    BY <1>2, <2>2, AddType DEF Inv, PrimaryInv, FirstPassing
  <2> QED
    BY <2>1, <2>2
<1>6. MergedExactly'
  <2>1. \A n \in 1..((k + 1) - 1) : n \in 1..(k - 1) \/ n = k
    BY <1>3
  <2>2. 1..(k - 1) \subseteq 1..((k + 1) - 1) /\ k \in 1..((k + 1) - 1)
    BY <1>3
  <2>3. MergedSoFar' = MergedSoFar \cup {annurls[k]}
    BY <1>3, <2>1, <2>2, AddType DEF MergedSoFar
  <2> QED
    BY <1>2, <2>3 DEF Inv, MergedExactly
<1>7. FirstBecomesPrimary'
  BY AddType DEF FirstBecomesPrimary
<1> QED
  BY <1>2, <1>4, <1>5, <1>6, <1>7 DEF Inv

(***************************************************************************)
(* The invariant holds in every reachable state.                           *)
(***************************************************************************)
LEMMA InvAlways == Spec => []Inv
<1>1. Inv /\ UNCHANGED vars => Inv'
  <2> SUFFICES ASSUME Inv, UNCHANGED vars PROVE Inv'
    OBVIOUS
  <2>1. Input' = Input
    BY DEF vars, Input
  <2>2. TypeOK'
    BY <2>1 DEF vars, Inv, TypeOK
  <2>3. IndexInv'
    BY DEF vars, Inv, IndexInv
  <2>4. InputInv'
    BY <2>1 DEF vars, Inv, InputInv
  <2>5. PrimaryInv'
    BY <2>1 DEF vars, Inv, PrimaryInv, Complete, FirstPassing
  <2>6. MergedExactly'
    BY <2>1 DEF vars, Inv, MergedExactly, Listed, MergedSoFar, Complete
  <2>7. FirstBecomesPrimary'
    BY <2>1 DEF vars, Inv, FirstBecomesPrimary, FirstPassing
  <2> QED
    BY <2>2, <2>3, <2>4, <2>5, <2>6, <2>7 DEF Inv
<1>2. Inv /\ [Next]_vars => Inv'
  BY <1>1, MergeStep, AddStep, EndAddStep, FinishStep DEF Next
<1> QED
  BY <1>2, InvInit, PTL DEF Spec

(***************************************************************************)
(* Every variable has its type; in particular m_index points into the list.*)
(***************************************************************************)
THEOREM TypeCorrect == Spec => []TypeOK
<1>1. Inv => TypeOK
  BY DEF Inv
<1> QED
  BY <1>1, InvAlways, PTL

(***************************************************************************)
(* The groups partition the urls by domain, without duplicates, whatever   *)
(* the urls, the filter and the order in which they are merged.            *)
(***************************************************************************)
THEOREM GroupsPartition == Spec => []WellGrouped
<1>1. ASSUME Inv PROVE WellGrouped
  <2>1. /\ \A g \in 1..Len(list) : list[g] # <<>>
        /\ \A g \in 1..Len(list) : \A m, n \in 1..Len(list[g]) : list[g][m] = list[g][n] => m = n
    BY <1>1 DEF Inv, IndexInv
  <2>2. ASSUME NEW g \in 1..Len(list), NEW h \in 1..Len(list),
               NEW m \in 1..Len(list[g]), NEW n \in 1..Len(list[h])
        PROVE  DomainOf[list[g][m]] = DomainOf[list[h][n]] <=> g = h
    <3>1. index[DomainOf[list[g][m]]] = g /\ index[DomainOf[list[h][n]]] = h
      BY <1>1 DEF Inv, IndexInv
    <3>2. list[g][m] \in Url /\ list[h][n] \in Url
      BY <1>1, ElementOfSeq DEF Inv, TypeOK
    <3>3. ASSUME g = h PROVE DomainOf[list[g][m]] = DomainOf[list[h][n]]
      <4>1. DomainOf[list[g][m]] \in Domain /\ DomainOf[list[h][n]] \in Domain
        BY <3>2, ConstantsAssumption
      <4>2. g # 0
        BY <1>1 DEF Inv, TypeOK
      <4> QED
        <5> DEFINE d == DomainOf[list[g][m]]
        <5>1. d \in Domain /\ index[d] = g /\ index[d] # 0
          BY <3>1, <4>1, <4>2
        <5>2. \A l \in 1..Len(list[index[d]]) : DomainOf[list[index[d]][l]] = d
          BY <1>1, <5>1 DEF Inv, IndexInv
        <5> HIDE DEF d
        <5> QED
          BY <3>3, <5>1, <5>2 DEF d
    <3> QED
      BY <3>1, <3>3
  <2> QED
    BY <2>1, <2>2 DEF WellGrouped
<1> QED
  BY <1>1, InvAlways, PTL

(***************************************************************************)
(* Nothing is lost and nothing invented by merging.                        *)
(***************************************************************************)
THEOREM MergesExactly == Spec => []MergedExactly
<1>1. Inv => MergedExactly
  BY DEF Inv
<1> QED
  BY <1>1, InvAlways, PTL

(***************************************************************************)
(* The primary tracker is the first url that passes the filter, and the    *)
(* dht url stands in exactly if there is none.                             *)
(***************************************************************************)
THEOREM PrimaryIsFirst == Spec => []FirstBecomesPrimary
<1>1. Inv => FirstBecomesPrimary
  BY DEF Inv
<1> QED
  BY <1>1, InvAlways, PTL

-----------------------------------------------------------------------------
\* The sets of urls MergeResult speaks of, and the ones announced at the end.
UrlsOf(s) == {s[n] : n \in 1..Len(s)}

Result == INSTANCE MergeResult WITH
  Url <- Raw \cup Url \cup {Dht},
  Filter <- [r \in Raw |-> UrlsOf(FilterUrl[r])],
  Extra <- UrlsOf(extra),
  Proc <- {}, Source <- {}, Sources <- <<>>, UrlsIn <- <<>>, Invalid <- {}

Announced == {announce} \cup UNION {UrlsOf(announceList[g]) : g \in 1..Len(announceList)}

\* What the list holds when all urls are merged is what is announced.
Agrees ==
  pc = "done" => /\ i > Len(Input) /\ announceList = list
                 /\ announce = IF list = <<>> THEN Dht ELSE list[1][1]

(***************************************************************************)
(* The loops come to the sets MergeResult, and with it TorrentUpdate,      *)
(* works with: the urls the filter lets pass, or else the dht url.         *)
(***************************************************************************)
THEOREM AnnouncesMerge ==
  Spec => [](pc = "done" =>
               Announced = Result!OrDht(Result!Filtered(UrlsOf(extra)) \cup Result!Filtered(UrlsOf(files))))
<1>1. Init => Agrees BY DEF Init, Agrees
<1>2. Inv /\ Agrees /\ [Next]_vars => Agrees'
  <2> SUFFICES ASSUME Agrees, [Next]_vars PROVE Agrees'
    OBVIOUS
  <2>1. CASE Finish BY <2>1 DEF Finish, Agrees, Input
  <2>2. CASE ~Finish
    BY <2>2 DEF Next, ForceMergeNext, MergeNext, Merge, AddNext, EndAdd, vars, Agrees, Input
  <2> QED BY <2>1, <2>2
<1>3. ASSUME Inv, Agrees, pc = "done"
      PROVE  Announced = Result!OrDht(Result!Filtered(UrlsOf(extra)) \cup Result!Filtered(UrlsOf(files)))
  <2> DEFINE passed == Result!Filtered(UrlsOf(extra)) \cup Result!Filtered(UrlsOf(files))
             InFiles == UNION {UrlsOf(list[g]) : g \in 1..Len(list)}
  <2>1. /\ i > Len(Input) /\ announceList = list
        /\ announce = IF list = <<>> THEN Dht ELSE list[1][1]
    BY <1>3 DEF Agrees
  <2>2. /\ Len(Input) = Len(extra) + Len(files) /\ Len(extra) \in Nat /\ Len(files) \in Nat
        /\ \A j \in 1..Len(extra) : Input[j] = extra[j]
        /\ \A j \in 1..Len(Input) : j > Len(extra) => Input[j] = files[j - Len(extra)]
        /\ \A j \in 1..Len(Input) : Input[j] \in Raw /\ FilterUrl[Input[j]] \in Seq(Url)
    <3>1. TypeOK /\ Len(extra) \in Nat /\ Len(files) \in Nat BY <1>3 DEF Inv, TypeOK
    <3> QED BY <3>1, InputType
  <2>3. passed = UNION {UrlsOf(FilterUrl[Input[j]]) : j \in 1..Len(Input)}
    <3>1. ASSUME NEW j \in 1..Len(extra)
          PROVE  \E n \in 1..Len(Input) : Input[n] = extra[j] /\ extra[j] \in Raw
      BY <2>2
    <3>2. ASSUME NEW j \in 1..Len(files)
          PROVE  \E n \in 1..Len(Input) : Input[n] = files[j] /\ files[j] \in Raw
      <4>1. /\ j + Len(extra) \in 1..Len(Input) /\ j + Len(extra) > Len(extra)
            /\ (j + Len(extra)) - Len(extra) = j
        BY <2>2
      <4> QED BY <2>2, <4>1
    <3>3. ASSUME NEW n \in 1..Len(Input)
          PROVE  \/ \E j \in 1..Len(extra) : Input[n] = extra[j]
                 \/ \E j \in 1..Len(files) : Input[n] = files[j]
      <4>1. CASE n <= Len(extra) BY <2>2, <4>1
      <4>2. CASE n > Len(extra)
        <5>1. n - Len(extra) \in 1..Len(files) BY <2>2, <4>2
        <5> QED BY <2>2, <4>2, <5>1
      <4> QED BY <2>2, <4>1, <4>2
    <3>4. \A us \in SUBSET Raw : Result!Filtered(us) = UNION {UrlsOf(FilterUrl[r]) : r \in us}
      BY DEF Result!Filtered
    <3>5. UrlsOf(extra) \in SUBSET Raw /\ UrlsOf(files) \in SUBSET Raw
      BY <3>1, <3>2 DEF UrlsOf
    <3>6. passed = UNION {UrlsOf(FilterUrl[r]) : r \in UrlsOf(extra) \cup UrlsOf(files)}
      BY <3>4, <3>5
    <3>7. UrlsOf(extra) \cup UrlsOf(files) = {Input[j] : j \in 1..Len(Input)}
      <4>1. \A r : r \in UrlsOf(extra) \cup UrlsOf(files) =>
              \E j \in 1..Len(Input) : r = Input[j]
        BY <3>1, <3>2 DEF UrlsOf
      <4>2. \A j \in 1..Len(Input) : Input[j] \in UrlsOf(extra) \cup UrlsOf(files)
        BY <3>3 DEF UrlsOf
      <4> QED BY <4>1, <4>2
    <3> HIDE DEF passed
    <3> QED BY <3>6, <3>7
  <2>4. Complete = i - 1 /\ 1..Complete = 1..Len(Input)
    BY <1>3, <2>1 DEF Inv, TypeOK, Complete
  <2>5. MergedSoFar = passed
    <3>1. MergedSoFar = {u \in Url : \E j \in 1..Len(Input) : u \in UrlsOf(FilterUrl[Input[j]])}
      BY <1>3, <2>4 DEF MergedSoFar, UrlsOf
    <3>2. \A j \in 1..Len(Input) : UrlsOf(FilterUrl[Input[j]]) \subseteq Url
      BY <2>2 DEF UrlsOf
    <3> QED BY <2>3, <3>1, <3>2
  <2>6. Listed = InFiles
    <3>1. \A g \in 1..Len(list) : list[g] \in Seq(Url) BY <1>3, ElementOfSeq DEF Inv, TypeOK
    <3>2. \A g \in 1..Len(list) : \A m \in 1..Len(list[g]) : list[g][m] \in Url BY <3>1
    <3>3. \A u : u \in InFiles <=> \E g \in 1..Len(list) : \E m \in 1..Len(list[g]) : u = list[g][m]
      BY DEF UrlsOf
    <3> HIDE DEF InFiles
    <3>4. ASSUME NEW u PROVE u \in Listed <=> u \in InFiles
      <4>1. ASSUME u \in Listed PROVE u \in InFiles BY <3>3, <4>1 DEF Listed
      <4>2. ASSUME u \in InFiles PROVE u \in Listed
        <5>1. PICK g \in 1..Len(list) : \E m \in 1..Len(list[g]) : u = list[g][m] BY <3>3, <4>2
        <5>2. PICK m \in 1..Len(list[g]) : u = list[g][m] BY <5>1
        <5>3. u \in Url BY <3>2, <5>2
        <5> QED BY <5>2, <5>3 DEF Listed
      <4> QED BY <4>1, <4>2
    <3> QED BY <3>4
  <2>7. InFiles = passed BY <1>3, <2>5, <2>6 DEF Inv, MergedExactly
  <2>8. CASE list = <<>>
    <3>1. InFiles = {} BY <2>8
    <3>2. Announced = {Dht} BY <2>1, <2>8, <3>1 DEF Announced
    <3> QED BY <2>7, <3>1, <3>2 DEF Result!OrDht
  <2>9. CASE list # <<>>
    <3>1. 1 \in 1..Len(list) BY <1>3, <2>9 DEF Inv, TypeOK
    <3>2. list[1] # <<>> /\ list[1] \in Seq(Url)
      BY <1>3, <3>1, ElementOfSeq DEF Inv, IndexInv, TypeOK
    <3>3. 1 \in 1..Len(list[1]) BY <3>2
    <3>4. list[1][1] \in InFiles BY <3>1, <3>3 DEF UrlsOf
    <3>5. Announced = {list[1][1]} \cup InFiles BY <2>1, <2>9 DEF Announced
    <3> HIDE DEF InFiles
    <3> QED BY <2>7, <3>4, <3>5 DEF Result!OrDht
  <2> QED BY <2>8, <2>9
<1> QED BY <1>1, <1>2, <1>3, InvAlways, PTL DEF Spec
=============================================================================
