------------------------- MODULE TorrentFileProofs -------------------------
(***************************************************************************)
(* Loading, changing and writing torrent files, for files of any length.   *)
(* The loop of Torrent::load is a recursive function of positions, as the  *)
(* loops of BencodeProofs are: it exists because each turn gets closer to  *)
(* the end of the file (LoadExists).  That it and the lookups of the other *)
(* two classes find the same entries (FindsWhatIsLoaded) is shown by       *)
(* induction from the end of the file.                                     *)
(* Which files are accepted: the entries from a position on are those of   *)
(* the turn there and those from the next one on (OneMoreEntry); so a load *)
(* succeeds exactly if each of them is fine (LoadsExactly, for Torrent;    *)
(* AnnounceInfoExactly, for the class that looks only for three keys).     *)
(* What is written: a dictionary put together of parts (Lies, Joined) has  *)
(* the entries of its parts, and each class reads from it what it has put  *)
(* in (AnnounceWritten, AnnounceInfoWritten, TorrentRewritten).            *)
(***************************************************************************)
EXTENDS TorrentFile, BencodeProofs, FiniteSetTheorems

\* Kept and new entries, by key; objects of the three classes.
Metas == UNION {[K -> Seq(Token)] : K \in {K \in SUBSET Str : IsFiniteSet(K)}}

Objects ==
  [announce : Utf8, list : Seq(Seq(Utf8)), info : Seq(Token), encoding : Utf8,
   parts : Metas, postAnnounce : Seq(Token), postList : Seq(Token), postInfo : Seq(Token)]

Results == [ok : BOOLEAN, t : Objects]

-----------------------------------------------------------------------------
(***************************************************************************)
(* A slice of a buffer.                                                    *)
(***************************************************************************)
IsSlice(s, b, from, to) ==
  /\ s \in Seq(Token) /\ Len(s) = to - from
  /\ \A i \in 1..(to - from) : s[i] = b[from + i - 1]

\* It is as long as it should be, with the tokens of the buffer.
LEMMA SliceIs ==
  ASSUME NEW b \in Seq(Token), NEW from \in 1..(Len(b) + 1), NEW to \in from..(Len(b) + 1),
         NEW s, s = Slice(b, from, to)
  PROVE  IsSlice(s, b, from, to)
<1>1. Len(b) \in Nat /\ from \in Int /\ to \in Int OBVIOUS
<1>2. PICK n : n = to - 1 OBVIOUS
<1>3. n \in Int /\ from >= 1 /\ n <= Len(b) /\ n >= from - 1 BY <1>1, <1>2
<1>4. \A i \in from..n : b[i] \in Token BY <1>1, <1>3
<1>5. s = SubSeq(b, from, n) BY <1>2 DEF Slice
<1>6. /\ SubSeq(b, from, n) \in Seq(Token)
      /\ Len(SubSeq(b, from, n)) = IF from <= n THEN n - from + 1 ELSE 0
      /\ \A i \in 1..(n - from + 1) : SubSeq(b, from, n)[i] = b[from + i - 1]
  BY ONLY <1>1, <1>3, <1>4, SubSeqProperties
<1>7. n - from + 1 = to - from BY <1>1, <1>2
<1> QED BY <1>1, <1>3, <1>5, <1>6, <1>7 DEF IsSlice

\* New entries are entries.
LEMMA MetaIs ==
  ASSUME NEW m \in NewMetas
  PROVE  m \in Metas
<1>1. IsFiniteSet(DOMAIN m) /\ DOMAIN m \subseteq Str /\ m \in [DOMAIN m -> Seq(Token)] BY MetaAssumption
<1> QED BY <1>1 DEF Metas

\* One more entry.
LEMMA InsertIs ==
  ASSUME NEW m \in Metas, NEW key \in Str, NEW value \in Seq(Token)
  PROVE  Insert(m, key, value) \in Metas
<1>1. PICK K \in SUBSET Str : IsFiniteSet(K) /\ m \in [K -> Seq(Token)] BY DEF Metas
<1>2. IsFiniteSet(K \cup {key})
  <2>1. IsFiniteSet({key}) BY FS_Singleton
  <2> QED BY <1>1, <2>1, FS_Union
<1>3. K \cup {key} \in SUBSET Str BY <1>1
<1>4. Insert(m, key, value) \in [K \cup {key} -> Seq(Token)] BY <1>1 DEF Insert
<1> QED BY <1>2, <1>3, <1>4 DEF Metas

\* The results of a load that fails, and of one that does not.
LEMMA ObjectIs ==
  /\ NewObject \in Objects /\ Failed \in Results
  /\ \A o \in Objects : Loaded(o) \in Results /\ Loaded(o).ok /\ Loaded(o).t = o
  /\ ~Failed.ok /\ Failed.t = NewObject
<1>1. <<>> \in Seq(Token) /\ <<>> \in Seq(Seq(Utf8)) BY EmptySeq
<1>2. <<>> \in Metas BY MetaAssumption, MetaIs
<1>3. "" \in Utf8 BY FileAssumption
<1>4. NewObject \in Objects BY <1>1, <1>2, <1>3 DEF NewObject, Objects, NoRaw
<1> QED BY <1>4 DEF Failed, Loaded, Results

-----------------------------------------------------------------------------
(***************************************************************************)
(* What the loop of Torrent::load reads of an entry ends where the value   *)
(* of the entry ends.                                                      *)
(***************************************************************************)
LEMMA EntryEnds ==
  ASSUME NEW b \in Seq(Token), NEW p \in Nat, NEW key, NEW ck, NEW q, q = EntryEnd(b, p, key, ck)
  PROVE  /\ q \in {Error, SkipValue(b, p)} /\ q \in EndsBehind(b, p)
         /\ key = "encoding" /\ q # Error => At(b, p, "s") /\ b[p].v \in Utf8
<1>1. ParseAnnounceList(b, p).pos \in {Error, SkipValue(b, p)} BY ParseAnnounceListSkips
<1>2. ParseInfo(b, p, ck) \in {Error, SkipValue(b, p)} BY ParseInfoSkips
<1>3. ReadUtf8(b, p) \in {Error, SkipValue(b, p)} BY ReadInfoSkips
<1>4. SkipValue(b, p) \in EndsBehind(b, p) /\ Error \in EndsBehind(b, p) BY SkipValueIs DEF EndsBehind
<1>5. q \in {Error, SkipValue(b, p)} BY <1>1, <1>2, <1>3 DEF EntryEnd
<1>6. key = "encoding" => q = ReadUtf8(b, p) BY DEF EntryEnd
<1> QED BY <1>4, <1>5, <1>6 DEF ReadUtf8

\* A value read lies in the buffer.
LEMMA ValueInside ==
  ASSUME NEW b \in Seq(Token), NEW p \in Nat, NEW q \in EndsBehind(b, p), q # Error
  PROVE  /\ Len(b) \in Nat /\ q \in Nat /\ p < q /\ q <= Len(b) + 1
         /\ p + 1 \in 1..(Len(b) + 1) /\ q \in p..(Len(b) + 1)
         /\ p # 0 => p \in 1..(Len(b) + 1)
BY DEF EndsBehind

\* The entry at p, which may come behind a key of rank prev, is read up to q.
ReadsEntry(b, p, prev, ck, q) ==
  NextKey(b, p, prev) /\ q # Error /\ q = EntryEnd(b, p + 1, b[p].v, ck)

(***************************************************************************)
(* An entry changes the one field its key is for.                          *)
(***************************************************************************)
LEMMA WithEntryIs ==
  ASSUME NEW b \in Seq(Token), NEW p \in Nat, NEW prev, NEW ck, NEW nw, NEW q,
         ReadsEntry(b, p, prev, ck, q), NEW o \in Objects, NEW x, x = WithEntry(o, b, p, q, nw)
  PROVE  /\ x \in Objects /\ x.announce = o.announce
         /\ x.list = IF b[p].v = "announce-list" THEN ParseAnnounceList(b, p + 1).list ELSE o.list
         /\ x.info = IF b[p].v = "info" THEN Slice(b, p + 1, q) ELSE o.info
         /\ x.encoding = IF b[p].v = "encoding" THEN b[p + 1].v ELSE o.encoding
         /\ x.parts = IF /\ b[p].v \notin {"announce-list", "info", "encoding"}
                         /\ MetaKept(b, p + 1, b[p].v, nw)
                      THEN Insert(o.parts, b[p].v, Slice(b, p, q)) ELSE o.parts
<1>1. PICK key : key = b[p].v OBVIOUS
<1>2. NextKey(b, p, prev) /\ q # Error /\ q = EntryEnd(b, p + 1, b[p].v, ck) BY DEF ReadsEntry
<1>3. key \in Utf8 /\ key \in Str /\ p \in 1..Len(b) BY <1>2, <1>1, TokenIs
<1>4. p + 1 \in Nat /\ q \in EndsBehind(b, p + 1) BY <1>2, <1>1, EntryEnds
<1>5. /\ p \in 1..(Len(b) + 1) /\ q \in p..(Len(b) + 1)
      /\ p + 1 \in 1..(Len(b) + 1) /\ q \in (p + 1)..(Len(b) + 1)
  BY <1>2, <1>3, <1>4, ValueInside
<1>6. Slice(b, p, q) \in Seq(Token) /\ Slice(b, p + 1, q) \in Seq(Token) BY <1>5, SliceIs DEF IsSlice
<1>7. ParseAnnounceList(b, p + 1).list \in Seq(Seq(Utf8)) BY <1>4, ParseAnnounceListSkips
<1>8. key = "encoding" => b[p + 1].v \in Utf8 BY <1>2, <1>1, <1>4, EntryEnds
<1>9. Insert(o.parts, key, Slice(b, p, q)) \in Metas
  <2>1. o.parts \in Metas BY DEF Objects
  <2> QED BY <1>3, <1>6, <2>1, InsertIs
<1>10. x = CASE key = "announce-list" -> [o EXCEPT !.list = ParseAnnounceList(b, p + 1).list]
             [] key = "info" -> [o EXCEPT !.info = Slice(b, p + 1, q)]
             [] key = "encoding" -> [o EXCEPT !.encoding = b[p + 1].v]
             [] OTHER -> IF MetaKept(b, p + 1, key, nw)
                         THEN [o EXCEPT !.parts = Insert(o.parts, key, Slice(b, p, q))] ELSE o
  BY <1>1 DEF WithEntry
<1>11. CASE key = "announce-list"
  <2>1. x = [o EXCEPT !.list = ParseAnnounceList(b, p + 1).list] BY <1>10, <1>11
  <2> QED BY <1>1, <1>7, <1>11, <2>1 DEF Objects
<1>12. CASE key = "info"
  <2>1. x = [o EXCEPT !.info = Slice(b, p + 1, q)] BY <1>10, <1>12
  <2> QED BY <1>1, <1>6, <1>12, <2>1 DEF Objects
<1>13. CASE key = "encoding"
  <2>1. x = [o EXCEPT !.encoding = b[p + 1].v] BY <1>10, <1>13
  <2> QED BY <1>1, <1>8, <1>13, <2>1 DEF Objects
<1>14. CASE key \notin {"announce-list", "info", "encoding"} /\ MetaKept(b, p + 1, key, nw)
  <2>1. x = [o EXCEPT !.parts = Insert(o.parts, key, Slice(b, p, q))] BY <1>10, <1>14
  <2> QED BY <1>1, <1>9, <1>14, <2>1 DEF Objects
<1>15. CASE key \notin {"announce-list", "info", "encoding"} /\ ~MetaKept(b, p + 1, key, nw)
  <2>1. x = o BY <1>10, <1>15
  <2> QED BY <1>1, <1>15, <2>1
<1> QED BY <1>11, <1>12, <1>13, <1>14, <1>15

(***************************************************************************)
(* The recursive function of Torrent::load exists.                         *)
(***************************************************************************)
LoadBody(b, nw, ck, k, f) ==
  IF At(b, k.p, "e") THEN
    IF k.p # Len(b) THEN Failed
    ELSE Loaded([NewObject EXCEPT !.announce = b[3].v, !.parts = nw])
  ELSE IF ~NextKey(b, k.p, k.prev) THEN Failed
  ELSE LET upTo(q) == IF q = Error THEN Failed
                      ELSE Before(f[PlaceAt(q, Rank[b[k.p].v])], b, k.p, q, nw)
       IN upTo(EntryEnd(b, k.p + 1, b[k.p].v, ck))

IsLoad(f, b, nw, ck) == f = [k \in Places |-> LoadBody(b, nw, ck, k, f)]

\* What is loaded from position p on, behind a key of rank prev.
LoadFrom(b, nw, ck, p, prev) == (CHOOSE f : IsLoad(f, b, nw, ck))[PlaceAt(p, prev)]

\* What "d8:announce" and a url behind it are.
LEMMA AnnounceIs ==
  ASSUME NEW b \in Seq(Token), Announce(b) # Error
  PROVE  /\ Announce(b) = 4 /\ At(b, 1, "d") /\ At(b, 2, "s") /\ b[2].v = "announce"
         /\ At(b, 3, "s") /\ b[3].v \in Utf8
BY DEF Announce, ReadUtf8

\* An entry is read before those behind it.
LEMMA EntryBehind ==
  ASSUME NEW b \in Seq(Token), NEW k \in Places, NextKey(b, k.p, k.prev), NEW ck,
         NEW q, q = EntryEnd(b, k.p + 1, b[k.p].v, ck), q # Error
  PROVE  /\ k.p \in 1..Len(b) /\ q \in Nat /\ q > k.p + 1 /\ Rank[b[k.p].v] \in Nat
         /\ PlaceAt(q, Rank[b[k.p].v]) \in Places
         /\ Left(b, PlaceAt(q, Rank[b[k.p].v]).p) < Left(b, k.p)
<1>1. PICK p, r : p = k.p /\ r = Rank[b[k.p].v] OBVIOUS
<1>2. p \in Nat /\ p + 1 \in Nat /\ Len(b) \in Nat BY <1>1 DEF Places
<1>3. p \in 1..Len(b) /\ r \in Nat BY <1>1, TokenIs
<1>4. q \in EndsBehind(b, p + 1) BY <1>1, <1>2, EntryEnds
<1>5. q \in Nat /\ q > p + 1 BY <1>2, <1>4, ValueInside
<1>6. PlaceAt(q, r) \in Places /\ PlaceAt(q, r).p = q BY <1>3, <1>5 DEF PlaceAt, Places
<1>7. Left(b, q) \in Nat /\ Left(b, p) \in Nat /\ Left(b, q) + 1 < Left(b, p)
  BY <1>2, <1>3, <1>5, MeasureIs
<1>8. Left(b, q) < Left(b, p) BY <1>7
<1> QED BY <1>1, <1>3, <1>5, <1>6, <1>8

\* A solution whose values are results.
LEMMA LoadExists ==
  ASSUME NEW b \in Seq(Token), NEW nw \in Metas, NEW ck, Announce(b) # Error
  PROVE  \E f \in [Places -> Results] : IsLoad(f, b, nw, ck)
<1> DEFINE m == [k \in Places |-> Left(b, k.p)]
           B == [z \in Places \X [Places -> Results] |-> LoadBody(b, nw, ck, z[1], z[2])]
<1>1. m \in [Places -> Nat]
  <2>1. \A k \in Places : k.p \in Nat BY DEF Places
  <2> QED BY <2>1, MeasureIs
<1>2. ASSUME NEW k \in Places, NEW f \in [Places -> Results]
      PROVE  LoadBody(b, nw, ck, k, f) \in Results
  <2>1. PICK q : q = EntryEnd(b, k.p + 1, b[k.p].v, ck) OBVIOUS
  <2>2. CASE NextKey(b, k.p, k.prev) /\ q # Error
    <3>1. PICK rest : rest = f[PlaceAt(q, Rank[b[k.p].v])] OBVIOUS
    <3>2. PlaceAt(q, Rank[b[k.p].v]) \in Places BY <2>1, <2>2, EntryBehind
    <3>3. rest \in Results BY <3>1, <3>2
    <3>4. rest.t \in Objects BY <3>3 DEF Results
    <3>5. k.p \in Nat BY DEF Places
    <3>6. ReadsEntry(b, k.p, k.prev, ck, q) BY <2>1, <2>2 DEF ReadsEntry
    <3>7. WithEntry(rest.t, b, k.p, q, nw) \in Objects BY <3>4, <3>5, <3>6, WithEntryIs
    <3>8. Before(rest, b, k.p, q, nw) \in Results BY <3>7, ObjectIs DEF Before
    <3>9. [NewObject EXCEPT !.announce = b[3].v, !.parts = nw] \in Objects
      BY AnnounceIs, ObjectIs DEF Objects
    <3> QED BY <2>1, <2>2, <3>1, <3>8, <3>9, ObjectIs DEF LoadBody
  <2>3. CASE ~(NextKey(b, k.p, k.prev) /\ q # Error)
    <3>1. [NewObject EXCEPT !.announce = b[3].v, !.parts = nw] \in Objects
      BY AnnounceIs, ObjectIs DEF Objects
    <3> QED BY <2>1, <2>3, <3>1, ObjectIs DEF LoadBody
  <2> QED BY <2>2, <2>3
<1>3. B \in [Places \X [Places -> Results] -> Results] BY <1>2
<1>4. \A k \in Places, f \in [Places -> Results] : B[<<k, f>>] = LoadBody(b, nw, ck, k, f) OBVIOUS
<1>5. \A k \in Places : m[k] = Left(b, k.p) OBVIOUS
<1>6. Results # {} BY ObjectIs
<1> HIDE DEF m, B
<1>7. LooksBack(Places, Results, m, B)
  <2> SUFFICES ASSUME NEW k \in Places, NEW f \in [Places -> Results], NEW g \in [Places -> Results],
                      \A j \in Places : m[j] < m[k] => f[j] = g[j]
               PROVE  B[<<k, f>>] = B[<<k, g>>]
    BY DEF LooksBack
  <2>1. \A j \in Places : Left(b, j.p) < Left(b, k.p) => f[j] = g[j] BY <1>5
  <2>2. PICK q, r : q = EntryEnd(b, k.p + 1, b[k.p].v, ck) /\ r = Rank[b[k.p].v] OBVIOUS
  <2>3. NextKey(b, k.p, k.prev) /\ q # Error => f[PlaceAt(q, r)] = g[PlaceAt(q, r)]
    BY <2>1, <2>2, EntryBehind
  <2>4. LoadBody(b, nw, ck, k, f) = LoadBody(b, nw, ck, k, g) BY <2>2, <2>3 DEF LoadBody
  <2> QED BY <1>4, <2>4
<1>8. Defines(Places, Results, m, B) BY <1>1, <1>3, <1>6, <1>7 DEF Defines
<1>9. Solvable(Places, Results, B) BY <1>8, SolutionExists
<1>10. PICK f \in [Places -> Results] : \A k \in Places : f[k] = B[<<k, f>>] BY <1>9 DEF Solvable
<1>11. \A k \in Places : f[k] = LoadBody(b, nw, ck, k, f) BY <1>4, <1>10
<1>12. f = [k \in Places |-> LoadBody(b, nw, ck, k, f)] BY <1>10, <1>11
<1> QED BY <1>12 DEF IsLoad

\* One turn of the loop, which reads an entry up to q, and the rest from there on.
LoadTurn(b, nw, p, prev, q, rest) ==
  IF At(b, p, "e") THEN
    IF p # Len(b) THEN Failed
    ELSE Loaded([NewObject EXCEPT !.announce = b[3].v, !.parts = nw])
  ELSE IF ~NextKey(b, p, prev) \/ q = Error THEN Failed
  ELSE Before(rest, b, p, q, nw)

\* The loop, one turn unrolled.
LEMMA LoadIs ==
  ASSUME NEW b \in Seq(Token), NEW nw \in Metas, NEW ck, Announce(b) # Error,
         NEW p \in Nat, NEW prev \in Nat
  PROVE  LoadFrom(b, nw, ck, p, prev) =
           LoadTurn(b, nw, p, prev, EntryEnd(b, p + 1, b[p].v, ck),
                    LoadFrom(b, nw, ck, EntryEnd(b, p + 1, b[p].v, ck), Rank[b[p].v]))
<1> DEFINE load == CHOOSE f : IsLoad(f, b, nw, ck)
<1>1. \A q, n : LoadFrom(b, nw, ck, q, n) = load[PlaceAt(q, n)] BY DEF LoadFrom
<1>2. IsLoad(load, b, nw, ck) BY LoadExists
<1> HIDE DEF load
<1>3. PICK k : k = PlaceAt(p, prev) OBVIOUS
<1>4. k \in Places /\ k.p = p /\ k.prev = prev BY <1>3 DEF PlaceAt, Places
<1>5. load[k] = LoadBody(b, nw, ck, k, load) BY <1>2, <1>4 DEF IsLoad
<1> QED BY <1>1, <1>3, <1>4, <1>5 DEF LoadBody, LoadTurn

\* Torrent::load with the equations above.
LEMMA LoadTorrentIs ==
  ASSUME NEW b, NEW nw, NEW ck
  PROVE  LoadTorrent(b, nw, ck) = IF Announce(b) = Error THEN Failed
                                  ELSE LoadFrom(b, nw, ck, Announce(b), Rank["announce"])
BY DEF LoadTorrent, LoadFrom, IsLoad, LoadBody

(***************************************************************************)
(* One turn of the loop of Torrent::load, if all goes well.                *)
(***************************************************************************)
LEMMA LoadStep ==
  ASSUME NEW b \in Seq(Token), NEW nw \in Metas, NEW ck, Announce(b) # Error,
         NEW p \in Nat, NEW prev \in Nat, LoadFrom(b, nw, ck, p, prev).ok
  PROVE  \/ /\ At(b, p, "e") /\ p = Len(b)
            /\ LoadFrom(b, nw, ck, p, prev) =
                 Loaded([NewObject EXCEPT !.announce = b[3].v, !.parts = nw])
         \/ /\ ~At(b, p, "e")
            /\ \E q : /\ ReadsEntry(b, p, prev, ck, q) /\ q = SkipValue(b, p + 1)
                      /\ LoadFrom(b, nw, ck, q, Rank[b[p].v]).ok
                      /\ LoadFrom(b, nw, ck, p, prev) =
                           Loaded(WithEntry(LoadFrom(b, nw, ck, q, Rank[b[p].v]).t, b, p, q, nw))
<1>1. PICK r, q : r = LoadFrom(b, nw, ck, p, prev) /\ q = EntryEnd(b, p + 1, b[p].v, ck) OBVIOUS
<1>2. PICK rest : rest = LoadFrom(b, nw, ck, q, Rank[b[p].v]) OBVIOUS
<1>3. r = LoadTurn(b, nw, p, prev, q, rest) BY <1>1, <1>2, LoadIs
<1>4. r.ok /\ ~Failed.ok BY <1>1, ObjectIs
<1>5. CASE At(b, p, "e") BY <1>1, <1>3, <1>4, <1>5 DEF LoadTurn
<1>6. CASE ~At(b, p, "e")
  <2>1. NextKey(b, p, prev) /\ q # Error BY <1>3, <1>4, <1>6 DEF LoadTurn
  <2>2. r = Before(rest, b, p, q, nw) BY <1>3, <1>6, <2>1 DEF LoadTurn
  <2>3. rest.ok /\ r = Loaded(WithEntry(rest.t, b, p, q, nw)) BY <1>4, <2>2 DEF Before
  <2>4. q = SkipValue(b, p + 1) BY <1>1, <2>1, EntryEnds
  <2>5. ReadsEntry(b, p, prev, ck, q) BY <1>1, <2>1 DEF ReadsEntry
  <2> QED BY <1>1, <1>2, <1>6, <2>3, <2>4, <2>5
<1> QED BY <1>5, <1>6

(***************************************************************************)
(* What is loaded from a position behind a key of rank prev: it is an      *)
(* object, the rest of the dictionary is skipped to the end of the file,   *)
(* and what only keys before could have set is not set.                    *)
(***************************************************************************)
LoadsRest(b, p, prev, r) ==
  /\ r.t \in Objects /\ r.t.announce = b[3].v
  /\ SkipEntries(b, p, prev) = Len(b) + 1
  /\ prev >= Rank["announce-list"] => r.t.list = <<>>
  /\ prev >= Rank["info"] => r.t.info = NoRaw

\* The ranks of the keys Torrent::load knows.
LEMMA KeysAre ==
  /\ {"announce", "announce-list", "encoding", "info"} \subseteq Utf8
  /\ {"announce", "announce-list", "encoding", "info"} \subseteq Str
  /\ Rank["announce"] \in Nat /\ Rank["announce-list"] \in Nat
  /\ Rank["encoding"] \in Nat /\ Rank["info"] \in Nat
  /\ Rank["announce"] < Rank["announce-list"] /\ Rank["announce-list"] < Rank["encoding"]
  /\ Rank["encoding"] < Rank["info"]
<1>1. /\ {"announce", "announce-list", "encoding", "info"} \subseteq Utf8
      /\ Rank["announce"] < Rank["announce-list"] /\ Rank["announce-list"] < Rank["encoding"]
      /\ Rank["encoding"] < Rank["info"]
  BY FileAssumption
<1>2. {"announce", "announce-list", "encoding", "info"} \subseteq Str BY <1>1, BencodeAssumption
<1>3. /\ Rank["announce"] \in Nat /\ Rank["announce-list"] \in Nat
      /\ Rank["encoding"] \in Nat /\ Rank["info"] \in Nat
  BY <1>2, BencodeAssumption
<1> QED BY <1>1, <1>2, <1>3

\* By induction from the end of the file.
LEMMA LoadsTheRest ==
  ASSUME NEW b \in Seq(Token), NEW nw \in Metas, NEW ck, Announce(b) # Error,
         NEW p \in Nat, NEW prev \in Nat, NEW r, r = LoadFrom(b, nw, ck, p, prev), r.ok
  PROVE  LoadsRest(b, p, prev, r)
<1> DEFINE T == {q \in Nat : \A n \in Nat : LoadFrom(b, nw, ck, q, n).ok =>
                                LoadsRest(b, q, n, LoadFrom(b, nw, ck, q, n))}
<1>1. ASSUME NEW q \in Nat, \A n \in Nat : n > q /\ q <= Len(b) => n \in T
      PROVE  q \in T
  <2> SUFFICES ASSUME NEW n \in Nat, NEW x, x = LoadFrom(b, nw, ck, q, n), x.ok
               PROVE  LoadsRest(b, q, n, x)
    OBVIOUS
  <2>1. CASE At(b, q, "e") /\ q = Len(b) /\ x = Loaded([NewObject EXCEPT !.announce = b[3].v, !.parts = nw])
    <3>1. PICK o : o = [NewObject EXCEPT !.announce = b[3].v, !.parts = nw] OBVIOUS
    <3>2. o \in Objects BY <3>1, AnnounceIs, ObjectIs DEF Objects
    <3>3. x.t = o BY <2>1, <3>1, <3>2, ObjectIs
    <3>4. o.announce = b[3].v /\ o.list = <<>> /\ o.info = NoRaw BY <3>1 DEF NewObject
    <3>5. SkipEntries(b, q, n) = Len(b) + 1 BY <2>1, SkipEntriesIs
    <3> QED BY <3>2, <3>3, <3>4, <3>5 DEF LoadsRest
  <2>2. ASSUME ~At(b, q, "e"), NEW e, ReadsEntry(b, q, n, ck, e), e = SkipValue(b, q + 1),
               LoadFrom(b, nw, ck, e, Rank[b[q].v]).ok,
               x = Loaded(WithEntry(LoadFrom(b, nw, ck, e, Rank[b[q].v]).t, b, q, e, nw))
        PROVE  LoadsRest(b, q, n, x)
    <3>1. PICK rest, k : rest = LoadFrom(b, nw, ck, e, k) /\ k = Rank[b[q].v] OBVIOUS
    <3>2. NextKey(b, q, n) /\ e = EntryEnd(b, q + 1, b[q].v, ck) /\ e # Error BY <2>2 DEF ReadsEntry
    <3>3. PICK pl : pl = PlaceAt(q, n) OBVIOUS
    <3>4. pl \in Places /\ pl.p = q /\ pl.prev = n BY <3>3 DEF PlaceAt, Places
    <3>5. q \in 1..Len(b) /\ e \in Nat /\ e > q + 1 /\ k \in Nat
      BY <3>1, <3>4, <3>2, EntryBehind
    <3>6. q <= Len(b) /\ e > q BY <3>5
    <3>7. LoadsRest(b, e, k, rest) BY <1>1, <2>2, <3>1, <3>5, <3>6
    <3>8. PICK o : o = WithEntry(rest.t, b, q, e, nw) OBVIOUS
    <3>9. rest.t \in Objects BY <3>7 DEF LoadsRest
    <3>10. /\ o \in Objects /\ o.announce = rest.t.announce
           /\ b[q].v # "announce-list" => o.list = rest.t.list
           /\ b[q].v # "info" => o.info = rest.t.info
      <4>1. o \in Objects /\ o.announce = rest.t.announce BY <2>2, <3>8, <3>9, WithEntryIs
      <4>2. o.list = IF b[q].v = "announce-list" THEN ParseAnnounceList(b, q + 1).list ELSE rest.t.list
        BY <2>2, <3>8, <3>9, WithEntryIs
      <4>3. o.info = IF b[q].v = "info" THEN Slice(b, q + 1, e) ELSE rest.t.info
        BY <2>2, <3>8, <3>9, WithEntryIs
      <4> QED BY <4>1, <4>2, <4>3
    <3>11. x.t = o BY <2>2, <3>1, <3>8, <3>10, ObjectIs
    <3>12. SkipEntries(b, q, n) = Len(b) + 1
      <4>1. SkipEntries(b, q, n) = SkipEntries(b, e, k) BY <2>2, <3>1, <3>2, SkipEntriesIs
      <4> QED BY <3>7, <4>1 DEF LoadsRest
    <3>13. k > n BY <3>1, <3>2, TokenIs
    <3>14. ASSUME NEW key \in {"announce-list", "info"}, n >= Rank[key]
           PROVE  k >= Rank[key] /\ b[q].v # key
      <4>1. PICK m : m = Rank[key] OBVIOUS
      <4>2. m \in Nat BY <4>1, KeysAre
      <4>3. k > m BY <3>5, <3>13, <3>14, <4>1, <4>2
      <4> QED BY <3>1, <3>5, <4>1, <4>2, <4>3
    <3>15. n >= Rank["announce-list"] => k >= Rank["announce-list"] /\ b[q].v # "announce-list"
      BY <3>14
    <3>16. n >= Rank["info"] => k >= Rank["info"] /\ b[q].v # "info" BY <3>14
    <3> QED BY <3>7, <3>10, <3>11, <3>12, <3>15, <3>16 DEF LoadsRest
  <2> QED BY <2>1, <2>2, LoadStep
<1>2. T = Nat
  <2>1. T \in SUBSET Nat OBVIOUS
  <2> HIDE DEF T
  <2> QED BY <1>1, <2>1, PositionInduction
<1> QED BY <1>2

\* Behind which key a position is reached makes no difference to what follows.
LEMMA SameBehind ==
  ASSUME NEW b \in Seq(Token), NEW nw \in Metas, NEW ck, Announce(b) # Error,
         NEW p \in Nat, NEW n \in Nat, NEW k \in Nat,
         At(b, p, "e") \/ (NextKey(b, p, n) /\ NextKey(b, p, k))
  PROVE  LoadFrom(b, nw, ck, p, n) = LoadFrom(b, nw, ck, p, k)
<1>1. PICK q : q = EntryEnd(b, p + 1, b[p].v, ck) OBVIOUS
<1>2. PICK rest : rest = LoadFrom(b, nw, ck, q, Rank[b[p].v]) OBVIOUS
<1>3. LoadFrom(b, nw, ck, p, n) = LoadTurn(b, nw, p, n, q, rest) BY <1>1, <1>2, LoadIs
<1>4. LoadFrom(b, nw, ck, p, k) = LoadTurn(b, nw, p, k, q, rest) BY <1>1, <1>2, LoadIs
<1> QED BY <1>3, <1>4 DEF LoadTurn

(***************************************************************************)
(* Torrent::load and try_next_dict_entry, which the other two classes use, *)
(* from a position p on: the latter finds what Torrent has read, and what  *)
(* Torrent loads from where it has stopped is all the rest of it.          *)
(***************************************************************************)
Finds(b, nw, ck, search, r, e) ==
  /\ e.pos # Error
  /\ e.found => \E q, rest : /\ q # Error /\ q = SkipValue(b, e.pos) /\ q = EntryEnd(b, e.pos, search, ck)
                             /\ rest = LoadFrom(b, nw, ck, q, Rank[search]) /\ rest.ok
                             /\ search = "announce-list" =>
                                  /\ r.t.list = ParseAnnounceList(b, e.pos).list
                                  /\ r.t.info = rest.t.info
                             /\ search = "info" => r.t.info = Slice(b, e.pos, q)
  /\ ~e.found => \E rest : /\ rest = LoadFrom(b, nw, ck, e.pos, Rank[search]) /\ rest.ok
                           /\ r.t.info = rest.t.info
                           /\ search = "announce-list" => r.t.list = rest.t.list

\* By induction from the end of the file, turn by turn.
LEMMA FindsWhatIsLoaded ==
  ASSUME NEW b \in Seq(Token), NEW nw \in Metas, NEW ck, Announce(b) # Error,
         NEW search \in {"announce-list", "info"}, NEW p \in Nat, NEW prev \in Nat,
         NEW r, r = LoadFrom(b, nw, ck, p, prev), r.ok, prev < Rank[search],
         NEW e, e = TryNext(b, p, search, prev)
  PROVE  Finds(b, nw, ck, search, r, e)
<1> DEFINE T == {q \in Nat : \A n \in Nat :
                   LoadFrom(b, nw, ck, q, n).ok /\ n < Rank[search] =>
                     Finds(b, nw, ck, search, LoadFrom(b, nw, ck, q, n), TryNext(b, q, search, n))}
<1>1. Rank[search] \in Nat /\ search \in Str /\ search \in Utf8 BY KeysAre
<1>2. ASSUME NEW q \in Nat, \A n \in Nat : n > q /\ q <= Len(b) => n \in T
      PROVE  q \in T
  <2> SUFFICES ASSUME NEW n \in Nat, NEW x, x = LoadFrom(b, nw, ck, q, n), x.ok, n < Rank[search],
                      NEW y, y = TryNext(b, q, search, n)
               PROVE  Finds(b, nw, ck, search, x, y)
    OBVIOUS
  <2>1. CASE At(b, q, "e")
    <3>1. y = [found |-> FALSE, pos |-> q, to |-> q] BY <2>1, TryNextIs
    <3>2. q # Error BY <2>1 DEF At, Error
    <3>3. x = LoadFrom(b, nw, ck, q, Rank[search]) BY <1>1, <2>1, SameBehind
    <3> QED BY <3>1, <3>2, <3>3 DEF Finds
  <2>2. ASSUME ~At(b, q, "e"), NEW z, ReadsEntry(b, q, n, ck, z), z = SkipValue(b, q + 1),
               LoadFrom(b, nw, ck, z, Rank[b[q].v]).ok,
               x = Loaded(WithEntry(LoadFrom(b, nw, ck, z, Rank[b[q].v]).t, b, q, z, nw))
        PROVE  Finds(b, nw, ck, search, x, y)
    <3>1. PICK key, k, rest : key = b[q].v /\ k = Rank[key] /\ rest = LoadFrom(b, nw, ck, z, k) OBVIOUS
    <3>2. NextKey(b, q, n) /\ z = EntryEnd(b, q + 1, key, ck) /\ z # Error BY <2>2, <3>1 DEF ReadsEntry
    <3>3. PICK pl : pl = PlaceAt(q, n) OBVIOUS
    <3>4. pl \in Places /\ pl.p = q /\ pl.prev = n BY <3>3 DEF PlaceAt, Places
    <3>5. q \in 1..Len(b) /\ z \in Nat /\ z > q + 1 /\ k \in Nat BY <3>1, <3>2, <3>4, EntryBehind
    <3>6. rest.t \in Objects BY <2>2, <3>1, <3>5, LoadsTheRest DEF LoadsRest
    <3>7. PICK o : o = WithEntry(rest.t, b, q, z, nw) OBVIOUS
    <3>8. b \in Seq(Token) /\ q \in Nat /\ ReadsEntry(b, q, n, ck, z) BY <2>2
    <3>9. PICK u : u = rest.t /\ u \in Objects /\ o = WithEntry(u, b, q, z, nw) BY <3>6, <3>7
    <3>10. o \in Objects BY ONLY <3>8, <3>9, WithEntryIs
    <3>11. o.list = IF key = "announce-list" THEN ParseAnnounceList(b, q + 1).list ELSE rest.t.list
      BY ONLY <3>1, <3>8, <3>9, WithEntryIs
    <3>12. o.info = IF key = "info" THEN Slice(b, q + 1, z) ELSE rest.t.info
      BY ONLY <3>1, <3>8, <3>9, WithEntryIs
    <3>13. x.t = o BY <2>2, <3>1, <3>7, <3>10, ObjectIs
    <3>14. key \in Str /\ k > n BY <3>1, <3>2, TokenIs, BencodeAssumption
    <3>15. y = TryTurn(b, q, search, k, z)
      <4>1. ~At(b, q, "e") /\ z = SkipValue(b, q + 1) BY <2>2
      <4> QED BY <3>1, <3>2, <4>1, TryNextTurn
    <3>16. CASE k = Rank[search]
      <4>1. key = search BY <1>1, <3>1, <3>14, <3>16, BencodeAssumption
      <4>2. y = [found |-> TRUE, pos |-> q + 1, to |-> q] BY <3>15, <3>16 DEF TryTurn
      <4>3. q + 1 # Error BY DEF Error
      <4>4. key = "announce-list" => o.list = ParseAnnounceList(b, q + 1).list /\ o.info = rest.t.info
        BY <3>11, <3>12
      <4>5. key = "info" => o.info = Slice(b, q + 1, z) BY <3>12
      <4> QED BY <2>2, <3>1, <3>2, <3>13, <4>1, <4>2, <4>3, <4>4, <4>5 DEF Finds
    <3>17. CASE k > Rank[search]
      <4>1. k # Rank[search] BY <1>1, <3>5, <3>17
      <4>2. y = [found |-> FALSE, pos |-> q, to |-> q] BY <3>15, <3>17, <4>1 DEF TryTurn
      <4>3. NextKey(b, q, Rank[search]) BY <3>1, <3>2, <3>17, TokenIs
      <4>4. x = LoadFrom(b, nw, ck, q, Rank[search]) BY <1>1, <3>2, <4>3, SameBehind
      <4>5. q # Error BY <3>5 DEF Error
      <4> QED BY <4>2, <4>4, <4>5 DEF Finds
    <3>18. CASE k < Rank[search]
      <4>1. k # Rank[search] /\ ~(k > Rank[search]) BY <1>1, <3>5, <3>18
      <4>2. y = TryNext(b, z, search, k) BY <3>2, <3>15, <4>1 DEF TryTurn
      <4>3. Finds(b, nw, ck, search, rest, y)
        <5>1. q <= Len(b) /\ z > q BY <3>5
        <5> QED BY <1>2, <2>2, <3>1, <3>5, <3>18, <4>2, <5>1
      <4>4. key # "info"
        <5>1. Rank[search] <= Rank["info"] BY KeysAre
        <5> QED BY <1>1, <3>1, <3>5, <3>18, <5>1, KeysAre
      <4>5. search = "announce-list" => key # "announce-list" BY <3>1, <3>5, <3>18, KeysAre
      <4>6. x.t.info = rest.t.info /\ (search = "announce-list" => x.t.list = rest.t.list)
        BY <3>11, <3>12, <3>13, <4>4, <4>5
      <4> QED BY <4>3, <4>6 DEF Finds
    <3> QED BY <1>1, <3>5, <3>17, <3>18, <3>16
  <2> QED BY <2>1, <2>2, LoadStep
<1>3. T = Nat
  <2>1. T \in SUBSET Nat OBVIOUS
  <2> HIDE DEF T
  <2> QED BY <1>2, <2>1, PositionInduction
<1> QED BY <1>3

\* Where LoadAnnounce stops, and the object it has put together.
LEMMA AnnounceLoaded ==
  ASSUME NEW b \in Seq(Token), NEW a, a = LoadAnnounce(b)
  PROVE  /\ a.pos \in Nat /\ a.pos <= Len(b) + 1 /\ a.t \in Objects
         /\ a.pos # Error => Announce(b) # Error /\ a.t.announce = b[3].v
<1>1. PICK p, e : p = Announce(b) /\ e = TryNext(b, p, "announce-list", Rank["announce"]) OBVIOUS
<1>2. PICK al : al = (IF e.found THEN ParseAnnounceList(b, e.pos) ELSE [pos |-> e.pos, list |-> <<>>])
  OBVIOUS
<1>3. CASE p = Error \/ al.pos = Error
  <2>1. a = [pos |-> Error, t |-> NewObject] BY <1>1, <1>2, <1>3 DEF LoadAnnounce
  <2>2. Error \in Nat /\ Error <= Len(b) + 1 BY DEF Error
  <2> QED BY <2>1, <2>2, ObjectIs
<1>4. CASE p # Error /\ al.pos # Error
  <2>1. a = [pos |-> al.pos,
             t |-> [NewObject EXCEPT !.announce = b[3].v, !.list = al.list,
                                     !.postAnnounce = Slice(b, p, e.to)]]
    BY <1>1, <1>2, <1>4 DEF LoadAnnounce
  <2>2. p = 4 /\ b[3].v \in Utf8 /\ At(b, 3, "s") BY <1>1, <1>4, AnnounceIs
  <2>3. p \in Nat /\ p \in 1..(Len(b) + 1) BY <2>2 DEF At
  <2>4. PICK k : k = Rank["announce"] OBVIOUS
  <2>5. k \in Nat /\ "announce-list" \in Str BY <2>4, KeysAre
  <2>6. e.found \in BOOLEAN /\ e.pos \in Nat /\ e.to \in Nat
        /\ (e.pos = Error => ~e.found)
    BY <1>1, <2>3, <2>4, <2>5, TryNextStops DEF Stops
  <2>7. e.found => e.to >= p /\ e.pos = e.to + 1 /\ At(b, e.to, "s")
    BY <1>1, <2>3, <2>4, <2>5, TryNextStops DEF Stops
  <2>8. ~e.found /\ e.pos # Error =>
          e.pos >= p /\ e.pos = e.to /\ (At(b, e.pos, "e") \/ NextKey(b, e.pos, Rank["announce-list"]))
    BY <1>1, <2>3, <2>4, <2>5, TryNextStops DEF Stops
  <2>9. e.to \in p..(Len(b) + 1) /\ al.pos \in Nat /\ al.pos <= Len(b) + 1 /\ al.list \in Seq(Seq(Utf8))
    <3>1. CASE e.found
      <4>1. al = ParseAnnounceList(b, e.pos) BY <1>2, <3>1
      <4>2. al.pos \in {Error, SkipValue(b, e.pos)} /\ al.list \in Seq(Seq(Utf8))
        BY <2>6, <4>1, ParseAnnounceListSkips
      <4>3. al.pos \in Nat /\ al.pos <= Len(b) + 1
        <5>1. SkipValue(b, e.pos) \in EndsBehind(b, e.pos) BY <2>6, SkipValueIs
        <5> QED BY <1>4, <2>6, <4>2, <5>1 DEF EndsBehind
      <4> QED BY <2>3, <2>6, <2>7, <3>1, <4>2, <4>3 DEF At
    <3>2. CASE ~e.found
      <4>1. al = [pos |-> e.pos, list |-> <<>>] BY <1>2, <3>2
      <4>2. e.pos >= p /\ e.pos = e.to /\ (At(b, e.pos, "e") \/ NextKey(b, e.pos, Rank["announce-list"]))
        BY <1>4, <2>8, <3>2, <4>1
      <4>3. e.pos \in 1..Len(b) BY <4>2, TokenIs
      <4>4. <<>> \in Seq(Seq(Utf8)) BY EmptySeq
      <4> QED BY <2>3, <2>6, <4>1, <4>2, <4>3, <4>4
    <3> QED BY <2>6, <3>1, <3>2
  <2>10. Slice(b, p, e.to) \in Seq(Token) BY <2>3, <2>9, SliceIs DEF IsSlice
  <2>11. PICK o : o = [NewObject EXCEPT !.announce = b[3].v, !.list = al.list,
                                        !.postAnnounce = Slice(b, p, e.to)]
    OBVIOUS
  <2>12. o \in Objects /\ o.announce = b[3].v BY <2>2, <2>9, <2>10, <2>11, ObjectIs DEF Objects
  <2>13. a.pos = al.pos /\ a.t = o BY <2>1, <2>11
  <2> QED BY <1>1, <1>4, <2>9, <2>12, <2>13
<1> QED BY <1>3, <1>4

(***************************************************************************)
(* What Torrent accepts, with its info, TorrentAnnounceInfo accepts with   *)
(* the same urls and info.                                                 *)
(***************************************************************************)
LEMMA TorrentsAgree ==
  ASSUME NEW b \in Seq(Token), NEW nw \in Metas, NEW ck, NEW r, r = LoadTorrent(b, nw, ck), r.ok,
         NEW ai, ai = LoadTorrentAnnounceInfo(b), r.t.info # NoRaw
  PROVE  ai.ok /\ ai.t.announce = r.t.announce /\ ai.t.list = r.t.list /\ ai.t.info = r.t.info
<1>1. PICK p : p = Announce(b) OBVIOUS
<1>2. p # Error BY <1>1, LoadTorrentIs, ObjectIs
<1>3. p = 4 /\ Announce(b) # Error BY <1>1, <1>2, AnnounceIs
<1>4. PICK k, m : k = Rank["announce"] /\ m = Rank["announce-list"] OBVIOUS
<1>5. k \in Nat /\ m \in Nat /\ p \in Nat /\ k < m /\ m < Rank["info"] BY <1>3, <1>4, KeysAre
<1>6. r = LoadFrom(b, nw, ck, p, k) BY <1>1, <1>2, <1>4, LoadTorrentIs
<1>7. PICK e : e = TryNext(b, p, "announce-list", k) OBVIOUS
<1>8. PICK al : al = (IF e.found THEN ParseAnnounceList(b, e.pos) ELSE [pos |-> e.pos, list |-> <<>>])
  OBVIOUS
<1>9. Finds(b, nw, ck, "announce-list", r, e) BY <1>3, <1>4, <1>5, <1>6, <1>7, FindsWhatIsLoaded
<1>10. PICK rest : /\ al.pos # Error /\ rest = LoadFrom(b, nw, ck, al.pos, m) /\ rest.ok
                   /\ r.t.info = rest.t.info /\ r.t.list = al.list /\ al.pos \in Nat
  <2>1. e.found \in BOOLEAN /\ e.pos \in Nat BY <1>5, <1>7, KeysAre, TryNextStops DEF Stops
  <2>2. CASE e.found
    <3>1. al = ParseAnnounceList(b, e.pos) BY <1>8, <2>2
    <3>2. PICK q, rest : /\ q # Error /\ q = SkipValue(b, e.pos)
                         /\ q = EntryEnd(b, e.pos, "announce-list", ck)
                         /\ rest = LoadFrom(b, nw, ck, q, m) /\ rest.ok
                         /\ r.t.list = ParseAnnounceList(b, e.pos).list /\ r.t.info = rest.t.info
      BY <1>4, <1>9, <2>2 DEF Finds
    <3>3. q = al.pos BY <3>1, <3>2 DEF EntryEnd
    <3>4. q \in EndsBehind(b, e.pos) BY <2>1, <3>2, SkipValueIs
    <3>5. q \in Nat BY <2>1, <3>2, <3>4, ValueInside
    <3> QED BY <3>1, <3>2, <3>3, <3>5
  <2>3. CASE ~e.found
    <3>1. al.pos = e.pos /\ al.list = <<>> BY <1>8, <2>3
    <3>2. e.pos # Error BY <1>9 DEF Finds
    <3>3. PICK rest : /\ rest = LoadFrom(b, nw, ck, e.pos, m) /\ rest.ok
                      /\ r.t.info = rest.t.info /\ r.t.list = rest.t.list
      BY <1>4, <1>9, <2>3 DEF Finds
    <3>4. LoadsRest(b, e.pos, m, rest) BY <1>3, <1>5, <2>1, <3>3, LoadsTheRest
    <3>5. rest.t.list = <<>> BY <1>4, <1>5, <3>4 DEF LoadsRest
    <3> QED BY <2>1, <3>1, <3>2, <3>3, <3>5
  <2> QED BY <2>1, <2>2, <2>3
<1>11. PICK a : a = LoadAnnounce(b) OBVIOUS
<1>12. a = [pos |-> al.pos,
            t |-> [NewObject EXCEPT !.announce = b[3].v, !.list = al.list,
                                    !.postAnnounce = Slice(b, p, e.to)]]
  BY <1>1, <1>2, <1>4, <1>7, <1>8, <1>10, <1>11 DEF LoadAnnounce
<1>13. PICK e2 : e2 = TryNext(b, a.pos, "info", m) OBVIOUS
<1>14. Finds(b, nw, ck, "info", rest, e2)
  <2>1. e2 = TryNext(b, al.pos, "info", m) BY <1>12, <1>13
  <2>2. m < Rank["info"] /\ m \in Nat BY <1>5
  <2> QED BY <1>3, <1>10, <2>1, <2>2, FindsWhatIsLoaded
<1>15. e2.found \in BOOLEAN /\ e2.pos \in Nat /\ e2.to \in Nat
  <2>1. a.pos \in Nat BY <1>10, <1>12
  <2> QED BY <1>5, <1>13, <2>1, KeysAre, TryNextStops DEF Stops
<1>16. e2.found
  <2> SUFFICES ASSUME ~e2.found PROVE FALSE
    BY <1>15
  <2>1. PICK last : last = LoadFrom(b, nw, ck, e2.pos, Rank["info"]) /\ last.ok /\ rest.t.info = last.t.info
    BY <1>14 DEF Finds
  <2>2. PICK n : n = Rank["info"] /\ n \in Nat BY KeysAre
  <2>3. LoadsRest(b, e2.pos, n, last) BY <1>3, <1>15, <2>1, <2>2, LoadsTheRest
  <2>4. last.t.info = NoRaw BY <2>2, <2>3 DEF LoadsRest
  <2> QED BY <1>10, <2>1, <2>4
<1>17. PICK q, last : /\ q # Error /\ q = SkipValue(b, e2.pos)
                      /\ last = LoadFrom(b, nw, ck, q, Rank["info"]) /\ last.ok
                      /\ rest.t.info = Slice(b, e2.pos, q)
  BY <1>14, <1>16 DEF Finds
<1>18. PICK end1 : end1 = SkipEntries(b, q, Rank["info"]) OBVIOUS
<1>19. end1 # Error
  <2>1. PICK n : n = Rank["info"] /\ n \in Nat BY KeysAre
  <2>2. q \in EndsBehind(b, e2.pos) BY <1>15, <1>17, SkipValueIs
  <2>3. q \in Nat BY <1>15, <1>17, <2>2, ValueInside
  <2>4. LoadsRest(b, q, n, last) BY <1>3, <1>17, <2>1, <2>3, LoadsTheRest
  <2>5. end1 = Len(b) + 1 BY <1>18, <2>1, <2>4 DEF LoadsRest
  <2> QED BY <2>5 DEF Error
<1>20. LoadInfo(b, a) = Loaded([a.t EXCEPT !.postList = Slice(b, a.pos, e2.to),
                                           !.info = Slice(b, e2.pos, q),
                                           !.postInfo = Slice(b, q, end1)])
  <2>1. e2 = TryNext(b, a.pos, "info", Rank["announce-list"]) BY <1>4, <1>13
  <2> QED BY <1>16, <1>17, <1>18, <1>19, <2>1 DEF LoadInfo
<1>21. ai.ok /\ ai.t = [a.t EXCEPT !.postList = Slice(b, a.pos, e2.to),
                                   !.info = Slice(b, e2.pos, q),
                                   !.postInfo = Slice(b, q, end1)]
  BY <1>11, <1>20 DEF LoadTorrentAnnounceInfo, Loaded
<1>22. a.t.announce = b[3].v /\ a.t.list = al.list /\ DOMAIN a.t = DOMAIN NewObject BY <1>12 DEF NewObject
<1>23. ai.t.announce = b[3].v /\ ai.t.list = al.list /\ ai.t.info = Slice(b, e2.pos, q)
  <2>1. a.t \in Objects BY <1>11, AnnounceLoaded
  <2> QED BY <1>21, <1>22, <2>1 DEF Objects
<1>24. r.t.announce = b[3].v
  <2>1. LoadsRest(b, p, k, r) BY <1>3, <1>5, <1>6, LoadsTheRest
  <2> QED BY <2>1 DEF LoadsRest
<1> QED BY <1>10, <1>17, <1>21, <1>23, <1>24

(***************************************************************************)
(* What TorrentAnnounceInfo accepts TorrentAnnounce accepts with the same  *)
(* urls; what they load is an object.                                      *)
(***************************************************************************)
LEMMA AnnouncesAgree ==
  ASSUME NEW b \in Seq(Token), NEW ai, ai = LoadTorrentAnnounceInfo(b),
         NEW an, an = LoadTorrentAnnounce(b)
  PROVE  /\ ai \in Results /\ an \in Results
         /\ ai.ok => an.ok /\ an.t.announce = ai.t.announce /\ an.t.list = ai.t.list
<1>1. PICK a : a = LoadAnnounce(b) OBVIOUS
<1>2. a.pos \in Nat /\ a.pos <= Len(b) + 1 /\ a.t \in Objects BY <1>1, AnnounceLoaded
<1>3. Len(b) \in Nat /\ Len(b) + 1 \in Nat BY TokenIs
<1>4. an \in Results /\ (a.pos # Error => an.ok /\ an.t.announce = a.t.announce /\ an.t.list = a.t.list)
  <2>1. CASE a.pos = Error BY <1>1, <2>1, ObjectIs DEF LoadTorrentAnnounce
  <2>2. CASE a.pos # Error
    <3>1. a.pos \in 1..(Len(b) + 1) /\ Len(b) + 1 \in a.pos..(Len(b) + 1) BY <1>2, <1>3, <2>2 DEF Error
    <3>2. PICK raw : raw = Slice(b, a.pos, Len(b) + 1) OBVIOUS
    <3>3. raw \in Seq(Token) BY <3>1, <3>2, SliceIs DEF IsSlice
    <3>4. PICK o : o = [a.t EXCEPT !.postList = raw] OBVIOUS
    <3>5. o \in Objects /\ o.announce = a.t.announce /\ o.list = a.t.list BY <1>2, <3>3, <3>4 DEF Objects
    <3>6. an = Loaded(o) BY <1>1, <2>2, <3>2, <3>4 DEF LoadTorrentAnnounce
    <3> QED BY <3>5, <3>6, ObjectIs
  <2> QED BY <2>1, <2>2
<1>5. PICK m, n : m = Rank["announce-list"] /\ n = Rank["info"] OBVIOUS
<1>6. m \in Nat /\ n \in Nat /\ "info" \in Str BY <1>5, KeysAre
<1>7. PICK e : e = TryNext(b, a.pos, "info", m) OBVIOUS
<1>8. e.found \in BOOLEAN /\ e.pos \in Nat /\ e.to \in Nat BY <1>2, <1>6, <1>7, TryNextStops DEF Stops
<1>9. e.found => e.to >= a.pos /\ e.pos = e.to + 1 /\ At(b, e.to, "s") BY <1>2, <1>6, <1>7, TryNextStops DEF Stops
<1>10. PICK q, end1 : q = SkipValue(b, e.pos) /\ end1 = SkipEntries(b, q, n) OBVIOUS
<1>11. ai = IF ~e.found \/ q = Error \/ end1 = Error THEN Failed
            ELSE Loaded([a.t EXCEPT !.postList = Slice(b, a.pos, e.to),
                                    !.info = Slice(b, e.pos, q),
                                    !.postInfo = Slice(b, q, end1)])
  <2>1. LoadInfo(b, a) =
          IF ~e.found \/ q = Error \/ end1 = Error THEN Failed
          ELSE Loaded([a.t EXCEPT !.postList = Slice(b, a.pos, e.to),
                                  !.info = Slice(b, e.pos, q),
                                  !.postInfo = Slice(b, q, end1)])
    BY <1>5, <1>7, <1>10 DEF LoadInfo
  <2> QED BY <1>1, <2>1 DEF LoadTorrentAnnounceInfo
<1>12. CASE ~e.found \/ q = Error \/ end1 = Error BY <1>4, <1>11, <1>12, ObjectIs
<1>13. CASE e.found /\ q # Error /\ end1 # Error
  <2>1. a.pos # Error
    <3> SUFFICES ASSUME a.pos = Error PROVE FALSE
      OBVIOUS
    <3>1. ~At(b, a.pos, "e") /\ ~NextKey(b, a.pos, m)
      <4>1. ~At(b, a.pos, "e") /\ ~At(b, a.pos, "s") BY DEF At, Error
      <4> QED BY <4>1, TokenIs
    <3>2. e = [found |-> FALSE, pos |-> Error, to |-> a.pos]
      BY <1>2, <1>6, <1>7, <3>1, TryNextIs
    <3> QED BY <1>13, <3>2
  <2>2. e.to \in 1..Len(b) BY <1>9, <1>13, TokenIs
  <2>3. q \in EndsBehind(b, e.pos) BY <1>8, <1>10, SkipValueIs
  <2>4. q \in Nat /\ q > e.pos /\ q <= Len(b) + 1 BY <1>8, <1>13, <2>3, ValueInside
  <2>5. end1 \in EndsBehind(b, q) BY <1>6, <1>10, <2>4, SkipEntriesIs
  <2>6. end1 \in Nat /\ end1 > q /\ end1 <= Len(b) + 1 BY <1>13, <2>4, <2>5, ValueInside
  <2>7. a.pos \in 1..(Len(b) + 1) /\ e.to \in a.pos..(Len(b) + 1)
    BY <1>2, <1>3, <1>8, <1>9, <1>13, <2>1, <2>2 DEF Error
  <2>8. e.pos \in 1..(Len(b) + 1) /\ q \in e.pos..(Len(b) + 1)
    BY <1>3, <1>8, <1>9, <1>13, <2>2, <2>4
  <2>9. q \in 1..(Len(b) + 1) /\ end1 \in q..(Len(b) + 1) BY <1>3, <1>8, <2>4, <2>6
  <2>10. PICK x, y, z : x = Slice(b, a.pos, e.to) /\ y = Slice(b, e.pos, q) /\ z = Slice(b, q, end1)
    OBVIOUS
  <2>11. x \in Seq(Token) /\ y \in Seq(Token) /\ z \in Seq(Token) BY <2>7, <2>8, <2>9, <2>10, SliceIs DEF IsSlice
  <2>12. PICK o : o = [a.t EXCEPT !.postList = x, !.info = y, !.postInfo = z] OBVIOUS
  <2>13. o \in Objects /\ o.announce = a.t.announce /\ o.list = a.t.list
    BY <1>2, <2>11, <2>12 DEF Objects
  <2>14. ai = Loaded(o) BY <1>11, <1>13, <2>10, <2>12
  <2> QED BY <1>4, <2>1, <2>13, <2>14, ObjectIs
<1> QED BY <1>8, <1>12, <1>13

-----------------------------------------------------------------------------
(***************************************************************************)
(* writerawkeys: the recursive function exists.                            *)
(***************************************************************************)
FirstKey(keys) == CHOOSE key \in keys : \A k \in keys : Rank[key] <= Rank[k]

RawBody(parts, keys, f) ==
  IF keys = {} THEN <<>> ELSE parts[FirstKey(keys)] \o f[keys \ {FirstKey(keys)}]

IsRaw(f, parts) == f = [keys \in SUBSET DOMAIN parts |-> RawBody(parts, keys, f)]

\* What is written for a set of keys.
RawOf(parts, keys) == (CHOOSE f : IsRaw(f, parts))[keys]

\* A set of keys has a first one.
LEMMA FirstKeyIs ==
  ASSUME NEW keys \in SUBSET Str, keys # {}
  PROVE  FirstKey(keys) \in keys /\ \A k \in keys : Rank[FirstKey(keys)] <= Rank[k]
<1>1. \A k \in keys : Rank[k] \in Nat BY BencodeAssumption
<1> DEFINE ranks == {Rank[k] : k \in keys}
<1>2. ranks \in SUBSET Nat /\ ranks # {} BY <1>1
<1>3. \E n \in ranks : \A m \in ranks : n <= m
  <2> HIDE DEF ranks
  <2> QED BY <1>2, LeastExists
<1>4. \E key \in keys : \A k \in keys : Rank[key] <= Rank[k] BY <1>3
<1> QED BY <1>4 DEF FirstKey

\* It takes one key less with each call.
LEMMA RawExists ==
  ASSUME NEW K \in SUBSET Str, IsFiniteSet(K), NEW parts \in [K -> Seq(Token)]
  PROVE  \E f \in [SUBSET K -> Seq(Token)] : IsRaw(f, parts)
<1> DEFINE A == SUBSET K
           R == Seq(Token)
           m == [keys \in A |-> Cardinality(keys)]
           B == [z \in A \X [A -> R] |-> RawBody(parts, z[1], z[2])]
<1>1. m \in [A -> Nat]
  <2>1. \A keys \in A : Cardinality(keys) \in Nat BY FS_Subset, FS_CardinalityType
  <2> QED BY <2>1
<1>2. R # {} BY EmptySeq
<1>3. ASSUME NEW keys \in A, keys # {}
      PROVE  /\ FirstKey(keys) \in K /\ keys \ {FirstKey(keys)} \in A
             /\ Cardinality(keys \ {FirstKey(keys)}) < Cardinality(keys)
  <2>1. FirstKey(keys) \in keys BY <1>3, FirstKeyIs
  <2>2. IsFiniteSet(keys) BY FS_Subset
  <2>3. Cardinality(keys \ {FirstKey(keys)}) = Cardinality(keys) - 1 BY <2>1, <2>2, FS_RemoveElement
  <2>4. Cardinality(keys) \in Nat BY <2>2, FS_CardinalityType
  <2> QED BY <2>1, <2>3, <2>4
<1>4. B \in [A \X [A -> R] -> R]
  <2> SUFFICES ASSUME NEW keys \in A, NEW f \in [A -> R] PROVE RawBody(parts, keys, f) \in R
    OBVIOUS
  <2>1. CASE keys = {} BY <2>1, EmptySeq DEF RawBody
  <2>2. CASE keys # {}
    <3>1. PICK x, y : x = parts[FirstKey(keys)] /\ y = f[keys \ {FirstKey(keys)}] OBVIOUS
    <3>2. x \in Seq(Token) /\ y \in Seq(Token) BY <1>3, <2>2, <3>1
    <3>3. x \o y \in Seq(Token) BY <3>2, ConcatProperties
    <3> QED BY <2>2, <3>1, <3>3 DEF RawBody
  <2> QED BY <2>1, <2>2
<1>5. \A keys \in A, f \in [A -> R] : B[<<keys, f>>] = RawBody(parts, keys, f) OBVIOUS
<1>6. \A keys \in A : m[keys] = Cardinality(keys) OBVIOUS
<1>7. LooksBack(A, R, m, B)
  <2> HIDE DEF B, m, R
  <2> SUFFICES ASSUME NEW keys \in A, NEW f \in [A -> R], NEW g \in [A -> R],
                      \A y \in A : m[y] < m[keys] => f[y] = g[y]
               PROVE  B[<<keys, f>>] = B[<<keys, g>>]
    BY DEF LooksBack
  <2>1. keys # {} => f[keys \ {FirstKey(keys)}] = g[keys \ {FirstKey(keys)}] BY <1>3, <1>6
  <2>2. RawBody(parts, keys, f) = RawBody(parts, keys, g) BY <2>1 DEF RawBody
  <2> QED BY <1>5, <2>2
<1>8. \E f \in [A -> R] : \A x \in A : f[x] = B[<<x, f>>]
  <2> HIDE DEF B, m, R, A
  <2>1. PICK b, n, d, r : b = B /\ n = m /\ d = A /\ r = R OBVIOUS
  <2>2. Defines(A, R, m, B) BY <1>1, <1>2, <1>4, <1>7, Zenon DEF Defines
  <2>3. Defines(d, r, n, b) BY <2>1, <2>2, Zenon
  <2>4. Solvable(d, r, b) BY <2>3, SolutionExists
  <2> QED BY <2>1, <2>4, Zenon DEF Solvable
<1>9. PICK f \in [A -> R] : \A x \in A : f[x] = B[<<x, f>>] BY <1>8
<1>10. \A keys \in A : f[keys] = RawBody(parts, keys, f) BY <1>5, <1>9
<1>11. DOMAIN parts = K OBVIOUS
<1>12. f = [keys \in SUBSET DOMAIN parts |-> RawBody(parts, keys, f)] BY <1>9, <1>10, <1>11
<1> QED BY <1>12 DEF IsRaw

\* The kept and new entries with some of the keys, the first one first.
LEMMA RawOfIs ==
  ASSUME NEW parts \in Metas, NEW keys \in SUBSET DOMAIN parts
  PROVE  RawOf(parts, keys) = IF keys = {} THEN <<>>
                              ELSE parts[FirstKey(keys)] \o RawOf(parts, keys \ {FirstKey(keys)})
<1>1. PICK K \in SUBSET Str : IsFiniteSet(K) /\ parts \in [K -> Seq(Token)] BY DEF Metas
<1> DEFINE raw == CHOOSE f : IsRaw(f, parts)
<1>2. IsRaw(raw, parts) BY <1>1, RawExists
<1>3. \A k : RawOf(parts, k) = raw[k] BY DEF RawOf
<1> HIDE DEF raw
<1>4. raw[keys] = RawBody(parts, keys, raw) BY <1>2 DEF IsRaw
<1> QED BY <1>3, <1>4 DEF RawBody

\* They are tokens.
LEMMA RawOfType ==
  ASSUME NEW parts \in Metas, NEW keys \in SUBSET DOMAIN parts
  PROVE  RawOf(parts, keys) \in Seq(Token)
<1>1. PICK K \in SUBSET Str : IsFiniteSet(K) /\ parts \in [K -> Seq(Token)] BY DEF Metas
<1>2. DOMAIN parts = K BY <1>1
<1> DEFINE T == {n \in Nat : \A k \in SUBSET K : Cardinality(k) = n => RawOf(parts, k) \in Seq(Token)}
<1>3. ASSUME NEW n \in Nat, \A i \in 0..(n - 1) : i \in T PROVE n \in T
  <2> SUFFICES ASSUME NEW k \in SUBSET K, Cardinality(k) = n PROVE RawOf(parts, k) \in Seq(Token)
    OBVIOUS
  <2>1. CASE k = {}
    <3>1. RawOf(parts, k) = <<>> BY <1>2, <2>1, RawOfIs
    <3> QED BY <3>1, EmptySeq
  <2>2. CASE k # {}
    <3>1. FirstKey(k) \in k BY <2>2, FirstKeyIs
    <3>2. PICK j : j = k \ {FirstKey(k)} OBVIOUS
    <3>3. IsFiniteSet(k) BY <1>1, FS_Subset
    <3>4. Cardinality(j) = n - 1 /\ Cardinality(j) \in Nat
      <4>1. Cardinality(j) = Cardinality(k) - 1 BY <3>1, <3>2, <3>3, FS_RemoveElement
      <4>2. IsFiniteSet(j) BY <3>2, <3>3, FS_Subset
      <4> QED BY <4>1, <4>2, FS_CardinalityType
    <3>5. j \in SUBSET K /\ n - 1 \in 0..(n - 1) BY <3>2, <3>4
    <3>6. RawOf(parts, j) \in Seq(Token) BY <1>3, <3>4, <3>5
    <3>7. parts[FirstKey(k)] \in Seq(Token) BY <1>1, <3>1
    <3>8. RawOf(parts, k) = parts[FirstKey(k)] \o RawOf(parts, j) BY <1>2, <2>2, <3>2, RawOfIs
    <3>9. PICK x, y : x = parts[FirstKey(k)] /\ y = RawOf(parts, j) OBVIOUS
    <3>10. x \o y \in Seq(Token) BY <3>6, <3>7, <3>9, ConcatProperties
    <3> QED BY <3>8, <3>9, <3>10
  <2> QED BY <2>1, <2>2
<1>4. T = Nat
  <2>1. T \in SUBSET Nat OBVIOUS
  <2> HIDE DEF T
  <2> QED BY <1>3, <2>1, StrongInduction
<1>5. Cardinality(keys) \in T
  <2>1. IsFiniteSet(keys) BY <1>1, <1>2, FS_Subset
  <2> QED BY <1>4, <2>1, FS_CardinalityType
<1> QED BY <1>2, <1>5

\* writerawkeys and writerawkey write tokens.
LEMMA RawKeysType ==
  ASSUME NEW parts \in Metas
  PROVE  /\ \A prev, next : RawKeys(parts, prev, next) \in Seq(Token)
         /\ \A key : RawKey(parts, key) \in Seq(Token)
<1>1. ASSUME NEW prev, NEW next PROVE RawKeys(parts, prev, next) \in Seq(Token)
  <2>1. PICK keys : keys = {key \in DOMAIN parts :
                              Rank[prev] < Rank[key] /\ (next = "" \/ Rank[key] < Rank[next])}
    OBVIOUS
  <2>2. RawKeys(parts, prev, next) = RawOf(parts, keys)
    BY <2>1 DEF RawKeys, RawOf, IsRaw, RawBody, FirstKey
  <2>3. keys \in SUBSET DOMAIN parts BY <2>1
  <2> QED BY <2>2, <2>3, RawOfType
<1>2. ASSUME NEW key PROVE RawKey(parts, key) \in Seq(Token)
  <2>1. PICK K \in SUBSET Str : parts \in [K -> Seq(Token)] BY DEF Metas
  <2> QED BY <2>1, EmptySeq DEF RawKey
<1> QED BY <1>1, <1>2

\* What is put together from tokens.
LEMMA TokensAre ==
  /\ \A x, y \in Seq(Token) : x \o y \in Seq(Token)
  /\ D \in Token /\ L \in Token /\ E \in Token /\ \A s \in Str : S(s) \in Token
  /\ \A x \in Token : <<x>> \in Seq(Token)
  /\ \A x, y, z \in Token : <<x, y>> \in Seq(Token) /\ <<x, y, z>> \in Seq(Token)
<1>1. \A x, y \in Seq(Token) : x \o y \in Seq(Token) BY ConcatProperties
<1>2. D \in Token /\ L \in Token /\ E \in Token BY DEF Token
<1>3. \A s \in Str : S(s) \in Token BY DEF S, Token
<1> QED BY <1>1, <1>2, <1>3

\* TorrentOStream: the announce-list.
LEMMA ListOfType ==
  ASSUME NEW list \in Seq(Seq(Utf8))
  PROVE  ListOf(list) \in Seq(Token)
<1> DEFINE group(g) == <<L>> \o Strings(list[g]) \o <<E>>
           groups == [g \in 1..Len(list) |-> group(g)]
<1>1. <<L>> \in Seq(Token) /\ <<E>> \in Seq(Token) BY TokensAre
<1>2. ASSUME NEW g \in 1..Len(list) PROVE group(g) \in Seq(Token)
  <2>1. PICK s : s = list[g] OBVIOUS
  <2>2. s \in Seq(Utf8) BY <2>1
  <2>3. \A n \in 1..Len(s) : s[n] \in Str BY <2>2, BencodeAssumption
  <2>4. Len(s) \in Nat /\ \A n \in 1..Len(s) : S(s[n]) \in Token BY <2>2, <2>3, TokensAre
  <2>5. PICK x : x = Strings(s) OBVIOUS
  <2>6. x \in [1..Len(s) -> Token] BY <2>4, <2>5 DEF Strings
  <2>7. x \in Seq(Token)
    <3>1. PICK n, T : n = Len(s) /\ T = Token OBVIOUS
    <3>2. n \in Nat /\ x \in [1..n -> T] BY <2>4, <2>6, <3>1
    <3>3. x \in Seq(T) BY ONLY <3>2
    <3> QED BY <3>1, <3>3
  <2>8. PICK y, z : y = <<L>> /\ z = <<E>> OBVIOUS
  <2>9. y \o x \in Seq(Token) BY <1>1, <2>7, <2>8, TokensAre
  <2>10. (y \o x) \o z \in Seq(Token) BY <1>1, <2>8, <2>9, TokensAre
  <2> QED BY <2>1, <2>5, <2>8, <2>10
<1>3. ListOf(list) = <<L>> \o FlattenSeq(groups) \o <<E>> BY DEF ListOf
<1>4. groups \in Seq(Seq(Token))
  <2>1. Len(list) \in Nat OBVIOUS
  <2>2. groups \in [1..Len(list) -> Seq(Token)] BY <1>2
  <2> HIDE DEF groups
  <2>3. PICK T, n : T = Seq(Token) /\ n = Len(list) OBVIOUS
  <2>4. n \in Nat /\ groups \in [1..n -> T] BY <2>1, <2>2, <2>3
  <2>5. groups \in Seq(T) BY <2>4
  <2> QED BY <2>3, <2>5
<1> HIDE DEF groups
<1>5. PICK x, y, z : x = <<L>> /\ y = FlattenSeq(groups) /\ z = <<E>> OBVIOUS
<1>6. y \in Seq(Token) BY <1>4, <1>5, FlattenType
<1>7. x \o y \in Seq(Token) BY <1>1, <1>5, <1>6, TokensAre
<1>8. (x \o y) \o z \in Seq(Token) BY <1>1, <1>5, <1>7, TokensAre
<1> QED BY <1>3, <1>5, <1>8

\* The entry announce-list, or nothing.
LEMMA ListEntryType ==
  ASSUME NEW o \in Objects
  PROVE  AnnounceListEntry(o) \in Seq(Token)
<1>1. o.list \in Seq(Seq(Utf8)) BY DEF Objects
<1>2. PICK x, y : x = <<S("announce-list")>> /\ y = ListOf(o.list) OBVIOUS
<1>3. x \in Seq(Token) /\ y \in Seq(Token) BY <1>1, <1>2, ListOfType, KeysAre, TokensAre
<1>4. x \o y \in Seq(Token) BY <1>3, TokensAre
<1> QED BY <1>2, <1>4, EmptySeq DEF AnnounceListEntry

(***************************************************************************)
(* Whatever is written is a sequence of tokens.                            *)
(***************************************************************************)
LEMMA WriteType ==
  ASSUME NEW o \in Objects, NEW cl \in Classes
  PROVE  WriteAs(cl, o) \in Seq(Token)
<1>1. /\ o.announce \in Str /\ o.parts \in Metas /\ o.info \in Seq(Token)
      /\ o.postAnnounce \in Seq(Token) /\ o.postList \in Seq(Token) /\ o.postInfo \in Seq(Token)
  BY BencodeAssumption DEF Objects
<1>2. PICK h : h = <<D, S("announce"), S(o.announce)>> OBVIOUS
<1>3. h \in Seq(Token)
  <2>1. PICK x, y : x = S("announce") /\ y = S(o.announce) OBVIOUS
  <2>2. x \in Token /\ y \in Token BY <1>1, <2>1, KeysAre, TokensAre
  <2> QED BY <1>2, <2>1, <2>2, TokensAre
<1>4. PICK al : al = AnnounceListEntry(o) OBVIOUS
<1>5. al \in Seq(Token) BY <1>4, ListEntryType
<1>6. PICK k : k = <<S("info")>> OBVIOUS
<1>7. k \in Seq(Token) BY <1>6, KeysAre, TokensAre
<1>8. \A x, y \in Seq(Token) : x \o y \in Seq(Token) BY TokensAre
<1>9. PICK pa, pl, pi, info : pa = o.postAnnounce /\ pl = o.postList /\ pi = o.postInfo /\ info = o.info
  OBVIOUS
<1>10. pa \in Seq(Token) /\ pl \in Seq(Token) /\ pi \in Seq(Token) /\ info \in Seq(Token) BY <1>1, <1>9
<1>11. h \o pa \o al \o pl \in Seq(Token)
  <2>1. h \o pa \in Seq(Token) BY <1>3, <1>8, <1>10
  <2>2. (h \o pa) \o al \in Seq(Token) BY <1>5, <1>8, <2>1
  <2> QED BY <1>8, <1>10, <2>2
<1>12. h \o pa \o al \o pl \o k \o info \o pi \in Seq(Token)
  <2>1. PICK x : x = h \o pa \o al \o pl OBVIOUS
  <2>2. x \o k \in Seq(Token) BY <1>7, <1>8, <1>11, <2>1
  <2>3. (x \o k) \o info \in Seq(Token) BY <1>8, <1>10, <2>2
  <2>4. ((x \o k) \o info) \o pi \in Seq(Token) BY <1>8, <1>10, <2>3
  <2> QED BY <2>1, <2>4
<1>13. WriteTorrentAnnounce(o) \in Seq(Token) BY <1>2, <1>4, <1>9, <1>11 DEF WriteTorrentAnnounce
<1>14. WriteTorrentAnnounceInfo(o) \in Seq(Token)
  BY <1>2, <1>4, <1>6, <1>9, <1>12 DEF WriteTorrentAnnounceInfo
<1>15. WriteTorrent(o) \in Seq(Token)
  <2>1. PICK r1, r2, r3, r4, r5 : /\ r1 = RawKeys(o.parts, "announce", "announce-list")
                                  /\ r2 = RawKeys(o.parts, "announce-list", "encoding")
                                  /\ r3 = RawKeys(o.parts, "encoding", "info")
                                  /\ r4 = RawKeys(o.parts, "announce-list", "info")
                                  /\ r5 = RawKeys(o.parts, "info", "")
    OBVIOUS
  <2>2. r1 \in Seq(Token) /\ r2 \in Seq(Token) /\ r3 \in Seq(Token) /\ r4 \in Seq(Token) /\ r5 \in Seq(Token)
    BY <1>1, <2>1, RawKeysType
  <2>3. PICK c, ee, en : /\ c = (IF o.list # <<>> THEN al ELSE RawKey(o.parts, "announce-list"))
                         /\ ee = <<S("encoding"), S("encoding")>>
                         /\ en = (IF o.encoding # "" THEN r2 \o ee \o r3 ELSE r4)
    OBVIOUS
  <2>4. c \in Seq(Token) BY <1>1, <1>5, <2>3, RawKeysType
  <2>5. ee \in Seq(Token)
    <3>1. PICK x : x = S("encoding") OBVIOUS
    <3>2. x \in Token BY <3>1, KeysAre, TokensAre
    <3> QED BY <2>3, <3>1, <3>2, TokensAre
  <2>6. en \in Seq(Token)
    <3>1. r2 \o ee \in Seq(Token) BY <1>8, <2>2, <2>5
    <3>2. (r2 \o ee) \o r3 \in Seq(Token) BY <1>8, <2>2, <3>1
    <3> QED BY <2>2, <2>3, <3>2
  <2>7. PICK e : e = <<E>> OBVIOUS
  <2>8. e \in Seq(Token) BY <2>7, TokensAre
  <2>9. WriteTorrent(o) = h \o r1 \o c \o en \o k \o info \o r5 \o e
    BY <1>2, <1>4, <1>6, <1>9, <2>1, <2>3, <2>7 DEF WriteTorrent
  <2>10. h \o r1 \in Seq(Token) BY <1>3, <1>8, <2>2
  <2>11. (h \o r1) \o c \in Seq(Token) BY <1>8, <2>4, <2>10
  <2>12. ((h \o r1) \o c) \o en \in Seq(Token) BY <1>8, <2>6, <2>11
  <2>13. PICK x : x = h \o r1 \o c \o en OBVIOUS
  <2>14. x \o k \in Seq(Token) BY <1>7, <1>8, <2>12, <2>13
  <2>15. (x \o k) \o info \in Seq(Token) BY <1>8, <1>10, <2>14
  <2>16. ((x \o k) \o info) \o r5 \in Seq(Token) BY <1>8, <2>2, <2>15
  <2>17. (((x \o k) \o info) \o r5) \o e \in Seq(Token) BY <1>8, <2>8, <2>16
  <2> QED BY <2>9, <2>13, <2>17
<1> QED BY <1>13, <1>14, <1>15 DEF WriteAs, Classes

-----------------------------------------------------------------------------
\* What the loop of Torrent::load returns.
LEMMA LoadFromType ==
  ASSUME NEW b \in Seq(Token), NEW nw \in Metas, NEW ck, Announce(b) # Error,
         NEW p \in Nat, NEW prev \in Nat, NEW r, r = LoadFrom(b, nw, ck, p, prev)
  PROVE  r \in Results
<1>1. PICK q : q = EntryEnd(b, p + 1, b[p].v, ck) OBVIOUS
<1>2. PICK rest, k : k = Rank[b[p].v] /\ rest = LoadFrom(b, nw, ck, q, k) OBVIOUS
<1>3. PICK o : o = [NewObject EXCEPT !.announce = b[3].v, !.parts = nw] OBVIOUS
<1>4. o \in Objects BY <1>3, AnnounceIs, ObjectIs DEF Objects
<1>5. r = LoadTurn(b, nw, p, prev, q, rest) BY <1>1, <1>2, LoadIs
<1>6. \/ r = Failed \/ r = Loaded(o)
      \/ NextKey(b, p, prev) /\ q # Error /\ r = Before(rest, b, p, q, nw)
  BY <1>3, <1>5 DEF LoadTurn
<1>7. CASE r = Failed \/ r = Loaded(o) BY <1>4, <1>7, ObjectIs
<1>8. CASE NextKey(b, p, prev) /\ q # Error /\ r = Before(rest, b, p, q, nw) /\ rest.ok
  <2>1. PICK pl : pl = PlaceAt(p, prev) OBVIOUS
  <2>2. pl \in Places /\ pl.p = p /\ pl.prev = prev BY <2>1 DEF PlaceAt, Places
  <2>3. q \in Nat /\ k \in Nat BY <1>1, <1>2, <1>8, <2>2, EntryBehind
  <2>4. rest.t \in Objects BY <1>2, <1>8, <2>3, LoadsTheRest DEF LoadsRest
  <2>5. ReadsEntry(b, p, prev, ck, q) BY <1>1, <1>8 DEF ReadsEntry
  <2>6. PICK x : x = WithEntry(rest.t, b, p, q, nw) OBVIOUS
  <2>7. x \in Objects BY <2>4, <2>5, <2>6, WithEntryIs
  <2>8. r = Loaded(x) BY <1>8, <2>6 DEF Before
  <2> QED BY <2>7, <2>8, ObjectIs
<1>9. CASE r = Before(rest, b, p, q, nw) /\ ~rest.ok
  <2>1. r = Failed BY <1>9 DEF Before
  <2> QED BY <2>1, ObjectIs
<1> QED BY <1>7, <1>8, <1>9, <1>6

(***************************************************************************)
(* A load of any class ends with an object.                                *)
(***************************************************************************)
LEMMA LoadType ==
  ASSUME NEW b \in Seq(Token), NEW nw \in NewMetas, NEW ck, NEW cl \in Classes
  PROVE  LoadAs(cl, b, nw, ck) \in Results
<1>1. nw \in Metas BY MetaIs
<1>2. LoadTorrent(b, nw, ck) \in Results
  <2>1. PICK p, k : p = Announce(b) /\ k = Rank["announce"] OBVIOUS
  <2>2. k \in Nat BY <2>1, KeysAre
  <2>3. CASE p = Error BY <2>1, <2>3, LoadTorrentIs, ObjectIs
  <2>4. CASE p # Error
    <3>1. PICK r : r = LoadTorrent(b, nw, ck) OBVIOUS
    <3>2. p = 4 /\ Announce(b) # Error BY <2>1, <2>4, AnnounceIs
    <3>3. r = LoadFrom(b, nw, ck, p, k) BY <2>1, <2>4, <3>1, LoadTorrentIs
    <3>4. p \in Nat BY <3>2
    <3>5. r \in Results BY <1>1, <2>2, <3>2, <3>3, <3>4, LoadFromType
    <3> QED BY <3>1, <3>5
  <2> QED BY <2>3, <2>4
<1>3. LoadTorrentAnnounce(b) \in Results /\ LoadTorrentAnnounceInfo(b) \in Results BY AnnouncesAgree
<1> QED BY <1>2, <1>3 DEF LoadAs, Classes

-----------------------------------------------------------------------------
(***************************************************************************)
(* A value lies in the file behind what comes before it, and it is read    *)
(* alone as it is in the file.                                             *)
(***************************************************************************)
LEMMA ValueRead ==
  ASSUME NEW b \in Seq(Token), NEW p \in Nat, p # 0, NEW q, q = SkipValue(b, p), q # Error,
         NEW s, s = Slice(b, p, q)
  PROVE  /\ s \in Seq(Token)
         /\ (ReadUtf8(s, 1) = Error) <=> (ReadUtf8(b, p) = Error)
         /\ (ParseAnnounceList(s, 1).pos = Error) <=> (ParseAnnounceList(b, p).pos = Error)
         /\ \A v : (ParseInfo(s, 1, v) = Error) <=> (ParseInfo(b, p, v) = Error)
<1>1. q \in EndsBehind(b, p) BY SkipValueIs
<1>2. Len(b) \in Nat /\ q \in Nat /\ p < q /\ q <= Len(b) + 1 BY <1>1, ValueInside
<1>3. p \in 1..(Len(b) + 1) /\ q \in p..(Len(b) + 1) /\ s = Slice(b, p, q) BY <1>2
<1>4. s \in Seq(Token) /\ Len(s) = q - p /\ \A i \in 1..(q - p) : s[i] = b[p + i - 1]
  <2>1. IsSlice(s, b, p, q) BY <1>3, SliceIs
  <2> QED BY <2>1 DEF IsSlice
<1>5. PICK d : d = p - 1 OBVIOUS
<1>6. d \in Nat /\ 1 + d = p BY <1>5
<1>7. LiesIn(s, b, d)
  <2>1. \A i \in 1..Len(s) : s[i] = b[i + d]
    <3> SUFFICES ASSUME NEW i \in 1..Len(s) PROVE s[i] = b[i + d]
      OBVIOUS
    <3>1. i \in 1..(q - p) /\ p + i - 1 = i + d BY <1>2, <1>4, <1>5
    <3> QED BY <1>4, <3>1
  <2>2. Len(s) + d <= Len(b) BY <1>2, <1>4, <1>5
  <2> QED BY <1>6, <2>1, <2>2 DEF LiesIn
<1>8. 1 \in 1..Len(s) /\ 1 \in Nat /\ 1 # 0 BY <1>2, <1>4
<1>9. \A y : y \in {Error, q} => (Seen(s, d, y) = Error <=> y = Error)
  <2>1. q <= Len(s) + d + 1 /\ q - d # 0 BY <1>2, <1>4, <1>5
  <2> QED BY <2>1 DEF Seen, Error
<1>10. (ReadUtf8(s, 1) = Error) <=> (ReadUtf8(b, p) = Error) BY <1>4, <1>6, <1>7, <1>8, SameTokens
<1>11. ReadUtf8(b, p) \in {Error, q} BY ReadInfoSkips
<1>12. SeesList(s, d, ParseAnnounceList(s, 1), ParseAnnounceList(b, p))
  BY <1>4, <1>6, <1>7, <1>8, AnnounceListSeen
<1>13. ParseAnnounceList(b, p).pos \in {Error, q} BY ParseAnnounceListSkips
<1>14. ASSUME NEW v PROVE (ParseInfo(s, 1, v) = Error) <=> (ParseInfo(b, p, v) = Error)
  <2>1. ParseInfo(s, 1, v) = Seen(s, d, ParseInfo(b, p, v)) BY <1>4, <1>6, <1>7, <1>8, ParseInfoSeen
  <2>2. ParseInfo(b, p, v) \in {Error, q} BY ParseInfoSkips
  <2> QED BY <1>9, <2>1, <2>2
<1> QED BY <1>4, <1>9, <1>10, <1>11, <1>12, <1>13, <1>14 DEF SeesList

-----------------------------------------------------------------------------
(***************************************************************************)
(* The entries of a dictionary: the recursive function exists.             *)
(***************************************************************************)
EntryAt(b, n) == [key |-> b[n].v, value |-> Slice(b, n + 1, SkipValue(b, n + 1))]

AnyEntry(b) == {EntryAt(b, n) : n \in Nat}

EntriesBody(b, keys, n, f) ==
  IF ~At(b, n, "s") THEN <<>>
  ELSE LET q == SkipValue(b, n + 1)
       IN (IF b[n].v \in keys THEN <<>>
           ELSE <<[key |-> b[n].v, value |-> Slice(b, n + 1, q)]>>) \o f[q]

IsEntries(f, b, keys) == f = [n \in Nat |-> EntriesBody(b, keys, n, f)]

\* By a measure that takes Error as a position with nothing behind it.
LEMMA EntriesExist ==
  ASSUME NEW b \in Seq(Token), NEW keys
  PROVE  \E f \in [Nat -> Seq(AnyEntry(b))] : IsEntries(f, b, keys)
<1>1. PICK N : N = Nat OBVIOUS
<1>2. PICK R : R = Seq(AnyEntry(b)) OBVIOUS
<1> DEFINE m == [n \in N |-> IF n = 0 THEN 0 ELSE Left(b, n)]
           B == [z \in N \X [N -> R] |-> EntriesBody(b, keys, z[1], z[2])]
<1>3. m \in [N -> Nat] BY <1>1, MeasureIs
<1>4. ASSUME NEW n \in N, At(b, n, "s")
      PROVE  /\ SkipValue(b, n + 1) \in N
             /\ (IF SkipValue(b, n + 1) = 0 THEN 0 ELSE Left(b, SkipValue(b, n + 1))) < Left(b, n)
             /\ n # 0
  <2>1. n \in 1..Len(b) /\ Len(b) \in Nat /\ n \in Nat /\ n + 1 \in Nat BY <1>1, <1>4, TokenIs
  <2>2. PICK q : q = SkipValue(b, n + 1) OBVIOUS
  <2>3. q \in EndsBehind(b, n + 1) BY <2>1, <2>2, SkipValueIs
  <2>4. q = 0 \/ (q \in Nat /\ q > n) BY <2>1, <2>3 DEF EndsBehind, Error
  <2>5. CASE q = 0
    <3>1. Left(b, n) > 0 BY <2>1 DEF Left
    <3> QED BY <1>1, <2>1, <2>2, <2>5, <3>1
  <2>6. CASE q # 0
    <3>1. Left(b, q) \in Nat /\ Left(b, n) \in Nat /\ Left(b, q) + 1 < Left(b, n)
      BY <2>1, <2>4, <2>6, MeasureIs
    <3>2. Left(b, q) < Left(b, n) BY <3>1
    <3> QED BY <1>1, <2>1, <2>2, <2>4, <2>6, <3>2
  <2> QED BY <2>5, <2>6
<1>5. ASSUME NEW n \in N, NEW f \in [N -> R] PROVE EntriesBody(b, keys, n, f) \in R
  <2>1. CASE ~At(b, n, "s")
    <3>1. EntriesBody(b, keys, n, f) = <<>> BY <2>1 DEF EntriesBody
    <3> QED BY <1>2, <3>1, EmptySeq
  <2>2. CASE At(b, n, "s")
    <3>1. PICK r, one : /\ r = f[SkipValue(b, n + 1)]
                        /\ one = IF b[n].v \in keys THEN <<>> ELSE <<EntryAt(b, n)>>
      OBVIOUS
    <3>2. r \in Seq(AnyEntry(b)) BY <1>2, <1>4, <2>2, <3>1
    <3>3. EntryAt(b, n) \in AnyEntry(b) BY <1>1 DEF AnyEntry
    <3>4. <<EntryAt(b, n)>> \in Seq(AnyEntry(b)) BY <3>3
    <3>5. one \in Seq(AnyEntry(b)) BY <3>1, <3>4, EmptySeq
    <3>6. one \o r \in Seq(AnyEntry(b)) BY <3>2, <3>5, ConcatProperties
    <3>7. EntriesBody(b, keys, n, f) = one \o r BY <2>2, <3>1 DEF EntriesBody, EntryAt
    <3> QED BY <1>2, <3>6, <3>7
  <2> QED BY <2>1, <2>2
<1>6. B \in [N \X [N -> R] -> R] BY <1>5
<1>7. \A n \in N, f \in [N -> R] : B[<<n, f>>] = EntriesBody(b, keys, n, f) OBVIOUS
<1>8. \A n \in N : m[n] = IF n = 0 THEN 0 ELSE Left(b, n) OBVIOUS
<1>9. R # {} BY <1>2, EmptySeq
<1> HIDE DEF m, B
<1>10. LooksBack(N, R, m, B)
  <2> SUFFICES ASSUME NEW n \in N, NEW f \in [N -> R], NEW g \in [N -> R],
                      \A k \in N : m[k] < m[n] => f[k] = g[k]
               PROVE  B[<<n, f>>] = B[<<n, g>>]
    BY DEF LooksBack
  <2>1. At(b, n, "s") => f[SkipValue(b, n + 1)] = g[SkipValue(b, n + 1)] BY <1>4, <1>8
  <2>2. EntriesBody(b, keys, n, f) = EntriesBody(b, keys, n, g) BY <2>1 DEF EntriesBody
  <2> QED BY <1>7, <2>2
<1>11. Defines(N, R, m, B) BY <1>3, <1>6, <1>9, <1>10 DEF Defines
<1>12. Solvable(N, R, B) BY <1>11, SolutionExists
<1>13. PICK f \in [N -> R] : \A n \in N : f[n] = B[<<n, f>>] BY <1>12 DEF Solvable
<1>14. \A n \in N : f[n] = EntriesBody(b, keys, n, f) BY <1>7, <1>13
<1>15. f = [n \in Nat |-> EntriesBody(b, keys, n, f)] BY <1>1, <1>13, <1>14
<1> QED BY <1>1, <1>2, <1>13, <1>15 DEF IsEntries

\* The set of the entries from position p on.
EntrySet(b, p) == Range(EntriesFrom(b, p))

\* The elements of a sequence with one more in front.
LEMMA RangeOfMore ==
  ASSUME NEW A, NEW x \in A, NEW r \in Seq(A)
  PROVE  Range(<<x>> \o r) = {x} \cup Range(r)
<1>1. PICK s, n : s = <<x>> \o r /\ n = Len(r) OBVIOUS
<1>2. <<x>> \in Seq(A) /\ Len(<<x>>) = 1 /\ <<x>>[1] = x OBVIOUS
<1>3. n \in Nat /\ DOMAIN r = 1..n BY <1>1
<1>4. /\ s \in Seq(A) /\ Len(s) = 1 + n /\ \A i \in 1..1 : s[i] = <<x>>[i]
      /\ \A i \in (1 + 1)..(1 + n) : s[i] = r[i - 1]
  BY <1>1, <1>2, ConcatProperties
<1>5. DOMAIN s = 1..(1 + n) BY <1>4
<1>6. s[1] = x BY <1>2, <1>4
<1>7. \A i \in 1..n : s[i + 1] = r[i] /\ i + 1 \in 1..(1 + n)
  <2> SUFFICES ASSUME NEW i \in 1..n PROVE s[i + 1] = r[i] /\ i + 1 \in 1..(1 + n)
    OBVIOUS
  <2>1. i + 1 \in (1 + 1)..(1 + n) /\ i + 1 - 1 = i BY <1>3
  <2> QED BY <1>3, <1>4, <2>1
<1>8. \A j \in 1..(1 + n) : j = 1 \/ \E i \in 1..n : j = i + 1
  <2> SUFFICES ASSUME NEW j \in 1..(1 + n), j # 1 PROVE \E i \in 1..n : j = i + 1
    OBVIOUS
  <2>1. j - 1 \in 1..n /\ j = (j - 1) + 1 BY <1>3
  <2> QED BY <2>1
<1>9. ASSUME NEW y PROVE (\E j \in 1..(1 + n) : s[j] = y) <=> (y = x \/ \E i \in 1..n : r[i] = y)
  <2>1. 1 \in 1..(1 + n) BY <1>3
  <2> QED BY <1>6, <1>7, <1>8, <2>1
<1>10. \A y : y \in Range(s) <=> \E j \in 1..(1 + n) : s[j] = y BY <1>5 DEF Range
<1>11. \A y : y \in Range(r) <=> \E i \in 1..n : r[i] = y BY <1>3 DEF Range
<1> QED BY <1>1, <1>9, <1>10, <1>11

\* The first entry, and those behind it, if some keys are left out.
LEMMA EntriesButAre ==
  ASSUME NEW b \in Seq(Token), NEW p \in Nat, NEW keys
  PROVE  /\ EntriesBut(b, p, keys) \in Seq(AnyEntry(b))
         /\ ~At(b, p, "s") => EntriesBut(b, p, keys) = <<>>
         /\ At(b, p, "s") =>
              EntriesBut(b, p, keys) = (IF b[p].v \in keys THEN <<>> ELSE <<EntryAt(b, p)>>)
                                         \o EntriesBut(b, SkipValue(b, p + 1), keys)
<1> DEFINE entries == CHOOSE f : IsEntries(f, b, keys)
<1>1. \A n : EntriesBut(b, n, keys) = entries[n] BY DEF EntriesBut, IsEntries, EntriesBody
<1>2. PICK f \in [Nat -> Seq(AnyEntry(b))] : IsEntries(f, b, keys) BY EntriesExist
<1>3. IsEntries(entries, b, keys) BY <1>2
<1> HIDE DEF entries
<1>4. \A n \in Nat : entries[n] = EntriesBody(b, keys, n, entries) BY <1>3 DEF IsEntries
<1>5. ASSUME NEW n \in Nat, At(b, n, "s")
      PROVE  EntriesBut(b, n, keys) = (IF b[n].v \in keys THEN <<>> ELSE <<EntryAt(b, n)>>)
                                         \o EntriesBut(b, SkipValue(b, n + 1), keys)
  <2>1. EntriesBut(b, n, keys) = EntriesBody(b, keys, n, entries) BY <1>1, <1>4
  <2> QED BY <1>1, <1>5, <2>1 DEF EntriesBody, EntryAt
<1>6. \A n \in Nat : ~At(b, n, "s") => EntriesBut(b, n, keys) = <<>>
  BY <1>1, <1>4 DEF EntriesBody
<1> DEFINE T == {n \in Nat : EntriesBut(b, n, keys) \in Seq(AnyEntry(b))}
<1>7. \A n \in Nat : ~At(b, n, "s") => n \in T
  <2>1. <<>> \in Seq(AnyEntry(b)) BY EmptySeq
  <2> QED BY <1>6, <2>1
<1>8. ASSUME NEW n \in Nat, \A q \in Nat : q > n /\ n <= Len(b) => q \in T PROVE n \in T
  <2>1. CASE ~At(b, n, "s") BY <1>7, <2>1
  <2>2. CASE At(b, n, "s")
    <3>1. n \in 1..Len(b) /\ Len(b) \in Nat /\ n + 1 \in Nat BY <2>2, TokenIs
    <3>2. PICK q : q = SkipValue(b, n + 1) OBVIOUS
    <3>3. q \in EndsBehind(b, n + 1) BY <3>1, <3>2, SkipValueIs
    <3>4. q = 0 \/ (q \in Nat /\ q > n) BY <3>1, <3>3 DEF EndsBehind, Error
    <3>5. 0 \in Nat /\ ~At(b, 0, "s") BY DEF At
    <3>6. q \in T
      <4>1. CASE q = 0
        <5>1. 0 \in T BY <1>7, <3>5
        <5> QED BY <4>1, <5>1
      <4>2. CASE q # 0 BY <1>8, <3>1, <3>4, <4>2
      <4> QED BY <4>1, <4>2
    <3>7. PICK r, one : /\ r = EntriesBut(b, q, keys)
                        /\ one = IF b[n].v \in keys THEN <<>> ELSE <<EntryAt(b, n)>>
      OBVIOUS
    <3>8. r \in Seq(AnyEntry(b)) BY <3>6, <3>7
    <3>9. one \in Seq(AnyEntry(b))
      <4>1. EntryAt(b, n) \in AnyEntry(b) BY DEF AnyEntry
      <4>2. <<EntryAt(b, n)>> \in Seq(AnyEntry(b)) BY <4>1
      <4> QED BY <3>7, <4>2, EmptySeq
    <3>10. one \o r \in Seq(AnyEntry(b)) BY <3>8, <3>9, ConcatProperties
    <3>11. EntriesBut(b, n, keys) = one \o r BY <1>5, <2>2, <3>2, <3>7
    <3> QED BY <3>10, <3>11
  <2> QED BY <2>1, <2>2
<1>9. T = Nat
  <2>1. T \in SUBSET Nat OBVIOUS
  <2> HIDE DEF T
  <2> QED BY <1>8, <2>1, PositionInduction
<1> QED BY <1>5, <1>6, <1>9

\* The same for all of them.
LEMMA EntriesAre ==
  ASSUME NEW b \in Seq(Token), NEW p \in Nat
  PROVE  EntrySet(b, p) = IF ~At(b, p, "s") THEN {}
                          ELSE {EntryAt(b, p)} \cup EntrySet(b, SkipValue(b, p + 1))
<1>1. PICK keys : keys = {} OBVIOUS
<1>2. \A n : EntriesFrom(b, n) = EntriesBut(b, n, keys) BY <1>1 DEF EntriesFrom
<1>3. CASE ~At(b, p, "s")
  <2>1. EntriesFrom(b, p) = <<>>
    <3>1. EntriesBut(b, p, keys) = <<>> BY <1>3, EntriesButAre
    <3> QED BY <1>2, <3>1
  <2>2. Range(<<>>) = {} BY DEF Range
  <2> QED BY <1>3, <2>1, <2>2 DEF EntrySet
<1>4. CASE At(b, p, "s")
  <2>1. p \in 1..Len(b) /\ Len(b) \in Nat /\ p + 1 \in Nat BY <1>4, TokenIs
  <2>2. PICK q : q = SkipValue(b, p + 1) OBVIOUS
  <2>3. q \in EndsBehind(b, p + 1) BY <2>1, <2>2, SkipValueIs
  <2>4. q \in Nat BY <2>1, <2>3 DEF EndsBehind, Error
  <2>5. PICK r, x : r = EntriesBut(b, q, keys) /\ x = EntryAt(b, p) OBVIOUS
  <2>6. r \in Seq(AnyEntry(b)) BY <2>4, <2>5, EntriesButAre
  <2>7. x \in AnyEntry(b) BY <2>5 DEF AnyEntry
  <2>8. EntriesBut(b, p, keys) = (IF b[p].v \in keys THEN <<>> ELSE <<x>>) \o r
    BY <1>4, <2>2, <2>5, EntriesButAre
  <2>9. b[p].v \notin keys BY <1>1
  <2>10. EntriesFrom(b, p) = <<x>> \o r BY <1>2, <2>8, <2>9
  <2>11. Range(<<x>> \o r) = {x} \cup Range(r) BY <2>6, <2>7, RangeOfMore
  <2> QED BY <1>2, <1>4, <2>2, <2>5, <2>10, <2>11 DEF EntrySet
<1> QED BY <1>3, <1>4

\* A turn of the loop of skip_dict that has found a key.
LEMMA OneMoreEntry ==
  ASSUME NEW b \in Seq(Token), NEW p \in Nat, NEW prev \in Nat, SkipEntries(b, p, prev) # Error,
         ~At(b, p, "e")
  PROVE  /\ p \in 1..Len(b) /\ Len(b) \in Nat /\ p + 1 \in Nat
         /\ At(b, p, "s") /\ NextKey(b, p, prev) /\ b[p].v \in Utf8 /\ b[p].v \in Str
         /\ Rank[b[p].v] \in Nat /\ Rank[b[p].v] > prev
         /\ SkipValue(b, p + 1) # Error /\ SkipValue(b, p + 1) \in Nat /\ SkipValue(b, p + 1) > p
         /\ SkipEntries(b, p, prev) = SkipEntries(b, SkipValue(b, p + 1), Rank[b[p].v])
         /\ EntrySet(b, p) = {EntryAt(b, p)} \cup EntrySet(b, SkipValue(b, p + 1))
         /\ EntryAt(b, p).key = b[p].v
<1>1. NextKey(b, p, prev) /\ SkipValue(b, p + 1) # Error
      /\ SkipEntries(b, p, prev) = SkipEntries(b, SkipValue(b, p + 1), Rank[b[p].v])
  BY SkipEntriesIs
<1>2. At(b, p, "s") /\ b[p].v \in Utf8 /\ Rank[b[p].v] > prev /\ b[p].v \in Str /\ Rank[b[p].v] \in Nat
  BY <1>1, TokenIs
<1>3. p \in 1..Len(b) /\ Len(b) \in Nat /\ p + 1 \in Nat BY <1>2, TokenIs
<1>4. SkipValue(b, p + 1) \in EndsBehind(b, p + 1) BY <1>3, SkipValueIs
<1>5. SkipValue(b, p + 1) \in Nat /\ SkipValue(b, p + 1) > p BY <1>1, <1>3, <1>4 DEF EndsBehind
<1>6. EntrySet(b, p) = {EntryAt(b, p)} \cup EntrySet(b, SkipValue(b, p + 1)) BY <1>2, EntriesAre
<1>7. EntryAt(b, p).key = b[p].v BY DEF EntryAt
<1> QED BY <1>1, <1>2, <1>3, <1>5, <1>6, <1>7

\* At the end of a dictionary there is no entry.
LEMMA NoMoreEntry ==
  ASSUME NEW b \in Seq(Token), NEW p \in Nat, At(b, p, "e")
  PROVE  EntrySet(b, p) = {} /\ p \in 1..Len(b) /\ Len(b) \in Nat
<1>1. ~At(b, p, "s") /\ p \in 1..Len(b) /\ Len(b) \in Nat BY TokenIs
<1> QED BY <1>1, EntriesAre

\* The keys from p on come after the one of rank prev, and no key comes twice.
Ascend(b, p, prev) ==
  /\ \A x \in EntrySet(b, p) : x.key \in Utf8 /\ Rank[x.key] > prev
  /\ \A x, y \in EntrySet(b, p) : x.key = y.key => x = y

\* In a dictionary that can be skipped they do.
LEMMA KeysAscend ==
  ASSUME NEW b \in Seq(Token), NEW p \in Nat, NEW prev \in Nat, SkipEntries(b, p, prev) # Error
  PROVE  Ascend(b, p, prev)
<1> DEFINE T == {n \in Nat : \A k \in Nat : SkipEntries(b, n, k) # Error => Ascend(b, n, k)}
<1>1. ASSUME NEW n \in Nat, \A q \in Nat : q > n /\ n <= Len(b) => q \in T PROVE n \in T
  <2> SUFFICES ASSUME NEW k \in Nat, SkipEntries(b, n, k) # Error PROVE Ascend(b, n, k)
    OBVIOUS
  <2>1. CASE At(b, n, "e") BY <2>1, NoMoreEntry DEF Ascend
  <2>2. CASE ~At(b, n, "e")
    <3>1. PICK q, r, e : q = SkipValue(b, n + 1) /\ r = Rank[b[n].v] /\ e = EntryAt(b, n) OBVIOUS
    <3>2. /\ n \in 1..Len(b) /\ Len(b) \in Nat /\ b[n].v \in Utf8 /\ r \in Nat /\ r > k
          /\ q \in Nat /\ q > n /\ SkipEntries(b, q, r) # Error
          /\ EntrySet(b, n) = {e} \cup EntrySet(b, q) /\ e.key = b[n].v
      BY <2>2, <3>1, OneMoreEntry
    <3>3. q \in T BY <1>1, <3>2
    <3>4. Ascend(b, q, r) BY <3>2, <3>3
    <3>5. Utf8 \subseteq Str /\ \A s \in Str : Rank[s] \in Nat BY BencodeAssumption
    <3>6. \A x \in EntrySet(b, q) : x.key \in Utf8 /\ Rank[x.key] \in Nat /\ Rank[x.key] > r
      BY <3>4, <3>5 DEF Ascend
    <3>7. \A x \in EntrySet(b, n) : x.key \in Utf8 /\ Rank[x.key] > k
      <4> SUFFICES ASSUME NEW x \in EntrySet(b, n) PROVE x.key \in Utf8 /\ Rank[x.key] > k
        OBVIOUS
      <4>1. CASE x = e BY <3>1, <3>2, <4>1
      <4>2. CASE x \in EntrySet(b, q)
        <5>1. PICK m : m = Rank[x.key] OBVIOUS
        <5>2. m \in Nat /\ m > r /\ x.key \in Utf8 BY <3>6, <4>2, <5>1
        <5>3. m > k BY <3>2, <5>2
        <5> QED BY <5>1, <5>2, <5>3
      <4> QED BY <3>2, <4>1, <4>2
    <3>8. \A x \in EntrySet(b, q) : x.key # e.key
      <4> SUFFICES ASSUME NEW x \in EntrySet(b, q), x.key = e.key PROVE FALSE
        OBVIOUS
      <4>1. Rank[x.key] = r BY <3>1, <3>2
      <4>2. Rank[x.key] > r BY <3>6
      <4> QED BY <3>2, <4>1, <4>2
    <3>9. \A x, y \in EntrySet(b, n) : x.key = y.key => x = y
      <4>1. \A x, y \in EntrySet(b, q) : x.key = y.key => x = y BY <3>4 DEF Ascend
      <4> QED BY <3>2, <3>8, <4>1
    <3> QED BY <3>7, <3>9 DEF Ascend
  <2> QED BY <2>1, <2>2
<1>2. T = Nat
  <2>1. T \in SUBSET Nat OBVIOUS
  <2> HIDE DEF T
  <2> QED BY <1>1, <2>1, PositionInduction
<1> QED BY <1>2

\* There is an entry with a key.
Has(b, p, key) == \E x \in EntrySet(b, p) : x.key = key

(***************************************************************************)
(* try_next_dict_entry finds the entry if there is one; either way the     *)
(* entries with later keys are still ahead.                                *)
(***************************************************************************)
Locates(b, p, search, e) ==
  /\ e.found => /\ EntryAt(b, e.to) \in EntrySet(b, p) /\ EntryAt(b, e.to).key = search
                /\ \A key \in Str : Rank[key] > Rank[search] =>
                     (Has(b, p, key) <=> Has(b, SkipValue(b, e.pos), key))
  /\ ~e.found => /\ ~Has(b, p, search)
                 /\ \A key \in Str : Rank[key] > Rank[search] =>
                      (Has(b, p, key) <=> Has(b, e.pos, key))

\* In a dictionary that can be skipped it does.
LEMMA TryNextLocates ==
  ASSUME NEW b \in Seq(Token), NEW p \in Nat, NEW prev \in Nat, SkipEntries(b, p, prev) # Error,
         NEW search \in Str, NEW e, e = TryNext(b, p, search, prev)
  PROVE  Locates(b, p, search, e)
<1>1. Rank[search] \in Nat /\ \A s \in Str : Rank[s] \in Nat BY BencodeAssumption
<1> DEFINE T == {n \in Nat : \A k \in Nat : SkipEntries(b, n, k) # Error =>
                               Locates(b, n, search, TryNext(b, n, search, k))}
<1>2. ASSUME NEW n \in Nat, \A q \in Nat : q > n /\ n <= Len(b) => q \in T PROVE n \in T
  <2> SUFFICES ASSUME NEW k \in Nat, SkipEntries(b, n, k) # Error, NEW f, f = TryNext(b, n, search, k)
               PROVE  Locates(b, n, search, f)
    OBVIOUS
  <2>1. CASE At(b, n, "e")
    <3>1. f = [found |-> FALSE, pos |-> n, to |-> n] BY <2>1, TryNextIs
    <3>2. EntrySet(b, n) = {} BY <2>1, NoMoreEntry
    <3> QED BY <3>1, <3>2 DEF Locates, Has
  <2>2. CASE ~At(b, n, "e")
    <3>1. PICK q, r, x : q = SkipValue(b, n + 1) /\ r = Rank[b[n].v] /\ x = EntryAt(b, n) OBVIOUS
    <3>2. /\ n \in 1..Len(b) /\ Len(b) \in Nat /\ b[n].v \in Str /\ r \in Nat /\ r > k
          /\ q \in Nat /\ q > n /\ q # Error /\ SkipEntries(b, q, r) # Error /\ NextKey(b, n, k)
          /\ EntrySet(b, n) = {x} \cup EntrySet(b, q) /\ x.key = b[n].v /\ At(b, n, "s")
          /\ b[n].v \in Utf8
      BY <2>2, <3>1, OneMoreEntry
    <3>3. f = TryTurn(b, n, search, r, q) BY <2>2, <3>1, <3>2, TryNextTurn
    <3>4. \A key : Has(b, n, key) <=> (key = b[n].v \/ Has(b, q, key)) BY <3>2 DEF Has
    <3>5. CASE r = Rank[search]
      <4>1. f.found /\ f.pos = n + 1 /\ f.to = n BY <3>3, <3>5 DEF TryTurn
      <4>2. b[n].v = search BY <3>1, <3>2, <3>5, BencodeAssumption
      <4>3. \A key \in Str : Rank[key] > Rank[search] => key # b[n].v
        <5> SUFFICES ASSUME NEW key \in Str, Rank[key] > Rank[search], key = b[n].v PROVE FALSE
          OBVIOUS
        <5> QED BY <1>1, <3>1, <3>2, <3>5
      <4> QED BY <3>1, <3>2, <3>4, <4>1, <4>2, <4>3 DEF Locates
    <3>6. CASE r > Rank[search]
      <4>1. ~f.found /\ f.pos = n BY <1>1, <3>2, <3>3, <3>6 DEF TryTurn
      <4>2. PICK g : g = Rank[search] OBVIOUS
      <4>3. NextKey(b, n, g) BY <3>1, <3>2, <3>6, <4>2, TokenIs
      <4>4. SkipEntries(b, n, g) # Error BY <1>1, <2>2, <3>1, <3>2, <4>2, <4>3, SkipEntriesIs
      <4>5. Ascend(b, n, g) BY <1>1, <4>2, <4>4, KeysAscend
      <4>6. ~Has(b, n, search) BY <1>1, <4>2, <4>5 DEF Ascend, Has
      <4> QED BY <4>1, <4>6 DEF Locates
    <3>7. CASE r < Rank[search]
      <4>1. f = TryNext(b, q, search, r) BY <1>1, <3>2, <3>3, <3>7 DEF TryTurn
      <4>2. q \in T BY <1>2, <3>2
      <4>3. Locates(b, q, search, f) BY <3>2, <4>1, <4>2
      <4>4. search # b[n].v BY <3>1, <3>2, <3>7, <1>1
      <4>5. \A key \in Str : Rank[key] > Rank[search] => key # b[n].v
        <5> SUFFICES ASSUME NEW key \in Str, Rank[key] > Rank[search], key = b[n].v PROVE FALSE
          OBVIOUS
        <5> QED BY <1>1, <3>1, <3>2, <3>7
      <4>6. \A key \in Str : Rank[key] > Rank[search] => (Has(b, n, key) <=> Has(b, q, key))
        BY <3>4, <4>5
      <4>7. CASE f.found BY <3>2, <4>3, <4>6, <4>7 DEF Locates
      <4>8. CASE ~f.found BY <3>4, <4>3, <4>4, <4>6, <4>8 DEF Locates
      <4> QED BY <4>7, <4>8
    <3> QED BY <1>1, <3>2, <3>5, <3>6, <3>7
  <2> QED BY <2>1, <2>2
<1>3. T = Nat
  <2>1. T \in SUBSET Nat OBVIOUS
  <2> HIDE DEF T
  <2> QED BY <1>2, <2>1, PositionInduction
<1> QED BY <1>3

-----------------------------------------------------------------------------
(***************************************************************************)
(* The dictionary at the top of a file: it begins with announce and a url. *)
(***************************************************************************)
Begins(b) ==
  /\ At(b, 1, "d") /\ At(b, 2, "s") /\ b[2].v = "announce"
  /\ SkipValue(b, 1) # Error /\ ReadUtf8(ValueOf(b, "announce"), 1) # Error

AfterAnnounce(b) == SkipEntries(b, 4, Rank["announce"])

\* An entry of the file is found by its key.
LEMMA ValueOfIs ==
  ASSUME NEW b \in Seq(Token), SkipEntries(b, 2, 0) # Error, NEW x \in EntrySet(b, 2)
  PROVE  ValueOf(b, x.key) = x.value
<1>1. PICK p, r : p = 2 /\ r = 0 OBVIOUS
<1>2. Ascend(b, p, r) BY <1>1, KeysAscend
<1>3. \A y \in EntrySet(b, 2) : y.key = x.key => y = x BY <1>1, <1>2 DEF Ascend
<1>4. (CHOOSE e \in EntrySet(b, 2) : e.key = x.key) = x BY <1>3
<1> QED BY <1>4 DEF ValueOf, Entries, EntrySet

\* Behind announce come the further entries.
LEMMA BeginsIs ==
  ASSUME NEW b \in Seq(Token)
  PROVE  /\ Begins(b) <=> Announce(b) # Error /\ AfterAnnounce(b) # Error
         /\ Begins(b) => /\ SkipValue(b, 1) = AfterAnnounce(b)
                         /\ EntrySet(b, 2) = {EntryAt(b, 2)} \cup EntrySet(b, 4)
                         /\ SkipEntries(b, 2, 0) # Error
                         /\ EntryAt(b, 2).key = "announce"
<1> DEFINE Top == At(b, 1, "d") /\ At(b, 2, "s") /\ b[2].v = "announce"
<1>1. SUFFICES ASSUME Top
      PROVE  /\ Begins(b) <=> Announce(b) # Error /\ AfterAnnounce(b) # Error
             /\ Begins(b) => /\ SkipValue(b, 1) = AfterAnnounce(b)
                             /\ EntrySet(b, 2) = {EntryAt(b, 2)} \cup EntrySet(b, 4)
                             /\ SkipEntries(b, 2, 0) # Error
                             /\ EntryAt(b, 2).key = "announce"
  BY AnnounceIs DEF Begins
<1>2. "announce" \in Utf8 /\ Rank["announce"] \in Nat /\ Rank["announce"] > 0 BY KeysAre, FileAssumption
<1>3. PICK one, two, three, k : one = 1 /\ two = 2 /\ three = 3 /\ k = 0 OBVIOUS
<1>4. one \in Nat /\ two \in Nat /\ three \in Nat /\ k \in Nat /\ one + 1 = two /\ two + 1 = three
      /\ three # 0
  BY <1>3
<1>5. SkipValue(b, 1) = SkipEntries(b, 2, 0)
  <2>1. At(b, one, "d") BY <1>1, <1>3
  <2>2. ~At(b, one, "s") /\ ~At(b, one, "i") /\ ~At(b, one, "l") BY <2>1 DEF At
  <2>3. SkipValue(b, one) = SkipEntries(b, one + 1, 0) BY <1>4, <2>1, <2>2, SkipValueIs
  <2> QED BY <1>3, <1>4, <2>3
<1>6. NextKey(b, two, k) /\ ~At(b, two, "e") BY <1>1, <1>2, <1>3, TokenIs
<1>7. SkipEntries(b, 2, 0) = IF SkipValue(b, 3) = Error THEN Error
                             ELSE SkipEntries(b, SkipValue(b, 3), Rank["announce"])
  <2>1. SkipEntries(b, two, k) = IF SkipValue(b, two + 1) = Error THEN Error
                                 ELSE SkipEntries(b, SkipValue(b, two + 1), Rank[b[two].v])
    BY <1>4, <1>6, SkipEntriesIs
  <2> QED BY <1>1, <1>3, <1>4, <2>1
<1>8. Announce(b) = ReadUtf8(b, 3) BY <1>1 DEF Announce
<1>9. ReadUtf8(b, 3) # Error => SkipValue(b, 3) = 4
  <2>1. ReadUtf8(b, 3) # Error => ReadUtf8(b, 3) = 4 BY DEF ReadUtf8
  <2>2. ReadUtf8(b, three) \in {Error, SkipValue(b, three)} BY <1>4, ReadInfoSkips
  <2> QED BY <1>3, <2>1, <2>2
<1>10. ASSUME SkipEntries(b, 2, 0) # Error
       PROVE  (ReadUtf8(ValueOf(b, "announce"), 1) = Error) <=> (ReadUtf8(b, 3) = Error)
  <2>1. PICK x : x = EntryAt(b, 2) OBVIOUS
  <2>2. EntrySet(b, two) = {EntryAt(b, two)} \cup EntrySet(b, SkipValue(b, two + 1))
    BY <1>3, <1>4, <1>6, <1>10, OneMoreEntry
  <2>3. x \in EntrySet(b, 2) /\ x.key = "announce" BY <1>1, <1>3, <2>1, <2>2 DEF EntryAt
  <2>4. ValueOf(b, "announce") = x.value BY <1>10, <2>3, ValueOfIs
  <2>5. PICK q, s : q = SkipValue(b, three) /\ s = Slice(b, three, q) OBVIOUS
  <2>6. q # Error BY <1>3, <1>7, <1>10, <2>5
  <2>7. (ReadUtf8(s, 1) = Error) <=> (ReadUtf8(b, three) = Error) BY <1>4, <2>5, <2>6, ValueRead
  <2>8. x.value = s BY <1>3, <1>4, <2>1, <2>5 DEF EntryAt
  <2> QED BY <1>3, <2>4, <2>7, <2>8
<1>11. Begins(b) <=> Announce(b) # Error /\ AfterAnnounce(b) # Error
  <2>1. Begins(b) => ReadUtf8(b, 3) # Error /\ SkipEntries(b, 2, 0) # Error BY <1>5, <1>10 DEF Begins
  <2>2. Announce(b) # Error /\ AfterAnnounce(b) # Error => SkipEntries(b, 2, 0) # Error
    BY <1>7, <1>8, <1>9 DEF AfterAnnounce, Error
  <2>3. Announce(b) # Error /\ AfterAnnounce(b) # Error => Begins(b)
    BY <1>1, <1>5, <1>8, <1>10, <2>2 DEF Begins
  <2>4. Begins(b) => Announce(b) # Error /\ AfterAnnounce(b) # Error
    BY <1>7, <1>8, <1>9, <2>1 DEF AfterAnnounce
  <2> QED BY <2>3, <2>4
<1>12. ASSUME Begins(b)
       PROVE  /\ SkipValue(b, 1) = AfterAnnounce(b) /\ SkipEntries(b, 2, 0) # Error
              /\ EntrySet(b, 2) = {EntryAt(b, 2)} \cup EntrySet(b, 4)
              /\ EntryAt(b, 2).key = "announce"
  <2>1. SkipEntries(b, 2, 0) # Error BY <1>5, <1>12 DEF Begins
  <2>2. SkipValue(b, 3) = 4 BY <1>8, <1>9, <1>11, <1>12
  <2>3. SkipEntries(b, 2, 0) = AfterAnnounce(b) BY <1>7, <2>1, <2>2 DEF AfterAnnounce
  <2>4. EntrySet(b, two) = {EntryAt(b, two)} \cup EntrySet(b, SkipValue(b, two + 1))
    BY <1>3, <1>4, <1>6, <2>1, OneMoreEntry
  <2>5. EntryAt(b, 2).key = "announce" BY <1>1 DEF EntryAt
  <2> QED BY <1>3, <1>4, <1>5, <2>1, <2>2, <2>3, <2>4, <2>5
<1> QED BY <1>11, <1>12

-----------------------------------------------------------------------------
(***************************************************************************)
(* The value of an entry is what the loaders ask for, read alone.          *)
(***************************************************************************)
Fine(key, value, ck) ==
  CASE key = "announce-list" -> ParseAnnounceList(value, 1).pos # Error
    [] key = "info" -> ParseInfo(value, 1, ck) # Error
    [] key = "encoding" -> ReadUtf8(value, 1) # Error
    [] OTHER -> TRUE

\* Torrent::load reads a value in the file if it is fine alone.
LEMMA EntryFine ==
  ASSUME NEW b \in Seq(Token), NEW p \in Nat, p # 0, NEW z, z = SkipValue(b, p), z # Error,
         NEW key, NEW ck, NEW value, value = Slice(b, p, z)
  PROVE  (EntryEnd(b, p, key, ck) # Error) <=> Fine(key, value, ck)
<1>1. PICK v : v = ck OBVIOUS
<1>2. /\ (ReadUtf8(value, 1) = Error) <=> (ReadUtf8(b, p) = Error)
      /\ (ParseAnnounceList(value, 1).pos = Error) <=> (ParseAnnounceList(b, p).pos = Error)
      /\ (ParseInfo(value, 1, v) = Error) <=> (ParseInfo(b, p, v) = Error)
  BY ValueRead
<1>3. CASE key = "announce-list" BY <1>2, <1>3 DEF EntryEnd, Fine
<1>4. CASE key = "info" BY <1>1, <1>2, <1>4 DEF EntryEnd, Fine
<1>5. CASE key = "encoding" BY <1>2, <1>5 DEF EntryEnd, Fine
<1>6. CASE key \notin {"announce-list", "info", "encoding"} BY <1>6 DEF EntryEnd, Fine
<1> QED BY <1>3, <1>4, <1>5, <1>6

\* The loop of Torrent::load ends well if there is nothing behind the
\* dictionary and each value is fine.
LoadsAll(b, p, prev, ck) ==
  /\ SkipEntries(b, p, prev) = Len(b) + 1
  /\ \A x \in EntrySet(b, p) : Fine(x.key, x.value, ck)

\* And only then.
LEMMA LoadsExactly ==
  ASSUME NEW b \in Seq(Token), NEW nw \in Metas, NEW ck, Announce(b) # Error,
         NEW p \in Nat, NEW prev \in Nat
  PROVE  LoadFrom(b, nw, ck, p, prev).ok <=> LoadsAll(b, p, prev, ck)
<1>1. Len(b) \in Nat OBVIOUS
<1>2. Len(b) + 1 # Error BY <1>1 DEF Error
<1> DEFINE T == {n \in Nat : \A k \in Nat :
                   LoadFrom(b, nw, ck, n, k).ok <=> LoadsAll(b, n, k, ck)}
<1>3. ASSUME NEW n \in Nat, \A q \in Nat : q > n /\ n <= Len(b) => q \in T PROVE n \in T
  <2> SUFFICES ASSUME NEW k \in Nat, NEW y, y = LoadFrom(b, nw, ck, n, k)
               PROVE  y.ok <=> LoadsAll(b, n, k, ck)
    OBVIOUS
  <2>1. PICK q, r : q = EntryEnd(b, n + 1, b[n].v, ck) /\ r = Rank[b[n].v] OBVIOUS
  <2>2. PICK rest : rest = LoadFrom(b, nw, ck, q, r) OBVIOUS
  <2>3. y = LoadTurn(b, nw, n, k, q, rest) BY <2>1, <2>2, LoadIs
  <2>4. CASE At(b, n, "e")
    <3>1. EntrySet(b, n) = {} BY <2>4, NoMoreEntry
    <3>2. SkipEntries(b, n, k) = n + 1 BY <2>4, SkipEntriesIs
    <3>3. y.ok <=> n = Len(b) BY <2>3, <2>4 DEF LoadTurn, Loaded, Failed
    <3> QED BY <1>1, <3>1, <3>2, <3>3 DEF LoadsAll
  <2>5. CASE ~At(b, n, "e") /\ SkipEntries(b, n, k) = Error
    <3>1. ~LoadsAll(b, n, k, ck) BY <1>2, <2>5 DEF LoadsAll
    <3>2. y.ok => LoadsRest(b, n, k, y) BY LoadsTheRest
    <3> QED BY <1>2, <2>5, <3>1, <3>2 DEF LoadsRest
  <2>6. CASE ~At(b, n, "e") /\ SkipEntries(b, n, k) # Error
    <3>1. PICK z, l : z = SkipValue(b, n + 1) /\ l = n + 1 OBVIOUS
    <3>2. /\ n \in 1..Len(b) /\ r \in Nat /\ z \in Nat /\ z > n /\ z # Error /\ NextKey(b, n, k)
          /\ SkipEntries(b, n, k) = SkipEntries(b, z, r)
          /\ EntrySet(b, n) = {EntryAt(b, n)} \cup EntrySet(b, z)
      BY <2>1, <2>6, <3>1, OneMoreEntry
    <3>3. l \in Nat /\ l # 0 /\ z = SkipValue(b, l) BY <3>1
    <3>4. PICK key, value : key = b[n].v /\ value = Slice(b, l, z) OBVIOUS
    <3>5. EntryAt(b, n) = [key |-> key, value |-> value] BY <3>1, <3>4 DEF EntryAt
    <3>6. q = EntryEnd(b, l, key, ck) BY <2>1, <3>1, <3>4
    <3>7. (q # Error) <=> Fine(key, value, ck) BY <3>2, <3>3, <3>4, <3>6, EntryFine
    <3>8. LoadsAll(b, n, k, ck) <=> Fine(key, value, ck) /\ LoadsAll(b, z, r, ck)
      BY <3>2, <3>5 DEF LoadsAll
    <3>9. CASE q = Error
      <4>1. y = Failed BY <2>3, <2>6, <3>9 DEF LoadTurn
      <4> QED BY <3>7, <3>8, <3>9, <4>1 DEF Failed
    <3>10. CASE q # Error
      <4>1. y = Before(rest, b, n, q, nw) BY <2>3, <2>6, <3>2, <3>10 DEF LoadTurn
      <4>2. y.ok <=> rest.ok BY <4>1, ObjectIs DEF Before, Loaded, Failed
      <4>3. q = z BY <3>3, <3>6, <3>10, EntryEnds
      <4>4. z \in T BY <1>1, <1>3, <3>2
      <4>5. LoadFrom(b, nw, ck, z, r).ok <=> LoadsAll(b, z, r, ck) BY <3>2, <4>4
      <4> QED BY <2>2, <3>7, <3>8, <3>10, <4>2, <4>3, <4>5
    <3> QED BY <3>9, <3>10
  <2> QED BY <2>4, <2>5, <2>6
<1>4. T = Nat
  <2>1. T \in SUBSET Nat OBVIOUS
  <2> HIDE DEF T
  <2> QED BY <1>3, <2>1, PositionInduction
<1> QED BY <1>4

\* An entry behind announce, by its key.
LEMMA FurtherEntry ==
  ASSUME NEW b \in Seq(Token), Begins(b), NEW key, key # "announce"
  PROVE  /\ HasKey(b, key) <=> Has(b, 4, key)
         /\ \A x \in EntrySet(b, 4) : x.key = key => ValueOf(b, key) = x.value
<1>1. EntrySet(b, 2) = {EntryAt(b, 2)} \cup EntrySet(b, 4) /\ EntryAt(b, 2).key = "announce"
      /\ SkipEntries(b, 2, 0) # Error
  BY BeginsIs
<1>2. HasKey(b, key) <=> Has(b, 2, key) BY DEF HasKey, Has, Entries, EntrySet
<1>3. Has(b, 2, key) <=> Has(b, 4, key) BY <1>1 DEF Has
<1>4. ASSUME NEW x \in EntrySet(b, 4), x.key = key PROVE ValueOf(b, key) = x.value
  <2>1. x \in EntrySet(b, 2) BY <1>1
  <2>2. ValueOf(b, x.key) = x.value BY <1>1, <2>1, ValueOfIs
  <2> QED BY <1>4, <2>2
<1> QED BY <1>2, <1>3, <1>4

\* All the values behind announce are fine.
LEMMA AllFine ==
  ASSUME NEW b \in Seq(Token), Begins(b), NEW ck
  PROVE  (\A x \in EntrySet(b, 4) : Fine(x.key, x.value, ck)) <=>
           /\ HasKey(b, "announce-list") => ParseAnnounceList(ValueOf(b, "announce-list"), 1).pos # Error
           /\ HasKey(b, "encoding") => ReadUtf8(ValueOf(b, "encoding"), 1) # Error
           /\ HasKey(b, "info") => ParseInfo(ValueOf(b, "info"), 1, ck) # Error
<1>1. ASSUME NEW key, key # "announce"
      PROVE  (\A x \in EntrySet(b, 4) : x.key = key => Fine(key, x.value, ck)) <=>
               (HasKey(b, key) => Fine(key, ValueOf(b, key), ck))
  <2>1. HasKey(b, key) <=> Has(b, 4, key) BY <1>1, FurtherEntry
  <2>2. \A x \in EntrySet(b, 4) : x.key = key => ValueOf(b, key) = x.value BY <1>1, FurtherEntry
  <2> QED BY <2>1, <2>2 DEF Has
<1>2. \A key, value : key \notin {"announce-list", "info", "encoding"} => Fine(key, value, ck)
  BY DEF Fine
<1>3. (\A x \in EntrySet(b, 4) : Fine(x.key, x.value, ck)) <=>
        \A key \in {"announce-list", "info", "encoding"} :
          \A x \in EntrySet(b, 4) : x.key = key => Fine(key, x.value, ck)
  BY <1>2
<1>4. \A key \in {"announce-list", "info", "encoding"} :
        (\A x \in EntrySet(b, 4) : x.key = key => Fine(key, x.value, ck)) <=>
          (HasKey(b, key) => Fine(key, ValueOf(b, key), ck))
  BY <1>1
<1>5. \A value : /\ Fine("announce-list", value, ck) <=> ParseAnnounceList(value, 1).pos # Error
                 /\ Fine("info", value, ck) <=> ParseInfo(value, 1, ck) # Error
                 /\ Fine("encoding", value, ck) <=> ReadUtf8(value, 1) # Error
  BY DEF Fine
<1> QED BY <1>3, <1>4, <1>5

\* How far TorrentAnnounceInfo::load has read when it looks for info.
LEMMA UrlsEnd ==
  ASSUME NEW b \in Seq(Token), NEW a, a = LoadAnnounce(b), Announce(b) # Error,
         NEW e, e = TryNext(b, 4, "announce-list", Rank["announce"])
  PROVE  a.pos = IF e.found THEN ParseAnnounceList(b, e.pos).pos ELSE e.pos
<1>1. Announce(b) = 4 BY AnnounceIs
<1>2. PICK x : x = IF e.found THEN ParseAnnounceList(b, e.pos) ELSE [pos |-> e.pos, list |-> <<>>]
  OBVIOUS
<1>3. a.pos = IF x.pos = Error THEN Error ELSE x.pos BY <1>1, <1>2 DEF LoadAnnounce, Error
<1> QED BY <1>2, <1>3

\* From there on it looks for info and for the end of the dictionary.
LEMMA InfoFound ==
  ASSUME NEW b \in Seq(Token), NEW a, NEW p \in Nat, a.pos = p
  PROVE  LoadInfo(b, a).ok <=>
           SkipEntries(b, p, Rank["announce-list"]) # Error /\ Has(b, p, "info")
<1>1. PICK n, search : n = Rank["announce-list"] /\ search = "info" OBVIOUS
<1>2. n \in Nat /\ search \in Str BY <1>1, KeysAre
<1>3. PICK i : i = TryNext(b, p, search, n) OBVIOUS
<1>4. PICK q, z : q = SkipValue(b, i.pos) /\ z = SkipEntries(b, q, Rank[search]) OBVIOUS
<1>5. LoadInfo(b, a).ok <=> i.found /\ q # Error /\ z # Error
  BY <1>1, <1>3, <1>4 DEF LoadInfo, Loaded, Failed
<1>6. /\ i.pos = Error => ~i.found /\ SkipEntries(b, p, n) = Error
      /\ i.found => SkipEntries(b, p, n) = EndAfter(b, i.pos, search)
      /\ i.found \in BOOLEAN
  BY <1>2, <1>3, TryNextStops DEF Stops
<1>7. i.found => SkipEntries(b, p, n) = IF q = Error THEN Error ELSE z BY <1>4, <1>6 DEF EndAfter
<1>8. ASSUME SkipEntries(b, p, n) # Error PROVE i.found <=> Has(b, p, search)
  <2>1. Locates(b, p, search, i) BY <1>2, <1>3, <1>8, TryNextLocates
  <2> QED BY <2>1 DEF Locates, Has
<1> QED BY <1>1, <1>5, <1>7, <1>8

(***************************************************************************)
(* What TorrentAnnounceInfo::load accepts.                                 *)
(***************************************************************************)
LEMMA AnnounceInfoExactly ==
  ASSUME NEW b \in Seq(Token)
  PROVE  LoadTorrentAnnounceInfo(b).ok <=>
           /\ Begins(b) /\ HasKey(b, "info")
           /\ HasKey(b, "announce-list") => ParseAnnounceList(ValueOf(b, "announce-list"), 1).pos # Error
<1>1. PICK a : a = LoadAnnounce(b) OBVIOUS
<1>2. a.pos \in Nat /\ (a.pos # Error => Announce(b) # Error) BY <1>1, AnnounceLoaded
<1>3. PICK p, list, info, n, k : /\ p = a.pos /\ list = "announce-list" /\ info = "info"
                                 /\ n = Rank["announce"] /\ k = Rank["announce-list"]
  OBVIOUS
<1>4. /\ p \in Nat /\ list \in Str /\ info \in Str /\ n \in Nat /\ k \in Nat /\ k = Rank[list]
      /\ Rank[info] > Rank[list]
  <2>1. Rank["info"] > Rank["announce-list"] BY KeysAre
  <2> QED BY <1>2, <1>3, <2>1, KeysAre
<1>5. LoadTorrentAnnounceInfo(b).ok <=> SkipEntries(b, p, k) # Error /\ Has(b, p, info)
  BY <1>1, <1>3, <1>4, InfoFound DEF LoadTorrentAnnounceInfo
<1>6. SkipEntries(b, Error, k) = Error
  <2>1. Error \in Nat /\ ~At(b, Error, "e") /\ ~At(b, Error, "s") BY DEF Error, At
  <2>2. ~NextKey(b, Error, k) BY <2>1 DEF NextKey, ReadUtf8
  <2> QED BY <1>4, <2>1, <2>2, SkipEntriesIs
<1>7. CASE Announce(b) = Error BY <1>2, <1>3, <1>5, <1>6, <1>7, BeginsIs
<1>8. CASE Announce(b) # Error
  <2>1. PICK e, four : e = TryNext(b, 4, list, n) /\ four = 4 OBVIOUS
  <2>2. four \in Nat BY <2>1
  <2>3. p = IF e.found THEN ParseAnnounceList(b, e.pos).pos ELSE e.pos
    BY <1>1, <1>3, <1>8, <2>1, UrlsEnd
  <2>4. /\ e.found \in BOOLEAN /\ e.pos \in Nat
        /\ e.pos = Error => ~e.found /\ SkipEntries(b, four, n) = Error
        /\ e.found => e.pos = e.to + 1 /\ SkipEntries(b, four, n) = EndAfter(b, e.pos, list)
        /\ ~e.found /\ e.pos # Error => SkipEntries(b, four, n) = SkipEntries(b, e.pos, Rank[list])
    BY <1>4, <2>1, <2>2, TryNextStops DEF Stops
  <2>5. AfterAnnounce(b) = SkipEntries(b, four, n) BY <1>3, <2>1 DEF AfterAnnounce
  <2>6. e.found => p \in {Error, SkipValue(b, e.pos)} BY <2>3, <2>4, ParseAnnounceListSkips
  <2>7. p # Error => SkipEntries(b, four, n) = SkipEntries(b, p, k)
    BY <1>4, <2>3, <2>4, <2>6 DEF EndAfter
  <2>8. CASE AfterAnnounce(b) = Error BY <1>5, <1>6, <2>5, <2>7, <2>8, BeginsIs
  <2>9. CASE AfterAnnounce(b) # Error
    <3>1. Begins(b) BY <1>8, <2>9, BeginsIs
    <3>2. SkipEntries(b, four, n) # Error BY <2>5, <2>9
    <3>3. Locates(b, four, list, e) BY <1>4, <2>1, <2>2, <3>2, TryNextLocates
    <3>4. HasKey(b, info) <=> Has(b, four, info) BY <1>3, <2>1, <3>1, FurtherEntry
    <3>5. HasKey(b, list) <=> Has(b, four, list) BY <1>3, <2>1, <3>1, FurtherEntry
    <3>6. CASE ~e.found
      <4>1. p = e.pos /\ p # Error BY <2>3, <2>4, <3>2, <3>6
      <4>2. ~Has(b, four, list) /\ (Has(b, four, info) <=> Has(b, p, info))
        BY <1>4, <3>3, <3>6, <4>1 DEF Locates
      <4> QED BY <1>3, <1>5, <2>7, <3>1, <3>2, <3>4, <3>5, <4>1, <4>2
    <3>7. CASE e.found
      <4>1. PICK z, x, o : z = SkipValue(b, e.pos) /\ x = EntryAt(b, e.to) /\ o = e.pos OBVIOUS
      <4>2. z # Error /\ o # 0 /\ o \in Nat BY <2>4, <3>2, <3>7, <4>1 DEF EndAfter, Error
      <4>3. x \in EntrySet(b, four) /\ x.key = list /\ (Has(b, four, info) <=> Has(b, z, info))
        BY <1>4, <3>3, <3>7, <4>1 DEF Locates
      <4>4. ValueOf(b, list) = x.value BY <1>3, <2>1, <3>1, <4>3, FurtherEntry
      <4>5. HasKey(b, list) BY <3>5, <4>3 DEF Has
      <4>6. x.value = Slice(b, o, z) BY <2>4, <3>7, <4>1 DEF EntryAt
      <4>7. PICK s : s = x.value OBVIOUS
      <4>8. (ParseAnnounceList(s, 1).pos = Error) <=> (ParseAnnounceList(b, o).pos = Error)
        BY <4>1, <4>2, <4>6, <4>7, ValueRead
      <4>9. (ParseAnnounceList(ValueOf(b, list), 1).pos = Error) <=> p = Error
        BY <2>3, <3>7, <4>1, <4>4, <4>7, <4>8
      <4>10. p # Error => p = z BY <2>6, <3>7, <4>1
      <4> QED BY <1>3, <1>5, <1>6, <2>7, <3>1, <3>2, <3>4, <4>3, <4>5, <4>9, <4>10
    <3> QED BY <2>4, <3>6, <3>7
  <2> QED BY <2>8, <2>9
<1> QED BY <1>7, <1>8

(***************************************************************************)
(* What Torrent::load accepts.                                             *)
(***************************************************************************)
LEMMA TorrentExactly ==
  ASSUME NEW b \in Seq(Token), NEW nw \in Metas, NEW ck
  PROVE  LoadTorrent(b, nw, ck).ok <=>
           /\ Begins(b) /\ SkipValue(b, 1) = Len(b) + 1
           /\ HasKey(b, "announce-list") => ParseAnnounceList(ValueOf(b, "announce-list"), 1).pos # Error
           /\ HasKey(b, "encoding") => ReadUtf8(ValueOf(b, "encoding"), 1) # Error
           /\ HasKey(b, "info") => ParseInfo(ValueOf(b, "info"), 1, ck) # Error
<1>1. CASE Announce(b) = Error
  <2>1. ~Begins(b) BY <1>1, BeginsIs
  <2>2. LoadTorrent(b, nw, ck) = Failed BY <1>1, LoadTorrentIs
  <2> QED BY <2>1, <2>2 DEF Failed
<1>2. CASE Announce(b) # Error
  <2>1. PICK p, n : p = 4 /\ n = Rank["announce"] OBVIOUS
  <2>2. p \in Nat /\ n \in Nat /\ Announce(b) = p BY <1>2, <2>1, AnnounceIs, KeysAre
  <2>3. LoadTorrent(b, nw, ck) = LoadFrom(b, nw, ck, p, n) BY <1>2, <2>1, <2>2, LoadTorrentIs
  <2>4. LoadTorrent(b, nw, ck).ok <=> LoadsAll(b, p, n, ck) BY <1>2, <2>2, <2>3, LoadsExactly
  <2>5. AfterAnnounce(b) = SkipEntries(b, p, n) BY <2>1 DEF AfterAnnounce
  <2>6. CASE AfterAnnounce(b) = Error
    <3>1. Len(b) + 1 # Error BY DEF Error
    <3> QED BY <2>4, <2>5, <2>6, <3>1, BeginsIs DEF LoadsAll
  <2>7. CASE AfterAnnounce(b) # Error
    <3>1. Begins(b) /\ SkipValue(b, 1) = SkipEntries(b, p, n) BY <1>2, <2>5, <2>7, BeginsIs
    <3>2. EntrySet(b, 4) = EntrySet(b, p) BY <2>1
    <3> QED BY <2>4, <3>1, <3>2, AllFine DEF LoadsAll
  <2> QED BY <2>6, <2>7
<1> QED BY <1>1, <1>2

-----------------------------------------------------------------------------
(***************************************************************************)
(* The inductive invariant: the object is one, the file and what has been  *)
(* written are tokens, and the object of a load is what the file has been  *)
(* loaded as, or has been rejected as.                                     *)
(***************************************************************************)
IsLoaded ==
  pc \in {"loaded", "rejected"} =>
    \E r \in {LoadAs(class, file, new, check)} : t = r.t /\ (r.ok <=> pc = "loaded")

FileInv ==
  /\ file \in Seq(Token) /\ out \in Seq(Token)
  /\ new \in NewMetas /\ check \in BOOLEAN /\ class \in Classes
  /\ t \in Objects
  /\ writes \in 0..MaxWrites
  /\ pc \in {"start", "rejected", "loaded", "merged", "written"}
  /\ IsLoaded

\* The invariant holds at the beginning.
LEMMA FileInit == Init => FileInv
<1> SUFFICES ASSUME Init PROVE FileInv
  OBVIOUS
<1>1. file \in Seq(Token) /\ MaxWrites \in Nat BY FileAssumption DEF Init
<1>2. t \in Objects BY ObjectIs DEF Init
<1>3. writes \in 0..MaxWrites BY <1>1 DEF Init
<1>4. out \in Seq(Token) BY EmptySeq DEF Init
<1> QED BY <1>1, <1>2, <1>3, <1>4 DEF Init, FileInv, IsLoaded

\* A load keeps it: the object is the one of its result.
LEMMA LoadKeeps == ASSUME FileInv, Load PROVE FileInv'
<1>1. PICK r : /\ r = LoadAs(class, file, new, check)
               /\ t' = r.t /\ pc' = IF r.ok THEN "loaded" ELSE "rejected"
  BY DEF Load
<1>2. r \in Results BY <1>1, LoadType DEF FileInv
<1>3. t' \in Objects BY <1>1, <1>2 DEF Results
<1>4. UNCHANGED <<file, new, check, class, out, writes>> BY DEF Load
<1>5. pc' \in {"start", "rejected", "loaded", "merged", "written"} BY <1>1
<1>6. IsLoaded' BY <1>1, <1>4 DEF IsLoaded
<1> QED BY <1>3, <1>4, <1>5, <1>6 DEF FileInv

\* The primary url a program sets with a list.
FirstUrl(list) == IF list = <<>> THEN Dht ELSE list[1][1]

\* It is valid utf-8: a group is never empty, so that there is a first url.
LEMMA FirstUrlType ==
  ASSUME NEW list \in UrlLists
  PROVE  list \in Seq(Seq(Utf8)) /\ FirstUrl(list) \in Utf8
<1>1. list \in Seq(Seq(Utf8)) /\ \A n \in 1..Len(list) : list[n] # <<>> BY FileAssumption
<1>2. CASE list = <<>> BY <1>1, <1>2, FileAssumption DEF FirstUrl
<1>3. CASE list # <<>>
  <2>1. 1 \in 1..Len(list) BY <1>1, <1>3, EmptySeq
  <2>2. PICK g : g = list[1] OBVIOUS
  <2>3. g \in Seq(Utf8) /\ g # <<>> BY <1>1, <2>1, <2>2
  <2>4. 1 \in 1..Len(g) BY <2>3, EmptySeq
  <2>5. g[1] \in Utf8 BY <2>3, <2>4
  <2> QED BY <1>1, <1>3, <2>2, <2>5 DEF FirstUrl
<1> QED BY <1>2, <1>3

\* New urls keep it.
LEMMA SetKeeps == ASSUME FileInv, SetAnnounceUrls PROVE FileInv'
<1>1. PICK list \in UrlLists : t' = [t EXCEPT !.announce = FirstUrl(list), !.list = list]
  BY DEF SetAnnounceUrls, FirstUrl
<1>2. PICK a : a = FirstUrl(list) OBVIOUS
<1>3. a \in Utf8 /\ list \in Seq(Seq(Utf8)) BY <1>2, FirstUrlType
<1>4. t' \in Objects
  <2>1. t \in Objects BY DEF FileInv
  <2>2. t' = [t EXCEPT !.announce = a, !.list = list] BY <1>1, <1>2
  <2> QED BY <1>3, <2>1, <2>2 DEF Objects
<1>5. UNCHANGED <<file, new, check, class, out, writes>> /\ pc' = "merged" BY DEF SetAnnounceUrls
<1> QED BY <1>4, <1>5 DEF FileInv, IsLoaded

\* Writing keeps it.
LEMMA WriteKeeps == ASSUME FileInv, Write PROVE FileInv'
<1>1. out' \in Seq(Token)
  <2>1. PICK o, cl : o = t /\ cl = class OBVIOUS
  <2>2. o \in Objects /\ cl \in Classes BY <2>1 DEF FileInv
  <2>3. WriteAs(cl, o) \in Seq(Token) BY <2>2, WriteType
  <2> QED BY <2>1, <2>3 DEF Write
<1>2. writes' \in 0..MaxWrites
  <2>1. MaxWrites \in Nat /\ writes \in 0..MaxWrites /\ writes < MaxWrites /\ writes' = writes + 1
    BY FileAssumption DEF Write, FileInv
  <2> QED BY <2>1
<1> QED BY <1>1, <1>2 DEF FileInv, Write, IsLoaded

\* So does another program, which reads what was written.
LEMMA AgainKeeps == ASSUME FileInv, RunAgain PROVE FileInv'
<1>1. out' \in Seq(Token) /\ t' \in Objects BY EmptySeq, ObjectIs DEF RunAgain
<1> QED BY <1>1 DEF FileInv, RunAgain, IsLoaded

\* So every step does.
LEMMA FileStep == FileInv /\ [Next]_vars => FileInv'
<1> SUFFICES ASSUME FileInv, [Next]_vars PROVE FileInv'
  OBVIOUS
<1>1. CASE Load BY <1>1, LoadKeeps
<1>2. CASE SetAnnounceUrls BY <1>2, SetKeeps
<1>3. CASE Write BY <1>3, WriteKeeps
<1>4. CASE RunAgain BY <1>4, AgainKeeps
<1>5. CASE UNCHANGED vars BY <1>5 DEF vars, FileInv, IsLoaded
<1> QED BY <1>1, <1>2, <1>3, <1>4, <1>5 DEF Next

\* It always holds.
LEMMA AlwaysFileInv == Spec => []FileInv
BY FileInit, FileStep, PTL DEF Spec

(***************************************************************************)
(* Whatever file is read, as any of the classes, and written again any     *)
(* number of times, an object's urls are lists of valid utf-8 strings.     *)
(***************************************************************************)
THEOREM TypeCorrect == Spec => []TypeOK
<1>1. FileInv => TypeOK BY DEF FileInv, TypeOK, Objects
<1> QED BY <1>1, AlwaysFileInv, PTL

(***************************************************************************)
(* "they all parse the announce and announce-list urls" (torrent.h:10):    *)
(* Torrent, TorrentAnnounceInfo and TorrentAnnounce find the same urls in  *)
(* a file, and the first two the same info, if the first of them accepts   *)
(* it; for files of any length, with any keys, nested to any depth, though *)
(* Torrent::load looks at every entry and the others look some of them up. *)
(***************************************************************************)
THEOREM LoadersAlwaysAgree == Spec => []LoadersAgree
<1>1. ASSUME FileInv PROVE LoadersAgree
  <2> SUFFICES ASSUME pc = "loaded", NEW ai, ai = LoadTorrentAnnounceInfo(file),
                      NEW an, an = LoadTorrentAnnounce(file)
               PROVE  /\ class = "Torrent" /\ t.info # NoRaw =>
                           /\ ai.ok /\ ai.t.announce = t.announce /\ ai.t.list = t.list
                           /\ ai.t.info = t.info
                      /\ class = "TorrentAnnounceInfo" =>
                           an.ok /\ an.t.announce = t.announce /\ an.t.list = t.list
    BY DEF LoadersAgree
  <2>1. PICK r : r = LoadAs(class, file, new, check) /\ r.ok /\ t = r.t BY <1>1 DEF FileInv, IsLoaded
  <2>2. file \in Seq(Token) /\ new \in Metas BY <1>1, MetaIs DEF FileInv
  <2>3. CASE class = "Torrent" /\ t.info # NoRaw
    <3>1. r = LoadTorrent(file, new, check) BY <2>1, <2>3 DEF LoadAs
    <3>2. r.t.info # NoRaw BY <2>1, <2>3
    <3>3. ai.ok /\ ai.t.announce = r.t.announce /\ ai.t.list = r.t.list /\ ai.t.info = r.t.info
      BY <2>1, <2>2, <3>1, <3>2, TorrentsAgree
    <3> QED BY <2>1, <2>3, <3>3
  <2>4. CASE class = "TorrentAnnounceInfo"
    <3>1. r = ai BY <2>1, <2>4 DEF LoadAs
    <3>2. an.ok /\ an.t.announce = ai.t.announce /\ an.t.list = ai.t.list
      BY <2>1, <2>2, <3>1, AnnouncesAgree
    <3> QED BY <2>1, <2>4, <3>1, <3>2
  <2> QED BY <2>3, <2>4
<1> QED BY <1>1, AlwaysFileInv, PTL

(***************************************************************************)
(* Torrent::load and TorrentAnnounceInfo::load accept exactly the files    *)
(* whose values, read one by one, are as they have to be: reading entry by *)
(* entry, looking keys up and stopping early make no difference, whatever  *)
(* the file, its keys and its nesting.                                     *)
(***************************************************************************)
THEOREM AcceptsAlwaysExactly == Spec => []AcceptsExactly
<1>1. ASSUME FileInv PROVE AcceptsExactly
  <2> SUFFICES ASSUME pc \in {"loaded", "rejected"}, class # "TorrentAnnounce"
               PROVE  (pc = "loaded") <=>
                        /\ Begins(file)
                        /\ HasKey(file, "announce-list") =>
                             ParseAnnounceList(ValueOf(file, "announce-list"), 1).pos # Error
                        /\ \/ class = "TorrentAnnounceInfo" /\ HasKey(file, "info")
                           \/ /\ class = "Torrent" /\ WellFormed(file)
                              /\ HasKey(file, "encoding") => ReadUtf8(ValueOf(file, "encoding"), 1) # Error
                              /\ HasKey(file, "info") => ParseInfo(ValueOf(file, "info"), 1, check) # Error
    BY DEF AcceptsExactly, Begins, UrlsFine
  <2>1. PICK r : r = LoadAs(class, file, new, check) /\ (r.ok <=> pc = "loaded")
    BY <1>1 DEF FileInv, IsLoaded
  <2>2. file \in Seq(Token) /\ new \in Metas BY <1>1, MetaIs DEF FileInv
  <2>3. CASE class = "Torrent"
    <3>1. r = LoadTorrent(file, new, check) BY <2>1, <2>3 DEF LoadAs
    <3>2. Begins(file) => At(file, 1, "d") BY DEF Begins
    <3> QED BY <2>1, <2>2, <2>3, <3>1, <3>2, TorrentExactly DEF WellFormed
  <2>4. CASE class = "TorrentAnnounceInfo"
    <3>1. r = LoadTorrentAnnounceInfo(file) BY <2>1, <2>4 DEF LoadAs
    <3> QED BY <2>1, <2>2, <2>4, <3>1, AnnounceInfoExactly
  <2> QED BY <1>1, <2>3, <2>4 DEF FileInv, Classes
<1> QED BY <1>1, AlwaysFileInv, PTL

-----------------------------------------------------------------------------
(***************************************************************************)
(* Parts of a file.                                                        *)
(***************************************************************************)
\* The tokens from p to q - 1 are those of s.
Lies(s, b, p, q) ==
  /\ p \in Nat /\ p # 0 /\ q = p + Len(s) /\ q <= Len(b) + 1
  /\ \A i \in 1..Len(s) : s[i] = b[p + i - 1]

\* As lemmas on parsing a part of a buffer say it.
LEMMA LiesThere ==
  ASSUME NEW b \in Seq(Token), NEW s \in Seq(Token), NEW p, NEW q, Lies(s, b, p, q)
  PROVE  \E d \in Nat : /\ LiesIn(s, b, d) /\ p = d + 1
                        /\ q \in Nat /\ q = p + Len(s) /\ q # 0 /\ Len(s) \in Nat
<1>1. PICK d : d = p - 1 OBVIOUS
<1>2. Len(s) \in Nat /\ Len(b) \in Nat OBVIOUS
<1>3. p \in Nat /\ p # 0 /\ q = p + Len(s) /\ q <= Len(b) + 1 BY DEF Lies
<1>4. d \in Nat /\ p = d + 1 /\ Len(s) + d <= Len(b) BY <1>1, <1>2, <1>3
<1>5. \A i \in 1..Len(s) : s[i] = b[i + d]
  <2> SUFFICES ASSUME NEW i \in 1..Len(s) PROVE s[i] = b[i + d]
    OBVIOUS
  <2>1. s[i] = b[p + i - 1] BY DEF Lies
  <2>2. p + i - 1 = i + d BY <1>2, <1>4
  <2> QED BY <2>1, <2>2
<1> QED BY <1>2, <1>3, <1>4, <1>5 DEF LiesIn

\* Two parts, one behind the other.
LEMMA LiesConcat ==
  ASSUME NEW b \in Seq(Token), NEW s \in Seq(Token), NEW u \in Seq(Token), NEW p, NEW q
  PROVE  Lies(s \o u, b, p, q) <=> \E m \in Nat : Lies(s, b, p, m) /\ Lies(u, b, m, q)
<1>1. PICK w, k, n : w = s \o u /\ k = Len(s) /\ n = Len(u) OBVIOUS
<1>2. k \in Nat /\ n \in Nat /\ Len(b) \in Nat BY <1>1
<1>3. Len(w) = k + n /\ \A i \in 1..(k + n) : w[i] = IF i <= k THEN s[i] ELSE u[i - k]
  BY <1>1, ConcatProperties
<1>4. ASSUME Lies(w, b, p, q)
      PROVE  \E m \in Nat : Lies(s, b, p, m) /\ Lies(u, b, m, q)
  <2>1. PICK m : m = p + k OBVIOUS
  <2>2. p \in Nat /\ p # 0 /\ q = p + (k + n) /\ q <= Len(b) + 1 BY <1>3, <1>4 DEF Lies
  <2>3. m \in Nat /\ m # 0 /\ q = m + n /\ m <= Len(b) + 1 BY <1>2, <2>1, <2>2
  <2>4. \A i \in 1..(k + n) : w[i] = b[p + i - 1] BY <1>3, <1>4 DEF Lies
  <2>5. \A i \in 1..k : s[i] = b[p + i - 1]
    <3> SUFFICES ASSUME NEW i \in 1..k PROVE s[i] = b[p + i - 1]
      OBVIOUS
    <3>1. i \in 1..(k + n) /\ i <= k BY <1>2
    <3> QED BY <1>3, <2>4, <3>1
  <2>6. \A i \in 1..n : u[i] = b[m + i - 1]
    <3> SUFFICES ASSUME NEW i \in 1..n PROVE u[i] = b[m + i - 1]
      OBVIOUS
    <3>1. PICK j : j = k + i OBVIOUS
    <3>2. j \in 1..(k + n) /\ ~(j <= k) /\ j - k = i /\ p + j - 1 = m + i - 1
      BY <1>2, <2>1, <2>2, <3>1
    <3>3. w[j] = u[j - k] /\ w[j] = b[p + j - 1] BY <1>3, <2>4, <3>2
    <3> QED BY <3>2, <3>3
  <2>7. Lies(s, b, p, m) BY <1>1, <2>1, <2>2, <2>3, <2>5 DEF Lies
  <2>8. Lies(u, b, m, q) BY <1>1, <2>2, <2>3, <2>6 DEF Lies
  <2> QED BY <2>3, <2>7, <2>8
<1>5. ASSUME NEW m \in Nat, Lies(s, b, p, m), Lies(u, b, m, q)
      PROVE  Lies(w, b, p, q)
  <2>1. p \in Nat /\ p # 0 /\ m = p + k /\ q = m + n /\ q <= Len(b) + 1 BY <1>1, <1>5 DEF Lies
  <2>2. \A i \in 1..k : s[i] = b[p + i - 1] BY <1>1, <1>5 DEF Lies
  <2>3. \A i \in 1..n : u[i] = b[m + i - 1] BY <1>1, <1>5 DEF Lies
  <2>4. \A i \in 1..(k + n) : w[i] = b[p + i - 1]
    <3> SUFFICES ASSUME NEW i \in 1..(k + n) PROVE w[i] = b[p + i - 1]
      OBVIOUS
    <3>1. CASE i <= k
      <4>1. i \in 1..k BY <1>2, <3>1
      <4> QED BY <1>3, <2>2, <3>1, <4>1
    <3>2. CASE ~(i <= k)
      <4>1. PICK j : j = i - k OBVIOUS
      <4>2. j \in 1..n /\ m + j - 1 = p + i - 1 BY <1>2, <2>1, <3>2, <4>1
      <4>3. w[i] = u[j] BY <1>3, <3>2, <4>1
      <4>4. u[j] = b[m + j - 1] BY <2>3, <4>2
      <4> QED BY <4>2, <4>3, <4>4
    <3> QED BY <3>1, <3>2
  <2>5. q = p + (k + n) BY <1>2, <2>1
  <2> QED BY <1>3, <2>1, <2>4, <2>5 DEF Lies
<1> QED BY <1>1, <1>4, <1>5

\* A slice lies where it has been cut out.
LEMMA SliceLies ==
  ASSUME NEW b \in Seq(Token), NEW p \in 1..(Len(b) + 1), NEW q \in p..(Len(b) + 1),
         NEW s, s = Slice(b, p, q)
  PROVE  Lies(s, b, p, q) /\ s \in Seq(Token) /\ Len(s) = q - p
<1>1. IsSlice(s, b, p, q) BY SliceIs
<1>2. Len(b) \in Nat /\ p \in Nat /\ p # 0 /\ q \in Nat /\ q <= Len(b) + 1 OBVIOUS
<1> QED BY <1>1, <1>2 DEF IsSlice, Lies

\* Only one sequence lies there.
LEMMA SameSlice ==
  ASSUME NEW b \in Seq(Token), NEW s \in Seq(Token), NEW p, NEW q, Lies(s, b, p, q)
  PROVE  Slice(b, p, q) = s
<1>1. Len(b) \in Nat /\ Len(s) \in Nat /\ p \in Nat /\ p # 0 /\ q = p + Len(s) /\ q <= Len(b) + 1
  BY DEF Lies
<1>2. p \in 1..(Len(b) + 1) /\ q \in p..(Len(b) + 1) /\ q - p = Len(s) BY <1>1
<1>3. PICK u : u = Slice(b, p, q) OBVIOUS
<1>4. IsSlice(u, b, p, q) BY <1>2, <1>3, SliceIs
<1>5. u \in Seq(Token) /\ Len(u) = Len(s) /\ \A i \in 1..Len(s) : u[i] = b[p + i - 1]
  BY <1>2, <1>4 DEF IsSlice
<1>6. \A i \in 1..Len(s) : u[i] = s[i] BY <1>5 DEF Lies
<1> QED BY <1>3, <1>5, <1>6, SeqEqual

\* Two slices next to each other.
LEMMA SlicesJoin ==
  ASSUME NEW b \in Seq(Token), NEW p \in 1..(Len(b) + 1), NEW m \in p..(Len(b) + 1),
         NEW q \in m..(Len(b) + 1)
  PROVE  Slice(b, p, q) = Slice(b, p, m) \o Slice(b, m, q)
<1>1. Len(b) \in Nat OBVIOUS
<1>2. m \in 1..(Len(b) + 1) /\ m \in Nat BY <1>1
<1>3. PICK s, u : s = Slice(b, p, m) /\ u = Slice(b, m, q) OBVIOUS
<1>4. Lies(s, b, p, m) /\ s \in Seq(Token) BY <1>2, <1>3, SliceLies
<1>5. Lies(u, b, m, q) /\ u \in Seq(Token) BY <1>2, <1>3, SliceLies
<1>6. s \o u \in Seq(Token) BY <1>4, <1>5, ConcatProperties
<1>7. Lies(s \o u, b, p, q) BY <1>2, <1>4, <1>5, LiesConcat
<1>8. Slice(b, p, q) = s \o u BY <1>6, <1>7, SameSlice
<1> QED BY <1>3, <1>8

\* A key and its value, cut out of a buffer together.
LEMMA SliceBegins ==
  ASSUME NEW b \in Seq(Token), NEW p \in 1..Len(b), NEW q \in (p + 1)..(Len(b) + 1)
  PROVE  Slice(b, p, q) = <<b[p]>> \o Slice(b, p + 1, q)
<1>1. Len(b) \in Nat /\ p \in Nat /\ b[p] \in Token OBVIOUS
<1>2. PICK m : m = p + 1 OBVIOUS
<1>3. p \in 1..(Len(b) + 1) /\ m \in p..(Len(b) + 1) /\ q \in m..(Len(b) + 1) BY <1>1, <1>2
<1>4. Slice(b, p, q) = Slice(b, p, m) \o Slice(b, m, q) BY <1>3, SlicesJoin
<1>5. PICK s : s = <<b[p]>> OBVIOUS
<1>6. s \in Seq(Token) /\ Len(s) = 1 /\ s[1] = b[p] BY <1>1, <1>5
<1>7. Lies(s, b, p, m)
  <2>1. p # 0 /\ m = p + Len(s) /\ m <= Len(b) + 1 BY <1>1, <1>2, <1>3, <1>6
  <2>2. \A i \in 1..Len(s) : i = 1 /\ p + i - 1 = p BY <1>1, <1>6
  <2> QED BY <1>1, <1>6, <2>1, <2>2 DEF Lies
<1>8. Slice(b, p, m) = s BY <1>6, <1>7, SameSlice
<1> QED BY <1>2, <1>4, <1>5, <1>8

-----------------------------------------------------------------------------
(***************************************************************************)
(* What a part of a dictionary holds, wherever in a file it stands: A are  *)
(* its entries, R those that are not for the urls, in order.  Its keys     *)
(* come after the one of rank lo and before the one of rank hi, so that    *)
(* skipping over the dictionary, and looking up a key that comes later,    *)
(* passes it.                                                              *)
(***************************************************************************)
Entry == [key : Utf8, value : Seq(Token)]

Passes(b, p, prev, q, r, hi, A, R) ==
  /\ SkipEntries(b, p, prev) = SkipEntries(b, q, r)
  /\ EntrySet(b, p) = A \cup EntrySet(b, q)
  /\ EntriesBut(b, p, UrlKeys) = R \o EntriesBut(b, q, UrlKeys)
  /\ \A search \in Str : Rank[search] >= hi => TryNext(b, p, search, prev) = TryNext(b, q, search, r)

PassesAt(s, lo, hi, A, R, b, p, q, prev) ==
  \E r \in Nat : (r = prev \/ r < hi) /\ Passes(b, p, prev, q, r, hi, A, R)

Segment(s, lo, hi, A, R) ==
  /\ s \in Seq(Token) /\ R \in Seq(Entry)
  /\ \A b \in Seq(Token), p, q, prev \in Nat :
       Lies(s, b, p, q) /\ prev <= lo => PassesAt(s, lo, hi, A, R, b, p, q, prev)

\* The last part: it holds the end of the dictionary too.
Ends(b, p, prev, q, A, R) ==
  SkipEntries(b, p, prev) = q /\ EntrySet(b, p) = A /\ EntriesBut(b, p, UrlKeys) = R

Closing(s, lo, A, R) ==
  /\ s \in Seq(Token) /\ R \in Seq(Entry)
  /\ \A b \in Seq(Token), p, q, prev \in Nat :
       Lies(s, b, p, q) /\ prev <= lo => Ends(b, p, prev, q, A, R)

\* A sequence of some elements is one of more.
LEMMA SeqOfMore ==
  ASSUME NEW A, NEW B, A \subseteq B, NEW x \in Seq(A)
  PROVE  x \in Seq(B)
<1>1. \A i \in 1..Len(x) : x[i] \in B OBVIOUS
<1>2. x \in [1..Len(x) -> B] /\ Len(x) \in Nat BY <1>1, LenProperties
<1> QED BY <1>2

\* Three sequences, the last one of other elements.
LEMMA ThreeJoin ==
  ASSUME NEW A, NEW B, NEW x \in Seq(A), NEW y \in Seq(A), NEW z \in Seq(B)
  PROVE  (x \o y) \o z = x \o (y \o z)
<1>1. PICK C : C = A \cup B OBVIOUS
<1>2. A \subseteq C /\ B \subseteq C BY <1>1
<1>3. x \in Seq(C) BY <1>2, SeqOfMore
<1>4. y \in Seq(C) BY <1>2, SeqOfMore
<1>5. z \in Seq(C) BY <1>2, SeqOfMore
<1> QED BY <1>3, <1>4, <1>5, ConcatAssociative

\* Nothing is a part.
LEMMA NoSegment ==
  ASSUME NEW lo \in Nat, NEW hi \in Nat
  PROVE  Segment(<<>>, lo, hi, {}, <<>>)
<1>1. PICK s, R : s = <<>> /\ R = <<>> OBVIOUS
<1>2. s \in Seq(Token) /\ Len(s) = 0 BY <1>1, EmptySeq
<1>3. ASSUME NEW b \in Seq(Token), NEW p \in Nat, NEW q \in Nat, NEW prev \in Nat, Lies(s, b, p, q)
      PROVE  PassesAt(s, lo, hi, {}, R, b, p, q, prev)
  <2>1. q = p BY <1>2, <1>3 DEF Lies
  <2>2. EntriesBut(b, p, UrlKeys) \in Seq(AnyEntry(b)) BY EntriesButAre
  <2>3. R \o EntriesBut(b, p, UrlKeys) = EntriesBut(b, p, UrlKeys) BY <1>1, <2>2, ConcatEmptySeq
  <2>4. Passes(b, p, prev, q, prev, hi, {}, R) BY <2>1, <2>3 DEF Passes
  <2> QED BY <2>4 DEF PassesAt
<1>4. R \in Seq(Entry) BY <1>1, EmptySeq
<1> QED BY <1>1, <1>2, <1>3, <1>4 DEF Segment

\* Two parts, the keys of the second one after those of the first.
LEMMA SegmentsJoin ==
  ASSUME NEW s, NEW u, NEW lo \in Nat, NEW m \in Nat, NEW n \in Nat, NEW hi \in Nat,
         NEW A, NEW R, NEW B, NEW Q,
         Segment(s, lo, m, A, R), Segment(u, n, hi, B, Q), lo <= n, m <= n + 1, m <= hi
  PROVE  Segment(s \o u, lo, hi, A \cup B, R \o Q)
<1>1. s \in Seq(Token) /\ R \in Seq(Entry) /\ u \in Seq(Token) /\ Q \in Seq(Entry) BY DEF Segment
<1>2. s \o u \in Seq(Token) /\ R \o Q \in Seq(Entry) BY <1>1, ConcatProperties
<1>3. ASSUME NEW b \in Seq(Token), NEW p \in Nat, NEW q \in Nat, NEW prev \in Nat,
             Lies(s \o u, b, p, q), prev <= lo
      PROVE  PassesAt(s \o u, lo, hi, A \cup B, R \o Q, b, p, q, prev)
  <2>1. PICK z \in Nat : Lies(s, b, p, z) /\ Lies(u, b, z, q) BY <1>1, <1>3, LiesConcat
  <2>2. PassesAt(s, lo, m, A, R, b, p, z, prev) BY <1>3, <2>1 DEF Segment
  <2>3. PICK r \in Nat : (r = prev \/ r < m) /\ Passes(b, p, prev, z, r, m, A, R)
    BY <2>2 DEF PassesAt
  <2>4. r <= n BY <1>3, <2>3
  <2>5. PassesAt(u, n, hi, B, Q, b, z, q, r) BY <2>1, <2>4 DEF Segment
  <2>6. PICK k \in Nat : (k = r \/ k < hi) /\ Passes(b, z, r, q, k, hi, B, Q)
    BY <2>5 DEF PassesAt
  <2>7. k = prev \/ k < hi BY <2>3, <2>6
  <2>8. SkipEntries(b, p, prev) = SkipEntries(b, q, k) BY <2>3, <2>6 DEF Passes
  <2>9. EntrySet(b, p) = (A \cup B) \cup EntrySet(b, q) BY <2>3, <2>6 DEF Passes
  <2>10. EntriesBut(b, p, UrlKeys) = (R \o Q) \o EntriesBut(b, q, UrlKeys)
    <3>1. PICK w : w = EntriesBut(b, q, UrlKeys) OBVIOUS
    <3>2. w \in Seq(AnyEntry(b)) BY <3>1, EntriesButAre
    <3>3. EntriesBut(b, p, UrlKeys) = R \o (Q \o w) BY <2>3, <2>6, <3>1 DEF Passes
    <3>4. R \in Seq(Entry) /\ Q \in Seq(Entry) BY <1>1
    <3>5. (R \o Q) \o w = R \o (Q \o w) BY ONLY <3>2, <3>4, ThreeJoin
    <3> QED BY <3>1, <3>3, <3>5
  <2>11. ASSUME NEW search \in Str, Rank[search] >= hi
         PROVE  TryNext(b, p, search, prev) = TryNext(b, q, search, k)
    <3>1. Rank[search] >= m
      <4>1. Rank[search] \in Nat BY BencodeAssumption
      <4> QED BY <2>11, <4>1
    <3>2. TryNext(b, p, search, prev) = TryNext(b, z, search, r) BY <2>3, <3>1 DEF Passes
    <3>3. TryNext(b, z, search, r) = TryNext(b, q, search, k) BY <2>6, <2>11 DEF Passes
    <3> QED BY <3>2, <3>3
  <2>12. Passes(b, p, prev, q, k, hi, A \cup B, R \o Q) BY <2>8, <2>9, <2>10, <2>11 DEF Passes
  <2> QED BY <2>7, <2>12 DEF PassesAt
<1> QED BY <1>2, <1>3 DEF Segment

\* A part and the last one.
LEMMA SegmentCloses ==
  ASSUME NEW s, NEW u, NEW lo \in Nat, NEW m \in Nat, NEW n \in Nat,
         NEW A, NEW R, NEW B, NEW Q,
         Segment(s, lo, m, A, R), Closing(u, n, B, Q), lo <= n, m <= n + 1
  PROVE  Closing(s \o u, lo, A \cup B, R \o Q)
<1>1. s \in Seq(Token) /\ R \in Seq(Entry) BY DEF Segment
<1>2. u \in Seq(Token) /\ Q \in Seq(Entry) BY DEF Closing
<1>3. s \o u \in Seq(Token) /\ R \o Q \in Seq(Entry) BY <1>1, <1>2, ConcatProperties
<1>4. ASSUME NEW b \in Seq(Token), NEW p \in Nat, NEW q \in Nat, NEW prev \in Nat,
             Lies(s \o u, b, p, q), prev <= lo
      PROVE  Ends(b, p, prev, q, A \cup B, R \o Q)
  <2>1. PICK z \in Nat : Lies(s, b, p, z) /\ Lies(u, b, z, q) BY <1>1, <1>2, <1>4, LiesConcat
  <2>2. PassesAt(s, lo, m, A, R, b, p, z, prev) BY <1>4, <2>1 DEF Segment
  <2>3. PICK r \in Nat : (r = prev \/ r < m) /\ Passes(b, p, prev, z, r, m, A, R)
    BY <2>2 DEF PassesAt
  <2>4. r <= n BY <1>4, <2>3
  <2>5. Ends(b, z, r, q, B, Q) BY <2>1, <2>4 DEF Closing
  <2> QED BY <2>3, <2>5 DEF Passes, Ends
<1> QED BY <1>3, <1>4 DEF Closing

\* The end of a dictionary.
LEMMA EndCloses ==
  ASSUME NEW lo \in Nat
  PROVE  Closing(<<E>>, lo, {}, <<>>)
<1>1. PICK s, R : s = <<E>> /\ R = <<>> OBVIOUS
<1>2. E \in Token BY DEF Token
<1>3. s \in Seq(Token) /\ Len(s) = 1 /\ s[1] = E BY <1>1, <1>2
<1>4. R \in Seq(Entry) BY <1>1, EmptySeq
<1>5. ASSUME NEW b \in Seq(Token), NEW p \in Nat, NEW q \in Nat, NEW prev \in Nat, Lies(s, b, p, q)
      PROVE  Ends(b, p, prev, q, {}, R)
  <2>1. p \in 1..Len(b) /\ q = p + 1 /\ b[p] = E
    <3>1. p # 0 /\ q = p + 1 /\ q <= Len(b) + 1 /\ Len(b) \in Nat BY <1>3, <1>5 DEF Lies
    <3>2. 1 \in 1..Len(s) /\ p + 1 - 1 = p BY <1>3
    <3>3. b[p] = E BY <1>3, <1>5, <3>2 DEF Lies
    <3> QED BY <3>1, <3>3
  <2>2. At(b, p, "e")
    <3>1. E.t = "e" BY DEF E
    <3>2. b[p].t = "e" BY ONLY <2>1, <3>1
    <3> QED BY <2>1, <3>2 DEF At
  <2>3. ~At(b, p, "s") BY <2>2, TokenIs
  <2>4. SkipEntries(b, p, prev) = q BY <2>1, <2>2, SkipEntriesIs
  <2>5. EntrySet(b, p) = {} BY <2>3, EntriesAre
  <2>6. EntriesBut(b, p, UrlKeys) = <<>> BY <2>3, EntriesButAre
  <2> QED BY <1>1, <2>4, <2>5, <2>6 DEF Ends
<1> QED BY <1>1, <1>3, <1>4, <1>5 DEF Closing

\* A sequence that is one value.
Alone(v) == v \in Seq(Token) /\ SkipValue(v, 1) = Len(v) + 1

EntryOf(key, v) == [key |-> key, value |-> v]

\* What an entry adds to those that are not for the urls.
Others(key, v) == IF key \in UrlKeys THEN <<>> ELSE <<EntryOf(key, v)>>

\* A string as a token.
LEMMA KeyIs ==
  ASSUME NEW key \in Str
  PROVE  /\ S(key) \in Token /\ <<S(key)>> \in Seq(Token) /\ Len(<<S(key)>>) = 1
         /\ \A b \in Seq(Token) : \A p \in 1..Len(b) :
              b[p] = S(key) => At(b, p, "s") /\ b[p].v = key
<1>1. S(key) \in Token BY DEF S, Token
<1>2. S(key).t = "s" /\ S(key).v = key BY DEF S
<1> QED BY <1>1, <1>2 DEF At

\* A key in a buffer is its string.
LEMMA KeyThere ==
  ASSUME NEW b \in Seq(Token), NEW p, At(b, p, "s")
  PROVE  b[p] = S(b[p].v) /\ b[p].v \in Str
<1>1. p \in 1..Len(b) /\ b[p].t = "s" BY DEF At
<1>2. b[p] \in Token BY <1>1
<1>3. D.t = "d" /\ L.t = "l" /\ E.t = "e" /\ Junk.t = "?" BY DEF D, L, E, Junk
<1>4. b[p] \in [t : {"s"}, v : Str] \cup [t : {"i"}, v : Number] BY <1>1, <1>2, <1>3 DEF Token
<1>5. b[p] \in [t : {"s"}, v : Str] BY <1>1, <1>4
<1> QED BY <1>5 DEF S

\* A value ends where it ends alone, whatever comes behind it.
LEMMA AloneEnds ==
  ASSUME NEW b \in Seq(Token), NEW v, NEW p, NEW q, Lies(v, b, p, q), Alone(v)
  PROVE  SkipValue(b, p) = q /\ q # Error /\ v # <<>>
<1>1. v \in Seq(Token) /\ SkipValue(v, 1) = Len(v) + 1 BY DEF Alone
<1>2. PICK d \in Nat : LiesIn(v, b, d) /\ p = d + 1 /\ q = p + Len(v) /\ q # 0 /\ Len(v) \in Nat
  BY <1>1, LiesThere
<1>3. PICK i, z : i = 1 /\ z = SkipValue(b, p) OBVIOUS
<1>4. i \in Nat /\ i # 0 /\ i + d = p BY <1>2, <1>3
<1>5. SkipsAlike(v, b, d, i) BY <1>1, <1>2, <1>4, SkipSeen
<1>6. SkipValue(v, i) = Seen(v, d, z) BY <1>3, <1>4, <1>5 DEF SkipsAlike
<1>7. Seen(v, d, z) = Len(v) + 1 BY <1>1, <1>3, <1>6
<1>8. z \in Nat
  <2>1. p \in Nat BY <1>2
  <2>2. SkipValue(b, p) \in EndsBehind(b, p) BY <2>1, SkipValueIs
  <2> QED BY <1>3, <2>1, <2>2 DEF EndsBehind, Error
<1>9. z - d = Len(v) + 1
  <2>1. Len(v) + 1 # 0 BY <1>2
  <2> QED BY <1>7, <2>1 DEF Seen, Error
<1>10. z = q BY <1>2, <1>8, <1>9
<1>11. v # <<>>
  <2> SUFFICES ASSUME v = <<>> PROVE FALSE
    OBVIOUS
  <2>1. i > Len(v) BY <1>3, EmptySeq
  <2>2. SkipValue(v, i) = Error BY <1>1, <1>4, <2>1, NothingBehind
  <2> QED BY <1>1, <1>2, <1>3, <2>2 DEF Error
<1> QED BY <1>2, <1>3, <1>10, <1>11 DEF Error

\* A value cut out of a buffer.
LEMMA ValueAlone ==
  ASSUME NEW b \in Seq(Token), NEW p \in Nat, p # 0, NEW q, q = SkipValue(b, p), q # Error,
         NEW v, v = Slice(b, p, q)
  PROVE  Alone(v) /\ Lies(v, b, p, q)
<1>1. q \in EndsBehind(b, p) BY SkipValueIs
<1>2. p \in 1..(Len(b) + 1) /\ q \in p..(Len(b) + 1) /\ Len(b) \in Nat /\ q \in Nat /\ p < q
  BY <1>1, ValueInside
<1>3. Lies(v, b, p, q) /\ v \in Seq(Token) BY <1>2, SliceLies
<1>4. PICK d \in Nat : LiesIn(v, b, d) /\ p = d + 1 /\ q = p + Len(v) /\ Len(v) \in Nat
  BY <1>3, LiesThere
<1>5. PICK i : i = 1 OBVIOUS
<1>6. i \in Nat /\ i # 0 /\ i + d = p BY <1>4, <1>5
<1>7. SkipsAlike(v, b, d, i) BY <1>3, <1>4, <1>6, SkipSeen
<1>8. SkipValue(v, i) = Seen(v, d, q) BY <1>6, <1>7 DEF SkipsAlike
<1>9. q <= Len(v) + d + 1 /\ q - d = Len(v) + 1 BY <1>4
<1>10. SkipValue(v, i) = Len(v) + 1 BY <1>8, <1>9 DEF Seen
<1> QED BY <1>3, <1>5, <1>10 DEF Alone

\* One entry, where it stands in a buffer.
LEMMA EntryThere ==
  ASSUME NEW key \in Utf8, NEW v, Alone(v), NEW b \in Seq(Token), NEW p \in Nat, NEW q \in Nat,
         Lies(<<S(key)>> \o v, b, p, q)
  PROVE  /\ At(b, p, "s") /\ b[p].v = key /\ p \in 1..Len(b) /\ p + 1 \in Nat /\ Lies(v, b, p + 1, q)
         /\ \A prev : NextKey(b, p, prev) <=> Rank[key] > prev
         /\ SkipValue(b, p + 1) = q /\ q # Error /\ q > p
         /\ EntryAt(b, p) = EntryOf(key, v)
<1>1. key \in Str BY BencodeAssumption
<1>2. v \in Seq(Token) BY DEF Alone
<1>3. PICK s : s = <<S(key)>> OBVIOUS
<1>4. s \in Seq(Token) /\ Len(s) = 1 /\ s[1] = S(key) BY <1>1, <1>3, KeyIs
<1>5. PICK m \in Nat : Lies(s, b, p, m) /\ Lies(v, b, m, q) BY <1>2, <1>3, <1>4, LiesConcat
<1>6. m = p + 1 /\ p # 0 /\ m <= Len(b) + 1 /\ Len(b) \in Nat BY <1>4, <1>5 DEF Lies
<1>7. b[p] = S(key) /\ p \in 1..Len(b)
  <2>1. 1 \in 1..Len(s) /\ p + 1 - 1 = p BY <1>4
  <2>2. s[1] = b[p] BY <1>5, <2>1 DEF Lies
  <2> QED BY <1>4, <1>6, <2>2
<1>8. At(b, p, "s") /\ b[p].v = key BY <1>1, <1>7, KeyIs
<1>9. \A prev : NextKey(b, p, prev) <=> Rank[key] > prev BY <1>8, TokenIs
<1>10. SkipValue(b, m) = q /\ q # Error BY <1>5, AloneEnds
<1>11. q > p
  <2>1. q = m + Len(v) /\ Len(v) \in Nat BY <1>2, <1>5 DEF Lies
  <2> QED BY <1>6, <2>1
<1>12. EntryAt(b, p) = EntryOf(key, v)
  <2>1. Slice(b, m, q) = v BY <1>2, <1>5, SameSlice
  <2> QED BY <1>6, <1>8, <1>10, <2>1 DEF EntryAt, EntryOf
<1> QED BY <1>5, <1>6, <1>7, <1>8, <1>9, <1>10, <1>11, <1>12

\* One entry is a part.
LEMMA EntrySegment ==
  ASSUME NEW key \in Utf8, NEW v, Alone(v), NEW lo \in Nat, NEW hi \in Nat,
         lo < Rank[key], Rank[key] < hi
  PROVE  Segment(<<S(key)>> \o v, lo, hi, {EntryOf(key, v)}, Others(key, v))
<1>1. PICK s, R, A, n : s = <<S(key)>> \o v /\ R = Others(key, v) /\ A = {EntryOf(key, v)} /\ n = Rank[key]
  OBVIOUS
<1>2. key \in Str /\ v \in Seq(Token) /\ n \in Nat BY <1>1, BencodeAssumption DEF Alone
<1>3. s \in Seq(Token)
  <2>1. <<S(key)>> \in Seq(Token) BY <1>2, KeyIs
  <2> QED BY <1>1, <1>2, <2>1, ConcatProperties
<1>4. R \in Seq(Entry)
  <2>1. EntryOf(key, v) \in Entry BY <1>2 DEF Entry, EntryOf
  <2>2. <<EntryOf(key, v)>> \in Seq(Entry) BY <2>1
  <2> QED BY <1>1, <2>2, EmptySeq DEF Others
<1>5. ASSUME NEW b \in Seq(Token), NEW p \in Nat, NEW q \in Nat, NEW prev \in Nat,
             Lies(s, b, p, q), prev <= lo
      PROVE  PassesAt(s, lo, hi, A, R, b, p, q, prev)
  <2>1. /\ At(b, p, "s") /\ b[p].v = key
        /\ \A k : NextKey(b, p, k) <=> Rank[key] > k
        /\ SkipValue(b, p + 1) = q /\ q # Error
        /\ EntryAt(b, p) = EntryOf(key, v)
    BY <1>1, <1>5, EntryThere
  <2>2. n > prev BY <1>1, <1>2, <1>5
  <2>3. NextKey(b, p, prev) BY <1>1, <2>1, <2>2
  <2>4. ~At(b, p, "e") BY <2>1, TokenIs
  <2>5. SkipEntries(b, p, prev) = SkipEntries(b, q, n) BY <1>1, <2>1, <2>3, <2>4, SkipEntriesIs
  <2>6. EntrySet(b, p) = A \cup EntrySet(b, q) BY <1>1, <2>1, EntriesAre
  <2>7. EntriesBut(b, p, UrlKeys) = R \o EntriesBut(b, q, UrlKeys)
    <3>1. PICK keys : keys = UrlKeys OBVIOUS
    <3>2. EntriesBut(b, p, keys) = (IF b[p].v \in keys THEN <<>> ELSE <<EntryAt(b, p)>>)
                                     \o EntriesBut(b, SkipValue(b, p + 1), keys)
      BY <2>1, EntriesButAre
    <3>3. R = IF b[p].v \in keys THEN <<>> ELSE <<EntryAt(b, p)>> BY <1>1, <2>1, <3>1 DEF Others
    <3> QED BY <2>1, <3>1, <3>2, <3>3
  <2>8. ASSUME NEW search \in Str, Rank[search] >= hi
        PROVE  TryNext(b, p, search, prev) = TryNext(b, q, search, n)
    <3>1. Rank[search] \in Nat /\ n # Rank[search] /\ ~(n > Rank[search])
      <4>1. Rank[search] \in Nat BY BencodeAssumption
      <4> QED BY <1>1, <1>2, <2>8, <4>1
    <3>2. TryNext(b, p, search, prev) = TryTurn(b, p, search, n, q)
      <4>1. TryNext(b, p, search, prev) = TryTurn(b, p, search, Rank[b[p].v], SkipValue(b, p + 1))
        BY <2>3, <2>4, TryNextTurn
      <4> QED BY <1>1, <2>1, <4>1
    <3> QED BY <2>1, <3>1, <3>2 DEF TryTurn
  <2>9. Passes(b, p, prev, q, n, hi, A, R) BY <2>5, <2>6, <2>7, <2>8 DEF Passes
  <2>10. n < hi BY <1>1
  <2> QED BY <1>2, <2>9, <2>10 DEF PassesAt
<1> QED BY <1>1, <1>3, <1>4, <1>5 DEF Segment

-----------------------------------------------------------------------------
(***************************************************************************)
(* What try_next_dict_entry skips is a part, and so is the rest of a       *)
(* dictionary.                                                             *)
(***************************************************************************)
Cuts(b, p, prev, search, z) ==
  /\ p \in 1..Len(b) /\ Len(b) \in Nat /\ z \in p..(Len(b) + 1)
  /\ \E A, R : Segment(Slice(b, p, z), prev, Rank[search], A, R)

\* An entry and its value, cut out.
LEMMA EntryCut ==
  ASSUME NEW b \in Seq(Token), NEW p \in Nat, NEW prev \in Nat, NEW k, k = Rank[b[p].v],
         NextKey(b, p, prev), NEW q, q = SkipValue(b, p + 1), q # Error
  PROVE  /\ p \in 1..Len(b) /\ Len(b) \in Nat /\ q \in (p + 1)..(Len(b) + 1) /\ q \in Nat /\ q > p
         /\ k \in Nat /\ k > prev
         /\ \E A, R : Segment(Slice(b, p, q), prev, k + 1, A, R)
<1>1. PICK key : key = b[p].v OBVIOUS
<1>2. /\ key \in Utf8 /\ key \in Str /\ k \in Nat /\ k > prev /\ p \in 1..Len(b) /\ Len(b) \in Nat
      /\ At(b, p, "s")
  BY <1>1, TokenIs
<1>3. p + 1 \in Nat /\ p + 1 # 0 BY <1>2
<1>4. q \in EndsBehind(b, p + 1) BY <1>3, SkipValueIs
<1>5. q \in (p + 1)..(Len(b) + 1) /\ q \in Nat /\ q > p BY <1>2, <1>3, <1>4, ValueInside
<1>6. PICK v : v = Slice(b, p + 1, q) OBVIOUS
<1>7. Alone(v) BY <1>3, <1>6, ValueAlone
<1>8. Slice(b, p, q) = <<S(key)>> \o v
  <2>1. Slice(b, p, q) = <<b[p]>> \o Slice(b, p + 1, q) BY <1>2, <1>5, SliceBegins
  <2>2. b[p] = S(key) BY <1>1, <1>2, KeyThere
  <2> QED BY <1>6, <2>1, <2>2
<1>9. PICK hi : hi = k + 1 OBVIOUS
<1>10. hi \in Nat /\ prev < Rank[key] /\ Rank[key] < hi BY <1>1, <1>2, <1>9
<1>11. Segment(<<S(key)>> \o v, prev, hi, {EntryOf(key, v)}, Others(key, v))
  BY <1>2, <1>7, <1>10, EntrySegment
<1> QED BY <1>2, <1>5, <1>8, <1>9, <1>11

\* No tokens.
LEMMA EmptySlice ==
  ASSUME NEW b \in Seq(Token), NEW p \in 1..Len(b), NEW lo \in Nat, NEW hi \in Nat
  PROVE  \E A, R : Segment(Slice(b, p, p), lo, hi, A, R)
<1>1. Len(b) \in Nat OBVIOUS
<1>2. p \in 1..(Len(b) + 1) /\ p \in p..(Len(b) + 1) BY <1>1
<1>3. PICK s : s = Slice(b, p, p) OBVIOUS
<1>4. s \in Seq(Token) /\ Len(s) = p - p BY <1>2, <1>3, SliceLies
<1>5. s = <<>>
  <2>1. Len(s) = 0 BY <1>1, <1>4
  <2> QED BY <1>4, <2>1, EmptySeq
<1>6. Segment(<<>>, lo, hi, {}, <<>>) BY NoSegment
<1> QED BY <1>3, <1>5, <1>6

\* What is skipped in search of a key.
LEMMA SliceSegment ==
  ASSUME NEW b \in Seq(Token), NEW p \in Nat, p # 0, NEW prev \in Nat, NEW search \in Str,
         NEW e, e = TryNext(b, p, search, prev), e.pos # Error
  PROVE  Cuts(b, p, prev, search, e.to)
<1>1. PICK hi : hi = Rank[search] OBVIOUS
<1>2. hi \in Nat BY <1>1, BencodeAssumption
<1> DEFINE T == {n \in Nat : \A k \in Nat : n # 0 /\ TryNext(b, n, search, k).pos # Error =>
                               Cuts(b, n, k, search, TryNext(b, n, search, k).to)}
<1>3. ASSUME NEW n \in Nat, \A q \in Nat : q > n /\ n <= Len(b) => q \in T PROVE n \in T
  <2> SUFFICES ASSUME NEW k \in Nat, n # 0, NEW f, f = TryNext(b, n, search, k), f.pos # Error
               PROVE  Cuts(b, n, k, search, f.to)
    OBVIOUS
  <2>1. ASSUME n \in 1..Len(b), f.to = n PROVE Cuts(b, n, k, search, f.to)
    <3>1. \E A, R : Segment(Slice(b, n, n), k, hi, A, R) BY <1>2, <2>1, EmptySlice
    <3>2. Len(b) \in Nat OBVIOUS
    <3>3. n \in n..(Len(b) + 1) BY <2>1, <3>2
    <3> QED BY <1>1, <2>1, <3>1, <3>2, <3>3 DEF Cuts
  <2>2. CASE At(b, n, "e")
    <3>1. f.to = n
      <4>1. f = [found |-> FALSE, pos |-> n, to |-> n] BY <2>2, TryNextIs
      <4> QED BY <4>1
    <3>2. n \in 1..Len(b) BY <2>2, TokenIs
    <3> QED BY <2>1, <3>1, <3>2
  <2>3. CASE ~At(b, n, "e") /\ ~NextKey(b, n, k)
    <3>1. f.pos = Error
      <4>1. f = [found |-> FALSE, pos |-> Error, to |-> n] BY <2>3, TryNextIs
      <4> QED BY <4>1
    <3> QED BY <3>1
  <2>4. CASE ~At(b, n, "e") /\ NextKey(b, n, k)
    <3>1. PICK q, r : q = SkipValue(b, n + 1) /\ r = Rank[b[n].v] OBVIOUS
    <3>2. f = TryTurn(b, n, search, r, q) BY <2>4, <3>1, TryNextTurn
    <3>3. n \in 1..Len(b) /\ r \in Nat /\ r > k BY <2>4, <3>1, TokenIs
    <3>4. CASE r >= hi
      <4>1. f.to = n BY <1>1, <1>2, <3>2, <3>3, <3>4 DEF TryTurn
      <4> QED BY <2>1, <3>3, <4>1
    <3>5. CASE r < hi
      <4>1. r # hi /\ ~(r > hi) BY <1>2, <3>3, <3>5
      <4>2. q # Error /\ f = TryNext(b, q, search, r) BY <1>1, <3>2, <4>1 DEF TryTurn
      <4>3. /\ n \in 1..Len(b) /\ Len(b) \in Nat /\ q \in (n + 1)..(Len(b) + 1) /\ q \in Nat /\ q > n
            /\ \E A, R : Segment(Slice(b, n, q), k, r + 1, A, R)
        BY <2>4, <3>1, <4>2, EntryCut
      <4>4. q \in T BY <1>3, <4>3
      <4>5. Cuts(b, q, r, search, f.to)
        <5>1. q # 0 BY <4>2 DEF Error
        <5> QED BY <3>3, <4>2, <4>4, <5>1
      <4>6. PICK z : z = f.to OBVIOUS
      <4>7. z \in q..(Len(b) + 1) BY <4>5, <4>6 DEF Cuts
      <4>8. PICK A, R : Segment(Slice(b, n, q), k, r + 1, A, R) BY <4>3
      <4>9. PICK B, Q : Segment(Slice(b, q, z), r, hi, B, Q) BY <1>1, <4>5, <4>6 DEF Cuts
      <4>10. PICK m : m = r + 1 OBVIOUS
      <4>11. m \in Nat /\ k <= r /\ m <= r + 1 /\ m <= hi BY <1>2, <3>3, <3>5, <4>10
      <4>12. Segment(Slice(b, n, q) \o Slice(b, q, z), k, hi, A \cup B, R \o Q)
        BY <1>2, <3>3, <4>8, <4>9, <4>10, <4>11, SegmentsJoin
      <4>13. n \in 1..(Len(b) + 1) /\ q \in n..(Len(b) + 1) /\ z \in n..(Len(b) + 1)
        BY <4>3, <4>7
      <4>14. Slice(b, n, z) = Slice(b, n, q) \o Slice(b, q, z) BY <4>7, <4>13, SlicesJoin
      <4>15. \E C, W : Segment(Slice(b, n, z), k, hi, C, W) BY <4>12, <4>14
      <4> QED BY <1>1, <4>3, <4>6, <4>13, <4>15 DEF Cuts
    <3> QED BY <1>2, <3>3, <3>4, <3>5
  <2> QED BY <2>2, <2>3, <2>4
<1>4. T = Nat
  <2>1. T \in SUBSET Nat OBVIOUS
  <2> HIDE DEF T
  <2> QED BY <1>3, <2>1, PositionInduction
<1>5. p \in T BY <1>4
<1> QED BY <1>5

\* The rest of a dictionary.
CutsEnd(b, p, prev, q) ==
  /\ p \in 1..Len(b) /\ Len(b) \in Nat /\ q \in (p + 1)..(Len(b) + 1)
  /\ \E A, R : Closing(Slice(b, p, q), prev, A, R)

\* It is the last part.
LEMMA SliceCloses ==
  ASSUME NEW b \in Seq(Token), NEW p \in Nat, p # 0, NEW prev \in Nat,
         NEW z, z = SkipEntries(b, p, prev), z # Error
  PROVE  CutsEnd(b, p, prev, z)
<1> DEFINE T == {n \in Nat : \A k \in Nat : n # 0 /\ SkipEntries(b, n, k) # Error =>
                               CutsEnd(b, n, k, SkipEntries(b, n, k))}
<1>1. ASSUME NEW n \in Nat, \A q \in Nat : q > n /\ n <= Len(b) => q \in T PROVE n \in T
  <2> SUFFICES ASSUME NEW k \in Nat, n # 0, NEW x, x = SkipEntries(b, n, k), x # Error
               PROVE  CutsEnd(b, n, k, x)
    OBVIOUS
  <2>1. CASE At(b, n, "e")
    <3>1. x = n + 1 BY <2>1, SkipEntriesIs
    <3>2. n \in 1..Len(b) /\ Len(b) \in Nat BY <2>1, TokenIs
    <3>3. n \in 1..(Len(b) + 1) /\ x \in n..(Len(b) + 1) /\ x \in (n + 1)..(Len(b) + 1) BY <3>1, <3>2
    <3>4. b[n] = E
      <4>1. b[n] \in Token /\ b[n].t = "e" BY <2>1, <3>2 DEF At
      <4>2. D.t = "d" /\ L.t = "l" /\ Junk.t = "?" BY DEF D, L, Junk
      <4> QED BY <4>1, <4>2 DEF Token
    <3>5. Slice(b, n, x) = <<E>>
      <4>1. PICK s : s = Slice(b, n, x) OBVIOUS
      <4>2. s \in Seq(Token) /\ Len(s) = x - n /\ Lies(s, b, n, x) BY <3>3, <4>1, SliceLies
      <4>3. Len(s) = 1 BY <3>1, <3>2, <4>2
      <4>4. s[1] = E
        <5>1. 1 \in 1..Len(s) /\ n + 1 - 1 = n BY <3>2, <4>3
        <5> QED BY <3>4, <4>2, <5>1 DEF Lies
      <4>5. \A i \in 1..Len(s) : i = 1 BY <4>3
      <4>6. E \in Token BY DEF Token
      <4>7. PICK u : u = <<E>> OBVIOUS
      <4>8. u \in Seq(Token) /\ Len(u) = 1 /\ u[1] = E BY <4>6, <4>7
      <4>9. s = u BY <4>2, <4>3, <4>4, <4>5, <4>8, SeqEqual
      <4> QED BY <4>1, <4>7, <4>9
    <3>6. Closing(<<E>>, k, {}, <<>>) BY EndCloses
    <3> QED BY <3>2, <3>3, <3>5, <3>6 DEF CutsEnd
  <2>2. CASE ~At(b, n, "e")
    <3>1. PICK q, r : q = SkipValue(b, n + 1) /\ r = Rank[b[n].v] OBVIOUS
    <3>2. NextKey(b, n, k) /\ q # Error /\ x = SkipEntries(b, q, r) BY <2>2, <3>1, SkipEntriesIs
    <3>3. /\ n \in 1..Len(b) /\ Len(b) \in Nat /\ q \in (n + 1)..(Len(b) + 1) /\ q \in Nat /\ q > n
          /\ r \in Nat /\ r > k
          /\ \E A, R : Segment(Slice(b, n, q), k, r + 1, A, R)
      BY <3>1, <3>2, EntryCut
    <3>4. q \in T BY <1>1, <3>3
    <3>5. CutsEnd(b, q, r, x)
      <4>1. q # 0 BY <3>2 DEF Error
      <4> QED BY <3>2, <3>3, <3>4, <4>1
    <3>6. x \in (q + 1)..(Len(b) + 1) BY <3>5 DEF CutsEnd
    <3>7. PICK A, R : Segment(Slice(b, n, q), k, r + 1, A, R) BY <3>3
    <3>8. PICK B, Q : Closing(Slice(b, q, x), r, B, Q) BY <3>5 DEF CutsEnd
    <3>9. PICK m : m = r + 1 OBVIOUS
    <3>10. m \in Nat /\ k <= r /\ m <= r + 1 BY <3>3, <3>9
    <3>11. Closing(Slice(b, n, q) \o Slice(b, q, x), k, A \cup B, R \o Q)
      BY <3>3, <3>7, <3>8, <3>9, <3>10, SegmentCloses
    <3>12. n \in 1..(Len(b) + 1) /\ q \in n..(Len(b) + 1) /\ x \in q..(Len(b) + 1)
           /\ x \in (n + 1)..(Len(b) + 1)
      BY <3>3, <3>6
    <3>13. Slice(b, n, x) = Slice(b, n, q) \o Slice(b, q, x) BY <3>12, SlicesJoin
    <3>14. \E C, W : Closing(Slice(b, n, x), k, C, W) BY <3>11, <3>13
    <3> QED BY <3>3, <3>12, <3>14 DEF CutsEnd
  <2> QED BY <2>1, <2>2
<1>2. T = Nat
  <2>1. T \in SUBSET Nat OBVIOUS
  <2> HIDE DEF T
  <2> QED BY <1>1, <2>1, PositionInduction
<1>3. p \in T BY <1>2
<1> QED BY <1>3

-----------------------------------------------------------------------------
(***************************************************************************)
(* An announce-list that has been written is read as it was: reading a     *)
(* part of it turns the groups g into h, open or not.                      *)
(***************************************************************************)
Turns(u, o, g, x, h) ==
  \A b \in Seq(Token), p, q \in Nat : Lies(u, b, p, q) => GroupsFrom(b, p, o, g) = GroupsFrom(b, q, x, h)

Group(s) == <<L>> \o Strings(s) \o <<E>>
GroupsOf(list) == [n \in 1..Len(list) |-> Group(list[n])]

\* One part behind another.
LEMMA TurnsJoin ==
  ASSUME NEW u \in Seq(Token), NEW v \in Seq(Token), NEW o, NEW g, NEW x, NEW h, NEW y, NEW k,
         Turns(u, o, g, x, h), Turns(v, x, h, y, k)
  PROVE  Turns(u \o v, o, g, y, k)
<1> SUFFICES ASSUME NEW b \in Seq(Token), NEW p \in Nat, NEW q \in Nat, Lies(u \o v, b, p, q)
             PROVE  GroupsFrom(b, p, o, g) = GroupsFrom(b, q, y, k)
  BY DEF Turns
<1>1. PICK m \in Nat : Lies(u, b, p, m) /\ Lies(v, b, m, q) BY LiesConcat
<1>2. GroupsFrom(b, p, o, g) = GroupsFrom(b, m, x, h) BY <1>1 DEF Turns
<1>3. GroupsFrom(b, m, x, h) = GroupsFrom(b, q, y, k) BY <1>1 DEF Turns
<1> QED BY <1>2, <1>3

\* A token that lies somewhere.
LEMMA OneLies ==
  ASSUME NEW k \in Token, NEW b \in Seq(Token), NEW p \in Nat, NEW q \in Nat, Lies(<<k>>, b, p, q)
  PROVE  p \in 1..Len(b) /\ q = p + 1 /\ b[p] = k
<1>1. PICK s : s = <<k>> OBVIOUS
<1>2. Len(s) = 1 /\ s[1] = k BY <1>1
<1>3. p # 0 /\ q = p + 1 /\ q <= Len(b) + 1 /\ Len(b) \in Nat BY <1>1, <1>2 DEF Lies
<1>4. 1 \in 1..Len(s) /\ p + 1 - 1 = p BY <1>2
<1>5. s[1] = b[p] BY <1>1, <1>4 DEF Lies
<1> QED BY <1>2, <1>3, <1>5

\* A group begins, ends, or gets a string.
LEMMA TokenTurns ==
  ASSUME NEW g \in Seq(Seq(Str))
  PROVE  /\ Turns(<<L>>, FALSE, g, TRUE, Append(g, <<>>))
         /\ Turns(<<E>>, TRUE, g, FALSE, g)
         /\ \A s \in Utf8 : Turns(<<S(s)>>, TRUE, g, TRUE, Join(g, s))
<1>1. L \in Token /\ E \in Token /\ L.t = "l" /\ E.t = "e"
  <2>1. L \in Token /\ E \in Token BY DEF Token
  <2>2. L.t = "l" BY DEF L
  <2>3. E.t = "e" BY DEF E
  <2> QED BY <2>1, <2>2, <2>3
<1>2. Turns(<<L>>, FALSE, g, TRUE, Append(g, <<>>))
  <2> SUFFICES ASSUME NEW b \in Seq(Token), NEW p \in Nat, NEW q \in Nat, Lies(<<L>>, b, p, q)
               PROVE  GroupsFrom(b, p, FALSE, g) = GroupsFrom(b, q, TRUE, Append(g, <<>>))
    BY DEF Turns
  <2>1. p \in 1..Len(b) /\ q = p + 1 /\ b[p] = L BY <1>1, OneLies
  <2>2. b[p].t = "l" BY <1>1, <2>1
  <2>3. At(b, p, "l") /\ ~At(b, p, "e") BY <2>1, <2>2 DEF At
  <2>4. GroupsFrom(b, p, FALSE, g) = GroupsTurn(b, p, FALSE, g) BY GroupsIs
  <2> QED BY <2>1, <2>3, <2>4 DEF GroupsTurn
<1>3. Turns(<<E>>, TRUE, g, FALSE, g)
  <2> SUFFICES ASSUME NEW b \in Seq(Token), NEW p \in Nat, NEW q \in Nat, Lies(<<E>>, b, p, q)
               PROVE  GroupsFrom(b, p, TRUE, g) = GroupsFrom(b, q, FALSE, g)
    BY DEF Turns
  <2>1. p \in 1..Len(b) /\ q = p + 1 /\ b[p] = E BY <1>1, OneLies
  <2>2. b[p].t = "e" BY <1>1, <2>1
  <2>3. At(b, p, "e") BY <2>1, <2>2 DEF At
  <2>4. GroupsFrom(b, p, TRUE, g) = GroupsTurn(b, p, TRUE, g) BY GroupsIs
  <2> QED BY <2>1, <2>3, <2>4 DEF GroupsTurn
<1>4. ASSUME NEW s \in Utf8 PROVE Turns(<<S(s)>>, TRUE, g, TRUE, Join(g, s))
  <2> SUFFICES ASSUME NEW b \in Seq(Token), NEW p \in Nat, NEW q \in Nat, Lies(<<S(s)>>, b, p, q)
               PROVE  GroupsFrom(b, p, TRUE, g) = GroupsFrom(b, q, TRUE, Join(g, s))
    BY DEF Turns
  <2>1. s \in Str BY BencodeAssumption
  <2>2. PICK k : k = S(s) OBVIOUS
  <2>3. k \in Token BY <2>1, <2>2, KeyIs
  <2>4. p \in 1..Len(b) /\ q = p + 1 /\ b[p] = k BY <2>2, <2>3, OneLies
  <2>5. At(b, p, "s") /\ b[p].v = s BY <2>1, <2>2, <2>4, KeyIs
  <2>6. ~At(b, p, "e") /\ ~At(b, p, "l") BY <2>5, TokenIs
  <2>7. ReadUtf8(b, p) # Error BY <2>4, <2>5 DEF ReadUtf8, Error
  <2>8. GroupsFrom(b, p, TRUE, g) = GroupsTurn(b, p, TRUE, g) BY GroupsIs
  <2> QED BY <2>4, <2>5, <2>6, <2>7, <2>8 DEF GroupsTurn
<1> QED BY <1>2, <1>3, <1>4

\* Groups of utf-8 strings are groups of strings.
LEMMA SeqsOfMore ==
  ASSUME NEW g \in Seq(Seq(Utf8))
  PROVE  g \in Seq(Seq(Str))
<1>1. Utf8 \subseteq Str BY BencodeAssumption
<1>2. \A x \in Seq(Utf8) : x \in Seq(Str) BY <1>1, SeqOfMore
<1>3. Seq(Utf8) \subseteq Seq(Str) BY <1>2
<1> QED BY <1>3, SeqOfMore

\* One string more.
LEMMA StringsAppend ==
  ASSUME NEW s \in Seq(Utf8), NEW c \in Utf8
  PROVE  Strings(s) \in Seq(Token) /\ Strings(Append(s, c)) = Strings(s) \o <<S(c)>>
<1>1. PICK n, w : n = Len(s) /\ w = Append(s, c) OBVIOUS
<1>2. n \in Nat /\ Len(w) = n + 1 /\ w[n + 1] = c /\ \A i \in 1..n : w[i] = s[i]
  BY <1>1, AppendProperties
<1>3. Utf8 \subseteq Str BY BencodeAssumption
<1>4. ASSUME NEW y \in Seq(Utf8)
      PROVE  Strings(y) \in Seq(Token) /\ Len(Strings(y)) = Len(y)
             /\ \A i \in 1..Len(y) : Strings(y)[i] = S(y[i])
  <2>1. PICK m, x, K : m = Len(y) /\ x = Strings(y) /\ K = Token OBVIOUS
  <2>2. m \in Nat /\ \A i \in 1..m : S(y[i]) \in K
    <3>1. \A i \in 1..Len(y) : y[i] \in Str BY <1>3
    <3> QED BY <2>1, <3>1, KeyIs
  <2>3. x = [i \in 1..m |-> S(y[i])] BY <2>1 DEF Strings
  <2>4. x \in [1..m -> K] BY <2>2, <2>3
  <2>5. x \in Seq(K) /\ Len(x) = m BY ONLY <2>2, <2>4
  <2>6. \A i \in 1..m : x[i] = S(y[i]) BY <2>3
  <2> QED BY <2>1, <2>5, <2>6
<1>5. w \in Seq(Utf8) BY <1>1, AppendProperties
<1>6. PICK x, u, z : x = Strings(w) /\ u = Strings(s) /\ z = <<S(c)>> OBVIOUS
<1>7. x \in Seq(Token) /\ Len(x) = n + 1 /\ \A i \in 1..(n + 1) : x[i] = S(w[i])
  BY <1>2, <1>4, <1>5, <1>6
<1>8. u \in Seq(Token) /\ Len(u) = n /\ \A i \in 1..n : u[i] = S(s[i]) BY <1>1, <1>4, <1>6
<1>9. z \in Seq(Token) /\ Len(z) = 1 /\ z[1] = S(c) BY <1>3, <1>6, KeyIs
<1>10. u \o z \in Seq(Token) /\ Len(u \o z) = n + 1
       /\ \A i \in 1..(n + 1) : (u \o z)[i] = IF i <= n THEN u[i] ELSE z[i - n]
  <2>1. /\ u \o z \in Seq(Token) /\ Len(u \o z) = Len(u) + Len(z)
        /\ \A i \in 1..(Len(u) + Len(z)) : (u \o z)[i] = IF i <= Len(u) THEN u[i] ELSE z[i - Len(u)]
    BY <1>8, <1>9, ConcatProperties
  <2>2. Len(u) = n /\ Len(z) = 1 BY <1>8, <1>9
  <2> QED BY ONLY <2>1, <2>2
<1>11. ASSUME NEW i \in 1..(n + 1) PROVE x[i] = (u \o z)[i]
  <2>1. CASE i <= n
    <3>1. i \in 1..n BY <1>2, <2>1
    <3>2. (u \o z)[i] = u[i] BY <1>10, <2>1
    <3> QED BY <1>2, <1>7, <1>8, <3>1, <3>2
  <2>2. CASE ~(i <= n)
    <3>1. i = n + 1 /\ i - n = 1 BY <1>2, <2>2
    <3>2. (u \o z)[i] = z[1] BY <1>10, <2>2, <3>1
    <3> QED BY <1>2, <1>7, <1>9, <3>1, <3>2
  <2> QED BY <2>1, <2>2
<1>12. x = u \o z BY <1>7, <1>10, <1>11, SeqEqual
<1> QED BY <1>1, <1>6, <1>8, <1>12

\* The strings of a group come behind the ones before.
LEMMA StringsTurn ==
  ASSUME NEW g \in Seq(Seq(Utf8)), NEW s \in Seq(Utf8)
  PROVE  Turns(Strings(s), TRUE, Append(g, <<>>), TRUE, Append(g, s))
<1>1. Utf8 \subseteq Str BY BencodeAssumption
<1> DEFINE T == {y \in Seq(Utf8) : Turns(Strings(y), TRUE, Append(g, <<>>), TRUE, Append(g, y))}
<1>2. <<>> \in T
  <2>1. PICK y, h : y = <<>> /\ h = Append(g, <<>>) OBVIOUS
  <2>2. y \in Seq(Utf8) /\ Len(y) = 0 BY <2>1, EmptySeq
  <2>3. PICK x : x = Strings(y) OBVIOUS
  <2>4. Len(x) = 0
    <3>1. x = [i \in 1..0 |-> S(y[i])] BY <2>2, <2>3 DEF Strings
    <3> QED BY <3>1
  <2>5. Turns(x, TRUE, h, TRUE, h)
    <3> SUFFICES ASSUME NEW b \in Seq(Token), NEW p \in Nat, NEW q \in Nat, Lies(x, b, p, q)
                 PROVE  GroupsFrom(b, p, TRUE, h) = GroupsFrom(b, q, TRUE, h)
      BY DEF Turns
    <3>1. q = p BY <2>4 DEF Lies
    <3> QED BY <3>1
  <2> QED BY <2>1, <2>2, <2>3, <2>5
<1>3. ASSUME NEW y \in T, NEW c \in Utf8 PROVE Append(y, c) \in T
  <2>1. y \in Seq(Utf8) /\ Append(y, c) \in Seq(Utf8) BY AppendProperties
  <2>2. PICK h, k, u, v, w : /\ h = Append(g, <<>>) /\ k = Append(g, y) /\ u = Strings(y)
                             /\ v = <<S(c)>> /\ w = Append(y, c)
    OBVIOUS
  <2>3. Turns(u, TRUE, h, TRUE, k) BY <2>2
  <2>4. k \in Seq(Seq(Utf8)) /\ k # <<>> /\ Len(k) = Len(g) + 1 /\ Len(g) \in Nat /\ k[Len(g) + 1] = y
        /\ \A i \in 1..Len(g) : k[i] = g[i]
    <3>1. PICK K : K = Seq(Utf8) OBVIOUS
    <3>2. g \in Seq(K) /\ y \in K BY <2>1, <3>1
    <3>3. /\ Append(g, y) \in Seq(K) /\ Append(g, y) # <<>> /\ Len(Append(g, y)) = Len(g) + 1
          /\ Append(g, y)[Len(g) + 1] = y /\ \A i \in 1..Len(g) : Append(g, y)[i] = g[i]
      BY <3>2, AppendProperties
    <3>4. Len(g) \in Nat BY <3>2
    <3> QED BY <2>2, <3>1, <3>3, <3>4
  <2>5. k \in Seq(Seq(Str)) BY <2>4, SeqsOfMore
  <2>6. Turns(v, TRUE, k, TRUE, Join(k, c)) BY <2>2, <2>5, TokenTurns
  <2>7. Join(k, c) = Append(g, w)
    <3>1. PICK j, z : j = Join(k, c) /\ z = Append(g, w) OBVIOUS
    <3>2. j = [k EXCEPT ![Len(k)] = Append(k[Len(k)], c)] BY <2>4, <3>1 DEF Join
    <3>3. j \in Seq(Seq(Utf8)) BY <2>4, <3>1, JoinType
    <3>4. z \in Seq(Seq(Utf8)) /\ Len(z) = Len(g) + 1 /\ z[Len(g) + 1] = w
          /\ \A i \in 1..Len(g) : z[i] = g[i]
      BY <2>1, <2>2, <3>1, AppendProperties
    <3>5. DOMAIN j = DOMAIN k BY <3>2
    <3>6. Len(j) = Len(k)
      <4>1. DOMAIN j = 1..Len(j) /\ Len(j) \in Nat BY <3>3
      <4>2. DOMAIN k = 1..Len(k) /\ Len(k) \in Nat BY <2>4
      <4>3. PICK n, m : n = Len(j) /\ m = Len(k) OBVIOUS
      <4>4. n \in Nat /\ m \in Nat /\ 1..n = 1..m BY <3>5, <4>1, <4>2, <4>3
      <4>5. n = m BY ONLY <4>4
      <4> QED BY <4>3, <4>5
    <3>7. \A i \in 1..(Len(g) + 1) : j[i] = IF i = Len(g) + 1 THEN w ELSE k[i]
      <4>1. DOMAIN k = 1..(Len(g) + 1) BY <2>4
      <4>2. Append(k[Len(k)], c) = w BY <2>2, <2>4
      <4> QED BY <2>4, <3>2, <4>1, <4>2
    <3>8. \A i \in 1..Len(j) : j[i] = z[i]
      <4> SUFFICES ASSUME NEW i \in 1..(Len(g) + 1) PROVE j[i] = z[i]
        BY <2>4, <3>6
      <4>1. CASE i = Len(g) + 1 BY <3>4, <3>7, <4>1
      <4>2. CASE i # Len(g) + 1
        <5>1. i \in 1..Len(g) BY <2>4, <4>2
        <5> QED BY <2>4, <3>4, <3>7, <4>2, <5>1
      <4> QED BY <4>1, <4>2
    <3>9. j = z BY <2>4, <3>3, <3>4, <3>6, <3>8, SeqEqual
    <3> QED BY <3>1, <3>9
  <2>8. u \in Seq(Token) /\ Strings(w) = u \o v BY <2>1, <2>2, StringsAppend
  <2>9. v \in Seq(Token) BY <1>1, <2>2, KeyIs
  <2>10. Turns(u \o v, TRUE, h, TRUE, Append(g, w)) BY <2>3, <2>6, <2>7, <2>8, <2>9, TurnsJoin
  <2> QED BY <2>1, <2>2, <2>8, <2>10
<1>4. T = Seq(Utf8)
  <2>1. T \in SUBSET Seq(Utf8) OBVIOUS
  <2> HIDE DEF T
  <2> QED BY <1>2, <1>3, <2>1, SeqInduction
<1>5. s \in T BY <1>4
<1> QED BY <1>5

\* A group is read as a group more.
LEMMA GroupTurns ==
  ASSUME NEW g \in Seq(Seq(Utf8)), NEW s \in Seq(Utf8)
  PROVE  Group(s) \in Seq(Token) /\ Turns(Group(s), FALSE, g, FALSE, Append(g, s))
<1>1. PICK x, y, z, h, k : /\ x = <<L>> /\ y = Strings(s) /\ z = <<E>>
                           /\ h = Append(g, <<>>) /\ k = Append(g, s)
  OBVIOUS
<1>2. x \in Seq(Token) /\ z \in Seq(Token) BY <1>1, TokensAre
<1>3. y \in Seq(Token)
  <2>1. PICK c : c = "" OBVIOUS
  <2>2. c \in Utf8 BY <2>1, FileAssumption
  <2> QED BY <1>1, <2>2, StringsAppend
<1>4. g \in Seq(Seq(Str)) BY SeqsOfMore
<1>5. k \in Seq(Seq(Str))
  <2>1. k \in Seq(Seq(Utf8))
    <3>1. PICK K : K = Seq(Utf8) OBVIOUS
    <3>2. g \in Seq(K) /\ s \in K BY <3>1
    <3>3. Append(g, s) \in Seq(K) BY <3>2, AppendProperties
    <3> QED BY <1>1, <3>1, <3>3
  <2> QED BY <2>1, SeqsOfMore
<1>6. Turns(x, FALSE, g, TRUE, h) BY <1>1, <1>4, TokenTurns
<1>7. Turns(y, TRUE, h, TRUE, k) BY <1>1, StringsTurn
<1>8. Turns(z, TRUE, k, FALSE, k) BY <1>1, <1>5, TokenTurns
<1>9. x \o y \in Seq(Token) /\ (x \o y) \o z \in Seq(Token) BY <1>2, <1>3, TokensAre
<1>10. Turns(x \o y, FALSE, g, TRUE, k) BY <1>2, <1>3, <1>6, <1>7, TurnsJoin
<1>11. Turns((x \o y) \o z, FALSE, g, FALSE, k) BY <1>2, <1>8, <1>9, <1>10, TurnsJoin
<1>12. Group(s) = (x \o y) \o z BY <1>1 DEF Group
<1> QED BY <1>1, <1>9, <1>11, <1>12

\* All the groups.
LEMMA ListTurns ==
  ASSUME NEW list \in Seq(Seq(Utf8))
  PROVE  /\ FlattenSeq(GroupsOf(list)) \in Seq(Token)
         /\ Turns(FlattenSeq(GroupsOf(list)), FALSE, <<>>, FALSE, list)
<1>1. PICK K, Q : K = Seq(Utf8) /\ Q = Seq(Token) OBVIOUS
<1>2. ASSUME NEW y \in Seq(K) PROVE GroupsOf(y) \in Seq(Q) /\ Len(GroupsOf(y)) = Len(y)
  <2>1. PICK x, n : x = GroupsOf(y) /\ n = Len(y) OBVIOUS
  <2>2. n \in Nat /\ \A i \in 1..n : y[i] \in Seq(Utf8) BY <1>1, <2>1
  <2>3. PICK g : g = <<>> OBVIOUS
  <2>4. g \in Seq(Seq(Utf8)) BY <2>3, EmptySeq
  <2>5. \A i \in 1..n : Group(y[i]) \in Q BY <1>1, <2>2, <2>4, GroupTurns
  <2>6. x = [i \in 1..n |-> Group(y[i])] BY <2>1 DEF GroupsOf
  <2>7. x \in [1..n -> Q] BY <2>5, <2>6
  <2>8. x \in Seq(Q) /\ Len(x) = n BY ONLY <2>2, <2>7
  <2> QED BY <2>1, <2>8
<1>3. ASSUME NEW y \in Seq(K), NEW s \in K
      PROVE  GroupsOf(Append(y, s)) = Append(GroupsOf(y), Group(s))
  <2>1. PICK n, w, x, u : n = Len(y) /\ w = Append(y, s) /\ x = GroupsOf(w) /\ u = Append(GroupsOf(y), Group(s))
    OBVIOUS
  <2>2. n \in Nat /\ w \in Seq(K) /\ Len(w) = n + 1 /\ w[n + 1] = s /\ \A i \in 1..n : w[i] = y[i]
    BY <2>1, AppendProperties
  <2>3. x \in Seq(Q) /\ Len(x) = n + 1 BY <1>2, <2>1, <2>2
  <2>4. \A i \in 1..(n + 1) : x[i] = Group(w[i]) BY <2>1, <2>2 DEF GroupsOf
  <2>5. PICK v, c : v = GroupsOf(y) /\ c = Group(s) OBVIOUS
  <2>6. v \in Seq(Q) /\ Len(v) = n BY <1>2, <2>1, <2>5
  <2>7. \A i \in 1..n : v[i] = Group(y[i]) BY <2>1, <2>5 DEF GroupsOf
  <2>8. c \in Q
    <3>1. PICK g : g = <<>> OBVIOUS
    <3>2. g \in Seq(Seq(Utf8)) BY <3>1, EmptySeq
    <3> QED BY <1>1, <2>5, <3>2, GroupTurns
  <2>9. /\ Append(v, c) \in Seq(Q) /\ Len(Append(v, c)) = Len(v) + 1
        /\ Append(v, c)[Len(v) + 1] = c /\ \A i \in 1..Len(v) : Append(v, c)[i] = v[i]
    BY <2>6, <2>8, AppendProperties
  <2>10. u \in Seq(Q) /\ Len(u) = n + 1 /\ u[n + 1] = c /\ \A i \in 1..n : u[i] = v[i]
    BY <2>1, <2>5, <2>6, <2>9
  <2>11. \A i \in 1..(n + 1) : x[i] = u[i]
    <3> SUFFICES ASSUME NEW i \in 1..(n + 1) PROVE x[i] = u[i]
      OBVIOUS
    <3>1. CASE i = n + 1 BY <2>2, <2>4, <2>5, <2>10, <3>1
    <3>2. CASE i # n + 1
      <4>1. i \in 1..n BY <2>2, <3>2
      <4> QED BY <2>2, <2>4, <2>7, <2>10, <4>1
    <3> QED BY <3>1, <3>2
  <2>12. x = u BY <2>3, <2>10, <2>11, SeqEqual
  <2> QED BY <2>1, <2>12
<1>4. PICK none : none = <<>> OBVIOUS
<1> DEFINE T == {y \in Seq(K) : /\ FlattenSeq(GroupsOf(y)) \in Seq(Token)
                                /\ Turns(FlattenSeq(GroupsOf(y)), FALSE, none, FALSE, y)}
<1>5. none \in T
  <2>1. none \in Seq(K) /\ Len(none) = 0 BY <1>4, EmptySeq
  <2>2. PICK x : x = GroupsOf(none) OBVIOUS
  <2>3. x \in Seq(Q) /\ Len(x) = 0 BY <1>2, <2>1, <2>2
  <2>4. x = <<>> BY <2>3, EmptySeq
  <2>5. PICK f : f = FlattenSeq(x) OBVIOUS
  <2>6. f = <<>> BY <2>4, <2>5 DEF FlattenSeq
  <2>7. f \in Seq(Token) /\ Len(f) = 0 BY <2>6, EmptySeq
  <2>8. Turns(f, FALSE, none, FALSE, none)
    <3> SUFFICES ASSUME NEW b \in Seq(Token), NEW p \in Nat, NEW q \in Nat, Lies(f, b, p, q)
                 PROVE  GroupsFrom(b, p, FALSE, none) = GroupsFrom(b, q, FALSE, none)
      BY DEF Turns
    <3>1. q = p BY <2>7 DEF Lies
    <3> QED BY <3>1
  <2> QED BY <2>1, <2>2, <2>5, <2>7, <2>8
<1>6. ASSUME NEW y \in T, NEW s \in K PROVE Append(y, s) \in T
  <2>1. y \in Seq(K) /\ Append(y, s) \in Seq(K) BY AppendProperties
  <2>2. PICK f, g, h, c, w : /\ f = FlattenSeq(GroupsOf(y)) /\ g = GroupsOf(y) /\ c = Group(s)
                             /\ w = Append(y, s) /\ h = FlattenSeq(GroupsOf(w))
    OBVIOUS
  <2>3. f \in Seq(Token) /\ Turns(f, FALSE, none, FALSE, y) BY <2>2
  <2>4. y \in Seq(Seq(Utf8)) /\ s \in Seq(Utf8) BY <1>1, <2>1
  <2>5. c \in Seq(Token) /\ Turns(c, FALSE, y, FALSE, w) BY <2>2, <2>4, GroupTurns
  <2>6. g \in Seq(Seq(Token)) BY <1>1, <1>2, <2>1, <2>2
  <2>7. FlattenSeq(Append(g, c)) = FlattenSeq(g) \o c BY <2>5, <2>6, FlattenAppend
  <2>8. h = f \o c BY <1>3, <2>1, <2>2, <2>7
  <2>9. h \in Seq(Token) BY <2>3, <2>5, <2>8, TokensAre
  <2>10. Turns(f \o c, FALSE, none, FALSE, w) BY <2>3, <2>5, TurnsJoin
  <2> QED BY <2>1, <2>2, <2>8, <2>9, <2>10
<1>7. T = Seq(K)
  <2>1. T \in SUBSET Seq(K) OBVIOUS
  <2>2. <<>> \in T BY <1>4, <1>5
  <2> HIDE DEF T
  <2> QED BY <1>6, <2>1, <2>2, SeqInduction
<1>8. list \in T BY <1>1, <1>7
<1> QED BY <1>4, <1>8

(***************************************************************************)
(* What TorrentOStream writes for an announce-list is read as that list.   *)
(***************************************************************************)
ReadsList(w, list) ==
  Alone(w) /\ ParseAnnounceList(w, 1).pos = Len(w) + 1 /\ ParseAnnounceList(w, 1).list = list

\* So is every list of lists of utf-8 strings.
LEMMA ListRead ==
  ASSUME NEW list \in Seq(Seq(Utf8))
  PROVE  ReadsList(ListOf(list), list)
<1>1. PICK x, f, z, none : x = <<L>> /\ f = FlattenSeq(GroupsOf(list)) /\ z = <<E>> /\ none = <<>>
  OBVIOUS
<1>2. PICK w : w = (x \o f) \o z OBVIOUS
<1>3. ListOf(list) = w BY <1>1, <1>2 DEF ListOf, GroupsOf, Group
<1>4. x \in Seq(Token) /\ z \in Seq(Token) BY <1>1, TokensAre
<1>5. f \in Seq(Token) /\ Turns(f, FALSE, none, FALSE, list) BY <1>1, ListTurns
<1>6. x \o f \in Seq(Token) /\ w \in Seq(Token) BY <1>2, <1>4, <1>5, TokensAre
<1>7. PICK p, q : p = 1 /\ q = Len(w) + 1 OBVIOUS
<1>8. Len(w) \in Nat /\ p \in Nat /\ q \in Nat BY <1>6, <1>7
<1>9. Lies(w, w, p, q)
  <2>1. p # 0 /\ q = p + Len(w) /\ q <= Len(w) + 1 BY <1>7, <1>8
  <2>2. \A i \in 1..Len(w) : p + i - 1 = i BY <1>7, <1>8
  <2> QED BY <1>8, <2>1, <2>2 DEF Lies
<1>10. PICK n \in Nat : Lies(x \o f, w, p, n) /\ Lies(z, w, n, q) BY <1>2, <1>4, <1>6, <1>9, LiesConcat
<1>11. PICK m \in Nat : Lies(x, w, p, m) /\ Lies(f, w, m, n) BY <1>4, <1>5, <1>6, <1>10, LiesConcat
<1>12. L \in Token /\ E \in Token BY TokensAre
<1>13. p \in 1..Len(w) /\ m = p + 1 /\ w[p] = L BY <1>1, <1>6, <1>8, <1>11, <1>12, OneLies
<1>14. n \in 1..Len(w) /\ q = n + 1 /\ w[n] = E BY <1>1, <1>6, <1>8, <1>10, <1>12, OneLies
<1>15. At(w, p, "l")
  <2>1. L.t = "l" BY DEF L
  <2> QED BY <1>13, <2>1 DEF At
<1>16. At(w, n, "e")
  <2>1. E.t = "e" BY DEF E
  <2> QED BY <1>14, <2>1 DEF At
<1>17. GroupsFrom(w, m, FALSE, none) = GroupsFrom(w, n, FALSE, list) BY <1>5, <1>6, <1>11 DEF Turns
<1>18. ParseGroups(w, m) = GroupsFrom(w, m, FALSE, none)
  <2>1. none \in Seq(Seq(Str)) BY <1>1, EmptySeq
  <2> QED BY <1>1, <1>6, <2>1, GroupsIs
<1>19. GroupsFrom(w, n, FALSE, list) = [pos |-> n + 1, list |-> list]
  <2>1. list \in Seq(Seq(Str)) BY SeqsOfMore
  <2>2. GroupsFrom(w, n, FALSE, list) = GroupsTurn(w, n, FALSE, list) BY <1>6, <2>1, GroupsIs
  <2> QED BY <1>16, <2>2 DEF GroupsTurn
<1>20. ParseAnnounceList(w, p) = [pos |-> q, list |-> list]
  <2>1. ParseAnnounceList(w, p) = ParseGroups(w, m) BY <1>13, <1>15 DEF ParseAnnounceList
  <2> QED BY <1>14, <1>17, <1>18, <1>19, <2>1
<1>21. SkipValue(w, p) = q
  <2>1. ParseAnnounceList(w, p).pos = q BY <1>20
  <2>2. ParseAnnounceList(w, p).pos \in {Error, SkipValue(w, p)} BY <1>6, <1>8, ParseAnnounceListSkips
  <2>3. q # Error BY <1>7, <1>8 DEF Error
  <2> QED BY <2>1, <2>2, <2>3
<1> QED BY <1>3, <1>6, <1>7, <1>20, <1>21 DEF ReadsList, Alone

-----------------------------------------------------------------------------
(***************************************************************************)
(* A written file: announce and its url, and the parts of the dictionary.  *)
(***************************************************************************)
Opening(u) == <<D, S("announce"), S(u)>>

\* The entry announce-list, if there are urls for it.
ListEntry(le, list) ==
  \/ le = <<>> /\ list = <<>>
  \/ \E w : le = <<S("announce-list")>> \o w /\ ReadsList(w, list)

\* What the classes write for it.
LEMMA ListEntryWritten ==
  ASSUME NEW o \in Objects
  PROVE  ListEntry(AnnounceListEntry(o), o.list)
<1>1. o.list \in Seq(Seq(Utf8)) BY DEF Objects
<1>2. ReadsList(ListOf(o.list), o.list) BY <1>1, ListRead
<1>3. CASE o.list = <<>> BY <1>3 DEF ListEntry, AnnounceListEntry
<1>4. CASE o.list # <<>>
  <2>1. AnnounceListEntry(o) = <<S("announce-list")>> \o ListOf(o.list) BY <1>4 DEF AnnounceListEntry
  <2> QED BY <1>2, <2>1 DEF ListEntry
<1> QED BY <1>3, <1>4

\* It is a part between the ones for announce and for the keys behind.
ListPart(le, lo, hi) ==
  \E A : /\ Segment(le, lo, hi, A, <<>>)
         /\ \A x \in A : x.key = "announce-list" /\ ParseAnnounceList(x.value, 1).pos # Error

\* However few there are.
LEMMA ListEntrySegment ==
  ASSUME NEW le, NEW list, ListEntry(le, list), NEW lo \in Nat, NEW hi \in Nat,
         lo < Rank["announce-list"], Rank["announce-list"] < hi
  PROVE  ListPart(le, lo, hi)
<1>1. CASE le = <<>>
  <2>1. PICK A : A = {} OBVIOUS
  <2>2. Segment(le, lo, hi, A, <<>>) BY <1>1, <2>1, NoSegment
  <2>3. \A x \in A : x.key = "announce-list" /\ ParseAnnounceList(x.value, 1).pos # Error BY <2>1
  <2> QED BY <2>2, <2>3 DEF ListPart
<1>2. CASE le # <<>>
  <2>1. PICK w : le = <<S("announce-list")>> \o w /\ ReadsList(w, list) BY <1>2 DEF ListEntry
  <2>2. PICK key : key = "announce-list" OBVIOUS
  <2>3. key \in Utf8 BY <2>2, FileAssumption
  <2>4. Alone(w) /\ ParseAnnounceList(w, 1).pos = Len(w) + 1 BY <2>1 DEF ReadsList
  <2>5. Segment(<<S(key)>> \o w, lo, hi, {EntryOf(key, w)}, Others(key, w))
    BY <2>2, <2>3, <2>4, EntrySegment
  <2>6. Others(key, w) = <<>> BY <2>2 DEF Others, UrlKeys
  <2>7. ParseAnnounceList(w, 1).pos # Error
    <3>1. Len(w) \in Nat BY <2>4 DEF Alone
    <3> QED BY <2>4, <3>1 DEF Error
  <2>8. PICK A : A = {EntryOf(key, w)} OBVIOUS
  <2>9. \A x \in A : x.key = "announce-list" /\ ParseAnnounceList(x.value, 1).pos # Error
    BY <2>2, <2>7, <2>8 DEF EntryOf
  <2>10. Segment(le, lo, hi, A, <<>>) BY <2>1, <2>2, <2>5, <2>6, <2>8
  <2> QED BY <2>9, <2>10 DEF ListPart
<1> QED BY <1>1, <1>2

\* Where the announce-list is looked for behind announce, it is found.
LEMMA ListLookedUp ==
  ASSUME NEW b \in Seq(Token), NEW p \in Nat, p # 0, NEW prev \in Nat, prev < Rank["announce-list"],
         NEW le, NEW list, ListEntry(le, list), NEW q \in Nat, Lies(le, b, p, q),
         SkipEntries(b, q, Rank["announce-list"]) # Error,
         NEW e, e = TryNext(b, p, "announce-list", prev), NEW al,
         al = IF e.found THEN ParseAnnounceList(b, e.pos) ELSE [pos |-> e.pos, list |-> <<>>]
  PROVE  al.pos = q /\ al.list = list /\ e.to = p
<1>1. PICK key, n : key = "announce-list" /\ n = Rank[key] OBVIOUS
<1>2. key \in Utf8 /\ key \in Str /\ n \in Nat /\ prev < n BY <1>1, FileAssumption, KeysAre
<1>3. CASE le = <<>>
  <2>1. list = <<>>
    <3>1. ASSUME NEW w, le = <<S("announce-list")>> \o w, ReadsList(w, list) PROVE FALSE
      <4>1. PICK x : x = <<S("announce-list")>> OBVIOUS
      <4>2. x \in Seq(Token) /\ Len(x) = 1 BY <1>1, <1>2, <4>1, KeyIs
      <4>3. w \in Seq(Token) BY <3>1 DEF ReadsList, Alone
      <4>4. Len(x \o w) = Len(x) + Len(w) BY <4>2, <4>3, ConcatProperties
      <4>5. Len(w) \in Nat BY <4>3
      <4>6. Len(le) = 0 BY <1>3, EmptySeq
      <4>7. Len(le) = 1 + Len(w) BY <3>1, <4>1, <4>2, <4>4
      <4>8. PICK l : l = Len(w) OBVIOUS
      <4>9. l \in Nat /\ 0 = 1 + l BY ONLY <4>5, <4>6, <4>7, <4>8
      <4> QED BY ONLY <4>9
    <3> QED BY <3>1 DEF ListEntry
  <2>2. Len(le) = 0 BY <1>3, EmptySeq
  <2>3. q = p BY <2>2 DEF Lies
  <2>4. At(b, p, "e") \/ (~At(b, p, "e") /\ NextKey(b, p, n)) BY <1>1, <1>2, <2>3, SkipEntriesIs
  <2>5. e = [found |-> FALSE, pos |-> p, to |-> p]
    <3>1. CASE At(b, p, "e") BY <1>1, <3>1, TryNextIs
    <3>2. CASE ~At(b, p, "e") /\ NextKey(b, p, n)
      <4>1. PICK r : r = Rank[b[p].v] OBVIOUS
      <4>2. r > n /\ r \in Nat /\ NextKey(b, p, prev)
        <5>1. At(b, p, "s") /\ b[p].v \in Utf8 /\ r > n /\ r \in Nat BY <3>2, <4>1, TokenIs
        <5>2. r > prev BY <1>2, <5>1
        <5> QED BY <4>1, <5>1, <5>2, TokenIs
      <4>3. e = TryTurn(b, p, key, r, SkipValue(b, p + 1)) BY <1>1, <3>2, <4>1, <4>2, TryNextTurn
      <4>4. r # n BY <1>2, <4>2
      <4> QED BY <1>1, <4>2, <4>3, <4>4 DEF TryTurn
    <3> QED BY <2>4, <3>1, <3>2
  <2>6. al = [pos |-> p, list |-> <<>>] BY <2>5
  <2> QED BY <2>1, <2>3, <2>5, <2>6
<1>4. CASE le # <<>>
  <2>1. PICK w : le = <<S(key)>> \o w /\ ReadsList(w, list) BY <1>1, <1>4 DEF ListEntry
  <2>2. /\ Alone(w) /\ w \in Seq(Token)
        /\ ParseAnnounceList(w, 1).pos = Len(w) + 1 /\ ParseAnnounceList(w, 1).list = list
    BY <2>1 DEF ReadsList, Alone
  <2>3. Lies(<<S(key)>> \o w, b, p, q) BY <2>1
  <2>4. /\ At(b, p, "s") /\ b[p].v = key /\ p \in 1..Len(b) /\ p + 1 \in Nat /\ Lies(w, b, p + 1, q)
        /\ \A k : NextKey(b, p, k) <=> Rank[key] > k
    BY <1>2, <2>2, <2>3, EntryThere
  <2>5. NextKey(b, p, prev) /\ ~At(b, p, "e") BY <1>1, <1>2, <2>4, TokenIs
  <2>6. e = TryTurn(b, p, key, n, SkipValue(b, p + 1))
    <3>1. TryNext(b, p, key, prev) = TryTurn(b, p, key, Rank[b[p].v], SkipValue(b, p + 1))
      BY <2>5, TryNextTurn
    <3> QED BY <1>1, <2>4, <3>1
  <2>7. e = [found |-> TRUE, pos |-> p + 1, to |-> p] BY <1>1, <2>6 DEF TryTurn
  <2>8. al = ParseAnnounceList(b, p + 1) BY <2>7
  <2>9. PICK d \in Nat : /\ LiesIn(w, b, d) /\ p + 1 = d + 1 /\ q = (p + 1) + Len(w) /\ q # 0
                         /\ Len(w) \in Nat
    <3>1. w \in Seq(Token) /\ Lies(w, b, p + 1, q) BY <2>2, <2>4
    <3> QED BY ONLY b \in Seq(Token), <3>1, LiesThere
  <2>10. PICK i, k : i = 1 /\ k = p + 1 OBVIOUS
  <2>11. i \in 1..Len(w) /\ k = i + d
    <3>1. w # <<>> BY <2>2, <2>4, AloneEnds
    <3>2. Len(w) # 0 BY <2>2, <3>1, EmptySeq
    <3> QED BY <2>9, <2>10, <3>2
  <2>12. SeesList(w, d, ParseAnnounceList(w, i), ParseAnnounceList(b, k))
    BY <2>2, <2>9, <2>11, AnnounceListSeen
  <2>13. SeesList(w, d, ParseAnnounceList(w, 1), al) BY <2>8, <2>10, <2>12
  <2>14. Len(w) + 1 = Seen(w, d, al.pos) /\ Len(w) + 1 # Error /\ list = al.list
    BY <2>2, <2>9, <2>13 DEF SeesList, Error
  <2>15. al.pos \in Nat
    <3>1. al.pos \in {Error, SkipValue(b, k)} BY <2>4, <2>8, <2>10, ParseAnnounceListSkips
    <3>2. SkipValue(b, k) \in EndsBehind(b, k) BY <2>4, <2>10, SkipValueIs
    <3> QED BY <2>4, <2>10, <3>1, <3>2 DEF EndsBehind, Error
  <2>16. al.pos - d = Len(w) + 1 BY <2>14 DEF Seen, Error
  <2>17. al.pos = q BY <2>9, <2>15, <2>16
  <2> QED BY <2>7, <2>14, <2>17
<1> QED BY <1>3, <1>4

-----------------------------------------------------------------------------
(***************************************************************************)
(* A file that begins with announce, and the rest of its dictionary.       *)
(***************************************************************************)
Written(o, u, A, R) ==
  /\ o \in Seq(Token) /\ Announce(o) = 4 /\ o[3].v = u /\ Begins(o) /\ WellFormed(o)
  /\ AfterAnnounce(o) = Len(o) + 1 /\ EntrySet(o, 4) = A /\ Rest(o) = R

\* The urls are no further entries.
LEMMA RestBehind ==
  ASSUME NEW b \in Seq(Token), Announce(b) # Error
  PROVE  Rest(b) = EntriesBut(b, 4, UrlKeys)
<1>1. PICK two, three, keys : two = 2 /\ three = 3 /\ keys = UrlKeys OBVIOUS
<1>2. two \in Nat /\ two + 1 = three /\ three \in Nat BY <1>1
<1>3. Announce(b) = 4 /\ At(b, two, "s") /\ b[two].v = "announce" BY <1>1, AnnounceIs
<1>4. Announce(b) = ReadUtf8(b, three) BY <1>1, <1>3 DEF Announce, Error
<1>5. ReadUtf8(b, three) \in {Error, SkipValue(b, three)} BY <1>2, ReadInfoSkips
<1>6. SkipValue(b, three) = 4 BY <1>3, <1>4, <1>5 DEF Error
<1>7. EntriesBut(b, two, keys) = (IF b[two].v \in keys THEN <<>> ELSE <<EntryAt(b, two)>>)
                                   \o EntriesBut(b, SkipValue(b, two + 1), keys)
  <2>1. two \in Nat /\ At(b, two, "s") BY <1>2, <1>3
  <2> QED BY ONLY b \in Seq(Token), <2>1, EntriesButAre
<1>8. PICK w : w = EntriesBut(b, 4, keys) OBVIOUS
<1>9. w \in Seq(AnyEntry(b))
  <2>1. PICK four : four = 4 /\ four \in Nat OBVIOUS
  <2> QED BY <1>8, <2>1, EntriesButAre
<1>10. b[two].v \in keys BY <1>1, <1>3 DEF UrlKeys
<1>11. EntriesBut(b, two, keys) = <<>> \o w BY <1>2, <1>6, <1>7, <1>8, <1>10
<1>12. <<>> \o w = w BY <1>9, ConcatEmptySeq
<1> QED BY <1>1, <1>8, <1>11, <1>12 DEF Rest

\* What is put together from an url and the rest of a dictionary.
LEMMA HeadWritten ==
  ASSUME NEW u \in Utf8, NEW s, NEW A, NEW R, Closing(s, Rank["announce"], A, R),
         NEW o, o = Opening(u) \o s
  PROVE  Written(o, u, A, R) /\ Lies(s, o, 4, Len(o) + 1)
<1>1. PICK h : h = Opening(u) OBVIOUS
<1>2. u \in Str /\ "announce" \in Str BY KeysAre, BencodeAssumption
<1>3. D \in Token /\ S("announce") \in Token /\ S(u) \in Token BY <1>2, TokensAre
<1>4. h \in Seq(Token) /\ Len(h) = 3 /\ h[1] = D /\ h[2] = S("announce") /\ h[3] = S(u)
  BY <1>1, <1>3 DEF Opening
<1>5. s \in Seq(Token) BY DEF Closing
<1>6. o \in Seq(Token) /\ Len(o) \in Nat BY <1>1, <1>4, <1>5, TokensAre
<1>7. PICK p, z : p = 1 /\ z = Len(o) + 1 OBVIOUS
<1>8. p \in Nat /\ z \in Nat BY <1>6, <1>7
<1>9. Lies(o, o, p, z)
  <2>1. p # 0 /\ z = p + Len(o) /\ z <= Len(o) + 1 BY <1>6, <1>7
  <2>2. \A i \in 1..Len(o) : p + i - 1 = i BY <1>6, <1>7
  <2> QED BY <1>8, <2>1, <2>2 DEF Lies
<1>10. PICK m \in Nat : Lies(h, o, p, m) /\ Lies(s, o, m, z)
  <2>1. Lies(h \o s, o, p, z) BY <1>1, <1>9
  <2> QED BY <1>4, <1>5, <1>6, <2>1, LiesConcat
<1>11. m = 4 BY <1>4, <1>7, <1>10 DEF Lies
<1>12. Len(o) >= 3
  <2>1. z = m + Len(s) /\ Len(s) \in Nat BY <1>5, <1>10 DEF Lies
  <2> QED BY <1>6, <1>7, <1>11, <2>1
<1>13. \A i \in 1..3 : o[i] = h[i]
  <2>1. \A i \in 1..3 : h[i] = o[p + i - 1] BY <1>4, <1>10 DEF Lies
  <2>2. \A i \in 1..3 : p + i - 1 = i BY <1>7
  <2> QED BY <2>1, <2>2
<1>14. At(o, 1, "d") /\ At(o, 2, "s") /\ o[2].v = "announce" /\ At(o, 3, "s") /\ o[3].v = u
  <2>1. 1 \in 1..Len(o) /\ 2 \in 1..Len(o) /\ 3 \in 1..Len(o) BY <1>6, <1>12
  <2>2. o[1] = h[1] /\ o[2] = h[2] /\ o[3] = h[3]
    <3>1. 1 \in 1..3 /\ 2 \in 1..3 /\ 3 \in 1..3 OBVIOUS
    <3> QED BY ONLY <1>13, <3>1
  <2>3. D.t = "d" BY DEF D
  <2>4. At(o, 1, "d") BY <1>4, <2>1, <2>2, <2>3 DEF At
  <2>5. o[2] = S("announce") /\ o[3] = S(u) BY <1>4, <2>2
  <2>6. At(o, 2, "s") /\ o[2].v = "announce"
    <3>1. S("announce").t = "s" /\ S("announce").v = "announce" BY DEF S
    <3> QED BY <2>1, <2>5, <3>1 DEF At
  <2>7. At(o, 3, "s") /\ o[3].v = u
    <3>1. S(u).t = "s" /\ S(u).v = u BY DEF S
    <3> QED BY <2>1, <2>5, <3>1 DEF At
  <2> QED BY <2>4, <2>6, <2>7
<1>15. Announce(o) = 4
  <2>1. ReadUtf8(o, 3) = 4 BY <1>14 DEF ReadUtf8
  <2> QED BY <1>14, <2>1 DEF Announce
<1>16. Announce(o) # Error BY <1>15 DEF Error
<1>17. PICK k : k = Rank["announce"] OBVIOUS
<1>18. k \in Nat BY <1>17, KeysAre
<1>19. Ends(o, m, k, z, A, R)
  <2>1. \A b \in Seq(Token), i, q, prev \in Nat :
          Lies(s, b, i, q) /\ prev <= k => Ends(b, i, prev, q, A, R)
    BY <1>17 DEF Closing
  <2>2. k <= k BY <1>18
  <2> QED BY <1>6, <1>8, <1>10, <1>18, <2>1, <2>2
<1>20. AfterAnnounce(o) = Len(o) + 1 BY <1>7, <1>11, <1>17, <1>19 DEF Ends, AfterAnnounce
<1>21. Begins(o) /\ SkipValue(o, 1) = AfterAnnounce(o)
  <2>1. AfterAnnounce(o) # Error BY <1>6, <1>20 DEF Error
  <2> QED BY <1>6, <1>16, <2>1, BeginsIs
<1>22. Rest(o) = R
  <2>1. Rest(o) = EntriesBut(o, 4, UrlKeys) BY <1>6, <1>16, RestBehind
  <2> QED BY <1>11, <1>19, <2>1 DEF Ends
<1>23. WellFormed(o) BY <1>14, <1>20, <1>21 DEF WellFormed
<1>24. EntrySet(o, 4) = A BY <1>11, <1>19 DEF Ends
<1> QED BY <1>6, <1>7, <1>10, <1>11, <1>14, <1>15, <1>20, <1>21, <1>22, <1>23, <1>24 DEF Written

\* The parts of a file around its announce-list.
Around(o, s, le, x, list, p, q) ==
  /\ p \in Nat /\ q \in Nat /\ s \in Seq(Token) /\ le \in Seq(Token) /\ x \in Seq(Token)
  /\ Lies(s, o, 4, p) /\ Lies(le, o, p, q) /\ Lies(x, o, q, Len(o) + 1)
  /\ \E A, R : Segment(s, Rank["announce"], Rank["announce-list"], A, R)
  /\ \E A, R : Closing(x, Rank["announce-list"], A, R)
  /\ ListEntry(le, list)

\* The urls of such a file are read as they have been written.
LEMMA UrlsRead ==
  ASSUME NEW o \in Seq(Token), Announce(o) = 4, NEW s, NEW le, NEW x, NEW list, NEW p, NEW q,
         Around(o, s, le, x, list, p, q), NEW a, a = LoadAnnounce(o)
  PROVE  /\ a.pos = q /\ q # Error /\ a.t.announce = o[3].v /\ a.t.list = list /\ a.t.info = NoRaw
         /\ a.t \in Objects
<1>1. PICK four, k, m : four = 4 /\ k = Rank["announce"] /\ m = Rank["announce-list"] OBVIOUS
<1>2. four \in Nat /\ four # 0 /\ k \in Nat /\ m \in Nat /\ k < m /\ "announce-list" \in Str
  BY <1>1, KeysAre
<1>3. PICK z : z = Len(o) + 1 OBVIOUS
<1>4. z \in Nat BY <1>3
<1>5. p \in Nat /\ q \in Nat /\ Lies(s, o, four, p) /\ Lies(le, o, p, q) /\ Lies(x, o, q, z)
  BY <1>1, <1>3 DEF Around
<1>6. p # 0 /\ q # 0 BY <1>5 DEF Lies
<1>7. PICK A, R : Segment(s, k, m, A, R) BY <1>1 DEF Around
<1>8. PICK B, Q : Closing(x, m, B, Q) BY <1>1 DEF Around
<1>9. SkipEntries(o, q, m) # Error
  <2>1. m <= m BY <1>2
  <2>2. Ends(o, q, m, z, B, Q) BY <1>2, <1>4, <1>5, <1>8, <2>1 DEF Closing
  <2> QED BY <1>3, <1>4, <2>2 DEF Ends, Error
<1>10. PICK r \in Nat : (r = k \/ r < m) /\ Passes(o, four, k, p, r, m, A, R)
  <2>1. k <= k BY <1>2
  <2>2. PassesAt(s, k, m, A, R, o, four, p, k) BY <1>2, <1>5, <1>7, <2>1 DEF Segment
  <2> QED BY <2>2 DEF PassesAt
<1>11. r < m BY <1>2, <1>10
<1>12. PICK e : e = TryNext(o, four, "announce-list", k) OBVIOUS
<1>13. e = TryNext(o, p, "announce-list", r)
  <2>1. Rank["announce-list"] >= m BY <1>1, <1>2
  <2> QED BY <1>2, <1>10, <1>12, <2>1 DEF Passes
<1>14. PICK al : al = IF e.found THEN ParseAnnounceList(o, e.pos) ELSE [pos |-> e.pos, list |-> <<>>]
  OBVIOUS
<1>15. ListEntry(le, list) BY DEF Around
<1>16. al.pos = q /\ al.list = list /\ e.to = p
  <2>1. r < Rank["announce-list"] /\ SkipEntries(o, q, Rank["announce-list"]) # Error
    BY <1>1, <1>9, <1>11
  <2> QED BY <1>5, <1>6, <1>13, <1>14, <1>15, <2>1, ListLookedUp
<1>17. a = [pos |-> al.pos,
            t |-> [NewObject EXCEPT !.announce = o[3].v, !.list = al.list,
                                    !.postAnnounce = Slice(o, four, e.to)]]
  <2>1. Announce(o) = four /\ Announce(o) # Error /\ al.pos # Error BY <1>1, <1>6, <1>16 DEF Error
  <2> QED BY <1>1, <1>12, <1>14, <2>1 DEF LoadAnnounce
<1>18. a.t \in Objects BY AnnounceLoaded
<1>19. a.t.announce = o[3].v /\ a.t.list = al.list /\ a.t.info = NoRaw
  <2>1. PICK w, n : w = Slice(o, four, e.to) /\ n = NewObject OBVIOUS
  <2>2. n \in Objects BY <2>1, ObjectIs
  <2>3. n.info = NoRaw BY <2>1 DEF NewObject
  <2>4. a.t = [n EXCEPT !.announce = o[3].v, !.list = al.list, !.postAnnounce = w] BY <1>17, <2>1
  <2> QED BY <2>2, <2>3, <2>4 DEF Objects
<1> QED BY <1>6, <1>16, <1>17, <1>18, <1>19 DEF Error

\* The parts of a file from the place behind the announce-list on.
AroundInfo(o, s, v, x, q) ==
  /\ s \in Seq(Token) /\ x \in Seq(Token) /\ Alone(v)
  /\ Lies(s \o ((<<S("info")>> \o v) \o x), o, q, Len(o) + 1)
  /\ \E A, R : Segment(s, Rank["announce-list"], Rank["info"], A, R)
  /\ \E A, R : Closing(x, Rank["info"], A, R)

\* So is the info.
LEMMA InfoRead ==
  ASSUME NEW o \in Seq(Token), NEW q \in Nat, NEW s, NEW v, NEW x, AroundInfo(o, s, v, x, q),
         NEW a, a.pos = q, a.t \in Objects, NEW r, r = LoadInfo(o, a)
  PROVE  /\ r.ok /\ r.t.info = v /\ r.t.announce = a.t.announce /\ r.t.list = a.t.list
<1>1. PICK k, m : k = Rank["announce-list"] /\ m = Rank["info"] OBVIOUS
<1>2. k \in Nat /\ m \in Nat /\ k < m /\ "info" \in Str /\ "info" \in Utf8 BY <1>1, KeysAre
<1>3. PICK z : z = Len(o) + 1 OBVIOUS
<1>4. z \in Nat BY <1>3
<1>5. PICK w : w = <<S("info")>> \o v OBVIOUS
<1>6. s \in Seq(Token) /\ x \in Seq(Token) /\ Alone(v) /\ v \in Seq(Token) BY DEF AroundInfo, Alone
<1>7. w \in Seq(Token) /\ w \o x \in Seq(Token) BY <1>2, <1>5, <1>6, KeyIs, TokensAre
<1>8. PICK p \in Nat : Lies(s, o, q, p) /\ Lies(w \o x, o, p, z)
  <2>1. Lies(s \o (w \o x), o, q, z) BY <1>3, <1>5 DEF AroundInfo
  <2> QED BY <1>6, <1>7, <2>1, LiesConcat
<1>9. PICK n \in Nat : Lies(w, o, p, n) /\ Lies(x, o, n, z) BY <1>6, <1>7, <1>8, LiesConcat
<1>10. PICK A, R : Segment(s, k, m, A, R) BY <1>1 DEF AroundInfo
<1>11. PICK B, Q : Closing(x, m, B, Q) BY <1>1 DEF AroundInfo
<1>12. PICK g \in Nat : (g = k \/ g < m) /\ Passes(o, q, k, p, g, m, A, R)
  <2>1. k <= k BY <1>2
  <2>2. PassesAt(s, k, m, A, R, o, q, p, k) BY <1>2, <1>8, <1>10, <2>1 DEF Segment
  <2> QED BY <2>2 DEF PassesAt
<1>13. g < m BY <1>2, <1>12
<1>14. /\ At(o, p, "s") /\ o[p].v = "info" /\ p \in 1..Len(o) /\ p + 1 \in Nat /\ Lies(v, o, p + 1, n)
       /\ \A prev : NextKey(o, p, prev) <=> Rank["info"] > prev
       /\ SkipValue(o, p + 1) = n /\ n # Error
  <2>1. PICK key : key = "info" OBVIOUS
  <2>2. key \in Utf8 /\ Lies(<<S(key)>> \o v, o, p, n) BY <1>2, <1>5, <1>9, <2>1
  <2> QED BY <1>6, <2>1, <2>2, EntryThere
<1>15. PICK e : e = TryNext(o, q, "info", k) OBVIOUS
<1>16. e = TryNext(o, p, "info", g)
  <2>1. Rank["info"] >= m BY <1>1, <1>2
  <2> QED BY <1>2, <1>12, <1>15, <2>1 DEF Passes
<1>17. e = [found |-> TRUE, pos |-> p + 1, to |-> p]
  <2>1. NextKey(o, p, g) /\ ~At(o, p, "e") BY <1>1, <1>2, <1>13, <1>14, TokenIs
  <2>2. TryNext(o, p, "info", g) = TryTurn(o, p, "info", Rank[o[p].v], SkipValue(o, p + 1))
    BY <2>1, TryNextTurn
  <2> QED BY <1>14, <1>16, <2>2 DEF TryTurn
<1>18. SkipEntries(o, n, m) = z /\ z # Error
  <2>1. m <= m BY <1>2
  <2>2. Ends(o, n, m, z, B, Q) BY <1>2, <1>4, <1>9, <1>11, <2>1 DEF Closing
  <2> QED BY <1>3, <1>4, <2>2 DEF Ends, Error
<1>19. Slice(o, p + 1, n) = v BY <1>6, <1>14, SameSlice
<1>20. r = Loaded([a.t EXCEPT !.postList = Slice(o, q, p), !.info = v, !.postInfo = Slice(o, n, z)])
  <2>1. PICK i : i = e.pos OBVIOUS
  <2>2. i = p + 1 /\ e.found /\ e.to = p BY <1>17, <2>1
  <2>3. SkipValue(o, i) = n /\ Slice(o, i, n) = v BY <1>14, <1>19, <2>2
  <2>4. LoadInfo(o, a) =
          Loaded([a.t EXCEPT !.postList = Slice(o, a.pos, e.to), !.info = Slice(o, e.pos, n),
                             !.postInfo = Slice(o, n, z)])
    BY <1>1, <1>14, <1>15, <1>18, <2>1, <2>2, <2>3 DEF LoadInfo
  <2> QED BY <2>1, <2>2, <2>3, <2>4
<1>21. PICK y, u, l : y = a.t /\ u = Slice(o, q, p) /\ l = Slice(o, n, z) OBVIOUS
<1>22. y \in Objects BY <1>21
<1>23. r.ok /\ r.t = [y EXCEPT !.postList = u, !.info = v, !.postInfo = l] BY <1>20, <1>21 DEF Loaded
<1>24. r.t.info = v /\ r.t.announce = y.announce /\ r.t.list = y.list BY <1>22, <1>23 DEF Objects
<1> QED BY <1>21, <1>23, <1>24

-----------------------------------------------------------------------------
(***************************************************************************)
(* A file put together from what is between announce and announce-list,    *)
(* the announce-list and what is behind it.                                *)
(***************************************************************************)
Put(o, u, s, le, x, list, A, R) ==
  /\ Written(o, u, A, R)
  /\ \E p, q \in Nat : Around(o, s, le, x, list, p, q)

\* Entries that are an announce-list.
UrlEntries(A) == \A y \in A : y.key = "announce-list" /\ ParseAnnounceList(y.value, 1).pos # Error

\* It holds the entries of its parts.
LEMMA FilePut ==
  ASSUME NEW u \in Utf8, NEW s, NEW A, NEW R, Segment(s, Rank["announce"], Rank["announce-list"], A, R),
         NEW le, NEW list, ListEntry(le, list),
         NEW x, NEW B, NEW Q, Closing(x, Rank["announce-list"], B, Q),
         NEW o, o = Opening(u) \o (s \o (le \o x))
  PROVE  \E C : /\ Put(o, u, s, le, x, list, A \cup (C \cup B), R \o Q)
                /\ UrlEntries(C)
<1>1. PICK k, m, n : k = Rank["announce"] /\ m = Rank["announce-list"] /\ n = m + 1 OBVIOUS
<1>2. k \in Nat /\ m \in Nat /\ n \in Nat /\ k < m /\ m < n /\ m <= m BY <1>1, KeysAre
<1>3. PICK i : i = m - 1 OBVIOUS
<1>4. i \in Nat /\ i < m /\ m <= i + 1 /\ k <= i BY <1>2, <1>3
<1>5. ListPart(le, i, n)
  <2>1. i < Rank["announce-list"] /\ Rank["announce-list"] < n BY <1>1, <1>2, <1>4
  <2> QED BY <1>2, <1>4, <2>1, ListEntrySegment
<1>6. PICK C : /\ Segment(le, i, n, C, <<>>)
               /\ \A y \in C : y.key = "announce-list" /\ ParseAnnounceList(y.value, 1).pos # Error
  BY <1>5 DEF ListPart
<1>7. PICK none : none = <<>> OBVIOUS
<1>8. PICK w : w = le \o x OBVIOUS
<1>9. Closing(w, i, C \cup B, none \o Q)
  <2>1. Segment(le, i, n, C, none) /\ Closing(x, m, B, Q) BY <1>1, <1>6, <1>7
  <2>2. i <= m /\ n <= m + 1 BY <1>1, <1>2, <1>4
  <2> QED BY <1>2, <1>4, <1>8, <2>1, <2>2, SegmentCloses
<1>10. none \o Q = Q
  <2>1. Q \in Seq(Entry) BY DEF Closing
  <2> QED BY <1>7, <2>1, ConcatEmptySeq
<1>11. Closing(s \o w, k, A \cup (C \cup B), R \o Q)
  <2>1. Segment(s, k, m, A, R) /\ Closing(w, i, C \cup B, Q) BY <1>1, <1>9, <1>10
  <2> QED BY <1>2, <1>4, <2>1, SegmentCloses
<1>12. PICK y, D1 : y = s \o w /\ D1 = A \cup (C \cup B) OBVIOUS
<1>13. Written(o, u, D1, R \o Q) /\ Lies(y, o, 4, Len(o) + 1)
  <2>1. Closing(y, Rank["announce"], D1, R \o Q) BY <1>1, <1>11, <1>12
  <2>2. o = Opening(u) \o y BY <1>8, <1>12
  <2> QED BY <2>1, <2>2, HeadWritten
<1>14. o \in Seq(Token) BY <1>13 DEF Written
<1>15. s \in Seq(Token) /\ le \in Seq(Token) /\ x \in Seq(Token) BY <1>6 DEF Segment, Closing
<1>16. w \in Seq(Token) BY <1>8, <1>15, TokensAre
<1>17. PICK four, z : four = 4 /\ z = Len(o) + 1 OBVIOUS
<1>18. PICK p \in Nat : Lies(s, o, four, p) /\ Lies(w, o, p, z)
  BY <1>12, <1>13, <1>14, <1>15, <1>16, <1>17, LiesConcat
<1>19. PICK q \in Nat : Lies(le, o, p, q) /\ Lies(x, o, q, z) BY <1>8, <1>14, <1>15, <1>18, LiesConcat
<1>20. Around(o, s, le, x, list, p, q) BY <1>15, <1>17, <1>18, <1>19 DEF Around
<1> QED BY <1>6, <1>12, <1>13, <1>20 DEF Put, UrlEntries

\* Sequences put together, in one order or the other.
Joined(x, y) == x \o y

\* Three of them.
LEMMA JoinedIs ==
  \A x, y, z \in Seq(Token) : /\ Joined(x, y) \in Seq(Token)
                               /\ Joined(Joined(x, y), z) = Joined(x, Joined(y, z))
<1>1. ASSUME NEW x \in Seq(Token), NEW y \in Seq(Token), NEW z \in Seq(Token)
      PROVE  (x \o y) \o z = x \o (y \o z) /\ x \o y \in Seq(Token)
  <2>1. (x \o y) \o z = x \o (y \o z) BY ConcatAssociative
  <2>2. x \o y \in Seq(Token) BY TokensAre
  <2> QED BY <2>1, <2>2
<1> QED BY <1>1 DEF Joined

(***************************************************************************)
(* What the classes cut out of a file they have loaded.                    *)
(***************************************************************************)
\* A dictionary and nothing else, which begins with announce.
LEMMA BeginsWell ==
  ASSUME NEW b \in Seq(Token), Announce(b) # Error
  PROVE  SkipValue(b, 1) = AfterAnnounce(b)
<1>1. PICK one, two, three, k, n : one = 1 /\ two = 2 /\ three = 3 /\ k = 0 /\ n = Rank["announce"] OBVIOUS
<1>2. one \in Nat /\ two \in Nat /\ three \in Nat /\ k \in Nat /\ one + 1 = two /\ two + 1 = three
  BY <1>1
<1>3. n \in Nat /\ n > k BY <1>1, KeysAre, FileAssumption
<1>4. Announce(b) = 4 /\ At(b, one, "d") /\ At(b, two, "s") /\ b[two].v = "announce"
  BY <1>1, AnnounceIs
<1>5. "announce" \in Utf8 BY KeysAre
<1>6. SkipValue(b, one) = SkipEntries(b, two, k)
  <2>1. ~At(b, one, "s") /\ ~At(b, one, "i") /\ ~At(b, one, "l") BY <1>4 DEF At
  <2> QED BY <1>1, <1>2, <1>4, <2>1, SkipValueIs
<1>7. SkipValue(b, three) = 4
  <2>1. Announce(b) = ReadUtf8(b, three) BY <1>1, <1>4 DEF Announce, Error
  <2>2. ReadUtf8(b, three) \in {Error, SkipValue(b, three)} BY <1>2, ReadInfoSkips
  <2> QED BY <1>4, <2>1, <2>2 DEF Error
<1>8. NextKey(b, two, k) /\ ~At(b, two, "e") BY <1>1, <1>3, <1>4, <1>5, TokenIs
<1>9. SkipEntries(b, two, k) = SkipEntries(b, 4, n)
  <2>1. SkipEntries(b, two, k) = IF SkipValue(b, two + 1) = Error THEN Error
                                 ELSE SkipEntries(b, SkipValue(b, two + 1), Rank[b[two].v])
    BY <1>2, <1>8, SkipEntriesIs
  <2> QED BY <1>1, <1>2, <1>4, <1>7, <2>1 DEF Error
<1> QED BY <1>1, <1>6, <1>9 DEF AfterAnnounce

\* Up to the place behind the announce-list.
UrlsOf(b, a, s, A, R) ==
  /\ a.pos \in Nat /\ a.pos # 0 /\ Announce(b) = 4
  /\ a.t \in Objects /\ a.t.postAnnounce = s /\ a.t.info = NoRaw
  /\ Segment(s, Rank["announce"], Rank["announce-list"], A, R)
  /\ Rest(b) = R \o EntriesBut(b, a.pos, UrlKeys)
  /\ AfterAnnounce(b) = SkipEntries(b, a.pos, Rank["announce-list"])

\* It is cut out so.
LEMMA UrlsCut ==
  ASSUME NEW b \in Seq(Token), NEW a, a = LoadAnnounce(b), a.pos # Error
  PROVE  \E s, A, R : UrlsOf(b, a, s, A, R)
<1>1. PICK four, k, m : four = 4 /\ k = Rank["announce"] /\ m = Rank["announce-list"] OBVIOUS
<1>2. four \in Nat /\ four # 0 /\ k \in Nat /\ m \in Nat /\ k < m /\ "announce-list" \in Str
  BY <1>1, KeysAre
<1>3. a.pos \in Nat /\ a.t \in Objects /\ Announce(b) # Error BY AnnounceLoaded
<1>4. Announce(b) = four BY <1>1, <1>3, AnnounceIs
<1>5. PICK e : e = TryNext(b, four, "announce-list", k) OBVIOUS
<1>6. PICK al : al = IF e.found THEN ParseAnnounceList(b, e.pos) ELSE [pos |-> e.pos, list |-> <<>>]
  OBVIOUS
<1>7. PICK s : s = Slice(b, four, e.to) OBVIOUS
<1>8. /\ al.pos # Error
      /\ a = [pos |-> al.pos,
              t |-> [NewObject EXCEPT !.announce = b[3].v, !.list = al.list, !.postAnnounce = s]]
  <2>1. a = IF Announce(b) = Error \/ al.pos = Error THEN [pos |-> Error, t |-> NewObject]
            ELSE [pos |-> al.pos,
                  t |-> [NewObject EXCEPT !.announce = b[3].v, !.list = al.list, !.postAnnounce = s]]
    BY <1>1, <1>4, <1>5, <1>6, <1>7 DEF LoadAnnounce
  <2> QED BY <1>3, <2>1
<1>9. a.t.postAnnounce = s /\ a.t.info = NoRaw
  <2>1. PICK n : n = NewObject OBVIOUS
  <2>2. n \in Objects BY <2>1, ObjectIs
  <2>3. n.info = NoRaw BY <2>1 DEF NewObject
  <2>4. a.t = [n EXCEPT !.announce = b[3].v, !.list = al.list, !.postAnnounce = s] BY <1>8, <2>1
  <2> QED BY <2>2, <2>3, <2>4 DEF Objects
<1>10. /\ e.found \in BOOLEAN /\ e.pos \in Nat /\ e.to \in Nat
       /\ e.pos = Error => ~e.found
       /\ e.found => /\ e.pos = e.to + 1 /\ At(b, e.to, "s") /\ b[e.to].v = "announce-list"
                     /\ SkipEntries(b, four, k) = EndAfter(b, e.pos, "announce-list")
       /\ ~e.found /\ e.pos # Error => e.pos = e.to /\ SkipEntries(b, four, k) = SkipEntries(b, e.pos, m)
  BY <1>1, <1>2, <1>5, TryNextStops DEF Stops
<1>11. e.pos # Error BY <1>6, <1>8, <1>10
<1>12. Cuts(b, four, k, "announce-list", e.to) BY <1>2, <1>5, <1>11, SliceSegment
<1>13. PICK A, R : Segment(s, k, m, A, R) BY <1>1, <1>7, <1>12 DEF Cuts
<1>14. four \in 1..(Len(b) + 1) /\ e.to \in four..(Len(b) + 1) BY <1>12 DEF Cuts
<1>15. PICK z : z = e.to OBVIOUS
<1>16. Lies(s, b, four, z) /\ z \in Nat BY <1>7, <1>10, <1>14, <1>15, SliceLies
<1>17. EntriesBut(b, four, UrlKeys) = R \o EntriesBut(b, z, UrlKeys)
  <2>1. k <= k BY <1>2
  <2>2. PassesAt(s, k, m, A, R, b, four, z, k) BY <1>2, <1>13, <1>16, <2>1 DEF Segment
  <2> QED BY <2>2 DEF PassesAt, Passes
<1>18. EntriesBut(b, z, UrlKeys) = EntriesBut(b, a.pos, UrlKeys) /\ SkipEntries(b, four, k) = SkipEntries(b, a.pos, m)
  <2>1. CASE ~e.found BY <1>6, <1>8, <1>10, <1>11, <1>15, <2>1
  <2>2. CASE e.found
    <3>1. al = ParseAnnounceList(b, e.pos) BY <1>6, <2>2
    <3>2. al.pos \in {Error, SkipValue(b, e.pos)} BY <1>10, <3>1, ParseAnnounceListSkips
    <3>3. PICK q : q = a.pos OBVIOUS
    <3>4. q = SkipValue(b, e.pos) /\ q # Error BY <1>8, <3>2, <3>3
    <3>5. SkipEntries(b, four, k) = SkipEntries(b, q, m) BY <1>1, <1>10, <2>2, <3>4 DEF EndAfter
    <3>6. At(b, z, "s") /\ b[z].v \in UrlKeys /\ z + 1 = e.pos BY <1>10, <1>15, <2>2 DEF UrlKeys
    <3>7. PICK keys : keys = UrlKeys OBVIOUS
    <3>8. EntriesBut(b, z, keys) = (IF b[z].v \in keys THEN <<>> ELSE <<EntryAt(b, z)>>)
                                     \o EntriesBut(b, SkipValue(b, z + 1), keys)
      BY <1>16, <3>6, EntriesButAre
    <3>9. PICK w : w = EntriesBut(b, q, keys) OBVIOUS
    <3>10. w \in Seq(AnyEntry(b)) BY <1>3, <3>3, <3>9, EntriesButAre
    <3>11. EntriesBut(b, z, keys) = <<>> \o w BY <3>4, <3>6, <3>7, <3>8, <3>9
    <3>12. <<>> \o w = w BY <3>10, ConcatEmptySeq
    <3> QED BY <3>3, <3>5, <3>7, <3>9, <3>11, <3>12
  <2> QED BY <1>10, <2>1, <2>2
<1>19. Rest(b) = R \o EntriesBut(b, a.pos, UrlKeys)
  <2>1. Rest(b) = EntriesBut(b, 4, UrlKeys) BY <1>3, RestBehind
  <2> QED BY <1>1, <1>17, <1>18, <2>1
<1>20. AfterAnnounce(b) = SkipEntries(b, a.pos, m) BY <1>1, <1>18 DEF AfterAnnounce
<1>21. UrlsOf(b, a, s, A, R)
  <2>1. a.pos # 0 BY DEF Error
  <2> QED BY <1>1, <1>3, <1>4, <1>9, <1>13, <1>19, <1>20, <2>1 DEF UrlsOf
<1> QED BY <1>21

(***************************************************************************)
(* TorrentAnnounce: a file that is one dictionary is written with all its  *)
(* entries, and is read again with the urls it has been given.             *)
(***************************************************************************)
Reloaded(b, o, x, again) ==
  /\ WellFormed(o) /\ again.ok /\ again.t.announce = x.announce /\ again.t.list = x.list
  /\ again.t.info = x.info /\ Rest(o) = Rest(b)

\* It is rewritten so.
LEMMA AnnounceWritten ==
  ASSUME NEW b \in Seq(Token), WellFormed(b), NEW r, r = LoadTorrentAnnounce(b), r.ok,
         NEW u \in Utf8, NEW list \in Seq(Seq(Utf8)),
         NEW x, x = [r.t EXCEPT !.announce = u, !.list = list],
         NEW o, o = WriteTorrentAnnounce(x), NEW again, again = LoadTorrentAnnounce(o)
  PROVE  Reloaded(b, o, x, again)
<1>1. PICK a : a = LoadAnnounce(b) OBVIOUS
<1>2. PICK z : z = Len(b) + 1 OBVIOUS
<1>3. z \in Nat BY <1>2
<1>4. PICK y : y = Slice(b, a.pos, z) OBVIOUS
<1>5. a.pos # Error /\ r.t = [a.t EXCEPT !.postList = y]
  <2>1. r = IF a.pos = Error THEN Failed ELSE Loaded([a.t EXCEPT !.postList = y])
    BY <1>1, <1>2, <1>4 DEF LoadTorrentAnnounce
  <2>2. ~Failed.ok BY DEF Failed
  <2> QED BY <2>1, <2>2 DEF Loaded
<1>6. PICK s, A, R : UrlsOf(b, a, s, A, R) BY <1>1, <1>5, UrlsCut
<1>7. PICK k, m : k = Rank["announce"] /\ m = Rank["announce-list"] OBVIOUS
<1>8. k \in Nat /\ m \in Nat BY <1>7, KeysAre
<1>9. PICK p : p = a.pos OBVIOUS
<1>10. p \in Nat /\ p # 0 /\ Announce(b) = 4 BY <1>6, <1>9 DEF UrlsOf
<1>11. SkipEntries(b, p, m) = z
  <2>1. Announce(b) # Error BY <1>10 DEF Error
  <2>2. SkipValue(b, 1) = AfterAnnounce(b) BY <2>1, BeginsWell
  <2>3. SkipValue(b, 1) = z BY <1>2 DEF WellFormed
  <2> QED BY <1>6, <1>7, <1>9, <2>2, <2>3 DEF UrlsOf
<1>12. CutsEnd(b, p, m, z)
  <2>1. z # Error BY <1>2, <1>3 DEF Error
  <2> QED BY <1>8, <1>10, <1>11, <2>1, SliceCloses
<1>13. PICK B, Q : Closing(y, m, B, Q) BY <1>4, <1>9, <1>12 DEF CutsEnd
<1>14. Rest(b) = R \o Q
  <2>1. p \in 1..(Len(b) + 1) /\ z \in p..(Len(b) + 1) BY <1>12 DEF CutsEnd
  <2>2. Lies(y, b, p, z) BY <1>4, <1>9, <2>1, SliceLies
  <2>3. m <= m BY <1>8
  <2>4. Ends(b, p, m, z, B, Q) BY <1>3, <1>8, <1>10, <1>13, <2>2, <2>3 DEF Closing
  <2> QED BY <1>6, <1>9, <2>4 DEF UrlsOf, Ends
<1>15. a.t \in Objects /\ a.t.postAnnounce = s /\ a.t.info = NoRaw BY <1>6 DEF UrlsOf
<1>16. y \in Seq(Token) BY <1>13 DEF Closing
<1>17. /\ x \in Objects /\ x.announce = u /\ x.list = list /\ x.postAnnounce = s /\ x.postList = y
       /\ x.info = NoRaw
  <2>1. PICK t0 : t0 = a.t OBVIOUS
  <2>2. PICK t1 : t1 = [t0 EXCEPT !.postList = y] OBVIOUS
  <2>3. t1 \in Objects /\ t1.postAnnounce = s /\ t1.info = NoRaw /\ t1.postList = y
    BY <1>15, <1>16, <2>1, <2>2 DEF Objects
  <2>4. x = [t1 EXCEPT !.announce = u, !.list = list] BY <1>5, <2>1, <2>2
  <2> QED BY <2>3, <2>4 DEF Objects
<1>18. PICK le : le = AnnounceListEntry(x) OBVIOUS
<1>19. ListEntry(le, list) /\ le \in Seq(Token) BY <1>17, <1>18, ListEntryWritten, ListEntryType
<1>20. s \in Seq(Token) BY <1>6 DEF UrlsOf, Segment
<1>21. Opening(u) \in Seq(Token)
  <2>1. u \in Str /\ "announce" \in Str BY KeysAre, BencodeAssumption
  <2> QED BY <2>1, TokensAre DEF Opening
<1>22. o = Opening(u) \o (s \o (le \o y))
  <2>1. PICK h : h = Opening(u) OBVIOUS
  <2>2. o = ((h \o s) \o le) \o y BY <1>17, <1>18, <2>1 DEF WriteTorrentAnnounce, Opening
  <2>3. h \in Seq(Token) /\ s \in Seq(Token) /\ le \in Seq(Token) /\ y \in Seq(Token)
    BY <1>16, <1>19, <1>20, <1>21, <2>1
  <2>4. Joined(Joined(Joined(h, s), le), y) = Joined(h, Joined(s, Joined(le, y))) BY <2>3, JoinedIs
  <2> QED BY <2>1, <2>2, <2>4 DEF Joined
<1>23. PICK C : Put(o, u, s, le, y, list, A \cup (C \cup B), R \o Q)
  <2>1. Segment(s, Rank["announce"], Rank["announce-list"], A, R) BY <1>6 DEF UrlsOf
  <2>2. Closing(y, Rank["announce-list"], B, Q) BY <1>7, <1>13
  <2> QED BY <1>19, <1>22, <2>1, <2>2, FilePut
<1>24. o \in Seq(Token) /\ Announce(o) = 4 /\ o[3].v = u /\ WellFormed(o) /\ Rest(o) = R \o Q
  BY <1>23 DEF Put, Written
<1>25. PICK i, q \in Nat : Around(o, s, le, y, list, i, q) BY <1>23 DEF Put
<1>26. PICK c : c = LoadAnnounce(o) OBVIOUS
<1>27. /\ c.pos # Error /\ c.t.announce = u /\ c.t.list = list /\ c.t.info = NoRaw
       /\ c.t \in Objects
  BY <1>24, <1>25, <1>26, UrlsRead
<1>28. again.ok /\ again.t.announce = u /\ again.t.list = list /\ again.t.info = NoRaw
  <2>1. PICK w, t0 : w = Slice(o, c.pos, Len(o) + 1) /\ t0 = c.t OBVIOUS
  <2>2. again.ok /\ again.t = [t0 EXCEPT !.postList = w]
    BY <1>26, <1>27, <2>1 DEF LoadTorrentAnnounce, Loaded
  <2> QED BY <1>27, <2>1, <2>2 DEF Objects
<1> QED BY <1>14, <1>17, <1>24, <1>28 DEF Reloaded

(***************************************************************************)
(* TorrentAnnounceInfo cuts out the info, too, and what is around it.      *)
(***************************************************************************)
InfoOf(b, a, o, s, v, x, Q) ==
  /\ o = [a.t EXCEPT !.postList = s, !.info = v, !.postInfo = x]
  /\ s \in Seq(Token) /\ Alone(v)
  /\ \E A, R : Segment(s, Rank["announce-list"], Rank["info"], A, R)
  /\ \E A, R : Closing(x, Rank["info"], A, R)
  /\ \E B : Closing(s \o ((<<S("info")>> \o v) \o x), Rank["announce-list"], B, Q)
  /\ EntriesBut(b, a.pos, UrlKeys) = Q

\* It cuts it out so.
LEMMA InfoCut ==
  ASSUME NEW b \in Seq(Token), NEW a, a.pos \in Nat, a.pos # 0, NEW r, r = LoadInfo(b, a), r.ok
  PROVE  \E s, v, x, Q : InfoOf(b, a, r.t, s, v, x, Q)
<1>1. PICK p, m, n : p = a.pos /\ m = Rank["announce-list"] /\ n = Rank["info"] OBVIOUS
<1>2. p \in Nat /\ p # 0 /\ m \in Nat /\ n \in Nat /\ m < n /\ "info" \in Str BY <1>1, KeysAre
<1>3. PICK e : e = TryNext(b, p, "info", m) OBVIOUS
<1>4. PICK q : q = SkipValue(b, e.pos) OBVIOUS
<1>5. PICK z : z = SkipEntries(b, q, n) OBVIOUS
<1>6. PICK s, v, x : s = Slice(b, p, e.to) /\ v = Slice(b, e.pos, q) /\ x = Slice(b, q, z) OBVIOUS
<1>7. /\ e.found /\ q # Error /\ z # Error
      /\ r.t = [a.t EXCEPT !.postList = s, !.info = v, !.postInfo = x]
  <2>1. r = IF ~e.found \/ q = Error \/ z = Error THEN Failed
            ELSE Loaded([a.t EXCEPT !.postList = s, !.info = v, !.postInfo = x])
    BY <1>1, <1>3, <1>4, <1>5, <1>6 DEF LoadInfo
  <2>2. ~Failed.ok BY DEF Failed
  <2> QED BY <2>1, <2>2 DEF Loaded
<1>8. /\ e.found \in BOOLEAN /\ e.pos \in Nat /\ e.to \in Nat
      /\ e.pos = Error => ~e.found
      /\ e.found => /\ e.pos = e.to + 1 /\ At(b, e.to, "s") /\ b[e.to].v = "info"
                    /\ SkipEntries(b, p, m) = EndAfter(b, e.pos, "info")
  BY <1>2, <1>3, TryNextStops DEF Stops
<1>9. PICK i, j : i = e.to /\ j = e.pos OBVIOUS
<1>10. i \in Nat /\ j \in Nat /\ j = i + 1 /\ j # 0 /\ At(b, i, "s") /\ b[i].v = "info"
  BY <1>7, <1>8, <1>9 DEF Error
<1>11. SkipEntries(b, p, m) = z BY <1>1, <1>4, <1>5, <1>7, <1>8 DEF EndAfter
<1>12. i \in 1..Len(b) /\ Len(b) \in Nat BY <1>10, TokenIs
<1>13. q \in (j + 1)..(Len(b) + 1) /\ q \in Nat
  <2>1. q \in EndsBehind(b, j) BY <1>4, <1>9, <1>10, SkipValueIs
  <2> QED BY <1>7, <1>10, <1>12, <2>1 DEF EndsBehind
<1>14. Cuts(b, p, m, "info", i)
  <2>1. e.pos # Error BY <1>7, <1>8
  <2> QED BY <1>2, <1>3, <1>9, <2>1, SliceSegment
<1>15. PICK A, R : Segment(s, m, n, A, R) BY <1>1, <1>6, <1>9, <1>14 DEF Cuts
<1>16. s \in Seq(Token) BY <1>15 DEF Segment
<1>17. Alone(v) BY <1>4, <1>6, <1>7, <1>9, <1>10, ValueAlone
<1>18. CutsEnd(b, q, n, z)
  <2>1. q # 0 BY <1>7 DEF Error
  <2> QED BY <1>2, <1>5, <1>7, <1>13, <2>1, SliceCloses
<1>19. \E C, W : Closing(x, n, C, W) BY <1>6, <1>18 DEF CutsEnd
<1>20. CutsEnd(b, p, m, z) BY <1>2, <1>7, <1>11, SliceCloses
<1>21. PICK B, Q : Closing(Slice(b, p, z), m, B, Q) BY <1>20 DEF CutsEnd
<1>22. p \in 1..(Len(b) + 1) /\ i \in p..(Len(b) + 1) BY <1>14 DEF Cuts
<1>23. z \in (q + 1)..(Len(b) + 1) BY <1>18 DEF CutsEnd
<1>24. z \in p..(Len(b) + 1) /\ z \in Nat BY <1>12, <1>13, <1>20, <1>23 DEF CutsEnd
<1>25. Slice(b, p, z) = s \o ((<<S("info")>> \o v) \o x)
  <2>1. Slice(b, p, z) = Slice(b, p, i) \o Slice(b, i, z)
    <3>1. z \in i..(Len(b) + 1) BY <1>10, <1>12, <1>13, <1>23, <1>24
    <3> QED BY <1>22, <3>1, SlicesJoin
  <2>2. Slice(b, i, z) = Slice(b, i, q) \o Slice(b, q, z)
    <3>1. i \in 1..(Len(b) + 1) /\ q \in i..(Len(b) + 1) /\ z \in q..(Len(b) + 1)
      BY <1>10, <1>12, <1>13, <1>23, <1>24
    <3> QED BY <3>1, SlicesJoin
  <2>3. Slice(b, i, q) = <<b[i]>> \o Slice(b, i + 1, q)
    <3>1. q \in (i + 1)..(Len(b) + 1) BY <1>10, <1>12, <1>13
    <3> QED BY <1>12, <3>1, SliceBegins
  <2>4. b[i] = S("info") BY <1>10, KeyThere
  <2> QED BY <1>6, <1>9, <1>10, <2>1, <2>2, <2>3, <2>4
<1>26. EntriesBut(b, p, UrlKeys) = Q
  <2>1. PICK y : y = Slice(b, p, z) OBVIOUS
  <2>2. Lies(y, b, p, z) BY <1>22, <1>24, <2>1, SliceLies
  <2>3. m <= m BY <1>2
  <2>4. Ends(b, p, m, z, B, Q) BY <1>2, <1>21, <1>24, <2>1, <2>2, <2>3 DEF Closing
  <2> QED BY <2>4 DEF Ends
<1>27. InfoOf(b, a, r.t, s, v, x, Q)
  <2>1. Closing(s \o ((<<S("info")>> \o v) \o x), m, B, Q) BY <1>21, <1>25
  <2> QED BY <1>1, <1>7, <1>15, <1>16, <1>17, <1>19, <1>26, <2>1 DEF InfoOf
<1> QED BY <1>27

\* Seven parts, as TorrentAnnounceInfo::write puts them together.
SevenJoined(h, s, le, x, k, v, y) ==
  Joined(Joined(Joined(Joined(Joined(Joined(h, s), le), x), k), v), y)
    = Joined(h, Joined(s, Joined(le, Joined(x, Joined(Joined(k, v), y)))))

\* The order makes no difference.
LEMMA SevenJoin ==
  \A h, s, le, x, k, v, y \in Seq(Token) : SevenJoined(h, s, le, x, k, v, y)
<1> SUFFICES
      ASSUME NEW h \in Seq(Token), NEW s \in Seq(Token), NEW le \in Seq(Token), NEW x \in Seq(Token),
             NEW k \in Seq(Token), NEW v \in Seq(Token), NEW y \in Seq(Token)
      PROVE  SevenJoined(h, s, le, x, k, v, y)
  BY Zenon
<1>1. PICK a : a = Joined(Joined(Joined(h, s), le), x) OBVIOUS
<1>2. a \in Seq(Token) BY <1>1, JoinedIs
<1>3. PICK z : z = Joined(Joined(k, v), y) OBVIOUS
<1>4. z \in Seq(Token) BY <1>3, JoinedIs
<1>5. Joined(Joined(Joined(a, k), v), y) = Joined(a, z) BY <1>2, <1>3, JoinedIs
<1>6. PICK w : w = Joined(x, z) OBVIOUS
<1>7. w \in Seq(Token) BY <1>4, <1>6, JoinedIs
<1>8. Joined(a, z) = Joined(Joined(Joined(h, s), le), w)
  <2>1. PICK g : g = Joined(Joined(h, s), le) OBVIOUS
  <2>2. g \in Seq(Token) BY <2>1, JoinedIs
  <2>3. Joined(Joined(g, x), z) = Joined(g, Joined(x, z)) BY <1>4, <2>2, JoinedIs
  <2> QED BY <1>1, <1>6, <2>1, <2>3
<1>9. Joined(Joined(Joined(h, s), le), w) = Joined(h, Joined(s, Joined(le, w))) BY <1>7, JoinedIs
<1> QED BY <1>1, <1>3, <1>5, <1>6, <1>8, <1>9 DEF SevenJoined

\* A file TorrentAnnounceInfo has loaded it writes with all the entries of its
\* dictionary, and reads it again with the urls it has been given and its info.
LEMMA AnnounceInfoWritten ==
  ASSUME NEW b \in Seq(Token), NEW r, r = LoadTorrentAnnounceInfo(b), r.ok,
         NEW u \in Utf8, NEW list \in Seq(Seq(Utf8)),
         NEW x, x = [r.t EXCEPT !.announce = u, !.list = list],
         NEW o, o = WriteTorrentAnnounceInfo(x), NEW again, again = LoadTorrentAnnounceInfo(o)
  PROVE  Reloaded(b, o, x, again)
<1>1. PICK a : a = LoadAnnounce(b) OBVIOUS
<1>2. r = LoadInfo(b, a) BY <1>1 DEF LoadTorrentAnnounceInfo
<1>3. PICK p, k, m, n : /\ p = a.pos /\ k = Rank["announce"] /\ m = Rank["announce-list"]
                        /\ n = Rank["info"]
  OBVIOUS
<1>4. k \in Nat /\ m \in Nat /\ n \in Nat BY <1>3, KeysAre
<1>5. p \in Nat BY <1>1, <1>3, AnnounceLoaded
<1>6. p # Error
  <2>1. SkipEntries(b, p, m) # Error BY <1>2, <1>3, <1>5, InfoFound
  <2>2. ~At(b, Error, "e") /\ ~At(b, Error, "s") BY DEF Error, At
  <2>3. ~NextKey(b, Error, m) BY <2>2, TokenIs
  <2>4. Error \in Nat BY DEF Error
  <2>5. SkipEntries(b, Error, m) = Error BY <1>4, <2>2, <2>3, <2>4, SkipEntriesIs
  <2> QED BY <2>1, <2>5
<1>7. PICK s, A, R : UrlsOf(b, a, s, A, R) BY <1>1, <1>3, <1>6, UrlsCut
<1>8. PICK y, v, w, Q : InfoOf(b, a, r.t, y, v, w, Q)
  <2>1. a.pos \in Nat /\ a.pos # 0 BY <1>3, <1>5, <1>6 DEF Error
  <2> QED BY <1>2, <2>1, InfoCut
<1>9. PICK z : z = y \o ((<<S("info")>> \o v) \o w) OBVIOUS
<1>10. PICK B : Closing(z, m, B, Q) BY <1>3, <1>8, <1>9 DEF InfoOf
<1>11. Rest(b) = R \o Q BY <1>3, <1>7, <1>8 DEF UrlsOf, InfoOf
<1>12. y \in Seq(Token) /\ Alone(v) /\ v \in Seq(Token) /\ w \in Seq(Token) /\ z \in Seq(Token)
       /\ s \in Seq(Token)
  BY <1>7, <1>8, <1>10 DEF InfoOf, Alone, Closing, UrlsOf, Segment
<1>13. /\ x \in Objects /\ x.announce = u /\ x.list = list /\ x.postAnnounce = s /\ x.postList = y
       /\ x.info = v /\ x.postInfo = w
  <2>1. PICK t0 : t0 = a.t OBVIOUS
  <2>2. t0 \in Objects /\ t0.postAnnounce = s BY <1>7, <2>1 DEF UrlsOf
  <2>3. PICK t1 : t1 = [t0 EXCEPT !.postList = y, !.info = v, !.postInfo = w] OBVIOUS
  <2>4. t1 \in Objects /\ t1.postAnnounce = s /\ t1.info = v /\ t1.postList = y /\ t1.postInfo = w
    BY <1>12, <2>2, <2>3 DEF Objects
  <2>5. r.t = t1 BY <1>8, <2>1, <2>3 DEF InfoOf
  <2>6. x = [t1 EXCEPT !.announce = u, !.list = list] BY <2>5
  <2> QED BY <2>4, <2>6 DEF Objects
<1>14. PICK le : le = AnnounceListEntry(x) OBVIOUS
<1>15. ListEntry(le, list) /\ le \in Seq(Token) BY <1>13, <1>14, ListEntryWritten, ListEntryType
<1>16. o = Opening(u) \o (s \o (le \o z))
  <2>1. PICK h, i : h = Opening(u) /\ i = <<S("info")>> OBVIOUS
  <2>2. h \in Seq(Token) /\ i \in Seq(Token)
    <3>1. u \in Str /\ "announce" \in Str /\ "info" \in Str BY KeysAre, BencodeAssumption
    <3> QED BY <2>1, <3>1, TokensAre DEF Opening
  <2>3. o = (((((h \o s) \o le) \o y) \o i) \o v) \o w
    BY <1>13, <1>14, <2>1 DEF WriteTorrentAnnounceInfo, Opening
  <2>4. Joined(Joined(Joined(Joined(Joined(Joined(h, s), le), y), i), v), w)
          = Joined(h, Joined(s, Joined(le, Joined(y, Joined(Joined(i, v), w)))))
    <3>1. /\ h \in Seq(Token) /\ s \in Seq(Token) /\ le \in Seq(Token) /\ y \in Seq(Token)
          /\ i \in Seq(Token) /\ v \in Seq(Token) /\ w \in Seq(Token)
      BY <1>12, <1>15, <2>2
    <3>2. SevenJoined(h, s, le, y, i, v, w) BY ONLY <3>1, SevenJoin
    <3> QED BY <3>2 DEF SevenJoined
  <2> QED BY <1>9, <2>1, <2>3, <2>4 DEF Joined
<1>17. PICK C : Put(o, u, s, le, z, list, A \cup (C \cup B), R \o Q)
  <2>1. Segment(s, Rank["announce"], Rank["announce-list"], A, R) BY <1>7 DEF UrlsOf
  <2>2. Closing(z, Rank["announce-list"], B, Q) BY <1>3, <1>10
  <2> QED BY <1>15, <1>16, <2>1, <2>2, FilePut
<1>18. o \in Seq(Token) /\ Announce(o) = 4 /\ o[3].v = u /\ WellFormed(o) /\ Rest(o) = R \o Q
  BY <1>17 DEF Put, Written
<1>19. PICK i, q \in Nat : Around(o, s, le, z, list, i, q) BY <1>17 DEF Put
<1>20. PICK c : c = LoadAnnounce(o) OBVIOUS
<1>21. c.pos = q /\ c.t.announce = u /\ c.t.list = list /\ c.t \in Objects
  BY <1>18, <1>19, <1>20, UrlsRead
<1>22. AroundInfo(o, y, v, w, q)
  <2>1. Lies(z, o, q, Len(o) + 1) BY <1>19 DEF Around
  <2>2. Lies(y \o ((<<S("info")>> \o v) \o w), o, q, Len(o) + 1) BY <1>9, <2>1
  <2>3. \E X, W : Segment(y, Rank["announce-list"], Rank["info"], X, W) BY <1>8 DEF InfoOf
  <2>4. \E X, W : Closing(w, Rank["info"], X, W) BY <1>8 DEF InfoOf
  <2> QED BY <1>12, <2>2, <2>3, <2>4 DEF AroundInfo
<1>23. again = LoadInfo(o, c) BY <1>20 DEF LoadTorrentAnnounceInfo
<1>24. again.ok /\ again.t.info = v /\ again.t.announce = c.t.announce /\ again.t.list = c.t.list
  BY <1>18, <1>21, <1>22, <1>23, InfoRead
<1> QED BY <1>11, <1>13, <1>18, <1>21, <1>24 DEF Reloaded

-----------------------------------------------------------------------------
(***************************************************************************)
(* Torrent: which entries it keeps, and how it writes them.                *)
(***************************************************************************)
\* Each value in a dictionary that can be skipped is one value.
LEMMA EntriesAlone ==
  ASSUME NEW b \in Seq(Token), NEW p \in Nat, NEW prev \in Nat, SkipEntries(b, p, prev) # Error
  PROVE  \A x \in EntrySet(b, p) : Alone(x.value) /\ x = EntryOf(x.key, x.value)
<1> DEFINE Sound(n) == \A x \in EntrySet(b, n) : Alone(x.value) /\ x = EntryOf(x.key, x.value)
<1> DEFINE T == {n \in Nat : \A k \in Nat : SkipEntries(b, n, k) # Error => Sound(n)}
<1>1. ASSUME NEW n \in Nat, \A q \in Nat : q > n /\ n <= Len(b) => q \in T PROVE n \in T
  <2> SUFFICES ASSUME NEW k \in Nat, SkipEntries(b, n, k) # Error PROVE Sound(n)
    OBVIOUS
  <2>1. CASE At(b, n, "e")
    <3>1. EntrySet(b, n) = {} BY <2>1, NoMoreEntry
    <3> QED BY <3>1
  <2>2. CASE ~At(b, n, "e")
    <3>1. PICK q, r, e : q = SkipValue(b, n + 1) /\ r = Rank[b[n].v] /\ e = EntryAt(b, n) OBVIOUS
    <3>2. /\ n \in 1..Len(b) /\ Len(b) \in Nat /\ r \in Nat /\ q \in Nat /\ q > n /\ q # Error
          /\ SkipEntries(b, q, r) # Error
          /\ EntrySet(b, n) = {e} \cup EntrySet(b, q)
      BY <2>2, <3>1, OneMoreEntry
    <3>3. q \in T BY <1>1, <3>2
    <3>4. Sound(q) BY <3>2, <3>3
    <3>5. PICK j, v : j = n + 1 /\ v = Slice(b, j, q) OBVIOUS
    <3>6. j \in Nat /\ j # 0 /\ q = SkipValue(b, j) BY <3>1, <3>2, <3>5
    <3>7. Alone(v) BY <3>2, <3>5, <3>6, ValueAlone
    <3>8. e = EntryOf(b[n].v, v) BY <3>1, <3>5 DEF EntryAt, EntryOf
    <3>9. e.key = b[n].v /\ e.value = v BY <3>8 DEF EntryOf
    <3> QED BY <3>2, <3>4, <3>7, <3>8, <3>9
  <2> QED BY <2>1, <2>2
<1>2. T = Nat
  <2>1. T \in SUBSET Nat OBVIOUS
  <2> HIDE DEF T
  <2> QED BY <1>1, <2>1, PositionInduction
<1> QED BY <1>2

\* The entries with some keys left out.
LEMMA RestSet ==
  ASSUME NEW b \in Seq(Token), NEW p \in Nat, NEW prev \in Nat, SkipEntries(b, p, prev) # Error,
         NEW keys
  PROVE  Range(EntriesBut(b, p, keys)) = {x \in EntrySet(b, p) : x.key \notin keys}
<1> DEFINE Left2(n) == Range(EntriesBut(b, n, keys)) = {x \in EntrySet(b, n) : x.key \notin keys}
<1> DEFINE T == {n \in Nat : \A k \in Nat : SkipEntries(b, n, k) # Error => Left2(n)}
<1>1. ASSUME NEW n \in Nat, \A q \in Nat : q > n /\ n <= Len(b) => q \in T PROVE n \in T
  <2> SUFFICES ASSUME NEW k \in Nat, SkipEntries(b, n, k) # Error PROVE Left2(n)
    OBVIOUS
  <2>1. CASE At(b, n, "e")
    <3>1. EntrySet(b, n) = {} BY <2>1, NoMoreEntry
    <3>2. ~At(b, n, "s") BY <2>1 DEF At
    <3>3. EntriesBut(b, n, keys) = <<>> BY <3>2, EntriesButAre
    <3>4. Range(<<>>) = {} BY DEF Range
    <3> QED BY <3>1, <3>3, <3>4
  <2>2. CASE ~At(b, n, "e")
    <3>1. PICK q, r, e : q = SkipValue(b, n + 1) /\ r = Rank[b[n].v] /\ e = EntryAt(b, n) OBVIOUS
    <3>2. /\ n \in 1..Len(b) /\ Len(b) \in Nat /\ r \in Nat /\ q \in Nat /\ q > n /\ At(b, n, "s")
          /\ SkipEntries(b, q, r) # Error /\ e.key = b[n].v
          /\ EntrySet(b, n) = {e} \cup EntrySet(b, q)
      BY <2>2, <3>1, OneMoreEntry
    <3>3. q \in T BY <1>1, <3>2
    <3>4. PICK z : z = EntriesBut(b, q, keys) OBVIOUS
    <3>5. Range(z) = {x \in EntrySet(b, q) : x.key \notin keys} BY <3>2, <3>3, <3>4
    <3>6. EntriesBut(b, n, keys) = (IF b[n].v \in keys THEN <<>> ELSE <<e>>) \o z
      <4>1. EntriesBut(b, n, keys) = (IF b[n].v \in keys THEN <<>> ELSE <<EntryAt(b, n)>>)
                                        \o EntriesBut(b, SkipValue(b, n + 1), keys)
        <5>1. n \in Nat /\ At(b, n, "s") BY <3>2
        <5> QED BY ONLY b \in Seq(Token), <5>1, EntriesButAre
      <4> QED BY <3>1, <3>4, <4>1
    <3>7. z \in Seq(AnyEntry(b)) /\ e \in AnyEntry(b) BY <3>1, <3>2, <3>4, EntriesButAre DEF AnyEntry
    <3>8. CASE b[n].v \in keys
      <4>1. EntriesBut(b, n, keys) = <<>> \o z BY <3>6, <3>8
      <4>2. <<>> \o z = z BY <3>7, ConcatEmptySeq
      <4> QED BY <3>2, <3>5, <3>8, <4>1, <4>2
    <3>9. CASE b[n].v \notin keys
      <4>1. EntriesBut(b, n, keys) = <<e>> \o z BY <3>6, <3>9
      <4>2. Range(<<e>> \o z) = {e} \cup Range(z) BY <3>7, RangeOfMore
      <4> QED BY <3>2, <3>5, <3>9, <4>1, <4>2
    <3> QED BY <3>8, <3>9
  <2> QED BY <2>1, <2>2
<1>2. T = Nat
  <2>1. T \in SUBSET Nat OBVIOUS
  <2> HIDE DEF T
  <2> QED BY <1>1, <2>1, PositionInduction
<1> QED BY <1>2

\* A finite set of keys has a rank above them.
LEMMA RankAbove ==
  ASSUME NEW keys \in SUBSET Str, IsFiniteSet(keys)
  PROVE  \E hi \in Nat : \A key \in keys : Rank[key] < hi
<1> DEFINE Above(k) == \E hi \in Nat : \A key \in k : Rank[key] < hi
<1> DEFINE T == {n \in Nat : \A k \in SUBSET keys : Cardinality(k) = n => Above(k)}
<1>1. ASSUME NEW n \in Nat, \A i \in 0..(n - 1) : i \in T PROVE n \in T
  <2> SUFFICES ASSUME NEW k \in SUBSET keys, Cardinality(k) = n PROVE Above(k)
    OBVIOUS
  <2>1. CASE k = {}
    <3>1. 0 \in Nat OBVIOUS
    <3> QED BY <2>1, <3>1
  <2>2. CASE k # {}
    <3>1. PICK key \in k : TRUE BY <2>2
    <3>2. PICK j : j = k \ {key} OBVIOUS
    <3>3. IsFiniteSet(k) BY FS_Subset
    <3>4. Cardinality(j) = n - 1 /\ Cardinality(j) \in Nat
      <4>1. Cardinality(j) = Cardinality(k) - 1 BY <3>1, <3>2, <3>3, FS_RemoveElement
      <4>2. IsFiniteSet(j) BY <3>2, <3>3, FS_Subset
      <4> QED BY <4>1, <4>2, FS_CardinalityType
    <3>5. j \in SUBSET keys /\ n - 1 \in 0..(n - 1) BY <3>2, <3>4
    <3>6. Above(j) BY <1>1, <3>4, <3>5
    <3>7. PICK hi \in Nat : \A c \in j : Rank[c] < hi BY <3>6
    <3>8. \A c \in k : Rank[c] \in Nat BY BencodeAssumption
    <3>9. PICK m \in Nat : hi <= m /\ Rank[key] < m
      <4>1. hi + (Rank[key] + 1) \in Nat BY <3>1, <3>8
      <4>2. hi <= hi + (Rank[key] + 1) /\ Rank[key] < hi + (Rank[key] + 1) BY <3>1, <3>8
      <4> QED BY <4>1, <4>2
    <3>10. \A c \in k : Rank[c] < m
      <4> SUFFICES ASSUME NEW c \in k PROVE Rank[c] < m
        OBVIOUS
      <4>1. CASE c = key BY <3>9, <4>1
      <4>2. CASE c # key
        <5>1. Rank[c] < hi BY <3>2, <3>7, <4>2
        <5>2. Rank[c] \in Nat BY <3>8
        <5> QED BY <3>9, <5>1, <5>2
      <4> QED BY <4>1, <4>2
    <3> QED BY <3>10
  <2> QED BY <2>1, <2>2
<1>2. T = Nat
  <2>1. T \in SUBSET Nat OBVIOUS
  <2> HIDE DEF T
  <2> QED BY <1>1, <2>1, StrongInduction
<1>3. Cardinality(keys) \in T BY <1>2, FS_CardinalityType
<1> QED BY <1>3

\* Whether a filter fits a value, is seen of the value alone.
LEMMA MetaSeen ==
  ASSUME NEW b \in Seq(Token), NEW p \in Nat, p # 0, NEW q, q = SkipValue(b, p), q # Error,
         NEW v, v = Slice(b, p, q), NEW key, NEW nw
  PROVE  MetaKept(v, 1, key, nw) <=> MetaKept(b, p, key, nw)
<1>1. (ReadUtf8(v, 1) = Error) <=> (ReadUtf8(b, p) = Error) BY ValueRead
<1>2. Alone(v) /\ Lies(v, b, p, q) BY ValueAlone
<1>3. v \in Seq(Token) /\ v # <<>> BY <1>2, AloneEnds DEF Alone
<1>4. 1 \in 1..Len(v) /\ Len(v) \in Nat BY <1>3, EmptySeq
<1>5. p + 1 - 1 = p OBVIOUS
<1>6. v[1] = b[p] BY <1>2, <1>4, <1>5 DEF Lies
<1>7. p \in 1..Len(b) BY <1>2, <1>4 DEF Lies
<1>8. (ReadNumber(v, 1) = Error) <=> (ReadNumber(b, p) = Error)
  <2>1. At(v, 1, "i") <=> At(b, p, "i") BY <1>4, <1>6, <1>7 DEF At
  <2> QED BY <1>6, <2>1 DEF ReadNumber, Error
<1> QED BY <1>1, <1>8 DEF MetaKept

-----------------------------------------------------------------------------
\* A kept or new entry as it is written: its key and one value.
Raw(raw, key) == \E v : Alone(v) /\ raw = <<S(key)>> \o v

\* The entries of some keys.
RawSet(parts, keys) == {EntryOf(key, Tail(parts[key])) : key \in keys}

\* What is behind the key is the value.
LEMMA RawTail ==
  ASSUME NEW key \in Str, NEW v \in Seq(Token), NEW raw, raw = <<S(key)>> \o v
  PROVE  Tail(raw) = v
<1>1. PICK s : s = S(key) OBVIOUS
<1>2. s \in Token /\ <<s>> \in Seq(Token) /\ Len(<<s>>) = 1 BY <1>1, KeyIs
<1>3. /\ raw \in Seq(Token) /\ Len(raw) = 1 + Len(v)
      /\ \A i \in (1 + 1)..(1 + Len(v)) : raw[i] = v[i - 1]
  BY <1>1, <1>2, ConcatProperties
<1>4. Len(v) \in Nat OBVIOUS
<1>5. raw # <<>> BY <1>3, <1>4, EmptySeq
<1>6. /\ Tail(raw) \in Seq(Token) /\ Len(Tail(raw)) = Len(v)
      /\ \A i \in 1..Len(v) : Tail(raw)[i] = raw[i + 1]
  BY <1>3, <1>4, <1>5
<1>7. \A i \in 1..Len(v) : Tail(raw)[i] = v[i]
  <2> SUFFICES ASSUME NEW i \in 1..Len(v) PROVE Tail(raw)[i] = v[i]
    OBVIOUS
  <2>1. i + 1 \in (1 + 1)..(1 + Len(v)) /\ i + 1 - 1 = i BY <1>4
  <2>2. raw[i + 1] = v[i + 1 - 1] BY <1>3, <2>1
  <2> QED BY <1>6, <2>1, <2>2
<1> QED BY <1>6, <1>7, SeqEqual

\* The keys of a set of entries are utf-8 and between two ranks, and what they
\* are to be written as is an entry.
Between(parts, keys, lo, hi) ==
  \A key \in keys : key \in Utf8 /\ Raw(parts[key], key) /\ lo < Rank[key] /\ Rank[key] < hi

\* They are written as a part with these entries.
LEMMA RawSegment ==
  ASSUME NEW parts \in Metas, NEW keys \in SUBSET DOMAIN parts, NEW lo \in Nat, NEW hi \in Nat,
         Between(parts, keys, lo, hi)
  PROVE  \E R : Segment(RawOf(parts, keys), lo, hi, RawSet(parts, keys), R)
<1>1. PICK K \in SUBSET Str : IsFiniteSet(K) /\ parts \in [K -> Seq(Token)] BY DEF Metas
<1>2. DOMAIN parts = K BY <1>1
<1> DEFINE Parted(k, l) == \E R : Segment(RawOf(parts, k), l, hi, RawSet(parts, k), R)
<1> DEFINE T == {n \in Nat : \A k \in SUBSET keys, l \in Nat :
                   Cardinality(k) = n /\ Between(parts, k, l, hi) => Parted(k, l)}
<1>3. ASSUME NEW n \in Nat, \A i \in 0..(n - 1) : i \in T PROVE n \in T
  <2> SUFFICES ASSUME NEW k \in SUBSET keys, NEW l \in Nat, Cardinality(k) = n,
                      Between(parts, k, l, hi)
               PROVE  Parted(k, l)
    OBVIOUS
  <2>1. CASE k = {}
    <3>1. RawOf(parts, k) = <<>> BY <1>2, <2>1, RawOfIs
    <3>2. RawSet(parts, k) = {} BY <2>1 DEF RawSet
    <3>3. Segment(<<>>, l, hi, {}, <<>>) BY NoSegment
    <3> QED BY <3>1, <3>2, <3>3
  <2>2. CASE k # {}
    <3>1. PICK f, j : f = FirstKey(k) /\ j = k \ {f} OBVIOUS
    <3>2. f \in k /\ \A c \in k : Rank[f] <= Rank[c] BY <1>2, <2>2, <3>1, FirstKeyIs
    <3>3. IsFiniteSet(k) BY <1>1, <1>2, FS_Subset
    <3>4. Cardinality(j) = n - 1 /\ Cardinality(j) \in Nat
      <4>1. Cardinality(j) = Cardinality(k) - 1 BY <3>1, <3>2, <3>3, FS_RemoveElement
      <4>2. IsFiniteSet(j) BY <3>1, <3>3, FS_Subset
      <4> QED BY <4>1, <4>2, FS_CardinalityType
    <3>5. j \in SUBSET keys /\ n - 1 \in 0..(n - 1) BY <3>1, <3>4
    <3>6. PICK m, u : m = Rank[f] /\ u = m + 1 OBVIOUS
    <3>7. f \in Utf8 /\ Raw(parts[f], f) /\ l < m /\ m < hi BY <3>2, <3>6 DEF Between
    <3>8. \A c \in k : c \in Str /\ Rank[c] \in Nat BY <1>2, BencodeAssumption
    <3>9. m \in Nat /\ u \in Nat BY <3>2, <3>6, <3>8
    <3>10. Between(parts, j, m, hi)
      <4> SUFFICES ASSUME NEW c \in j
                   PROVE  c \in Utf8 /\ Raw(parts[c], c) /\ m < Rank[c] /\ Rank[c] < hi
        BY DEF Between
      <4>1. c \in k /\ c # f BY <3>1
      <4>2. Rank[c] # m BY <3>2, <3>6, <3>8, <4>1, BencodeAssumption
      <4>3. m <= Rank[c] /\ Rank[c] \in Nat BY <3>2, <3>6, <3>8, <4>1
      <4>4. c \in Utf8 /\ Raw(parts[c], c) /\ Rank[c] < hi BY <4>1 DEF Between
      <4> QED BY <3>9, <4>2, <4>3, <4>4
    <3>11. n - 1 \in T BY <1>3, <3>5
    <3>12. Parted(j, m) BY <3>4, <3>5, <3>9, <3>10, <3>11
    <3>13. PICK Q : Segment(RawOf(parts, j), m, hi, RawSet(parts, j), Q) BY <3>12
    <3>14. PICK v : Alone(v) /\ parts[f] = <<S(f)>> \o v BY <3>7 DEF Raw
    <3>15. Segment(parts[f], l, u, {EntryOf(f, v)}, Others(f, v))
      <4>1. l < Rank[f] /\ Rank[f] < u BY <3>6, <3>7, <3>9
      <4> QED BY <3>7, <3>9, <3>14, <4>1, EntrySegment
    <3>16. Tail(parts[f]) = v
      <4>1. f \in Str /\ v \in Seq(Token) BY <3>2, <3>8, <3>14 DEF Alone
      <4> QED BY <3>14, <4>1, RawTail
    <3>17. RawSet(parts, k) = {EntryOf(f, v)} \cup RawSet(parts, j)
      <4>1. k = {f} \cup j BY <3>1, <3>2
      <4> QED BY <3>16, <4>1 DEF RawSet
    <3>18. RawOf(parts, k) = parts[f] \o RawOf(parts, j) BY <1>2, <2>2, <3>1, RawOfIs
    <3>19. Segment(parts[f] \o RawOf(parts, j), l, hi, {EntryOf(f, v)} \cup RawSet(parts, j), Others(f, v) \o Q)
      <4>1. l <= m /\ u <= m + 1 /\ u <= hi BY <3>6, <3>7, <3>9
      <4> QED BY <3>9, <3>13, <3>15, <4>1, SegmentsJoin
    <3> QED BY <3>17, <3>18, <3>19
  <2> QED BY <2>1, <2>2
<1>4. T = Nat
  <2>1. T \in SUBSET Nat OBVIOUS
  <2> HIDE DEF T
  <2> QED BY <1>3, <2>1, StrongInduction
<1>5. Cardinality(keys) \in T
  <2>1. IsFiniteSet(keys) BY <1>1, <1>2, FS_Subset
  <2> QED BY <1>4, <2>1, FS_CardinalityType
<1>6. Parted(keys, lo) BY <1>5
<1> QED BY <1>6

-----------------------------------------------------------------------------
\* The entries from p on that Torrent::load keeps for the filters.
Keeps(b, p, nw) ==
  {x \in EntrySet(b, p) : /\ x.key \notin {"announce-list", "info", "encoding"}
                          /\ MetaKept(x.value, 1, x.key, nw)}

(***************************************************************************)
(* An object has the new entries, those kept from p on and the info.       *)
(***************************************************************************)
PartsAre(b, p, nw, o) ==
  /\ DOMAIN o.parts = DOMAIN nw \cup {x.key : x \in Keeps(b, p, nw)}
  /\ \A key \in DOMAIN nw : o.parts[key] = nw[key]
  /\ \A x \in Keeps(b, p, nw) : o.parts[x.key] = <<S(x.key)>> \o x.value
  /\ \A x \in EntrySet(b, p) : x.key = "info" => o.info = x.value
  /\ o.info = NoRaw \/ Has(b, p, "info")

\* An entry that is kept gets there in a turn of its own.
LEMMA InsertKeeps ==
  ASSUME NEW b, NEW p, NEW q, NEW e, NEW nw, NEW o, NEW x, NEW raw,
         PartsAre(b, q, nw, o), EntrySet(b, p) = {e} \cup EntrySet(b, q),
         \A y \in EntrySet(b, q) : y.key # e.key,
         e.key \notin {"announce-list", "info", "encoding"}, MetaKept(e.value, 1, e.key, nw),
         raw = <<S(e.key)>> \o e.value, x.parts = Insert(o.parts, e.key, raw), x.info = o.info
  PROVE  PartsAre(b, p, nw, x)
<1>1. PICK key : key = e.key OBVIOUS
<1>2. Keeps(b, p, nw) = Keeps(b, q, nw) \cup {e} BY DEF Keeps
<1>3. key \notin DOMAIN nw BY <1>1 DEF MetaKept, ValidMetaKey
<1>4. \A y \in Keeps(b, q, nw) : y.key # key BY <1>1 DEF Keeps
<1>5. PICK m : m = x.parts OBVIOUS
<1>6. m = [k \in DOMAIN o.parts \cup {key} |-> IF k = key THEN raw ELSE o.parts[k]]
  BY <1>1, <1>5 DEF Insert
<1>7. DOMAIN o.parts = DOMAIN nw \cup {y.key : y \in Keeps(b, q, nw)} BY DEF PartsAre
<1>8. DOMAIN m = DOMAIN nw \cup {y.key : y \in Keeps(b, p, nw)} BY <1>1, <1>2, <1>6, <1>7
<1>9. \A k \in DOMAIN nw : m[k] = nw[k]
  <2>1. \A k \in DOMAIN nw : o.parts[k] = nw[k] BY DEF PartsAre
  <2> QED BY <1>3, <1>6, <1>7, <2>1
<1>10. \A y \in Keeps(b, p, nw) : m[y.key] = <<S(y.key)>> \o y.value
  <2> SUFFICES ASSUME NEW y \in Keeps(b, p, nw) PROVE m[y.key] = <<S(y.key)>> \o y.value
    OBVIOUS
  <2>1. CASE y = e BY <1>1, <1>6, <2>1
  <2>2. CASE y # e
    <3>1. y \in Keeps(b, q, nw) BY <1>2, <2>2
    <3>2. o.parts[y.key] = <<S(y.key)>> \o y.value BY <3>1 DEF PartsAre
    <3>3. m[y.key] = o.parts[y.key] BY <1>4, <1>6, <1>7, <3>1
    <3> QED BY <3>2, <3>3
  <2> QED BY <2>1, <2>2
<1>11. \A y \in EntrySet(b, p) : y.key = "info" => x.info = y.value BY DEF PartsAre
<1>12. x.info = NoRaw \/ Has(b, p, "info") BY DEF PartsAre, Has
<1> QED BY <1>5, <1>8, <1>9, <1>10, <1>11, <1>12 DEF PartsAre

\* One that is not kept, or is for one of the three keys.
LEMMA OthersKeep ==
  ASSUME NEW b, NEW p, NEW q, NEW e, NEW nw, NEW o, NEW x,
         PartsAre(b, q, nw, o), EntrySet(b, p) = {e} \cup EntrySet(b, q),
         \A y \in EntrySet(b, q) : y.key # e.key,
         e.key \in {"announce-list", "info", "encoding"} \/ ~MetaKept(e.value, 1, e.key, nw),
         x.parts = o.parts, x.info = IF e.key = "info" THEN e.value ELSE o.info
  PROVE  PartsAre(b, p, nw, x)
<1>1. Keeps(b, p, nw) = Keeps(b, q, nw) BY DEF Keeps
<1>2. CASE e.key = "info"
  <2>1. \A y \in EntrySet(b, p) : y.key = "info" => x.info = y.value BY <1>2
  <2>2. Has(b, p, "info") BY <1>2 DEF Has
  <2> QED BY <1>1, <2>1, <2>2 DEF PartsAre
<1>3. CASE e.key # "info"
  <2>1. x.info = o.info BY <1>3
  <2>2. \A y \in EntrySet(b, p) : y.key = "info" => x.info = y.value BY <1>3, <2>1 DEF PartsAre
  <2>3. x.info = NoRaw \/ Has(b, p, "info") BY <2>1 DEF PartsAre, Has
  <2> QED BY <1>1, <2>2, <2>3 DEF PartsAre
<1> QED BY <1>2, <1>3

\* By induction from the end of the file.
LEMMA LoadsParts ==
  ASSUME NEW b \in Seq(Token), NEW nw \in Metas, NEW ck, Announce(b) # Error,
         NEW p \in Nat, NEW prev \in Nat, NEW r, r = LoadFrom(b, nw, ck, p, prev), r.ok
  PROVE  PartsAre(b, p, nw, r.t)
<1> DEFINE T == {q \in Nat : \A n \in Nat : LoadFrom(b, nw, ck, q, n).ok =>
                                PartsAre(b, q, nw, LoadFrom(b, nw, ck, q, n).t)}
<1>1. ASSUME NEW q \in Nat, \A n \in Nat : n > q /\ q <= Len(b) => n \in T
      PROVE  q \in T
  <2> SUFFICES ASSUME NEW n \in Nat, NEW x, x = LoadFrom(b, nw, ck, q, n), x.ok
               PROVE  PartsAre(b, q, nw, x.t)
    OBVIOUS
  <2>1. CASE At(b, q, "e") /\ q = Len(b) /\ x = Loaded([NewObject EXCEPT !.announce = b[3].v, !.parts = nw])
    <3>1. PICK o : o = [NewObject EXCEPT !.announce = b[3].v, !.parts = nw] OBVIOUS
    <3>2. o \in Objects BY <3>1, AnnounceIs, ObjectIs DEF Objects
    <3>3. x.t = o BY <2>1, <3>1, <3>2, ObjectIs
    <3>4. o.parts = nw /\ o.info = NoRaw BY <3>1 DEF NewObject
    <3>5. EntrySet(b, q) = {} BY <2>1, NoMoreEntry
    <3>6. Keeps(b, q, nw) = {} BY <3>5 DEF Keeps
    <3> QED BY <3>3, <3>4, <3>5, <3>6 DEF PartsAre
  <2>2. ASSUME ~At(b, q, "e"), NEW z, ReadsEntry(b, q, n, ck, z), z = SkipValue(b, q + 1),
               LoadFrom(b, nw, ck, z, Rank[b[q].v]).ok,
               x = Loaded(WithEntry(LoadFrom(b, nw, ck, z, Rank[b[q].v]).t, b, q, z, nw))
        PROVE  PartsAre(b, q, nw, x.t)
    <3>1. PICK rest, k, e : rest = LoadFrom(b, nw, ck, z, k) /\ k = Rank[b[q].v] /\ e = EntryAt(b, q)
      OBVIOUS
    <3>2. SkipEntries(b, q, n) # Error
      <4>1. LoadsRest(b, q, n, x) BY LoadsTheRest
      <4>2. Len(b) \in Nat OBVIOUS
      <4> QED BY <4>1, <4>2 DEF LoadsRest, Error
    <3>3. /\ q \in 1..Len(b) /\ Len(b) \in Nat /\ k \in Nat /\ z \in Nat /\ z > q /\ z # Error
          /\ At(b, q, "s") /\ SkipEntries(b, z, k) # Error
          /\ EntrySet(b, q) = {e} \cup EntrySet(b, z) /\ e.key = b[q].v
      BY <2>2, <3>1, <3>2, OneMoreEntry
    <3>4. z \in T BY <1>1, <3>3
    <3>5. PartsAre(b, z, nw, rest.t) BY <2>2, <3>1, <3>3, <3>4
    <3>6. \A y \in EntrySet(b, z) : y.key # e.key
      <4> SUFFICES ASSUME NEW y \in EntrySet(b, z), y.key = e.key PROVE FALSE
        OBVIOUS
      <4>1. Rank[y.key] > k BY <3>3, KeysAscend DEF Ascend
      <4> QED BY <3>1, <3>3, <4>1
    <3>7. PICK j, v, key : j = q + 1 /\ v = Slice(b, j, z) /\ key = b[q].v OBVIOUS
    <3>8. j \in Nat /\ j # 0 /\ z = SkipValue(b, j) BY <2>2, <3>3, <3>7
    <3>9. e.value = v BY <2>2, <3>1, <3>7 DEF EntryAt
    <3>10. MetaKept(v, 1, key, nw) <=> MetaKept(b, j, key, nw) BY <3>3, <3>7, <3>8, MetaSeen
    <3>11. PICK o, t0 : o = WithEntry(t0, b, q, z, nw) /\ t0 = rest.t OBVIOUS
    <3>12. t0 \in Objects
      <4>1. LoadsRest(b, z, k, rest) BY <2>2, <3>1, <3>3, LoadsTheRest
      <4> QED BY <3>11, <4>1 DEF LoadsRest
    <3>13. o \in Objects BY <2>2, <3>11, <3>12, WithEntryIs
    <3>14. x.t = o BY <2>2, <3>1, <3>11, <3>13, ObjectIs
    <3>15. o.info = IF key = "info" THEN v ELSE t0.info
      <4>1. o.info = IF b[q].v = "info" THEN Slice(b, q + 1, z) ELSE t0.info
        BY <2>2, <3>11, <3>12, WithEntryIs
      <4> QED BY <3>7, <4>1
    <3>16. o.parts = IF key \notin {"announce-list", "info", "encoding"} /\ MetaKept(b, j, key, nw)
                     THEN Insert(t0.parts, key, Slice(b, q, z)) ELSE t0.parts
      <4>1. o.parts = IF /\ b[q].v \notin {"announce-list", "info", "encoding"}
                         /\ MetaKept(b, q + 1, b[q].v, nw)
                      THEN Insert(t0.parts, b[q].v, Slice(b, q, z)) ELSE t0.parts
        BY <2>2, <3>11, <3>12, WithEntryIs
      <4> QED BY <3>7, <4>1
    <3>17. PartsAre(b, z, nw, t0) BY <3>5, <3>11
    <3>18. CASE key \notin {"announce-list", "info", "encoding"} /\ MetaKept(b, j, key, nw)
      <4>1. PICK raw : raw = Slice(b, q, z) OBVIOUS
      <4>2. raw = <<S(e.key)>> \o e.value
        <5>1. z \in (q + 1)..(Len(b) + 1)
          <6>1. z \in EndsBehind(b, j) BY <3>8, SkipValueIs
          <6>2. z <= Len(b) + 1 BY <3>3, <3>8, <6>1, ValueInside
          <6> QED BY <3>3, <6>2
        <5>2. Slice(b, q, z) = <<b[q]>> \o Slice(b, q + 1, z) BY <3>3, <5>1, SliceBegins
        <5>3. b[q] = S(b[q].v) BY <3>3, KeyThere
        <5> QED BY <3>3, <3>7, <3>9, <4>1, <5>2, <5>3
      <4>3. o.parts = Insert(t0.parts, e.key, raw) BY <3>3, <3>7, <3>16, <3>18, <4>1
      <4>4. o.info = t0.info BY <3>15, <3>18
      <4>5. e.key \notin {"announce-list", "info", "encoding"} /\ MetaKept(e.value, 1, e.key, nw)
        BY <3>3, <3>7, <3>9, <3>10, <3>18
      <4>6. PartsAre(b, q, nw, o)
        <5>1. EntrySet(b, q) = {e} \cup EntrySet(b, z) BY <3>3
        <5> QED BY ONLY <3>6, <3>17, <4>2, <4>3, <4>4, <4>5, <5>1, InsertKeeps
      <4> QED BY <3>14, <4>6
    <3>19. CASE ~(key \notin {"announce-list", "info", "encoding"} /\ MetaKept(b, j, key, nw))
      <4>1. o.parts = t0.parts BY <3>16, <3>19
      <4>2. o.info = IF e.key = "info" THEN e.value ELSE t0.info BY <3>3, <3>7, <3>9, <3>15
      <4>3. e.key \in {"announce-list", "info", "encoding"} \/ ~MetaKept(e.value, 1, e.key, nw)
        BY <3>3, <3>7, <3>9, <3>10, <3>19
      <4>4. PartsAre(b, q, nw, o)
        <5>1. EntrySet(b, q) = {e} \cup EntrySet(b, z) BY <3>3
        <5> QED BY ONLY <3>6, <3>17, <4>1, <4>2, <4>3, <5>1, OthersKeep
      <4> QED BY <3>14, <4>4
    <3> QED BY <3>18, <3>19
  <2> QED BY <2>1, <2>2, LoadStep
<1>2. T = Nat
  <2>1. T \in SUBSET Nat OBVIOUS
  <2> HIDE DEF T
  <2> QED BY <1>1, <2>1, PositionInduction
<1> QED BY <1>2

-----------------------------------------------------------------------------
\* An entry fits its key, if Torrent::load reads it.
Fits(key, value) ==
  /\ key = "encoding" => ReadUtf8(value, 1) # Error
  /\ key = "announce-list" => ParseAnnounceList(value, 1).pos # Error

\* What Torrent::write may write between other entries.
Writable(parts) ==
  /\ parts \in Metas
  /\ \A key \in DOMAIN parts : key \in Utf8 /\ Raw(parts[key], key) /\ Fits(key, Tail(parts[key]))

\* A new entry is so, if the user has seen to it.
LEMMA NewWritable ==
  ASSUME NewMetasFine, NEW nw \in NewMetas, NEW key \in DOMAIN nw
  PROVE  key \in Utf8 /\ Raw(nw[key], key) /\ Fits(key, Tail(nw[key]))
<1>1. PICK raw : raw = nw[key] OBVIOUS
<1>2. /\ key \in Utf8 /\ raw # <<>> /\ raw[1] = S(key) /\ SkipValue(raw, 2) = Len(raw) + 1
      /\ key = "encoding" => ReadUtf8(raw, 2) # Error
      /\ key = "announce-list" => ParseAnnounceList(raw, 2).pos # Error
  BY <1>1 DEF NewMetasFine
<1>3. raw \in Seq(Token)
  <2>1. PICK K \in SUBSET Str : nw \in [K -> Seq(Token)] BY MetaIs DEF Metas
  <2> QED BY <1>1, <2>1
<1>4. Len(raw) \in Nat /\ 1 \in 1..Len(raw) BY <1>2, <1>3, EmptySeq
<1>5. PICK two, q, v : two = 2 /\ q = SkipValue(raw, two) /\ v = Slice(raw, two, q) OBVIOUS
<1>6. two \in Nat /\ two # 0 /\ q # Error /\ q = Len(raw) + 1 BY <1>2, <1>4, <1>5 DEF Error
<1>7. Alone(v) /\ Lies(v, raw, two, q) BY <1>3, <1>5, <1>6, ValueAlone
<1>8. raw = <<S(key)>> \o v
  <2>1. PICK one : one = 1 OBVIOUS
  <2>2. q > 2
    <3>1. q \in EndsBehind(raw, two) BY <1>3, <1>5, <1>6, SkipValueIs
    <3>2. two < q BY <1>3, <1>6, <3>1, ValueInside
    <3> QED BY <1>5, <3>2
  <2>3. one \in 1..Len(raw) /\ q \in (one + 1)..(Len(raw) + 1) /\ one + 1 = two
    BY <1>4, <1>5, <1>6, <2>1, <2>2
  <2>4. Slice(raw, one, q) = <<raw[one]>> \o Slice(raw, one + 1, q) BY <1>3, <2>3, SliceBegins
  <2>5. Slice(raw, one, q) = raw
    <3>1. Slice(raw, one, q) = SubSeq(raw, 1, Len(raw)) BY <1>4, <1>6, <2>1 DEF Slice
    <3> QED BY <1>3, <3>1
  <2> QED BY <1>2, <1>5, <2>1, <2>3, <2>4, <2>5
<1>9. Tail(raw) = v
  <2>1. key \in Str /\ v \in Seq(Token) BY <1>2, <1>7, BencodeAssumption DEF Alone
  <2> QED BY <1>8, <2>1, RawTail
<1>10. Fits(key, v)
  <2>1. (ReadUtf8(v, 1) = Error) <=> (ReadUtf8(raw, two) = Error) BY <1>3, <1>5, <1>6, ValueRead
  <2>2. (ParseAnnounceList(v, 1).pos = Error) <=> (ParseAnnounceList(raw, two).pos = Error)
    BY <1>3, <1>5, <1>6, ValueRead
  <2> QED BY <1>2, <1>5, <2>1, <2>2 DEF Fits
<1> QED BY <1>1, <1>2, <1>7, <1>8, <1>9, <1>10 DEF Raw

\* So are the entries of a file that has been loaded.
LEMMA LoadedWritable ==
  ASSUME NewMetasFine, NEW b \in Seq(Token), NEW nw \in NewMetas, NEW p \in Nat, NEW prev \in Nat,
         SkipEntries(b, p, prev) # Error, NEW o, PartsAre(b, p, nw, o), o.parts \in Metas
  PROVE  Writable(o.parts)
<1>1. PICK m : m = o.parts OBVIOUS
<1>2. \A x \in EntrySet(b, p) : Alone(x.value) BY EntriesAlone
<1>3. \A x \in EntrySet(b, p) : x.key \in Utf8 BY KeysAscend DEF Ascend
<1>4. SUFFICES ASSUME NEW key \in DOMAIN m
               PROVE  key \in Utf8 /\ Raw(m[key], key) /\ Fits(key, Tail(m[key]))
  BY <1>1 DEF Writable
<1>5. CASE key \in DOMAIN nw
  <2>1. m[key] = nw[key] BY <1>1, <1>5 DEF PartsAre
  <2> QED BY <1>5, <2>1, NewWritable
<1>6. CASE key \notin DOMAIN nw
  <2>1. PICK x \in Keeps(b, p, nw) : key = x.key BY <1>1, <1>6 DEF PartsAre
  <2>2. m[key] = <<S(key)>> \o x.value BY <1>1, <2>1 DEF PartsAre
  <2>3. x \in EntrySet(b, p) /\ key \notin {"announce-list", "info", "encoding"} BY <2>1 DEF Keeps
  <2>4. Alone(x.value) /\ key \in Utf8 BY <1>2, <1>3, <2>1, <2>3
  <2> QED BY <2>2, <2>3, <2>4 DEF Raw, Fits
<1> QED BY <1>5, <1>6

\* The keys written between two others.
KeysBetween(parts, prev, next) ==
  {key \in DOMAIN parts : Rank[prev] < Rank[key] /\ (next = "" \/ Rank[key] < Rank[next])}

\* writerawkeys, with the equations above.
LEMMA RawKeysAre ==
  ASSUME NEW parts, NEW prev, NEW next
  PROVE  RawKeys(parts, prev, next) = RawOf(parts, KeysBetween(parts, prev, next))
BY DEF RawKeys, RawOf, IsRaw, RawBody, FirstKey, KeysBetween

\* It writes a part with the entries of the keys between.
LEMMA RawKeysSegment ==
  ASSUME NEW parts, Writable(parts), NEW prev \in Str, NEW next \in Str, next # ""
  PROVE  \E R : Segment(RawKeys(parts, prev, next), Rank[prev], Rank[next],
                        RawSet(parts, KeysBetween(parts, prev, next)), R)
<1>1. PICK keys, lo, hi : keys = KeysBetween(parts, prev, next) /\ lo = Rank[prev] /\ hi = Rank[next]
  OBVIOUS
<1>2. lo \in Nat /\ hi \in Nat BY <1>1, BencodeAssumption
<1>3. keys \in SUBSET DOMAIN parts BY <1>1 DEF KeysBetween
<1>4. parts \in Metas BY DEF Writable
<1>5. Between(parts, keys, lo, hi) BY <1>1 DEF Between, KeysBetween, Writable
<1>6. \E R : Segment(RawOf(parts, keys), lo, hi, RawSet(parts, keys), R)
  BY <1>2, <1>3, <1>4, <1>5, RawSegment
<1> QED BY <1>1, <1>6, RawKeysAre

\* And the last one behind info.
LEMMA RawKeysClose ==
  ASSUME NEW parts, Writable(parts)
  PROVE  \E R : Closing(RawKeys(parts, "info", "") \o <<E>>, Rank["info"],
                        RawSet(parts, KeysBetween(parts, "info", "")), R)
<1>1. PICK keys, lo, s : keys = KeysBetween(parts, "info", "") /\ lo = Rank["info"] /\ s = RawOf(parts, keys)
  OBVIOUS
<1>2. lo \in Nat BY <1>1, KeysAre
<1>3. keys \in SUBSET DOMAIN parts BY <1>1 DEF KeysBetween
<1>4. parts \in Metas BY DEF Writable
<1>5. keys \in SUBSET Str /\ IsFiniteSet(keys)
  <2>1. PICK K \in SUBSET Str : IsFiniteSet(K) /\ parts \in [K -> Seq(Token)] BY <1>4 DEF Metas
  <2>2. keys \in SUBSET K BY <1>3, <2>1
  <2> QED BY <2>1, <2>2, FS_Subset
<1>6. PICK hi \in Nat : \A key \in keys : Rank[key] < hi BY <1>5, RankAbove
<1>7. Between(parts, keys, lo, hi) BY <1>1, <1>6 DEF Between, KeysBetween, Writable
<1>8. PICK R : Segment(s, lo, hi, RawSet(parts, keys), R)
  BY <1>1, <1>2, <1>3, <1>4, <1>7, RawSegment
<1>9. PICK e : e = <<E>> OBVIOUS
<1>10. PICK n \in Nat : lo <= n /\ hi <= n + 1
  <2>1. lo + hi \in Nat /\ lo <= lo + hi /\ hi <= lo + hi + 1 BY <1>2
  <2> QED BY <2>1
<1>11. Closing(e, n, {}, <<>>) BY <1>9, EndCloses
<1>12. Closing(s \o e, lo, RawSet(parts, keys) \cup {}, R \o <<>>)
  BY <1>2, <1>8, <1>10, <1>11, SegmentCloses
<1>13. RawSet(parts, keys) \cup {} = RawSet(parts, keys) OBVIOUS
<1> QED BY <1>1, <1>9, <1>12, <1>13, RawKeysAre

-----------------------------------------------------------------------------
\* The entries of a part that holds those of some keys, and for the rest only
\* ones Torrent::load reads.
Holds(A, parts, keys) ==
  /\ RawSet(parts, keys) \subseteq A
  /\ \A x \in A : \/ x \in RawSet(parts, keys)
                  \/ x.key \in {"announce-list", "encoding"} /\ Fits(x.key, x.value)

\* What Torrent::write puts between announce-list and info.
MidOf(parts, enc) ==
  IF enc # ""
  THEN RawKeys(parts, "announce-list", "encoding") \o <<S("encoding"), S("encoding")>>
         \o RawKeys(parts, "encoding", "info")
  ELSE RawKeys(parts, "announce-list", "info")

MidKeys(parts) == KeysBetween(parts, "announce-list", "info") \ {"encoding"}

\* The value written for an encoding.
LEMMA EncodingWritten ==
  ASSUME NEW v, v = <<S("encoding")>>
  PROVE  Alone(v) /\ ReadUtf8(v, 1) # Error /\ <<S("encoding"), S("encoding")>> = v \o v
<1>1. PICK s : s = S("encoding") OBVIOUS
<1>2. "encoding" \in Str /\ "encoding" \in Utf8 BY KeysAre
<1>3. s \in Token /\ v \in Seq(Token) /\ Len(v) = 1 /\ v[1] = s BY <1>1, <1>2, KeyIs
<1>4. 1 \in 1..Len(v) BY <1>3
<1>5. At(v, 1, "s") /\ v[1].v = "encoding"
  <2>1. v[1] = S("encoding") BY <1>1, <1>3
  <2>2. S("encoding").t = "s" /\ S("encoding").v = "encoding" BY DEF S
  <2> QED BY <1>4, <2>1, <2>2 DEF At
<1>6. PICK one : one = 1 OBVIOUS
<1>7. SkipValue(v, one) = one + 1
  <2>1. one \in Nat /\ At(v, one, "s") BY <1>5, <1>6
  <2> QED BY <1>3, <2>1, SkipValueIs DEF At
<1>8. ReadUtf8(v, 1) # Error BY <1>2, <1>5 DEF ReadUtf8, Error
<1>9. <<s, s>> = v \o v BY <1>1
<1> QED BY <1>1, <1>3, <1>6, <1>7, <1>8, <1>9 DEF Alone

\* It is a part: the kept and new entries there, and perhaps the encoding.
LEMMA MidPart ==
  ASSUME NEW parts, Writable(parts), NEW enc, NEW mid, mid = MidOf(parts, enc)
  PROVE  \E A, R : /\ Segment(mid, Rank["announce-list"], Rank["info"], A, R)
                   /\ Holds(A, parts, MidKeys(parts))
<1>1. PICK m, e, n : m = Rank["announce-list"] /\ e = Rank["encoding"] /\ n = Rank["info"] OBVIOUS
<1>2. m \in Nat /\ e \in Nat /\ n \in Nat /\ m < e /\ e < n BY <1>1, KeysAre
<1>3. \A key \in DOMAIN parts : /\ Rank[key] \in Nat /\ (Rank[key] = e => key = "encoding")
                                /\ Raw(parts[key], key) /\ Fits(key, Tail(parts[key]))
  <2>1. \A key \in DOMAIN parts : key \in Str BY BencodeAssumption DEF Writable
  <2>2. "encoding" \in Str BY KeysAre
  <2> QED BY <1>1, <2>1, <2>2, BencodeAssumption DEF Writable
<1>4. CASE enc = ""
  <2>1. PICK keys : keys = KeysBetween(parts, "announce-list", "info") OBVIOUS
  <2>2. mid = RawKeys(parts, "announce-list", "info") BY <1>4 DEF MidOf
  <2>3. PICK A, R : Segment(mid, m, n, A, R) /\ A = RawSet(parts, keys)
    <3>1. "announce-list" \in Str /\ "info" \in Str /\ "info" # "" BY KeysAre
    <3> QED BY <1>1, <2>1, <2>2, <3>1, RawKeysSegment
  <2>4. Holds(A, parts, MidKeys(parts))
    <3>1. PICK inner : inner = MidKeys(parts) OBVIOUS
    <3>2. inner = keys \ {"encoding"} BY <2>1, <3>1 DEF MidKeys
    <3>3. RawSet(parts, inner) \subseteq A BY <2>3, <3>2 DEF RawSet
    <3>4. ASSUME NEW x \in A, x \notin RawSet(parts, inner)
          PROVE  x.key = "encoding" /\ Fits(x.key, x.value)
      <4>1. PICK key \in keys : x = EntryOf(key, Tail(parts[key])) BY <2>3, <3>4 DEF RawSet
      <4>2. key = "encoding" BY <3>2, <3>4, <4>1 DEF RawSet
      <4>3. x.key = key /\ x.value = Tail(parts[key]) BY <4>1 DEF EntryOf
      <4>4. key \in DOMAIN parts BY <2>1 DEF KeysBetween
      <4> QED BY <1>3, <4>2, <4>3, <4>4
    <3> QED BY <3>1, <3>3, <3>4 DEF Holds
  <2> QED BY <1>1, <2>3, <2>4
<1>5. CASE enc # ""
  <2>1. PICK k1, k2 : /\ k1 = KeysBetween(parts, "announce-list", "encoding")
                      /\ k2 = KeysBetween(parts, "encoding", "info")
    OBVIOUS
  <2>2. PICK s1 : s1 = RawKeys(parts, "announce-list", "encoding") OBVIOUS
  <2>3. PICK s2 : s2 = RawKeys(parts, "encoding", "info") OBVIOUS
  <2>4. PICK v, w : v = <<S("encoding")>> /\ w = <<S("encoding"), S("encoding")>> OBVIOUS
  <2>5. Alone(v) /\ ReadUtf8(v, 1) # Error /\ w = v \o v BY <2>4, EncodingWritten
  <2>6. "announce-list" \in Str /\ "encoding" \in Utf8 /\ "encoding" \in Str /\ "info" \in Str
        /\ "encoding" # "" /\ "info" # ""
    BY KeysAre
  <2>7. PICK R1 : Segment(s1, m, e, RawSet(parts, k1), R1) BY <1>1, <2>1, <2>2, <2>6, RawKeysSegment
  <2>8. PICK R2 : Segment(s2, e, n, RawSet(parts, k2), R2) BY <1>1, <2>1, <2>3, <2>6, RawKeysSegment
  <2>9. PICK lo, hi, x : lo = e - 1 /\ hi = e + 1 /\ x = EntryOf("encoding", v) OBVIOUS
  <2>10. lo \in Nat /\ hi \in Nat /\ lo < e /\ e < hi /\ m <= lo /\ e <= lo + 1 /\ e <= hi /\ hi <= n
    BY <1>2, <2>9
  <2>11. Segment(w, lo, hi, {x}, Others("encoding", v))
    <3>1. Segment(<<S("encoding")>> \o v, lo, hi, {EntryOf("encoding", v)}, Others("encoding", v))
      BY <1>1, <2>5, <2>6, <2>10, EntrySegment
    <3> QED BY <2>4, <2>5, <2>9, <3>1
  <2>12. PICK Q : Segment(s1 \o w, m, hi, RawSet(parts, k1) \cup {x}, Q)
    BY <1>2, <2>7, <2>10, <2>11, SegmentsJoin
  <2>13. PICK y : y = s1 \o w OBVIOUS
  <2>14. PICK A, R : Segment(y \o s2, m, n, A, R) /\ A = (RawSet(parts, k1) \cup {x}) \cup RawSet(parts, k2)
    <3>1. Segment(y, m, hi, RawSet(parts, k1) \cup {x}, Q) BY <2>12, <2>13
    <3>2. m <= e /\ hi <= e + 1 BY <1>2, <2>9
    <3> QED BY <1>2, <2>8, <2>10, <3>1, <3>2, SegmentsJoin
  <2>15. mid = y \o s2 BY <1>5, <2>2, <2>3, <2>4, <2>13 DEF MidOf
  <2>16. Holds(A, parts, MidKeys(parts))
    <3>1. k1 \cup k2 = MidKeys(parts)
      <4>1. \A key \in DOMAIN parts : key \in k1 <=> m < Rank[key] /\ Rank[key] < e
        BY <1>1, <2>1, <2>6 DEF KeysBetween
      <4>2. \A key \in DOMAIN parts : key \in k2 <=> e < Rank[key] /\ Rank[key] < n
        BY <1>1, <2>1, <2>6 DEF KeysBetween
      <4>3. \A key \in DOMAIN parts : key \in MidKeys(parts) <=>
                m < Rank[key] /\ Rank[key] < n /\ key # "encoding"
        BY <1>1, <2>6 DEF KeysBetween, MidKeys
      <4>4. k1 \in SUBSET DOMAIN parts /\ k2 \in SUBSET DOMAIN parts
            /\ MidKeys(parts) \in SUBSET DOMAIN parts
        BY <2>1 DEF KeysBetween, MidKeys
      <4>5. ASSUME NEW key \in DOMAIN parts PROVE key \in k1 \cup k2 <=> key \in MidKeys(parts)
        <5>1. PICK r : r = Rank[key] OBVIOUS
        <5>2. r \in Nat /\ (r = e <=> key = "encoding") BY <1>1, <1>3, <5>1
        <5>3. (m < r /\ r < e) \/ (e < r /\ r < n) <=> m < r /\ r < n /\ r # e BY <1>2, <5>2
        <5> QED BY <4>1, <4>2, <4>3, <5>1, <5>2, <5>3
      <4> QED BY <4>4, <4>5
    <3>2. RawSet(parts, k1) \cup RawSet(parts, k2) = RawSet(parts, MidKeys(parts))
      BY <3>1 DEF RawSet
    <3>3. x.key = "encoding" /\ x.value = v BY <2>9 DEF EntryOf
    <3>4. Fits(x.key, x.value) BY <2>5, <3>3 DEF Fits
    <3> QED BY <2>14, <3>2, <3>3, <3>4 DEF Holds
  <2> QED BY <1>1, <2>14, <2>15, <2>16
<1> QED BY <1>4, <1>5

\* What it puts for the announce-list: the urls, or a new entry of that name.
ListOrRaw(o) ==
  IF o.list # <<>> THEN AnnounceListEntry(o) ELSE RawKey(o.parts, "announce-list")

\* The urls that are read of it.
ReadOf(le, o, list) ==
  /\ le \in Seq(Token) /\ ListEntry(le, list)
  /\ o.list # <<>> \/ "announce-list" \notin DOMAIN o.parts => list = o.list

\* It is an announce-list, or nothing.
LEMMA ListOrRawWritten ==
  ASSUME NEW o \in Objects, Writable(o.parts), NEW le, le = ListOrRaw(o)
  PROVE  \E list : ReadOf(le, o, list)
<1>1. PICK key, m : key = "announce-list" /\ m = o.parts OBVIOUS
<1>2. m \in Metas BY <1>1 DEF Objects
<1>3. CASE o.list # <<>> BY <1>3, ListEntryWritten, ListEntryType DEF ListOrRaw, ReadOf
<1>4. CASE o.list = <<>> /\ key \notin DOMAIN m
  <2>1. le = <<>> BY <1>1, <1>4 DEF ListOrRaw, RawKey
  <2> QED BY <1>4, <2>1, EmptySeq DEF ListEntry, ReadOf
<1>5. CASE o.list = <<>> /\ key \in DOMAIN m
  <2>1. le = m[key] BY <1>1, <1>5 DEF ListOrRaw, RawKey
  <2>2. PICK w : Alone(w) /\ le = <<S(key)>> \o w BY <1>1, <1>5, <2>1 DEF Writable, Raw
  <2>3. Tail(le) = w
    <3>1. key \in Str /\ w \in Seq(Token) BY <1>1, <2>2, KeysAre DEF Alone
    <3> QED BY <2>2, <3>1, RawTail
  <2>4. ParseAnnounceList(w, 1).pos # Error BY <1>1, <1>5, <2>1, <2>3 DEF Writable, Fits
  <2>5. ParseAnnounceList(w, 1).pos = Len(w) + 1
    <3>1. PICK one : one = 1 OBVIOUS
    <3>2. ParseAnnounceList(w, one).pos \in {Error, SkipValue(w, one)}
      BY <2>2, <3>1, ParseAnnounceListSkips DEF Alone
    <3> QED BY <2>2, <2>4, <3>1, <3>2 DEF Alone
  <2>6. PICK list : list = ParseAnnounceList(w, 1).list OBVIOUS
  <2>7. ReadsList(w, list) BY <2>2, <2>5, <2>6 DEF ReadsList
  <2>8. ListEntry(le, list) BY <1>1, <2>2, <2>7 DEF ListEntry
  <2>9. le \in Seq(Token) BY <1>1, <1>2, <1>5, <2>1 DEF Metas
  <2> QED BY <1>1, <1>5, <2>8, <2>9 DEF ReadOf
<1> QED BY <1>3, <1>4, <1>5

-----------------------------------------------------------------------------
\* Eight parts, as Torrent::write puts them together.
EightJoined(h, s, le, x, k, v, y, z) ==
  ((((((h \o s) \o le) \o x) \o k) \o v) \o y) \o z
    = h \o (s \o (le \o (x \o ((k \o v) \o (y \o z)))))

\* The order makes no difference.
LEMMA EightJoin ==
  \A h, s, le, x, k, v, y, z \in Seq(Token) : EightJoined(h, s, le, x, k, v, y, z)
<1> SUFFICES
      ASSUME NEW h \in Seq(Token), NEW s \in Seq(Token), NEW le \in Seq(Token), NEW x \in Seq(Token),
             NEW k \in Seq(Token), NEW v \in Seq(Token), NEW y \in Seq(Token), NEW z \in Seq(Token)
      PROVE  EightJoined(h, s, le, x, k, v, y, z)
  BY Zenon
<1>1. PICK a : a = Joined(Joined(Joined(Joined(Joined(h, s), le), x), k), v) OBVIOUS
<1>2. a \in Seq(Token)
  <2>1. PICK g : g = Joined(Joined(Joined(h, s), le), x) OBVIOUS
  <2>2. g \in Seq(Token) BY <2>1, JoinedIs
  <2>3. a = Joined(Joined(g, k), v) BY <1>1, <2>1
  <2> QED BY <2>2, <2>3, JoinedIs
<1>3. PICK w : w = Joined(y, z) OBVIOUS
<1>4. w \in Seq(Token) BY <1>3, JoinedIs
<1>5. Joined(Joined(a, y), z) = Joined(a, w) BY <1>2, <1>3, JoinedIs
<1>6. SevenJoined(h, s, le, x, k, v, w)
  <2>1. /\ h \in Seq(Token) /\ s \in Seq(Token) /\ le \in Seq(Token) /\ x \in Seq(Token)
        /\ k \in Seq(Token) /\ v \in Seq(Token) /\ w \in Seq(Token)
    BY <1>4
  <2> QED BY ONLY <2>1, SevenJoin
<1>7. Joined(Joined(a, y), z)
        = Joined(h, Joined(s, Joined(le, Joined(x, Joined(Joined(k, v), Joined(y, z))))))
  BY <1>1, <1>3, <1>5, <1>6 DEF SevenJoined
<1> QED BY <1>1, <1>7 DEF EightJoined, Joined

\* The entries of a file Torrent has written, and the place of its urls.
WritesEntries(o, x, A) ==
  /\ \E s, le, rest, list, R :
       /\ Put(o, x.announce, s, le, rest, list, A, R)
       /\ x.list # <<>> \/ "announce-list" \notin DOMAIN x.parts => list = x.list
  /\ \E B : A = B \cup {EntryOf("info", x.info)} /\ Holds(B, x.parts, Placed(x.parts))

\* The parts of a file together hold the entries it has a place for.
LEMMA HoldsAll ==
  ASSUME NEW parts, Writable(parts), NEW C, NEW M, Holds(M, parts, MidKeys(parts)),
         UrlEntries(C),
         NEW A1, A1 = RawSet(parts, KeysBetween(parts, "announce", "announce-list")),
         NEW A4, A4 = RawSet(parts, KeysBetween(parts, "info", ""))
  PROVE  Holds(A1 \cup (C \cup (M \cup A4)), parts, Placed(parts))
<1>1. PICK a, m, e, n : /\ a = Rank["announce"] /\ m = Rank["announce-list"]
                        /\ e = Rank["encoding"] /\ n = Rank["info"]
  OBVIOUS
<1>2. /\ a \in Nat /\ m \in Nat /\ e \in Nat /\ n \in Nat
      /\ a < m /\ m < e /\ e < n
  BY <1>1, KeysAre
<1>3. "announce-list" \in Str /\ "encoding" \in Str /\ "info" \in Str /\ "announce-list" # "" /\ "info" # ""
  BY KeysAre
<1>4. PICK k1, k2, k4 : /\ k1 = KeysBetween(parts, "announce", "announce-list")
                        /\ k2 = MidKeys(parts) /\ k4 = KeysBetween(parts, "info", "")
  OBVIOUS
<1>5. Placed(parts) = k1 \cup (k2 \cup k4)
  <2>1. \A key \in DOMAIN parts : key \in k1 <=> a < Rank[key] /\ Rank[key] < m
    BY <1>1, <1>3, <1>4 DEF KeysBetween
  <2>2. \A key \in DOMAIN parts : key \in k2 <=> m < Rank[key] /\ Rank[key] < n /\ key # "encoding"
    BY <1>1, <1>3, <1>4 DEF KeysBetween, MidKeys
  <2>3. \A key \in DOMAIN parts : key \in k4 <=> n < Rank[key] BY <1>1, <1>4 DEF KeysBetween
  <2>4. \A key \in DOMAIN parts : key \in Placed(parts) <=>
           /\ Rank[key] > a
           /\ key # "announce-list" /\ key # "encoding" /\ key # "info"
    BY <1>1 DEF Placed
  <2>5. /\ k1 \in SUBSET DOMAIN parts /\ k2 \in SUBSET DOMAIN parts /\ k4 \in SUBSET DOMAIN parts
        /\ Placed(parts) \in SUBSET DOMAIN parts
    BY <1>4 DEF KeysBetween, MidKeys, Placed
  <2>6. ASSUME NEW key \in DOMAIN parts PROVE key \in Placed(parts) <=> key \in k1 \cup (k2 \cup k4)
    <3>1. PICK r : r = Rank[key] OBVIOUS
    <3>2. key \in Str BY BencodeAssumption DEF Writable
    <3>3. r \in Nat BY <3>1, <3>2, BencodeAssumption
    <3>4. (r = m <=> key = "announce-list") /\ (r = e <=> key = "encoding") /\ (r = n <=> key = "info")
      BY <1>1, <1>3, <3>1, <3>2, BencodeAssumption
    <3>5. key \in Placed(parts) <=> r > a /\ r # m /\ r # e /\ r # n BY <2>4, <3>1, <3>4
    <3>6. key \in k1 \cup (k2 \cup k4) <=>
            (a < r /\ r < m) \/ (m < r /\ r < n /\ r # e) \/ n < r
      BY <2>1, <2>2, <2>3, <3>1, <3>4
    <3>7. r > a /\ r # m /\ r # e /\ r # n
            <=> (a < r /\ r < m) \/ (m < r /\ r < n /\ r # e) \/ n < r
      BY ONLY <1>2, <3>3
    <3> QED BY ONLY <3>5, <3>6, <3>7
  <2> QED BY <2>5, <2>6
<1>6. RawSet(parts, Placed(parts)) = A1 \cup (RawSet(parts, k2) \cup A4)
  BY <1>4, <1>5 DEF RawSet
<1>7. RawSet(parts, k2) \subseteq M
      /\ \A x \in M : \/ x \in RawSet(parts, k2)
                      \/ x.key \in {"announce-list", "encoding"} /\ Fits(x.key, x.value)
  BY <1>4 DEF Holds
<1>8. \A y \in C : y.key \in {"announce-list", "encoding"} /\ Fits(y.key, y.value)
  BY DEF Fits, UrlEntries
<1> QED BY <1>6, <1>7, <1>8 DEF Holds

\* So it is written.
LEMMA TorrentWritten ==
  ASSUME NEW x \in Objects, Writable(x.parts), Alone(x.info), NEW o, o = WriteTorrent(x)
  PROVE  \E A : WritesEntries(o, x, A)
<1>1. PICK u, v, parts : u = x.announce /\ v = x.info /\ parts = x.parts OBVIOUS
<1>2. u \in Utf8 /\ v \in Seq(Token) /\ parts \in Metas BY <1>1 DEF Objects
<1>3. PICK h, k, e : h = Opening(u) /\ k = <<S("info")>> /\ e = <<E>> OBVIOUS
<1>4. h \in Seq(Token) /\ k \in Seq(Token) /\ e \in Seq(Token)
  <2>1. u \in Str /\ "announce" \in Str /\ "info" \in Str BY <1>2, KeysAre, BencodeAssumption
  <2> QED BY <1>3, <2>1, TokensAre DEF Opening
<1>5. PICK s : s = RawKeys(parts, "announce", "announce-list") OBVIOUS
<1>6. PICK y : y = RawKeys(parts, "info", "") OBVIOUS
<1>7. PICK le, mid : le = ListOrRaw(x) /\ mid = MidOf(parts, x.encoding) OBVIOUS
<1>8. PICK a, m, n : a = Rank["announce"] /\ m = Rank["announce-list"] /\ n = Rank["info"] OBVIOUS
<1>9. a \in Nat /\ m \in Nat /\ n \in Nat /\ a < m /\ m < n /\ "info" \in Utf8
  <2>1. Rank["encoding"] \in Nat /\ m < Rank["encoding"] /\ Rank["encoding"] < n BY <1>8, KeysAre
  <2> QED BY <1>8, <2>1, KeysAre
<1>10. PICK A1, R1 : Segment(s, a, m, A1, R1) /\ A1 = RawSet(parts, KeysBetween(parts, "announce", "announce-list"))
  <2>1. "announce" \in Str /\ "announce-list" \in Str /\ "announce-list" # "" BY KeysAre
  <2> QED BY <1>1, <1>5, <1>8, <2>1, RawKeysSegment
<1>11. PICK M, R2 : Segment(mid, m, n, M, R2) /\ Holds(M, parts, MidKeys(parts))
  BY <1>1, <1>7, <1>8, MidPart
<1>12. PICK A4, R4 : Closing(y \o e, n, A4, R4) /\ A4 = RawSet(parts, KeysBetween(parts, "info", ""))
  BY <1>1, <1>3, <1>6, <1>8, RawKeysClose
<1>13. PICK list : ReadOf(le, x, list) BY <1>7, ListOrRawWritten
<1>14. /\ le \in Seq(Token) /\ ListEntry(le, list)
       /\ x.list # <<>> \/ "announce-list" \notin DOMAIN x.parts => list = x.list
  BY <1>13 DEF ReadOf
<1>15. s \in Seq(Token) /\ mid \in Seq(Token) BY <1>10, <1>11 DEF Segment
<1>16. y \in Seq(Token) BY <1>2, <1>6, RawKeysType
<1>17. o = ((((((h \o s) \o le) \o mid) \o k) \o v) \o y) \o e
  BY <1>1, <1>3, <1>5, <1>6, <1>7 DEF WriteTorrent, Opening, ListOrRaw, MidOf
<1>18. o = h \o (s \o (le \o (mid \o ((k \o v) \o (y \o e)))))
  <2>1. /\ h \in Seq(Token) /\ s \in Seq(Token) /\ le \in Seq(Token) /\ mid \in Seq(Token)
        /\ k \in Seq(Token) /\ v \in Seq(Token) /\ y \in Seq(Token) /\ e \in Seq(Token)
    BY <1>2, <1>4, <1>14, <1>15, <1>16
  <2>2. EightJoined(h, s, le, mid, k, v, y, e) BY ONLY <2>1, EightJoin
  <2> QED BY <1>17, <2>2 DEF EightJoined
<1>19. PICK z, w, one : z = y \o e /\ w = k \o v /\ one = {EntryOf("info", v)} OBVIOUS
<1>20. PICK lo, hi : lo = n - 1 /\ hi = n + 1 OBVIOUS
<1>21. lo \in Nat /\ hi \in Nat /\ lo < n /\ n < hi /\ lo <= n /\ hi <= n + 1 /\ m <= lo /\ n <= lo + 1
  BY <1>9, <1>20
<1>22. PICK Q1 : Segment(w, lo, hi, one, Q1)
  <2>1. Alone(v) BY <1>1
  <2>2. Segment(<<S("info")>> \o v, lo, hi, {EntryOf("info", v)}, Others("info", v))
    BY <1>8, <1>9, <1>21, <2>1, EntrySegment
  <2> QED BY <1>3, <1>19, <2>2
<1>23. PICK Q2 : Closing(w \o z, lo, one \cup A4, Q2)
  <2>1. Closing(z, n, A4, R4) BY <1>12, <1>19
  <2> QED BY <1>9, <1>21, <1>22, <2>1, SegmentCloses
<1>24. PICK f : f = w \o z OBVIOUS
<1>25. PICK rest : rest = mid \o f OBVIOUS
<1>26. PICK Q3, B : Closing(rest, m, B, Q3) /\ B = M \cup (one \cup A4)
  <2>1. Closing(f, lo, one \cup A4, Q2) BY <1>23, <1>24
  <2> QED BY <1>9, <1>11, <1>21, <1>25, <2>1, SegmentCloses
<1>27. o = Opening(u) \o (s \o (le \o rest)) BY <1>3, <1>18, <1>19, <1>24, <1>25
<1>28. PICK C : Put(o, u, s, le, rest, list, A1 \cup (C \cup B), R1 \o Q3) /\ UrlEntries(C)
  <2>1. Segment(s, Rank["announce"], Rank["announce-list"], A1, R1) BY <1>8, <1>10
  <2>2. Closing(rest, Rank["announce-list"], B, Q3) BY <1>8, <1>26
  <2>3. u \in Utf8 /\ ListEntry(le, list) BY <1>2, <1>14
  <2> QED BY ONLY <1>27, <2>1, <2>2, <2>3, FilePut
<1>29. PICK A, R : A = A1 \cup (C \cup B) /\ R = R1 \o Q3 OBVIOUS
<1>30. Put(o, x.announce, s, le, rest, list, A, R) BY <1>1, <1>28, <1>29
<1>31. PICK N : N = A1 \cup (C \cup (M \cup A4)) OBVIOUS
<1>32. A = N \cup {EntryOf("info", x.info)} BY <1>1, <1>19, <1>26, <1>29, <1>31
<1>33. Holds(N, x.parts, Placed(x.parts))
  <2>1. Holds(A1 \cup (C \cup (M \cup A4)), parts, Placed(parts))
    <3>1. Writable(parts) BY <1>1
    <3> QED BY <1>10, <1>11, <1>12, <1>28, <3>1, HoldsAll
  <2> QED BY <1>1, <1>31, <2>1
<1> QED BY <1>14, <1>30, <1>32, <1>33 DEF WritesEntries

-----------------------------------------------------------------------------
\* The entries that are neither for the urls nor the encoding.
Apart(A) == {y \in A : y.key \notin UrlKeys /\ y.key # "encoding"}

NewSet(nw) == {EntryOf(key, Tail(nw[key])) : key \in Placed(nw)}

\* The kept and new entries as they are written.
LEMMA PlacedAre ==
  ASSUME NEW b \in Seq(Token), NEW nw \in NewMetas, NEW p \in Nat, NEW o,
         SkipEntries(b, p, Rank["announce"]) # Error, PartsAre(b, p, nw, o)
  PROVE  RawSet(o.parts, Placed(o.parts)) = NewSet(nw) \cup Keeps(b, p, nw)
<1>1. PICK a, m : a = Rank["announce"] /\ m = o.parts OBVIOUS
<1>2. a \in Nat BY <1>1, KeysAre
<1>3. \A y \in EntrySet(b, p) : Alone(y.value) /\ y = EntryOf(y.key, y.value) BY <1>1, <1>2, EntriesAlone
<1>4. \A y \in EntrySet(b, p) : y.key \in Utf8 /\ Rank[y.key] > a
  <2>1. Ascend(b, p, a) BY <1>1, <1>2, KeysAscend
  <2> QED BY <2>1 DEF Ascend
<1>5. ASSUME NEW key \in DOMAIN nw
      PROVE  key \in DOMAIN m /\ m[key] = nw[key] /\ (key \in Placed(m) <=> key \in Placed(nw))
  <2>1. key \in DOMAIN m /\ m[key] = nw[key] BY <1>1 DEF PartsAre
  <2> QED BY <2>1 DEF Placed
<1>6. ASSUME NEW y \in Keeps(b, p, nw)
      PROVE  y.key \in Placed(m) /\ EntryOf(y.key, Tail(m[y.key])) = y
  <2>1. y \in EntrySet(b, p) /\ y.key \notin {"announce-list", "info", "encoding"} BY DEF Keeps
  <2>2. PICK key, v : key = y.key /\ v = y.value OBVIOUS
  <2>3. key \in DOMAIN m /\ m[key] = <<S(key)>> \o v BY <1>1, <2>2 DEF PartsAre
  <2>4. key \in Str /\ v \in Seq(Token) BY <1>3, <1>4, <2>1, <2>2, BencodeAssumption DEF Alone
  <2>5. Tail(m[key]) = v BY <2>3, <2>4, RawTail
  <2>6. key \in Placed(m) BY <1>1, <1>4, <2>1, <2>2, <2>3 DEF Placed
  <2> QED BY <1>3, <2>1, <2>2, <2>5, <2>6
<1>7. ASSUME NEW key \in Placed(m)
      PROVE  EntryOf(key, Tail(m[key])) \in NewSet(nw) \cup Keeps(b, p, nw)
  <2>1. key \in DOMAIN m BY DEF Placed
  <2>2. CASE key \in DOMAIN nw BY <1>5, <2>2 DEF NewSet
  <2>3. CASE key \notin DOMAIN nw
    <3>1. PICK y \in Keeps(b, p, nw) : key = y.key BY <1>1, <2>1, <2>3 DEF PartsAre
    <3> QED BY <1>6, <3>1
  <2> QED BY <2>2, <2>3
<1>8. RawSet(m, Placed(m)) \subseteq NewSet(nw) \cup Keeps(b, p, nw) BY <1>7 DEF RawSet
<1>9. NewSet(nw) \subseteq RawSet(m, Placed(m))
  <2>1. \A key \in Placed(nw) : key \in DOMAIN nw BY DEF Placed
  <2> QED BY <1>5, <2>1 DEF RawSet, NewSet
<1>10. Keeps(b, p, nw) \subseteq RawSet(m, Placed(m)) BY <1>6 DEF RawSet
<1> QED BY <1>1, <1>8, <1>9, <1>10

\* What of the entries from p on and the new ones is to be found again.
ApartIs(A, b, p, nw) ==
  Apart(A) = {y \in EntrySet(b, p) :
                /\ y.key \notin UrlKeys
                /\ y.key = "info" \/ (y.key # "encoding" /\ MetaKept(y.value, 1, y.key, nw))}
             \cup NewSet(nw)

\* With the info they are all that is written apart from the urls and the encoding.
LEMMA ApartAre ==
  ASSUME NEW b \in Seq(Token), NEW nw \in NewMetas, NEW p \in Nat, NEW o,
         SkipEntries(b, p, Rank["announce"]) # Error, PartsAre(b, p, nw, o), o.info # NoRaw,
         NEW A, NEW B, A = B \cup {EntryOf("info", o.info)}, Holds(B, o.parts, Placed(o.parts))
  PROVE  ApartIs(A, b, p, nw)
<1>1. PICK a, m, one : a = Rank["announce"] /\ m = o.parts /\ one = EntryOf("info", o.info) OBVIOUS
<1>2. a \in Nat BY <1>1, KeysAre
<1>3. \A y \in EntrySet(b, p) : y = EntryOf(y.key, y.value) BY <1>1, <1>2, EntriesAlone
<1>4. \A y \in EntrySet(b, p) : y.key # "announce"
  <2>1. Ascend(b, p, a) BY <1>1, <1>2, KeysAscend
  <2> QED BY <1>1, <1>2, <2>1 DEF Ascend
<1>5. PICK W : W = RawSet(m, Placed(m)) OBVIOUS
<1>6. W = NewSet(nw) \cup Keeps(b, p, nw) BY <1>1, <1>5, PlacedAre
<1>7. \A y \in W : y.key \notin UrlKeys /\ y.key # "encoding"
  <2> SUFFICES ASSUME NEW y \in W PROVE y.key \notin UrlKeys /\ y.key # "encoding"
    OBVIOUS
  <2>1. PICK key \in Placed(m) : y = EntryOf(key, Tail(m[key])) BY <1>5 DEF RawSet
  <2>2. key # "announce-list" /\ key # "encoding" /\ Rank[key] > a BY <1>1, <2>1 DEF Placed
  <2>3. key # "announce" BY <1>1, <1>2, <2>2
  <2>4. y.key = key BY <2>1 DEF EntryOf
  <2> QED BY <2>2, <2>3, <2>4 DEF UrlKeys
<1>8. one.key = "info" /\ one.value = o.info BY <1>1 DEF EntryOf
<1>9. one.key \notin UrlKeys /\ one.key # "encoding" BY <1>8 DEF UrlKeys
<1>10. Apart(A) = W \cup {one}
  <2>1. W \subseteq B BY <1>1, <1>5 DEF Holds
  <2>2. \A y \in B : y \in W \/ y.key \in {"announce-list", "encoding"} BY <1>1, <1>5 DEF Holds
  <2>3. \A y \in B : y \notin W => y.key \in UrlKeys \/ y.key = "encoding" BY <2>2 DEF UrlKeys
  <2> QED BY <1>1, <1>7, <1>9, <2>1, <2>3 DEF Apart
<1>11. PICK F : F = {y \in EntrySet(b, p) :
                       /\ y.key \notin UrlKeys
                       /\ y.key = "info" \/ (y.key # "encoding" /\ MetaKept(y.value, 1, y.key, nw))}
  OBVIOUS
<1>12. F = Keeps(b, p, nw) \cup {one}
  <2>1. one \in F
    <3>1. PICK y \in EntrySet(b, p) : y.key = "info" BY DEF PartsAre, Has
    <3>2. y.value = o.info BY <3>1 DEF PartsAre
    <3>3. y = one BY <1>1, <1>3, <3>1, <3>2
    <3> QED BY <1>9, <1>11, <3>1, <3>3
  <2>2. Keeps(b, p, nw) \subseteq F BY <1>4, <1>11 DEF Keeps, UrlKeys
  <2>3. ASSUME NEW y \in F, y \notin Keeps(b, p, nw) PROVE y = one
    <3>1. y.key = "info" BY <1>11, <2>3 DEF Keeps, UrlKeys
    <3>2. y.value = o.info BY <1>11, <3>1 DEF PartsAre
    <3> QED BY <1>1, <1>3, <1>11, <3>1, <3>2
  <2> QED BY <2>1, <2>2, <2>3
<1> QED BY <1>6, <1>10, <1>11, <1>12 DEF ApartIs

\* What RestKept says of a file Torrent rewrites.
KeepsOthers(b, o, nw) ==
  {e \in Range(Rest(o)) : e.key # "encoding"} =
    {e \in Range(Rest(b)) : \/ e.key = "info"
                            \/ e.key # "encoding" /\ MetaKept(e.value, 1, e.key, nw)}
    \cup {[key |-> key, value |-> Tail(nw[key])] : key \in Placed(nw)}

\* And what ReloadsSame says of it.
Again(o, x, nw, again) ==
  /\ WellFormed(o) /\ again.ok /\ again.t.announce = x.announce /\ again.t.info = x.info
  /\ x.list # <<>> \/ "announce-list" \notin DOMAIN nw => again.t.list = x.list

\* The entries behind announce, without the urls.
LEMMA RangeOfRest ==
  ASSUME NEW b \in Seq(Token), Announce(b) # Error, SkipEntries(b, 4, Rank["announce"]) # Error
  PROVE  Range(Rest(b)) = {x \in EntrySet(b, 4) : x.key \notin UrlKeys}
<1>1. PICK p, k, keys : p = 4 /\ k = Rank["announce"] /\ keys = UrlKeys OBVIOUS
<1>2. p \in Nat /\ k \in Nat /\ SkipEntries(b, p, k) # Error BY <1>1, KeysAre
<1>3. Range(EntriesBut(b, p, keys)) = {x \in EntrySet(b, p) : x.key \notin keys}
  BY ONLY b \in Seq(Token), <1>2, RestSet
<1> QED BY <1>1, <1>3, RestBehind

\* All the values Torrent writes are fine for it.
LEMMA WrittenFine ==
  ASSUME NEW o, NEW x, NEW A, WritesEntries(o, x, A), NEW ck, Fine("info", x.info, ck)
  PROVE  \A y \in A : Fine(y.key, y.value, ck)
<1>1. PICK B : A = B \cup {EntryOf("info", x.info)} /\ Holds(B, x.parts, Placed(x.parts))
  BY DEF WritesEntries
<1> SUFFICES ASSUME NEW y \in A PROVE Fine(y.key, y.value, ck)
  OBVIOUS
<1>2. CASE y = EntryOf("info", x.info)
  <2>1. y.key = "info" /\ y.value = x.info BY <1>2 DEF EntryOf
  <2> QED BY <2>1
<1>3. CASE y \in RawSet(x.parts, Placed(x.parts))
  <2>1. PICK key \in Placed(x.parts) : y = EntryOf(key, Tail(x.parts[key])) BY <1>3 DEF RawSet
  <2>2. key \notin {"announce-list", "info", "encoding"} BY <2>1 DEF Placed
  <2>3. y.key = key BY <2>1 DEF EntryOf
  <2> QED BY <2>2, <2>3 DEF Fine
<1>4. CASE y.key = "announce-list" /\ Fits(y.key, y.value) BY <1>4 DEF Fine, Fits
<1>5. CASE y.key = "encoding" /\ Fits(y.key, y.value) BY <1>5 DEF Fine, Fits
<1> QED BY <1>1, <1>2, <1>3, <1>4, <1>5 DEF Holds

\* What Torrent has written it reads again.
LEMMA TorrentReads ==
  ASSUME NEW x \in Objects, x.info # NoRaw, NEW o, NEW A, WritesEntries(o, x, A), NEW ck,
         Fine("info", x.info, ck), NEW nw \in Metas, "announce-list" \in DOMAIN x.parts =>
                                                       "announce-list" \in DOMAIN nw,
         NEW again, again = LoadTorrent(o, nw, ck)
  PROVE  Again(o, x, nw, again)
<1>1. PICK s, le, rest, list, R :
        /\ Put(o, x.announce, s, le, rest, list, A, R)
        /\ x.list # <<>> \/ "announce-list" \notin DOMAIN x.parts => list = x.list
  BY DEF WritesEntries
<1>2. /\ o \in Seq(Token) /\ Announce(o) = 4 /\ o[3].v = x.announce /\ WellFormed(o)
      /\ AfterAnnounce(o) = Len(o) + 1 /\ EntrySet(o, 4) = A
  BY <1>1 DEF Put, Written
<1>3. PICK p, q \in Nat : Around(o, s, le, rest, list, p, q) BY <1>1 DEF Put
<1>4. PICK four, k : four = 4 /\ k = Rank["announce"] OBVIOUS
<1>5. four \in Nat /\ k \in Nat /\ Announce(o) # Error BY <1>2, <1>4, KeysAre DEF Error
<1>6. again = LoadFrom(o, nw, ck, four, k) BY <1>2, <1>4, <1>5, LoadTorrentIs
<1>7. LoadsAll(o, four, k, ck)
  <2>1. \A y \in A : Fine(y.key, y.value, ck) BY WrittenFine
  <2>2. SkipEntries(o, four, k) = Len(o) + 1 BY <1>2, <1>4 DEF AfterAnnounce
  <2> QED BY <1>2, <1>4, <2>1, <2>2 DEF LoadsAll
<1>8. again.ok
  <2>1. LoadFrom(o, nw, ck, four, k).ok <=> LoadsAll(o, four, k, ck)
    BY ONLY <1>2, <1>5, nw \in Metas, LoadsExactly
  <2> QED BY <1>6, <1>7, <2>1
<1>9. again.t.announce = x.announce
  <2>1. LoadsRest(o, four, k, again) BY <1>2, <1>5, <1>6, <1>8, LoadsTheRest
  <2> QED BY <1>2, <2>1 DEF LoadsRest
<1>10. again.t.info = x.info
  <2>1. PartsAre(o, four, nw, again.t) BY <1>2, <1>5, <1>6, <1>8, LoadsParts
  <2>2. PICK y : y = EntryOf("info", x.info) OBVIOUS
  <2>3. y \in EntrySet(o, four) BY <1>2, <1>4, <2>2 DEF WritesEntries
  <2>4. y.key = "info" /\ y.value = x.info BY <2>2 DEF EntryOf
  <2> QED BY <2>1, <2>3, <2>4 DEF PartsAre
<1>11. PICK ai, a : ai = LoadTorrentAnnounceInfo(o) /\ a = LoadAnnounce(o) OBVIOUS
<1>12. ai.ok /\ ai.t.list = again.t.list
  <2>1. again.t.info # NoRaw BY <1>10
  <2>2. o \in Seq(Token) BY <1>2
  <2> QED BY <1>8, <1>11, <2>1, <2>2, TorrentsAgree
<1>13. a.pos = q /\ q # Error /\ a.t.list = list /\ a.t \in Objects
  BY <1>2, <1>3, <1>11, UrlsRead
<1>14. ai.t.list = list
  <2>1. ai = LoadInfo(o, a) BY <1>11 DEF LoadTorrentAnnounceInfo
  <2>2. a.pos \in Nat /\ a.pos # 0 BY <1>13 DEF Error
  <2>3. PICK c, v, w, Q : InfoOf(o, a, ai.t, c, v, w, Q) BY <1>2, <1>12, <2>1, <2>2, InfoCut
  <2>4. ai.t = [a.t EXCEPT !.postList = c, !.info = v, !.postInfo = w] BY <2>3 DEF InfoOf
  <2>5. PICK t0 : t0 = a.t OBVIOUS
  <2>6. t0 \in Objects /\ t0.list = list BY <1>13, <2>5
  <2>7. ai.t.list = t0.list BY <2>4, <2>5, <2>6 DEF Objects
  <2> QED BY <2>6, <2>7
<1> QED BY <1>1, <1>2, <1>8, <1>9, <1>10, <1>12, <1>14 DEF Again

\* So a file Torrent has loaded with its info, and given other urls, is
\* written with the entries that it keeps, and can be read again.
LEMMA TorrentRewritten ==
  ASSUME NewMetasFine, NEW b \in Seq(Token), NEW nw \in NewMetas, NEW ck,
         NEW r, r = LoadTorrent(b, nw, ck), r.ok, r.t.info # NoRaw,
         NEW u \in Utf8, NEW list \in Seq(Seq(Utf8)),
         NEW x, x = [r.t EXCEPT !.announce = u, !.list = list],
         NEW o, o = WriteTorrent(x), NEW again, again = LoadTorrent(o, nw, ck)
  PROVE  Again(o, x, nw, again) /\ KeepsOthers(b, o, nw)
<1>1. PICK p, k, t0 : p = 4 /\ k = Rank["announce"] /\ t0 = r.t OBVIOUS
<1>2. p \in Nat /\ k \in Nat BY <1>1, KeysAre
<1>3. Announce(b) # Error BY LoadTorrentIs, ObjectIs
<1>4. r = LoadFrom(b, nw, ck, p, k)
  <2>1. Announce(b) = 4 BY <1>3, AnnounceIs
  <2> QED BY <1>1, <1>3, <2>1, LoadTorrentIs
<1>5. nw \in Metas BY MetaIs
<1>6. t0 \in Objects /\ SkipEntries(b, p, k) # Error
  <2>1. LoadsRest(b, p, k, r) BY <1>2, <1>3, <1>4, <1>5, LoadsTheRest
  <2>2. Len(b) \in Nat OBVIOUS
  <2> QED BY <1>1, <2>1, <2>2 DEF LoadsRest, Error
<1>7. PartsAre(b, p, nw, t0) BY <1>1, <1>2, <1>3, <1>4, <1>5, LoadsParts
<1>8. PICK y \in EntrySet(b, p) : y.key = "info" /\ y.value = t0.info
  <2>1. PICK y \in EntrySet(b, p) : y.key = "info" BY <1>1, <1>7 DEF PartsAre, Has
  <2> QED BY <1>7, <2>1 DEF PartsAre
<1>9. Alone(t0.info) BY <1>2, <1>6, <1>8, EntriesAlone
<1>10. Fine("info", t0.info, ck)
  <2>1. LoadFrom(b, nw, ck, p, k).ok <=> LoadsAll(b, p, k, ck)
    BY ONLY b \in Seq(Token), <1>2, <1>3, <1>5, LoadsExactly
  <2>2. LoadsAll(b, p, k, ck) BY <1>4, <2>1
  <2> QED BY <1>8, <2>2 DEF LoadsAll
<1>11. Writable(t0.parts)
  <2>1. t0.parts \in Metas BY <1>6 DEF Objects
  <2> QED BY <1>2, <1>6, <1>7, <2>1, LoadedWritable
<1>12. x \in Objects /\ x.announce = u /\ x.list = list /\ x.parts = t0.parts /\ x.info = t0.info
  <2>1. x = [t0 EXCEPT !.announce = u, !.list = list] BY <1>1
  <2> QED BY <1>6, <2>1 DEF Objects
<1>13. PICK A : WritesEntries(o, x, A) BY <1>9, <1>11, <1>12, TorrentWritten
<1>14. Again(o, x, nw, again)
  <2>1. "announce-list" \in DOMAIN x.parts => "announce-list" \in DOMAIN nw
    <3>1. \A e \in Keeps(b, p, nw) : e.key # "announce-list" BY DEF Keeps
    <3> QED BY <1>7, <1>12, <3>1 DEF PartsAre
  <2>2. x.info # NoRaw /\ Fine("info", x.info, ck) BY <1>1, <1>10, <1>12
  <2> QED BY <1>5, <1>12, <1>13, <2>1, <2>2, TorrentReads
<1>15. /\ o \in Seq(Token) /\ Announce(o) = 4 /\ AfterAnnounce(o) = Len(o) + 1 /\ EntrySet(o, 4) = A
  BY <1>13 DEF WritesEntries, Put, Written
<1>16. Range(Rest(o)) = {e \in A : e.key \notin UrlKeys}
  <2>1. Len(o) \in Nat BY <1>15
  <2>2. Announce(o) # Error /\ SkipEntries(o, 4, Rank["announce"]) # Error
    BY <1>15, <2>1 DEF AfterAnnounce, Error
  <2> QED BY <1>15, <2>2, RangeOfRest
<1>17. Range(Rest(b)) = {e \in EntrySet(b, p) : e.key \notin UrlKeys} BY <1>1, <1>3, <1>6, RangeOfRest
<1>18. PICK B : A = B \cup {EntryOf("info", t0.info)} /\ Holds(B, t0.parts, Placed(t0.parts))
  BY <1>12, <1>13 DEF WritesEntries
<1>19. ApartIs(A, b, p, nw)
  <2>1. /\ p \in Nat /\ SkipEntries(b, p, Rank["announce"]) # Error /\ PartsAre(b, p, nw, t0)
        /\ t0.info # NoRaw /\ A = B \cup {EntryOf("info", t0.info)}
        /\ Holds(B, t0.parts, Placed(t0.parts))
    BY <1>1, <1>2, <1>6, <1>7, <1>18
  <2> QED BY ONLY b \in Seq(Token), nw \in NewMetas, <2>1, ApartAre
<1>20. {e \in Range(Rest(o)) : e.key # "encoding"} = Apart(A) BY <1>16 DEF Apart
<1>21. {e \in Range(Rest(b)) : \/ e.key = "info"
                               \/ e.key # "encoding" /\ MetaKept(e.value, 1, e.key, nw)}
         = {e \in EntrySet(b, p) :
                     /\ e.key \notin UrlKeys
                     /\ e.key = "info" \/ (e.key # "encoding" /\ MetaKept(e.value, 1, e.key, nw))}
  BY <1>17
<1>22. NewSet(nw) = {[key |-> key, value |-> Tail(nw[key])] : key \in Placed(nw)} BY DEF NewSet, EntryOf
<1>23. KeepsOthers(b, o, nw) BY <1>19, <1>20, <1>21, <1>22 DEF KeepsOthers, ApartIs
<1> QED BY <1>14, <1>23


(***************************************************************************)
(* What the steps of a program keep: the object is the one loaded, but for *)
(* the urls it has been given, and what is written is written from it.     *)
(***************************************************************************)
UrlsSet ==
  pc \in {"merged", "written"} =>
    \E r \in {LoadAs(class, file, new, check)}, list \in UrlLists :
      r.ok /\ t = [r.t EXCEPT !.announce = FirstUrl(list), !.list = list]

IsWritten == pc = "written" => out = WriteAs(class, t)

WrittenInv == FileInv /\ UrlsSet /\ IsWritten

\* Every step keeps it.
LEMMA WrittenStep == WrittenInv /\ [Next]_vars => WrittenInv'
<1> SUFFICES ASSUME WrittenInv, [Next]_vars PROVE WrittenInv'
  OBVIOUS
<1>1. FileInv' BY FileStep DEF WrittenInv
<1>2. CASE Load
  <2>1. pc' \in {"loaded", "rejected"} BY <1>2 DEF Load
  <2> QED BY <1>1, <2>1 DEF WrittenInv, UrlsSet, IsWritten
<1>3. CASE SetAnnounceUrls
  <2>1. pc = "loaded" /\ pc' = "merged" /\ UNCHANGED <<file, new, check, class, out, writes>>
    BY <1>3 DEF SetAnnounceUrls
  <2>2. PICK list \in UrlLists : t' = [t EXCEPT !.announce = FirstUrl(list), !.list = list]
    BY <1>3 DEF SetAnnounceUrls, FirstUrl
  <2>3. PICK r : r = LoadAs(class, file, new, check) /\ r.ok /\ t = r.t
    BY <2>1 DEF WrittenInv, FileInv, IsLoaded
  <2>4. r = LoadAs(class, file, new, check)' BY <2>1, <2>3
  <2>5. t' = [r.t EXCEPT !.announce = FirstUrl(list), !.list = list] BY <2>2, <2>3
  <2>6. UrlsSet' BY <2>3, <2>4, <2>5 DEF UrlsSet
  <2> QED BY <1>1, <2>1, <2>6 DEF WrittenInv, IsWritten
<1>4. CASE Write
  <2>1. pc = "merged" /\ pc' = "written" /\ UNCHANGED <<file, new, check, class, t>>
    BY <1>4 DEF Write
  <2>2. out' = WriteAs(class, t)' BY <1>4 DEF Write
  <2>3. UrlsSet' BY <2>1 DEF WrittenInv, UrlsSet
  <2>4. IsWritten' BY <2>1, <2>2 DEF IsWritten
  <2> QED BY <1>1, <2>3, <2>4 DEF WrittenInv
<1>5. CASE RunAgain
  <2>1. pc' = "start" BY <1>5 DEF RunAgain
  <2> QED BY <1>1, <2>1 DEF WrittenInv, UrlsSet, IsWritten
<1>6. CASE UNCHANGED vars
  <2>1. UNCHANGED <<file, new, check, class, t, out, pc>> BY <1>6 DEF vars
  <2> QED BY <1>1, <2>1 DEF WrittenInv, UrlsSet, IsWritten
<1> QED BY <1>2, <1>3, <1>4, <1>5, <1>6 DEF Next

\* So it always holds.
LEMMA AlwaysWrittenInv == Spec => []WrittenInv
<1>1. Init => WrittenInv BY FileInit DEF Init, WrittenInv, UrlsSet, IsWritten
<1> QED BY <1>1, WrittenStep, PTL DEF Spec

\* What it says of a written file, whatever the class.
WrittenFrom(r, u, list) ==
  /\ r = LoadAs(class, file, new, check) /\ r.ok
  /\ u \in Utf8 /\ list \in Seq(Seq(Utf8))
  /\ t = [r.t EXCEPT !.announce = u, !.list = list]
  /\ out = WriteAs(class, t)

\* It follows from the invariant, and a complete torrent has been loaded as one.
LEMMA WrittenSo ==
  ASSUME WrittenInv, pc = "written"
  PROVE  \E r, u, list : WrittenFrom(r, u, list)
<1>1. PICK r \in {LoadAs(class, file, new, check)}, list \in UrlLists :
        r.ok /\ t = [r.t EXCEPT !.announce = FirstUrl(list), !.list = list]
  BY DEF WrittenInv, UrlsSet
<1>2. PICK u : u = FirstUrl(list) OBVIOUS
<1>3. u \in Utf8 /\ list \in Seq(Seq(Utf8)) BY <1>2, FirstUrlType
<1>4. out = WriteAs(class, t) BY DEF WrittenInv, IsWritten
<1>5. WrittenFrom(r, u, list) BY <1>1, <1>2, <1>3, <1>4 DEF WrittenFrom
<1> QED BY <1>5

\* What a complete torrent is written to, for the class that reads it whole
\* and for the two that look for the urls in it.
LEMMA WrittenByTorrent ==
  ASSUME NewMetasFine, FileInv, class = "Torrent", Complete,
         NEW r, NEW u, NEW list, WrittenFrom(r, u, list),
         NEW again, again = LoadAs(class, out, new, check)
  PROVE  Again(out, t, new, again) /\ KeepsOthers(file, out, new)
<1>1. PICK b, nw, ck, x, o : b = file /\ nw = new /\ ck = check /\ x = t /\ o = out OBVIOUS
<1>2. b \in Seq(Token) /\ nw \in NewMetas BY <1>1 DEF FileInv
<1>3. r = LoadTorrent(b, nw, ck) /\ r.ok BY <1>1 DEF WrittenFrom, LoadAs
<1>4. x = [r.t EXCEPT !.announce = u, !.list = list] BY <1>1 DEF WrittenFrom
<1>5. o = WriteTorrent(x) BY <1>1 DEF WrittenFrom, WriteAs
<1>6. again = LoadTorrent(o, nw, ck) BY <1>1 DEF LoadAs
<1>7. u \in Utf8 /\ list \in Seq(Seq(Utf8)) BY DEF WrittenFrom
<1>8. r.t.info # NoRaw
  <2>1. r.t \in Objects
    <3>1. PICK cl \in Classes : cl = "Torrent" BY DEF Classes
    <3>2. LoadAs(cl, b, nw, ck) = r BY <1>3, <3>1 DEF LoadAs
    <3>3. LoadAs(cl, b, nw, ck) \in Results BY <1>2, LoadType
    <3> QED BY <3>2, <3>3 DEF Results
  <2>2. PICK t0 : t0 = r.t OBVIOUS
  <2>3. x.info # NoRaw BY <1>1 DEF Complete
  <2>4. x = [t0 EXCEPT !.announce = u, !.list = list] BY <1>4, <2>2
  <2>5. x.info = t0.info BY <2>1, <2>2, <2>4 DEF Objects
  <2> QED BY <2>2, <2>3, <2>5
<1>9. Again(o, x, nw, again) /\ KeepsOthers(b, o, nw)
  BY ONLY NewMetasFine, <1>2, <1>3, <1>4, <1>5, <1>6, <1>7, <1>8, TorrentRewritten
<1> QED BY <1>1, <1>9

\* The other two write every other entry as it was.
LEMMA WrittenByAnnounce ==
  ASSUME FileInv, class # "Torrent", Complete,
         NEW r, NEW u, NEW list, WrittenFrom(r, u, list),
         NEW again, again = LoadAs(class, out, new, check)
  PROVE  Reloaded(file, out, t, again)
<1>1. PICK b, x, o : b = file /\ x = t /\ o = out OBVIOUS
<1>2. b \in Seq(Token) BY <1>1 DEF FileInv
<1>3. x = [r.t EXCEPT !.announce = u, !.list = list] BY <1>1 DEF WrittenFrom
<1>4. u \in Utf8 /\ list \in Seq(Seq(Utf8)) /\ r.ok BY DEF WrittenFrom
<1>5. CASE class = "TorrentAnnounce"
  <2>1. r = LoadTorrentAnnounce(b) BY <1>1, <1>5 DEF WrittenFrom, LoadAs
  <2>2. o = WriteTorrentAnnounce(x) BY <1>1, <1>5 DEF WrittenFrom, WriteAs
  <2>3. again = LoadTorrentAnnounce(o) BY <1>1, <1>5 DEF LoadAs
  <2>4. WellFormed(b) BY <1>1, <1>5 DEF Complete
  <2>5. Reloaded(b, o, x, again)
    BY ONLY <1>2, <1>3, <1>4, <2>1, <2>2, <2>3, <2>4, AnnounceWritten
  <2> QED BY <1>1, <2>5
<1>6. CASE class = "TorrentAnnounceInfo"
  <2>1. r = LoadTorrentAnnounceInfo(b) BY <1>1, <1>6 DEF WrittenFrom, LoadAs
  <2>2. o = WriteTorrentAnnounceInfo(x) BY <1>1, <1>6 DEF WrittenFrom, WriteAs
  <2>3. again = LoadTorrentAnnounceInfo(o) BY <1>1, <1>6 DEF LoadAs
  <2>4. Reloaded(b, o, x, again)
    BY ONLY <1>2, <1>3, <1>4, <2>1, <2>2, <2>3, AnnounceInfoWritten
  <2> QED BY <1>1, <2>4
<1> QED BY <1>5, <1>6 DEF FileInv, Classes

(***************************************************************************)
(* "all three can write it back again" (torrent.h:8): loading again what   *)
(* any of the classes has written from a complete torrent finds the urls   *)
(* just set and the info of before, and what is written is one dictionary; *)
(* for files of any length, with any keys, any urls and any new entries    *)
(* that are fine, also after any number of rewrites by other classes.      *)
(***************************************************************************)
THEOREM AlwaysReloadsSame == ASSUME NewMetasFine PROVE Spec => []ReloadsSame
<1>1. ASSUME WrittenInv PROVE ReloadsSame
  <2> SUFFICES ASSUME pc = "written", Complete
               PROVE  \E again \in {LoadAs(class, out, new, check)} :
                        /\ WellFormed(out) /\ again.ok
                        /\ again.t.announce = t.announce /\ again.t.info = t.info
                        /\ t.list # <<>> \/ "announce-list" \notin DOMAIN new => again.t.list = t.list
    BY DEF ReloadsSame
  <2>1. PICK r, u, list : WrittenFrom(r, u, list) BY <1>1, WrittenSo
  <2>2. PICK again : again = LoadAs(class, out, new, check) OBVIOUS
  <2>3. FileInv BY <1>1 DEF WrittenInv
  <2>4. CASE class = "Torrent"
    <3>1. Again(out, t, new, again) BY <2>1, <2>2, <2>3, <2>4, WrittenByTorrent
    <3> QED BY <2>2, <3>1 DEF Again
  <2>5. CASE class # "Torrent"
    <3>1. Reloaded(file, out, t, again) BY <2>1, <2>2, <2>3, <2>5, WrittenByAnnounce
    <3> QED BY <2>2, <3>1 DEF Reloaded
  <2> QED BY <2>4, <2>5
<1> QED BY <1>1, AlwaysWrittenInv, PTL

(***************************************************************************)
(* Nothing but the announce urls changes in a complete torrent that class  *)
(* TorrentAnnounceInfo or TorrentAnnounce writes back; Torrent writes the  *)
(* entries the filters for them allow, with the values they had, the info  *)
(* as it was, and the new entries it has a place for; no other one.        *)
(***************************************************************************)
THEOREM AlwaysRestKept == ASSUME NewMetasFine PROVE Spec => []RestKept
<1>1. ASSUME WrittenInv PROVE RestKept
  <2> SUFFICES ASSUME pc = "written", Complete
               PROVE  /\ class # "Torrent" => Rest(out) = Rest(file)
                      /\ class = "Torrent" => KeepsOthers(file, out, new)
    BY DEF RestKept, KeepsOthers
  <2>1. PICK r, u, list : WrittenFrom(r, u, list) BY <1>1, WrittenSo
  <2>2. PICK again : again = LoadAs(class, out, new, check) OBVIOUS
  <2>3. FileInv BY <1>1 DEF WrittenInv
  <2>4. CASE class = "Torrent" BY <2>1, <2>2, <2>3, <2>4, WrittenByTorrent
  <2>5. CASE class # "Torrent"
    <3>1. Reloaded(file, out, t, again) BY <2>1, <2>2, <2>3, <2>5, WrittenByAnnounce
    <3> QED BY <2>5, <3>1 DEF Reloaded
  <2> QED BY <2>4, <2>5
<1> QED BY <1>1, AlwaysWrittenInv, PTL
=============================================================================
