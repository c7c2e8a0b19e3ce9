---------------------------- MODULE TorrentFile ----------------------------
(***************************************************************************)
(* The three ways to load a torrent file, change its announce urls and     *)
(* write it back: classes Torrent, TorrentAnnounceInfo and TorrentAnnounce *)
(* (src/src/torrent.cpp).  A file is a sequence of tokens, see Bencode.    *)
(* A file once written may be loaded again, by any of the classes.         *)
(***************************************************************************)
EXTENDS TorrentInfo, SequencesExt

CONSTANTS
  Files,        \* the files considered
  UrlLists,     \* the announce-lists a merge may end with
  Dht,          \* the url "dht://<infohash>"
  PlainKeys,    \* the keys of visible ascii characters
  TextKeys, NumKeys, OtherKeys,  \* the keys filter_meta_... match
  NewMetas,     \* the new_meta_entries considered: from keys to raw values
  MaxWrites     \* bound on the number of times a file is rewritten

ASSUME FileAssumption ==
  /\ {"", "announce", "announce-list", "encoding", "info"} \subseteq Utf8
  /\ 0 < Rank["announce"] /\ Rank["announce"] < Rank["announce-list"]
  /\ Rank["announce-list"] < Rank["encoding"] /\ Rank["encoding"] < Rank["info"]
  /\ TextKeys \cup NumKeys \cup OtherKeys \subseteq Str /\ PlainKeys \subseteq Str
  /\ Files \subseteq Seq(Token) /\ Dht \in Utf8 /\ MaxWrites \in Nat
  /\ \A list \in UrlLists : list \in Seq(Seq(Utf8)) /\ \A n \in 1..Len(list) : list[n] # <<>>

ASSUME MetaAssumption ==
  /\ <<>> \in NewMetas
  /\ \A meta \in NewMetas : /\ IsFiniteSet(DOMAIN meta) /\ DOMAIN meta \subseteq Str
                             /\ meta \in [DOMAIN meta -> Seq(Token)]

Classes == {"Torrent", "TorrentAnnounceInfo", "TorrentAnnounce"}

NoRaw == <<>>

\* An object of any of the classes; each one has only some of the fields.
NewObject == [announce |-> "", list |-> <<>>, info |-> NoRaw, encoding |-> "",
              parts |-> <<>>,
              postAnnounce |-> NoRaw, postList |-> NoRaw, postInfo |-> NoRaw]

Failed == [ok |-> FALSE, t |-> NewObject]
Loaded(t) == [ok |-> TRUE, t |-> t]

Slice(b, from, to) == SubSeq(b, from, to - 1)

\* Mutant: the primary url is read without looking at its encoding.
AnnounceRaw(b) == IF At(b, 1, "d") /\ At(b, 2, "s") /\ b[2].v = "announce"
                  THEN ReadString(b, 3) ELSE Error

\* "d8:announce" and the url; the position behind it or Error.
Announce(b) == IF At(b, 1, "d") /\ At(b, 2, "s") /\ b[2].v = "announce"
               THEN ReadUtf8(b, 3) ELSE Error

(***************************************************************************)
(* Torrent::load.  Each turn of the loop reads one entry whose key starts  *)
(* at p and comes after the one of rank prev.  No key comes twice, so it   *)
(* makes no difference that the object is put together from the end.       *)
(***************************************************************************)
\* Mutant: an entry of the file goes before a new one.
KeepOldMeta(key, new) == key \in PlainKeys

\* validMetaKey: an entry that will be replaced by a new one is not kept.
ValidMetaKey(key, new) == key \in PlainKeys /\ key \notin DOMAIN new

\* A further entry: kept if a filter for its key fits its value, else skipped.
MetaKept(b, p, key, new) ==
  /\ ValidMetaKey(key, new)
  /\ \/ key \in TextKeys /\ ReadUtf8(b, p) # Error
     \/ key \in NumKeys /\ ReadNumber(b, p) # Error
     \/ key \in OtherKeys

\* The position behind the value at p of a key.
EntryEnd(b, p, key, check) ==
  CASE key = "announce-list" -> ParseAnnounceList(b, p).pos
    [] key = "info" -> ParseInfo(b, p, check)
    [] key = "encoding" -> ReadUtf8(b, p)
    [] OTHER -> SkipValue(b, p)

\* The entries with one more.
Insert(parts, key, raw) == [k \in DOMAIN parts \cup {key} |-> IF k = key THEN raw ELSE parts[k]]

\* What the entry from p to q - 1 adds to the object.
WithEntry(t, b, p, q, new) ==
  LET key == b[p].v
  IN CASE key = "announce-list" -> [t EXCEPT !.list = ParseAnnounceList(b, p + 1).list]
       [] key = "info" -> [t EXCEPT !.info = Slice(b, p + 1, q)]
       [] key = "encoding" -> [t EXCEPT !.encoding = b[p + 1].v]
       [] OTHER -> IF MetaKept(b, p + 1, key, new)
                   THEN [t EXCEPT !.parts = Insert(@, key, Slice(b, p, q))] ELSE t

\* The entry put before what has been loaded from q on.
Before(rest, b, p, q, new) == IF rest.ok THEN Loaded(WithEntry(rest.t, b, p, q, new)) ELSE Failed

LoadTorrent(b, new, check) ==
  LET load[k \in Places] ==
        IF At(b, k.p, "e") THEN
          IF k.p # Len(b) THEN Failed
          ELSE Loaded([NewObject EXCEPT !.announce = b[3].v, !.parts = new])
        ELSE IF ~NextKey(b, k.p, k.prev) THEN Failed
        ELSE LET upTo(q) == IF q = Error THEN Failed
                            ELSE Before(load[PlaceAt(q, Rank[b[k.p].v])], b, k.p, q, new)
             IN upTo(EntryEnd(b, k.p + 1, b[k.p].v, check))
  IN IF Announce(b) = Error THEN Failed
     ELSE load[PlaceAt(Announce(b), Rank["announce"])]

(***************************************************************************)
(* TorrentAnnounce::load stops behind the announce-list;                   *)
(* TorrentAnnounceInfo::load goes on to the end of the dictionary.         *)
(***************************************************************************)
\* What both do first: found is FALSE if there is no announce-list.
LoadAnnounce(b) ==
  LET p == Announce(b)
      entry == TryNext(b, p, "announce-list", Rank["announce"])
      al == IF entry.found THEN ParseAnnounceList(b, entry.pos) ELSE [pos |-> entry.pos, list |-> <<>>]
  IN IF p = Error \/ al.pos = Error THEN [pos |-> Error, t |-> NewObject]
     ELSE [pos |-> al.pos,
           t |-> [NewObject EXCEPT !.announce = b[3].v, !.list = al.list,
                                   !.postAnnounce = Slice(b, p, entry.to)]]

\* Mutant: entries between announce and announce-list are not expected.
LoadNextOnly(b) ==
  LET p == Announce(b)
      found == ReadUtf8(b, p) # Error /\ b[p].v = "announce-list"
      al == IF found THEN ParseAnnounceList(b, p + 1) ELSE [pos |-> p, list |-> <<>>]
  IN IF p = Error \/ al.pos = Error THEN Failed
     ELSE Loaded([NewObject EXCEPT !.announce = b[3].v, !.list = al.list,
                                   !.postList = Slice(b, al.pos, Len(b) + 1)])

LoadTorrentAnnounce(b) ==
  LET a == LoadAnnounce(b)
  IN IF a.pos = Error THEN Failed
     ELSE Loaded([a.t EXCEPT !.postList = Slice(b, a.pos, Len(b) + 1)])

\* What is read behind the urls, which LoadAnnounce has read.
LoadInfo(b, a) ==
  LET info == TryNext(b, a.pos, "info", Rank["announce-list"])
      q == SkipValue(b, info.pos)
      end == SkipEntries(b, q, Rank["info"])
  IN IF ~info.found \/ q = Error \/ end = Error THEN Failed
     ELSE Loaded([a.t EXCEPT !.postList = Slice(b, a.pos, info.to),
                             !.info = Slice(b, info.pos, q),
                             !.postInfo = Slice(b, q, end)])

LoadTorrentAnnounceInfo(b) == LoadInfo(b, LoadAnnounce(b))

LoadAs(class, b, new, check) ==
  CASE class = "Torrent" -> LoadTorrent(b, new, check)
    [] class = "TorrentAnnounceInfo" -> LoadTorrentAnnounceInfo(b)
    [] class = "TorrentAnnounce" -> LoadTorrentAnnounce(b)

-----------------------------------------------------------------------------
\* TorrentOStream: a list of lists of strings.
Strings(s) == [n \in 1..Len(s) |-> S(s[n])]
ListOf(list) ==
  <<L>> \o FlattenSeq([g \in 1..Len(list) |-> <<L>> \o Strings(list[g]) \o <<E>>]) \o <<E>>

AnnounceListEntry(t) ==
  IF t.list = <<>> THEN <<>> ELSE <<S("announce-list")>> \o ListOf(t.list)

\* writerawkeys: the kept and new entries with a key between two others.
RawKeys(parts, prev, next) ==
  LET raw[keys \in SUBSET DOMAIN parts] ==
        IF keys = {} THEN <<>>
        ELSE LET first == CHOOSE key \in keys : \A k \in keys : Rank[key] <= Rank[k]
             IN parts[first] \o raw[keys \ {first}]
  IN raw[{key \in DOMAIN parts : Rank[prev] < Rank[key] /\ (next = "" \/ Rank[key] < Rank[next])}]

\* writerawkey
RawKey(parts, key) == IF key \in DOMAIN parts THEN parts[key] ELSE <<>>

\* The value written for an encoding is the key's own name.
WriteTorrent(t) ==
  <<D, S("announce"), S(t.announce)>>
    \o RawKeys(t.parts, "announce", "announce-list")
    \o (IF t.list # <<>> THEN AnnounceListEntry(t) ELSE RawKey(t.parts, "announce-list"))
    \o (IF t.encoding # ""
        THEN RawKeys(t.parts, "announce-list", "encoding") \o <<S("encoding"), S("encoding")>>
               \o RawKeys(t.parts, "encoding", "info")
        ELSE RawKeys(t.parts, "announce-list", "info"))
    \o <<S("info")>> \o t.info
    \o RawKeys(t.parts, "info", "") \o <<E>>

\* Mutant: the announce-list directly behind announce, whatever was there.
WriteListFirst(t) ==
  <<D, S("announce"), S(t.announce)>> \o AnnounceListEntry(t) \o t.postAnnounce
    \o t.postList \o <<S("info")>> \o t.info \o t.postInfo

WriteTorrentAnnounceInfo(t) ==
  <<D, S("announce"), S(t.announce)>> \o t.postAnnounce \o AnnounceListEntry(t)
    \o t.postList \o <<S("info")>> \o t.info \o t.postInfo

WriteTorrentAnnounce(t) ==
  <<D, S("announce"), S(t.announce)>> \o t.postAnnounce \o AnnounceListEntry(t) \o t.postList

WriteAs(class, t) ==
  CASE class = "Torrent" -> WriteTorrent(t)
    [] class = "TorrentAnnounceInfo" -> WriteTorrentAnnounceInfo(t)
    [] class = "TorrentAnnounce" -> WriteTorrentAnnounce(t)

-----------------------------------------------------------------------------
VARIABLES
  file,          \* the torrent file
  new, check,    \* new_meta_entries and -v of this run of a program
  class, t,      \* the object the program uses
  out,           \* what it has written
  writes,        \* the number of files written so far
  pc

vars == <<file, new, check, class, t, out, writes, pc>>

TypeOK ==
  /\ file \in Seq(Token)
  /\ new \in NewMetas /\ check \in BOOLEAN
  /\ class \in Classes
  /\ t.announce \in Utf8 /\ t.list \in Seq(Seq(Utf8))
  /\ writes \in 0..MaxWrites
  /\ pc \in {"start", "rejected", "loaded", "merged", "written"}

\* A program picks a class; only Torrent depends on the options.
Program(cl, nw, ch) == cl = "Torrent" \/ (nw = <<>> /\ ~ch)

Init ==
  /\ file \in Files
  /\ new \in NewMetas /\ check \in BOOLEAN /\ class \in Classes
  /\ Program(class, new, check)
  /\ t = NewObject /\ out = <<>> /\ writes = 0
  /\ pc = "start"

Load ==
  /\ pc = "start"
  /\ \E r \in {LoadAs(class, file, new, check)} :
        /\ t' = r.t
        /\ pc' = IF r.ok THEN "loaded" ELSE "rejected"
  /\ UNCHANGED <<file, new, check, class, out, writes>>

\* sanitize_announce_urls or the merge of torrent-merge: module AnnounceList.
SetAnnounceUrls ==
  /\ pc = "loaded"
  /\ \E list \in UrlLists :
       t' = [t EXCEPT !.announce = IF list = <<>> THEN Dht ELSE list[1][1], !.list = list]
  /\ pc' = "merged"
  /\ UNCHANGED <<file, new, check, class, out, writes>>

Write ==
  /\ pc = "merged"
  /\ writes < MaxWrites
  /\ out' = WriteAs(class, t) /\ writes' = writes + 1
  /\ pc' = "written"
  /\ UNCHANGED <<file, new, check, class, t>>

\* The written file takes the place of the old one, for another program.
RunAgain ==
  /\ pc = "written"
  /\ file' = out /\ out' = <<>>
  /\ class' \in Classes /\ new' \in NewMetas /\ check' \in BOOLEAN
  /\ Program(class', new', check')
  /\ t' = NewObject
  /\ pc' = "start"
  /\ UNCHANGED writes

Next == Load \/ SetAnnounceUrls \/ Write \/ RunAgain

Spec == Init /\ [][Next]_vars

-----------------------------------------------------------------------------
\* The file is one dictionary and nothing else.
WellFormed(b) == At(b, 1, "d") /\ SkipValue(b, 1) = Len(b) + 1

\* The entries of the dictionary at the top of a file in order, from position
\* p on, those with some keys left out.
EntriesBut(b, p, keys) ==
  LET entries[n \in Nat] ==
        IF ~At(b, n, "s") THEN <<>>
        ELSE LET q == SkipValue(b, n + 1)
             IN (IF b[n].v \in keys THEN <<>>
                 ELSE <<[key |-> b[n].v, value |-> Slice(b, n + 1, q)]>>) \o entries[q]
  IN entries[p]

EntriesFrom(b, p) == EntriesBut(b, p, {})

Entries(b) == EntriesFrom(b, 2)

UrlKeys == {"announce", "announce-list"}

\* The entries that are not for the urls.
Rest(b) == EntriesBut(b, 2, UrlKeys)

HasKey(b, key) == \E e \in Range(Entries(b)) : e.key = key
ValueOf(b, key) == (CHOOSE e \in Range(Entries(b)) : e.key = key).value

UrlsFine(b) ==
  /\ ReadUtf8(ValueOf(b, "announce"), 1) # Error
  /\ HasKey(b, "announce-list") => ParseAnnounceList(ValueOf(b, "announce-list"), 1).pos # Error

(***************************************************************************)
(* Torrent::load accepts exactly the files that are one well-formed        *)
(* dictionary beginning with announce, whose urls, encoding and info, as   *)
(* far as they are there, are fine; TorrentAnnounceInfo::load those that   *)
(* begin with such a dictionary, whose urls are fine and that have any     *)
(* info.  Reading entry by entry and stopping early makes no difference.   *)
(***************************************************************************)
AcceptsExactly ==
  pc \in {"loaded", "rejected"} /\ class # "TorrentAnnounce" =>
    (pc = "loaded") =
      (/\ At(file, 1, "d") /\ At(file, 2, "s") /\ file[2].v = "announce"
       /\ SkipValue(file, 1) # Error /\ UrlsFine(file)
       /\ \/ class = "TorrentAnnounceInfo" /\ HasKey(file, "info")
          \/ /\ class = "Torrent" /\ WellFormed(file)
             /\ HasKey(file, "encoding") => ReadUtf8(ValueOf(file, "encoding"), 1) # Error
             /\ HasKey(file, "info") => ParseInfo(ValueOf(file, "info"), 1, check) # Error)

(***************************************************************************)
(* "they all parse the announce and announce-list urls" (torrent.h:10): a  *)
(* file Torrent accepts (with its info), TorrentAnnounceInfo accepts with  *)
(* the same urls and info hash, and what that accepts TorrentAnnounce      *)
(* accepts with the same urls, also after other classes have rewritten it. *)
(***************************************************************************)
LoadersAgree ==
  pc = "loaded" =>
    \E ai \in {LoadTorrentAnnounceInfo(file)}, a \in {LoadTorrentAnnounce(file)} :
       /\ class = "Torrent" /\ t.info # NoRaw =>
            /\ ai.ok /\ ai.t.announce = t.announce /\ ai.t.list = t.list
            /\ ai.t.info = t.info
       /\ class = "TorrentAnnounceInfo" =>
            a.ok /\ a.t.announce = t.announce /\ a.t.list = t.list

\* What the object was loaded from is a complete torrent; Torrent does not
\* ask for an info, and TorrentAnnounce does not look behind the urls.
Complete == CASE class = "Torrent" -> t.info # NoRaw
              [] class = "TorrentAnnounce" -> WellFormed(file)
              [] OTHER -> TRUE

(***************************************************************************)
(* "add meta raw (bencoded) entry" (torrent-sanitize.cpp:61): what the     *)
(* user has to see to, as the program takes a new entry as it is.  It is a *)
(* valid key and one value, which fits the key if Torrent::load reads it.  *)
(***************************************************************************)
NewMetasFine ==
  \A meta \in NewMetas : \A key \in DOMAIN meta :
    \E raw \in {meta[key]} :
      /\ key \in Utf8 /\ raw # <<>> /\ raw[1] = S(key)
      /\ SkipValue(raw, 2) = Len(raw) + 1
      /\ key = "encoding" => ReadUtf8(raw, 2) # Error
      /\ key = "announce-list" => ParseAnnounceList(raw, 2).pos # Error

(***************************************************************************)
(* "all three can write it back again" (torrent.h:8): what is written is   *)
(* one well-formed dictionary, and loading it again finds the urls just    *)
(* set and the info hash of before.                                        *)
(***************************************************************************)
ReloadsSame ==
  pc = "written" /\ Complete =>
    \E again \in {LoadAs(class, out, new, check)} :
       /\ WellFormed(out) /\ again.ok
       /\ again.t.announce = t.announce /\ again.t.info = t.info
       /\ t.list # <<>> \/ "announce-list" \notin DOMAIN new => again.t.list = t.list

\* The new entries Torrent::write has a place for.
Placed(n) == {key \in DOMAIN n : Rank[key] > Rank["announce"]} \ {"announce-list", "encoding", "info"}

(***************************************************************************)
(* Nothing but the announce urls changes in a file TorrentAnnounceInfo or  *)
(* TorrentAnnounce rewrites.  Torrent::write leaves the info as it is, and *)
(* of the other entries (the encoding apart) it keeps the ones the filters *)
(* allow with their values; a new one replaces an old one of its key.      *)
(***************************************************************************)
RestKept ==
  pc = "written" =>
    /\ class # "Torrent" /\ Complete => Rest(out) = Rest(file)
    /\ class = "Torrent" /\ Complete =>
         {e \in Range(Rest(out)) : e.key # "encoding"} =
           {e \in Range(Rest(file)) :
              \/ e.key = "info"
              \/ e.key # "encoding" /\ MetaKept(e.value, 1, e.key, new)}
           \cup {[key |-> key, value |-> Tail(new[key])] : key \in Placed(new)}

-----------------------------------------------------------------------------
(***************************************************************************)
(* "all three can write it back again" (torrent.h:8), as it is said: the   *)
(* encoding of a file Torrent loads is the one it writes.                  *)
(***************************************************************************)
EncodingKept ==
  pc = "written" /\ class = "Torrent" /\ Complete /\ t.encoding # "" =>
      ValueOf(out, "encoding") = ValueOf(file, "encoding")

(***************************************************************************)
(* "makes sure it is valid bencoding; makes sure the important fields are  *)
(* valid" (torrent.h:12-13) and "can write it back again" (torrent.h:8):   *)
(* what Torrent has loaded it writes as valid bencoding.                   *)
(***************************************************************************)
TorrentStaysValid == pc = "written" /\ class = "Torrent" => WellFormed(out)
=============================================================================
