------------------------------ MODULE Bencode ------------------------------
(***************************************************************************)
(* The parser all loaders share (class TorrentBase, src/src/torrentbase.cpp)*)
(* over a buffer of tokens: a string with its length prefix is one token,  *)
(* and so is a number.  An operator that reads from position p returns the *)
(* position behind what it has read, or Error.  A token "?" is anything no *)
(* value can begin with, a string or number cut off included.              *)
(***************************************************************************)
EXTENDS Naturals, Sequences

CONSTANTS
  Str,     \* strings
  Rank,    \* their place in the order of BufferString; 0 for the empty one
  Utf8,    \* the strings validUTF8Text accepts
  Number,  \* numbers, however many digits they have
  Int64    \* the ones that fit an int64_t

ASSUME BencodeAssumption ==
  /\ Rank \in [Str -> Nat]
  /\ \A s, t \in Str : Rank[s] = Rank[t] => s = t
  /\ Utf8 \subseteq Str /\ Int64 \subseteq Number

Error == 0

S(s) == [t |-> "s", v |-> s]
I(n) == [t |-> "i", v |-> n]
D == [t |-> "d", v |-> ""]
L == [t |-> "l", v |-> ""]
E == [t |-> "e", v |-> ""]
Junk == [t |-> "?", v |-> ""]

Token == [t : {"s"}, v : Str] \cup [t : {"i"}, v : Number] \cup {D, L, E, Junk}

At(b, p, t) == p \in 1..Len(b) /\ b[p].t = t

ReadString(b, p) == IF At(b, p, "s") THEN p + 1 ELSE Error
ReadUtf8(b, p) == IF At(b, p, "s") /\ b[p].v \in Utf8 THEN p + 1 ELSE Error
ReadNumber(b, p) == IF At(b, p, "i") /\ b[p].v \in Int64 THEN p + 1 ELSE Error

\* Mutant: keys in any order, duplicate keys.
AnyKey(b, p, prev) == ReadUtf8(b, p) # Error

\* The next token is a dictionary key that comes after the one of rank prev.
NextKey(b, p, prev) == ReadUtf8(b, p) # Error /\ Rank[b[p].v] > prev

(***************************************************************************)
(* skip_value, the loop of skip_list and the loop of skip_dict and         *)
(* goto_dict_end, which call each other: what they skip from position p    *)
(* on, the last one after a key of rank prev.                              *)
(***************************************************************************)
Calls == [what : {"value", "items", "entries"}, p : Nat, prev : Nat]
ValueAt(p) == [what |-> "value", p |-> p, prev |-> 0]
ItemsAt(p) == [what |-> "items", p |-> p, prev |-> 0]
EntriesAt(p, prev) == [what |-> "entries", p |-> p, prev |-> prev]

Skip(b) ==
  LET skip[c \in Calls] ==
        IF c.what = "value" THEN
          CASE At(b, c.p, "s") \/ At(b, c.p, "i") -> c.p + 1
            [] At(b, c.p, "l") -> skip[ItemsAt(c.p + 1)]
            [] At(b, c.p, "d") -> skip[EntriesAt(c.p + 1, 0)]
            [] OTHER -> Error
        ELSE IF At(b, c.p, "e") THEN c.p + 1
        ELSE IF c.what = "items" THEN
          LET q == skip[ValueAt(c.p)] IN IF q = Error THEN Error ELSE skip[ItemsAt(q)]
        ELSE IF ~NextKey(b, c.p, c.prev) THEN Error
        ELSE LET q == skip[ValueAt(c.p + 1)]
             IN IF q = Error THEN Error ELSE skip[EntriesAt(q, Rank[b[c.p].v])]
  IN skip

SkipValue(b, p) == Skip(b)[ValueAt(p)]
SkipEntries(b, p, prev) == Skip(b)[EntriesAt(p, prev)]

(***************************************************************************)
(* try_next_dict_entry: the position behind the key if it is found, else   *)
(* the position of the first entry behind where it belongs, or of the end  *)
(* of the dictionary; the skipped entries are those from p to "to" - 1.    *)
(***************************************************************************)
Places == [p : Nat, prev : Nat]
PlaceAt(p, prev) == [p |-> p, prev |-> prev]

TryNext(b, p, search, prev) ==
  LET try[k \in Places] ==
        IF At(b, k.p, "e") THEN [found |-> FALSE, pos |-> k.p, to |-> k.p]
        ELSE IF ~NextKey(b, k.p, k.prev) THEN [found |-> FALSE, pos |-> Error, to |-> k.p]
        ELSE IF Rank[b[k.p].v] = Rank[search] THEN [found |-> TRUE, pos |-> k.p + 1, to |-> k.p]
        ELSE IF Rank[b[k.p].v] > Rank[search] THEN [found |-> FALSE, pos |-> k.p, to |-> k.p]
        ELSE LET from(q) == IF q = Error THEN [found |-> FALSE, pos |-> Error, to |-> k.p]
                            ELSE try[PlaceAt(q, Rank[b[k.p].v])]
             IN from(SkipValue(b, k.p + 1))
  IN try[PlaceAt(p, prev)]

(***************************************************************************)
(* parse_announce_list: the position behind it and its groups.  The loop   *)
(* over a group ("open") lies within the loop over the groups.  A string   *)
(* where a list is expected joins the group before it.                     *)
(***************************************************************************)
Join(groups, s) ==
  IF groups = <<>> THEN <<<<s>>>>
  ELSE [groups EXCEPT ![Len(groups)] = Append(@, s)]

NoList == [pos |-> Error, list |-> <<>>]

Lists == [p : Nat, open : BOOLEAN, groups : Seq(Seq(Str))]
ListFrom(p, open, groups) == [p |-> p, open |-> open, groups |-> groups]

ParseGroups(b, p) ==
  LET parse[l \in Lists] ==
        IF At(b, l.p, "e") THEN
          IF l.open THEN parse[ListFrom(l.p + 1, FALSE, l.groups)]
          ELSE [pos |-> l.p + 1, list |-> l.groups]
        ELSE IF At(b, l.p, "l") /\ ~l.open THEN
          parse[ListFrom(l.p + 1, TRUE, Append(l.groups, <<>>))]
        ELSE IF ReadUtf8(b, l.p) = Error THEN NoList
        ELSE parse[ListFrom(l.p + 1, l.open, Join(l.groups, b[l.p].v))]
  IN parse[ListFrom(p, FALSE, <<>>)]

ParseAnnounceList(b, p) ==
  IF At(b, p, "l") THEN ParseGroups(b, p + 1)
  ELSE IF ReadUtf8(b, p) = Error THEN NoList
  ELSE [pos |-> p + 1, list |-> <<<<b[p].v>>>>]

-----------------------------------------------------------------------------
(***************************************************************************)
(* What the parser is compared with, the grammar of bencoding: the n       *)
(* tokens from position p on are a value, or values one behind the other,  *)
(* or entries of a dictionary, whose keys are valid utf-8 and ascend from  *)
(* above rank prev.                                                        *)
(***************************************************************************)
Spans == [what : {"value", "items", "entries"}, p : Nat, n : Nat, prev : Nat]
Span(what, p, n, prev) == [what |-> what, p |-> p, n |-> n, prev |-> prev]

Grammar(b) ==
  LET is[s \in Spans] ==
        IF s.what = "value" THEN
          \/ s.n = 1 /\ (At(b, s.p, "s") \/ At(b, s.p, "i"))
          \/ /\ s.n > 1 /\ At(b, s.p + s.n - 1, "e")
             /\ \/ At(b, s.p, "l") /\ is[Span("items", s.p + 1, s.n - 2, 0)]
                \/ At(b, s.p, "d") /\ is[Span("entries", s.p + 1, s.n - 2, 0)]
        ELSE IF s.n = 0 THEN TRUE
        ELSE IF s.what = "items" THEN
          \E m \in 1..s.n : /\ is[Span("value", s.p, m, 0)]
                            /\ is[Span("items", s.p + m, s.n - m, 0)]
        ELSE
          /\ At(b, s.p, "s") /\ b[s.p].v \in Utf8 /\ Rank[b[s.p].v] > s.prev
          /\ \E m \in 1..(s.n - 1) :
               /\ is[Span("value", s.p + 1, m, 0)]
               /\ is[Span("entries", s.p + 1 + m, s.n - 1 - m, Rank[b[s.p].v])]
  IN is

\* The n tokens from p on are one value.
IsValue(b, p, n) == Grammar(b)[Span("value", p, n, 0)]
=============================================================================
