---------------------------- MODULE TorrentInfo ----------------------------
(***************************************************************************)
(* What Torrent::load makes sure of in the info dictionary: parse_info and *)
(* its parts (src/src/torrent.cpp).  It looks up the keys it knows in the  *)
(* order they must have, skipping what lies between them.                  *)
(***************************************************************************)
EXTENDS Bencode

CONSTANTS
  Negative,  \* the numbers below 0
  Pieces     \* the strings whose length is a multiple of 20

ASSUME InfoAssumption ==
  /\ Negative \subseteq Number /\ Pieces \subseteq Str
  /\ {"", "files", "length", "name", "path", "piece length", "pieces", "private"} \subseteq Str
  /\ Rank[""] = 0

ReadLength(b, p) ==
  IF At(b, p, "i") /\ b[p].v \in Negative THEN Error ELSE ReadNumber(b, p)

ReadPieces(b, p) ==
  IF At(b, p, "s") /\ b[p].v \notin Pieces THEN Error ELSE ReadString(b, p)

ReadFlag(b, p) ==
  IF At(b, p, "i") /\ b[p].v \notin {"0", "1"} THEN Error ELSE ReadNumber(b, p)

\* Names and path components: m_check_info_utf8 is the option -v.
ReadInfoUtf8(b, p, check) == IF check THEN ReadUtf8(b, p) ELSE ReadString(b, p)

\* The loops over a path and over the files: each item is read as said.
EachItem(b, p, read) ==
  LET each[n \in Nat] ==
        IF At(b, n, "e") THEN n + 1
        ELSE IF read[n] = Error THEN Error ELSE each[read[n]]
  IN each[p]

ParsePath(b, p, check) ==
  IF At(b, p, "l") THEN EachItem(b, p + 1, [n \in Nat |-> ReadInfoUtf8(b, n, check)]) ELSE Error

\* A value of one of the kinds that are asked for, with and without -v.
ReadAs(b, p, kind, check) ==
  CASE kind = "number" -> ReadNumber(b, p)
    [] kind = "length" -> ReadLength(b, p)
    [] kind = "pieces" -> ReadPieces(b, p)
    [] kind = "flag" -> ReadFlag(b, p)
    [] kind = "name" -> ReadInfoUtf8(b, p, check)
    [] kind = "path" -> ParsePath(b, p, check)

\* The value of a key is read if the key is there, and must be well formed.
Optional(b, p, key, prev, kind, check) ==
  LET value(entry) == IF entry.found THEN ReadAs(b, entry.pos, kind, check) ELSE entry.pos
  IN value(TryNext(b, p, key, Rank[prev]))

Required(b, p, key, prev, kind, check) ==
  LET value(entry) == IF entry.found THEN ReadAs(b, entry.pos, kind, check) ELSE Error
  IN value(TryNext(b, p, key, Rank[prev]))

ParseFile(b, p, check) ==
  LET length == Required(b, p + 1, "length", "", "length", check)
      path == Required(b, length, "path", "length", "path", check)
  IN IF At(b, p, "d") THEN SkipEntries(b, path, Rank["path"]) ELSE Error

\* An empty list of files is refused.
ParseFiles(b, p, check) ==
  IF At(b, p, "l") /\ ~At(b, p + 1, "e")
  THEN EachItem(b, p + 1, [n \in Nat |-> ParseFile(b, n, check)]) ELSE Error

\* Mutant: nobody looks for the end of the dictionary.
ParseDetailsOpen(b, content, prev, check) ==
  LET name == Optional(b, content, "name", prev, "name", check)
      piece == Required(b, name, "piece length", "name", "number", check)
      pieces == Required(b, piece, "pieces", "piece length", "pieces", check)
  IN Optional(b, pieces, "private", "pieces", "flag", check)

\* The entries from "files" or "length" on; content ends behind that one.
ParseDetails(b, content, prev, check) ==
  LET name == Optional(b, content, "name", prev, "name", check)
      piece == Required(b, name, "piece length", "name", "number", check)
      pieces == Required(b, piece, "pieces", "piece length", "pieces", check)
      private == Optional(b, pieces, "private", "pieces", "flag", check)
  IN SkipEntries(b, private, Rank["private"])

\* Mutant: a torrent with files must have a length too.
ParseInfoBoth(b, p, check) ==
  LET files == TryNext(b, p + 1, "files", 0)
      past == IF files.found THEN ParseFiles(b, files.pos, check) ELSE files.pos
  IN IF ~At(b, p, "d") THEN Error
     ELSE ParseDetails(b, Required(b, past, "length", "files", "number", check),
                       "length", check)

\* The length of a single file may be negative, those of "files" may not.
ParseInfo(b, p, check) ==
  LET files == TryNext(b, p + 1, "files", 0)
  IN IF ~At(b, p, "d") THEN Error
     ELSE IF files.found
     THEN ParseDetails(b, ParseFiles(b, files.pos, check), "files", check)
     ELSE ParseDetails(b, Required(b, files.pos, "length", "files", "number", check),
                       "length", check)
=============================================================================
