------------------------------- MODULE Parser -------------------------------
(***************************************************************************)
(* One call of the parser on a buffer: skip_value (src/src/torrentbase.cpp)*)
(* or parse_info (src/src/torrent.cpp).                                    *)
(***************************************************************************)
EXTENDS TorrentInfo

\* goal: the function called; strict: the option -v; end: where it stops
VARIABLES goal, buffer, strict, end, state

callvars == <<goal, buffer, strict, end, state>>

CallInit ==
  /\ goal \in {"skip_value", "parse_info"}
  /\ buffer \in Seq(Token) /\ strict \in BOOLEAN
  /\ end = Error /\ state = "called"

Call ==
  /\ state = "called"
  /\ end' = IF goal = "skip_value" THEN SkipValue(buffer, 1) ELSE ParseInfo(buffer, 1, strict)
  /\ state' = "returned"
  /\ UNCHANGED <<goal, buffer, strict>>

CallSpec == CallInit /\ [][Call]_callvars

-----------------------------------------------------------------------------
(***************************************************************************)
(* skip_value accepts a buffer that begins with a value of the grammar     *)
(* (dictionary keys valid utf-8, not empty, strictly ascending), stops     *)
(* right behind that value, and rejects every other buffer.                *)
(***************************************************************************)
SkipsExactlyOneValue ==
  state = "returned" /\ goal = "skip_value" =>
    \E ends \in {{n \in 1..Len(buffer) : IsValue(buffer, 1, n)}} :
       IF ends = {} THEN end = Error ELSE ends = {end - 1}

(***************************************************************************)
(* parse_info stops where skip_value does, if it accepts the info.  So the *)
(* info whose hash Torrent has is the same as that of TorrentAnnounceInfo, *)
(* which skips it, and is followed by the next entry of the torrent.       *)
(***************************************************************************)
InfoIsOneValue ==
  state = "returned" /\ goal = "parse_info" /\ end # Error => end = SkipValue(buffer, 1)
=============================================================================
