--------------------------- MODULE SharedTorrent ---------------------------
(***************************************************************************)
(* What the users of torrent-merge are promised when they follow README.md *)
(* ("sync modifications for an info hash", "atomic updates"): a run merges *)
(* the urls of its sources into the torrent in one step, or does nothing.  *)
(***************************************************************************)
EXTENDS MergeResult

CONSTANT Initial  \* the urls a torrent may have at first

VARIABLES
  urls,   \* the announce urls of the torrent
  merged  \* the runs that have merged theirs

Init == urls \in Initial /\ merged = {}

Merge(p) ==
  /\ p \notin merged /\ Loadable(p)
  /\ urls' = Merged(urls, p)
  /\ merged' = merged \cup {p}

Next == \E p \in Proc : Merge(p)

Spec == Init /\ [][Next]_<<urls, merged>>

(***************************************************************************)
(* What a run has merged stays: every url the filter made of its sources   *)
(* is in the torrent, if the filter lets it pass unchanged (the urls of    *)
(* the destination go through the filter again in every run).              *)
(***************************************************************************)
NothingLost ==
  \A p \in merged : \A n \in DOMAIN Sources[p] :
    \A u \in Filtered(UrlsIn[Sources[p][n]]) : Filter[u] = {u} => u \in urls
=============================================================================
