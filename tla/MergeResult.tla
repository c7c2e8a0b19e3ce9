---------------------------- MODULE MergeResult ----------------------------
(***************************************************************************)
(* What torrent-merge makes of the announce urls it collects, as sets of   *)
(* urls: AnnounceList and FilterUrl have the order, the groups and the     *)
(* filter itself.                                                          *)
(***************************************************************************)
CONSTANTS
  Url,      \* the urls in torrents, cleaned or not
  Filter,   \* filterUrl, as the set of its results
  Extra,    \* the "+" urls of the filter file
  Dht,      \* the url of a torrent without trackers
  Proc,     \* runs of torrent-merge on one destination
  Source,   \* the files named as source torrents
  Sources,  \* the source torrents of each run, in order
  UrlsIn,   \* the announce urls of a source
  Invalid   \* the sources that cannot be loaded

ASSUME MergeAssumption ==
  /\ Filter \in [Url -> SUBSET Url]
  /\ Extra \subseteq Url
  /\ Dht \in Url /\ Filter[Dht] = {}
  /\ UrlsIn \in [Source -> SUBSET Url] /\ Invalid \subseteq Source

Filtered(us) == UNION {Filter[u] : u \in us}

\* A torrent without any url that passes gets the dht url.
OrDht(us) == IF us = {} THEN {Dht} ELSE us

\* The sources of p can all be loaded.
Loadable(p) == \A n \in DOMAIN Sources[p] : Sources[p][n] \notin Invalid

\* The announce urls of a destination with urls us after the run p.
Merged(us, p) ==
  OrDht(Filtered(Extra) \cup Filtered(us)
          \cup Filtered(UNION {UrlsIn[Sources[p][n]] : n \in DOMAIN Sources[p]}))
=============================================================================
