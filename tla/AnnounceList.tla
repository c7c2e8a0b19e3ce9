---------------------------- MODULE AnnounceList ----------------------------
(***************************************************************************)
(* Collecting the announce urls of several torrents into groups, one group *)
(* per domain: class AnnounceList (src/src/torrentbase.h), as it is driven *)
(* by torrent-merge and by TorrentBase::sanitize_announce_urls.            *)
(*                                                                         *)
(* The driver feeds two sequences of raw urls: the "+" urls of the filter  *)
(* file (force_merge) and then the urls of the torrents (merge: announce   *)
(* first, then announce-list in order).  filterUrl is the function FilterUrl *)
(* here; the module FilterUrl models how it is computed.                   *)
(***************************************************************************)
EXTENDS Naturals, Sequences

CONSTANTS
  Raw,         \* urls as they are written in files
  Url,         \* cleaned urls: AnnounceUrl.url
  Domain,      \* domain and tld of a url: AnnounceUrl.domain
  DomainOf,    \* the domain of a cleaned url (equal urls have equal domains)
  Clean,       \* basicUrlCleaner: a cleaned url, or NoUrl when it refuses
  FilterUrl,   \* filterUrl: the cleaned urls a raw url is turned into
  Dht, NoUrl,  \* the url "dht://<infohash>"; "no url"
  ExtraLists,  \* the additional_announce_urls considered
  FileLists    \* the urls of the torrents considered

ASSUME ConstantsAssumption ==
  /\ DomainOf \in [Url -> Domain]
  /\ Clean \in [Raw -> Url \cup {NoUrl}]
  /\ FilterUrl \in [Raw -> Seq(Url)]
  /\ Dht \notin Url /\ NoUrl \notin Url
  /\ ExtraLists \subseteq Seq(Raw)
  /\ FileLists \subseteq Seq(Raw)

VARIABLES
  extra, files,            \* the input: "+" urls; urls of the torrents
  i,                       \* next position of extra \o files to merge
  annurls, k,              \* result of filterUrl; next position of it to add
  list,                    \* AnnounceList::list, a sequence of groups
  index,                   \* AnnounceList::m_index; 0 for a domain without entry
  announce, announceList,  \* t_announce and t_announce_list of the result
  pc

vars == <<extra, files, i, annurls, k, list, index, announce, announceList, pc>>

Input == extra \o files

TypeOK ==
  /\ extra \in Seq(Raw) /\ files \in Seq(Raw)
  /\ i \in 1..(Len(Input) + 1)
  /\ annurls \in Seq(Url) /\ k \in 1..(Len(annurls) + 1)
  /\ list \in Seq(Seq(Url))
  /\ index \in [Domain -> 0..Len(list)]
  /\ announce \in Url \cup {Dht, NoUrl}
  /\ announceList \in Seq(Seq(Url))
  /\ pc \in {"merge", "add", "done"}

Init ==
  /\ extra \in ExtraLists /\ files \in FileLists
  /\ i = 1 /\ annurls = <<>> /\ k = 1
  /\ list = <<>> /\ index = [d \in Domain |-> 0]
  /\ announce = NoUrl /\ announceList = <<>>
  /\ pc = "merge"

\* Mutant: only the first result of filterUrl is added.
MergeFirst(raw) ==
  /\ annurls' = IF FilterUrl[raw] = <<>> THEN <<>> ELSE <<Head(FilterUrl[raw])>>
  /\ k' = 1
  /\ i' = i + 1
  /\ pc' = "add"
  /\ UNCHANGED <<extra, files, list, index, announce, announceList>>

\* AnnounceList::merge(url): everything filterUrl makes of it will be added.
Merge(raw) ==
  /\ annurls' = FilterUrl[raw] /\ k' = 1
  /\ i' = i + 1
  /\ pc' = "add"
  /\ UNCHANGED <<extra, files, list, index, announce, announceList>>

\* force_merge(urllist): its loop calls merge, not force_merge, on each url.
ForceMergeNext ==
  /\ pc = "merge" /\ i <= Len(extra)
  /\ Merge(extra[i])

\* merge(torrent): t_announce, then the urls of t_announce_list.
MergeNext ==
  /\ pc = "merge" /\ Len(extra) < i /\ i <= Len(Input)
  /\ Merge(files[i - Len(extra)])

\* Mutant: the position is taken after the new group has been appended.
AddGroupLate(u) ==
  /\ index[DomainOf[u]] \notin 1..Len(list)
  /\ index' = [index EXCEPT ![DomainOf[u]] = IF @ = 0 THEN Len(list) + 2 ELSE @]
  /\ list' = Append(list, <<u>>)

\* add(domain, url) when the domain has no group yet: a group of its own.
\* m_index.insert leaves an entry that is already there as it is.
AddGroup(u) ==
  /\ index[DomainOf[u]] \notin 1..Len(list)
  /\ index' = [index EXCEPT ![DomainOf[u]] = IF @ = 0 THEN Len(list) + 1 ELSE @]
  /\ list' = Append(list, <<u>>)

\* Mutant: the url is not looked for in the group.
AddAgain(u) ==
  LET g == index[DomainOf[u]] IN
  /\ g \in 1..Len(list)
  /\ list' = [list EXCEPT ![g] = Append(@, u)]
  /\ UNCHANGED index

\* add(domain, url) when it has one: appended unless it is there already.
AddToGroup(u) ==
  LET g == index[DomainOf[u]] IN
  /\ g \in 1..Len(list)
  /\ list' = IF \E m \in 1..Len(list[g]) : list[g][m] = u
             THEN list
             ELSE [list EXCEPT ![g] = Append(@, u)]
  /\ UNCHANGED index

AddNext ==
  /\ pc = "add" /\ k <= Len(annurls)
  /\ AddGroup(annurls[k]) \/ AddToGroup(annurls[k])
  /\ k' = k + 1
  /\ UNCHANGED <<extra, files, i, annurls, announce, announceList, pc>>

EndAdd ==
  /\ pc = "add" /\ k > Len(annurls)
  /\ pc' = "merge"
  /\ UNCHANGED <<extra, files, i, annurls, k, list, index, announce, announceList>>

\* Mutant: the primary tracker is taken from the last group.
FinishLast ==
  /\ pc = "merge" /\ i > Len(Input)
  /\ announce' = IF list = <<>> THEN Dht ELSE list[Len(list)][1]
  /\ announceList' = list
  /\ pc' = "done"
  /\ UNCHANGED <<extra, files, i, annurls, k, list, index>>

\* The new announce keys: the first url is the primary tracker; a torrent
\* left without any url gets the dht url and no announce-list.
Finish ==
  /\ pc = "merge" /\ i > Len(Input)
  /\ announce' = IF list = <<>> THEN Dht ELSE list[1][1]
  /\ announceList' = list
  /\ pc' = "done"
  /\ UNCHANGED <<extra, files, i, annurls, k, list, index>>

Next == ForceMergeNext \/ MergeNext \/ AddNext \/ EndAdd \/ Finish

Spec == Init /\ [][Next]_vars

-----------------------------------------------------------------------------
\* The urls in the list.
Listed == {u \in Url : \E g \in 1..Len(list) : \E m \in 1..Len(list[g]) : list[g][m] = u}

\* The number of inputs merged completely.
Complete == IF pc = "add" THEN i - 2 ELSE i - 1

\* What filterUrl has made of the inputs merged so far.
MergedSoFar ==
  {u \in Url : \/ \E j \in 1..Complete : \E n \in 1..Len(FilterUrl[Input[j]]) :
                    FilterUrl[Input[j]][n] = u
               \/ pc = "add" /\ \E n \in 1..(k - 1) : annurls[n] = u}

\* Input j is the first one filterUrl lets anything of pass.
FirstPassing(j) ==
  /\ FilterUrl[Input[j]] # <<>>
  /\ \A n \in 1..(j - 1) : FilterUrl[Input[n]] = <<>>

(***************************************************************************)
(* The groups partition the urls by domain: no group is empty (list[0][0]  *)
(* exists whenever the drivers read it), two urls are in one group exactly *)
(* if they have one domain, and no url is listed twice.                    *)
(***************************************************************************)
WellGrouped ==
  /\ \A g \in 1..Len(list) : list[g] # <<>>
  /\ \A g, h \in 1..Len(list) : \A m \in 1..Len(list[g]), n \in 1..Len(list[h]) :
       DomainOf[list[g][m]] = DomainOf[list[h][n]] <=> g = h
  /\ \A g \in 1..Len(list) : \A m, n \in 1..Len(list[g]) :
       list[g][m] = list[g][n] => m = n

(***************************************************************************)
(* Merging neither loses nor invents a url: at every point of the loops    *)
(* the list holds exactly what filterUrl made of the inputs passed so far. *)
(***************************************************************************)
MergedExactly == Listed = MergedSoFar

(***************************************************************************)
(* "the first added tracker will become the primary" (url-filter.example): *)
(* the result announces the first url that passes the filter, "+" urls     *)
(* before those of the torrents, and the dht url if and only if none does. *)
(***************************************************************************)
FirstBecomesPrimary ==
  pc = "done" =>
    \/ /\ announce = Dht /\ announceList = <<>>
       /\ \A j \in 1..Len(Input) : FilterUrl[Input[j]] = <<>>
    \/ \E j \in 1..Len(Input) :
         /\ FirstPassing(j)
         /\ announce = FilterUrl[Input[j]][1]
         /\ announceList # <<>> /\ announce = announceList[1][1]

(***************************************************************************)
(* The filter file's own documentation: "+" lines "contain tracker urls    *)
(* which are always added" (url-filter.example:11).                        *)
(***************************************************************************)
AlwaysAdded ==
  pc = "done" => \A j \in 1..Len(extra) :
                   Clean[extra[j]] # NoUrl => Clean[extra[j]] \in Listed
=============================================================================
