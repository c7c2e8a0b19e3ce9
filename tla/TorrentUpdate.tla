--------------------------- MODULE TorrentUpdate ---------------------------
(***************************************************************************)
(* Runs of torrent-merge that update one destination file at the same time *)
(* (main of src/src/torrent-merge.cpp, Buffer::load, writeAtomicFile of    *)
(* src/src/utils.cpp), on a file system of directory entries and inodes.   *)
(*                                                                         *)
(* The destination is mapped into memory, not read: the run sees whatever  *)
(* the mapped inode holds, until it exits.  The new contents are written   *)
(* to a temporary file, which is then renamed over the destination.        *)
(* README.md tells the caller to take a lock around the run; Lockers are   *)
(* the runs whose callers do.                                              *)
(***************************************************************************)
EXTENDS MergeResult, Naturals, Sequences, FiniteSets

CONSTANTS
  Initial,        \* the urls the destination may have at first
  Dest, TmpName,  \* the destination; the names mkstemp can choose
  Inode,          \* the inodes of the file system
  None,           \* no inode, no process, no name
  Full,           \* the length of a complete file, in flushes of the stream
  Lockers,        \* the runs that lock the info hash as README.md advises
  DiskFull        \* a write to a file may fail

ASSUME UpdateAssumption ==
  /\ Sources \in [Proc -> Seq(Source)]
  /\ Initial \subseteq SUBSET Url
  /\ Dest \notin TmpName
  /\ None \notin Inode /\ None \notin Proc /\ None \notin TmpName
  /\ Full \in Nat \ {0}
  /\ Lockers \subseteq Proc /\ DiskFull \in BOOLEAN

VARIABLES
  dir,        \* directory: the inode of each name, None if there is no such file
  file,       \* the contents and the mode of each inode
  lock,       \* the process that has the lock of the info hash
  pc,
  map,        \* the inode Buffer::load has mapped (dest.m_buffer)
  ann,        \* the urls collected (AnnounceList)
  src,        \* next source to merge
  tmp, fd,    \* tmpfname; the inode mkstemp has opened
  os,         \* the inode the stream writes to
  published   \* history: the processes that have renamed their file

vars == <<dir, file, lock, pc, map, ann, src, tmp, fd, os, published>>

Terminated == {"ok", "failed", "crashed"}

\* A process that has created its temporary file and not yet renamed it.
Writing(p) == pc[p] \in {"stream", "write", "chmod", "rename"}

File == [urls : SUBSET Url, len : 0..Full, public : BOOLEAN]

TypeOK ==
  /\ dir \in [{Dest} \cup TmpName -> Inode \cup {None}]
  /\ file \in [Inode -> File]
  /\ lock \in Proc \cup {None}
  /\ pc \in [Proc -> {"lock", "open", "parse", "sources", "mkstemp", "stream",
                      "write", "chmod", "rename", "exit"} \cup Terminated]
  /\ map \in [Proc -> Inode \cup {None}]
  /\ ann \in [Proc -> SUBSET Url]
  /\ src \in [Proc -> Nat \ {0}]
  /\ tmp \in [Proc -> TmpName \cup {None}]
  /\ fd \in [Proc -> Inode \cup {None}]
  /\ os \in [Proc -> Inode \cup {None}]
  /\ published \subseteq Proc

Init ==
  /\ \E i \in Inode, us \in Initial :
       /\ dir = [n \in {Dest} \cup TmpName |-> IF n = Dest THEN i ELSE None]
       /\ file = [j \in Inode |-> IF j = i THEN [urls |-> us, len |-> Full, public |-> TRUE]
                                  ELSE [urls |-> {}, len |-> 0, public |-> FALSE]]
  /\ lock = None
  /\ pc = [p \in Proc |-> "lock"]
  /\ map = [p \in Proc |-> None]
  /\ ann = [p \in Proc |-> {}]
  /\ src = [p \in Proc |-> 1]
  /\ tmp = [p \in Proc |-> None]
  /\ fd = [p \in Proc |-> None]
  /\ os = [p \in Proc |-> None]
  /\ published = {}

Goto(p, l) == pc' = [pc EXCEPT ![p] = l]

\* Mutant: the lock is left behind by a run that fails.
EndLocked(p, how) ==
  /\ Goto(p, how)
  /\ map' = [map EXCEPT ![p] = None]
  /\ fd' = [fd EXCEPT ![p] = None]
  /\ os' = [os EXCEPT ![p] = None]
  /\ lock' = IF lock = p /\ how # "failed" THEN None ELSE lock
  /\ UNCHANGED <<dir, file, ann, src, tmp, published>>

\* The process is gone: its mapping, its descriptors and its lock are, too.
End(p, how) ==
  /\ Goto(p, how)
  /\ map' = [map EXCEPT ![p] = None]
  /\ fd' = [fd EXCEPT ![p] = None]
  /\ os' = [os EXCEPT ![p] = None]
  /\ lock' = IF lock = p THEN None ELSE lock
  /\ UNCHANGED <<dir, file, ann, src, tmp, published>>

Lock(p) ==
  /\ pc[p] = "lock"
  /\ IF p \in Lockers THEN lock = None /\ lock' = p ELSE UNCHANGED lock
  /\ Goto(p, "open")
  /\ UNCHANGED <<dir, file, map, ann, src, tmp, fd, os, published>>

\* Buffer::load(dest): open and mmap.  "+" urls come first.
OpenDest(p) ==
  /\ pc[p] = "open" /\ dir[Dest] # None
  /\ map' = [map EXCEPT ![p] = dir[Dest]]
  /\ Goto(p, "parse")
  /\ UNCHANGED <<dir, file, lock, ann, src, tmp, fd, os, published>>

OpenFails(p) == pc[p] = "open" /\ End(p, "failed")

\* Mutants: list.merge(dest), list.force_merge(...) missing.
DestNotMerged(p) ==
  /\ pc[p] = "parse" /\ file[map[p]].len = Full
  /\ ann' = [ann EXCEPT ![p] = Filtered(Extra)]
  /\ Goto(p, "sources")
  /\ UNCHANGED <<dir, file, lock, map, src, tmp, fd, os, published>>
ExtraNotMerged(p) ==
  /\ pc[p] = "parse" /\ file[map[p]].len = Full
  /\ ann' = [ann EXCEPT ![p] = Filtered(file[map[p]].urls)]
  /\ Goto(p, "sources")
  /\ UNCHANGED <<dir, file, lock, map, src, tmp, fd, os, published>>

\* TorrentAnnounceInfo::load reads the mapped file; an incomplete one does
\* not parse.
ParseDest(p) ==
  /\ pc[p] = "parse" /\ file[map[p]].len = Full
  /\ ann' = [ann EXCEPT ![p] = Filtered(Extra) \cup Filtered(file[map[p]].urls)]
  /\ Goto(p, "sources")
  /\ UNCHANGED <<dir, file, lock, map, src, tmp, fd, os, published>>

ParseFails(p) ==
  /\ pc[p] = "parse" /\ file[map[p]].len # Full
  /\ End(p, "failed")

MergeSource(p) ==
  /\ pc[p] = "sources" /\ src[p] <= Len(Sources[p])
  /\ Sources[p][src[p]] \notin Invalid
  /\ ann' = [ann EXCEPT ![p] = @ \cup Filtered(UrlsIn[Sources[p][src[p]]])]
  /\ src' = [src EXCEPT ![p] = @ + 1]
  /\ UNCHANGED <<dir, file, lock, pc, map, tmp, fd, os, published>>

SourceFails(p) ==
  /\ pc[p] = "sources" /\ src[p] <= Len(Sources[p])
  /\ Sources[p][src[p]] \in Invalid
  /\ End(p, "failed")

EndSources(p) ==
  /\ pc[p] = "sources" /\ src[p] > Len(Sources[p])
  /\ ann' = [ann EXCEPT ![p] = OrDht(@)]
  /\ Goto(p, "mkstemp")
  /\ UNCHANGED <<dir, file, lock, map, src, tmp, fd, os, published>>

\* An inode no name, no mapping and no descriptor refers to.
Free(i) ==
  /\ \A n \in {Dest} \cup TmpName : dir[n] # i
  /\ \A q \in Proc : map[q] # i /\ fd[q] # i /\ os[q] # i

\* Mutant: one fixed temporary name for all, open(O_CREAT | O_TRUNC).
FixedTemp(p) ==
  /\ pc[p] = "mkstemp"
  /\ \E i \in Inode : LET n == CHOOSE m \in TmpName : TRUE IN
       /\ dir[n] = i \/ (dir[n] = None /\ Free(i))
       /\ dir' = [dir EXCEPT ![n] = i]
       /\ file' = [file EXCEPT ![i] = [urls |-> {}, len |-> 0, public |-> FALSE]]
       /\ tmp' = [tmp EXCEPT ![p] = n]
       /\ fd' = [fd EXCEPT ![p] = i]
  /\ Goto(p, "stream")
  /\ UNCHANGED <<lock, map, ann, src, os, published>>

\* mkstemp creates a file of its own, readable by the owner alone.
Mkstemp(p) ==
  /\ pc[p] = "mkstemp"
  /\ \E n \in TmpName, i \in Inode :
       /\ dir[n] = None /\ Free(i)
       /\ dir' = [dir EXCEPT ![n] = i]
       /\ file' = [file EXCEPT ![i] = [urls |-> {}, len |-> 0, public |-> FALSE]]
       /\ tmp' = [tmp EXCEPT ![p] = n]
       /\ fd' = [fd EXCEPT ![p] = i]
  /\ Goto(p, "stream")
  /\ UNCHANGED <<lock, map, ann, src, os, published>>

\* writeAtomicFile returns false; main does not look at the result.
MkstempFails(p) ==
  /\ pc[p] = "mkstemp"
  /\ Goto(p, "exit")
  /\ UNCHANGED <<dir, file, lock, map, ann, src, tmp, fd, os, published>>

\* Mutant: the destination is written in place.
OpenInPlace(p) ==
  /\ pc[p] = "stream" /\ dir[tmp[p]] # None
  /\ os' = [os EXCEPT ![p] = dir[Dest]]
  /\ file' = [file EXCEPT ![dir[Dest]] =
                [urls |-> ann[p], len |-> 0, public |-> @.public]]
  /\ Goto(p, "write")
  /\ UNCHANGED <<dir, lock, map, ann, src, tmp, fd, published>>

\* The stream opens the file by its name, and truncates it.  From here on
\* urls are those of the finished file, of which len flushes are written.
OpenStream(p) ==
  /\ pc[p] = "stream" /\ dir[tmp[p]] # None
  /\ os' = [os EXCEPT ![p] = dir[tmp[p]]]
  /\ file' = [file EXCEPT ![dir[tmp[p]]] =
                [urls |-> ann[p], len |-> 0, public |-> @.public]]
  /\ Goto(p, "write")
  /\ UNCHANGED <<dir, lock, map, ann, src, tmp, fd, published>>

\* The temporary file stays.
OpenStreamFails(p) ==
  /\ pc[p] = "stream"
  /\ fd' = [fd EXCEPT ![p] = None]
  /\ Goto(p, "exit")
  /\ UNCHANGED <<dir, file, lock, map, ann, src, tmp, os, published>>

\* Mutant: off by one.
FlushTooMuch(p) ==
  /\ pc[p] = "write" /\ file[os[p]].len <= Full
  /\ file' = [file EXCEPT ![os[p]] =
                [urls |-> @.urls, len |-> @.len + 1, public |-> @.public]]
  /\ UNCHANGED <<dir, lock, pc, map, ann, src, tmp, fd, os, published>>

Flush(p) ==
  /\ pc[p] = "write" /\ file[os[p]].len < Full
  /\ file' = [file EXCEPT ![os[p]] =
                [urls |-> @.urls, len |-> @.len + 1, public |-> @.public]]
  /\ UNCHANGED <<dir, lock, pc, map, ann, src, tmp, fd, os, published>>

\* A failed write makes the stream bad and the rest of the output vanishes;
\* writeAtomicFile does not ask the stream.
FlushFails(p) ==
  /\ DiskFull
  /\ pc[p] = "write" /\ file[os[p]].len < Full
  /\ os' = [os EXCEPT ![p] = None]
  /\ Goto(p, "chmod")
  /\ UNCHANGED <<dir, file, lock, map, ann, src, tmp, fd, published>>

\* Mutant: what the stream has buffered is written after the rename.
CloseEarly(p) ==
  /\ pc[p] = "write"
  /\ os' = [os EXCEPT ![p] = None]
  /\ Goto(p, "chmod")
  /\ UNCHANGED <<dir, file, lock, map, ann, src, tmp, fd, published>>

CloseStream(p) ==
  /\ pc[p] = "write" /\ file[os[p]].len = Full
  /\ os' = [os EXCEPT ![p] = None]
  /\ Goto(p, "chmod")
  /\ UNCHANGED <<dir, file, lock, map, ann, src, tmp, fd, published>>

\* fchmod(fd, 0644) and close(fd).
Chmod(p) ==
  /\ pc[p] = "chmod"
  /\ file' = [file EXCEPT ![fd[p]] =
                [urls |-> @.urls, len |-> @.len, public |-> TRUE]]
  /\ fd' = [fd EXCEPT ![p] = None]
  /\ Goto(p, "rename")
  /\ UNCHANGED <<dir, lock, map, ann, src, tmp, os, published>>

\* Mutant: the destination is linked to the temporary file, which stays.
LinkOver(p) ==
  /\ pc[p] = "rename" /\ dir[tmp[p]] # None
  /\ dir' = [dir EXCEPT ![Dest] = dir[tmp[p]]]
  /\ published' = published \cup {p}
  /\ Goto(p, "exit")
  /\ UNCHANGED <<file, lock, map, ann, src, tmp, fd, os>>

Rename(p) ==
  /\ pc[p] = "rename" /\ dir[tmp[p]] # None
  /\ dir' = [dir EXCEPT ![Dest] = dir[tmp[p]], ![tmp[p]] = None]
  /\ published' = published \cup {p}
  /\ Goto(p, "exit")
  /\ UNCHANGED <<file, lock, map, ann, src, tmp, fd, os>>

\* The temporary file stays here, too.
RenameFails(p) ==
  /\ pc[p] = "rename"
  /\ Goto(p, "exit")
  /\ UNCHANGED <<dir, file, lock, map, ann, src, tmp, fd, os, published>>

\* "return 0", whatever writeAtomicFile has returned.
Exit(p) == pc[p] = "exit" /\ End(p, "ok")

\* The process is killed (or ends in the missing return of the template
\* writeAtomicFile, which is undefined behaviour).
Crash(p) == pc[p] \notin Terminated /\ End(p, "crashed")

Step(p) ==
  \/ Lock(p) \/ OpenDest(p) \/ OpenFails(p) \/ ParseDest(p) \/ ParseFails(p)
  \/ MergeSource(p) \/ SourceFails(p) \/ EndSources(p)
  \/ Mkstemp(p) \/ MkstempFails(p) \/ OpenStream(p) \/ OpenStreamFails(p)
  \/ Flush(p) \/ FlushFails(p) \/ CloseStream(p) \/ Chmod(p)
  \/ Rename(p) \/ RenameFails(p) \/ Exit(p)

Next == \E p \in Proc : Step(p) \/ Crash(p)

Spec == Init /\ [][Next]_vars

\* The scheduler runs every process that can run.
Fairness == \A p \in Proc : WF_vars(Step(p))

-----------------------------------------------------------------------------
\* The destination as a reader finds it.
Published == file[dir[Dest]]

(***************************************************************************)
(* "Atomic updates" (README.md:15-16): whoever opens the destination, at   *)
(* any moment, finds a complete file that everybody may read.              *)
(***************************************************************************)
AlwaysComplete ==
  dir[Dest] # None /\ Published.len = Full /\ Published.public

(***************************************************************************)
(* Mapping a file "is dangerous if files are not updated atomically"       *)
(* (config.h:5): no step of any process changes an inode while somebody   *)
(* has it mapped.                                                          *)
(***************************************************************************)
MappedUnchanged ==
  \A p \in Proc : map[p] # None /\ map'[p] = map[p] => file'[map[p]] = file[map[p]]

MappedStable == [][MappedUnchanged]_vars

(***************************************************************************)
(* A temporary file has one owner, who can still rename it or has failed;  *)
(* a run that has published leaves none behind.                            *)
(***************************************************************************)
TempOwned ==
  /\ \A n \in TmpName : dir[n] # None => \E p \in Proc \ published : tmp[p] = n
  /\ \A p, q \in Proc : Writing(p) /\ Writing(q) /\ tmp[p] = tmp[q] => p = q

(***************************************************************************)
(* Every run comes to an end, whichever call fails or process dies: none   *)
(* waits forever for the lock.                                             *)
(***************************************************************************)
EveryRunEnds == \A p \in Proc : <>(pc[p] \in Terminated)

\* The announce urls a reader gets from the destination.
Announced == IF Published.len = Full THEN Published.urls ELSE {}

Shared == INSTANCE SharedTorrent WITH urls <- Announced, merged <- published

(***************************************************************************)
(* Runs that lock implement SharedTorrent: each merges its sources into    *)
(* the destination in one step or leaves the destination as it is.         *)
(***************************************************************************)
MergesAtomically == Shared!Spec

(***************************************************************************)
(* No lost update: the destination keeps the urls of every run that has    *)
(* published, which a run that began to read earlier could overwrite.      *)
(***************************************************************************)
NoLostUpdate == Shared!NothingLost
=============================================================================
