------------------------ MODULE TorrentUpdateProofs ------------------------
(***************************************************************************)
(* Proofs about TorrentUpdate, for any number of runs, names and inodes.   *)
(***************************************************************************)
EXTENDS TorrentUpdate, TLAPS

Loaded == {"parse", "sources", "mkstemp", "stream", "write", "chmod", "rename", "exit"}

-----------------------------------------------------------------------------
(***************************************************************************)
(* Names and inodes: what holds whatever fails, with or without the lock.  *)
(***************************************************************************)
NamesInv ==
  /\ dir[Dest] # None
  /\ \A n, m \in {Dest} \cup TmpName : dir[n] = dir[m] /\ dir[n] # None => n = m

WriterInv ==
  \A p \in Proc :
    /\ Writing(p) => tmp[p] \in TmpName /\ dir[tmp[p]] # None
    /\ pc[p] \in {"stream", "write", "chmod"} => fd[p] = dir[tmp[p]]
    /\ pc[p] = "write" => os[p] = dir[tmp[p]]
    /\ pc[p] \in {"lock", "open", "parse", "sources", "mkstemp"} => tmp[p] = None
    /\ pc[p] \in {"lock", "open", "parse", "sources", "mkstemp"} \/ Writing(p)
         => p \notin published

MapInv ==
  \A p \in Proc :
    /\ pc[p] \in Loaded <=> map[p] # None
    /\ \A n \in TmpName : dir[n] # None => map[p] # dir[n]

\* The inductive invariant for MappedStable and TempOwned.
FilesInv == TypeOK /\ NamesInv /\ WriterInv /\ MapInv /\ TempOwned

-----------------------------------------------------------------------------
(***************************************************************************)
(* Contents: what holds if no write fails.                                 *)
(***************************************************************************)
CompleteInv ==
  /\ Published.len = Full /\ Published.public
  /\ \A p \in Proc :
       /\ map[p] # None => file[map[p]].len = Full
       /\ pc[p] \in {"chmod", "rename"} => file[dir[tmp[p]]].len = Full
       /\ pc[p] = "rename" => file[dir[tmp[p]]].public

-----------------------------------------------------------------------------
(***************************************************************************)
(* What a run that has the lock knows of the destination, if no write      *)
(* fails.                                                                  *)
(***************************************************************************)
\* The urls of the sources p has merged.
FromSources(p, k) == UNION {UrlsIn[Sources[p][n]] : n \in 1..k}

LockInv ==
  \A p \in Proc :
    /\ pc[p] \notin {"lock"} \cup Terminated => lock = p
    /\ pc[p] \in Loaded \ {"exit"} => map[p] = dir[Dest]

\* What p has collected is what the mapped file and the sources give it.
Knows(p) ==
  /\ pc[p] \in {"lock", "open", "parse"} => src[p] = 1
  /\ pc[p] = "sources" =>
       /\ src[p] <= Len(Sources[p]) + 1
       /\ \A n \in 1..(src[p] - 1) : Sources[p][n] \notin Invalid
       /\ ann[p] = Filtered(Extra) \cup Filtered(file[map[p]].urls)
                     \cup Filtered(FromSources(p, src[p] - 1))
  /\ pc[p] = "mkstemp" \/ Writing(p) =>
       Loadable(p) /\ ann[p] = Merged(file[map[p]].urls, p)
  /\ pc[p] \in {"write", "chmod", "rename"} => file[dir[tmp[p]]].urls = ann[p]

AnnInv == \A p \in Proc : Knows(p)

-----------------------------------------------------------------------------
(***************************************************************************)
(* There is a destination at the start, and nobody has touched it.         *)
(***************************************************************************)
LEMMA FilesInit == Init => FilesInv
BY UpdateAssumption, MergeAssumption
   DEF Init, FilesInv, TypeOK, NamesInv, WriterInv, MapInv, TempOwned, File,
       Terminated, Writing, Loaded

(***************************************************************************)
(* No step gives two names one inode, takes a temporary name or an inode   *)
(* from the run that uses it, or leaves a run with one that is not there.  *)
(***************************************************************************)
LEMMA FilesStep == FilesInv /\ [Next]_vars => FilesInv'
<1> SUFFICES ASSUME FilesInv, [Next]_vars PROVE FilesInv'
  OBVIOUS
<1> USE UpdateAssumption, MergeAssumption
    DEF FilesInv, TypeOK, NamesInv, WriterInv, MapInv, TempOwned, File,
        Terminated, Writing, Loaded, Goto
<1>1. ASSUME NEW p \in Proc, Lock(p) PROVE FilesInv'
  BY <1>1 DEF Lock, End, Free, Filtered, OrDht
<1>2. ASSUME NEW p \in Proc, OpenDest(p) PROVE FilesInv'
  BY <1>2 DEF OpenDest, End, Free, Filtered, OrDht
<1>3. ASSUME NEW p \in Proc, OpenFails(p) PROVE FilesInv'
  BY <1>3 DEF OpenFails, End, Free, Filtered, OrDht
<1>4. ASSUME NEW p \in Proc, ParseDest(p) PROVE FilesInv'
  BY <1>4 DEF ParseDest, End, Free, Filtered, OrDht
<1>5. ASSUME NEW p \in Proc, ParseFails(p) PROVE FilesInv'
  BY <1>5 DEF ParseFails, End, Free, Filtered, OrDht
<1>6. ASSUME NEW p \in Proc, MergeSource(p) PROVE FilesInv'
  BY <1>6 DEF MergeSource, End, Free, Filtered, OrDht
<1>7. ASSUME NEW p \in Proc, SourceFails(p) PROVE FilesInv'
  BY <1>7 DEF SourceFails, End, Free, Filtered, OrDht
<1>8. ASSUME NEW p \in Proc, EndSources(p) PROVE FilesInv'
  BY <1>8 DEF EndSources, End, Free, Filtered, OrDht
<1>9. ASSUME NEW p \in Proc, Mkstemp(p) PROVE FilesInv'
  BY <1>9, SMTT(30) DEF Mkstemp, End, Free, Filtered, OrDht
<1>10. ASSUME NEW p \in Proc, MkstempFails(p) PROVE FilesInv'
  BY <1>10 DEF MkstempFails, End, Free, Filtered, OrDht
<1>11. ASSUME NEW p \in Proc, OpenStream(p) PROVE FilesInv'
  BY <1>11, SMTT(30) DEF OpenStream, End, Free, Filtered, OrDht
<1>12. ASSUME NEW p \in Proc, OpenStreamFails(p) PROVE FilesInv'
  BY <1>12 DEF OpenStreamFails, End, Free, Filtered, OrDht
<1>13. ASSUME NEW p \in Proc, Flush(p) PROVE FilesInv'
  BY <1>13, SMTT(30) DEF Flush, End, Free, Filtered, OrDht
<1>14. ASSUME NEW p \in Proc, FlushFails(p) PROVE FilesInv'
  BY <1>14, SMTT(30) DEF FlushFails, End, Free, Filtered, OrDht
<1>15. ASSUME NEW p \in Proc, CloseStream(p) PROVE FilesInv'
  BY <1>15, SMTT(30) DEF CloseStream, End, Free, Filtered, OrDht
<1>16. ASSUME NEW p \in Proc, Chmod(p) PROVE FilesInv'
  BY <1>16, SMTT(30) DEF Chmod, End, Free, Filtered, OrDht
<1>17. ASSUME NEW p \in Proc, Rename(p) PROVE FilesInv'
  <2>1. /\ tmp[p] \in TmpName /\ dir[tmp[p]] \in Inode
        /\ dir' = [dir EXCEPT ![Dest] = dir[tmp[p]], ![tmp[p]] = None]
        /\ UNCHANGED <<file, lock, map, ann, src, tmp, fd, os>>
        /\ pc' = [pc EXCEPT ![p] = "exit"] /\ published' = published \cup {p}
    BY <1>17 DEF Rename
  <2>2. TypeOK'
    BY <1>17, <2>1
  <2>3. NamesInv'
    BY <1>17, <2>1
  <2>4. WriterInv'
    BY <1>17, <2>1 DEF Rename
  <2>5. MapInv'
    <3> SUFFICES ASSUME NEW q \in Proc
                 PROVE  /\ pc'[q] \in Loaded <=> map[q] # None
                        /\ \A n \in TmpName : dir'[n] # None => map[q] # dir'[n]
      BY <2>1
    <3>1. pc'[q] \in Loaded <=> map[q] # None
      BY <1>17, <2>1 DEF Rename
    <3>2. \A n \in TmpName : dir'[n] # None => dir'[n] = dir[n]
      BY <2>1
    <3> QED
      BY <3>1, <3>2
  <2>6. TempOwned'
    BY <1>17, <2>1 DEF Rename
  <2> QED
    BY <2>2, <2>3, <2>4, <2>5, <2>6
<1>18. ASSUME NEW p \in Proc, RenameFails(p) PROVE FilesInv'
  BY <1>18 DEF RenameFails, End, Free, Filtered, OrDht
<1>19. ASSUME NEW p \in Proc, Exit(p) PROVE FilesInv'
  BY <1>19 DEF Exit, End, Free, Filtered, OrDht
<1>20. ASSUME NEW p \in Proc, Crash(p) PROVE FilesInv'
  BY <1>20 DEF Crash, End, Free, Filtered, OrDht
<1>21. CASE UNCHANGED vars
  BY <1>21 DEF vars
<1> QED
  BY <1>1, <1>2, <1>3, <1>4, <1>5, <1>6, <1>7, <1>8, <1>9, <1>10, <1>11, <1>12, <1>13, <1>14, <1>15, <1>16, <1>17, <1>18, <1>19, <1>20, <1>21 DEF Next, Step

(***************************************************************************)
(* The names and inodes are in order in every reachable state.             *)
(***************************************************************************)
LEMMA FilesAlways == Spec => []FilesInv
BY FilesInit, FilesStep, PTL DEF Spec

(***************************************************************************)
(* Every variable has its type: in particular the descriptors and streams  *)
(* that file is updated through are inodes whenever they are used.         *)
(***************************************************************************)
THEOREM TypeCorrect == Spec => []TypeOK
<1>1. FilesInv => TypeOK
  BY DEF FilesInv
<1> QED
  BY <1>1, FilesAlways, PTL

(***************************************************************************)
(* Temporary files have exactly one owner and none is left by a run that   *)
(* has published its result, whatever fails.                               *)
(***************************************************************************)
THEOREM TempsOwned == Spec => []TempOwned
<1>1. FilesInv => TempOwned
  BY DEF FilesInv
<1> QED
  BY <1>1, FilesAlways, PTL

(***************************************************************************)
(* Mapping the files is safe: no inode changes while it is mapped, also    *)
(* without the lock and when writes fail.                                  *)
(***************************************************************************)
THEOREM MappedNeverChanges == Spec => MappedStable
<1>1. FilesInv /\ [Next]_vars => [MappedUnchanged]_vars
  <2> SUFFICES ASSUME FilesInv, Next, NEW q \in Proc, map[q] # None, map'[q] = map[q]
               PROVE  file'[map[q]] = file[map[q]]
    BY DEF MappedUnchanged
  <2> USE UpdateAssumption
      DEF FilesInv, TypeOK, WriterInv, MapInv, Writing, End
  <2>1. ASSUME NEW p \in Proc, Mkstemp(p) PROVE file'[map[q]] = file[map[q]]
    BY <2>1 DEF Mkstemp, Free
  <2>2. ASSUME NEW p \in Proc, OpenStream(p) PROVE file'[map[q]] = file[map[q]]
    BY <2>2 DEF OpenStream
  <2>3. ASSUME NEW p \in Proc, Flush(p) PROVE file'[map[q]] = file[map[q]]
    BY <2>3 DEF Flush
  <2>4. ASSUME NEW p \in Proc, Chmod(p) PROVE file'[map[q]] = file[map[q]]
    BY <2>4 DEF Chmod
  <2> QED
    BY <2>1, <2>2, <2>3, <2>4
       DEF Next, Step, Lock, OpenDest, OpenFails, ParseDest, ParseFails, MergeSource,
           SourceFails, EndSources, MkstempFails, OpenStreamFails, FlushFails,
           CloseStream, Rename, RenameFails, Exit, Crash
<1> QED
  BY <1>1, FilesAlways, PTL DEF Spec, MappedStable

-----------------------------------------------------------------------------
(***************************************************************************)
(* As long as no write fails, what is renamed to the destination is a      *)
(* complete file that everybody may read.                                  *)
(***************************************************************************)
LEMMA CompleteStep ==
  ASSUME DiskFull = FALSE, FilesInv, CompleteInv, [Next]_vars
  PROVE  CompleteInv'
<1> USE UpdateAssumption
    DEF FilesInv, TypeOK, NamesInv, WriterInv, MapInv, TempOwned, File,
        Terminated, Writing, Loaded, Goto, CompleteInv, Published
<1>1. ASSUME NEW p \in Proc, Lock(p) PROVE CompleteInv'
  BY <1>1 DEF Lock, End, Free
<1>2. ASSUME NEW p \in Proc, OpenDest(p) PROVE CompleteInv'
  BY <1>2 DEF OpenDest, End, Free
<1>3. ASSUME NEW p \in Proc, OpenFails(p) PROVE CompleteInv'
  BY <1>3 DEF OpenFails, End, Free
<1>4. ASSUME NEW p \in Proc, ParseDest(p) PROVE CompleteInv'
  BY <1>4 DEF ParseDest, End, Free
<1>5. ASSUME NEW p \in Proc, ParseFails(p) PROVE CompleteInv'
  BY <1>5 DEF ParseFails, End, Free
<1>6. ASSUME NEW p \in Proc, MergeSource(p) PROVE CompleteInv'
  BY <1>6 DEF MergeSource, End, Free
<1>7. ASSUME NEW p \in Proc, SourceFails(p) PROVE CompleteInv'
  BY <1>7 DEF SourceFails, End, Free
<1>8. ASSUME NEW p \in Proc, EndSources(p) PROVE CompleteInv'
  BY <1>8 DEF EndSources, End, Free
<1>9. ASSUME NEW p \in Proc, Mkstemp(p) PROVE CompleteInv'
  BY <1>9 DEF Mkstemp, End, Free
<1>10. ASSUME NEW p \in Proc, MkstempFails(p) PROVE CompleteInv'
  BY <1>10 DEF MkstempFails, End, Free
<1>11. ASSUME NEW p \in Proc, OpenStream(p) PROVE CompleteInv'
  BY <1>11 DEF OpenStream, End, Free
<1>12. ASSUME NEW p \in Proc, OpenStreamFails(p) PROVE CompleteInv'
  BY <1>12 DEF OpenStreamFails, End, Free
<1>13. ASSUME NEW p \in Proc, Flush(p) PROVE CompleteInv'
  BY <1>13 DEF Flush, End, Free
<1>14. ASSUME NEW p \in Proc, FlushFails(p) PROVE CompleteInv'
  BY <1>14 DEF FlushFails, End, Free
<1>15. ASSUME NEW p \in Proc, CloseStream(p) PROVE CompleteInv'
  BY <1>15 DEF CloseStream, End, Free
<1>16. ASSUME NEW p \in Proc, Chmod(p) PROVE CompleteInv'
  BY <1>16 DEF Chmod, End, Free
<1>17. ASSUME NEW p \in Proc, Rename(p) PROVE CompleteInv'
  BY <1>17 DEF Rename, End, Free
<1>18. ASSUME NEW p \in Proc, RenameFails(p) PROVE CompleteInv'
  BY <1>18 DEF RenameFails, End, Free
<1>19. ASSUME NEW p \in Proc, Exit(p) PROVE CompleteInv'
  BY <1>19 DEF Exit, End, Free
<1>20. ASSUME NEW p \in Proc, Crash(p) PROVE CompleteInv'
  BY <1>20 DEF Crash, End, Free
<1>21. CASE UNCHANGED vars
  BY <1>21 DEF vars
<1> QED
  BY <1>1, <1>2, <1>3, <1>4, <1>5, <1>6, <1>7, <1>8, <1>9, <1>10, <1>11, <1>12, <1>13, <1>14, <1>15, <1>16, <1>17, <1>18, <1>19, <1>20, <1>21 DEF Next, Step

(***************************************************************************)
(* As long as no write fails the destination is a complete file that       *)
(* everybody may read, at every moment, with or without the lock, and      *)
(* wherever a run is killed.                                               *)
(***************************************************************************)
THEOREM CompleteUnlessDiskFull ==
  ASSUME DiskFull = FALSE PROVE Spec => []AlwaysComplete
<1>1. Init => CompleteInv
  BY UpdateAssumption DEF Init, CompleteInv, Published, Terminated
<1>2. FilesInv /\ CompleteInv /\ [Next]_vars => CompleteInv'
  BY CompleteStep
<1>3. FilesInv /\ CompleteInv => AlwaysComplete
  BY DEF FilesInv, NamesInv, CompleteInv, AlwaysComplete
<1> QED
  BY <1>1, <1>2, <1>3, FilesAlways, PTL DEF Spec

-----------------------------------------------------------------------------
(***************************************************************************)
(* Filtering urls together or apart gives the same.                        *)
(***************************************************************************)
LEMMA FilteredUnion ==
  ASSUME NEW A, NEW B PROVE Filtered(A \cup B) = Filtered(A) \cup Filtered(B)
BY DEF Filtered

(***************************************************************************)
(* One more source adds its own urls.                                      *)
(***************************************************************************)
LEMMA FromSourcesNext ==
  ASSUME NEW p \in Proc, NEW n \in Nat \ {0}
  PROVE  FromSources(p, n) = FromSources(p, n - 1) \cup UrlsIn[Sources[p][n]]
<1>1. 1..n = 1..(n - 1) \cup {n}
  OBVIOUS
<1> QED
  BY <1>1 DEF FromSources

(***************************************************************************)
(* If all runs take the lock, the file one of them has mapped stays the    *)
(* destination until it renames.                                           *)
(***************************************************************************)
LEMMA LockStep ==
  ASSUME Lockers = Proc, FilesInv, LockInv, [Next]_vars
  PROVE  LockInv'
<1> USE UpdateAssumption
    DEF FilesInv, TypeOK, WriterInv, Terminated, Writing, Loaded, Goto, LockInv
<1>1. ASSUME NEW p \in Proc, Lock(p) PROVE LockInv'
  BY <1>1 DEF Lock, End
<1>2. ASSUME NEW p \in Proc, OpenDest(p) PROVE LockInv'
  BY <1>2 DEF OpenDest, End
<1>3. ASSUME NEW p \in Proc, OpenFails(p) PROVE LockInv'
  BY <1>3 DEF OpenFails, End
<1>4. ASSUME NEW p \in Proc, ParseDest(p) PROVE LockInv'
  BY <1>4 DEF ParseDest, End
<1>5. ASSUME NEW p \in Proc, ParseFails(p) PROVE LockInv'
  BY <1>5 DEF ParseFails, End
<1>6. ASSUME NEW p \in Proc, MergeSource(p) PROVE LockInv'
  BY <1>6 DEF MergeSource, End
<1>7. ASSUME NEW p \in Proc, SourceFails(p) PROVE LockInv'
  BY <1>7 DEF SourceFails, End
<1>8. ASSUME NEW p \in Proc, EndSources(p) PROVE LockInv'
  BY <1>8 DEF EndSources, End
<1>9. ASSUME NEW p \in Proc, Mkstemp(p) PROVE LockInv'
  BY <1>9 DEF Mkstemp, End
<1>10. ASSUME NEW p \in Proc, MkstempFails(p) PROVE LockInv'
  BY <1>10 DEF MkstempFails, End
<1>11. ASSUME NEW p \in Proc, OpenStream(p) PROVE LockInv'
  BY <1>11 DEF OpenStream, End
<1>12. ASSUME NEW p \in Proc, OpenStreamFails(p) PROVE LockInv'
  BY <1>12 DEF OpenStreamFails, End
<1>13. ASSUME NEW p \in Proc, Flush(p) PROVE LockInv'
  BY <1>13 DEF Flush, End
<1>14. ASSUME NEW p \in Proc, FlushFails(p) PROVE LockInv'
  BY <1>14 DEF FlushFails, End
<1>15. ASSUME NEW p \in Proc, CloseStream(p) PROVE LockInv'
  BY <1>15 DEF CloseStream, End
<1>16. ASSUME NEW p \in Proc, Chmod(p) PROVE LockInv'
  BY <1>16 DEF Chmod, End
<1>17. ASSUME NEW p \in Proc, Rename(p) PROVE LockInv'
  BY <1>17 DEF Rename, End
<1>18. ASSUME NEW p \in Proc, RenameFails(p) PROVE LockInv'
  BY <1>18 DEF RenameFails, End
<1>19. ASSUME NEW p \in Proc, Exit(p) PROVE LockInv'
  BY <1>19 DEF Exit, End
<1>20. ASSUME NEW p \in Proc, Crash(p) PROVE LockInv'
  BY <1>20 DEF Crash, End
<1>21. CASE UNCHANGED vars
  BY <1>21 DEF vars
<1> QED
  BY <1>1, <1>2, <1>3, <1>4, <1>5, <1>6, <1>7, <1>8, <1>9, <1>10, <1>11, <1>12, <1>13, <1>14, <1>15, <1>16, <1>17, <1>18, <1>19, <1>20, <1>21 DEF Next, Step

(***************************************************************************)
(* Only a rename changes the destination.                                  *)
(***************************************************************************)
LEMMA PublishedStable ==
  ASSUME FilesInv, NEW p \in Proc, Step(p) \/ Crash(p), ~Rename(p)
  PROVE  dir'[Dest] = dir[Dest] /\ Published' = Published
<1> USE UpdateAssumption
    DEF FilesInv, TypeOK, NamesInv, WriterInv, Writing, Published
<1>1. CASE Mkstemp(p)
  BY <1>1 DEF Mkstemp, Free
<1>2. CASE OpenStream(p)
  BY <1>2 DEF OpenStream, Free
<1>3. CASE Flush(p)
  BY <1>3 DEF Flush, Free
<1>4. CASE Chmod(p)
  BY <1>4 DEF Chmod, Free
<1> QED
  BY <1>1, <1>2, <1>3, <1>4
     DEF Step, End, Lock, OpenDest, OpenFails, ParseDest, ParseFails, MergeSource, SourceFails, EndSources, MkstempFails, OpenStreamFails, FlushFails, CloseStream, RenameFails, Exit, Crash

(***************************************************************************)
(* What a run has collected is what the mapped file and the sources merged *)
(* so far give it, as long as the mapped file does not change.             *)
(***************************************************************************)
LEMMA AnnStep ==
  ASSUME FilesInv, AnnInv, [Next]_vars, [MappedUnchanged]_vars
  PROVE  AnnInv'
<1>1. CASE UNCHANGED vars
  BY <1>1 DEF vars, AnnInv, Knows, Writing
<1>2. ASSUME NEW p \in Proc, Step(p) \/ Crash(p), MappedUnchanged, NEW q \in Proc
      PROVE  Knows(q)'
  <2> USE UpdateAssumption
      DEF FilesInv, TypeOK, NamesInv, WriterInv, MapInv, TempOwned,
          Terminated, Writing, Loaded, Goto
  <2>1. Knows(q)
    BY DEF AnnInv
  <2>2. map[q] # None /\ map'[q] = map[q] => file'[map[q]] = file[map[q]]
    BY <1>2 DEF MappedUnchanged
  <2>3. CASE q # p
    <3>1. /\ pc'[q] = pc[q] /\ src'[q] = src[q] /\ ann'[q] = ann[q]
          /\ map'[q] = map[q] /\ tmp'[q] = tmp[q]
      BY <1>2, <2>3
         DEF Step, End, Lock, OpenDest, OpenFails, ParseDest, ParseFails, MergeSource, SourceFails, EndSources, Mkstemp, MkstempFails, OpenStream, OpenStreamFails, Flush, FlushFails, CloseStream, Chmod, Rename, RenameFails, Exit, Crash
    <3>2. Writing(q) => file'[dir'[tmp[q]]] = file[dir[tmp[q]]]
      <4>1. CASE Lock(p)
        BY <4>1, <2>3 DEF Lock, End, Free
      <4>2. CASE OpenDest(p)
        BY <4>2, <2>3 DEF OpenDest, End, Free
      <4>3. CASE OpenFails(p)
        BY <4>3, <2>3 DEF OpenFails, End, Free
      <4>4. CASE ParseDest(p)
        BY <4>4, <2>3 DEF ParseDest, End, Free
      <4>5. CASE ParseFails(p)
        BY <4>5, <2>3 DEF ParseFails, End, Free
      <4>6. CASE MergeSource(p)
        BY <4>6, <2>3 DEF MergeSource, End, Free
      <4>7. CASE SourceFails(p)
        BY <4>7, <2>3 DEF SourceFails, End, Free
      <4>8. CASE EndSources(p)
        BY <4>8, <2>3 DEF EndSources, End, Free
      <4>9. CASE Mkstemp(p)
        BY <4>9, <2>3 DEF Mkstemp, End, Free
      <4>10. CASE MkstempFails(p)
        BY <4>10, <2>3 DEF MkstempFails, End, Free
      <4>11. CASE OpenStream(p)
        BY <4>11, <2>3 DEF OpenStream, End, Free
      <4>12. CASE OpenStreamFails(p)
        BY <4>12, <2>3 DEF OpenStreamFails, End, Free
      <4>13. CASE Flush(p)
        BY <4>13, <2>3 DEF Flush, End, Free
      <4>14. CASE FlushFails(p)
        BY <4>14, <2>3 DEF FlushFails, End, Free
      <4>15. CASE CloseStream(p)
        BY <4>15, <2>3 DEF CloseStream, End, Free
      <4>16. CASE Chmod(p)
        BY <4>16, <2>3 DEF Chmod, End, Free
      <4>17. CASE Rename(p)
        BY <4>17, <2>3 DEF Rename, End, Free
      <4>18. CASE RenameFails(p)
        BY <4>18, <2>3 DEF RenameFails, End, Free
      <4>19. CASE Exit(p)
        BY <4>19, <2>3 DEF Exit, End, Free
      <4>20. CASE Crash(p)
        BY <4>20, <2>3 DEF Crash, End, Free
      <4> QED
        BY <1>2, <4>1, <4>2, <4>3, <4>4, <4>5, <4>6, <4>7, <4>8, <4>9, <4>10, <4>11, <4>12, <4>13, <4>14, <4>15, <4>16, <4>17, <4>18, <4>19, <4>20 DEF Step
    <3> QED
      BY <2>1, <2>2, <3>1, <3>2 DEF Knows
  <2>4. CASE q = p
    <3>1. CASE Lock(p)
      BY <3>1, <2>1, <2>2, <2>4 DEF Lock, End, Free, Knows
    <3>2. CASE OpenDest(p)
      BY <3>2, <2>1, <2>2, <2>4 DEF OpenDest, End, Free, Knows
    <3>3. CASE OpenFails(p)
      BY <3>3, <2>1, <2>2, <2>4 DEF OpenFails, End, Free, Knows
    <3>4. CASE ParseDest(p)
      <4>1. Filtered(FromSources(p, 0)) = {}
        BY DEF Filtered, FromSources
      <4>2. /\ pc'[p] = "sources" /\ src'[p] = 1 /\ map'[p] = map[p] /\ file' = file
            /\ ann'[p] = Filtered(Extra) \cup Filtered(file[map[p]].urls)
        BY <3>4, <2>1, <2>4 DEF ParseDest, Knows
      <4>3. Len(Sources[p]) \in Nat
        OBVIOUS
      <4> QED
        BY <4>1, <4>2, <4>3, <2>4 DEF Knows
    <3>5. CASE ParseFails(p)
      BY <3>5, <2>1, <2>2, <2>4 DEF ParseFails, End, Free, Knows
    <3>6. CASE MergeSource(p)
      <4> DEFINE n == src[p]
      <4>1. /\ pc[p] = "sources" /\ pc' = pc /\ map' = map /\ file' = file
            /\ n \in Nat \ {0} /\ n <= Len(Sources[p]) /\ Len(Sources[p]) \in Nat
            /\ Sources[p][n] \notin Invalid
            /\ src'[p] = n + 1
            /\ ann'[p] = ann[p] \cup Filtered(UrlsIn[Sources[p][n]])
        BY <3>6 DEF MergeSource
      <4>2. Filtered(FromSources(p, n)) =
              Filtered(FromSources(p, n - 1)) \cup Filtered(UrlsIn[Sources[p][n]])
        <5>1. FromSources(p, n) = FromSources(p, n - 1) \cup UrlsIn[Sources[p][n]]
          BY ONLY <4>1, FromSourcesNext, <1>2
        <5>2. Filtered(FromSources(p, n - 1) \cup UrlsIn[Sources[p][n]]) =
                Filtered(FromSources(p, n - 1)) \cup Filtered(UrlsIn[Sources[p][n]])
          BY ONLY FilteredUnion
        <5> QED
          BY ONLY <5>1, <5>2
      <4>3. ann'[p] = Filtered(Extra) \cup Filtered(file[map[p]].urls)
                       \cup Filtered(FromSources(p, n))
        BY <4>1, <4>2, <2>1, <2>4 DEF Knows
      <4>4. \A m \in 1..n : Sources[p][m] \notin Invalid
        BY <4>1, <2>1, <2>4 DEF Knows
      <4>5. n + 1 <= Len(Sources[p]) + 1 /\ (n + 1) - 1 = n
        BY <4>1
      <4> HIDE DEF n
      <4> QED
        BY <4>1, <4>3, <4>4, <4>5, <2>4 DEF Knows
    <3>7. CASE SourceFails(p)
      BY <3>7, <2>1, <2>2, <2>4 DEF SourceFails, End, Free, Knows
    <3>8. CASE EndSources(p)
      <4>1. /\ pc[p] = "sources" /\ pc'[p] = "mkstemp" /\ map' = map /\ file' = file
            /\ src[p] > Len(Sources[p])
            /\ ann'[p] = OrDht(ann[p])
        BY <3>8 DEF EndSources
      <4>2. 1..(src[p] - 1) = DOMAIN Sources[p]
        BY <4>1, <2>1, <2>4 DEF Knows
      <4>3. Loadable(p)
        BY <4>1, <4>2, <2>1, <2>4 DEF Knows, Loadable
      <4>4. FromSources(p, src[p] - 1) = UNION {UrlsIn[Sources[p][n]] : n \in DOMAIN Sources[p]}
        BY <4>2 DEF FromSources
      <4>5. ann'[p] = Merged(file[map[p]].urls, p)
        BY <4>1, <4>4, <2>1, <2>4 DEF Knows, Merged
      <4> QED
        BY <4>1, <4>3, <4>5, <2>4 DEF Knows
    <3>9. CASE Mkstemp(p)
      BY <3>9, <2>1, <2>2, <2>4 DEF Mkstemp, End, Free, Knows
    <3>10. CASE MkstempFails(p)
      BY <3>10, <2>1, <2>2, <2>4 DEF MkstempFails, End, Free, Knows
    <3>11. CASE OpenStream(p)
      BY <3>11, <2>1, <2>2, <2>4 DEF OpenStream, End, Free, Knows
    <3>12. CASE OpenStreamFails(p)
      BY <3>12, <2>1, <2>2, <2>4 DEF OpenStreamFails, End, Free, Knows
    <3>13. CASE Flush(p)
      BY <3>13, <2>1, <2>2, <2>4 DEF Flush, End, Free, Knows
    <3>14. CASE FlushFails(p)
      BY <3>14, <2>1, <2>2, <2>4 DEF FlushFails, End, Free, Knows
    <3>15. CASE CloseStream(p)
      BY <3>15, <2>1, <2>2, <2>4 DEF CloseStream, End, Free, Knows
    <3>16. CASE Chmod(p)
      BY <3>16, <2>1, <2>2, <2>4 DEF Chmod, End, Free, Knows
    <3>17. CASE Rename(p)
      BY <3>17, <2>1, <2>2, <2>4 DEF Rename, End, Free, Knows
    <3>18. CASE RenameFails(p)
      BY <3>18, <2>1, <2>2, <2>4 DEF RenameFails, End, Free, Knows
    <3>19. CASE Exit(p)
      BY <3>19, <2>1, <2>2, <2>4 DEF Exit, End, Free, Knows
    <3>20. CASE Crash(p)
      BY <3>20, <2>1, <2>2, <2>4 DEF Crash, End, Free, Knows
    <3> QED
      BY <1>2, <3>1, <3>2, <3>3, <3>4, <3>5, <3>6, <3>7, <3>8, <3>9, <3>10, <3>11, <3>12, <3>13, <3>14, <3>15, <3>16, <3>17, <3>18, <3>19, <3>20 DEF Step
  <2> QED
    BY <2>3, <2>4
<1> QED
  BY <1>1, <1>2 DEF Next, AnnInv, vars

(***************************************************************************)
(* Only the rename of a run is a step of SharedTorrent; every other step   *)
(* is none.                                                                *)
(***************************************************************************)
LEMMA SharedStep ==
  ASSUME FilesInv, CompleteInv, LockInv, AnnInv, [Next]_vars
  PROVE  [Shared!Next]_<<Announced, published>>
<1>1. CASE UNCHANGED vars
  BY <1>1 DEF vars, Announced, Published
<1>2. ASSUME NEW p \in Proc, Step(p) \/ Crash(p), ~Rename(p)
      PROVE  UNCHANGED <<Announced, published>>
  <2>1. Published' = Published
    BY <1>2, PublishedStable
  <2>2. published' = published
    BY <1>2 DEF Step, End, Lock, OpenDest, OpenFails, ParseDest, ParseFails, MergeSource,
                SourceFails, EndSources, Mkstemp, MkstempFails, OpenStream,
                OpenStreamFails, Flush, FlushFails, CloseStream, Chmod, RenameFails,
                Exit, Crash
  <2> QED
    BY <2>1, <2>2 DEF Announced
<1>3. ASSUME NEW p \in Proc, Rename(p)
      PROVE  Shared!Merge(p)
  <2> USE UpdateAssumption DEF FilesInv, WriterInv, Writing
  <2>1. p \notin published /\ published' = published \cup {p}
    BY <1>3 DEF Rename
  <2>2. Loadable(p) /\ file[dir[tmp[p]]].urls = Merged(file[map[p]].urls, p)
    BY <1>3 DEF Rename, AnnInv, Knows
  <2>3. map[p] = dir[Dest]
    BY <1>3 DEF Rename, LockInv, Loaded
  <2>4. Announced = file[map[p]].urls
    BY <2>3 DEF Announced, Published, CompleteInv
  <2>5. file[dir[tmp[p]]].len = Full
    BY <1>3 DEF Rename, CompleteInv
  <2>6. Published' = file[dir[tmp[p]]]
    BY <1>3 DEF Rename, Published, TypeOK
  <2>7. Announced' = Merged(Announced, p)
    BY <2>2, <2>4, <2>5, <2>6 DEF Announced
  <2> QED
    BY <2>1, <2>2, <2>7
       DEF Shared!Merge, Shared!Loadable, Loadable, Shared!Merged, Merged,
           Shared!Filtered, Filtered, Shared!OrDht, OrDht
<1> QED
  BY <1>1, <1>2, <1>3 DEF Next, Step, Shared!Next

(***************************************************************************)
(* Runs that take the lock, on a disk that does not fill up, implement the *)
(* atomic merge, for any number of runs and wherever they fail or die.     *)
(***************************************************************************)
THEOREM MergesAtomicallyIfLocked ==
  ASSUME Lockers = Proc, DiskFull = FALSE PROVE Spec => MergesAtomically
<1> DEFINE Inv == FilesInv /\ CompleteInv /\ LockInv /\ AnnInv
<1>1. Init => Inv
  <2>1. Init => CompleteInv /\ LockInv /\ AnnInv
    BY UpdateAssumption
       DEF Init, CompleteInv, Published, Terminated, LockInv, Loaded, AnnInv, Knows, Writing
  <2> QED
    BY <2>1, FilesInit
<1>2. Init => Shared!Init
  BY UpdateAssumption DEF Init, Shared!Init, Announced, Published
<1>3. Inv /\ [Next]_vars /\ [MappedUnchanged]_vars => Inv'
  BY FilesStep, CompleteStep, LockStep, AnnStep
<1>4. Inv /\ [Next]_vars => [Shared!Next]_<<Announced, published>>
  BY SharedStep
<1>5. Spec => [][MappedUnchanged]_vars
  BY MappedNeverChanges DEF MappedStable
<1> QED
  BY <1>1, <1>2, <1>3, <1>4, <1>5, PTL DEF Spec, MergesAtomically, Shared!Spec

(***************************************************************************)
(* The atomic merge loses nothing, for any filter and any sources.         *)
(***************************************************************************)
THEOREM NothingEverLost == Shared!Spec => []Shared!NothingLost
<1> USE MergeAssumption
        DEF Shared!Merge, Shared!Merged, Shared!Loadable, Shared!Filtered, Shared!OrDht,
            Shared!NothingLost
<1>1. Shared!Init => Shared!NothingLost
  BY DEF Shared!Init
<1>2. Shared!NothingLost /\ [Shared!Next]_<<Announced, published>> => Shared!NothingLost'
  <2>1. ASSUME Shared!NothingLost, NEW q \in Proc, Shared!Merge(q),
               NEW p \in published', NEW n \in DOMAIN Sources[p],
               NEW u \in Shared!Filtered(UrlsIn[Sources[p][n]]), Filter[u] = {u}
        PROVE  u \in Announced'
    <3>1. u \in Shared!Filtered(Announced) \/ p = q
      BY <2>1
    <3>2. p = q => u \in Shared!Filtered(UNION {UrlsIn[Sources[q][m]] : m \in DOMAIN Sources[q]})
      BY <2>1
    <3>3. u \in Shared!Filtered(Extra) \cup Shared!Filtered(Announced) \cup
                Shared!Filtered(UNION {UrlsIn[Sources[q][m]] : m \in DOMAIN Sources[q]})
      BY <3>1, <3>2
    <3> QED
      BY <2>1, <3>3
  <2> QED
    BY <2>1 DEF Shared!Next
<1> QED
  BY <1>1, <1>2, PTL DEF Shared!Spec

(***************************************************************************)
(* Under the same conditions no run overwrites what another one has merged.*)
(***************************************************************************)
THEOREM NoUpdateLostIfLocked ==
  ASSUME Lockers = Proc, DiskFull = FALSE PROVE Spec => []NoLostUpdate
BY NothingEverLost, MergesAtomicallyIfLocked, PTL DEF MergesAtomically, NoLostUpdate
=============================================================================
