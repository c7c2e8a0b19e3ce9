-------------------------- MODULE MCTorrentUpdate --------------------------
(***************************************************************************)
(* Two or three runs on one destination.  The filter lets a, b, f pass,    *)
(* rewrites c to d and d to e (by different rules, so that e needs two     *)
(* runs), and refuses x and the dht url.                                   *)
(***************************************************************************)
EXTENDS TorrentUpdate, TLC

CONSTANTS p1, p2, p3, i1

MCUrl == {"a", "b", "c", "d", "e", "f", "x", Dht}
MCFilter == [u \in MCUrl |-> CASE u \in {"a", "b", "e", "f"} -> {u}
                               [] u = "c" -> {"d"}
                               [] u = "d" -> {"e"}
                               [] OTHER -> {}]
MCInitial == {{"x"}, {"c", "x"}}
MCInitialOne == {{"c", "x"}}
MCSource == {"ac", "b", "x", "not a torrent"}
MCUrlsIn == [s \in MCSource |-> CASE s = "ac" -> {"a", "c"}
                                  [] s = "not a torrent" -> {}
                                  [] OTHER -> {s}]
MCInvalid == {"not a torrent"}
MCSources == [p \in Proc |-> CASE p = p1 -> <<"ac", "x">>
                               [] p = p2 -> <<"b">>
                               [] p = p3 -> <<"x", "not a torrent">>]
MCExtra == {"f"}

\* With liveness there is no symmetry: the first inode is fixed instead.
MixedInit == Init /\ dir[Dest] = i1
MixedSpec == MixedInit /\ [][Next]_vars /\ Fairness

AnyInode == Permutations(Inode) \cup Permutations(TmpName)
=============================================================================
