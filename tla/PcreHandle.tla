----------------------------- MODULE PcreHandle -----------------------------
(***************************************************************************)
(* The objects of class PCRE and PCRE_Replace (src/src/torrent-pcre.cpp):  *)
(* handles that share a compiled pattern of libpcre and count, in the      *)
(* pattern itself, how many of them do.  The count has 16 bits and stops   *)
(* at its ends (pcre_refcount).  A pattern of count 0 is freed.            *)
(***************************************************************************)
EXTENDS Integers, FiniteSets

CONSTANTS
  Handle,   \* where objects may be
  Pcre,     \* where libpcre may put a compiled pattern
  RefMax,   \* the greatest count
  Null

ASSUME HandleAssumption ==
  /\ IsFiniteSet(Handle) /\ Null \notin Pcre
  /\ RefMax \in Nat /\ Cardinality(Handle) < RefMax

VARIABLES
  alive,  \* the objects that have been constructed and not destroyed
  m_re,   \* their patterns
  count   \* the count of each pattern

handlevars == <<alive, m_re, count>>

InitHandles ==
  /\ alive = {}
  /\ m_re = [h \in Handle |-> Null]
  /\ count = [p \in Pcre |-> 0]

\* pcre_refcount(p, 1); what has been freed stays so.
Share(c, p) ==
  IF p = Null \/ c[p] = 0 THEN c
  ELSE [c EXCEPT ![p] = IF @ < RefMax THEN @ + 1 ELSE RefMax]

\* clear
Release(c, p) ==
  IF p = Null THEN c ELSE [c EXCEPT ![p] = IF @ > 0 THEN @ - 1 ELSE 0]

Construct(h) ==
  /\ h \notin alive
  /\ alive' = alive \cup {h}
  /\ m_re' = [m_re EXCEPT ![h] = Null]
  /\ UNCHANGED count

\* Mutant: a copy is not counted.
CopyUncounted(h, other) ==
  /\ h \notin alive /\ other \in alive
  /\ alive' = alive \cup {h}
  /\ m_re' = [m_re EXCEPT ![h] = m_re[other]]
  /\ UNCHANGED count

Copy(h, other) ==
  /\ h \notin alive /\ other \in alive
  /\ alive' = alive \cup {h}
  /\ m_re' = [m_re EXCEPT ![h] = m_re[other]]
  /\ count' = Share(count, m_re[other])

\* operator =; for an object and itself it does nothing.
Assign(h, other) ==
  /\ h \in alive /\ other \in alive /\ h # other
  /\ m_re' = [m_re EXCEPT ![h] = m_re[other]]
  /\ count' = Share(Release(count, m_re[h]), m_re[other])
  /\ UNCHANGED alive

\* load, the compiled pattern being at p: the old one is cleared before.
Load(h, p) ==
  /\ h \in alive
  /\ Release(count, m_re[h])[p] = 0
  /\ m_re' = [m_re EXCEPT ![h] = p]
  /\ count' = [Release(count, m_re[h]) EXCEPT ![p] = 1]
  /\ UNCHANGED alive

LoadFails(h) ==
  /\ h \in alive
  /\ m_re' = [m_re EXCEPT ![h] = Null]
  /\ count' = Release(count, m_re[h])
  /\ UNCHANGED alive

Destroy(h) ==
  /\ h \in alive
  /\ alive' = alive \ {h}
  /\ m_re' = [m_re EXCEPT ![h] = Null]
  /\ count' = Release(count, m_re[h])

NextHandles ==
  \/ \E h \in Handle : Construct(h) \/ LoadFails(h) \/ Destroy(h)
  \/ \E h \in Handle, p \in Pcre : Load(h, p)
  \/ \E h, other \in Handle : Copy(h, other) \/ Assign(h, other)

HandleSpec == InitHandles /\ [][NextHandles]_handlevars

-----------------------------------------------------------------------------
HandlesOK ==
  /\ alive \subseteq Handle
  /\ m_re \in [Handle -> Pcre \cup {Null}]
  /\ count \in [Pcre -> 0..RefMax]

Holders(p) == {h \in Handle : m_re[h] = p}

(***************************************************************************)
(* A pattern is counted once for every object that holds it, so that none  *)
(* is freed while an object would still match with it and each is freed    *)
(* with the last one; what has been destroyed holds none.                  *)
(***************************************************************************)
Counted ==
  /\ \A p \in Pcre : count[p] = Cardinality(Holders(p))
  /\ \A h \in Handle \ alive : m_re[h] = Null
=============================================================================
