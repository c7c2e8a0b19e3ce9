--------------------------- MODULE MCAnnounceList ---------------------------
(***************************************************************************)
(* A small filter for AnnounceList: two domains, one with two urls; raw    *)
(* urls that pass unchanged, are rewritten to urls of both domains, are    *)
(* blacklisted although they are well formed, or are not urls at all.      *)
(***************************************************************************)
EXTENDS AnnounceList, SequencesExt

CONSTANTS MaxExtra, MaxFiles  \* bounds on the lengths of the two inputs

MCRaw == {"a1", "a2", "both", "listed", "junk"}
MCUrl == {"a1", "a2", "b1", "listed"}
MCDomain == {"a", "b"}
MCDomainOf == [u \in MCUrl |-> IF u \in {"a1", "a2"} THEN "a" ELSE "b"]
MCClean == [r \in MCRaw |-> CASE r = "junk" -> NoUrl
                              [] r = "both" -> "b1"
                              [] OTHER -> r]
MCFilterUrl == [r \in MCRaw |-> CASE r \in {"a1", "a2"} -> <<r>>
                                  [] r = "both" -> <<"a2", "b1">>
                                  [] OTHER -> <<>>]
MCExtraLists == BoundedSeq(MCRaw, MaxExtra)
MCFileLists == BoundedSeq(MCRaw, MaxFiles)
=============================================================================
