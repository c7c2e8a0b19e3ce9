---------------------------- MODULE PcreReplace ----------------------------
(***************************************************************************)
(* PCRE_Replace::replaceFull and replace (torrent-pcre.cpp): the rewrites  *)
(* of a text by a rule of the filter file.  What the pattern matches is up *)
(* to libpcre: "match" is what pcre_exec returns, the number rc and, for   *)
(* the groups 0 to 9, the text of the group or Unset.  The vector is a     *)
(* local variable: behind the groups of the pattern it holds whatever the  *)
(* stack held, or the text of some earlier group.                          *)
(***************************************************************************)
EXTENDS Naturals, Sequences

CONSTANT Unset

GroupChar == <<"0", "1", "2", "3", "4", "5", "6", "7", "8", "9">>

\* Mutant: any group of the vector.
GroupTextUnbounded(groups, n, digit) ==
  LET c == (CHOOSE m \in 1..10 : GroupChar[m] = digit) - 1
  IN IF c <= 9 /\ groups[c] # Unset THEN groups[c] ELSE <<>>

\* "\" and a digit; n is the number of groups, and the group n is let pass.
GroupText(groups, n, digit) ==
  LET c == (CHOOSE m \in 1..10 : GroupChar[m] = digit) - 1
  IN IF c <= n /\ c <= 9 /\ groups[c] # Unset THEN groups[c] ELSE <<>>

\* A "\" before any other character stands for that character, and one at the
\* end ends the text.
ReplaceGroups(rewrite, groups, n) ==
  LET from[k \in 1..(Len(rewrite) + 2)] ==
        IF k > Len(rewrite) THEN <<>>
        ELSE IF rewrite[k] # "\\" THEN <<rewrite[k]>> \o from[k + 1]
        ELSE IF k = Len(rewrite) THEN <<>>
        ELSE (IF \E m \in 1..10 : GroupChar[m] = rewrite[k + 1]
              THEN GroupText(groups, n, rewrite[k + 1])
              ELSE <<rewrite[k + 1]>>) \o from[k + 2]
  IN from[1]

\* Any error of pcre_exec counts as no match; rc is 0 when the vector is full.
ReplaceFull(match, rewrites) ==
  LET n == IF match.rc = 0 THEN 10 ELSE match.rc
  IN [matched |-> match.rc >= 0,
      results |-> [i \in 1..(IF match.rc < 0 THEN 0 ELSE Len(rewrites)) |->
                    ReplaceGroups(rewrites[i], match.groups, n)]]
=============================================================================
