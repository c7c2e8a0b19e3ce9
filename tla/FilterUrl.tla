----------------------------- MODULE FilterUrl -----------------------------
(***************************************************************************)
(* TorrentSanitize::filterUrl (src/src/sanitize-settings.cpp): one raw url *)
(* goes through the url filter and becomes a set of cleaned urls.          *)
(*                                                                         *)
(* The rewrite rules run in order over a queue of urls.  A url a rule      *)
(* matches is erased from the queue in place and what the rule makes of it *)
(* is appended to that same queue, behind the position qlen where the loop *)
(* over the queue stops.                                                   *)
(***************************************************************************)
EXTENDS Naturals, Sequences

CONSTANTS
  Raw,        \* urls before cleaning: input, results of rewrites
  Url,        \* cleaned urls
  NoUrl,      \* "basicUrlCleaner refuses"
  Clean,      \* basicUrlCleaner
  Whitelist,  \* the urls filter_url_whitelist matches
  Blacklist,  \* the urls filter_url_blacklist matches
  NoMatch,    \* "replaceFull does not match" (or pcre_exec fails)
  Rewrites,   \* replaceFull of each rule: the rewrites of a url, or NoMatch
  RuleLists,  \* the filter_url_replace considered
  Outcome     \* see below

\* The urls a raw url ends up as when the rules rs are still to be applied,
\* given what they make of a cleaned url that is not whitelisted.
Accepted(outcome, rs, r) ==
  IF Clean[r] = NoUrl THEN {}
  ELSE IF Clean[r] \in Whitelist THEN {Clean[r]}
  ELSE outcome[rs][Clean[r]]

\* What a sequence of raw urls contributes, from position k on.
AcceptedFrom(outcome, rs, s, k) ==
  UNION {Accepted(outcome, rs, s[n]) : n \in k..Len(s)}

(***************************************************************************)
(* Outcome[rs][u] is what the documentation of the filter file             *)
(* (url-filter.example:20-26) promises for a url that passed the cleaner   *)
(* and missed the whitelist when the rules rs remain: the first of them    *)
(* replaces it if it matches, what it makes of it is cleaned, tested       *)
(* against the whitelist and left to the LATER rules; a url no rule is     *)
(* left for is dropped if it is blacklisted.  These equations define       *)
(* Outcome on the lists in RuleLists and their tails.                      *)
(***************************************************************************)
IsOutcome(outcome) ==
  \A rs \in RuleLists : \A u \in Url :
    outcome[rs][u] =
      IF rs = <<>> THEN {u} \ Blacklist
      ELSE IF Rewrites[Head(rs)][u] = NoMatch THEN outcome[Tail(rs)][u]
      ELSE AcceptedFrom(outcome, Tail(rs), Rewrites[Head(rs)][u], 1)

ASSUME FilterAssumption ==
  /\ Clean \in [Raw -> Url \cup {NoUrl}]
  /\ NoUrl \notin Url
  /\ Whitelist \subseteq Url /\ Blacklist \subseteq Url
  /\ NoMatch \notin Seq(Raw)
  /\ \A rule \in DOMAIN Rewrites : Rewrites[rule] \in [Url -> Seq(Raw) \cup {NoMatch}]
  /\ RuleLists \subseteq Seq(DOMAIN Rewrites)
  /\ \A rs \in RuleLists : rs # <<>> => Tail(rs) \in RuleLists
  /\ Outcome \in [RuleLists -> [Url -> SUBSET Url]]
  /\ IsOutcome(Outcome)

VARIABLES
  url,          \* the parameter
  rules, rfi,   \* filter_url_replace; the rule applied now or next
  queue,        \* the urls in process
  qit, qlen,    \* next position of queue to match; the end of that loop
  rewrites, k,  \* results of a rewrite; next position of the loop over them,
                \* or of the loop over the queue that ends the function
  urls,         \* the set of results
  pc

vars == <<url, rules, rfi, queue, qit, qlen, rewrites, k, urls, pc>>

TypeOK ==
  /\ url \in Raw /\ rules \in RuleLists
  /\ rfi \in 1..(Len(rules) + 1)
  /\ queue \in Seq(Url)
  /\ qlen \in 0..Len(queue) /\ qit \in 1..(qlen + 1)
  /\ rewrites \in Seq(Raw)
  /\ k \in Nat \ {0}
  /\ urls \subseteq Url
  /\ pc \in {"start", "rules", "match", "push", "blacklist", "done"}

Init ==
  /\ url \in Raw /\ rules \in RuleLists
  /\ rfi = 1 /\ queue = <<>> /\ qit = 1 /\ qlen = 0
  /\ rewrites = <<>> /\ k = 1 /\ urls = {}
  /\ pc = "start"

Erase(s, n) == [m \in 1..(Len(s) - 1) |-> IF m < n THEN s[m] ELSE s[m + 1]]

\* A url that is no url ends here, a whitelisted one is the whole result.
Start ==
  /\ pc = "start"
  /\ IF Clean[url] = NoUrl \/ Clean[url] \in Whitelist
     THEN /\ urls' = {Clean[url]} \ {NoUrl}
          /\ pc' = "done" /\ UNCHANGED queue
     ELSE /\ queue' = <<Clean[url]>>
          /\ pc' = "rules" /\ UNCHANGED urls
  /\ UNCHANGED <<url, rules, rfi, qit, qlen, rewrites, k>>

\* The head of the loop over the rules.
StartRule ==
  /\ pc = "rules" /\ queue # <<>> /\ rfi <= Len(rules)
  /\ qit' = 1 /\ qlen' = Len(queue)
  /\ pc' = "match"
  /\ UNCHANGED <<url, rules, rfi, queue, rewrites, k, urls>>

EndRules ==
  /\ pc = "rules" /\ (queue = <<>> \/ rfi > Len(rules))
  /\ k' = 1 /\ pc' = "blacklist"
  /\ UNCHANGED <<url, rules, rfi, queue, qit, qlen, rewrites, urls>>

\* The rule does not match queue[qit].
Skip ==
  /\ pc = "match" /\ qit <= qlen
  /\ Rewrites[rules[rfi]][queue[qit]] = NoMatch
  /\ qit' = qit + 1
  /\ UNCHANGED <<url, rules, rfi, queue, qlen, rewrites, k, urls, pc>>

\* Mutant: qit-- is missing, the url behind the erased one is not matched.
ReplaceSkipping ==
  /\ pc = "match" /\ qit <= qlen
  /\ Rewrites[rules[rfi]][queue[qit]] # NoMatch
  /\ rewrites' = Rewrites[rules[rfi]][queue[qit]] /\ k' = 1
  /\ queue' = Erase(queue, qit)
  /\ qlen' = qlen - 1 /\ qit' = qit + 1
  /\ pc' = "push"
  /\ UNCHANGED <<url, rules, rfi, urls>>

\* Mutant: qlen-- is missing.
ReplaceKeepingLength ==
  /\ pc = "match" /\ qit <= qlen
  /\ Rewrites[rules[rfi]][queue[qit]] # NoMatch
  /\ rewrites' = Rewrites[rules[rfi]][queue[qit]] /\ k' = 1
  /\ queue' = Erase(queue, qit)
  /\ pc' = "push"
  /\ UNCHANGED <<url, rules, rfi, qit, qlen, urls>>

\* It does: the url is erased, and the next one is now at position qit.
Replace ==
  /\ pc = "match" /\ qit <= qlen
  /\ Rewrites[rules[rfi]][queue[qit]] # NoMatch
  /\ rewrites' = Rewrites[rules[rfi]][queue[qit]] /\ k' = 1
  /\ queue' = Erase(queue, qit)
  /\ qlen' = qlen - 1
  /\ pc' = "push"
  /\ UNCHANGED <<url, rules, rfi, qit, urls>>

EndRule ==
  /\ pc = "match" /\ qit > qlen
  /\ rfi' = rfi + 1 /\ pc' = "rules"
  /\ UNCHANGED <<url, rules, queue, qit, qlen, rewrites, k, urls>>

\* Mutant: the loop goes on to the end of the queue, also when it grows.
PushRescanned ==
  /\ pc = "push" /\ k <= Len(rewrites)
  /\ LET c == Clean[rewrites[k]] IN
       \/ c = NoUrl /\ UNCHANGED <<queue, qlen, urls>>
       \/ c \in Whitelist /\ urls' = urls \cup {c} /\ UNCHANGED <<queue, qlen>>
       \/ /\ c \in Url \ Whitelist
          /\ queue' = Append(queue, c) /\ qlen' = qlen + 1 /\ UNCHANGED urls
  /\ k' = k + 1
  /\ UNCHANGED <<url, rules, rfi, qit, rewrites, pc>>

\* A result of the rewrite is dropped, accepted, or queued.
Push ==
  /\ pc = "push" /\ k <= Len(rewrites)
  /\ LET c == Clean[rewrites[k]] IN
       \/ c = NoUrl /\ UNCHANGED <<queue, urls>>
       \/ c \in Whitelist /\ urls' = urls \cup {c} /\ UNCHANGED queue
       \/ c \in Url \ Whitelist /\ queue' = Append(queue, c) /\ UNCHANGED urls
  /\ k' = k + 1
  /\ UNCHANGED <<url, rules, rfi, qit, qlen, rewrites, pc>>

EndPush ==
  /\ pc = "push" /\ k > Len(rewrites)
  /\ pc' = "match"
  /\ UNCHANGED <<url, rules, rfi, queue, qit, qlen, rewrites, k, urls>>

\* Mutant: the blacklist is not asked for the last url of the queue.
JudgeButLast ==
  /\ pc = "blacklist" /\ k <= Len(queue)
  /\ urls' = urls \cup (IF k < Len(queue) THEN {queue[k]} \ Blacklist ELSE {queue[k]})
  /\ k' = k + 1
  /\ UNCHANGED <<url, rules, rfi, queue, qit, qlen, rewrites, pc>>

\* The loop over what is left in the queue.
Judge ==
  /\ pc = "blacklist" /\ k <= Len(queue)
  /\ urls' = urls \cup ({queue[k]} \ Blacklist)
  /\ k' = k + 1
  /\ UNCHANGED <<url, rules, rfi, queue, qit, qlen, rewrites, pc>>

Return ==
  /\ pc = "blacklist" /\ k > Len(queue)
  /\ pc' = "done"
  /\ UNCHANGED <<url, rules, rfi, queue, qit, qlen, rewrites, k, urls>>

Next ==
  \/ Start \/ StartRule \/ EndRules \/ Skip \/ Replace \/ EndRule
  \/ Push \/ EndPush \/ Judge \/ Return

Spec == Init /\ [][Next]_vars

-----------------------------------------------------------------------------
RulesFrom(n) == SubSeq(rules, n, Len(rules))

\* The rules queue[n] has still to face: rewritten urls (behind qlen) and
\* urls already tried (before qit) are done with the current one.
RemainingRules(n) ==
  IF pc # "rules" /\ (n < qit \/ n > qlen) THEN RulesFrom(rfi + 1)
  ELSE RulesFrom(rfi)

\* What everything still in process will contribute.
Pending ==
  CASE pc = "start" -> Accepted(Outcome, rules, url)
    [] pc \in {"rules", "match"} ->
         UNION {Outcome[RemainingRules(n)][queue[n]] : n \in 1..Len(queue)}
    [] pc = "push" ->
         (UNION {Outcome[RemainingRules(n)][queue[n]] : n \in 1..Len(queue)})
           \cup AcceptedFrom(Outcome, RulesFrom(rfi + 1), rewrites, k)
    [] pc = "blacklist" -> {queue[n] : n \in k..Len(queue)} \ Blacklist
    [] pc = "done" -> {}

(***************************************************************************)
(* Nothing is lost and nothing slips through while the queue is rewritten  *)
(* in place: the results so far and what is pending make up, at every      *)
(* step, the urls the documentation promises.  When the function returns,  *)
(* nothing is pending.                                                     *)
(***************************************************************************)
PromiseKept == urls \cup Pending = Accepted(Outcome, rules, url)

(***************************************************************************)
(* A blacklisted url is in the result only if the whitelist accepts it.    *)
(***************************************************************************)
BlacklistHolds == urls \cap Blacklist \subseteq Whitelist

(***************************************************************************)
(* "rewrite results are only rewritten with later rules => no loops"       *)
(* (url-filter.example:24): the function returns, also when the rules      *)
(* rewrite a url to itself or two urls to each other.                      *)
(***************************************************************************)
NoLoops == <>(pc = "done")
=============================================================================
