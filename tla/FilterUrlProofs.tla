-------------------------- MODULE FilterUrlProofs --------------------------
(***************************************************************************)
(* Proofs about the url filter.  FilterUrl: whatever the rules are and     *)
(* however long their list, the queue that is rewritten in place gives     *)
(* what the documentation of the filter file promises (PromiseKept).       *)
(* UrlCleaner: whatever the url is, what the cleaner makes of it the       *)
(* cleaner leaves as it is (CleanedForGood).                               *)
(***************************************************************************)
EXTENDS FilterUrl, UrlCleaner, Recursion, SequenceTheorems, TLAPS

\* At the start nothing has been done; inside the loop over the queue there is
\* a rule to apply, and those left are a list with an outcome.
LoopInv ==
  /\ pc = "start" => rfi = 1 /\ queue = <<>> /\ urls = {}
  /\ pc \in {"match", "push"} => rfi <= Len(rules)
  /\ RulesFrom(rfi) \in RuleLists

Inv == TypeOK /\ LoopInv /\ PromiseKept

-----------------------------------------------------------------------------
(***************************************************************************)
(* The rules behind rule n are the tail of those from n on, and rule n is  *)
(* their head; behind the last one there is none.                          *)
(***************************************************************************)
LEMMA RulesFromNext ==
  ASSUME rules \in Seq(DOMAIN Rewrites), NEW n \in 1..Len(rules)
  PROVE  /\ RulesFrom(n) # <<>> /\ Head(RulesFrom(n)) = rules[n]
         /\ Tail(RulesFrom(n)) = RulesFrom(n + 1)
<1>1. Len(rules) \in 1..Len(rules) /\ Len(rules) \in n..Len(rules) BY LenProperties
<1>2. Head(SubSeq(rules, n, Len(rules))) = rules[n]
      /\ Tail(SubSeq(rules, n, Len(rules))) = SubSeq(rules, n + 1, Len(rules))
  BY <1>1, HeadTailOfSubSeq
<1>3. Len(SubSeq(rules, n, Len(rules))) = Len(rules) - n + 1 BY <1>1
<1>4. SubSeq(rules, n, Len(rules)) # <<>>
  <2>1. Len(SubSeq(rules, n, Len(rules))) # 0 BY <1>1, <1>3
  <2>2. Len(<<>>) = 0 BY EmptySeq
  <2> QED BY <2>1, <2>2, Zenon
<1> QED BY <1>2, <1>4 DEF RulesFrom

(***************************************************************************)
(* What the constants say of a rule and of a url.                          *)
(***************************************************************************)
LEMMA Constants ==
  /\ \A r \in Raw : Clean[r] \in Url \cup {NoUrl}
  /\ \A rs \in RuleLists : rs \in Seq(DOMAIN Rewrites)
  /\ \A rs \in RuleLists, u \in Url : Outcome[rs][u] \subseteq Url
  /\ \A rule \in DOMAIN Rewrites, u \in Url :
       Rewrites[rule][u] # NoMatch => Rewrites[rule][u] \in Seq(Raw)
BY FilterAssumption

(***************************************************************************)
(* Url by url, a rule that does not match leaves its outcome to the rules  *)
(* behind, one that matches to what it makes of it.                        *)
(***************************************************************************)
LEMMA OutcomeOfRule ==
  ASSUME TypeOK, RulesFrom(rfi) \in RuleLists, rfi <= Len(rules)
  PROVE  /\ RulesFrom(rfi + 1) \in RuleLists
         /\ rules[rfi] \in DOMAIN Rewrites
         /\ \A u \in Url :
              Outcome[RulesFrom(rfi)][u] =
                IF Rewrites[rules[rfi]][u] = NoMatch THEN Outcome[RulesFrom(rfi + 1)][u]
                ELSE AcceptedFrom(Outcome, RulesFrom(rfi + 1), Rewrites[rules[rfi]][u], 1)
<1>1. rules \in Seq(DOMAIN Rewrites) /\ rfi \in 1..Len(rules)
  BY Constants DEF TypeOK
<1>2. /\ RulesFrom(rfi) # <<>> /\ Head(RulesFrom(rfi)) = rules[rfi]
      /\ Tail(RulesFrom(rfi)) = RulesFrom(rfi + 1)
  BY <1>1, RulesFromNext
<1>3. rules[rfi] \in DOMAIN Rewrites BY <1>1, ElementOfSeq
<1>4. RulesFrom(rfi + 1) \in RuleLists BY <1>2, FilterAssumption
<1> QED BY <1>2, <1>3, <1>4, FilterAssumption DEF IsOutcome

(***************************************************************************)
(* Without rules the outcome is what the blacklist leaves.                 *)
(***************************************************************************)
LEMMA OutcomeAtEnd ==
  ASSUME TypeOK, RulesFrom(rfi) \in RuleLists, rfi > Len(rules)
  PROVE  \A u \in Url : Outcome[RulesFrom(rfi)][u] = {u} \ Blacklist
<1>1. rules \in Seq(DOMAIN Rewrites) /\ rfi \in Nat BY Constants DEF TypeOK
<1>2. RulesFrom(rfi) = <<>> BY <1>1, SubSeqEmpty DEF RulesFrom
<1> QED BY <1>2, FilterAssumption DEF IsOutcome

(***************************************************************************)
(* Erasing one element keeps the others, in their order.                   *)
(***************************************************************************)
LEMMA Erased ==
  ASSUME NEW S, NEW s \in Seq(S), NEW n \in 1..Len(s)
  PROVE  /\ Erase(s, n) \in Seq(S) /\ Len(Erase(s, n)) = Len(s) - 1
         /\ \A m \in 1..(Len(s) - 1) : Erase(s, n)[m] = IF m < n THEN s[m] ELSE s[m + 1]
<1>1. \A m \in 1..(Len(s) - 1) : (IF m < n THEN s[m] ELSE s[m + 1]) \in S
  BY ElementOfSeq
<1>2. Len(s) - 1 \in Nat BY LenProperties
<1> QED BY <1>1, <1>2 DEF Erase

\* g is f without its i-th of len members.
WithoutOne(f, g, i, len) ==
  /\ len \in Nat /\ i \in 1..len
  /\ \A n \in 1..(i - 1) : g[n] = f[n]
  /\ \A n \in i..(len - 1) : g[n] = f[n + 1]

(***************************************************************************)
(* Taking one of several sets out moves the ones behind it; their union is *)
(* the same as long as the one taken out is added.                         *)
(***************************************************************************)
LEMMA UnionWithoutOne ==
  ASSUME NEW len, NEW i, NEW f, NEW g, WithoutOne(f, g, i, len)
  PROVE  UNION {f[n] : n \in 1..len} = (UNION {g[n] : n \in 1..(len - 1)}) \cup f[i]
<1> len \in Nat /\ i \in 1..len /\ (\A n \in 1..(i - 1) : g[n] = f[n])
    /\ \A n \in i..(len - 1) : g[n] = f[n + 1]
  BY DEF WithoutOne
<1>1. ASSUME NEW n \in 1..len, NEW v \in f[n]
      PROVE  v \in (UNION {g[m] : m \in 1..(len - 1)}) \cup f[i]
  <2>1. CASE n < i
    <3>1. n \in 1..(i - 1) /\ n \in 1..(len - 1) BY <2>1
    <3>2. g[n] = f[n] BY <3>1
    <3> QED BY <1>1, <3>1, <3>2
  <2>2. CASE n = i BY <1>1, <2>2
  <2>3. CASE n > i
    <3>1. n - 1 \in i..(len - 1) /\ n - 1 \in 1..(len - 1) /\ (n - 1) + 1 = n BY <2>3
    <3>2. g[n - 1] = f[(n - 1) + 1] BY <3>1
    <3>3. g[n - 1] = f[n] BY <3>1, <3>2
    <3> QED BY <1>1, <3>1, <3>3
  <2> QED BY <2>1, <2>2, <2>3
<1>2. ASSUME NEW n \in 1..(len - 1), NEW v \in g[n]
      PROVE  v \in UNION {f[m] : m \in 1..len}
  <2>1. n \in 1..len /\ n + 1 \in 1..len OBVIOUS
  <2>2. n \in 1..(i - 1) \/ n \in i..(len - 1) OBVIOUS
  <2> QED BY <1>2, <2>1, <2>2
<1>3. f[i] \subseteq UNION {f[m] : m \in 1..len} OBVIOUS
<1> QED BY <1>1, <1>2, <1>3

(***************************************************************************)
(* What a sequence contributes from position k on is what its element k    *)
(* contributes and what the rest does.                                     *)
(***************************************************************************)
LEMMA AcceptedFromNext ==
  ASSUME NEW rs, NEW S, NEW s \in Seq(S), NEW n \in Nat
  PROVE  /\ n <= Len(s) => AcceptedFrom(Outcome, rs, s, n) =
                             Accepted(Outcome, rs, s[n]) \cup AcceptedFrom(Outcome, rs, s, n + 1)
         /\ n > Len(s) => AcceptedFrom(Outcome, rs, s, n) = {}
<1>1. Len(s) \in Nat BY LenProperties
<1>2. n <= Len(s) => n..Len(s) = {n} \cup (n + 1)..Len(s) BY <1>1
<1>3. n > Len(s) => n..Len(s) = {} BY <1>1
<1> QED BY <1>2, <1>3 DEF AcceptedFrom

-----------------------------------------------------------------------------
(***************************************************************************)
(* At first the whole url is pending.                                      *)
(***************************************************************************)
LEMMA InvInit == Init => Inv
<1> SUFFICES ASSUME Init PROVE Inv
  OBVIOUS
<1>1. rules \in Seq(DOMAIN Rewrites) BY Constants DEF Init
<1>2. RulesFrom(1) = rules BY <1>1, SubSeqFull DEF RulesFrom, Init
<1>3. TypeOK BY <1>1 DEF Init, TypeOK
<1>4. LoopInv BY <1>2 DEF Init, LoopInv
<1>5. PromiseKept BY DEF Init, PromiseKept, Pending
<1> QED BY <1>3, <1>4, <1>5 DEF Inv

(***************************************************************************)
(* A url that is refused or whitelisted is decided at once.                *)
(***************************************************************************)
LEMMA StartStep == ASSUME Inv, Start PROVE Inv'
<1>0. /\ pc = "start" /\ UNCHANGED <<url, rules, rfi, qit, qlen, rewrites, k>>
      /\ rfi = 1 /\ urls = {} /\ queue = <<>> /\ url \in Raw
      /\ rules \in Seq(DOMAIN Rewrites)
  BY Constants DEF Start, Inv, LoopInv, TypeOK
<1>1. RulesFrom(rfi) = rules BY <1>0, SubSeqFull DEF RulesFrom
<1>2. Accepted(Outcome, rules, url) = urls \cup Pending
  BY <1>0 DEF Inv, PromiseKept
<1>3. CASE Clean[url] = NoUrl \/ Clean[url] \in Whitelist
  <2>1. /\ urls' = {Clean[url]} \ {NoUrl} /\ pc' = "done" /\ queue' = queue
    BY <1>3 DEF Start
  <2>2. urls' = Accepted(Outcome, rules, url)
    BY <1>3, <2>1, FilterAssumption DEF Accepted
  <2>3. urls' \subseteq Url BY <1>0, <2>1, Constants
  <2>4. TypeOK' BY <1>0, <2>1, <2>3 DEF Inv, TypeOK
  <2>5. LoopInv' BY <1>0, <2>1 DEF Inv, LoopInv, RulesFrom
  <2>6. PromiseKept' BY <1>0, <2>1, <2>2 DEF PromiseKept, Pending
  <2> QED BY <2>4, <2>5, <2>6 DEF Inv
<1>4. CASE ~(Clean[url] = NoUrl \/ Clean[url] \in Whitelist)
  <2>1. /\ queue' = <<Clean[url]>> /\ pc' = "rules" /\ urls' = urls
    BY <1>4 DEF Start
  <2>2. Clean[url] \in Url BY <1>0, <1>4, Constants
  <2>3. TypeOK' BY <1>0, <2>1, <2>2 DEF Inv, TypeOK
  <2>4. LoopInv' BY <1>0, <2>1 DEF Inv, LoopInv, RulesFrom
  <2>5. Len(queue') = 1 /\ queue'[1] = Clean[url] BY <2>1
  <2>6. Pending' = UNION {Outcome[RemainingRules(n)'][queue'[n]] : n \in 1..Len(queue')}
    BY <2>1 DEF Pending
  <2>7. \A n \in 1..Len(queue') : RemainingRules(n)' = rules
    BY <1>0, <1>1, <2>1 DEF RemainingRules, RulesFrom
  <2>8. Pending' = Outcome[rules][Clean[url]] BY <2>5, <2>6, <2>7
  <2>9. PromiseKept' BY <1>0, <1>4, <2>1, <2>8 DEF PromiseKept, Accepted
  <2> QED BY <2>3, <2>4, <2>9 DEF Inv
<1> QED BY <1>3, <1>4

(***************************************************************************)
(* With a rule begins the loop over the queue: every url has still to face *)
(* it, as before.                                                          *)
(***************************************************************************)
LEMMA StartRuleStep == ASSUME Inv, StartRule PROVE Inv'
<1>0. /\ pc = "rules" /\ pc' = "match" /\ rfi <= Len(rules)
      /\ qit' = 1 /\ qlen' = Len(queue)
      /\ UNCHANGED <<url, rules, rfi, queue, rewrites, k, urls>>
  BY DEF StartRule
<1>1. TypeOK' BY <1>0 DEF Inv, TypeOK
<1>2. LoopInv' BY <1>0 DEF Inv, LoopInv, RulesFrom
<1>3. \A n \in 1..Len(queue) : RemainingRules(n)' = RemainingRules(n)
  BY <1>0 DEF RemainingRules, RulesFrom, Inv, TypeOK
<1>4. Pending' = Pending BY <1>0, <1>3 DEF Pending
<1>5. PromiseKept' BY <1>0, <1>4 DEF PromiseKept, Inv
<1> QED BY <1>1, <1>2, <1>5 DEF Inv

(***************************************************************************)
(* Behind the last rule, and when the queue is empty, only the blacklist   *)
(* is left to ask.                                                         *)
(***************************************************************************)
LEMMA EndRulesStep == ASSUME Inv, EndRules PROVE Inv'
<1>0. /\ pc = "rules" /\ pc' = "blacklist" /\ k' = 1
      /\ queue = <<>> \/ rfi > Len(rules)
      /\ UNCHANGED <<url, rules, rfi, queue, qit, qlen, rewrites, urls>>
  BY DEF EndRules
<1>1. TypeOK' BY <1>0 DEF Inv, TypeOK
<1>2. LoopInv' BY <1>0 DEF Inv, LoopInv, RulesFrom
<1>3. \A n \in 1..Len(queue) : queue[n] \in Url BY ElementOfSeq DEF Inv, TypeOK
<1>4. Pending = UNION {Outcome[RulesFrom(rfi)][queue[n]] : n \in 1..Len(queue)}
  BY <1>0 DEF Pending, RemainingRules
<1>5. Pending' = {queue[n] : n \in 1..Len(queue)} \ Blacklist
  BY <1>0 DEF Pending
<1>6. Pending' = Pending
  <2>1. CASE queue = <<>> BY <1>4, <1>5, <2>1
  <2>2. CASE rfi > Len(rules)
    <3>1. \A n \in 1..Len(queue) : Outcome[RulesFrom(rfi)][queue[n]] = {queue[n]} \ Blacklist
      BY <1>3, <2>2, OutcomeAtEnd DEF Inv, LoopInv
    <3>2. Pending = UNION {{queue[n]} \ Blacklist : n \in 1..Len(queue)}
      BY <1>4, <3>1
    <3> QED BY <1>5, <3>2
  <2> QED BY <1>0, <2>1, <2>2
<1>7. PromiseKept' BY <1>0, <1>6 DEF PromiseKept, Inv
<1> QED BY <1>1, <1>2, <1>7 DEF Inv
(***************************************************************************)
(* The loops over the queue have a rule, and positions within it.          *)
(***************************************************************************)
LEMMA InLoop ==
  ASSUME Inv, pc \in {"match", "push"}
  PROVE  /\ rfi \in 1..Len(rules) /\ RulesFrom(rfi) \in RuleLists
         /\ RulesFrom(rfi + 1) \in RuleLists /\ rules[rfi] \in DOMAIN Rewrites
         /\ queue \in Seq(Url) /\ Len(queue) \in Nat
         /\ qlen \in 0..Len(queue) /\ qit \in 1..(qlen + 1)
         /\ \A n \in 1..Len(queue) : queue[n] \in Url
<1>1. rfi <= Len(rules) /\ RulesFrom(rfi) \in RuleLists /\ rfi \in 1..(Len(rules) + 1)
  BY DEF Inv, LoopInv, TypeOK
<1>2. rules \in Seq(DOMAIN Rewrites) BY Constants DEF Inv, TypeOK
<1>3. RulesFrom(rfi + 1) \in RuleLists /\ rules[rfi] \in DOMAIN Rewrites
  BY <1>1, OutcomeOfRule DEF Inv
<1> QED BY <1>1, <1>2, <1>3, ElementOfSeq DEF Inv, TypeOK

(***************************************************************************)
(* A url the rule does not match has the same outcome from the next rule   *)
(* on, which is where RemainingRules moves it.                             *)
(***************************************************************************)
LEMMA SkipStep == ASSUME Inv, Skip PROVE Inv'
<1>0. /\ pc = "match" /\ pc' = pc /\ qit <= qlen /\ qit' = qit + 1
      /\ Rewrites[rules[rfi]][queue[qit]] = NoMatch
      /\ UNCHANGED <<url, rules, rfi, queue, qlen, rewrites, k, urls>>
  BY DEF Skip
<1>1. TypeOK' BY <1>0 DEF Inv, TypeOK
<1>2. LoopInv' BY <1>0 DEF Inv, LoopInv, RulesFrom
<1>3. qit \in 1..Len(queue) /\ queue[qit] \in Url BY <1>0, InLoop
<1>4. Outcome[RulesFrom(rfi)][queue[qit]] = Outcome[RulesFrom(rfi + 1)][queue[qit]]
  BY <1>0, <1>3, InLoop, OutcomeOfRule DEF Inv
<1>5. \A n \in 1..Len(queue) :
        Outcome[RemainingRules(n)'][queue[n]] = Outcome[RemainingRules(n)][queue[n]]
  <2> SUFFICES ASSUME NEW n \in 1..Len(queue)
               PROVE  Outcome[RemainingRules(n)'][queue[n]] = Outcome[RemainingRules(n)][queue[n]]
    OBVIOUS
  <2>1. CASE n = qit
    BY <1>0, <1>4, <2>1, InLoop DEF RemainingRules, RulesFrom
  <2>2. CASE n # qit
    BY <1>0, <2>2, InLoop DEF RemainingRules, RulesFrom
  <2> QED BY <2>1, <2>2
<1>6. Pending' = Pending BY <1>0, <1>5 DEF Pending
<1>7. PromiseKept' BY <1>0, <1>6 DEF PromiseKept, Inv
<1> QED BY <1>1, <1>2, <1>7 DEF Inv

(***************************************************************************)
(* At the end of the loop every url has faced the rule.                    *)
(***************************************************************************)
LEMMA EndRuleStep == ASSUME Inv, EndRule PROVE Inv'
<1>0. /\ pc = "match" /\ pc' = "rules" /\ qit > qlen /\ rfi' = rfi + 1
      /\ UNCHANGED <<url, rules, queue, qit, qlen, rewrites, k, urls>>
  BY DEF EndRule
<1>1. TypeOK' BY <1>0, InLoop DEF Inv, TypeOK
<1>2. RulesFrom(rfi)' = RulesFrom(rfi + 1) BY <1>0 DEF RulesFrom
<1>3. LoopInv' BY <1>0, <1>2, InLoop DEF LoopInv
<1>4. \A n \in 1..Len(queue) : RemainingRules(n)' = RemainingRules(n)
  BY <1>0, <1>2, InLoop DEF RemainingRules
<1>5. Pending' = Pending BY <1>0, <1>4 DEF Pending
<1>6. PromiseKept' BY <1>0, <1>5 DEF PromiseKept, Inv
<1> QED BY <1>1, <1>3, <1>6 DEF Inv

(***************************************************************************)
(* The url that is erased is replaced, in what is pending, by what the     *)
(* rule makes of it; the others keep the rules they have still to face,    *)
(* though their positions change.                                          *)
(***************************************************************************)
LEMMA ReplaceStep == ASSUME Inv, Replace PROVE Inv'
<1>0. /\ pc = "match" /\ pc' = "push" /\ qit <= qlen /\ qlen' = qlen - 1
      /\ Rewrites[rules[rfi]][queue[qit]] # NoMatch
      /\ rewrites' = Rewrites[rules[rfi]][queue[qit]] /\ k' = 1
      /\ queue' = Erase(queue, qit)
      /\ UNCHANGED <<url, rules, rfi, qit, urls>>
  BY DEF Replace
<1>a. qit \in 1..Len(queue) /\ queue[qit] \in Url BY <1>0, InLoop
<1>b. /\ queue' \in Seq(Url) /\ Len(queue') = Len(queue) - 1
      /\ \A n \in 1..(Len(queue) - 1) : queue'[n] = IF n < qit THEN queue[n] ELSE queue[n + 1]
  BY <1>0, <1>a, InLoop, Erased
<1>c. rewrites' \in Seq(Raw) BY <1>0, <1>a, InLoop, Constants
<1>1. TypeOK' BY <1>0, <1>b, <1>c, InLoop DEF Inv, TypeOK
<1>2. LoopInv' BY <1>0 DEF Inv, LoopInv, RulesFrom
<1>3. Outcome[RulesFrom(rfi)][queue[qit]] = AcceptedFrom(Outcome, RulesFrom(rfi + 1), rewrites', 1)
  BY <1>0, <1>a, InLoop, OutcomeOfRule DEF Inv
<1> DEFINE before == [n \in 1..Len(queue) |-> Outcome[RemainingRules(n)][queue[n]]]
           after == [n \in 1..Len(queue') |-> Outcome[RemainingRules(n)'][queue'[n]]]
<1>4. /\ \A n \in 1..Len(queue') : RemainingRules(n)' =
            IF n < qit \/ n > qlen - 1 THEN RulesFrom(rfi + 1) ELSE RulesFrom(rfi)
      /\ \A n \in 1..Len(queue) : RemainingRules(n) =
            IF n < qit \/ n > qlen THEN RulesFrom(rfi + 1) ELSE RulesFrom(rfi)
  BY <1>0 DEF RemainingRules, RulesFrom
<1>5. ASSUME NEW n \in 1..Len(queue), n < qit
      PROVE  n \in 1..Len(queue') /\ after[n] = before[n]
  <2>1. n \in 1..Len(queue') /\ n \in 1..(Len(queue) - 1) BY <1>a, <1>b, <1>5, InLoop, <1>0
  <2>2. queue'[n] = queue[n] BY <1>b, <1>5, <2>1
  <2>3. RemainingRules(n)' = RemainingRules(n) BY <1>4, <1>5, <2>1
  <2> QED BY <2>1, <2>2, <2>3
<1>6. ASSUME NEW n \in 1..Len(queue'), n >= qit
      PROVE  n + 1 \in 1..Len(queue) /\ after[n] = before[n + 1]
  <2>1. n + 1 \in 1..Len(queue) /\ n \in 1..(Len(queue) - 1) BY <1>b, InLoop, <1>0
  <2>2. queue'[n] = queue[n + 1] BY <1>a, <1>b, <1>6, <2>1
  <2>3. RemainingRules(n + 1) =
          IF n + 1 < qit \/ n + 1 > qlen THEN RulesFrom(rfi + 1) ELSE RulesFrom(rfi)
    BY <1>4, <2>1
  <2>4. RemainingRules(n)' = RemainingRules(n + 1)
    <3>1. qit \in 1..Len(queue) /\ qlen \in 0..Len(queue) /\ qit <= qlen
      BY <1>a, <1>0, InLoop
    <3>2. n < qit \/ n > qlen - 1 <=> n + 1 < qit \/ n + 1 > qlen BY <1>6, <2>1, <3>1
    <3> QED BY <1>4, <2>3, <3>2
  <2> QED BY <2>1, <2>2, <2>4
<1>7. before[qit] = Outcome[RulesFrom(rfi)][queue[qit]]
  <2>1. RemainingRules(qit) = RulesFrom(rfi) BY <1>0, <1>a, <1>4, InLoop
  <2> QED BY <1>a, <2>1
<1>8. Pending = UNION {before[n] : n \in 1..Len(queue)} BY <1>0 DEF Pending
<1>9. Pending' = (UNION {after[n] : n \in 1..Len(queue')}) \cup before[qit]
  <2>1. AcceptedFrom(Outcome, RulesFrom(rfi + 1), rewrites, k)' =
          AcceptedFrom(Outcome, RulesFrom(rfi + 1), rewrites', 1)
    BY <1>0 DEF AcceptedFrom, RulesFrom
  <2>2. Pending' = (UNION {after[n] : n \in 1..Len(queue')})
                     \cup AcceptedFrom(Outcome, RulesFrom(rfi + 1), rewrites, k)'
    BY <1>0 DEF Pending
  <2> QED BY <1>3, <1>7, <2>1, <2>2
<1>10. Pending' = Pending
  <2> HIDE DEF before, after
  <2>1. Len(queue) \in Nat /\ Len(queue') = Len(queue) - 1 BY <1>b, InLoop, <1>0
  <2>2. \A n \in 1..(qit - 1) : after[n] = before[n] BY <1>5, <1>a, <2>1
  <2>3. \A n \in qit..(Len(queue) - 1) : after[n] = before[n + 1] BY <1>6, <1>a, <2>1
  <2>0. qit \in 1..Len(queue) BY <1>a
  <2>4. UNION {before[n] : n \in 1..Len(queue)} =
          (UNION {after[n] : n \in 1..(Len(queue) - 1)}) \cup before[qit]
    <3>1. PICK f : f = before OBVIOUS
    <3>2. PICK g : g = after OBVIOUS
    <3>3. PICK i : i = qit OBVIOUS
    <3>4. PICK len : len = Len(queue) OBVIOUS
    <3>5. /\ len \in Nat /\ i \in 1..len
          /\ \A n \in 1..(i - 1) : g[n] = f[n]
          /\ \A n \in i..(len - 1) : g[n] = f[n + 1]
      BY <2>0, <2>1, <2>2, <2>3, <3>1, <3>2, <3>3, <3>4
    <3>6. UNION {f[n] : n \in 1..len} = (UNION {g[n] : n \in 1..(len - 1)}) \cup f[i]
      <4>1. WithoutOne(f, g, i, len) BY ONLY <3>5 DEF WithoutOne
      <4> QED BY ONLY <4>1, UnionWithoutOne
    <3> QED BY <3>1, <3>2, <3>3, <3>4, <3>6
  <2> QED BY <1>8, <1>9, <2>1, <2>4
<1>11. PromiseKept' BY <1>0, <1>10 DEF PromiseKept, Inv
<1> QED BY <1>1, <1>2, <1>11 DEF Inv

(***************************************************************************)
(* A result of the rewrite moves from what is still to be pushed into the  *)
(* results or behind the end of the loop, where it has the later rules     *)
(* left, or contributes nothing.                                           *)
(***************************************************************************)
LEMMA PushStep == ASSUME Inv, Push PROVE Inv'
<1> DEFINE c == Clean[rewrites[k]]
           rest == RulesFrom(rfi + 1)
<1>0. /\ pc = "push" /\ pc' = pc /\ k <= Len(rewrites) /\ k' = k + 1
      /\ \/ c = NoUrl /\ UNCHANGED <<queue, urls>>
         \/ c \in Whitelist /\ urls' = urls \cup {c} /\ UNCHANGED queue
         \/ c \in Url \ Whitelist /\ queue' = Append(queue, c) /\ UNCHANGED urls
      /\ UNCHANGED <<url, rules, rfi, qit, qlen, rewrites>>
  BY DEF Push
<1>1. rewrites \in Seq(Raw) /\ k \in Nat \ {0} /\ urls \subseteq Url BY DEF Inv, TypeOK
<1>2. k \in 1..Len(rewrites) /\ rewrites[k] \in Raw BY <1>0, <1>1, ElementOfSeq
<1>3. c \in Url \cup {NoUrl} BY <1>2, Constants
<1>4. RulesFrom(rfi)' = RulesFrom(rfi) /\ RulesFrom(rfi + 1)' = rest
  BY <1>0 DEF RulesFrom
<1>5. LoopInv' BY <1>0, <1>4 DEF Inv, LoopInv
<1>6. AcceptedFrom(Outcome, rest, rewrites, k) =
        Accepted(Outcome, rest, rewrites[k]) \cup AcceptedFrom(Outcome, rest, rewrites, k')
  BY <1>0, <1>1, AcceptedFromNext
<1> DEFINE inQueue == UNION {Outcome[RemainingRules(n)][queue[n]] : n \in 1..Len(queue)}
<1>7. Pending = inQueue \cup Accepted(Outcome, rest, rewrites[k])
                  \cup AcceptedFrom(Outcome, rest, rewrites, k')
  BY <1>0, <1>6 DEF Pending
<1>8. Pending' = (UNION {Outcome[RemainingRules(n)'][queue'[n]] : n \in 1..Len(queue')})
                   \cup AcceptedFrom(Outcome, rest, rewrites, k')
  BY <1>0, <1>4 DEF Pending, AcceptedFrom
<1>9. \A n \in 1..Len(queue) : RemainingRules(n)' = RemainingRules(n)
  BY <1>0, <1>4 DEF RemainingRules
<1>10. CASE queue' = queue
  <2>0. urls' \subseteq Url BY <1>0, <1>1, FilterAssumption
  <2>1. TypeOK' BY <1>0, <1>1, <1>10, <2>0 DEF Inv, TypeOK
  <2>2. Pending' = inQueue \cup AcceptedFrom(Outcome, rest, rewrites, k')
    BY <1>8, <1>9, <1>10
  <2>3. urls' = urls \cup Accepted(Outcome, rest, rewrites[k])
    BY <1>0, <1>3, <1>10, FilterAssumption DEF Accepted
  <2>4. urls' \cup Pending' = urls \cup Pending BY <1>7, <2>2, <2>3
  <2>5. PromiseKept' BY <1>0, <2>4 DEF PromiseKept, Inv
  <2> QED BY <1>5, <2>1, <2>5 DEF Inv
<1>11. CASE c \in Url \ Whitelist /\ queue' = Append(queue, c) /\ urls' = urls
  <2>0. Len(queue') = Len(queue) + 1 /\ queue' \in Seq(Url) /\ queue'[Len(queue')] = c
        /\ \A n \in 1..Len(queue) : queue'[n] = queue[n]
    BY <1>0, <1>11, InLoop, AppendProperties
  <2>1. TypeOK' BY <1>0, <1>1, <1>11, <2>0, InLoop DEF Inv, TypeOK
  <2>a. PICK last : last = Len(queue') OBVIOUS
  <2>2. RemainingRules(last)' = rest
    <3>1. last > qlen BY <1>0, <2>0, <2>a, InLoop
    <3> QED BY <1>0, <1>4, <3>1 DEF RemainingRules
  <2>3. 1..Len(queue') = 1..Len(queue) \cup {last} /\ queue'[last] = c
    <3>1. Len(queue) \in Nat BY <1>0, InLoop
    <3>2. queue'[last] = c BY <2>0, <2>a
    <3>3. 1..(Len(queue) + 1) = 1..Len(queue) \cup {Len(queue) + 1} BY <3>1
    <3> QED BY <2>0, <2>a, <3>2, <3>3
  <2>4. UNION {Outcome[RemainingRules(n)'][queue'[n]] : n \in 1..Len(queue')} =
          inQueue \cup Outcome[rest][c]
    BY <1>9, <2>0, <2>2, <2>3
  <2>5. Accepted(Outcome, rest, rewrites[k]) = Outcome[rest][c]
    BY <1>11, FilterAssumption DEF Accepted
  <2>6. urls' \cup Pending' = urls \cup Pending BY <1>7, <1>8, <1>11, <2>4, <2>5
  <2>7. PromiseKept' BY <1>0, <2>6 DEF PromiseKept, Inv
  <2> QED BY <1>5, <2>1, <2>7 DEF Inv
<1> QED BY <1>0, <1>10, <1>11

(***************************************************************************)
(* When all results are pushed the loop over the queue goes on.            *)
(***************************************************************************)
LEMMA EndPushStep == ASSUME Inv, EndPush PROVE Inv'
<1>0. /\ pc = "push" /\ pc' = "match" /\ k > Len(rewrites)
      /\ UNCHANGED <<url, rules, rfi, queue, qit, qlen, rewrites, k, urls>>
  BY DEF EndPush
<1>1. TypeOK' BY <1>0 DEF Inv, TypeOK
<1>2. LoopInv' BY <1>0 DEF Inv, LoopInv, RulesFrom
<1>3. rewrites \in Seq(Raw) /\ k \in Nat BY DEF Inv, TypeOK
<1>4. AcceptedFrom(Outcome, RulesFrom(rfi + 1), rewrites, k) = {}
  BY <1>0, <1>3, AcceptedFromNext
<1>5. \A n \in 1..Len(queue) : RemainingRules(n)' = RemainingRules(n)
  BY <1>0 DEF RemainingRules, RulesFrom
<1>6. Pending' = Pending BY <1>0, <1>4, <1>5 DEF Pending
<1>7. PromiseKept' BY <1>0, <1>6 DEF PromiseKept, Inv
<1> QED BY <1>1, <1>2, <1>7 DEF Inv

(***************************************************************************)
(* The next url of the queue is judged.                                    *)
(***************************************************************************)
LEMMA JudgeStep == ASSUME Inv, Judge PROVE Inv'
<1>0. /\ pc = "blacklist" /\ pc' = pc /\ k <= Len(queue) /\ k' = k + 1
      /\ urls' = urls \cup ({queue[k]} \ Blacklist)
      /\ UNCHANGED <<url, rules, rfi, queue, qit, qlen, rewrites>>
  BY DEF Judge
<1>1. queue \in Seq(Url) /\ k \in Nat \ {0} /\ Len(queue) \in Nat
  BY LenProperties DEF Inv, TypeOK
<1>2. k \in 1..Len(queue) /\ queue[k] \in Url BY <1>0, <1>1, ElementOfSeq
<1>3. TypeOK' BY <1>0, <1>1, <1>2 DEF Inv, TypeOK
<1>4. LoopInv' BY <1>0 DEF Inv, LoopInv, RulesFrom
<1>5. k..Len(queue) = {k} \cup k'..Len(queue) BY <1>0, <1>1
<1>6. {queue[n] : n \in k..Len(queue)} = {queue[k]} \cup {queue[n] : n \in k'..Len(queue)}
  BY <1>5
<1>7. Pending = ({queue[k]} \ Blacklist) \cup Pending' BY <1>0, <1>6 DEF Pending
<1>8. PromiseKept' BY <1>0, <1>7 DEF PromiseKept, Inv
<1> QED BY <1>3, <1>4, <1>8 DEF Inv

(***************************************************************************)
(* At the end nothing is pending.                                          *)
(***************************************************************************)
LEMMA ReturnStep == ASSUME Inv, Return PROVE Inv'
<1>0. /\ pc = "blacklist" /\ pc' = "done" /\ k > Len(queue)
      /\ UNCHANGED <<url, rules, rfi, queue, qit, qlen, rewrites, k, urls>>
  BY DEF Return
<1>1. TypeOK' BY <1>0 DEF Inv, TypeOK
<1>2. LoopInv' BY <1>0 DEF Inv, LoopInv, RulesFrom
<1>3. k..Len(queue) = {} BY <1>0, LenProperties DEF Inv, TypeOK
<1>4. Pending = {} /\ Pending' = {} BY <1>0, <1>3 DEF Pending
<1>5. PromiseKept' BY <1>0, <1>4 DEF PromiseKept, Inv
<1> QED BY <1>1, <1>2, <1>5 DEF Inv

(***************************************************************************)
(* Inv is inductive.                                                       *)
(***************************************************************************)
LEMMA InvNext == Inv /\ [Next]_vars => Inv'
<1> SUFFICES ASSUME Inv, [Next]_vars PROVE Inv'
  OBVIOUS
<1>1. CASE Next
  BY <1>1, StartStep, StartRuleStep, EndRulesStep, SkipStep, ReplaceStep, EndRuleStep,
     PushStep, EndPushStep, JudgeStep, ReturnStep DEF Next
<1>2. CASE UNCHANGED vars
  <2>1. UNCHANGED <<url, rules, rfi, queue, qit, qlen, rewrites, k, urls, pc>>
    BY <1>2 DEF vars
  <2>2. TypeOK' BY <2>1 DEF Inv, TypeOK
  <2>3. LoopInv' BY <2>1 DEF Inv, LoopInv, RulesFrom
  <2>4. Pending' = Pending BY <2>1 DEF Pending, RemainingRules, RulesFrom, AcceptedFrom
  <2>5. PromiseKept' BY <2>1, <2>4 DEF Inv, PromiseKept
  <2> QED BY <2>2, <2>3, <2>5 DEF Inv
<1> QED BY <1>1, <1>2

-----------------------------------------------------------------------------
(***************************************************************************)
(* The queue, its loop's bounds and the results have their types in every  *)
(* reachable state.                                                        *)
(***************************************************************************)
THEOREM TypeCorrect == Spec => []TypeOK
<1>1. Inv => TypeOK BY DEF Inv
<1> QED BY InvInit, InvNext, <1>1, PTL DEF Spec

(***************************************************************************)
(* The results so far and what is pending are, at every step, the urls the *)
(* documentation of the filter file promises.                              *)
(***************************************************************************)
THEOREM KeepsPromise == Spec => []PromiseKept
<1>1. Inv => PromiseKept BY DEF Inv
<1> QED BY InvInit, InvNext, <1>1, PTL DEF Spec

(***************************************************************************)
(* What filterUrl returns are the urls the documentation promises.         *)
(***************************************************************************)
THEOREM ReturnsPromised == Spec => [](pc = "done" => urls = Accepted(Outcome, rules, url))
<1>1. Inv => (pc = "done" => urls = Accepted(Outcome, rules, url))
  BY DEF Inv, PromiseKept, Pending
<1> QED BY InvInit, InvNext, <1>1, PTL DEF Spec

(***************************************************************************)
(* No blacklisted url is in the result unless it is whitelisted: what is   *)
(* added is whitelisted, or was asked of the blacklist.                    *)
(***************************************************************************)
THEOREM BlacklistAlwaysHolds == Spec => []BlacklistHolds
<1>1. Init => BlacklistHolds BY DEF Init, BlacklistHolds
<1>2. BlacklistHolds /\ [Next]_vars => BlacklistHolds'
  <2> SUFFICES ASSUME BlacklistHolds, [Next]_vars PROVE BlacklistHolds'
    OBVIOUS
  <2>1. CASE Start BY <2>1 DEF Start, BlacklistHolds
  <2>2. CASE Push BY <2>2 DEF Push, BlacklistHolds
  <2>3. CASE Judge BY <2>3 DEF Judge, BlacklistHolds
  <2>4. CASE UNCHANGED urls BY <2>4 DEF BlacklistHolds
  <2>5. UNCHANGED urls \/ Start \/ Push \/ Judge
    BY DEF Next, vars, StartRule, EndRules, Skip, Replace, EndRule, EndPush, Return
  <2> QED BY <2>1, <2>2, <2>3, <2>4, <2>5
<1> QED BY <1>1, <1>2, PTL DEF Spec

-----------------------------------------------------------------------------
\* A url that is put together of a protocol, a domain, a port and a path.
IsUrl(u, p, d, t, h) ==
  /\ u \in Seq(Char) /\ p \in Seq(Char) /\ d \in Seq(Char) /\ t \in Seq(Char) /\ h \in Seq(Char)
  /\ Len(u) = Len(p) + 3 + Len(d) + Len(t) + Len(h)
  /\ \A i \in 1..Len(p) : u[i] = p[i]
  /\ u[Len(p) + 1] = ":" /\ u[Len(p) + 2] = "/" /\ u[Len(p) + 3] = "/"
  /\ \A i \in 1..Len(d) : u[Len(p) + 3 + i] = d[i]
  /\ \A i \in 1..Len(t) : u[Len(p) + 3 + Len(d) + i] = t[i]
  /\ \A i \in 1..Len(h) : u[Len(p) + 3 + Len(d) + Len(t) + i] = h[i]

(***************************************************************************)
(* A first or last member is the least or greatest.                        *)
(***************************************************************************)
LEMMA MinIs ==
  ASSUME NEW T \in SUBSET Int, NEW m \in T, \A x \in T : m <= x
  PROVE  Min(T) = m
<1>1. \A x \in T : (\A y \in T : x <= y) => x = m OBVIOUS
<1> QED BY <1>1 DEF Min

(***************************************************************************)
(* The greatest member, likewise.                                          *)
(***************************************************************************)
LEMMA MaxIs ==
  ASSUME NEW T \in SUBSET Int, NEW m \in T, \A x \in T : x <= m
  PROVE  Max(T) = m
<1>1. \A x \in T : (\A y \in T : x >= y) => x = m OBVIOUS
<1> QED BY <1>1 DEF Max

(***************************************************************************)
(* A set of positions that is not empty has a first one.                   *)
(***************************************************************************)
LEMMA MinExists ==
  ASSUME NEW T \in SUBSET Nat, T # {}
  PROVE  Min(T) \in T /\ \A x \in T : Min(T) <= x
<1>1. \E n \in T : \A x \in T : n <= x BY LeastExists
<1> QED BY <1>1, Zenon DEF Min

(***************************************************************************)
(* The greatest up to a bound.                                             *)
(***************************************************************************)
LEMMA MaxExists ==
  ASSUME NEW b \in Nat, NEW T \in SUBSET 0..b, T # {}
  PROVE  Max(T) \in T /\ \A x \in T : x <= Max(T)
<1> DEFINE S == {b - x : x \in T}
<1>0. \A x \in T : x \in 0..b OBVIOUS
<1>1. S \in SUBSET Nat /\ S # {}
  <2>1. \A x \in 0..b : b - x \in Nat OBVIOUS
  <2> QED BY <1>0, <2>1
<1>2. PICK n \in S : \A y \in S : n <= y
  <2> HIDE DEF S
  <2> QED BY <1>1, LeastExists
<1>3. PICK m \in T : n = b - m BY <1>2
<1>4. ASSUME NEW x \in T PROVE x <= m
  <2>1. n <= b - x
    <3>1. b - x \in S OBVIOUS
    <3> HIDE DEF S
    <3> QED BY <1>2, <3>1
  <2>2. x \in 0..b /\ m \in 0..b BY <1>0, <1>3, <1>4
  <2> QED BY ONLY b \in Nat, <1>3, <2>1, <2>2
<1>5. T \in SUBSET Int OBVIOUS
<1> QED BY <1>3, <1>4, <1>5, MaxIs

\* The part of a text that has these characters.
HasPart(u, s, n) ==
  /\ u \in Seq(Char) /\ s \in Seq(Char) /\ n \in 1..(Len(u) + 1)
  /\ n + Len(s) <= Len(u) + 1 /\ \A i \in 1..Len(s) : u[n + i - 1] = s[i]

(***************************************************************************)
(* Such a part is cut out by the positions where it begins and ends.       *)
(***************************************************************************)
LEMMA PartOf ==
  ASSUME NEW u, NEW s, NEW n, HasPart(u, s, n), NEW e, e = n + Len(s)
  PROVE  From(u, n, e) = s
<1> u \in Seq(Char) /\ s \in Seq(Char) /\ n \in 1..(Len(u) + 1)
    /\ n + Len(s) <= Len(u) + 1 /\ \A i \in 1..Len(s) : u[n + i - 1] = s[i]
  BY DEF HasPart
<1>0. Len(u) \in Nat /\ Len(s) \in Nat OBVIOUS
<1>1. PICK y : y = e - 1 OBVIOUS
<1>2. n \in Int /\ y \in Int /\ y = n + Len(s) - 1 BY <1>0, <1>1
<1>3. \A i \in n..y : u[i] \in Char
  <2>1. \A i \in n..y : i \in 1..Len(u) BY <1>0, <1>2
  <2> QED BY <2>1
<1>4. PICK v : v = SubSeq(u, n, y) OBVIOUS
<1>5. v \in Seq(Char) /\ Len(v) = (IF n <= y THEN y - n + 1 ELSE 0)
      /\ \A i \in 1..(y - n + 1) : v[i] = u[n + i - 1]
  BY ONLY <1>2, <1>3, <1>4, SubSeqProperties
<1>6. Len(v) = Len(s) /\ y - n + 1 = Len(s) BY <1>0, <1>2, <1>5
<1>7. \A i \in 1..Len(v) : v[i] = s[i] BY <1>5, <1>6
<1>8. v = s BY <1>5, <1>6, <1>7, SeqEqual
<1> QED BY <1>1, <1>4, <1>8 DEF From

(***************************************************************************)
(* Any part of a text.                                                     *)
(***************************************************************************)
LEMMA FromIs ==
  ASSUME NEW u \in Seq(Char), NEW n \in 1..(Len(u) + 1), NEW e \in n..(Len(u) + 1)
  PROVE  /\ From(u, n, e) \in Seq(Char) /\ Len(From(u, n, e)) = e - n
         /\ \A i \in 1..(e - n) : From(u, n, e)[i] = u[n + i - 1]
<1>0. Len(u) \in Nat OBVIOUS
<1>1. PICK y : y = e - 1 OBVIOUS
<1>2. n \in Int /\ y \in Int /\ y - n + 1 = e - n BY <1>0, <1>1
<1>3. \A i \in n..y : u[i] \in Char
  <2>1. \A i \in n..y : i \in 1..Len(u) BY <1>0, <1>1
  <2> QED BY <2>1
<1>4. PICK v : v = SubSeq(u, n, y) OBVIOUS
<1>5. v \in Seq(Char) /\ Len(v) = (IF n <= y THEN y - n + 1 ELSE 0)
      /\ \A i \in 1..(y - n + 1) : v[i] = u[n + i - 1]
  BY ONLY <1>2, <1>3, <1>4, SubSeqProperties
<1>6. Len(v) = e - n BY <1>0, <1>1, <1>2, <1>5
<1> QED BY <1>1, <1>2, <1>4, <1>5, <1>6 DEF From

\* What two texts make.
Joins(z, x, y) ==
  /\ z \in Seq(Char) /\ Len(z) = Len(x) + Len(y)
  /\ \A i \in 1..Len(x) : z[i] = x[i]
  /\ \A i \in 1..Len(y) : z[Len(x) + i] = y[i]

(***************************************************************************)
(* A concatenation is joined of both texts.                                *)
(***************************************************************************)
LEMMA ConcatIs ==
  ASSUME NEW x \in Seq(Char), NEW y \in Seq(Char)
  PROVE  Joins(x \o y, x, y)
<1>1. Len(x) \in Nat /\ Len(y) \in Nat OBVIOUS
<1>2. PICK z : z = x \o y OBVIOUS
<1>3. z \in Seq(Char) /\ Len(z) = Len(x) + Len(y)
      /\ \A i \in 1..(Len(x) + Len(y)) : z[i] = IF i <= Len(x) THEN x[i] ELSE y[i - Len(x)]
  BY <1>2, ConcatProperties
<1>4. \A i \in 1..Len(x) : z[i] = x[i] BY <1>1, <1>3
<1>5. ASSUME NEW i \in 1..Len(y) PROVE z[Len(x) + i] = y[i]
  <2>1. Len(x) + i \in 1..(Len(x) + Len(y)) /\ ~(Len(x) + i <= Len(x)) /\ Len(x) + i - Len(x) = i
    BY <1>1
  <2> QED BY <1>3, <2>1
<1>6. Joins(z, x, y) BY <1>3, <1>4, <1>5 DEF Joins
<1> QED BY <1>2, <1>6

(***************************************************************************)
(* What the parts make.                                                    *)
(***************************************************************************)
LEMMA JoinedIs ==
  ASSUME NEW p \in Seq(Char), NEW d \in Seq(Char), NEW t \in Seq(Char), NEW h \in Seq(Char)
  PROVE  IsUrl(p \o SchemeEnd \o d \o t \o h, p, d, t, h)
<1>0. Len(p) \in Nat /\ Len(d) \in Nat /\ Len(t) \in Nat /\ Len(h) \in Nat OBVIOUS
<1>1. PICK a1, a2, a3, a4 : a1 = p \o SchemeEnd /\ a2 = a1 \o d /\ a3 = a2 \o t /\ a4 = a3 \o h
  OBVIOUS
<1>2. a1 \in Seq(Char) /\ Len(a1) = Len(p) + 3 /\ (\A i \in 1..Len(p) : a1[i] = p[i])
      /\ a1[Len(p) + 1] = ":" /\ a1[Len(p) + 2] = "/" /\ a1[Len(p) + 3] = "/"
  <2>1. SchemeEnd \in Seq(Char) /\ Len(SchemeEnd) = 3
        /\ SchemeEnd[1] = ":" /\ SchemeEnd[2] = "/" /\ SchemeEnd[3] = "/"
    <3>1. ":" \in Char /\ "/" \in Char BY DEF Char, Mark
    <3>2. \A S : \A x, y \in S : <<x, y, y>> \in Seq(S) OBVIOUS
    <3>3. SchemeEnd \in Seq(Char) BY ONLY <3>1, <3>2, Zenon DEF SchemeEnd
    <3> QED BY <3>3 DEF SchemeEnd
  <2>2. PICK e : e = SchemeEnd OBVIOUS
  <2>3. e \in Seq(Char) /\ Len(e) = 3 BY <2>1, <2>2
  <2>4. /\ a1 \in Seq(Char) /\ Len(a1) = Len(p) + Len(e)
        /\ \A i \in 1..Len(p) : a1[i] = p[i]
        /\ \A i \in 1..Len(e) : a1[Len(p) + i] = e[i]
    <3>1. a1 = p \o e BY <1>1, <2>2
    <3>2. Joins(a1, p, e) BY ONLY p \in Seq(Char), <2>3, <3>1, ConcatIs
    <3> QED BY <3>2 DEF Joins
  <2>5. 1 \in 1..Len(e) /\ 2 \in 1..Len(e) /\ 3 \in 1..Len(e) BY <2>3
  <2>6. a1[Len(p) + 1] = e[1] /\ a1[Len(p) + 2] = e[2] /\ a1[Len(p) + 3] = e[3] BY <2>4, <2>5
  <2> QED BY <2>1, <2>2, <2>3, <2>4, <2>6
<1>4. a2 \in Seq(Char) /\ Len(a2) = Len(p) + 3 + Len(d)
      /\ (\A i \in 1..(Len(p) + 3) : a2[i] = a1[i])
      /\ \A i \in 1..Len(d) : a2[Len(p) + 3 + i] = d[i]
  <2>1. a1 \in Seq(Char) /\ Len(a1) = Len(p) + 3 BY <1>2
  <2>2. a2 = a1 \o d BY <1>1
  <2>3. Joins(a2, a1, d) BY ONLY d \in Seq(Char), <2>1, <2>2, ConcatIs
  <2> QED BY ONLY <2>1, <2>3 DEF Joins
<1>5. a3 \in Seq(Char) /\ Len(a3) = Len(p) + 3 + Len(d) + Len(t)
      /\ (\A i \in 1..(Len(p) + 3 + Len(d)) : a3[i] = a2[i])
      /\ \A i \in 1..Len(t) : a3[Len(p) + 3 + Len(d) + i] = t[i]
  <2>1. a2 \in Seq(Char) /\ Len(a2) = Len(p) + 3 + Len(d) BY <1>4
  <2>2. a3 = a2 \o t BY <1>1
  <2>3. Joins(a3, a2, t) BY ONLY t \in Seq(Char), <2>1, <2>2, ConcatIs
  <2> QED BY ONLY <2>1, <2>3 DEF Joins
<1>6. a4 \in Seq(Char) /\ Len(a4) = Len(p) + 3 + Len(d) + Len(t) + Len(h)
      /\ (\A i \in 1..(Len(p) + 3 + Len(d) + Len(t)) : a4[i] = a3[i])
      /\ \A i \in 1..Len(h) : a4[Len(p) + 3 + Len(d) + Len(t) + i] = h[i]
  <2>1. a3 \in Seq(Char) /\ Len(a3) = Len(p) + 3 + Len(d) + Len(t) BY <1>5
  <2>2. a4 = a3 \o h BY <1>1
  <2>3. Joins(a4, a3, h) BY ONLY h \in Seq(Char), <2>1, <2>2, ConcatIs
  <2> QED BY ONLY <2>1, <2>3 DEF Joins
<1>7. \A i \in 1..(Len(p) + 3) : a4[i] = a1[i]
  <2>1. \A i \in 1..(Len(p) + 3) : i \in 1..(Len(p) + 3 + Len(d))
                                   /\ i \in 1..(Len(p) + 3 + Len(d) + Len(t))
    BY <1>0
  <2> QED BY <1>4, <1>5, <1>6, <2>1
<1>8. \A i \in 1..Len(p) : a4[i] = p[i]
  <2>1. \A i \in 1..Len(p) : i \in 1..(Len(p) + 3) BY <1>0
  <2> QED BY <1>2, <1>7, <2>1
<1>9. a4[Len(p) + 1] = ":" /\ a4[Len(p) + 2] = "/" /\ a4[Len(p) + 3] = "/"
  <2>1. /\ Len(p) + 1 \in 1..(Len(p) + 3) /\ Len(p) + 2 \in 1..(Len(p) + 3)
        /\ Len(p) + 3 \in 1..(Len(p) + 3)
    BY <1>0
  <2> QED BY <1>2, <1>7, <2>1
<1>10. \A i \in 1..Len(d) : a4[Len(p) + 3 + i] = d[i]
  <2>1. \A i \in 1..Len(d) : Len(p) + 3 + i \in 1..(Len(p) + 3 + Len(d))
                             /\ Len(p) + 3 + i \in 1..(Len(p) + 3 + Len(d) + Len(t))
    BY <1>0
  <2> QED BY <1>4, <1>5, <1>6, <2>1
<1>11. \A i \in 1..Len(t) : a4[Len(p) + 3 + Len(d) + i] = t[i]
  <2>1. \A i \in 1..Len(t) : Len(p) + 3 + Len(d) + i \in 1..(Len(p) + 3 + Len(d) + Len(t))
    BY <1>0
  <2> QED BY <1>5, <1>6, <2>1
<1>12. IsUrl(a4, p, d, t, h) BY <1>6, <1>8, <1>9, <1>10, <1>11 DEF IsUrl
<1> QED BY <1>1, <1>12

\* Parts that can be told apart: where they end is seen from the next one.
Apart(p, d, t, h) ==
  /\ \A i \in 1..Len(p) : p[i] # ":"
  /\ \A i \in 1..Len(d) : d[i] # "/"
  /\ \A i \in 1..Len(t) : t[i] # "/"
  /\ \/ t = <<>> /\ \A i \in 1..Len(d) : d[i] # ":"
     \/ t # <<>> /\ t[1] = ":" /\ \A i \in 2..Len(t) : t[i] # ":"
  /\ h = <<>> \/ h[1] = "/"

SchemesOf(u) == {n \in 1..(Len(u) - 2) : SubSeq(u, n, n + 2) = SchemeEnd}

(***************************************************************************)
(* A text of three characters.                                             *)
(***************************************************************************)
LEMMA ThreeAre ==
  ASSUME NEW u \in Seq(Char), NEW n \in 1..(Len(u) - 2)
  PROVE  SubSeq(u, n, n + 2) = SchemeEnd <=> u[n] = ":" /\ u[n + 1] = "/" /\ u[n + 2] = "/"
<1>0. Len(u) \in Nat OBVIOUS
<1>1. n \in 1..(Len(u) + 1) /\ n + 3 \in n..(Len(u) + 1) /\ n + 3 - n = 3 /\ n + 3 - 1 = n + 2
  BY <1>0
<1>2. PICK v : v = SubSeq(u, n, n + 2) OBVIOUS
<1>3. v = From(u, n, n + 3) BY <1>1, <1>2 DEF From
<1>4. v \in Seq(Char) /\ Len(v) = 3 /\ \A i \in 1..3 : v[i] = u[n + i - 1]
  <2>1. PICK e : e = n + 3 OBVIOUS
  <2>2. e \in n..(Len(u) + 1) /\ n \in 1..(Len(u) + 1) /\ e - n = 3 BY <1>1, <2>1
  <2>3. /\ From(u, n, e) \in Seq(Char) /\ Len(From(u, n, e)) = e - n
        /\ \A i \in 1..(e - n) : From(u, n, e)[i] = u[n + i - 1]
    BY ONLY u \in Seq(Char), <2>2, FromIs
  <2> QED BY <1>3, <2>1, <2>2, <2>3
<1>5. v[1] = u[n] /\ v[2] = u[n + 1] /\ v[3] = u[n + 2]
  <2>1. 1 \in 1..3 /\ 2 \in 1..3 /\ 3 \in 1..3 /\ n + 1 - 1 = n /\ n + 2 - 1 = n + 1 /\ n + 3 - 1 = n + 2
    BY <1>1
  <2> QED BY <1>4, <2>1
<1>6. v = <<v[1], v[2], v[3]>> BY <1>4
<1>7. v = SchemeEnd <=> v[1] = ":" /\ v[2] = "/" /\ v[3] = "/" BY <1>6 DEF SchemeEnd
<1> QED BY <1>2, <1>5, <1>7

(***************************************************************************)
(* Of a url put together of such parts, the scheme is found, and splitUrl  *)
(* finds the parts again.                                                  *)
(***************************************************************************)
LEMMA SplitJoined ==
  ASSUME NEW u, NEW p, NEW d, NEW t, NEW h, IsUrl(u, p, d, t, h), Apart(p, d, t, h)
  PROVE  /\ SchemesOf(u) # {} /\ Min(SchemesOf(u)) = Len(p) + 1
         /\ SplitUrl(u, Len(p) + 1) =
              [protocol |-> ToLower(p), domain |-> ToLower(d), port |-> t, path |-> h]
<1>1. u \in Seq(Char) /\ p \in Seq(Char) /\ d \in Seq(Char) /\ t \in Seq(Char) /\ h \in Seq(Char)
  BY DEF IsUrl
<1>2. PICK P \in Nat, D \in Nat, T \in Nat, H \in Nat :
        P = Len(p) /\ D = Len(d) /\ T = Len(t) /\ H = Len(h)
  BY <1>1, LenProperties
<1>3. /\ Len(u) = P + 3 + D + T + H
      /\ \A i \in 1..P : u[i] = p[i]
      /\ u[P + 1] = ":" /\ u[P + 2] = "/" /\ u[P + 3] = "/"
      /\ \A i \in 1..D : u[P + 3 + i] = d[i]
      /\ \A i \in 1..T : u[P + 3 + D + i] = t[i]
      /\ \A i \in 1..H : u[P + 3 + D + T + i] = h[i]
  BY <1>2 DEF IsUrl
<1>4. /\ \A i \in 1..P : p[i] # ":"
      /\ \A i \in 1..D : d[i] # "/"
      /\ \A i \in 1..T : t[i] # "/"
      /\ \/ T = 0 /\ \A i \in 1..D : d[i] # ":"
         \/ T > 0 /\ t[1] = ":" /\ \A i \in 2..T : t[i] # ":"
      /\ H = 0 \/ h[1] = "/"
  <2>1. (t = <<>> => T = 0) /\ (t # <<>> => T > 0) /\ (h = <<>> => H = 0) BY <1>1, <1>2, EmptySeq
  <2> QED BY <1>2, <2>1 DEF Apart
<1>5. P + 1 \in SchemesOf(u) /\ \A n \in SchemesOf(u) : P + 1 <= n
  <2>1. P + 1 \in 1..(Len(u) - 2) /\ P + 1 + 1 = P + 2 /\ P + 1 + 2 = P + 3 BY <1>2, <1>3
  <2>2. P + 1 \in SchemesOf(u)
    <3>1. PICK n : n = P + 1 OBVIOUS
    <3>2. n \in 1..(Len(u) - 2) /\ u[n] = ":" /\ u[n + 1] = "/" /\ u[n + 2] = "/"
      BY <1>3, <2>1, <3>1
    <3>3. SubSeq(u, n, n + 2) = SchemeEnd BY ONLY <1>1, <3>2, ThreeAre
    <3> QED BY <3>1, <3>2, <3>3 DEF SchemesOf
  <2>3. ASSUME NEW n \in SchemesOf(u) PROVE P + 1 <= n
    <3>1. n \in 1..(Len(u) - 2) /\ SubSeq(u, n, n + 2) = SchemeEnd BY DEF SchemesOf
    <3>2. u[n] = ":" BY <1>1, <3>1, ThreeAre
    <3>3. ~(P + 1 <= n) => n \in 1..P BY <1>3, <3>1
    <3> QED BY <1>3, <1>4, <3>2, <3>3
  <2> QED BY <2>2, <2>3
<1>6. SchemesOf(u) # {} /\ Min(SchemesOf(u)) = P + 1
  <2>1. SchemesOf(u) \in SUBSET Int BY DEF SchemesOf
  <2> QED BY <1>5, <2>1, MinIs
<1>7. PICK x : x = P + 4 + D + T OBVIOUS
<1> DEFINE slashes == {n \in (P + 4)..Len(u) : u[n] = "/"}
           colons == {n \in (P + 4)..(x - 1) : u[n] = ":"}
<1>8. Min(slashes \cup {Len(u) + 1}) = x
  <2>1. slashes \cup {Len(u) + 1} \in SUBSET Int BY <1>2, <1>3
  <2>2. x \in slashes \cup {Len(u) + 1}
    <3>1. CASE H = 0 BY <1>2, <1>3, <1>7, <3>1
    <3>2. CASE H # 0
      <4>1. 1 \in 1..H /\ P + 3 + D + T + 1 = x /\ x \in (P + 4)..Len(u) BY <1>2, <1>3, <1>7, <3>2
      <4>2. u[x] = h[1] BY <1>3, <4>1
      <4> QED BY <1>4, <3>2, <4>1, <4>2
    <3> QED BY <3>1, <3>2
  <2>3. ASSUME NEW n \in slashes \cup {Len(u) + 1} PROVE x <= n
    <3>1. CASE n = Len(u) + 1 BY <1>2, <1>3, <1>7, <3>1
    <3>2. CASE n \in slashes
      <4>1. n \in (P + 4)..Len(u) /\ u[n] = "/" BY <3>2
      <4>2. ASSUME ~(x <= n) PROVE FALSE
        <5>1. n - (P + 3) \in 1..D \/ n - (P + 3 + D) \in 1..T BY <1>2, <1>3, <1>7, <4>1, <4>2
        <5>2. P + 3 + (n - (P + 3)) = n /\ P + 3 + D + (n - (P + 3 + D)) = n BY <1>2, <1>3, <4>1
        <5>3. n - (P + 3) \in 1..D => u[n] = d[n - (P + 3)] /\ u[n] # "/" BY <1>3, <1>4, <5>2
        <5>4. n - (P + 3 + D) \in 1..T => u[n] # "/"
          <6>1. PICK m : m = n - (P + 3 + D) OBVIOUS
          <6>2. P + 3 + D + m = n BY <5>2, <6>1
          <6>3. m \in 1..T => u[n] = t[m] /\ t[m] # "/" BY <1>3, <1>4, <6>2
          <6> QED BY <6>1, <6>3
        <5> QED BY <4>1, <5>1, <5>3, <5>4
      <4> QED BY <4>2
    <3> QED BY <3>1, <3>2
  <2> HIDE DEF slashes
  <2> QED BY <2>1, <2>2, <2>3, MinIs
<1>9. (IF colons = {} THEN x ELSE Max(colons)) = P + 4 + D
  <2>1. CASE T = 0 /\ \A i \in 1..D : d[i] # ":"
    <3>1. ASSUME NEW n \in (P + 4)..(x - 1) PROVE u[n] # ":"
      <4>1. PICK m : m = n - (P + 3) OBVIOUS
      <4>2. m \in 1..D /\ P + 3 + m = n BY <1>2, <1>7, <2>1, <4>1
      <4>3. u[n] = d[m] BY <1>3, <4>2
      <4> QED BY <2>1, <4>2, <4>3
    <3>2. colons = {} BY <3>1
    <3> QED BY <1>2, <1>7, <2>1, <3>2
  <2>2. CASE T > 0 /\ t[1] = ":" /\ \A i \in 2..T : t[i] # ":"
    <3>1. PICK m : m = P + 4 + D OBVIOUS
    <3>2. m \in colons
      <4>1. m \in (P + 4)..(x - 1) /\ P + 3 + D + 1 = m /\ 1 \in 1..T BY <1>2, <1>7, <2>2, <3>1
      <4>2. u[m] = ":" BY <1>3, <2>2, <4>1
      <4> QED BY <4>1, <4>2
    <3>3. ASSUME NEW n \in colons PROVE n <= m
      <4>1. n \in (P + 4)..(x - 1) /\ u[n] = ":" OBVIOUS
      <4>2. ASSUME ~(n <= m) PROVE FALSE
        <5>1. n - (P + 3 + D) \in 2..T /\ n - (P + 3 + D) \in 1..T
              /\ P + 3 + D + (n - (P + 3 + D)) = n
          BY <1>2, <1>7, <3>1, <4>1, <4>2
        <5>2. u[n] = t[n - (P + 3 + D)] BY <1>3, <5>1
        <5> QED BY <2>2, <4>1, <5>1, <5>2
      <4> QED BY <4>2
    <3>4. colons \in SUBSET Int BY <1>2, <1>7
    <3> HIDE DEF colons
    <3>5. Max(colons) = m BY <3>2, <3>3, <3>4, MaxIs
    <3> QED BY <3>1, <3>2, <3>5
  <2> QED BY <1>4, <2>1, <2>2
<1>10. From(u, 1, P + 1) = p
  <2>1. PICK n, e : n = 1 /\ e = P + 1 OBVIOUS
  <2>2. n \in 1..(Len(u) + 1) /\ n + Len(p) <= Len(u) + 1 /\ e = n + Len(p)
    BY <1>2, <1>3, <2>1
  <2>3. \A i \in 1..Len(p) : u[n + i - 1] = p[i]
    <3>1. \A i \in 1..Len(p) : n + i - 1 = i BY <1>2, <1>3, <2>1
    <3> QED BY <1>2, <1>3, <3>1
  <2>4. HasPart(u, p, n) BY <1>1, <2>2, <2>3 DEF HasPart
  <2>5. From(u, n, e) = p BY ONLY <2>2, <2>4, PartOf
  <2> QED BY <2>1, <2>5
<1>11. From(u, P + 4, P + 4 + D) = d
  <2>1. PICK n, e : n = P + 4 /\ e = P + 4 + D OBVIOUS
  <2>2. n \in 1..(Len(u) + 1) /\ n + Len(d) <= Len(u) + 1 /\ e = n + Len(d)
    BY <1>2, <1>3, <2>1
  <2>3. \A i \in 1..Len(d) : u[n + i - 1] = d[i]
    <3>1. \A i \in 1..Len(d) : n + i - 1 = P + 3 + i BY <1>2, <1>3, <2>1
    <3> QED BY <1>2, <1>3, <3>1
  <2>4. HasPart(u, d, n) BY <1>1, <2>2, <2>3 DEF HasPart
  <2>5. From(u, n, e) = d BY ONLY <2>2, <2>4, PartOf
  <2> QED BY <2>1, <2>5
<1>12. From(u, P + 4 + D, x) = t
  <2>1. PICK n, e : n = P + 4 + D /\ e = x OBVIOUS
  <2>2. n \in 1..(Len(u) + 1) /\ n + Len(t) <= Len(u) + 1 /\ e = n + Len(t)
    BY <1>2, <1>3, <1>7, <2>1
  <2>3. \A i \in 1..Len(t) : u[n + i - 1] = t[i]
    <3>1. \A i \in 1..Len(t) : n + i - 1 = P + 3 + D + i BY <1>2, <1>3, <1>7, <2>1
    <3> QED BY <1>2, <1>3, <3>1
  <2>4. HasPart(u, t, n) BY <1>1, <2>2, <2>3 DEF HasPart
  <2>5. From(u, n, e) = t BY ONLY <2>2, <2>4, PartOf
  <2> QED BY <2>1, <2>5
<1>13. From(u, x, Len(u) + 1) = h
  <2>1. PICK n, e : n = x /\ e = Len(u) + 1 OBVIOUS
  <2>2. n \in 1..(Len(u) + 1) /\ n + Len(h) <= Len(u) + 1 /\ e = n + Len(h)
    BY <1>2, <1>3, <1>7, <2>1
  <2>3. \A i \in 1..Len(h) : u[n + i - 1] = h[i]
    <3>1. \A i \in 1..Len(h) : n + i - 1 = P + 3 + D + T + i BY <1>2, <1>3, <1>7, <2>1
    <3> QED BY <1>2, <1>3, <3>1
  <2>4. HasPart(u, h, n) BY <1>1, <2>2, <2>3 DEF HasPart
  <2>5. From(u, n, e) = h BY ONLY <2>2, <2>4, PartOf
  <2> QED BY <2>1, <2>5
<1>14. P + 1 + 3 = P + 4 BY <1>2
<1>15. SplitUrl(u, P + 1) =
         [protocol |-> ToLower(p), domain |-> ToLower(d), port |-> t, path |-> h]
  <2>1. SplitUrl(u, P + 1) =
          [protocol |-> ToLower(From(u, 1, P + 1)),
           domain |-> ToLower(From(u, P + 4, IF colons = {} THEN x ELSE Max(colons))),
           port |-> From(u, IF colons = {} THEN x ELSE Max(colons), x),
           path |-> From(u, x, Len(u) + 1)]
    BY <1>8, <1>14, Zenon DEF SplitUrl
  <2> HIDE DEF colons, slashes
  <2> QED BY <1>9, <1>10, <1>11, <1>12, <1>13, <2>1, Zenon
<1> QED BY <1>2, <1>6, <1>15

-----------------------------------------------------------------------------
\* A text without capital letters.
IsLow(s) == s \in Seq(Char) /\ \A i \in 1..Len(s) : s[i] \notin Capital

(***************************************************************************)
(* std::tolower on every character leaves none, and nothing of a second    *)
(* time.                                                                   *)
(***************************************************************************)
LEMMA LowerIs ==
  ASSUME NEW s \in Seq(Char)
  PROVE  /\ IsLow(ToLower(s))
         /\ \A c \in Mark : (\A i \in 1..Len(s) : s[i] # c)
                            => \A i \in 1..Len(ToLower(s)) : ToLower(s)[i] # c
<1>1. PICK l : l = ToLower(s) OBVIOUS
<1>2. Len(s) \in Nat OBVIOUS
<1>3. /\ Small \in [Capital -> Letter] /\ Letter \cap Capital = {}
      /\ (Letter \cup Capital) \cap (Digit \cup Mark) = {} /\ Letter \subseteq Char
  BY CleanerAssumption DEF Char, Alnum
<1>4. ASSUME NEW i \in 1..Len(s)
      PROVE  /\ l[i] = IF s[i] \in Capital THEN Small[s[i]] ELSE s[i]
             /\ l[i] \in Char \ Capital
             /\ \A c \in Mark : s[i] # c => l[i] # c
  <2>1. l[i] = IF s[i] \in Capital THEN Small[s[i]] ELSE s[i] BY <1>1 DEF ToLower
  <2>2. s[i] \in Char OBVIOUS
  <2>3. CASE s[i] \in Capital
    <3>1. l[i] = Small[s[i]] BY <2>1, <2>3
    <3>2. l[i] \in Letter BY <1>3, <2>3, <3>1
    <3> QED BY <1>3, <2>1, <3>2, Zenon
  <2>4. CASE s[i] \notin Capital BY <2>1, <2>2, <2>4
  <2> QED BY <2>3, <2>4
<1>5. l = [n \in 1..Len(s) |-> IF s[n] \in Capital THEN Small[s[n]] ELSE s[n]] BY <1>1 DEF ToLower
<1>6. l \in Seq(Char) /\ Len(l) = Len(s)
  <2>1. l \in [1..Len(s) -> Char]
    <3>1. \A i \in 1..Len(s) : (IF s[i] \in Capital THEN Small[s[i]] ELSE s[i]) \in Char
      BY <1>4
    <3> QED BY <1>5, <3>1
  <2>2. l \in Seq(Char) BY <1>2, <2>1, SeqDef
  <2>3. DOMAIN l = 1..Len(l) BY <2>2
  <2>4. DOMAIN l = 1..Len(s) BY <1>5
  <2>5. Len(l) \in Nat BY <2>2
  <2> QED BY <1>2, <2>2, <2>3, <2>4, <2>5
<1> QED BY <1>1, <1>4, <1>6 DEF IsLow

(***************************************************************************)
(* Without capital letters nothing changes.                                *)
(***************************************************************************)
LEMMA LowerAgain ==
  ASSUME NEW s, IsLow(s)
  PROVE  ToLower(s) = s
<1>1. s \in Seq(Char) /\ \A i \in 1..Len(s) : s[i] \notin Capital BY DEF IsLow
<1>2. s = [i \in 1..Len(s) |-> s[i]] BY <1>1
<1>3. [n \in 1..Len(s) |-> IF s[n] \in Capital THEN Small[s[n]] ELSE s[n]] = [i \in 1..Len(s) |-> s[i]]
  BY <1>1
<1> QED BY <1>2, <1>3, Zenon DEF ToLower

\* What splitUrl returns.
Split(r) ==
  /\ IsLow(r.protocol) /\ IsLow(r.domain) /\ r.port \in Seq(Char) /\ r.path \in Seq(Char)
  /\ \A i \in 1..Len(r.domain) : r.domain[i] # "/"
  /\ r.port # <<>> => r.port[1] = ":"
  /\ r.path # <<>> => r.path[1] = "/"

(***************************************************************************)
(* Whatever the url, its parts have these characters.                      *)
(***************************************************************************)
LEMMA PartsOf ==
  ASSUME NEW u \in Seq(Char), NEW s \in SchemesOf(u)
  PROVE  Split(SplitUrl(u, s))
<1>1. s \in Nat /\ s \in 1..(Len(u) - 2) /\ Len(u) \in Nat BY DEF SchemesOf
<1> DEFINE L == Len(u)
           slashes == {n \in (s + 3)..Len(u) : u[n] = "/"}
           x == Min(slashes \cup {Len(u) + 1})
           colons == {n \in (s + 3)..(x - 1) : u[n] = ":"}
           y == IF colons = {} THEN x ELSE Max(colons)
<1>2. /\ x \in slashes \cup {L + 1} /\ \A n \in slashes : x <= n
      /\ x \in Nat /\ x \in (s + 3)..(L + 1)
  <2>1. slashes \cup {L + 1} \in SUBSET Nat /\ slashes \cup {L + 1} # {} BY <1>1
  <2>2. PICK T : T = slashes \cup {L + 1} OBVIOUS
  <2>3. Min(T) \in T /\ \A n \in T : Min(T) <= n
    <3>1. T \in SUBSET Nat /\ T # {} BY <2>1, <2>2
    <3> QED BY ONLY <3>1, MinExists
  <2> QED BY <1>1, <2>1, <2>2, <2>3
<1> HIDE DEF x
<1>3. y \in (s + 3)..x /\ (y # x => u[y] = ":")
  <2>1. CASE colons = {} BY <1>1, <1>2, <2>1
  <2>2. CASE colons # {}
    <3>1. colons \in SUBSET (0..(x - 1)) /\ x - 1 \in Nat BY <1>1, <1>2
    <3>2. PICK T, b : T = colons /\ b = x - 1 OBVIOUS
    <3>3. Max(T) \in T
      <4>1. b \in Nat /\ T \in SUBSET (0..b) /\ T # {} BY <2>2, <3>1, <3>2
      <4> QED BY ONLY <4>1, MaxExists
    <3>4. y \in colons BY <2>2, <3>2, <3>3
    <3> QED BY <1>1, <1>2, <3>4
  <2> QED BY <2>1, <2>2
<1> HIDE DEF y
<1>4. SplitUrl(u, s) = [protocol |-> ToLower(From(u, 1, s)), domain |-> ToLower(From(u, s + 3, y)),
                        port |-> From(u, y, x), path |-> From(u, x, Len(u) + 1)]
  BY Zenon DEF SplitUrl, x, y
<1>5. /\ From(u, 1, s) \in Seq(Char)
      /\ From(u, y, x) \in Seq(Char) /\ Len(From(u, y, x)) = x - y
      /\ \A i \in 1..(x - y) : From(u, y, x)[i] = u[y + i - 1]
  <2>1. PICK one : one = 1 OBVIOUS
  <2>2. /\ one \in 1..(Len(u) + 1) /\ s \in one..(Len(u) + 1)
        /\ y \in 1..(Len(u) + 1) /\ x \in y..(Len(u) + 1)
    BY <1>1, <1>2, <1>3, <2>1
  <2>3. From(u, one, s) \in Seq(Char) BY ONLY u \in Seq(Char), <2>2, FromIs
  <2>4. /\ From(u, y, x) \in Seq(Char) /\ Len(From(u, y, x)) = x - y
        /\ \A i \in 1..(x - y) : From(u, y, x)[i] = u[y + i - 1]
    BY ONLY u \in Seq(Char), <2>2, FromIs
  <2> QED BY <2>1, <2>3, <2>4
<1>6. /\ From(u, s + 3, y) \in Seq(Char)
      /\ \A i \in 1..Len(From(u, s + 3, y)) : From(u, s + 3, y)[i] # "/"
  <2>1. PICK n : n = s + 3 OBVIOUS
  <2>2. n \in 1..(Len(u) + 1) /\ y \in n..(Len(u) + 1) BY <1>1, <1>2, <1>3, <2>1
  <2>3. /\ From(u, n, y) \in Seq(Char) /\ Len(From(u, n, y)) = y - n
        /\ \A i \in 1..(y - n) : From(u, n, y)[i] = u[n + i - 1]
    BY ONLY u \in Seq(Char), <2>2, FromIs
  <2>4. ASSUME NEW i \in 1..(y - n) PROVE u[n + i - 1] # "/"
    <3>1. n + i - 1 \in (s + 3)..L /\ ~(x <= n + i - 1) BY <1>1, <1>2, <1>3, <2>1, <2>2
    <3> QED BY <1>2, <3>1
  <2> QED BY <2>1, <2>3, <2>4
<1>7. /\ From(u, x, Len(u) + 1) \in Seq(Char)
      /\ From(u, x, Len(u) + 1) # <<>> => From(u, x, Len(u) + 1)[1] = "/"
  <2>1. PICK e : e = Len(u) + 1 OBVIOUS
  <2>2. x \in 1..(Len(u) + 1) /\ e \in x..(Len(u) + 1) BY <1>1, <1>2, <2>1
  <2>3. /\ From(u, x, e) \in Seq(Char) /\ Len(From(u, x, e)) = e - x
        /\ \A i \in 1..(e - x) : From(u, x, e)[i] = u[x + i - 1]
    BY ONLY u \in Seq(Char), <2>2, FromIs
  <2>4. ASSUME From(u, x, e) # <<>> PROVE From(u, x, e)[1] = "/"
    <3>1. e - x # 0 BY <2>3, <2>4, EmptySeq
    <3>2. 1 \in 1..(e - x) /\ x + 1 - 1 = x /\ x # L + 1 BY <1>1, <1>2, <2>1, <2>2, <3>1
    <3>3. From(u, x, e)[1] = u[x] BY <2>3, <3>2
    <3> QED BY <1>2, <3>2, <3>3
  <2> QED BY <2>1, <2>3, <2>4
<1>8. From(u, y, x) # <<>> => From(u, y, x)[1] = ":"
  <2> SUFFICES ASSUME From(u, y, x) # <<>> PROVE From(u, y, x)[1] = ":"
    OBVIOUS
  <2>1. x - y # 0 BY <1>5, EmptySeq
  <2>2. 1 \in 1..(x - y) /\ y + 1 - 1 = y /\ y # x BY <1>1, <1>2, <1>3, <2>1
  <2> QED BY <1>3, <1>5, <2>2
<1>9. PICK a, d, t, h : /\ a = From(u, 1, s) /\ d = From(u, s + 3, y)
                        /\ t = From(u, y, x) /\ h = From(u, x, Len(u) + 1)
  OBVIOUS
<1>10. IsLow(ToLower(a)) /\ IsLow(ToLower(d))
       /\ \A i \in 1..Len(ToLower(d)) : ToLower(d)[i] # "/"
  <2>1. a \in Seq(Char) /\ d \in Seq(Char) /\ \A i \in 1..Len(d) : d[i] # "/"
    BY <1>5, <1>6, <1>9
  <2>2. "/" \in Mark BY DEF Mark
  <2> QED BY ONLY <2>1, <2>2, LowerIs
<1>11. SplitUrl(u, s) = [protocol |-> ToLower(a), domain |-> ToLower(d), port |-> t, path |-> h]
  BY <1>4, <1>9
<1> QED BY <1>5, <1>7, <1>8, <1>9, <1>10, <1>11 DEF Split

-----------------------------------------------------------------------------
\* What Number computes on the way, of at most five digits.
Values(s, f) ==
  f = [n \in 0..Len(s) |-> IF n = 0 THEN 0 ELSE 10 * f[n - 1] + ValueOf(s[n])]

(***************************************************************************)
(* The value of a digit.                                                   *)
(***************************************************************************)
LEMMA DigitIs ==
  /\ \A i \in 1..10 : DigitChar[i] \in Digit /\ ValueOf(DigitChar[i]) = i - 1
  /\ \A c \in Digit : ValueOf(c) \in 0..9
<1>1. ASSUME NEW i \in 1..10, NEW j \in 1..10, DigitChar[i] = DigitChar[j] PROVE i = j
  BY <1>1 DEF DigitChar
<1>2. ASSUME NEW i \in 1..10 PROVE DigitChar[i] \in Digit BY DEF DigitChar, Digit
<1>3. ASSUME NEW i \in 1..10 PROVE ValueOf(DigitChar[i]) = i - 1
  <2>1. PICK m : m = CHOOSE n \in 1..10 : DigitChar[n] = DigitChar[i] OBVIOUS
  <2>2. m \in 1..10 /\ DigitChar[m] = DigitChar[i] BY <2>1
  <2>3. m = i BY <1>1, <2>2
  <2> QED BY <2>1, <2>3 DEF ValueOf
<1>4. ASSUME NEW c \in Digit PROVE ValueOf(c) \in 0..9
  <2>1. \E i \in 1..10 : c = DigitChar[i] 
    <3>1. /\ DigitChar[1] = "0" /\ DigitChar[2] = "1" /\ DigitChar[3] = "2" /\ DigitChar[4] = "3"
          /\ DigitChar[5] = "4" /\ DigitChar[6] = "5" /\ DigitChar[7] = "6" /\ DigitChar[8] = "7"
          /\ DigitChar[9] = "8" /\ DigitChar[10] = "9"
      BY DEF DigitChar
    <3>2. c \in {DigitChar[1], DigitChar[2], DigitChar[3], DigitChar[4], DigitChar[5],
                 DigitChar[6], DigitChar[7], DigitChar[8], DigitChar[9], DigitChar[10]}
      BY <3>1 DEF Digit
    <3> HIDE DEF DigitChar
    <3> QED BY <3>2
  <2>2. PICK i \in 1..10 : c = DigitChar[i] BY <2>1
  <2>3. ValueOf(c) = i - 1 BY <1>3, <2>2
  <2> QED BY <2>3
<1> QED BY <1>2, <1>3, <1>4

(***************************************************************************)
(* The recursive function of Number exists.                                *)
(***************************************************************************)
LEMMA ValuesExist ==
  ASSUME NEW s, Len(s) \in 0..5
  PROVE  \E f : Values(s, f)
<1> DEFINE v1 == 10 * 0 + ValueOf(s[1])
           v2 == 10 * v1 + ValueOf(s[2])
           v3 == 10 * v2 + ValueOf(s[3])
           v4 == 10 * v3 + ValueOf(s[4])
           v5 == 10 * v4 + ValueOf(s[5])
           f == [n \in 0..Len(s) |-> IF n = 0 THEN 0 ELSE IF n = 1 THEN v1 ELSE IF n = 2 THEN v2
                   ELSE IF n = 3 THEN v3 ELSE IF n = 4 THEN v4 ELSE v5]
<1>1. ASSUME NEW n \in 0..Len(s)
      PROVE  f[n] = IF n = 0 THEN 0 ELSE 10 * f[n - 1] + ValueOf(s[n])
  <2> HIDE DEF v1, v2, v3, v4, v5
  <2>1. n \in {0, 1, 2, 3, 4, 5}
    <3>1. PICK L \in 0..5 : L = Len(s) OBVIOUS
    <3>2. n \in 0..L BY <3>1
    <3> QED BY ONLY <3>2, L \in 0..5
  <2>2. CASE n = 0 BY <2>2
  <2>3. CASE n = 1
    <3>1. 0 \in 0..Len(s) /\ n - 1 = 0 BY <2>3
    <3>2. f[n] = v1 /\ f[n - 1] = 0 BY <2>3, <3>1
    <3> QED BY <2>3, <3>2 DEF v1
  <2>4. CASE n = 2
    <3>1. 1 \in 0..Len(s) /\ n - 1 = 1 BY <2>4
    <3>2. f[n] = v2 /\ f[n - 1] = v1 BY <2>4, <3>1
    <3> QED BY <2>4, <3>2 DEF v2
  <2>5. CASE n = 3
    <3>1. 2 \in 0..Len(s) /\ n - 1 = 2 BY <2>5
    <3>2. f[n] = v3 /\ f[n - 1] = v2 BY <2>5, <3>1
    <3> QED BY <2>5, <3>2 DEF v3
  <2>6. CASE n = 4
    <3>1. 3 \in 0..Len(s) /\ n - 1 = 3 BY <2>6
    <3>2. f[n] = v4 /\ f[n - 1] = v3 BY <2>6, <3>1
    <3> QED BY <2>6, <3>2 DEF v4
  <2>7. CASE n = 5
    <3>1. 4 \in 0..Len(s) /\ n - 1 = 4 BY <2>7
    <3>2. f[n] = v5 /\ f[n - 1] = v4 BY <2>7, <3>1
    <3> QED BY <2>7, <3>2 DEF v5
  <2> QED BY <2>1, <2>2, <2>3, <2>4, <2>5, <2>6, <2>7
<1> HIDE DEF f
<1>2. DOMAIN f = 0..Len(s) /\ f = [n \in DOMAIN f |-> f[n]] BY DEF f
<1>3. Values(s, f)
  <2>1. PICK g : g = f OBVIOUS
  <2>2. \A n \in 0..Len(s) : g[n] = IF n = 0 THEN 0 ELSE 10 * g[n - 1] + ValueOf(s[n])
    BY <1>1, <2>1
  <2>3. g = [n \in 0..Len(s) |-> g[n]] BY <1>2, <2>1
  <2> QED BY <2>1, <2>2, <2>3 DEF Values
<1> QED BY <1>3

(***************************************************************************)
(* Number, as a step from each digit to the next.                          *)
(***************************************************************************)
LEMMA NumberIs ==
  ASSUME NEW s, Len(s) \in 0..5
  PROVE  \E f : /\ Number(s) = f[Len(s)] /\ f[0] = 0
                /\ \A n \in 1..Len(s) : f[n] = 10 * f[n - 1] + ValueOf(s[n])
<1>1. \E f : Values(s, f) BY ValuesExist
<1> DEFINE g == CHOOSE f : Values(s, f)
<1>2. Values(s, g) BY <1>1, Zenon
<1>3. Number(s) = g[Len(s)] BY Zenon DEF Number, Values
<1> HIDE DEF g
<1>4. \A n \in 0..Len(s) : g[n] = IF n = 0 THEN 0 ELSE 10 * g[n - 1] + ValueOf(s[n])
  BY <1>2 DEF Values
<1>5. g[0] = 0 BY <1>4
<1>6. \A n \in 1..Len(s) : g[n] = 10 * g[n - 1] + ValueOf(s[n]) BY <1>4
<1> QED BY <1>3, <1>5, <1>6

(***************************************************************************)
(* A port has at most five digits: a natural number.                       *)
(***************************************************************************)
LEMMA NumberType ==
  ASSUME NEW s, Len(s) \in 0..5, \A i \in 1..Len(s) : s[i] \in Digit
  PROVE  Number(s) \in Nat
<1>1. PICK f : /\ Number(s) = f[Len(s)] /\ f[0] = 0
               /\ \A n \in 1..Len(s) : f[n] = 10 * f[n - 1] + ValueOf(s[n])
  BY NumberIs
<1>2. ASSUME NEW n \in 1..Len(s), f[n - 1] \in Nat PROVE f[n] \in Nat
  <2>1. ValueOf(s[n]) \in 0..9 BY DigitIs
  <2>2. f[n] = 10 * f[n - 1] + ValueOf(s[n]) BY <1>1
  <2>3. PICK a, b : a = f[n - 1] /\ b = ValueOf(s[n]) OBVIOUS
  <2>4. a \in Nat /\ b \in 0..9 /\ f[n] = 10 * a + b BY <1>2, <2>1, <2>2, <2>3
  <2>5. 10 * a + b \in Nat BY ONLY <2>4
  <2> QED BY <2>4, <2>5
<1>3. Len(s) >= 1 => f[1] \in Nat BY <1>1, <1>2
<1>4. Len(s) >= 2 => f[2] \in Nat BY <1>2, <1>3
<1>5. Len(s) >= 3 => f[3] \in Nat BY <1>2, <1>4
<1>6. Len(s) >= 4 => f[4] \in Nat BY <1>2, <1>5
<1>7. Len(s) >= 5 => f[5] \in Nat BY <1>2, <1>6
<1>8. PICK L \in 0..5 : L = Len(s) OBVIOUS
<1>9. L = 0 \/ L = 1 \/ L = 2 \/ L = 3 \/ L = 4 \/ L = 5 BY ONLY L \in 0..5
<1>10. f[L] \in Nat
  <2>1. L = 0 => f[L] \in Nat BY <1>1
  <2>2. L = 1 => f[L] \in Nat BY <1>3, <1>8
  <2>3. L = 2 => f[L] \in Nat BY <1>4, <1>8
  <2>4. L = 3 => f[L] \in Nat BY <1>5, <1>8
  <2>5. L = 4 => f[L] \in Nat BY <1>6, <1>8
  <2>6. L = 5 => f[L] \in Nat BY <1>7, <1>8
  <2> QED BY <1>9, <2>1, <2>2, <2>3, <2>4, <2>5, <2>6
<1> QED BY <1>1, <1>8, <1>10

(***************************************************************************)
(* One more digit of a number.                                             *)
(***************************************************************************)
LEMMA DigitAfter ==
  ASSUME NEW n \in Nat, NEW i \in 1..5
  PROVE  /\ Power[i] \in Nat \ {0} /\ (n \div Power[i]) % 10 \in 0..9
         /\ 10 * (n \div Power[i + 1]) + ((n \div Power[i]) % 10) = n \div Power[i]
<1>0. /\ Power[1] = 1 /\ Power[2] = 10 /\ Power[3] = 100 /\ Power[4] = 1000
      /\ Power[5] = 10000 /\ Power[6] = 100000
  BY SMT DEF Power
<1>1. CASE i = 1
  <2>1. 10 * (n \div 10) + ((n \div 1) % 10) = n \div 1 /\ (n \div 1) % 10 \in 0..9 BY SMT
  <2> QED BY <1>0, <1>1, <2>1, SMT
<1>2. CASE i = 2
  <2>1. 10 * (n \div 100) + ((n \div 10) % 10) = n \div 10 /\ (n \div 10) % 10 \in 0..9 BY SMT
  <2> QED BY <1>0, <1>2, <2>1, SMT
<1>3. CASE i = 3
  <2>1. 10 * (n \div 1000) + ((n \div 100) % 10) = n \div 100 /\ (n \div 100) % 10 \in 0..9 BY SMT
  <2> QED BY <1>0, <1>3, <2>1, SMT
<1>4. CASE i = 4
  <2>1. 10 * (n \div 10000) + ((n \div 1000) % 10) = n \div 1000 /\ (n \div 1000) % 10 \in 0..9
    BY SMT
  <2> QED BY <1>0, <1>4, <2>1, SMT
<1>5. CASE i = 5
  <2>1. 10 * (n \div 100000) + ((n \div 10000) % 10) = n \div 10000 /\ (n \div 10000) % 10 \in 0..9
    BY SMT
  <2> QED BY <1>0, <1>5, <2>1, SMT
<1> QED BY <1>1, <1>2, <1>3, <1>4, <1>5, SMT

(***************************************************************************)
(* A port number is printed with as many digits as it has, and read back.  *)
(***************************************************************************)
LEMMA PrintedIs ==
  ASSUME NEW n \in Nat, n < Power[6]
  PROVE  /\ Printed(n) \in Seq(Digit) /\ Len(Printed(n)) \in 1..5
         /\ Number(Printed(n)) = n
<1>0. /\ Power[1] = 1 /\ Power[2] = 10 /\ Power[3] = 100 /\ Power[4] = 1000
      /\ Power[5] = 10000 /\ Power[6] = 100000
  BY SMT DEF Power
<1>1. \E w \in 1..5 : n < Power[w + 1] /\ (w = 1 \/ n >= Power[w])
  <2>1. n < 10 \/ (n >= 10 /\ n < 100) \/ (n >= 100 /\ n < 1000)
        \/ (n >= 1000 /\ n < 10000) \/ (n >= 10000 /\ n < 100000)
    BY <1>0, SMT
  <2> QED BY <1>0, <2>1, SMT
<1> DEFINE W == CHOOSE w \in 1..5 : n < Power[w + 1] /\ (w = 1 \/ n >= Power[w])
<1>2. W \in 1..5 /\ n < Power[W + 1] BY <1>1, Zenon
<1> HIDE DEF W
<1>3. \E s : s = [i \in 1..W |-> DigitChar[((n \div Power[W - i + 1]) % 10) + 1]] BY Zenon
<1>4. PICK s : s = [i \in 1..W |-> DigitChar[((n \div Power[W - i + 1]) % 10) + 1]] BY <1>3, Zenon
<1>5. s = Printed(n) BY <1>4, Zenon DEF Printed, W
<1>6. ASSUME NEW i \in 1..W
      PROVE  s[i] \in Digit /\ ValueOf(s[i]) = (n \div Power[W - i + 1]) % 10
  <2>1. PICK j : j = W - i + 1 OBVIOUS
  <2>2. j \in 1..5 BY <1>2, <2>1
  <2>3. (n \div Power[j]) % 10 \in 0..9 BY <2>2, DigitAfter
  <2>4. PICK m : m = ((n \div Power[j]) % 10) + 1 OBVIOUS
  <2>5. PICK r : r = (n \div Power[j]) % 10 OBVIOUS
  <2>6. r \in 0..9 /\ m = r + 1 BY <2>3, <2>4, <2>5
  <2>7. m \in 1..10 /\ m - 1 = r BY ONLY <2>6
  <2>8. s[i] = DigitChar[m] BY <1>4, <2>1, <2>4
  <2> QED BY <2>1, <2>5, <2>7, <2>8, DigitIs
<1>7. s \in Seq(Digit) /\ Len(s) = W
  <2>1. DOMAIN s = 1..W /\ s = [i \in 1..W |-> s[i]] BY <1>4
  <2>2. s \in [1..W -> Digit] BY <1>6, <2>1
  <2>3. W \in Nat BY <1>2
  <2>4. s \in Seq(Digit) BY <2>2, <2>3, SeqDef
  <2>5. Len(s) \in Nat /\ DOMAIN s = 1..Len(s) BY ONLY <2>4
  <2> QED BY ONLY <2>1, <2>3, <2>4, <2>5
<1>8. Len(s) \in 0..5 BY <1>2, <1>7
<1>9. PICK f : /\ Number(s) = f[Len(s)] /\ f[0] = 0
               /\ \A i \in 1..Len(s) : f[i] = 10 * f[i - 1] + ValueOf(s[i])
  BY <1>8, NumberIs
<1>10. f[0] = n \div Power[W + 1]
  <2>1. W = 1 \/ W = 2 \/ W = 3 \/ W = 4 \/ W = 5 BY <1>2
  <2>2. /\ n < 10 => n \div 10 = 0
        /\ n < 100 => n \div 100 = 0
        /\ n < 1000 => n \div 1000 = 0
        /\ n < 10000 => n \div 10000 = 0
        /\ n < 100000 => n \div 100000 = 0
    BY SMT
  <2> QED BY <1>0, <1>2, <1>9, <2>1, <2>2, SMT
<1>11. ASSUME NEW i \in 1..W, f[i - 1] = n \div Power[W - i + 2]
       PROVE  f[i] = n \div Power[W - i + 1]
  <2>1. PICK j : j = W - i + 1 OBVIOUS
  <2>2. j \in 1..5 /\ W - i + 2 = j + 1 BY <1>2, <2>1
  <2>3. ValueOf(s[i]) = (n \div Power[j]) % 10 BY <1>6, <2>1
  <2>4. f[i] = 10 * f[i - 1] + ValueOf(s[i]) BY <1>7, <1>9
  <2>5. 10 * (n \div Power[j + 1]) + ((n \div Power[j]) % 10) = n \div Power[j]
    BY <2>2, DigitAfter
  <2> QED BY <1>11, <2>1, <2>2, <2>3, <2>4, <2>5
<1> DEFINE T == {i \in Nat : i \in 0..W => f[i] = n \div Power[W - i + 1]}
<1>12. 0 \in T BY <1>2, <1>10
<1>13. ASSUME NEW i \in T PROVE i + 1 \in T
  <2> SUFFICES ASSUME i + 1 \in 0..W PROVE f[i + 1] = n \div Power[W - (i + 1) + 1]
    BY <1>13
  <2>1. i \in 0..W /\ i + 1 \in 1..W /\ (i + 1) - 1 = i /\ W - (i + 1) + 2 = W - i + 1
    BY <1>2, <1>13
  <2>2. f[i] = n \div Power[W - i + 1] BY <1>13, <2>1
  <2>3. PICK j : j = i + 1 OBVIOUS
  <2>4. j \in 1..W /\ f[j - 1] = n \div Power[W - j + 2] BY <2>1, <2>2, <2>3
  <2>5. f[j] = n \div Power[W - j + 1] BY <1>11, <2>4
  <2> QED BY <2>3, <2>5
<1>14. T = Nat
  <2>1. T \in SUBSET Nat OBVIOUS
  <2> HIDE DEF T
  <2> QED BY <1>12, <1>13, <2>1, Induction
<1>15. f[W] = n
  <2>1. W \in Nat /\ W \in 0..W /\ W - W + 1 = 1 BY <1>2
  <2>2. f[W] = n \div Power[1]
    <3>1. W \in T BY <1>14, <2>1
    <3> QED BY <2>1, <3>1
  <2>3. n \div 1 = n BY SMT
  <2> QED BY <1>0, <2>2, <2>3
<1> QED BY <1>2, <1>5, <1>7, <1>9, <1>15

-----------------------------------------------------------------------------
(***************************************************************************)
(* The marks are told from letters and digits.                             *)
(***************************************************************************)
LEMMA NoMark ==
  /\ ":" \notin Alnum \cup {"_", "-"} /\ ":" \notin Digit \cup {"."} /\ ":" \notin Digit
  /\ "/" \notin Digit
<1>1. (Letter \cup Capital) \cap (Digit \cup Mark) = {} BY CleanerAssumption
<1>2. ":" \in Mark /\ "/" \in Mark BY DEF Mark
<1>3. ":" \notin Letter \cup Capital BY <1>1, <1>2
<1>4. ":" \notin Digit /\ "/" \notin Digit BY DEF Digit
<1>5. ":" # "_" /\ ":" # "-" /\ ":" # "." OBVIOUS
<1> QED BY <1>3, <1>4, <1>5 DEF Alnum

(***************************************************************************)
(* A character of a domain that is no dot is one of a label.               *)
(***************************************************************************)
LEMMA InLabel ==
  ASSUME NEW d \in Seq(Char), NEW i \in 1..Len(d), d[i] # "."
  PROVE  \E r \in Labels(d) : \E j \in 1..Len(LabelText(d, r)) : LabelText(d, r)[j] = d[i]
<1>1. Len(d) \in Nat /\ i \in Nat OBVIOUS
<1> DEFINE dots == {n \in 1..Len(d) : d[n] = "."}
           below == {n \in {0} \cup dots : n < i}
           above == {n \in dots \cup {Len(d) + 1} : i < n}
<1>2. PICK a \in below : \A n \in below : n <= a
  <2>1. PICK T : T = below OBVIOUS
  <2>2. T \in SUBSET (0..i) /\ T # {} BY <1>1, <2>1
  <2>3. Max(T) \in T /\ \A n \in T : n <= Max(T) BY ONLY <1>1, <2>2, MaxExists
  <2> QED BY <2>1, <2>3
<1>3. PICK b \in above : \A n \in above : b <= n
  <2>1. PICK T : T = above OBVIOUS
  <2>2. T \in SUBSET Nat /\ T # {} BY <1>1, <2>1
  <2>3. \E n \in T : \A m \in T : n <= m BY ONLY <2>2, LeastExists
  <2> QED BY <2>1, <2>3
<1>4. a \in 0..(i - 1) /\ b \in (i + 1)..(Len(d) + 1) /\ a \in {0} \cup dots
      /\ b \in dots \cup {Len(d) + 1}
  BY <1>1, <1>2, <1>3
<1>5. \A n \in dots : ~(a < n /\ n < b)
  <2> SUFFICES ASSUME NEW n \in dots, a < n, n < b PROVE FALSE
    OBVIOUS
  <2>1. n \in 1..Len(d) /\ d[n] = "." OBVIOUS
  <2>2. n # i BY <2>1
  <2>3. CASE n < i
    <3>1. n \in below BY <2>3
    <3> QED BY <1>2, <1>4, <2>1, <3>1
  <2>4. CASE i < n
    <3>1. n \in above BY <2>4
    <3> QED BY <1>3, <1>4, <2>1, <3>1
  <2> QED BY <1>1, <2>1, <2>2, <2>3, <2>4
<1>6. PICK r : r = <<a, b>> OBVIOUS
<1>7. r \in Labels(d)
  <2>1. r[1] = a /\ r[2] = b /\ r \in ({0} \cup dots) \X (dots \cup {Len(d) + 1}) BY <1>4, <1>6
  <2>2. a < b BY <1>1, <1>4
  <2> QED BY <1>5, <2>1, <2>2 DEF Labels
<1>8. LabelText(d, r) = From(d, a + 1, b) BY <1>6 DEF LabelText
<1>9. PICK n : n = a + 1 OBVIOUS
<1>10. n \in 1..(Len(d) + 1) /\ b \in n..(Len(d) + 1) BY <1>1, <1>4, <1>9
<1>11. /\ From(d, n, b) \in Seq(Char) /\ Len(From(d, n, b)) = b - n
       /\ \A j \in 1..(b - n) : From(d, n, b)[j] = d[n + j - 1]
  BY ONLY d \in Seq(Char), <1>10, FromIs
<1>12. PICK j : j = i - a OBVIOUS
<1>13. j \in 1..(b - n) /\ n + j - 1 = i BY <1>1, <1>4, <1>9, <1>12
<1> QED BY <1>7, <1>8, <1>9, <1>11, <1>13

(***************************************************************************)
(* What a domain that is accepted has, and has not.                        *)
(***************************************************************************)
LEMMA ValidIs ==
  ASSUME NEW d \in Seq(Char), ValidDomain(d)
  PROVE  /\ d # <<>> /\ Last(d) # "."
         /\ Last(d) = "]" \/ \A i \in 1..Len(d) : d[i] # ":"
<1>1. d # <<>> /\ Last(d) # "." BY DEF ValidDomain
<1>2. CASE d[1] = "["
  <2>1. IPv6(d) BY <1>2 DEF ValidDomain
  <2> QED BY <1>1, <2>1 DEF IPv6
<1>3. CASE d[1] # "[" /\ LooksLikeIPv4(d)
  <2>1. IPv4(d) BY <1>3 DEF ValidDomain
  <2>2. \A i \in 1..Len(d) : d[i] \in Digit \cup {"."}
    <3>1. \A i \in 1..Len(d) : d[i] \in Range(d)
      <4>1. DOMAIN d = 1..Len(d) OBVIOUS
      <4> QED BY <4>1 DEF Range
    <3> QED BY <2>1, <3>1 DEF IPv4
  <2> QED BY <1>1, <2>2, NoMark
<1>4. CASE d[1] # "[" /\ ~LooksLikeIPv4(d)
  <2>1. HostName(d) BY <1>4 DEF ValidDomain
  <2>2. ASSUME NEW i \in 1..Len(d) PROVE d[i] # ":"
    <3>1. CASE d[i] = "." BY <3>1
    <3>2. CASE d[i] # "."
      <4>1. PICK r \in Labels(d) :
              \E j \in 1..Len(LabelText(d, r)) : LabelText(d, r)[j] = d[i]
        BY <3>2, InLabel
      <4>2. PICK l : l = LabelText(d, r) OBVIOUS
      <4>3. PICK j \in 1..Len(l) : l[j] = d[i] BY <4>1, <4>2
      <4>4. Range(l) \subseteq Alnum \cup {"_", "-"} BY <2>1, <4>2, Zenon DEF HostName
      <4>5. DOMAIN l = 1..Len(l)
        <5>1. l \in Seq(Char)
          <6>1. l = SubSeq(d, r[1] + 1, r[2] - 1) BY <4>2 DEF LabelText, From
          <6>2. r[1] \in 0..Len(d) /\ r[2] \in 1..(Len(d) + 1) BY DEF Labels
          <6>3. PICK m, n : m = r[1] + 1 /\ n = r[2] - 1 OBVIOUS
          <6>4. m \in Int /\ n \in Int /\ \A x \in m..n : d[x] \in Char
            <7>1. Len(d) \in Nat OBVIOUS
            <7>2. PICK L \in Nat : L = Len(d) BY <7>1
            <7>3. PICK x1, x2 : x1 = r[1] /\ x2 = r[2] OBVIOUS
            <7>4. x1 \in 0..L /\ x2 \in 1..(L + 1) /\ m = x1 + 1 /\ n = x2 - 1
              BY <6>2, <6>3, <7>2, <7>3
            <7>5. m \in Int /\ n \in Int /\ \A x \in m..n : x \in 1..L
              BY ONLY <7>4, L \in Nat
            <7> QED BY <7>2, <7>5
          <6> QED BY <6>1, <6>3, <6>4, SubSeqProperties
        <5> QED BY <5>1
      <4>6. d[i] \in Range(l) BY <4>3, <4>5 DEF Range
      <4> QED BY <4>4, <4>6, NoMark
    <3> QED BY <3>1, <3>2
  <2> QED BY <1>1, <2>2
<1> QED BY <1>2, <1>3, <1>4

-----------------------------------------------------------------------------
(***************************************************************************)
(* A path that begins with one "/" only stays as it is.                    *)
(***************************************************************************)
LEMMA PathKept ==
  ASSUME NEW p, p # <<"u", "d", "p">>, NEW h \in Seq(Char), h # <<>>, h[1] = "/",
         Len(h) = 1 \/ h[2] # "/"
  PROVE  EnforcedPath(p, h) = h
<1>1. Len(h) \in Nat /\ Len(h) >= 1 BY EmptySeq
<1> DEFINE N == CHOOSE n \in 1..Len(h) : /\ \A m \in 1..n : h[m] = "/"
                                         /\ n = Len(h) \/ h[n + 1] # "/"
<1>2. N = 1
  <2>1. 1 \in 1..Len(h) /\ (\A m \in 1..1 : h[m] = "/") /\ (1 = Len(h) \/ h[1 + 1] # "/")
    BY <1>1
  <2>2. \E n \in 1..Len(h) : /\ \A m \in 1..n : h[m] = "/"
                             /\ n = Len(h) \/ h[n + 1] # "/"
    BY <2>1, Zenon
  <2>3. N \in 1..Len(h) /\ (\A m \in 1..N : h[m] = "/") BY <2>2
  <2>4. N # 1 => 2 \in 1..N /\ Len(h) # 1 BY <1>1, <2>3
  <2> QED BY <2>3, <2>4
<1> HIDE DEF N
<1>3. EnforcedPath(p, h) = From(h, N, Len(h) + 1) BY Zenon DEF EnforcedPath, N
<1>4. From(h, N, Len(h) + 1) = h
  <2>1. PICK n, e : n = N /\ e = Len(h) + 1 OBVIOUS
  <2>2. n \in 1..(Len(h) + 1) /\ n + Len(h) <= Len(h) + 1 /\ e = n + Len(h) BY <1>1, <1>2, <2>1
  <2>3. \A i \in 1..Len(h) : h[n + i - 1] = h[i]
    <3>1. \A i \in 1..Len(h) : n + i - 1 = i BY <1>1, <1>2, <2>1
    <3> QED BY <3>1
  <2>4. HasPart(h, h, n) BY <2>2, <2>3 DEF HasPart
  <2>5. From(h, n, e) = h BY ONLY <2>2, <2>4, PartOf
  <2> QED BY <2>1, <2>5
<1> QED BY <1>3, <1>4

(***************************************************************************)
(* And that is what becomes of any other.                                  *)
(***************************************************************************)
LEMMA PathAgain ==
  ASSUME NEW p, NEW path \in Seq(Char), path # <<>> => path[1] = "/",
         NEW h, h = EnforcedPath(p, path)
  PROVE  /\ h \in Seq(Char) /\ (h # <<>> => h[1] = "/")
         /\ EnforcedPath(p, h) = h
<1>1. CASE p = <<"u", "d", "p">>
  <2>1. h = <<>> BY <1>1 DEF EnforcedPath
  <2>2. EnforcedPath(p, h) = <<>> BY <1>1 DEF EnforcedPath
  <2> QED BY <2>1, <2>2, EmptySeq
<1>2. CASE p # <<"u", "d", "p">> /\ path = <<>>
  <2>1. CASE p \in {<<"h", "t", "t", "p">>, <<"h", "t", "t", "p", "s">>}
    <3>1. h = <<"/">> BY <1>2, <2>1 DEF EnforcedPath
    <3>2. "/" \in Char BY DEF Char, Mark
    <3>3. h \in Seq(Char) /\ h # <<>> /\ h[1] = "/" /\ Len(h) = 1 BY <3>1, <3>2
    <3> QED BY <1>2, <3>3, PathKept
  <2>2. CASE p \notin {<<"h", "t", "t", "p">>, <<"h", "t", "t", "p", "s">>}
    <3>1. h = <<>> BY <1>2, <2>2 DEF EnforcedPath
    <3>2. EnforcedPath(p, <<>>) = <<>> BY <1>2, <2>2 DEF EnforcedPath
    <3> QED BY <3>1, <3>2, EmptySeq
  <2> QED BY <2>1, <2>2
<1>3. CASE p # <<"u", "d", "p">> /\ path # <<>>
  <2>1. Len(path) \in Nat /\ Len(path) >= 1 /\ path[1] = "/" BY <1>3, EmptySeq
  <2> DEFINE N == CHOOSE n \in 1..Len(path) : /\ \A m \in 1..n : path[m] = "/"
                                              /\ n = Len(path) \/ path[n + 1] # "/"
             T == {n \in 1..Len(path) : n = Len(path) \/ path[n + 1] # "/"}
  <2>2. \E n \in 1..Len(path) : /\ \A m \in 1..n : path[m] = "/"
                                /\ n = Len(path) \/ path[n + 1] # "/"
    <3>1. Len(path) \in T /\ T \in SUBSET Nat BY <2>1
    <3>2. PICK n \in T : \A m \in T : n <= m
      <4>1. PICK S : S = T OBVIOUS
      <4>2. S \in SUBSET Nat /\ S # {} BY <3>1, <4>1
      <4>3. \E n \in S : \A m \in S : n <= m BY ONLY <4>2, LeastExists
      <4> QED BY <4>1, <4>3
    <3>3. ASSUME NEW m \in 1..n PROVE path[m] = "/"
      <4>1. CASE m = 1 BY <2>1, <4>1
      <4>2. CASE m # 1
        <5>1. m - 1 \in 1..Len(path) /\ ~(n <= m - 1) /\ (m - 1) + 1 = m BY <2>1, <3>2, <4>2
        <5>2. m - 1 \notin T BY <3>2, <5>1
        <5> QED BY <5>1, <5>2
      <4> QED BY <4>1, <4>2
    <3>4. n \in 1..Len(path) /\ (n = Len(path) \/ path[n + 1] # "/") BY <3>2
    <3> QED BY <3>3, <3>4
  <2>3. /\ N \in 1..Len(path) /\ \A m \in 1..N : path[m] = "/"
        /\ N = Len(path) \/ path[N + 1] # "/"
    BY <2>2, Zenon
  <2> HIDE DEF N
  <2>4. h = From(path, N, Len(path) + 1) BY <1>3, Zenon DEF EnforcedPath, N
  <2>5. PICK e : e = Len(path) + 1 OBVIOUS
  <2>6. N \in 1..(Len(path) + 1) /\ e \in N..(Len(path) + 1) BY <2>1, <2>3, <2>5
  <2>7. /\ From(path, N, e) \in Seq(Char) /\ Len(From(path, N, e)) = e - N
        /\ \A i \in 1..(e - N) : From(path, N, e)[i] = path[N + i - 1]
    BY ONLY path \in Seq(Char), <2>6, FromIs
  <2>8. h \in Seq(Char) /\ Len(h) = e - N /\ \A i \in 1..(e - N) : h[i] = path[N + i - 1]
    BY <2>4, <2>5, <2>7
  <2>9. h # <<>> /\ h[1] = "/"
    <3>1. e - N # 0 /\ 1 \in 1..(e - N) /\ N + 1 - 1 = N /\ N \in 1..N BY <2>1, <2>3, <2>5
    <3>2. h # <<>> BY <2>8, <3>1, EmptySeq
    <3> QED BY <2>3, <2>8, <3>1, <3>2
  <2>10. Len(h) = 1 \/ h[2] # "/"
    <3>1. CASE N = Len(path) BY <2>1, <2>5, <2>8, <3>1
    <3>2. CASE N # Len(path)
      <4>1. 2 \in 1..(e - N) /\ N + 2 - 1 = N + 1 BY <2>1, <2>3, <2>5, <3>2
      <4> QED BY <2>3, <2>8, <3>2, <4>1
    <3> QED BY <3>1, <3>2
  <2> QED BY <1>3, <2>8, <2>9, <2>10, PathKept
<1> QED BY <1>1, <1>2, <1>3

-----------------------------------------------------------------------------
\* A port number.
Fits(n) == n \in Nat /\ n < 65536

(***************************************************************************)
(* It has at most five digits.                                             *)
(***************************************************************************)
LEMMA FitsPower ==
  ASSUME NEW n, Fits(n)
  PROVE  n \in Nat /\ n < Power[6]
BY SMT DEF Fits, Power

(***************************************************************************)
(* No port is a number as well.                                            *)
(***************************************************************************)
LEMMA FitsZero == Fits(0)
BY SMT DEF Fits

(***************************************************************************)
(* The number a port has.                                                  *)
(***************************************************************************)
LEMMA PortNumberIs ==
  ASSUME NEW t \in Seq(Char), t # <<>> => GoodPort(t)
  PROVE  /\ Fits(PortNumber(t))
         /\ Len(t) > 1 /\ Fits(Number(Tail(t))) => PortNumber(t) = Number(Tail(t))
<1>1. CASE Len(t) <= 1
  <2>1. PortNumber(t) = 0 BY <1>1, SMT DEF PortNumber
  <2> QED BY <1>1, <2>1, FitsZero
<1>2. CASE ~(Len(t) <= 1)
  <2>1. Len(t) \in Nat /\ t # <<>> BY <1>2
  <2>2. Len(t) <= 6 /\ Range(Tail(t)) \subseteq Digit BY <2>1 DEF GoodPort
  <2>3. PICK s : s = Tail(t) OBVIOUS
  <2>4. s \in Seq(Char) /\ Len(s) = Len(t) - 1 BY <2>1, <2>3
  <2>5. Len(s) \in 0..5
    <3>1. PICK L \in Nat : L = Len(t) BY <2>1
    <3>2. ~(L <= 1) /\ L <= 6 BY <1>2, <2>2, <3>1, Zenon
    <3>3. L - 1 \in 0..5 BY <3>2
    <3> QED BY <2>4, <3>1, <3>3
  <2>6. \A i \in 1..Len(s) : s[i] \in Digit
    <3>1. DOMAIN s = 1..Len(s) BY <2>4
    <3>2. \A i \in 1..Len(s) : s[i] \in Range(s) BY <3>1 DEF Range
    <3> QED BY <2>2, <2>3, <3>2
  <2>7. Number(s) \in Nat BY <2>5, <2>6, NumberType
  <2>8. PICK n : n = Number(Tail(t)) OBVIOUS
  <2>9. n \in Nat BY <2>3, <2>7, <2>8
  <2>10. PortNumber(t) = IF n >= 65536 THEN 0 ELSE n BY <1>2, <2>8, SMT DEF PortNumber
  <2>11. Fits(PortNumber(t)) /\ (Fits(n) => PortNumber(t) = n) BY <2>9, <2>10, SMT DEF Fits
  <2> QED BY <2>8, <2>11
<1> QED BY <1>1, <1>2

(***************************************************************************)
(* A default port goes, or comes; of the number that is left, nothing      *)
(* more.                                                                   *)
(***************************************************************************)
LEMMA PortAgain ==
  ASSUME NEW p, NEW n, Fits(n), NEW q, q = EnforcedPort(p, n)
  PROVE  Fits(q) /\ EnforcedPort(p, q) = q
<1>0. n \in Nat BY SMT DEF Fits
<1>1. PICK a, b, c : /\ a = <<"u", "d", "p">> /\ b = <<"h", "t", "t", "p">>
                     /\ c = <<"h", "t", "t", "p", "s">>
  OBVIOUS
<1>2. a # b /\ a # c /\ b # c
  <2>1. Len(a) = 3 /\ Len(b) = 4 /\ Len(c) = 5 BY <1>1
  <2> QED BY <2>1
<1>3. ASSUME NEW m \in Nat
      PROVE  EnforcedPort(p, m) = IF p = a /\ m = 0 THEN 80 ELSE IF p = b /\ m = 80 THEN 0
                                  ELSE IF p = c /\ m = 443 THEN 0 ELSE m
  <2>1. EnforcedPort(p, m) = CASE p = a /\ m = 0 -> 80 [] p = b /\ m = 80 -> 0
                               [] p = c /\ m = 443 -> 0 [] OTHER -> m
    BY <1>1, Zenon DEF EnforcedPort
  <2> QED BY <1>2, <2>1
<1>4. q = IF p = a /\ n = 0 THEN 80 ELSE IF p = b /\ n = 80 THEN 0
          ELSE IF p = c /\ n = 443 THEN 0 ELSE n
  BY <1>0, <1>3
<1>5. q \in Nat /\ (q = n \/ q = 80 \/ q = 0) BY <1>0, <1>4
<1>6. Fits(q) BY <1>5, SMT DEF Fits
<1>7. EnforcedPort(p, q) = q BY <1>0, <1>2, <1>3, <1>4, <1>5
<1> QED BY <1>6, <1>7

PortText(q) == IF q = 0 THEN <<>> ELSE <<":">> \o Printed(q)

(***************************************************************************)
(* What is written of a port number is a port again, with this number.     *)
(***************************************************************************)
LEMMA PortTextIs ==
  ASSUME NEW q, Fits(q), NEW t, t = PortText(q)
  PROVE  /\ t \in Seq(Char) /\ (t = <<>> <=> q = 0)
         /\ t # <<>> => t[1] = ":" /\ GoodPort(t)
         /\ \A i \in 2..Len(t) : t[i] # ":"
         /\ \A i \in 1..Len(t) : t[i] # "/"
         /\ PortNumber(t) = q
<1>1. CASE q = 0
  <2>1. t = <<>> BY <1>1 DEF PortText
  <2>2. PortNumber(t) = 0 BY <2>1, SMT DEF PortNumber
  <2>3. t \in Seq(Char) /\ Len(t) = 0 BY <2>1
  <2> QED BY <1>1, <2>1, <2>2, <2>3
<1>2. CASE q # 0
  <2>1. q \in Nat /\ q < Power[6] BY FitsPower
  <2>2. PICK s : s = Printed(q) OBVIOUS
  <2>3. s \in Seq(Digit) /\ Len(s) \in 1..5 /\ Number(s) = q BY <2>1, <2>2, PrintedIs
  <2>4. PICK c : c = <<":">> OBVIOUS
  <2>5. c \in Seq(Char) /\ Len(c) = 1 /\ c[1] = ":"
    <3>1. ":" \in Char BY DEF Char, Mark
    <3> QED BY <2>4, <3>1
  <2>6. s \in Seq(Char)
    <3>1. Digit \subseteq Char BY DEF Char, Alnum
    <3> QED BY <2>3, <3>1
  <2>7. t = c \o s BY <1>2, <2>2, <2>4 DEF PortText
  <2>8. Joins(t, c, s) BY ONLY <2>5, <2>6, <2>7, ConcatIs
  <2>9. /\ t \in Seq(Char) /\ Len(t) = 1 + Len(s) /\ t[1] = ":"
        /\ \A i \in 1..Len(s) : t[1 + i] = s[i]
    <3>1. 1 \in 1..Len(c) BY <2>5
    <3> QED BY <2>5, <2>8, <3>1 DEF Joins
  <2>10. \A i \in 1..Len(s) : s[i] \in Digit BY <2>3
  <2>11. ASSUME NEW i \in 2..Len(t) PROVE t[i] \in Digit
    <3>1. PICK j : j = i - 1 OBVIOUS
    <3>2. j \in 1..Len(s) /\ 1 + j = i BY <2>3, <2>9, <3>1
    <3>3. t[i] = s[j] BY <2>9, <3>2
    <3> QED BY <2>10, <3>2, <3>3
  <2>12. t # <<>> /\ Len(t) \in 2..6 /\ Len(t) <= 6 /\ Len(t) > 1
    <3>1. PICK L \in 1..5 : L = Len(s) BY <2>3
    <3>2. 1 + L \in 2..6 /\ 1 + L <= 6 /\ 1 + L > 1 OBVIOUS
    <3> QED BY <2>9, <3>1, <3>2
  <2>13. Tail(t) = s
    <3>1. Tail(t) \in Seq(Char) /\ Len(Tail(t)) = Len(s)
          /\ \A i \in 1..Len(s) : Tail(t)[i] = t[i + 1]
      BY <2>3, <2>9, <2>12
    <3>2. \A i \in 1..Len(s) : i + 1 = 1 + i OBVIOUS
    <3>3. \A i \in 1..Len(s) : Tail(t)[i] = s[i] BY <2>9, <3>1, <3>2
    <3> QED BY <2>6, <3>1, <3>3, SeqEqual
  <2>14. GoodPort(t)
    <3>1. Range(s) \subseteq Digit
      <4>1. DOMAIN s = 1..Len(s) BY <2>6
      <4> QED BY <2>10, <4>1 DEF Range
    <3> QED BY <2>12, <2>13, <3>1, Zenon DEF GoodPort
  <2>15. PortNumber(t) = q
    <3>1. Len(t) > 1 /\ Fits(Number(Tail(t))) BY <2>3, <2>12, <2>13, Zenon
    <3> QED BY <2>3, <2>9, <2>13, <2>14, <3>1, PortNumberIs
  <2>16. \A i \in 1..Len(t) : t[i] # "/"
    <3> SUFFICES ASSUME NEW i \in 1..Len(t) PROVE t[i] # "/"
      OBVIOUS
    <3>1. i = 1 \/ i \in 2..Len(t) BY <2>12
    <3> QED BY <2>9, <2>11, <3>1, NoMark
  <2>17. \A i \in 2..Len(t) : t[i] # ":" BY <2>11, NoMark
  <2> QED BY <1>2, <2>9, <2>12, <2>14, <2>15, <2>16, <2>17
<1> QED BY <1>1, <1>2

-----------------------------------------------------------------------------
\* What is returned of parts that pass.
Accepts(r, p, d, n, h, c) ==
  /\ p = r.protocol /\ d = WithoutDot(r.domain)
  /\ n = EnforcedPort(r.protocol, PortNumber(r.port)) /\ h = EnforcedPath(r.protocol, r.path)
  /\ Range(p) \subseteq Alnum /\ (r.port # <<>> => GoodPort(r.port))
  /\ Range(h) \subseteq PathChar /\ ValidDomain(d)
  /\ c = [url |-> p \o SchemeEnd \o d \o PortText(n) \o h, domain |-> DomTld(d)]

(***************************************************************************)
(* Parts are accepted in one way only.                                     *)
(***************************************************************************)
LEMMA CleanedIs ==
  ASSUME NEW r
  PROVE  /\ \A p, d, n, h, c : Accepts(r, p, d, n, h, c) => Cleaned(r) = c
         /\ Cleaned(r) # Refused => \E p, d, n, h : Accepts(r, p, d, n, h, Cleaned(r))
<1>1. PICK d, n, h : /\ d = WithoutDot(r.domain)
                     /\ n = EnforcedPort(r.protocol, PortNumber(r.port))
                     /\ h = EnforcedPath(r.protocol, r.path)
  OBVIOUS
<1>2. Cleaned(r) = IF /\ Range(r.protocol) \subseteq Alnum /\ (r.port # <<>> => GoodPort(r.port))
                      /\ Range(h) \subseteq PathChar /\ ValidDomain(d)
                   THEN [url |-> r.protocol \o SchemeEnd \o d \o PortText(n) \o h,
                         domain |-> DomTld(d)]
                   ELSE Refused
  BY <1>1, Zenon DEF Cleaned, PortText
<1> QED BY <1>1, <1>2, Zenon DEF Accepts

(***************************************************************************)
(* The first url of dht, and the cleaner on any other.                     *)
(***************************************************************************)
LEMMA CleanerIs ==
  ASSUME NEW u
  PROVE  /\ BasicUrlCleaner(u) # Refused => SchemesOf(u) # {}
         /\ SchemesOf(u) # {} /\ ~IsPrefix(<<"d", "h", "t">> \o SchemeEnd, u) =>
              BasicUrlCleaner(u) = Cleaned(SplitUrl(u, Min(SchemesOf(u))))
         /\ BasicUrlCleaner(u) # Refused =>
              BasicUrlCleaner(u) = Cleaned(SplitUrl(u, Min(SchemesOf(u))))
BY Zenon DEF BasicUrlCleaner, SchemesOf

(***************************************************************************)
(* A domain without its last dot.                                          *)
(***************************************************************************)
LEMMA UndottedIs ==
  ASSUME NEW d, IsLow(d), \A i \in 1..Len(d) : d[i] # "/", NEW e, e = WithoutDot(d)
  PROVE  IsLow(e) /\ \A i \in 1..Len(e) : e[i] # "/"
<1>1. d \in Seq(Char) /\ \A i \in 1..Len(d) : d[i] \notin Capital BY DEF IsLow
<1>2. CASE d # <<>> /\ Last(d) = "."
  <2>1. e = Front(d) BY <1>2 DEF WithoutDot
  <2>2. Len(d) \in Nat /\ Len(d) >= 1 BY <1>1, <1>2, EmptySeq
  <2>3. PICK n : n = Len(d) - 1 OBVIOUS
  <2>4. e = SubSeq(d, 1, n) BY <2>1, <2>3 DEF Front
  <2>5. n \in Nat /\ n <= Len(d) BY <2>2, <2>3
  <2>6. e \in Seq(Char) /\ Len(e) = n /\ \A i \in 1..n : e[i] = d[i]
    BY <1>1, <2>2, <2>4, <2>5
  <2>7. \A i \in 1..n : i \in 1..Len(d) BY <2>2, <2>5
  <2> QED BY <1>1, <2>6, <2>7 DEF IsLow
<1>3. CASE ~(d # <<>> /\ Last(d) = ".")
  <2>1. e = d BY <1>3 DEF WithoutDot
  <2> QED BY <2>1
<1> QED BY <1>2, <1>3

(***************************************************************************)
(* Whether the domain that is written ends in "]".                         *)
(***************************************************************************)
LEMMA BracketSeen ==
  ASSUME NEW u, NEW p, NEW d, NEW h, IsUrl(u, p, d, <<>>, h), d # <<>>, Last(d) = "]",
         h # <<>> => h[1] = "/"
  PROVE  CleanedOnce(u)
<1>1. u \in Seq(Char) /\ p \in Seq(Char) /\ d \in Seq(Char) /\ h \in Seq(Char) BY DEF IsUrl
<1>2. PICK P \in Nat, D \in Nat, H \in Nat : P = Len(p) /\ D = Len(d) /\ H = Len(h)
  BY <1>1, LenProperties
<1>3. /\ Len(u) = P + 3 + D + 0 + H
      /\ \A i \in 1..D : u[P + 3 + i] = d[i]
      /\ \A i \in 1..H : u[P + 3 + D + 0 + i] = h[i]
  BY <1>2 DEF IsUrl
<1>4. D > 0 /\ d[D] = "]" BY <1>1, <1>2, EmptySeq DEF Last
<1>5. PICK n : n = P + 3 + D OBVIOUS
<1>6. u[n] = "]"
  <2>1. D \in 1..D BY <1>4
  <2> QED BY <1>3, <1>4, <1>5, <2>1
<1>7. CASE H = 0
  <2>1. Len(u) = n BY <1>3, <1>5, <1>7
  <2> QED BY <1>6, <2>1 DEF CleanedOnce, Last
<1>8. CASE H # 0
  <2>1. h[1] = "/" BY <1>1, <1>2, <1>8
  <2>2. 1 \in 1..H /\ P + 3 + D + 0 + 1 = n + 1 /\ n \in 1..(Len(u) - 1)
    BY <1>3, <1>5, <1>8
  <2>3. u[n + 1] = "/" BY <1>3, <2>1, <2>2
  <2> QED BY <1>6, <2>2, <2>3 DEF CleanedOnce
<1> QED BY <1>7, <1>8

(***************************************************************************)
(* The url that basicUrlCleaner returns has the parts it was put together  *)
(* of, none of which changes a second time.                                *)
(***************************************************************************)
LEMMA CleanedStays ==
  ASSUME NEW u \in Seq(Char), NEW c, c = BasicUrlCleaner(u), c # Refused, ~CleanedOnce(c.url)
  PROVE  BasicUrlCleaner(c.url) = c
<1>1. SchemesOf(u) # {} /\ c = Cleaned(SplitUrl(u, Min(SchemesOf(u)))) BY CleanerIs
<1>2. PICK s : s = Min(SchemesOf(u)) OBVIOUS
<1>3. s \in SchemesOf(u)
  <2>1. PICK T : T = SchemesOf(u) OBVIOUS
  <2>2. T \in SUBSET Nat /\ T # {}
    <3>1. SchemesOf(u) \in SUBSET Nat BY DEF SchemesOf
    <3> QED BY <1>1, <2>1, <3>1
  <2>3. Min(T) \in T BY ONLY <2>2, MinExists
  <2> QED BY <1>2, <2>1, <2>3
<1>4. PICK r : r = SplitUrl(u, s) OBVIOUS
<1>5. Split(r) BY <1>3, <1>4, PartsOf
<1>6. Cleaned(r) = c BY <1>1, <1>2, <1>4
<1>7. PICK p, d, n, h : Accepts(r, p, d, n, h, c) BY <1>6, CleanedIs
<1>8. /\ p = r.protocol /\ d = WithoutDot(r.domain)
      /\ n = EnforcedPort(p, PortNumber(r.port)) /\ h = EnforcedPath(p, r.path)
      /\ Range(p) \subseteq Alnum /\ (r.port # <<>> => GoodPort(r.port))
      /\ Range(h) \subseteq PathChar /\ ValidDomain(d)
      /\ c = [url |-> p \o SchemeEnd \o d \o PortText(n) \o h, domain |-> DomTld(d)]
  BY <1>7 DEF Accepts
<1>9. IsLow(p) /\ \A i \in 1..Len(p) : p[i] # ":"
  <2>1. IsLow(p) BY <1>5, <1>8 DEF Split
  <2>2. DOMAIN p = 1..Len(p) BY <2>1 DEF IsLow
  <2>3. \A i \in 1..Len(p) : p[i] \in Alnum BY <1>8, <2>2 DEF Range
  <2> QED BY <2>1, <2>3, NoMark
<1>10. IsLow(d) /\ \A i \in 1..Len(d) : d[i] # "/"
  <2>1. PICK dd : dd = r.domain OBVIOUS
  <2>2. IsLow(dd) /\ \A i \in 1..Len(dd) : dd[i] # "/" BY <1>5, <2>1 DEF Split
  <2>3. d = WithoutDot(dd) BY <1>8, <2>1
  <2> QED BY ONLY <2>2, <2>3, UndottedIs
<1>11. d \in Seq(Char) /\ p \in Seq(Char) BY <1>9, <1>10 DEF IsLow
<1>12. /\ d # <<>> /\ Last(d) # "."
       /\ Last(d) = "]" \/ \A i \in 1..Len(d) : d[i] # ":"
  BY <1>8, <1>11, ValidIs
<1>13. Fits(n) /\ EnforcedPort(p, n) = n
  <2>1. PICK m : m = PortNumber(r.port) OBVIOUS
  <2>2. r.port \in Seq(Char) BY <1>5 DEF Split
  <2>3. Fits(m) BY <1>8, <2>1, <2>2, PortNumberIs
  <2>4. n = EnforcedPort(p, m) BY <1>8, <2>1
  <2> QED BY ONLY <2>3, <2>4, PortAgain
<1>14. h \in Seq(Char) /\ (h # <<>> => h[1] = "/") /\ EnforcedPath(p, h) = h
  <2>1. PICK g : g = r.path OBVIOUS
  <2>2. g \in Seq(Char) /\ (g # <<>> => g[1] = "/") BY <1>5, <2>1 DEF Split
  <2>3. h = EnforcedPath(p, g) BY <1>8, <2>1
  <2> QED BY ONLY <2>2, <2>3, PathAgain
<1>15. PICK t : t = PortText(n) OBVIOUS
<1>16. /\ t \in Seq(Char) /\ (t = <<>> <=> n = 0)
       /\ t # <<>> => t[1] = ":" /\ GoodPort(t)
       /\ \A i \in 2..Len(t) : t[i] # ":"
       /\ \A i \in 1..Len(t) : t[i] # "/"
       /\ PortNumber(t) = n
  BY ONLY <1>13, <1>15, PortTextIs
<1>17. PICK v : v = p \o SchemeEnd \o d \o t \o h OBVIOUS
<1>18. c = [url |-> v, domain |-> DomTld(d)] /\ c.url = v
  <2>1. c = [url |-> v, domain |-> DomTld(d)] BY <1>8, <1>15, <1>17, Zenon
  <2> QED BY <2>1
<1>19. IsUrl(v, p, d, t, h) BY ONLY <1>11, <1>14, <1>16, <1>17, JoinedIs
<1>20. t = <<>> => \A i \in 1..Len(d) : d[i] # ":"
  <2> SUFFICES ASSUME t = <<>>, Last(d) = "]" PROVE FALSE
    BY <1>12
  <2>1. IsUrl(v, p, d, <<>>, h) BY <1>19
  <2>2. CleanedOnce(v) BY <1>12, <1>14, <2>1, BracketSeen
  <2> QED BY <1>18, <2>2
<1>21. Apart(p, d, t, h) BY <1>9, <1>10, <1>14, <1>16, <1>20 DEF Apart
<1>22. /\ SchemesOf(v) # {} /\ Min(SchemesOf(v)) = Len(p) + 1
       /\ SplitUrl(v, Len(p) + 1) =
            [protocol |-> ToLower(p), domain |-> ToLower(d), port |-> t, path |-> h]
  BY ONLY <1>19, <1>21, SplitJoined
<1>23. ToLower(p) = p /\ ToLower(d) = d BY <1>9, <1>10, LowerAgain
<1>24. PICK w : w = [protocol |-> p, domain |-> d, port |-> t, path |-> h] OBVIOUS
<1>25. SplitUrl(v, Min(SchemesOf(v))) = w BY <1>22, <1>23, <1>24
<1>26. ~IsPrefix(<<"d", "h", "t">> \o SchemeEnd, v) BY <1>18 DEF CleanedOnce
<1>27. BasicUrlCleaner(v) = Cleaned(w) BY <1>22, <1>25, <1>26, CleanerIs
<1>28. Accepts(w, p, d, n, h, c)
  <2>1. w.protocol = p /\ w.domain = d /\ w.port = t /\ w.path = h BY <1>24
  <2>2. WithoutDot(d) = d BY <1>12 DEF WithoutDot
  <2>3. EnforcedPort(p, PortNumber(t)) = n BY <1>13, <1>16
  <2>4. t # <<>> => GoodPort(t) BY <1>16
  <2> QED BY <1>8, <1>14, <2>1, <2>2, <2>3, <2>4, Zenon DEF Accepts
<1>29. Cleaned(w) = c BY <1>28, CleanedIs
<1> QED BY <1>18, <1>27, <1>29

-----------------------------------------------------------------------------
\* What there is before and after a call.
CleanerInv ==
  /\ raw \in Seq(Char)
  /\ annurl = <<>> \/ annurl = <<BasicUrlCleaner(raw)>>

(***************************************************************************)
(* What basicUrlCleaner returns of any url, it returns of the url in it    *)
(* again (but for an IPv6 address without a port and for dht).             *)
(***************************************************************************)
THEOREM AlwaysCleanedForGood == CleanerSpec => []CleanedForGood
<1>1. InitCleaner => CleanerInv BY DEF InitCleaner, CleanerInv
<1>2. CleanerInv /\ [CallCleaner]_cleanervars => CleanerInv'
  BY DEF CleanerInv, CallCleaner, cleanervars
<1>3. CleanerInv => CleanedForGood
  <2> SUFFICES ASSUME CleanerInv, NEW c \in Range(annurl), c # Refused, ~CleanedOnce(c.url)
               PROVE  BasicUrlCleaner(c.url) = c
    BY DEF CleanedForGood
  <2>1. PICK a : a = annurl OBVIOUS
  <2>2. a # <<>>
    <3>1. Range(<<>>) = {} BY DEF Range
    <3> QED BY <2>1, <3>1
  <2>3. PICK b : b = BasicUrlCleaner(raw) OBVIOUS
  <2>4. a = <<b>> BY <2>1, <2>2, <2>3 DEF CleanerInv
  <2>5. c = b
    <3>1. DOMAIN <<b>> = {1} /\ <<b>>[1] = b OBVIOUS
    <3> QED BY <2>1, <2>4, <3>1 DEF Range
  <2>6. raw \in Seq(Char) BY DEF CleanerInv
  <2> QED BY <2>3, <2>5, <2>6, CleanedStays
<1> QED BY <1>1, <1>2, <1>3, PTL DEF CleanerSpec

=============================================================================
