---------------------------- MODULE MCFilterUrl ----------------------------
(***************************************************************************)
(* The url filter: runs of filterUrl on a few urls with every list of at   *)
(* most MaxRules rules; and single calls of what it is composed of, the    *)
(* cleaner (UrlCleaner) and the replacement of groups (PcreReplace).  The  *)
(* tables with which filterUrl runs are what those calls return, and they  *)
(* are called as well on urls and templates of all kinds.                  *)
(***************************************************************************)
EXTENDS FilterUrl, UrlCleaner, PcreReplace, TLC

CONSTANTS
  MaxRules, MaxPieces,
  NoPort   \* the port of a url the cleaner refuses for its port

\* The urls of the filter are strings here, those of the cleaner characters.
Chars(s) == [n \in 1..Len(s) |-> SubSeq(s, n, n)]
Joined(texts) ==
  LET first[n \in 0..Len(texts)] == IF n = 0 THEN "" ELSE first[n - 1] \o texts[n]
  IN first[Len(texts)]

NotClean == [url |-> "", domain |-> ""]

MCLetter == {"a", "b", "d", "h", "p", "s", "t", "u", "x", "z"}
MCHex == {"a", "b", "d"}
MCSmall == ("A" :> "a") @@ ("D" :> "d") @@ ("H" :> "h") @@ ("P" :> "p") @@ ("T" :> "t")
MCCapital == DOMAIN MCSmall
MCOther == {" "}

-----------------------------------------------------------------------------
(***************************************************************************)
(* Urls of all kinds: of each part its text and what it is after cleaning, *)
(* "no" if it is to be refused; of a host also the domain.                 *)
(***************************************************************************)
Protocols == ("http" :> "http") @@ ("HTTP" :> "http") @@ ("https" :> "https") @@
  ("udp" :> "udp") @@ ("x" :> "x") @@ ("" :> "") @@ ("dht" :> "no") @@ ("h-t" :> "no")

Host(text, domain) == [text |-> text, domain |-> domain]
NoHost == Host("no", "no")
Hosts == ("a.b" :> Host("a.b", "a.b")) @@ ("A.b." :> Host("a.b", "a.b")) @@
  ("x.a-1.b" :> Host("x.a-1.b", "a-1.b")) @@ ("_z" :> Host("_z", "_z")) @@
  ("1.2.3.4" :> Host("1.2.3.4", "1.2.3.4")) @@ ("x.1a" :> NoHost) @@
  ("[::1]" :> Host("[::1]", "[::1]")) @@ ("[::x]" :> NoHost) @@ ("[:]" :> NoHost) @@
  ("1.2.3" :> NoHost) @@ ("1.2.3.4.5" :> NoHost) @@ ("1.2.3.256" :> NoHost) @@
  ("a..b" :> NoHost) @@ ("-a.b" :> NoHost) @@ ("." :> NoHost) @@ ("" :> NoHost)

\* 0 is no port.
Ports == ("" :> 0) @@ (":" :> 0) @@ (":80" :> 80) @@ (":0443" :> 443) @@ (":65535" :> 65535) @@
  (":65536" :> 0) @@ (":123456" :> NoPort) @@ (":8x" :> NoPort)
Paths == ("" :> "") @@ ("/" :> "/") @@ ("///" :> "/") @@ ("//a//?b=1" :> "/a//?b=1") @@
  ("/ " :> "no") @@ ("/a:80" :> "/a:80")

Parts == [protocol : DOMAIN Protocols, host : DOMAIN Hosts, port : DOMAIN Ports, path : DOMAIN Paths]
Text(p) == p.protocol \o "://" \o p.host \o p.port \o p.path

Default(protocol) == CASE protocol = "http" -> 80 [] protocol = "https" -> 443 [] OTHER -> 0

\* The url a tracker is announced with, or refused: an IPv6 address with its
\* port only, as the last ":" of the url is taken for the one of the port.
ExpectedUrl(p) ==
  LET protocol == Protocols[p.protocol]
      port == Ports[p.port]
      path == IF protocol = "udp" THEN ""
              ELSE IF Paths[p.path] = "" /\ Default(protocol) # 0 THEN "/" ELSE Paths[p.path]
      written == CASE protocol = "udp" /\ port = 0 -> ":80"
                   [] port \in {0, Default(protocol)} -> ""
                   [] OTHER -> ":" \o ToString(port)
  IN IF \/ "no" \in {protocol, Hosts[p.host].text, path} \/ port = NoPort
        \/ p.host = "[::1]" /\ p.port = ""
     THEN NotClean
     ELSE [url |-> protocol \o "://" \o Hosts[p.host].text \o written \o path,
           domain |-> Hosts[p.host].domain]

-----------------------------------------------------------------------------
(***************************************************************************)
(* The urls the rules are about, and the tables filterUrl runs with.       *)
(***************************************************************************)
a == "http://a.b/"
b == "http://x.a.b/"
w == "udp://[::1]:80"
x == "http://1.2.3.4/"
MCUrl == {a, b, w, x}
MCWhitelist == {w}
MCBlacklist == {w, x}

MCClean == (a :> a) @@ (b :> b) @@ (w :> w) @@ (x :> x) @@
  ("HTTP://A.b." :> a) @@ ("http:/a.b" :> NoUrl) @@ ("HTTP://x.A.b." :> b) @@
  ("http://a.b" :> a) @@ ("http://x.a.b" :> b) @@ ("http://1.2.3.4:80" :> x) @@
  ("udp://[::1]:" :> w) @@ ("udp://[::1]:80/http://a.b/" :> w) @@
  ("udp://[::1]:80/http://x.a.b/" :> w) @@ ("" :> NoUrl) @@ ("x." :> NoUrl) @@
  ("http://1.2.3.4" :> x)
MCRaw == DOMAIN MCClean

\* A rule that makes every url from itself (and would loop), one that makes
\* two of one, one whose results are whitelisted, refused and whatever was on
\* the stack, one that removes urls, and one that makes a whitelisted one.
OrNoMatch(f) == [u \in MCUrl |-> IF u \in DOMAIN f THEN f[u] ELSE NoMatch]
MCRewrites ==
  ("self" :> OrNoMatch((a :> <<"HTTP://A.b.">>) @@ (b :> <<"HTTP://x.A.b.">>))) @@
  ("split" :> OrNoMatch(a :> <<"http://x.a.b", "http://1.2.3.4:80">>)) @@
  ("mixed" :> OrNoMatch((a :> <<"udp://[::1]:80/http://a.b/", "", "http://1.2.3.4">>) @@
                        (b :> <<"udp://[::1]:80/http://x.a.b/", "x.", "http://1.2.3.4">>))) @@
  ("remove" :> OrNoMatch(a :> <<>>)) @@
  ("rescue" :> OrNoMatch(x :> <<"udp://[::1]:", "http://a.b">>))

MCRuleLists == UNION {[1..n -> DOMAIN MCRewrites] : n \in 0..MaxRules}

\* The outcome of each list by that of its tail.
MCOutcome ==
  LET byLength[n \in 0..MaxRules] ==
        [rs \in UNION {[1..m -> DOMAIN MCRewrites] : m \in 0..n} |->
          [u \in MCUrl |->
            IF rs = <<>> THEN {u} \ MCBlacklist
            ELSE IF MCRewrites[Head(rs)][u] = NoMatch THEN byLength[n - 1][Tail(rs)][u]
            ELSE AcceptedFrom(byLength[n - 1], Tail(rs), MCRewrites[Head(rs)][u], 1)]]
  IN byLength[MaxRules]

-----------------------------------------------------------------------------
(***************************************************************************)
(* The rules themselves: what pcre_exec returns for a pattern of some      *)
(* groups (of the ten pairs in the vector the others hold what the stack   *)
(* held), and the rewrites.                                                *)
(***************************************************************************)
Stack == Chars("http://1.2.3.4")
Match(groups) ==
  [rc |-> Len(groups),
   groups |-> [g \in 0..9 |-> IF g < Len(groups) THEN groups[g + 1] ELSE Stack]]

PatternA == a :> <<Chars(a), Chars("http"), Unset>>
PatternAB == (a :> <<Chars(a), Unset>>) @@ (b :> <<Chars(b), Chars("x.")>>)
Rules ==
  ("self" :> [pattern |-> PatternAB, rewrites |-> <<"HTTP://\\1A.b.">>]) @@
  ("split" :> [pattern |-> PatternA, rewrites |-> <<"\\1://\\x.a.b\\2", "\\1://1.2.3.4:80">>]) @@
  ("mixed" :> [pattern |-> PatternAB, rewrites |-> <<"udp://[::1]:80/\\0", "\\1", "\\2">>]) @@
  ("remove" :> [pattern |-> PatternA, rewrites |-> <<>>]) @@
  ("rescue" :> [pattern |-> x :> <<Chars(x)>>, rewrites |-> <<"udp://[::1]:", "http://a.b\\">>])

RewritesOf(pattern, u, texts) ==
  LET match == IF u \in DOMAIN pattern THEN Match(pattern[u]) ELSE [rc |-> -1]
      full == ReplaceFull(match, [n \in 1..Len(texts) |-> Chars(texts[n])])
  IN IF ~full.matched THEN NoMatch
     ELSE [n \in 1..Len(texts) |-> Joined(full.results[n])]

\* Templates, piece by piece: how a piece is written and what it stands for.
Pieces == ("z" :> "z") @@ ("\\z" :> "z") @@ ("\\\\" :> "\\") @@ ("\\1" :> "http") @@
  ("\\2" :> "") @@ ("\\9" :> "")
Templates == BoundedSeq(DOMAIN Pieces, MaxPieces)
Meaning(t) == Joined([n \in 1..Len(t) |-> Pieces[t[n]]])

-----------------------------------------------------------------------------
VARIABLES
  call,     \* a run of filterUrl, or a single call
  result    \* what that has returned: nothing yet, or one value

MCInit ==
  /\ result = <<>> /\ annurl = <<>>
  /\ \/ call = <<"filter">> /\ raw = <<>> /\ url \in MCRaw /\ rules \in MCRuleLists
     \/ /\ \/ \E p \in Parts : call = <<"parts", p>> /\ raw = Chars(Text(p))
           \/ \E r \in MCRaw : call = <<"text", r>> /\ raw = Chars(r)
           \/ \E rule \in DOMAIN Rules, u \in MCUrl : call = <<"rule", rule, u>> /\ raw = <<>>
           \/ \E t \in Templates : call = <<"template", t>> /\ raw = <<>>
        /\ url = a /\ rules = <<>>
  /\ Init

Filter == call[1] = "filter" /\ Next /\ UNCHANGED <<call, result, cleanervars>>

Cleaner == call[1] \in {"parts", "text"} /\ CallCleaner /\ UNCHANGED <<vars, call, result>>

SingleCall ==
  /\ result = <<>>
  /\ \/ /\ call[1] = "rule"
        /\ result' = <<RewritesOf(Rules[call[2]].pattern, call[3], Rules[call[2]].rewrites)>>
     \/ /\ call[1] = "template"
        /\ result' = <<RewritesOf(PatternA, a, <<Joined(call[2])>>)>>
  /\ UNCHANGED <<vars, call, cleanervars>>

\* filterUrl is sequential code: it goes on as long as there is a next step.
MCNext == Filter \/ Cleaner \/ SingleCall
MCSpec ==
  MCInit /\ [][MCNext]_<<vars, call, result, cleanervars>>
         /\ WF_<<vars, call, result, cleanervars>>(Filter)

(***************************************************************************)
(* "rewrite results are only rewritten with later rules => no loops"       *)
(* (url-filter.example:24), see NoLoops: every call of filterUrl returns.  *)
(***************************************************************************)
FilterReturns == call[1] = "filter" => NoLoops

(***************************************************************************)
(* The cleaner takes a url apart at the right places and accepts each part *)
(* as it should: the result is the url put together from the cleaned parts *)
(* with the domain of its host, or none.  It is also what filterUrl runs   *)
(* with above.                                                             *)
(***************************************************************************)
CleanedAsBuilt ==
  annurl # <<>> =>
    LET clean == [url |-> Joined(annurl[1].url), domain |-> Joined(annurl[1].domain)] IN
      /\ call[1] = "parts" => clean = ExpectedUrl(call[2])
      /\ call[1] = "text" => clean.url = IF Clean[call[2]] = NoUrl THEN "" ELSE Clean[call[2]]

(***************************************************************************)
(* A rewrite means what is written: \1 to \9 the text of a group, nothing  *)
(* for a group that has not matched or (beyond the next number) does not   *)
(* exist, "\" and another character that character.  The rules filterUrl   *)
(* runs with are made so, too.                                             *)
(***************************************************************************)
RewrittenAsWritten ==
  result # <<>> =>
    /\ call[1] = "template" => result[1] = <<Meaning(call[2])>>
    /\ call[1] = "rule" => result[1] = Rewrites[call[2]][call[3]]
=============================================================================
