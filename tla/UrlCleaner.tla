---------------------------- MODULE UrlCleaner ----------------------------
(***************************************************************************)
(* basicUrlCleaner, splitUrl and validDomain (sanitize-settings.cpp): what *)
(* becomes of one url, a sequence of characters (strings of length one).   *)
(* Of the alphabet there is what the code tells apart: capital letters,    *)
(* hexadecimal digits, the punctuation it names, and the rest.             *)
(***************************************************************************)
EXTENDS Naturals, SequencesExt, FiniteSets

CONSTANTS
  Letter,   \* small letters
  Hex,      \* the ones isxdigit accepts
  Capital,  \* capital letters
  Small,    \* the small letter of each
  Other     \* characters that are no letters, digits or marks

Digit == {"0", "1", "2", "3", "4", "5", "6", "7", "8", "9"}
Alnum == Letter \cup Capital \cup Digit
Mark == {"%", "&", "+", "-", ".", "/", ":", "=", "?", "_", "[", "]"}
Char == Alnum \cup Mark \cup Other

ASSUME CleanerAssumption ==
  /\ Hex \subseteq Letter /\ Small \in [Capital -> Letter]
  /\ Letter \cap Capital = {} /\ (Letter \cup Capital) \cap (Digit \cup Mark) = {}

ToLower(s) == [n \in 1..Len(s) |-> IF s[n] \in Capital THEN Small[s[n]] ELSE s[n]]

\* The text between two positions, the second one excluded.
From(s, a, b) == SubSeq(s, a, b - 1)

DigitChar == <<"0", "1", "2", "3", "4", "5", "6", "7", "8", "9">>
ValueOf(c) == (CHOOSE n \in 1..10 : DigitChar[n] = c) - 1

\* strtol on digits only, and a stream printing a number below 10^5.
Number(s) ==
  LET first[n \in 0..Len(s)] == IF n = 0 THEN 0 ELSE 10 * first[n - 1] + ValueOf(s[n])
  IN first[Len(s)]
Power == <<1, 10, 100, 1000, 10000, 100000>>
Printed(n) ==
  LET width == CHOOSE w \in 1..5 : n < Power[w + 1] /\ (w = 1 \/ n >= Power[w])
  IN [i \in 1..width |-> DigitChar[((n \div Power[width - i + 1]) % 10) + 1]]

SchemeEnd == <<":", "/", "/">>

\* The parts of a url in which "://" begins at position s.  A port keeps its ":".
SplitUrl(url, s) ==
  LET start == s + 3
      slashes == {n \in start..Len(url) : url[n] = "/"}
      path_i == Min(slashes \cup {Len(url) + 1})
      colons == {n \in start..(path_i - 1) : url[n] = ":"}
      port_i == IF colons = {} THEN path_i ELSE Max(colons)
  IN [protocol |-> ToLower(From(url, 1, s)),
      domain |-> ToLower(From(url, start, port_i)),
      port |-> From(url, port_i, path_i),
      path |-> From(url, path_i, Len(url) + 1)]

\* The labels of a domain, as the set of their ranges of positions.
Labels(d) ==
  LET dots == {n \in 1..Len(d) : d[n] = "."} IN
    {r \in ({0} \cup dots) \X (dots \cup {Len(d) + 1}) :
       r[1] < r[2] /\ \A n \in dots : ~(r[1] < n /\ n < r[2])}

LabelText(d, r) == From(d, r[1] + 1, r[2])

IPv6(d) ==
  /\ Len(d) >= 4 /\ Last(d) = "]"
  /\ \A n \in 3..(Len(d) - 1) : d[n] = ":" \/ d[n] \in Hex \cup Digit

IPv4(d) ==
  /\ Range(d) \subseteq Digit \cup {"."}
  /\ Cardinality(Labels(d)) = 4
  /\ \A r \in Labels(d) :
       Len(LabelText(d, r)) \in 1..3 /\ Number(LabelText(d, r)) <= 255

HostName(d) ==
  \A r \in Labels(d) : LET l == LabelText(d, r) IN
    /\ l # <<>> /\ l[1] \in Alnum \cup {"_"}
    /\ Range(l) \subseteq Alnum \cup {"_", "-"}

LooksLikeIPv4(d) == \E n \in 1..(Len(d) - 1) :
  /\ d[n] = "." /\ d[n + 1] \in Digit
  /\ \A m \in (n + 1)..Len(d) : d[m] # "."

ValidDomain(d) ==
  /\ d # <<>> /\ Last(d) # "."
  /\ IF d[1] = "[" THEN IPv6(d) ELSE IF LooksLikeIPv4(d) THEN IPv4(d) ELSE HostName(d)

\* "domain + tld", the last two labels; an address is taken as a whole.
DomTld(d) ==
  LET dots == {n \in 1..Len(d) : d[n] = "."}
      last2 == {n \in dots : Cardinality({m \in dots : m > n}) = 1}
  IN IF d[1] = "[" \/ LooksLikeIPv4(d) \/ last2 = {} THEN d
     ELSE From(d, (CHOOSE n \in last2 : TRUE) + 1, Len(d) + 1)

\* The byte in front of an empty domain is read, and is no dot: it belongs to
\* the length of the string.
WithoutDot(d) == IF d # <<>> /\ Last(d) = "." THEN Front(d) ELSE d

GoodPort(port) ==
  Len(port) <= 6 /\ Range(Tail(port)) \subseteq Digit

\* Mutant: the bound is off by one.
PortNumberAbove(port) ==
  LET n == IF Len(port) <= 1 THEN 0 ELSE Number(Tail(port))
  IN IF n > 65536 THEN 0 ELSE n

\* 0 if there is none, or none that fits 16 bits.
PortNumber(port) ==
  LET n == IF Len(port) <= 1 THEN 0 ELSE Number(Tail(port))
  IN IF n >= 65536 THEN 0 ELSE n

EnforcedPort(protocol, n) ==
  CASE protocol = <<"u", "d", "p">> /\ n = 0 -> 80
    [] protocol = <<"h", "t", "t", "p">> /\ n = 80 -> 0
    [] protocol = <<"h", "t", "t", "p", "s">> /\ n = 443 -> 0
    [] OTHER -> n

\* Mutant: of leading "/" only one goes.
EnforcedPathOnce(protocol, path) ==
  IF protocol = <<"u", "d", "p">> THEN <<>>
  ELSE IF path = <<>>
    THEN IF protocol \in {<<"h", "t", "t", "p">>, <<"h", "t", "t", "p", "s">>}
         THEN <<"/">> ELSE <<>>
  ELSE IF IsPrefix(<<"/", "/">>, path) THEN Tail(path) ELSE path

\* A udp url has no path, an http one has; doubled leading "/" go.
EnforcedPath(protocol, path) ==
  IF protocol = <<"u", "d", "p">> THEN <<>>
  ELSE IF path = <<>>
    THEN IF protocol \in {<<"h", "t", "t", "p">>, <<"h", "t", "t", "p", "s">>}
         THEN <<"/">> ELSE <<>>
  ELSE LET slashes == CHOOSE n \in 1..Len(path) :
                        /\ \A m \in 1..n : path[m] = "/"
                        /\ n = Len(path) \/ path[n + 1] # "/"
       IN From(path, slashes, Len(path) + 1)

PathChar == Alnum \cup (Mark \ {"[", "]"})

Refused == [url |-> <<>>, domain |-> <<>>]

Cleaned(parts) ==
  LET domain == WithoutDot(parts.domain)
      portnum == EnforcedPort(parts.protocol, PortNumber(parts.port))
      path == EnforcedPath(parts.protocol, parts.path)
  IN IF /\ Range(parts.protocol) \subseteq Alnum
        /\ parts.port # <<>> => GoodPort(parts.port)
        /\ Range(path) \subseteq PathChar
        /\ ValidDomain(domain)
     THEN [url |-> parts.protocol \o SchemeEnd \o domain
                     \o (IF portnum = 0 THEN <<>> ELSE <<":">> \o Printed(portnum)) \o path,
           domain |-> DomTld(domain)]
     ELSE Refused

\* An AnnounceUrl, or Refused.  The dht prefix is compared as it is written.
BasicUrlCleaner(url) ==
  LET starts == {n \in 1..(Len(url) - 2) : SubSeq(url, n, n + 2) = SchemeEnd}
  IN IF starts = {} \/ IsPrefix(<<"d", "h", "t">> \o SchemeEnd, url) THEN Refused
     ELSE Cleaned(SplitUrl(url, Min(starts)))

-----------------------------------------------------------------------------
VARIABLES
  raw,      \* the arguments of basicUrlCleaner, a url
  annurl    \* and its result: nothing yet, or one value

cleanervars == <<raw, annurl>>

InitCleaner == raw \in Seq(Char) /\ annurl = <<>>

CallCleaner ==
  /\ annurl = <<>>
  /\ annurl' = <<BasicUrlCleaner(raw)>>
  /\ UNCHANGED raw

CleanerSpec == InitCleaner /\ [][CallCleaner]_cleanervars

\* An IPv6 address without a port, and dht (written in capitals at first).
CleanedOnce(url) ==
  \/ Last(url) = "]"
  \/ \E n \in 1..(Len(url) - 1) : url[n] = "]" /\ url[n + 1] = "/"
  \/ IsPrefix(<<"d", "h", "t">> \o SchemeEnd, url)

(***************************************************************************)
(* The urls a program writes pass through the cleaner again in the next    *)
(* run: cleaning one changes neither it nor the domain it is grouped by.   *)
(***************************************************************************)
CleanedForGood ==
  \A c \in Range(annurl) :
    c = Refused \/ CleanedOnce(c.url) \/ BasicUrlCleaner(c.url) = c
=============================================================================
