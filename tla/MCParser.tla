------------------------------ MODULE MCParser ------------------------------
(***************************************************************************)
(* One call of the parser.  skip_value on every buffer of at most MaxLen   *)
(* tokens, against the grammar of bencoding;                               *)
(* parse_info on info dictionaries put together entry by entry: each key   *)
(* absent or with a good or a bad value, the entries in order, two of them *)
(* swapped, or one of them twice.  The lexer on the inputs of MCBytes.     *)
(***************************************************************************)
EXTENDS Parser, MCBytes

CONSTANTS MaxLen

Keys == <<"a", "files", "length", "name", "piece length", "pieces", "private", "zone">>
Order == <<"", "20 bytes", "a", "files", "length", "name", "path", "piece length", "pieces",
           "private", "zone", "not utf-8">>
MCStr == Range(Order)
MCRank == [s \in MCStr |-> (CHOOSE n \in 1..Len(Order) : Order[n] = s) - 1]
MCUtf8 == MCStr \ {"not utf-8"}
MCNumber == {"-1", "0", "1", "2^63"}
MCInt64 == {"-1", "0", "1"}
MCNegative == {"-1"}
MCPieces == {"", "20 bytes"}

\* The tokens of the buffers for skip_value: an empty string, two that can be
\* keys, one that cannot, and a number.
Word == {"", "a", "zone", "not utf-8"}
Tokens == {S(s) : s \in Word} \cup {I("1"), D, L, E, Junk}

\* what the buffer given to parse_info is made of
VARIABLE entries

-----------------------------------------------------------------------------
\* A file dictionary from a length, a path and further entries.
Dict(parts) == <<D>> \o FlattenSeq(parts) \o <<E>>
Path(parts) == <<L>> \o parts \o <<E>>
Length(n) == <<S("length"), I(n)>>

GoodFile == Dict(<<Length("1"), <<S("path")>> \o Path(<<S("a")>>)>>)

\* One file of a list of files, and whether it is valid; "lax" is without -v only.
FileDicts == {
  [tokens |-> GoodFile, ok |-> "yes"],
  [tokens |-> Dict(<<Length("0"), <<S("path")>> \o Path(<<>>), <<S("zone"), I("2^63")>>>>), ok |-> "yes"],
  [tokens |-> Dict(<<<<S("a"), L, E>>, Length("1"), <<S("name"), S("")>>,
                    <<S("path")>> \o Path(<<S("a"), S("not utf-8")>>)>>), ok |-> "lax"],
  [tokens |-> Dict(<<Length("-1"), <<S("path")>> \o Path(<<S("a")>>)>>), ok |-> "no"],
  [tokens |-> Dict(<<Length("2^63"), <<S("path")>> \o Path(<<S("a")>>)>>), ok |-> "no"],
  [tokens |-> Dict(<<Length("1")>>), ok |-> "no"],
  [tokens |-> Dict(<<<<S("path")>> \o Path(<<S("a")>>), Length("1")>>), ok |-> "no"],
  [tokens |-> Dict(<<Length("1"), <<S("path"), S("a")>>>>), ok |-> "no"],
  [tokens |-> Dict(<<Length("1"), <<S("path")>> \o Path(<<I("1")>>)>>), ok |-> "no"],
  [tokens |-> Dict(<<Length("1"), <<S("path")>> \o Path(<<S("a")>>), <<S("length"), I("1")>>>>), ok |-> "no"],
  [tokens |-> <<S("a")>>, ok |-> "no"] }

\* The values considered for "files": every file alone and behind a good one.
FileLists ==
  {[tokens |-> <<L, E>>, ok |-> "no"], [tokens |-> <<D, E>>, ok |-> "no"]}
    \cup {[tokens |-> <<L>> \o f.tokens \o <<E>>, ok |-> f.ok] : f \in FileDicts}
    \cup {[tokens |-> <<L>> \o GoodFile \o f.tokens \o <<E>>, ok |-> f.ok] : f \in FileDicts}

Value(token, ok) == [tokens |-> <<token>>, ok |-> ok]

\* The values considered for a key: fewer for those of little interest.
Values(key) ==
  CASE key = "files" -> FileLists
    [] key = "length" -> {Value(I("1"), "yes"), Value(I("-1"), "yes"), Value(I("2^63"), "no"),
                          Value(S("a"), "no")}
    [] key = "name" -> {Value(S("a"), "yes"), Value(S("not utf-8"), "lax"), Value(I("1"), "no")}
    [] key = "piece length" -> {Value(I("1"), "yes"), Value(I("2^63"), "no")}
    [] key = "pieces" -> {Value(S("20 bytes"), "yes"), Value(S("a"), "no"), Value(I("1"), "no")}
    [] key = "private" -> {Value(I("1"), "yes"), Value(I("0"), "yes"), Value(I("-1"), "no"),
                           Value(S("a"), "no")}
    [] OTHER -> {Value(I("2^63"), "yes"), Value(L, "no")}

\* At most one entry has a value that is not fine.
Fine(key) == CHOOSE v \in Values(key) : v.ok = "yes"

\* The entries for the keys at positions ps, the value at position n being v.
EntriesFor(ps, n, v) ==
  [m \in 1..Len(ps) |-> [key |-> Keys[ps[m]],
                         val |-> IF ps[m] = n THEN v ELSE Fine(Keys[ps[m]])]]

\* Entries m and m + 1 swapped; entry m twice.
SwapAt(s, m) == [n \in 1..Len(s) |-> IF n = m THEN s[m + 1] ELSE IF n = m + 1 THEN s[m] ELSE s[n]]
TwiceAt(s, m) == [n \in 1..(Len(s) + 1) |-> IF n <= m THEN s[n] ELSE s[n - 1]]

Positions == [n \in 1..Len(Keys) |-> n]

DictOf(es) ==
  <<D>> \o FlattenSeq([n \in 1..Len(es) |-> <<S(es[n].key)>> \o es[n].val.tokens]) \o <<E>>

InitSkip ==
  /\ goal = "skip_value"
  /\ buffer \in BoundedSeq(Tokens, MaxLen)
  /\ entries = <<>> /\ strict = FALSE

InitInfo ==
  /\ goal = "parse_info"
  /\ \E P \in SUBSET (1..Len(Keys)) : \E n \in P : \E v \in Values(Keys[n]) :
       LET s == EntriesFor(SelectSeq(Positions, LAMBDA m : m \in P), n, v) IN
         \/ entries = s
         \/ \E m \in 1..(Len(s) - 1) : entries = SwapAt(s, m)
         \/ \E m \in 1..Len(s) : entries = TwiceAt(s, m)
  /\ buffer = DictOf(entries)
  /\ strict \in BOOLEAN

InitCall == (InitSkip \/ InitInfo) /\ end = Error /\ state = "called"

\* Either a call of the parser or one of the lexer; the other one is not there.
ParserInit ==
  \/ /\ InitCall
     /\ fn = "skip_number" /\ data = <<>> /\ start = 1 /\ at = 1 /\ pos = 1
     /\ num = 0 /\ neg = FALSE /\ text = <<>> /\ pc = "failed"
  \/ /\ BytesInit
     /\ goal = "bytes" /\ buffer = <<>> /\ entries = <<>> /\ strict = FALSE
     /\ end = Error /\ state = "none"

ParserNext ==
  \/ Call /\ UNCHANGED <<entries, lexvars>>
  \/ Next /\ UNCHANGED <<entries, callvars>>

ParserSpec == ParserInit /\ [][ParserNext]_<<callvars, entries, lexvars>>

-----------------------------------------------------------------------------
Has(key) == \E n \in 1..Len(entries) : entries[n].key = key

(***************************************************************************)
(* parse_info accepts exactly the dictionaries with ascending keys that    *)
(* have a piece length, pieces and files or a length, all values of a kind *)
(* their key allows; the length beside a list of files may be anything     *)
(* well formed, and so may a number too large where nobody asks for it.    *)
(***************************************************************************)
AcceptsValidInfo ==
  state = "returned" /\ goal = "parse_info" =>
    LET ascending == \A n \in 1..(Len(entries) - 1) :
                       MCRank[entries[n].key] < MCRank[entries[n + 1].key]
        fine(e) == \/ e.val.ok = "yes"
                   \/ e.val.ok = "lax" /\ ~strict
                   \/ e.key = "length" /\ Has("files")
        valid == /\ ascending /\ Has("piece length") /\ Has("pieces")
                 /\ Has("files") \/ Has("length")
                 /\ \A n \in 1..Len(entries) : fine(entries[n])
    IN end = IF valid THEN Len(buffer) + 1 ELSE Error
=============================================================================
