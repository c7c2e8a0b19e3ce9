----------------------------- MODULE UrlConfig -----------------------------
(***************************************************************************)
(* The options of torrent-sanitize (main, src/src/torrent-sanitize.cpp)    *)
(* and what they load: the filters for meta entries, and the url filter    *)
(* files (splitLine and TorrentSanitize::loadUrlConfig,                    *)
(* src/src/sanitize-settings.cpp), with every construction, copy and       *)
(* destruction of a pattern on the way.  A line is a sequence of           *)
(* characters; what a regular expression matches is left to libpcre.       *)
(***************************************************************************)
EXTENDS PcreHandle, SequencesExt

CONSTANTS
  Char,          \* characters
  Pattern,       \* sequences of characters that compile
  PatternLimit,  \* how many of them fit into one regular expression
  File,          \* url filter files: records with their lines as "text"
  Flag,          \* the flags considered
  MaxArgs, MaxRules  \* bounds: options, and rewrite rules

Whitelist == <<"filter_url_whitelist">>
Blacklist == <<"filter_url_blacklist">>
Meta == <<<<"filter_meta_text">>, <<"filter_meta_num">>, <<"filter_meta_other">>>>
Members == Meta \o <<Whitelist, Blacklist>>
Rep == <<"rep">>
Slot(n) == <<"filter_url_replace", n>>
Objects == Range(Members) \cup {Rep} \cup {Slot(n) : n \in 1..MaxRules}

ASSUME ConfigAssumption ==
  /\ Objects \subseteq Handle /\ Pcre \subseteq Nat /\ MaxRules \in Nat
  /\ Flag \subseteq {"i", "f", "d", "v", "s", "h", "u"}
  /\ \A f \in File : f.text \in Seq(Seq(Char))

ASSUME CharAssumption == {" ", "#", "+", "*", "-"} \subseteq Char

Space == " "

\* Mutant: "--" is taken for "-" and a pattern.
PrefixOfOne(line) == IF line[1] \in {"+", "*", "-"} THEN <<line[1]>> ELSE <<>>

Prefix(line) ==
  IF line[1] \in {"+", "*"} THEN <<line[1]>>
  ELSE IF line[1] # "-" THEN <<>>
  ELSE IF Len(line) > 1 /\ line[2] = "-" THEN <<"-", "-">>
  ELSE <<"-">>

Trimmed(s) ==
  LET n == SelectInSeq(s, LAMBDA c : c # Space)
  IN IF n = 0 THEN <<>> ELSE SubSeq(s, n, Len(s))

\* The first word of a text that begins with one, and what is behind it.
WordEnd(s) ==
  LET space == SelectInSeq(s, LAMBDA c : c = Space)
  IN IF space = 0 THEN Len(s) ELSE space - 1
Word(s) == SubSeq(s, 1, WordEnd(s))
Behind(s) == Trimmed(SubSeq(s, WordEnd(s) + 1, Len(s)))

\* The columns of a text, up to one that begins with a "#".
Columns(text) ==
  LET from[s \in Seq(Char)] ==
        IF s = <<>> \/ s[1] = "#" THEN <<>> ELSE <<Word(s)>> \o from[Behind(s)]
  IN from[Trimmed(text)]

SplitLine(line) ==
  LET s == Trimmed(line) IN
    IF s = <<>> THEN <<>>
    ELSE IF Prefix(s) = <<>> THEN Columns(s)
    ELSE <<Prefix(s)>> \o Columns(SubSeq(s, Len(Prefix(s)) + 1, Len(s)))

-----------------------------------------------------------------------------
VARIABLES
  pc,
  status,       \* what main does, or returns
  files,        \* the url filter files given so far
  flags, info,  \* the flags given so far; opt_show_info
  args,         \* how many options have been read
  lines,        \* what is left of the file that is loaded
  cols,         \* the columns of a rule
  lists,        \* the patterns collected for the lists
  rules,        \* filter_url_replace: patterns and rewrites
  added,        \* additional_announce_urls
  regex         \* the alternatives compiled into a pattern

loadvars == <<lines, cols, lists, rules, added>>
mainvars == <<status, files, flags, info, args>>
vars == <<handlevars, pc, loadvars, mainvars, regex>>

NoLists == [white |-> <<>>, black |-> <<>>, domains |-> <<>>]

Init ==
  /\ InitHandles
  /\ pc = "construct" /\ status = "none"
  /\ files = <<>> /\ flags = {} /\ info = -1 /\ args = 0
  /\ lines = <<>> /\ cols = <<>> /\ lists = NoLists /\ rules = <<>> /\ added = <<>>
  /\ regex = [p \in Pcre |-> {}]

\* h.load of a regular expression of these alternatives; the pattern gets the
\* first place that is free.
Compile(h, alternatives) ==
  \E p \in Pcre :
    /\ \A q \in Pcre : q < p => Release(count, m_re[h])[q] > 0
    /\ Load(h, p)
    /\ regex' = [regex EXCEPT ![p] = alternatives]

Url(pattern) == [kind |-> "url", pattern |-> pattern]
Domain(pattern) == [kind |-> "domain", pattern |-> pattern]
Urls(patterns) == {Url(s) : s \in Range(patterns)}

\* TorrentSanitize san; the filters for meta entries are loaded in main.
ConstructMember ==
  /\ pc = "construct" /\ Cardinality(alive) < Len(Members)
  /\ Construct(Members[Cardinality(alive) + 1])
  /\ UNCHANGED <<pc, loadvars, mainvars, regex>>
LoadDefault ==
  /\ pc = "construct" /\ Cardinality(alive) = Len(Members)
  /\ \E n \in 1..Len(Meta) :
       /\ m_re[Meta[n]] = Null /\ (n > 1 => m_re[Meta[n - 1]] # Null)
       /\ Compile(Meta[n], {Url(<<"default">>)})
       /\ pc' = IF n < Len(Meta) THEN pc ELSE "options"
  /\ UNCHANGED <<loadvars, mainvars>>

\* Mutant: -h and -u overrule a -i before them.
GiveFlagLast(c) ==
  /\ flags' = flags \cup {c}
  /\ info' = IF c = "i" THEN 1 ELSE IF c \in {"h", "u"} THEN 0 ELSE info

GiveFlag(c) ==
  /\ flags' = flags \cup {c}
  /\ info' = IF c = "i" THEN 1
             ELSE IF c \in {"h", "u"} /\ info = -1 THEN 0
             ELSE info

\* getopt_long
Option == pc = "options" /\ args < MaxArgs /\ args' = args + 1

FlagOption ==
  /\ Option
  /\ \E c \in Flag : GiveFlag(c)
  /\ UNCHANGED <<handlevars, pc, loadvars, status, files, regex>>

\* return 2
Refuse == pc' = "return" /\ status' = "2"

\* --meta-filter-text and its like.
MetaOption ==
  /\ Option
  /\ \E n \in 1..Len(Meta) :
       \/ Compile(Meta[n], {Url(<<"given">>)}) /\ UNCHANGED <<pc, status>>
       \/ LoadFails(Meta[n]) /\ Refuse /\ UNCHANGED regex
  /\ UNCHANGED <<loadvars, files, flags, info>>

\* --url-filter; of a file that cannot be opened no line is read.
FileOption ==
  /\ Option
  /\ \E f \in File : files' = Append(files, f) /\ lines' = f.text
  /\ lists' = NoLists /\ pc' = "lines"
  /\ UNCHANGED <<handlevars, cols, rules, added, status, flags, info, regex>>

Plus == <<"+">>
Minus == <<"-">>
MinusMinus == <<"-", "-">>
Star == <<"*">>

\* A line that is blank or collects something.
ReadLine ==
  /\ pc = "lines" /\ lines # <<>>
  /\ lines' = Tail(lines)
  /\ \E c \in {SplitLine(Head(lines))} :
       /\ c # <<>> => c[1] \in {Plus, Minus, MinusMinus, Star}
       /\ added' = IF c # <<>> /\ c[1] = Plus THEN added \o Tail(c) ELSE added
       /\ lists' = IF c = <<>> \/ c[1] = Plus THEN lists
                   ELSE IF c[1] = Minus THEN [lists EXCEPT !.black = @ \o Tail(c)]
                   ELSE IF c[1] = MinusMinus THEN [lists EXCEPT !.domains = @ \o Tail(c)]
                   ELSE [lists EXCEPT !.white = @ \o Tail(c)]
  /\ UNCHANGED <<handlevars, pc, cols, rules, mainvars, regex>>

\* Any other line: PCRE_Replace rep, rep.load, a copy of it in the vector (the
\* copies the vector makes when it grows are left out), and its end.
ReadRule ==
  /\ pc = "lines" /\ lines # <<>>
  /\ lines' = Tail(lines)
  /\ cols' = SplitLine(Head(lines))
  /\ cols' # <<>> /\ cols'[1] \notin {Plus, Minus, MinusMinus, Star}
  /\ Construct(Rep) /\ pc' = "load"
  /\ UNCHANGED <<lists, rules, added, mainvars, regex>>
LoadRule ==
  /\ pc = "load"
  /\ IF cols[1] \in Pattern
     THEN Compile(Rep, {Url(cols[1])}) /\ pc' = "push"
     ELSE LoadFails(Rep) /\ pc' = "bad rule" /\ UNCHANGED regex
  /\ UNCHANGED <<loadvars, mainvars>>
\* Mutant: the slot in front of the one that is new.
PushRuleBefore ==
  /\ pc = "push" /\ Len(rules) < MaxRules
  /\ Copy(Slot(Len(rules)), Rep)
  /\ rules' = Append(rules, cols) /\ pc' = "next"
  /\ UNCHANGED <<lines, cols, lists, added, mainvars, regex>>

PushRule ==
  /\ pc = "push" /\ Len(rules) < MaxRules
  /\ Copy(Slot(Len(rules) + 1), Rep)
  /\ rules' = Append(rules, cols) /\ pc' = "next"
  /\ UNCHANGED <<lines, cols, lists, added, mainvars, regex>>
EndRule ==
  /\ pc \in {"next", "bad rule"}
  /\ Destroy(Rep)
  /\ IF pc = "next" THEN pc' = "lines" /\ UNCHANGED status ELSE Refuse
  /\ cols' = <<>>
  /\ UNCHANGED <<lines, lists, rules, added, files, flags, info, args, regex>>

Compiles(patterns) == Range(patterns) \subseteq Pattern /\ Len(patterns) <= PatternLimit

\* One regular expression for all patterns; it begins with an empty one.
LoadWhitelist ==
  /\ pc = "lines" /\ lines = <<>>
  /\ IF Compiles(lists.white)
     THEN /\ Compile(Whitelist, {Url(<<>>)} \cup Urls(lists.white))
          /\ pc' = "blacklist" /\ UNCHANGED status
     ELSE LoadFails(Whitelist) /\ Refuse /\ UNCHANGED regex
  /\ UNCHANGED <<loadvars, files, flags, info, args>>

\* Mutant: the error is not passed on.
LoadBlacklistAnyway ==
  /\ pc = "blacklist"
  /\ IF Compiles(lists.black \o lists.domains)
     THEN Compile(Blacklist, {Url(<<>>)} \cup Urls(lists.black)
                               \cup {Domain(s) : s \in Range(lists.domains)})
     ELSE LoadFails(Blacklist) /\ UNCHANGED regex
  /\ pc' = "options"
  /\ UNCHANGED <<loadvars, mainvars>>

LoadBlacklist ==
  /\ pc = "blacklist"
  /\ IF Compiles(lists.black \o lists.domains)
     THEN /\ Compile(Blacklist, {Url(<<>>)} \cup Urls(lists.black)
                                  \cup {Domain(s) : s \in Range(lists.domains)})
          /\ pc' = "options" /\ UNCHANGED status
     ELSE LoadFails(Blacklist) /\ Refuse /\ UNCHANGED regex
  /\ UNCHANGED <<loadvars, files, flags, info, args>>

-----------------------------------------------------------------------------
\* What main does with n names of files.
Mode ==
  IF "s" \in flags THEN "sanitize"
  ELSE IF info # 0 THEN "info"
  ELSE IF "h" \in flags THEN "hash"
  ELSE "urls"

Run ==
  /\ pc = "options"
  /\ pc' = "return" /\ status' = Mode
  /\ UNCHANGED <<handlevars, loadvars, files, flags, info, args, regex>>

\* exit(100), for the wrong number of file names or an unknown option:
\* nothing is destroyed.
Syntax ==
  /\ pc = "options"
  /\ pc' = "exited" /\ status' = "100"
  /\ UNCHANGED <<handlevars, loadvars, files, flags, info, args, regex>>

\* The end of main: the members of san in the opposite order.
DestroyMember ==
  /\ pc = "return" /\ alive # {}
  /\ \E n \in {Cardinality(alive) - Len(Members)} :
       Destroy(IF n > 0 THEN Slot(Len(rules) + 1 - n) ELSE Members[Len(Members) + n])
  /\ UNCHANGED <<pc, loadvars, mainvars, regex>>
Return ==
  /\ pc = "return" /\ alive = {}
  /\ pc' = "exited"
  /\ UNCHANGED <<handlevars, loadvars, mainvars, regex>>

Next ==
  \/ ConstructMember \/ LoadDefault \/ FlagOption \/ MetaOption \/ FileOption
  \/ ReadLine \/ ReadRule \/ LoadRule \/ PushRule \/ EndRule
  \/ LoadWhitelist \/ LoadBlacklist \/ Run \/ Syntax \/ DestroyMember \/ Return

Spec == Init /\ [][Next]_vars

-----------------------------------------------------------------------------
\* What the functions and variables range over.
TypeOK ==
  /\ HandlesOK
  /\ status \in {"none", "sanitize", "info", "hash", "urls", "2", "100"}
  /\ files \in Seq(File) /\ flags \subseteq Flag /\ info \in {-1, 0, 1}
  /\ added \in Seq(Seq(Char))
  /\ rules \in Seq(Seq(Seq(Char))) /\ Len(rules) <= MaxRules
  /\ alive \subseteq Objects

-----------------------------------------------------------------------------
\* Where the text behind a prefix begins, which may be glued to it.
Glued(line) ==
  {g \in 2..(Len(line) + 1) : \E f \in 1..(g - 1) :
     /\ \A j \in 1..(f - 1) : line[j] = Space
     /\ \/ g = f + 1 /\ line[f] \in {"+", "*"}
        \/ g = f + 1 /\ line[f] = "-" /\ (g <= Len(line) => line[g] # "-")
        \/ g = f + 2 /\ line[f] = "-" /\ line[f + 1] = "-"}

\* Where columns begin, and comments: those of the columns in front of the
\* first comment are kept.  The column from i on.
Starts(line) ==
  {i \in 1..Len(line) : line[i] # Space /\ (i = 1 \/ line[i - 1] = Space \/ i \in Glued(line))}
Comments(line) == {i \in 1..Len(line) : line[i] = "#" /\ (i = 1 \/ line[i - 1] = Space)}
Kept(line) == {i \in Starts(line) : \A c \in Comments(line) : i < c}
Column(line, i) ==
  SubSeq(line, i, CHOOSE j \in i..Len(line) :
                    /\ \A k \in i..j : line[k] # Space /\ (k > i => k \notin Glued(line))
                    /\ j < Len(line) => line[j + 1] = Space \/ j + 1 \in Glued(line))

\* The columns are those of the line, in order.
Divides(columns, line) ==
  \E p \in [1..Len(columns) -> Kept(line)] :
    /\ \A m \in 1..Len(columns) : \A n \in 1..(m - 1) : p[n] < p[m]
    /\ \A i \in Kept(line) : \E m \in 1..Len(columns) : p[m] = i
    /\ \A m \in 1..Len(columns) : columns[m] = Column(line, p[m])

\* A "#" directly behind a prefix begins no comment, but is taken for one.
GluedComment(line) == \E g \in Glued(line) : g <= Len(line) /\ line[g] = "#"

(***************************************************************************)
(* The columns are what url-filter.example says: separated by spaces, a    *)
(* prefix is one of its own (the longest there is, glued to what follows   *)
(* or not), and "comments are '#' (after a whitespace) until the end of    *)
(* the line".  Lines with a "#" glued to a prefix are left out: the code   *)
(* takes it for a comment (sanitize-settings.cpp:299), against that text.  *)
(***************************************************************************)
SplitsAsDocumented ==
  \A n \in 1..Len(lines) : GluedComment(lines[n]) \/ Divides(SplitLine(lines[n]), lines[n])

-----------------------------------------------------------------------------
\* What a line gives: the words behind a prefix; a rule.
WordsOf(line, prefix) ==
  IF SplitLine(line) # <<>> /\ SplitLine(line)[1] = prefix THEN Tail(SplitLine(line)) ELSE <<>>
RuleOf(line) ==
  IF SplitLine(line) # <<>> /\ SplitLine(line)[1] \notin {Plus, Minus, MinusMinus, Star}
  THEN <<SplitLine(line)>> ELSE <<>>

\* What the lines of a text give, in order, and those of several files.
Words(text, prefix) == FlattenSeq([n \in 1..Len(text) |-> WordsOf(text[n], prefix)])
RulesIn(text) == FlattenSeq([n \in 1..Len(text) |-> RuleOf(text[n])])
AllWords(fs, prefix) == FlattenSeq([n \in 1..Len(fs) |-> Words(fs[n].text, prefix)])
AllRules(fs) == FlattenSeq([n \in 1..Len(fs) |-> RulesIn(fs[n].text)])

\* The alternatives in the patterns for the two lists of a text.
WhiteOf(text) == {Url(<<>>)} \cup Urls(Words(text, Star))
BlackOf(text) ==
  {Url(<<>>)} \cup Urls(Words(text, Minus)) \cup {Domain(s) : s \in Range(Words(text, MinusMinus))}

\* The object has a pattern, of these alternatives.
Has(h, alternatives) == m_re[h] # Null /\ regex[m_re[h]] = alternatives

(***************************************************************************)
(* A program that goes to work has the filter its files describe: the      *)
(* rules and the "+" urls of all of them, in order, and the lists of the   *)
(* last one (an empty url is on each).  None works with half of a filter,  *)
(* and no pattern takes the place of one that is in use.                   *)
(***************************************************************************)
FilterMeansFiles ==
  pc = "options" /\ files # <<>> =>
    LET last == files[Len(files)].text
    IN /\ added = AllWords(files, Plus)
       /\ rules = AllRules(files)
       /\ \A n \in 1..Len(rules) : Has(Slot(n), {Url(rules[n][1])})
       /\ \A n \in 1..Len(Meta) : m_re[Meta[n]] # Null
       /\ Has(Whitelist, WhiteOf(last)) /\ Has(Blacklist, BlackOf(last))

(***************************************************************************)
(* What main does depends on which flags are given, not on their order: -s *)
(* overrules all, -i the rest, and without any flag it prints the info.    *)
(***************************************************************************)
ModeFromFlags ==
  status \in {"sanitize", "info", "hash", "urls"} =>
    status = IF "s" \in flags THEN "sanitize"
             ELSE IF "i" \in flags \/ flags \cap {"h", "u"} = {} THEN "info"
             ELSE IF "h" \in flags THEN "hash" ELSE "urls"
=============================================================================
