# A specification of torrent-sanitize

TLA+ modules that model the programs of this repository (`torrent-sanitize`,
`torrent-merge`, and the library below them), the TLC configurations that check
them on small instances, and theorems checked by TLAPS for all instances.
File names without a directory are those of `src/src/`.

Run everything from this directory:

    tlc -workers 2 -config UpdateLocked.cfg MCTorrentUpdate
    tlapm TorrentUpdateProofs.tla

`PROJECT.json` lists the runs, the theorems, the lines each definition stands
for, the hazards, the findings, and for every property a mutant of the model
that the property catches.

## The system

The programs are used by a torrent hosting site (`README.md` of the
repository): `torrent-sanitize -h` extracts the info hash of an upload,
`torrent-sanitize -s` cleans an upload (announce urls, meta entries), and
`torrent-merge` merges the announce urls of an upload into the torrent already
hosted. Each program is sequential; several of them run at the same time on the
same files, and the file system is all they share.

| component | state | operations | interacts with |
|---|---|---|---|
| `Buffer`, `BufferString` (buffer) | the mapped file and a position; slices of it | load, tryNext, next; comparison, sha1 | maps files other processes replace |
| atomic update `writeAtomicFile` (utils) | temporary file, descriptor, stream | mkstemp, open, write, fchmod, rename | the destination of other runs |
| parser `TorrentBase` (torrentbase) | position, error text | skip_value, read_*, try_next_dict_entry, goto_dict_end, parse_announce_list | Buffer |
| `Torrent`, `TorrentAnnounceInfo`, `TorrentAnnounce` (torrent) | announce urls, info slice, kept entries or slices of the rest | load, write | parser, meta filter, `TorrentOStream` |
| `AnnounceList` (torrentbase.h) | list of groups, index by domain | add, merge, force_merge | filterUrl; fed by the drivers |
| url filter `filterUrl` (sanitize-settings) | queue, set of results | rewrite, whitelist, blacklist | cleaner, PCRE |
| url cleaner `basicUrlCleaner`, `splitUrl`, `validDomain` | none | one function | |
| filter configuration `loadUrlConfig` | patterns, rules, "+" urls | load a file, line by line | PCRE |
| meta filter | three patterns, new entries | validMetaKey, valid*Key, add_new_* | Torrent::load |
| `PCRE`, `PCRE_Replace` (torrent-pcre) | a reference-counted pattern | construction, copy, assignment, load, clear; matches, replaceFull | libpcre |
| UTF-8 validators (utils) | none | validUTF8, validUTF8Text | parser |
| programs | options | main of the three programs | all of the above |
| debug output | a flag | | |

What is hard here:

- several runs on one destination: reads through a mapping that lives as long as
  the run, a temporary file, a rename; failures and kills between any two calls;
- the url filter rewrites a queue in place while looping over it;
- the announce list keeps two structures in step over many calls;
- three loaders read the same format in three ways, skip forwards and backwards in
  sorted dictionaries, and later splice new urls into slices of the old file;
- boundaries: lengths and numbers at the width of an integer, UTF-8 at the end of
  a string, empty domains, ports;
- patterns are shared by copies in a vector and counted by hand, and loading a filter
  file can fail between any two of them.

What makes each component correct:

- *update*: readers always find a complete file; a mapped file never changes;
  temporary files are not shared; with the lock, no update is lost;
- *announce list*: the groups partition the urls by domain; nothing is lost or
  invented; the first accepted url is the primary one;
- *url filter*: the result is what the rules mean one after the other; nothing loops;
- *url cleaner*: a url is taken apart at the right places, and what comes out is
  left alone by the next program that cleans it;
- *filter configuration*: a program works with the filter its files describe or
  not at all; a pattern is freed with its last holder, not before and not never;
- *parser and loaders*: exactly the valid files are accepted, no byte outside the
  buffer is read, no number overflows, the loaders agree,
  what is written can be loaded again and keeps the info hash and the other entries.

## Modules

| module | models | code |
|---|---|---|
| `MergeResult` | what a merge makes of sets of urls | torrentbase.h, torrent-merge.cpp |
| `SharedTorrent` | abstract: a run merges in one step or not at all | what `README.md:12-16` promises |
| `TorrentUpdate` | the calls of concurrent runs of torrent-merge on files | torrent-merge.cpp, buffer.cpp, utils.cpp |
| `AnnounceList` | the class AnnounceList and its drivers | torrentbase.h, torrentbase.cpp |
| `FilterUrl` | filterUrl, loop by loop | sanitize-settings.cpp |
| `UrlCleaner` | basicUrlCleaner, splitUrl, validDomain | sanitize-settings.cpp |
| `PcreReplace` | the rewrites of a rule: groups, errors of pcre_exec | torrent-pcre.cpp |
| `PcreHandle` | the objects of class PCRE and the counts of their patterns | torrent-pcre.cpp |
| `UrlConfig` (extends `PcreHandle`) | the options of torrent-sanitize, splitLine, loadUrlConfig | torrent-sanitize.cpp, sanitize-settings.cpp |
| `Utf8Text` | validUTF8Text, validUTF8 | utils.cpp |
| `Lexer` (extends `Utf8Text`) | read_string, read_utf8, read_number, skip_number, digit by digit; the decimal forms they are compared with | torrentbase.cpp |
| `ByteString` | the comparisons of BufferString | buffer.cpp |
| `Bencode` | the parser over tokens, and the grammar it is compared with | torrentbase.cpp |
| `TorrentInfo` (extends `Bencode`) | parse_info | torrent.cpp |
| `Parser` (extends `TorrentInfo`) | one call of skip_value or parse_info | torrentbase.cpp, torrent.cpp |
| `TorrentFile` (extends `TorrentInfo`) | load and write of the three classes, meta filter | torrent.cpp, sanitize-settings.cpp |
| `TorrentUpdateProofs`, `AnnounceListProofs`, `FilterUrlProofs` (of `UrlCleaner` too), `LexerProofs`, `UrlConfigProofs` (of `PcreHandle` too), `BencodeProofs` (of `Parser` and `ByteString` too), `TorrentFileProofs` | proofs | |
| `Recursion` | induction, and that recursive definitions define something; no code | |
| `MC*` | constants for TLC, and single calls of the pure functions: MCFilterUrl of `UrlCleaner` and `PcreReplace`, MCParser (which extends `Parser` and MCBytes) of `Bencode` and `TorrentInfo`, MCBytes of `Lexer` and `Utf8Text` | |

They fit together through constants: `TorrentUpdate` takes the outcome of a
merge (`Merged`) as a function of sets of urls; `AnnounceList` shows how that set is
collected and takes `FilterUrl` as a function; the module `FilterUrl` shows how that
function is computed, with tables of what the cleaner and the rules return, and the run
filter_url shows that `UrlCleaner` and `PcreReplace` return just that
(`CleanedAsBuilt`, `RewrittenAsWritten`). The rules and lists `FilterUrl` works with
are the ones `UrlConfig` loads. `TorrentFile` takes the outcome of a merge as any list of
groups. `Bencode` has strings and numbers as tokens: `Lexer` is what becomes of one
such token, byte by byte, and the `Rank` by which `Bencode` compares keys stands for
the order of `ByteString`, which is proved to be total.

### TorrentUpdate

State: a directory (name to inode), the contents and mode of inodes, the lock,
and for each run its program counter, the mapped inode, the urls collected, the
next source, the temporary name, the descriptor of mkstemp and the inode of the
stream. A file is its urls, the number of flushes written (`Full` is a
complete one) and whether everybody may read it. Actions follow the calls:
`OpenDest` (open, fstat and mmap; `OpenFails`), `ParseDest` and `ParseFails` (the file
is looked at through the mapping, possibly much later), `MergeSource`,
`SourceFails`, `EndSources`, `Mkstemp`, `MkstempFails`, `OpenStream`,
`OpenStreamFails` (the temporary file stays), `Flush`, `FlushFails` (the code does
not notice), `CloseStream`, `Chmod`, `Rename`, `RenameFails`, `Exit`. `Crash` ends
a run anywhere: it is killed, or it falls into the missing return of the template
`writeAtomicFile` (utils.h:42), which is undefined behaviour. The lock is not in
the code: `README.md:12-13` advises callers to take one, and the constant `Lockers`
says which runs do. A dying holder releases it, as locks on files do.

The urls of the destination are computed from the mapping in one step: the mapped
inode is shown never to change (`MappedStable`), so reading it piece by piece
would give the same.

### AnnounceList, FilterUrl

One action per turn of a loop. `AnnounceList` is fed with the "+" urls and then
with the urls of the torrents, in file order, as both drivers do
(`sanitize_announce_urls` and main of torrent-merge). `FilterUrl` has the indices of
the code (`qit`, `qlen`, `k`), shifted to count from 1. Its property `PromiseKept` compares the urls
accepted so far and those pending with `Outcome`, defined by equations
(`IsOutcome`) after the documentation of the filter file.

### UrlCleaner, PcreReplace

Functions of one url, a sequence of characters. `SplitUrl` cuts it at the first
"://", the first "/" behind and the last ":" before that; `ValidDomain` has the
three kinds of hosts; `PortNumber`, `EnforcedPort` and `EnforcedPath` are the
blocks of basicUrlCleaner, and `Cleaned` puts the url together. One call of the
cleaner (`CallCleaner`) takes a url of any characters (`raw`) and leaves its result
in `annurl`. `PcreReplace` is
given what pcre_exec returns: a number, and texts of groups of which those it has not set
hold what the stack held.

### PcreHandle, UrlConfig

`PcreHandle` has a set of handles (places where an object may live), the pattern of
each, and the 16-bit count libpcre keeps in a pattern, which stops at its ends. Its
actions are the constructors, the assignment, `Load` (the old pattern is released
before), `LoadFails` and `Destroy`. `UrlConfig` is a sequential program on these handles: main
constructs the members of `TorrentSanitize`, loads the three default filters for
meta entries, and reads options. A filter file is read line by line (`ReadLine`
for the four prefixes and blank lines; `ReadRule`, `LoadRule`, `PushRule`, `EndRule` for a rule, with
the local object `rep` and its copy in the vector), then the two lists are
compiled into one pattern each. A failure returns 2 from main, which destroys
the members in the opposite order; `Syntax` leaves through exit(100), which
destroys nothing. `regex` remembers which alternatives a pattern was compiled from.
`SplitLine` is the loop of splitLine word by word: `Word` is what stands before the next
space, `Behind` the line behind it, and `Columns` takes words until one begins with "#".
What it is compared with (`Divides`) goes by positions and not by words: at which of them a column
begins (`Starts`), in front of the first comment (`Kept`; a comment begins with a "#" at the beginning of the line or
behind a space, `Comments`), and where it ends (`Column`). Lines with a "#" glued to a prefix
(`GluedComment`) are left out: the code takes it for a comment, which the documentation does not.

### Lexer, Utf8Text

One call, one action per turn of a loop, with positions, the number so far and the
byte that is looked at. `read_utf8` calls `read_string` and then validUTF8Text
(`CheckText`), and puts the position back if that fails. Utf8Text reads, like the
code, the byte behind a string for a sequence cut off by one byte; in `Lexer` that is the
next byte of the file (`ByteAt`). What they are compared with is made of codes, not of tests on
bytes: `Form` is the encoding of a code in n bytes, and `Made` says that a string is made of
such forms. `Claimed` has the characters the comments of validUTF8Text leave. Two of its tests are
wrong, so `AcceptsText` asks for all of these but the codes one test refuses (`Sure`), and
for no more than these and the codes the two let pass (`Possible`); that those are
not text is what the run utf8_text shows.

### Bencode, TorrentInfo, TorrentFile

A file is a sequence of tokens; a string with its length is one token, and so is
a number. Strings are compared by `Rank`; what matters of them are
predicates: valid UTF-8 (`Utf8`), length a multiple of 20 (`Pieces`), fits an
int64_t (`Int64`), negative. Reading operators map a position to the next one or
to `Error`. Both `Bencode` and `TorrentInfo` are pure functions of the buffer. The
functions of the parser that call each other are one recursive function (`Skip`) whose
argument says which of them is called (`ValueAt`, `ItemsAt`, `EntriesAt`), and every other loop is a recursive
function of the positions it runs over. `Grammar` says what a value is without a word about positions
reached: which `n` tokens from `p` on are a value, items of a list, or entries of a dictionary.
`Parser` has the two calls that are checked by themselves. `TorrentFile` has the actions `Load` (by one of the classes),
`SetAnnounceUrls`, `Write`, and `RunAgain`, in which the written file is taken by
another program. No program writes a `TorrentAnnounce`, but the class can, and is
modelled with the others.

## Runs

| run | checks | bounds |
|---|---|---|
| update_locked | `TypeOK AlwaysComplete TempOwned NoLostUpdate MergesAtomically` | 3 runs (2 that merge, 1 with a broken source), 3 names, 5 inodes, 2 flushes |
| update_mixed | `TempOwned MappedStable EveryRunEnds` | 3 runs (2 that lock, 1 that does not), full disk, 2 names, 4 inodes |
| update_disk_full | finds `AlwaysComplete` violated | 2 runs |
| announce_list | `TypeOK WellGrouped MergedExactly FirstBecomesPrimary` | 2 "+" urls, 3 urls of torrents, 2 domains |
| always_added | finds `AlwaysAdded` violated | as above |
| filter_url | `TypeOK PromiseKept BlacklistHolds FilterReturns` | `MaxRules`: all lists of up to 3 of 5 rules, 16 raw urls |
| | `CleanedAsBuilt CleanedForGood` | urls of 8 protocols, 16 hosts, 8 ports, 6 paths |
| | `RewrittenAsWritten` | `MaxPieces`: all templates of up to 4 of 6 pieces; the 5 rules |
| parser | `SkipsExactlyOneValue InfoIsOneValue AcceptsValidInfo` | `MaxLen`: all buffers of 6 tokens; info dictionaries of 8 keys, one odd value, swaps and doubles |
| | `TypeOK ReadsInside NoOverflow MovesOnSuccess ReadsExactly` | `MaxBytes`: numbers of up to 5 bytes behind the first, strings of up to 5 bytes; numbers of 8 bits (-128 to 127), lengths up to 11 |
| | `AcceptsText AcceptsScalars` | one or two characters of up to 4 of the bytes at the edges of the tests, complete and cut off, with 4 bytes that may follow |
| url_config | `TypeOK Counted FilterMeansFiles ModeFromFlags` | `MaxArgs`: 2 options; all files of up to 2 of 10 lines; `PatternLimit`: 3 patterns to a list; `RefMax`: counts up to 12 |
| | `SplitsAsDocumented` | `MaxLine`: all lines of up to 6 of 6 characters |
| utf8_text | finds `AcceptsOnlyText` violated | one string of two characters that are not text |
| torrent_file | `TypeOK AcceptsExactly LoadersAgree ReloadsSame RestKept` | 6 entries, swaps, doubles, broken ends; 3 kinds of new entries; 2 rewrites |
| encoding_kept, stays_valid | find the property of that name violated (stays_valid: `TorrentStaysValid`) | as torrent_file, 1 rewrite |

Why the bounds are enough. A lost update needs two runs; the third stands for one
that fails while it holds the lock. Each run maps one inode and creates one
more, so five inodes never run out where three runs lock (one and one
for each run are enough, so update_mixed has four). Two flushes
give a file that is neither empty nor complete. Symmetry is used on inodes and
temporary names, which are never told apart by a definition. In the announce list,
a second url in a group, a second group, and a url that comes back are all reached with
three urls, one of which the filter makes two of. Rules that swap two urls would
loop, rules that split urls move the bounds of the queue, and three rules are a
first, a middle and a last one; among the five rules is one that makes each url from
itself, one that removes, and one whose results are accepted, dropped and unset groups at once.
The hosts, ports and paths are at least one for each condition of the cleaner, on either
side of it. With 8-bit integers numbers of four digits already lie on both sides of
both ends, and a length of three digits is more than `LengthMax`; what the reduced width
leaves out is proved (below). Two options are two files, a file and a failure, or any two
flags; with two lines in each file a rule is followed by a rule that does not compile, and
a list has more patterns than fit. Six characters hold two prefixes, spaces between
them, and a comment. Six tokens hold a list or a dictionary within
a dictionary. In a torrent, each kind of value that the code can treat in its
own way occurs for each key; two rewrites cover one class reading what another
has written.

`CHECK_DEADLOCK FALSE` is in the configurations because all these programs end.

Fairness. `TorrentUpdate`: each run is scheduled as long as it can take a step, by
the operating system (`WF_vars(Step(p))`); crashes are not fair. A run takes the
lock once and never again, so a weakly fair lock is enough. `FilterUrl`: sequential
code goes on as long as there is a next step (`MCSpec` of MCFilterUrl).

## What the runs found

- `force_merge` for lists calls `merge` (torrentbase.h:108): a "+" url that the
  filter refuses is not added, against `url-filter.example:11`.
- `writeAtomicFile` does not look at the stream (utils.cpp:131): on a full disk the
  truncated file replaces the destination.
- `Torrent::write` writes the word "encoding" as the encoding (torrent.cpp:84).
- `Torrent::load` accepts a torrent without info and writes it as a file that is no
  bencoding (torrent.cpp:58).
- validUTF8Text tests `(code & 0xFFFE) == 0xFFE` (utils.cpp:88): the noncharacters
  U+FFFE and U+FFFF of each plane pass, and U+0FFE and U+0FFF do not.
- validUTF8Text tests `code < 0x1000` for sequences of four bytes (utils.cpp:79), one 0 too
  few: those that encode U+1000 to U+FFFF pass, although they are overlong. The string of the run
  has one character of each kind.

Seen while modelling and not claimed as findings, as (but where a text is named) no text of the
repository says otherwise or nothing depends on it:

- torrents: `TorrentAnnounceInfo::load` stops at the end of the dictionary
  (torrent.cpp:303), what is behind it is not looked at. `torrent.h:48` says that it "validates the
  bencoding of the complete torrent"; `AcceptsExactly` takes the torrent for the one dictionary the file
  begins with, all of which is checked. A single file may have a negative length while
  the files of a list may not (torrent.cpp:138). `Torrent::write` has no place for some
  new entries (torrent.cpp:72; `Placed` in `TorrentFile` says which it has): keys before
  "announce", "announce" and "info" themselves, and "announce-list" and "encoding" when
  the torrent has its own. add_new_meta_entry keeps the first of two entries with one key.
- text: the byte behind a string is read for a character cut off by one byte (utils.cpp:72). In a
  valid torrent what is behind a string is a digit or a letter and never goes on with a character, so
  that such a string is refused there all the same.
- urls: an IPv6 address without a port is refused, as the last ":" is taken for the one of the
  port (sanitize-settings.cpp:63); "http://[::1]:80/" loses its port and is dropped by
  the next merge. The first character of an IPv6 address is not checked (:102). "DHT://x"
  passes as "dht://x" (:152) and is dropped by the next merge. An empty domain has the byte in front of it
  read (:158). An empty protocol is accepted. `CleanedOnce` in `UrlCleaner` names the urls that
  do not survive a second cleaning.
- filter files: splitLine takes a "#" directly behind a prefix for a comment
  (sanitize-settings.cpp:299), where `url-filter.example:14` asks for a whitespace before it; no run shows this,
  and `SplitsAsDocumented` is about the other lines. One that cannot be opened is an empty filter. A second `--url-filter` replaces
  the lists of the first but adds to its rules and "+" urls.
- rewrites: `\N` with N the number of groups that are set reads one that is not
  (torrent-pcre.cpp:103); the model lets it through like the code, and `RewrittenAsWritten`
  is about the groups beyond it. Errors of pcre_exec count as no match (:116, :176), also for the blacklist.
- programs: a run whose writeAtomicFile fails exits with 0 (torrent-merge.cpp:88). The
  table of long options has no terminating entry (torrent-sanitize.cpp:88-95). The
  descriptor of a mapped file is not closed (buffer.cpp:59). Mapping an empty file
  fails, and the result is compared with 0 (harmless, as the length is 0). torrent-merge
  has `-f` for what torrent-sanitize calls `--url-filter`. globToRegex, validUTF8 and
  `BufferString::validUTF8` are called by no program.

## Proofs

TLAPS checks these for all values of the constants that satisfy the assumptions
in the modules: `MergeAssumption`, `UpdateAssumption`, `ConstantsAssumption` (the
types of the constants, that the filter drops the dht url as
sanitize-settings.cpp:152 does, and that files are not empty); `FilterAssumption` (types, and
that `Outcome` satisfies the equations of the documentation for the lists of rules
considered, with the lists behind them); `LexerAssumption` (ten times the
greatest length and 9 more fit a number, as they do with int32_t and int64_t); `HandleAssumption` (there
are fewer objects than the greatest count); `ConfigAssumption` and `CharAssumption`
(the types of files and lines; the characters the code names are characters); `CleanerAssumption`
(letters are no digits and no punctuation, and tolower makes small letters of capital ones). Two theorems of
`TorrentFileProofs` have `NewMetasFine` as a hypothesis of their own; TLC evaluates it for the
constants of the runs (`NewMetasAssumption` in MCTorrentFile).

- `TorrentUpdateProofs`: `TypeCorrect`, `TempsOwned` and `MappedNeverChanges` hold with and
  without lock and with a full disk. They rest on `FilesInv`: which
  run a temporary name and its inode belong to, that the inodes of the destination,
  of mappings and of temporary files are different where they must be, and what each program counter
  says about the fields of its run. `TypeOK` and `TempOwned` alone are not inductive:
  that mkstemp's inode is not the mapped one is needed for `MappedStable`.
  `CompleteUnlessDiskFull` adds `CompleteInv` (a run past its stream has a
  complete file, and past fchmod a public one) and assumes that no write fails, which the
  run update_disk_full shows to be necessary. `MergesAtomicallyIfLocked` adds
  `LockInv` (a run that has opened the destination holds the lock, and what it has mapped
  is the destination until it renames) and `AnnInv` (what it has collected is what
  the atomic merge gives); `Rename` then maps to `Merge` and every other step
  to a stutter. `NothingEverLost` says that the atomic merge loses nothing;
  `NoUpdateLostIfLocked` follows from the two.
- `AnnounceListProofs`: `TypeCorrect`, `GroupsPartition`, `MergesExactly`,
  `PrimaryIsFirst`, for inputs of any length. The inductive invariant relates
  the index to the list (`IndexInv`: a domain with an index has its group there, and
  every group has its domain indexed), the loop variables to the input
  (`InputInv`) and the first group to the first input that passes (`PrimaryInv`).
  `AnnouncesMerge` closes the gap to `TorrentUpdate`: what is announced at the end is, as a
  set, what `MergeResult` makes of the inputs, so the step the runs take at once
  is what these loops come to.
- `FilterUrlProofs`: `TypeCorrect`, `KeepsPromise`, `ReturnsPromised`, `BlacklistAlwaysHolds`, for
  any rules and urls. The invariant is `TypeOK`, `LoopInv` (where in the queue and in the
  list of rules each program counter is, and that the rules left are a list with an
  outcome) and `PromiseKept` itself: the urls accepted and the outcomes of those
  pending, each from the rule it has still to meet, make up the outcome of the input. The
  lemmas say what a rule makes of an outcome, and that taking a url out of
  the queue and putting others behind it moves them from one side to the other.
  `AlwaysCleanedForGood`: for a url of any characters and any length, what the cleaner returns it
  returns again, with the same domain; `CleanedOnce` names the two kinds of urls for which
  this is not so. The lemma `PartsOf` says what the parts of a url look like once it has been cut (no
  capital letters, no "/" in the domain, a port that begins with ":" and a path that begins with "/"), `SplitJoined`
  that parts which can be told apart (`Apart`) are found again in the url they make, and the lemmas
  between them why the parts that are written can be told apart and change no more: a domain that is valid has a
  ":" only if it ends in "]" (`ValidIs`, from the label around each of its characters), the
  number printed for a port is read back (`PrintedIs`), and the defaults for ports
  (`PortAgain`) and paths (`PathAgain`) apply once.
- `LexerProofs`: `TypeCorrect`, `AlwaysReadsInside`, `NeverOverflows`, `AlwaysMovesOnSuccess`, for
  any buffer and integers of any width. `NoOverflow` is not inductive: for a length one
  needs that it was at most `LengthMax` before the last digit, for a number its sign
  (`NumberInv`), for both that the loop stands on a byte of the buffer (`ReadsInside`);
  `PositionInv` says where the position is in each state. The lemma `OneMoreDigit` has
  the integer division of `Fits`, for either sign.
  `AlwaysReadsExactly`: a call succeeds exactly if a number in its range, or a string, stands at
  the position in decimal form, and it ends behind it with the right value. The
  forms are not taken from the code: `Decimal` makes digits of a number, `Encoded` puts the length
  before a text, and `Ends` is the set of places where such a form ends. Lemmas: the
  digits of the forms are the digit sequences without leading zeros (`FormsAreCanonical`,
  `CanonicalIsForm`) and have the value one reads in them (`ValuesAre`); with each digit the value
  grows at least ten times (`ValueGrows`), so that a number too large stays too large whatever
  follows; where a form stands it ends in one place only (`EndsHere`). The invariant adds to the one
  above that the digits read so far are such a sequence, whose value the code
  has in `num` or as the length (`LengthInv`, `DigitsInv`), and that the text read is the
  one behind the colon (`TextInv`).
  `AlwaysAcceptsText` and `AlwaysAcceptsScalars` say the same of UTF-8, for strings of any bytes and
  any length: read_utf8 succeeds if a string stands at the position that is made of characters of
  text (`Sure`), and only if it is made of what may pass (`Possible`); validUTF8 accepts exactly
  the encodings of Unicode scalar values. Where a string is cut off inside a character, it is accepted only if
  the byte behind it goes on with that character. The four lengths are computed by their bits (`CodeInIs`,
  `CodeOfIs`, `FormOfBits`): bytes are the form of a code exactly if those behind the first
  are continuations and the first is none of a shorter form (`FormIs`); the tests
  on the code, or on the second byte, then leave the codes they should (`TestsLeave`, `ScalarIs`), so that a turn of
  a validator's loop goes over one character (`TextStep`, `ScalarStep`; `TextCharacter`: one that is sure is one
  the tests leave, and one they leave is possible). A whole string is a chain of such
  turns: from each place, by induction from the end, the loop succeeds if the string or the string with
  the byte behind it can be made from there (`ChainsMeet`), whichever way it is divided. A chain of
  fewer characters is one of more (`ChainGrows`), and a string made of whole characters is not
  cut off (`NoneCutOff`). That the
  string read_utf8 looks at is the only one there is follows from `EncodedOnce`: the first
  colon of an encoding is the one behind the length.
- `UrlConfigProofs`: `AlwaysCounted`, from lemmas on how each operation of `PcreHandle` changes the
  set of holders of a pattern, and that the count never stops at its end because there are
  fewer objects than that; `HandlesOK` and `Counted` together are inductive. `UsesHandles`, every step of `UrlConfig` is a step of `PcreHandle` or leaves
  the handles alone; so `ConfigCounted` follows from `AlwaysCounted`. `TypeCorrect`. `FlagsDecide`:
  the mode is the one of the set of flags; the invariant `ModeInv` says what `info` is after any
  sequence of options. `FilterIsWhatFilesSay`: a program in service has the rules, "+" urls
  and patterns its files describe. The invariant `FilterInv` has four parts: which members are
  alive in each state (`StartInv`), that what has been collected is what the lines
  read so far describe, so that the collected and the described rest together make the
  file (`LoadInv`), that each live pattern was compiled from what it should (`PatternInv`), and
  what holds between options (`OptionsInv`). `AlwaysSplitsAsDocumented`: any line without a "#" glued to its
prefix is divided as url-filter.example says. By induction over what is left of the line, the columns from a position on are those
that begin there (`ColumnsFrom`), if the position lies at a space, behind one, or
behind the prefix (`Boundary`): a word found there is the column that begins at its
first character (`NextKept`), and the word behind it is found from such a position again. `GluedIs` has the
cases of the prefix, and `KeptIs` says that then the columns in front of the first comment are
those with no column that begins with "#" up to them.
- `Recursion`: the library states induction for operators; here it is stated for sets
  (`Induction`, `StrongInduction`, `SeqInduction`), which the provers can use. `SolutionExists`
  says that a recursion whose argument gets smaller in a measure defines a function, so that
  recursive functions of the model can be unfolded, and `FlattenAppend` what FlattenSeq of the community
  modules makes of one more list.
- `BencodeProofs`, for buffers of any length and nested to any depth. `EqualIsEquality`, `Irreflexive`, `Transitive`,
  `Total`, `OrEqual`: the order of keys in `ByteString` is a strict total order; totality takes the first place where two
  strings differ, a minimum of a set of natural numbers. `SkipsExactly`: skip_value stops behind
  the one value the grammar has at its position, and fails if there is none. That `Skip` is a function at
  all is the first step: it goes on where its inner call has stopped (`skip[ItemsAt(q)]` with `q` from
  another call), and that this is further on is a fact about the function whose existence is in question. So a
  function is defined first that looks whether it is further on and gives up otherwise
  (`ForwardBody`); it exists by `SolutionExists`, it always stops further on (`ForwardEnds`), so it
  satisfies the equation of `Skip`, too. Then soundness (`SkipSound`, by induction over the
  calls) and completeness (`SkipComplete`, over the spans of the grammar). `InfoStopsExactly`: what
  parse_info accepts is one value, and it stops where skip_value does, from the lemma that after each key looked
  up (`LookUp`), found or not, the rest of the dictionary is skipped to the same place.
  `ParseAnnounceListSkips` says the same of the announce-list. The last part is about locality:
  where a part of a buffer lies within it (`LiesIn`), each function stops at the same
  place in both, moved by the distance, and fails in the part if it would leave it (`Seen`): `SkipSeen` for
  skip_value, then `TrySeen`, `ReadSeen`, `ParseInfoSeen` and `AnnounceListSeen` for the readers.
- `TorrentFileProofs`: `TypeCorrect`, `LoadersAlwaysAgree` and `AcceptsAlwaysExactly`, for files of any length. Torrent::load
  looks at every entry, the other two classes look some of them up. The lemma
  `FindsWhatIsLoaded`, by induction from the end of the file, says that a lookup from a position finds
  the entry that the loop of Torrent::load takes the field from, and that what the loop
  loads from where the lookup stops is all the rest; `LoadsTheRest`, that the fields of
  keys that should have come before are not set by what follows. The invariant (`FileInv`) adds to
  the types that an object just loaded, or refused, is what the file has been loaded as (`IsLoaded`).
  `AcceptsExactly` says of a file as a whole what the loops find out turn by turn, and compares values taken
  out of the file with those read in place; that this is the same is the locality of `BencodeProofs`
  (`ValueRead`). The set of entries from a position on is the entry there and the set from the next
  one on (`OneMoreEntry`), and no later entry has its key, because keys ascend (`KeysAscend`). So
  Torrent::load succeeds exactly if every entry it looks at is fine (`LoadsExactly`, by induction
  from the end), and the class that looks up three keys only if those are there and fine
  (`AnnounceInfoExactly`, where `Begins` says which part of the file has been looked through). For
  the types of what is written, `RawOf` unfolds writerawkeys, a recursion over sets of keys.
  `AlwaysReloadsSame` and `AlwaysRestKept` say what is kept of a file through any sequence of
  loading, merging urls, writing and loading again. The invariant (`WrittenInv`) adds that the
  object is the one loaded but for the urls, and that an output is what a class writes for it
  (`IsWritten`). A dictionary put together of parts has the entries of its parts, moved by
  their distance (`Lies`, `Joined`); so each class's output is a dictionary of which the entries are known
  (`AnnounceWritten`, `AnnounceInfoWritten`, `TorrentRewritten`), and each class that
  loads it reads the same fields again. Both assume `NewMetasFine`: that a value the user gives with `--meta-add-raw` is one value
  of bencoding, and the one its key must have. The code does not check it (torrent-sanitize.cpp:61 leaves it to
  the user); without it a file may be written that cannot be read.

Only model-checked: liveness (`EveryRunEnds`, `FilterReturns`), which is beyond the prover;
what the cleaner makes of each part of a url and a replacement of each template (`CleanedAsBuilt`,
`RewrittenAsWritten`), which are compared with tables and definitions over bounded
inputs; and which info dictionaries are accepted (`AcceptsValidInfo`), where the inputs are put together
so that it is known which of them are valid.

## Not modelled

- Printing, the debug output and torrent-test-filter (which prints what filterUrl
  returns) change no state. The parsing of the arguments of `--meta-add-string` and
  `--meta-add-raw` is left out; the entries they add are those of `TorrentFile`. globToRegex
  is called by no program.
- SHA-1, and what a regular expression matches, are other people's code. In particular the
  patterns of a list are compiled as one expression: that a pattern with unbalanced
  parentheses would change the meaning of its neighbours is not modelled.
- The copies a growing vector makes of its patterns, the sum of the lengths of files
  (it is only printed), and `isspace` and its like for bytes from 0x80 on, which
  depend on the locale.
- A failure of fchmod (utils.cpp:134), whose result the code ignores: the file published would
  be complete and readable by its owner only.
- The byte in front of an empty domain (sanitize-settings.cpp:158), which is taken for no dot.
- Resources: the stack for nested values, descriptors, memory.
- `Buffer::load` without mmap, which config.h does not choose.
- An fsync is not in the code: what survives a crash of the machine, not of a process,
  is not modelled.

## Plan

All components that change state are modelled. Of `TorrentUpdate`, `AnnounceList`, `FilterUrl`, `Lexer`, `PcreHandle`
and `UrlConfig` everything but liveness is proved, of `Parser` everything but
`AcceptsValidInfo`, of `TorrentFile` everything the runs that pass check, of `UrlCleaner` that it
leaves alone what it has made. Left are the replacement of groups, a loop over the pieces of a template, for
which the way is that of `Lexer` and splitLine (a recursive function for the loop, and an
induction from its end), and a description of the urls the cleaner accepts that is not taken from
the code.
