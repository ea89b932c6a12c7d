# A formal model of wikipedia-cli

`wiki` is a command line program in Go that reads Wikipedia: pages, links and
search over the HTTP APIs, whole wikis over the published dumps. Two things are
hard to test in it. At its edges goroutines read one dump in parallel, requests
share one rate limit, downloads are cut and continued, runs share files, and a
graph walk must neither repeat nor lose a node. Inside, parsers of wikitext,
TeX and SQL must keep their place through constructs that nest, cross or do not
close. This directory models both in TLA+, checks them with TLC on small
instances and proves most safety properties of the first kind for every instance
with TLAPS.

Paths below are relative to the repository; `PROJECT.json` maps each definition
to the lines it models and lists the hazards each property is for.

## The system

| Component | State it keeps | Operations | Talks to |
|---|---|---|---|
| Multistream page reader (`wiki/dump/multistream.go`) | channels, results in flight, the open dump | `ReadPages`, `readIndex`, `StreamsOf`, `ReadStream` | `dump pages`, `dump grep`, `export` |
| Dump downloads (`wiki/dump.go`, `cli/dumptables.go`, `cli/dump.go`, `cli/export.go`) | a partial file on disk | `DownloadFile`, `fetchTable`, `VerifySha1` | HTTP client (`Open`) |
| Resumable stream (`wiki/dump.go:395`) | offset, open body, tries | `Read`, `Close` | HTTP client (`Open`), `StreamPages`, `dump load` |
| HTTP client (`wiki/client.go`) | the next time slot under a mutex | `do`, `throttle`, `GetBytes`, `GetJSON`, `Open` | every network operation |
| Response cache (`wiki/cache.go`) | one file per URL | `Get`, `Put`, `Clear` | `GetJSON`, other processes on the directory |
| Graph walker (`wiki/discover.go`) | queue, visited set | `Walk`, `hydrate`, `neighbors` | API reads, the command's output |
| Table store (`wiki/dump/store/store.go`) | SQLite tables, indexes, `_load` | `Open`, `Load` | SQL and page readers |
| Dump listing (`wiki/dump.go:34`) | the dates still to try | `DumpList`, `DumpTableFiles`, `pickDumpFile`, `pickPagesArticles` | HTTP client, downloads |
| SQL reader (`wiki/dump/sql.go`) | a place in the file, the row being read | `NewSQLReader`, `Next` | a file or a stream, `dump load`, `dump sql` |
| Sequential reader and its commands (`wiki/dump.go:273`, `cli/dump.go`, `cli/export.go`) | a place in the dump, what was written | `StreamPages`, `dump pages`, `dump grep`, `dump export` | streams, decompressor, output |
| Parsoid client (`wiki/parsoid/parsoid.go`) | its own time slot under a mutex | `Fetch`, `FetchParse` | a second host |
| Assessments (`wiki/assess.go`) | the keys of a continuation | `projectPages` | HTTP client |
| Wikitext parser (`wiki/parse`) | memo tables of one parse | `Parse`, `ParseInline` | pages |
| Wikitext to text (`wiki/wikitext.go`) | none between calls | `WikitextToMarkdown`, `WikitextToText` | pages, export |
| texvc (`wiki/texvc`) | the open groups of one conversion | `FromMathTemplate`, `ExpandMacros`, `Check` | math of pages |
| API reads, Wikidata, search | none | one request each | HTTP client |
| Shell, output, progress (`cli/`, `cmd/`) | a terminal line | flags, formats, exit code | everything |

Where the behaviour is hard, and what makes each part correct:

* **Page reader.** A feeder, `workers` goroutines and the caller exchange one
  channel per stream. Correct is: `fn` sees exactly the wanted pages in dump
  order, the first error stops it, memory is bounded, nothing is left running,
  and it returns. The order comes from the channel of channels alone, and a stop
  must not strand a worker on a send.
* **Downloads.** The file on disk may be anything: a part, another file of the
  same name, too long. A run may be killed at any write. Correct is: what is
  reported verified is the published file, a good start is never spoiled, and
  `dump tables` repairs every file.
* **Stream.** A drop may come with bytes; the count of tries must reset on
  progress. Correct is: exactly the bytes, and the end only at the end.
* **Client.** Slots, backoff, `Retry-After` and contexts of several callers
  interleave around one variable.
* **Cache.** Several processes use one temporary name for one URL.
* **Walker.** Redirects give one page two names; budget, fan-out and failed
  lists cut the walk in three places.
* **Store.** Rows go in by batches, so a failing load leaves part of a table;
  names meet SQLite's case rule and a shared name space of tables and indexes.
* **SQL reader.** One character decides whether a text, a field, a row or a
  statement ends; the same end of the bytes is clean between two lines and an error
  inside a statement. Correct is: the rows are a prefix of the table, and `io.EOF`
  means that nothing was lost.
* **Readers with limits.** A limit stops a reader by an error of its own; a page
  that does not decode must cost no other page; a defect in a stream nobody wants
  must cost nothing.
* **Listing.** The newest dump still runs. Correct is: tables of one date, the
  newest that has them all.
* **Parsoid client.** A second rate limit, whose retries take slots too.
* **Parsers.** The parser tries a construct, takes it back when it does not close, and
  remembers by place alone that it has tried. Correct is: a construct that is
  closed is a node, one that is not is text, spans nest and nothing is lost.
* **Converters.** What is dropped is the construct and not the text after it; the
  TeX made from any wikitext has groups that pair up.

## Modules

`MC*.tla` modules only give constants their values. In every module a section
"Mutated forms" holds variants of the definitions above or below it with a
plausible bug, against which each checked property was tried: it fails on its
variant. No specification uses them.

### ReadPages, OrderedRead, DumpOrder

`ReadPages.tla` has one process per goroutine of `dump.ReadPages`. The caller's
`caller` is its place in the function: `TakeOut` receives from the queue of
channels, `Receive` from that channel, `CallFn` calls `fn`, and `Stop`, `Drain`,
`Wait`, `Close` are the deferred shutdown. The feeder (`Enqueue`, `HandOff`,
`LeaveLoop`, `CloseQueue`, `CloseJobs`) puts the output channel of each stream in
`queue` and hands the stream to a worker; a select with `done` is a choice. A worker
(`ReadStream`, `SendResult`, `WorkerExits`) reads a stream, which may fail. An
unbuffered send is a joint step of the two sides. A stream is its list of pages;
which pages are wanted is a set.

`OrderedRead.tla` is the promise: open the dump, call `fn` with the wanted pages one by
one in order, stop at the first failure, return. `ReadPages` implements it with
`returned <- caller = "returned"` and the other variables under their own names
(`Refines`, with the fairness; `ImplementsSequentialRead`, the safety part).
`DumpOrder.tla` holds what the two share: positions and their order.

### Download

One file on disk and the three commands that fetch it. `CheckFile` is `fetchTable`
up to its loop, `OpenPartial`, `OpenWhole` and `OpenPastEnd` are the three answers
to the ranged request (206, 200, 416), `CopyBlock` one read and write, `CopyEnds`
what each caller does after it. `Crash` kills the process. A block is the number of
the published block it equals, or 0: `Init` lets the file be any sequence up to one
block too long. `clean` and `began` are history.

### HTTPClient

`HTTPClient.do` of several goroutines. Time is relative: a timer is the ticks it
has left and `next` the ticks to `h.next`, so the clock needs no bound.
`Throttle` is the section under the mutex; `Wake`, `CtxDone` end a wait;
`SendFails`, `SendRefused`, `SendAnswered` are the outcomes of a request, and
`BadRequest` a URL of which none can be made, which is not tried again.
`free`, `held` and `sends` are history.

### Cache

`GetJSON` and the file calls of `Get` and `Put`, one step each, for one URL and
several processes. A file is its content; a rename moves the file, so a process that
holds it open goes on writing into the entry. Content is a body, `empty`, or `torn`
(no body of the server). `alone` is history: no two runs were in `Put` at once.

### Walker

One step per turn of the loop of `Walk`: `Skip` (seen), `SeedFails`, `Visit`,
`QueueEmpty`, `SeesCancel`. `Visit` is the whole turn: hydrate, mark both names,
emit, budget, and the neighbours edge by edge with the limit each request is given
(`Limit`, `Answer`). The graph is a constant. The reference for what a walk has to find
is `Within(d)`, the ends of the paths of `d` hops or fewer from a seed.

### ResumeReader

`resumeReader.Read` call by call and connection by connection: `OpenFirst`,
`OpenRest`, `NotContinued`, `PastEnd`, then `SomeRead`, `BodyEnds` or `Drop`, which
may give blocks with the error. `barren` counts drops since the last block.

### Store

`Load` statement by statement: `Drop`, `Create`, `KeepRow` with its batches,
`RowsEnd`, `CreateIndex`, `Record`; `Fails` is an error, a broken dump or a kill in
any of them and rolls the open transaction back in full or in part, because the
store opens SQLite with the journal off. `Obj` and `IndexObj` are
SQLite's view of the names.

### SQLReader

A file is a sequence of tokens: one per character the reader tells apart, one per
word of which only the whole matters. The constant `SQLFiles` holds the dumps: rows,
their text, and the place in it of each row, field and character. `IsSQLFile` (`SQLDump`) says what
mysqldump puts at each place (both ways of escaping a quote, any division of the rows
into statements, rows on one line or each on its own), so that the reference for the
reader needs no recursion; the instance builds such dumps and TLC checks that they are
some. `Init` cuts the text at any token and ends it cleanly or with an error of the
stream. `mode` is the place in the
code (`readHead`, `readColumns`, `findInsert`, `readWord`, the list of tuples,
`readTuple`, `readQuoted`); each action reads one token, word or line.

### DumpPages, PagesByID, ProjectPages, DumpFiles

Loops over data from outside, one action per element. `DumpPages` is
`streamPagesReader` with the function of `dump pages`, `dump grep` or `dump export`;
a page has the fields that the filters look at, and the file that `shardPath` gives
it, which several titles may share. A dump ends whole, cut, or damaged. Data that does
not decompress is seen only when no process of its own decompresses; data that
decompresses to something else than XML always is. What `fn` counts are places in the
dump, so that "in order, none passed over, none twice" is said of places. `shown` is
what has reached the output: some formats keep the pages until `Flush`, which comes after
the stream and not at all when that ends with an error.
`PagesByID` is
`dump pages --index`: `Entry` and `LastStream` are `StreamsOf`; `Open` is `ReadStream`,
which decodes between two offsets and stops at a syntax error between two pages;
`Write` is the function given to `ReadPages`, whose parallel
reading is replaced by its promise, `OrderedRead`. `ReadsTheWanted` compares what is
written with the wanted pages of the whole dump: all are written but those behind a
syntax error of their own stream, which `ReadStream` takes for its edge. `ProjectPages` asks the API part by
part (`Ask`, `Follow`) and goes through an answer page by page (`Skip`, `Take`,
`FnFails`); the API is external. `DumpFiles` is the choice of a date and of the files, and the
requests for them, of which each may fail;
`First` is the loop that breaks at the first file that fits.

### Fetcher

`parsoid.Fetcher`, built as `HTTPClient` is: relative time, `Wait` is the section
under the mutex, `Wake` and `CtxDone` end a sleep, `SendBusy` is a 429 or 503 that
is tried again. Unlike the client, a retry takes a new slot after its backoff.

### Inline, Blocks, Wikitext, Texvc

Pure algorithms as operators. A text is a sequence of tokens: the characters the code
tells apart, and whole tags, words and control words; a position in the code is a
position in the sequence. The operators have the names of the functions.
`Inline` gives the memo tables in and out of every operator that parses, because
what they hold changes later results. `resolveQuotes` and `sections` keep
their open nodes as frames on a stack. `Blocks` extends `Inline`. `Wikitext` is the
two scans; `finishMarkdown` and `finishText`, two copies in the code, are one
operator with a flag. `Texvc` has one template of each kind and a few
symbols; the tables they stand in are data.

`Readers` puts the loops over data and the fetcher side by side, for TLC and for the
proofs: a variable `unit` says which one a behaviour is about, and the variables of
the others stand still. `MCReaders` is its instance. `MCText` checks the text modules in
the same way; it builds the
texts step by step together with what is to come out (spans, headings, texts),
so the reference definition of each property is the way the text was made, or a
definition that does not follow the code (`PairsUp`, the parity of runs).

## What the runs check

Each run takes under three minutes on two workers. "Bounds" are the constants of the
configuration or of the MC module.

| Run | Bounds | Shows |
|---|---|---|
| `readpages` | 6 streams, 2 workers, empty and unwanted streams | no page skipped, memory bounded by the queue, nothing left running, nil means all, it returns, it is a sequential read |
| `download` | 3 blocks, 2 failures, 3 commands | verified results, prefixes stay, clean runs succeed, `dump tables` converges |
| `client` | 2 callers, 2 attempts, delay 2, Retry-After 5 | slots stay apart, waits are honoured, all attempts are used, calls return |
| `cache` | 2 processes, bodies of 2 lengths, 2 bad answers, 1 kill | entries are whole unless two runs overlap; errors are not served for ever |
| `walker` | 4 pages, 2 categories, 6 seed lists, 108 options | once, nearest first, complete, ends |
| `stream` | 8 blocks, 5 retries (the source's value) | exact bytes, EOF only at the end, gives up late, ends |
| `store` | 5 loads, 3 names, batches of 2, 2 failures | a good load is exact until its next load; batches in order |
| `readers` | 2 rows of 2 columns cut at each token; dumps of 3 pages of 8 sorts, 10 command lines; 3 streams of 6 sorts, 6 sets of ids; 3 parts of 2 projects; 4 dates of 6 listings; 2 fetchers, 2 tries | rows are a prefix and EOF is the end; commands count what was asked and show it at a good end; reading by index loses only what is behind a syntax error of its own stream; each page once; the newest complete date; requests stay apart |
| `text` | sources of 12 tokens, conversions of 17, lines of 3 runs, pages of 4 lines, math of 4 parts, TeX of 4 marks | closed constructs are nodes; formats toggle; sections end where they should; what is dropped and kept, with templates and tables that do not close; TeX groups pair up; the checker finds a problem just when they do not |

Why the bounds are enough: six streams with two workers fill the queue (capacity
four) with one stream delivered and one more to come, the least at which the bound on
the read-ahead can break. Three blocks are a start, a middle and an end; two failures
let a repair itself fail. Two callers and two processes give every pairwise race;
all shared state of client and cache is one variable or two files. The graph
has paths of two lengths, a self link, two cycles and a redirect. Eight blocks
hold more drops than the five retries, so only the reset of the count lets a long
stream end well. Batches of two over five rows end on a full and on a part batch.
Two rows, in one statement or two, put every escape and separator next to every kind of
field end; the cut runs over all places. Three pages hold a match, a page that is
passed over and the page at a limit of two. Three streams are one before, in and after
the wanted one. Four dates are one more than `dump tables` tries. The texts are
long enough for a construct in a construct next to one that is not closed,
for three apostrophe runs that cross, and for headings that skip a level and return.

Three runs state what a document or comment says and the code does not do:

* `download_rerun`: the troubleshooting guide says a download can be re-run and
  then verifies; re-running `dump download` on a finished file asks for a range past the
  end and ends with HTTP 416. `dump tables` checks the size first and has no such case.
* `walker_redirect`: a redirect that is itself a seed emits its target a second
  time: `Walk` marks the resolved name but does not look whether it was seen.
* `parse_unclosed`: `cannotClose` should report a construct that found no close token.
  The table it reads also has templates that failed for their name, so in
  `{{a|{{}}}}` the outer template, which is closed, is text.

### Seen while modelling

The models show these too. They are within what each property claims, or outside
it, and no run is about them:

* Two runs that put one URL at once can leave an entry that is a mixture of two bodies
  (the temporary name of `cache.go:58` depends on the URL alone), until its ttl ends.
* `--fanout 0`, documented as unlimited, is what one answer of the API gives.
* Loads named `page` and `Page` share one SQLite table and leave two rows in `_load`.
* `dump export --out-dir` promises one file per article (`export.go:30`,
  `docs/content/guides/dumps.md:96`). Two titles of one shard that differ only in the
  characters `safeFilename` replaces, or after 200 bytes, have one file: the second
  article overwrites the first, and both are counted as exported (`export.go:88`).
  `WritesTheAsked` asks a file only of an article that shares its path with no other.
* `dump pages` and `dump grep` return before `Flush` when the stream fails
  (`cli/dump.go:185`), so in a format that keeps its rows a damaged dump shows none of
  the pages before the damage. `dump export` to the standard output drops the error of
  a write (`export.go:82`): it ends well on a full disk.
* A page is skipped when its fields do not decode (`dump.go:373`, "skip a malformed page
  rather than killing the stream"), but a syntax error in a page stays in the decoder and
  ends the stream with an error.
* With `--index`, a syntax error between two pages of a stream ends it like its edge
  (`multistream.go:163`): wanted pages behind it are lost, and the command ends well or
  finds "no pages matched".
* `findClose` counts `<ref />`, with a space before its slash, as an open tag
  (`tag.go:131`), so it takes the close tag of the reference around it.
* A dump that is truncated (by intent, `dump.go:343`), a decompressor that fails, and a
  SQL file cut between two lines end like whole ones (`dump.go:352`, `sql.go:239`).
* Text after `|-` and before the first cell of a row goes to the last cell of the row
  before (`table.go:44`).
* The comment of the memo tables (`inline.go:42`) says that a context never changes the
  result; in `== {{a|<b>x}} == <!-- </b> -->` it does.
* `findClose` counts tags in comments; `scanBalanced` counts braces in comments and
  references; both can reach over the text after a construct.
* `isStripLinkPrefix` drops a link with any prefix of two to ten letters it takes for a
  language; code blocks lose `{{...}}` before the second scan keeps them.
* Nested superscripts through `<i>` give `x^{2}^{3}`, which `script` is there to avoid.
* A line that ends the text without a line break, as `'''''a''`, leaves the outer format
  ending before its child; `QuotesToggle` ends each line.
* `--keep-redirects` keeps a text that starts with #REDIRECT but not a page that the
  dump marks as a redirect (`export.go:66`).

## Fairness

* `ReadPages`: weak fairness of the caller, the feeder and each worker: the Go
  scheduler runs every goroutine that can go on, and reads and `fn` end. No fairness
  between the two branches of a select.
* `HTTPClient`: weak fairness of each caller and of time. Requests end because the
  client has a timeout, or by the network.
* `Download`, `Cache`: a running command goes on, and the user runs it again; for
  the cache also that the ttl passes. Failures, bad answers and kills are bounded,
  which is the assumption under which recovery is claimed; no fairness makes them happen.
* `Walker`, `ResumeReader`: weak fairness of the one process. `Ends` needs no bound
  on drops: the file is finite and `tries` bounds the drops between two blocks.
* `Store` and the modules of `readers` and `text` have no liveness property: each of
  their loops consumes its input.

## What is proved

Each `*_proofs.tla` module proves an inductive invariant once, action by action, and
takes the theorems from it. They hold for every value of the constants. The
assumptions type the constants (`DumpAssumption`, `WorkersAssumption`,
`DownloadAssumption`, `ClientAssumption`, `CacheAssumption`, `StreamAssumption`,
`StoreAssumption`, `GraphAssumption`, `WalkAssumption`, `ReadersAssumption`) and say three
things more: the text of a table dump is what mysqldump writes for its rows; the files
of one job have one status, because `DumpList` copies it from the job; the arguments of `dump download` are told apart from the two other tasks.

| Module | Theorems | For every |
|---|---|---|
| `ReadPages_proofs` | `TypeCorrect`, `CallsAreOrdered`, `NoPageSkipped`, `NilMeansComplete`, `WorkersReadOpenFile`, `ReturnIsClean`, `FirstErrorStops`, `ReadAheadIsBounded`, `ImplementsSequentialRead` | number of streams and workers, contents, wanted pages |
| `Download_proofs` | `TypeCorrect`, `ResultIsVerified`, `FetchRepairs`, `ResumeWorks`, `PrefixIsKept` | size, set of commands, number of failures |
| `ResumeReader_proofs` | `TypeCorrect`, `StreamIsExact`, `EndIsTheEnd`, `GivesUpOnlyLate` | size, number of retries |
| `HTTPClient_proofs` | `TypeCorrect`, `AllAttemptsAreMade`, `RateIsKept`, `RetryAfterIsHonoured` | set of callers, retries, delay, waits |
| `Cache_proofs` | `TypeCorrect`, `EntryIsWhole` | set of runs, bodies, failures |
| `Store_proofs` | `TypeCorrect`, `GoodTablesAreExact`, `BatchesAreInOrder` | set of loads, their rows, names, indexes and hooks, batch size, failures |
| `Walker_proofs` | `TypeCorrect`, `NodesAreEmittedOnce`, `NearestComesFirst`, `WalkIsComplete` | graph, redirects, lists, seeds, options |
| `Readers_proofs` | `FetchesKeepApart`, `CommandsWriteTheAsked`, `TheRightIsTaken`, `EachPageIsSeenOnce`, `TheWantedAreRead`, `TheRowsAreRight`, `TheEndIsWhole` | goroutines and waits; dump and flags; listings and tables; parts of the API's list; streams, ids and limit; table, columns, quotes, cut and damage |

* `ReadPages`: none of the properties is inductive by itself. `IndInv` adds `Lifecycle`
  (which goroutines live and which channels are closed where the caller is),
  `FedInOrder` (the queue holds the streams after `cur` one by one: the reason for
  the order), `OwnChannel` (a result stands in its own stream's channel: the reason
  why workers may finish in any order), `CallsExact` (what was called is what the
  caller has passed) and `InFlight` (each stream in memory lies between the one the
  caller is at and the last in the queue, the reason for the bound on memory). The step simulation behind `ImplementsSequentialRead`
  uses it. `CallsAreOrdered`, `WorkersReadOpenFile` and `FirstErrorStops` are not
  repeated in a run: the first and last follow from `Refines`.
* `Download`: `DownloadInv` says what a run knows of the file at each place: a copy
  appends the block after the last on disk (`Running`), `fetchTable` opens only a file
  shorter than the published one, empty unless it resumes (`Fetching`), and a run that
  began with a start of the file has one (`Resuming`). A whole start of the
  file is the file (`WholePrefix`), so its sha1 is right.
* `ResumeReader`: `StreamInv` says that an open body stands at `off` and that `tries`
  never exceeds the drops in a row. `ReadMoves` is the fact about sequences behind it.
* `HTTPClient`: `h.next` stands for the slot after the last one granted
  (`NextIsFree`); a call has sent one request per attempt (`Attempts`); its timer
  covers the wait it was asked for (`Held`). Time being relative, each is kept by `Tick`.
* `Cache`: with one run in `Put` at a time, the temporary file is that run's own and
  nobody holds the entry open (`OwnTmp`); only then a rename gives a whole entry.
* `Store`: while a load runs, its table is that of no load that counts as good: it was
  dropped, and `good` gets the load with its last step (`RunsInv`). The committed and
  the open rows together are what the filter keeps of the rows read so far
  (`KeptUpTo`), and the committed ones end at a multiple of the batch.
* `Walker`: every node emitted is marked (`Marked`), which gives `EmittedOnce`. For
  the walks that have to find everything, `InLayers` says that the queue holds at most
  two depths, in order, after the depths emitted; `Near`, that a node is within the
  hops of its depth; `Kept`, that the seeds and all that the lists of an emitted node
  name are emitted or queued. A list that was cut at the budget costs no node: behind
  it, as many different nodes are emitted as the budget (`Pigeonhole`, `Covered`). The theorems
  are about walks without fanout, failed list or redirect among the seeds
  and about lists that come in one answer (`Exhaustive`): the others may
  leave nodes out by design.
* `Readers`: the invariants of its units are apart. `FetchWaits`: a free slot is not
  before `f.next`, and what is left of a `Retry-After` never exceeds the timer.
  `PagesWritten`: what is counted is what was asked for before the place reached, which
  makes order, no gap and no repetition one statement; `PagesEnd` carries the limit, and
  `PagesShown` what has reached the output and the files.
  `ListRunning`: every date newer than those still to try was listed and lacks a table
  that is done (`TablesPicked`). `ApiRead` is `PagesWritten` over the places of several
  parts, and `ApiKeys` says that the keys set name the part after the one read.
  For the index, `IDsWalk` says that each stream with a wanted page before `cur` is picked
  and ends where the next page of another stream is (`RightStream`); so a picked
  section gives the wanted pages of its own stream and fails just when that stream
  fails (`StreamGives`), and `IDsRead` that what is written ends at the stream and page
  reached. `LostPages` tells what is left out: only pages behind a syntax error of their
  own stream.
* `SQLReader`: `SQLInv` gives each `mode` the one place in the text that what has been
  read so far allows: in a field without quotes as many tokens after its start as
  `buf` holds (`TextIsRead`), in quotes the place of the next character of the field,
  between two rows or statements the place of the next row. The next token is then known,
  so that a quote, a comma or a parenthesis inside a text is never taken for the one that
  ends it, and the other way round. `SQLInside` carries the statement: it is
  begun, those before it are closed, and the reader has not passed the end of its row.
  Where the bytes end there, the statement has not its semicolon (`SQLNotClosed`), and
  where they end in `findInsert`, every statement begun is closed: that is `EofIsWhole`.
  TLC checked `SQLInv` on the instance of `readers` before the proof.

Inductions over numbers (paths, folds over edges, depths) are made by the least
counterexample (`SetInduction`, `LeastPlace`), because the library's induction theorems
take operators that the provers cannot instantiate.

`TypeOK` of each of these modules is proved (`TypeCorrect`); no run spends itself on it.

Only model-checked: `Returns`, `CallReturns`, `Recovers`, `FetchConverges`, `Ends`,
`Terminates` and the fairness part of `Refines` (liveness under fairness is outside
what the prover does), and the properties of `text`, whose recursive operators are
outside it too. Every safety and action property of the other runs is a theorem.

## What is not modelled

* SQLite's file after a kill with the journal off: the model leaves part of the
  rows, the real file may be unreadable.
* The file on the server changing between two connections of one stream; a published
  dump file does not change.
* Two processes downloading to one path at once.
* The clock's jumps, and the float and date forms of `Retry-After`: its value is a set of ticks.
* A drop after the last byte of a stream leads to a range past the end and a 416
  for the caller; `GivesUpLate` allows exactly this case. It needs an answer whose
  length the client did not know.
* XML and bzip2: a page decodes or not, a stream ends, is cut, or is damaged.
* Whether a body that ends without an error is whole: the server is assumed not to end
  one early, so `EofMeansAll` is about drops that give an error.
* The text parts that are known to go wrong (the list above) in the sources that `text`
  builds: comments and references inside what is dropped, links without an end, tags in
  comments. `ChecksBalance` is about some problem or none, not about how many.
* Attributes of tags, entities, URLs, the templates of `render.go`, the symbol tables
  of texvc, `<math>` tags and `Detect`: tables and local rewriting.
* The time and size limits of the parser; they end a parse with an error.
* The HTML reader of Parsoid, Wikidata and the API reads: a mapping of one answer.
* Output formats, flags, the progress spinner: layout, or a terminal line.

## Plan

Written, in this order: the page reader with its promise (the most concurrent
part), downloads, client, cache, walker, stream, store; then the sequential readers, the
listing, the Parsoid client, and the text algorithms. Proofs followed in the same order,
the reader of SQL dumps last. What is left unproved is liveness and the text algorithms.

To model, if a reason comes up: `GetJSON` as a composition of `HTTPClient` and `Cache`
with a cached fetch as its promise, and a load as one atomic replacement of a table.
