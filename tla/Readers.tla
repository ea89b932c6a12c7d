------------------------------ MODULE Readers ------------------------------
(***************************************************************************)
(* The sequential readers, the choice of dump files and the Parsoid        *)
(* fetcher side by side. A behaviour picks one of them in unit; the        *)
(* variables that it has not are 0, and stay so.                           *)
(***************************************************************************)
EXTENDS Integers, Sequences

CONSTANTS
    Tokens, NumCols, SQLFiles,                                  \* SQLReader
    Pages, MaxPages, Commands,                                  \* DumpPages
    IDs, Edge, Broken, StreamTexts, MaxStreams, IDFiles, Limits,  \* PagesByID
    Projects, Parts, MaxParts, Requests,                        \* ProjectPages
    Tables, TableFile, Listings, NoAnswer, MaxDates, Queries, TablesBack, \* DumpFiles
    Fetchers, Interval, MinInterval, maxTries, Waits, Absent, Second, MaxCalls  \* Fetcher

\* What the proofs need of the data. A limit is a number.
CommandsAssumption == MaxPages \in Nat /\ \A c \in Commands : c.limit \in Int

\* A stream is a sequence of pages and defects.
StreamsAssumption ==
    /\ MaxStreams \in Nat /\ \A n \in Limits : n \in Int
    /\ \A t \in StreamTexts : Len(t) \in Nat /\ DOMAIN t = 1 .. Len(t)
    /\ Edge # Broken /\ {Edge, Broken} \cap IDs = {}

\* The API gives a sequence of pages for each project.
PartsAssumption ==
    /\ MaxParts \in Nat /\ \A r \in Requests : r.limit \in Int
    /\ Len(Projects) \in Nat /\ DOMAIN Projects = 1 .. Len(Projects)
    /\ \A p \in Parts : \A x \in DOMAIN p :
          Len(p[x]) \in Nat /\ DOMAIN p[x] = 1 .. Len(p[x])

\* A listing has one status for all files of a job (DumpList gives each file that of
\* its job); `dump tables` without arguments takes the default tables.
ListingsAssumption ==
    /\ \A fs \in Listings \ {NoAnswer} :
          /\ Len(fs) \in Nat /\ DOMAIN fs = 1 .. Len(fs)
          /\ \A i, k \in DOMAIN fs : fs[i].job = fs[k].job => fs[i].status = fs[k].status
    /\ Len(Tables) \in Nat \ {0} /\ DOMAIN Tables = 1 .. Len(Tables)
    /\ MaxDates \in Nat /\ TablesBack \in Nat \ {0}
    /\ Queries \cap {"tables", "pages"} = {}

\* Retry-After is a number of seconds, or missing.
FetcherAssumption ==
    /\ MinInterval \in Nat /\ Interval \in Int /\ Second \in Nat
    /\ maxTries \in Nat /\ MaxCalls \in Nat
    /\ \A h \in Waits : h \in Nat \/ h = Absent

VARIABLES
    unit,
    tail, dump, out, answer,                         \* of several units
    table, file, pos, mode, cols, buf, row, rows,    \* SQLReader
    cmd, at, shown, files,                           \* DumpPages
    ids, limit, entry, cur, need, seen, streams, stream, page,  \* PagesByID
    req, list, keys, asked, place,                   \* ProjectPages
    task, server, dates, taken,                      \* DumpFiles
    pc, kind, try, timer, over, got, next, requests, sent, calls, free, held  \* Fetcher

sqlVars   == <<table, file, pos, mode, cols, buf, row, rows>>
pagesVars == <<cmd, at, shown, files>>
idsVars   == <<ids, limit, entry, cur, need, seen, streams, stream, page>>
apiVars   == <<req, list, keys, asked, place>>
listVars  == <<task, server, dates, taken>>
fetchVars == <<pc, kind, try, timer, over, got, next, requests, sent, calls, free, held>>

vars == <<unit, tail, dump, out, answer,
          sqlVars, pagesVars, idsVars, apiVars, listVars, fetchVars>>

S == INSTANCE SQLReader
D == INSTANCE DumpPages
I == INSTANCE PagesByID
A == INSTANCE ProjectPages
L == INSTANCE DumpFiles
F == INSTANCE Fetcher

\* The text of a table dump is what mysqldump writes for its rows.
SQLAssumption == /\ NumCols \in Nat \ {0} /\ {"NULL", "'"} \subseteq Tokens
                 /\ \A d \in SQLFiles : S!IsSQLFile(d)

ASSUME ReadersAssumption ==
    /\ SQLAssumption /\ CommandsAssumption /\ StreamsAssumption /\ PartsAssumption
    /\ ListingsAssumption /\ FetcherAssumption

----------------------------------------------------------------------------
NoSQL   == /\ table = 0 /\ file = 0 /\ pos = 0 /\ mode = 0
           /\ cols = 0 /\ buf = 0 /\ row = 0 /\ rows = 0
NoPages == cmd = 0 /\ at = 0 /\ shown = 0 /\ files = 0
NoIDs   == /\ ids = 0 /\ limit = 0 /\ entry = 0 /\ cur = 0 /\ need = 0
           /\ seen = 0 /\ streams = 0 /\ stream = 0 /\ page = 0
NoAPI   == req = 0 /\ list = 0 /\ keys = 0 /\ asked = 0 /\ place = 0
NoList  == task = 0 /\ server = 0 /\ dates = 0 /\ taken = 0

Init ==
    /\ F!Init
    /\ \/ /\ unit = "sql" /\ S!Init /\ dump = 0 /\ out = 0 /\ answer = 0
          /\ NoPages /\ NoIDs /\ NoAPI /\ NoList
       \/ /\ unit = "pages" /\ D!Init
          /\ NoSQL /\ NoIDs /\ NoAPI /\ NoList
       \/ /\ unit = "ids" /\ I!Init /\ tail = 0
          /\ NoSQL /\ NoPages /\ NoAPI /\ NoList
       \/ /\ unit = "api" /\ A!Init /\ tail = 0 /\ dump = 0
          /\ NoSQL /\ NoPages /\ NoIDs /\ NoList
       \/ /\ unit = "list" /\ L!Init /\ tail = 0 /\ dump = 0 /\ out = 0
          /\ NoSQL /\ NoPages /\ NoIDs /\ NoAPI
       \/ /\ unit = "fetch" /\ tail = 0 /\ dump = 0 /\ out = 0 /\ answer = 0
          /\ NoSQL /\ NoPages /\ NoIDs /\ NoAPI /\ NoList

ReadSQL    == /\ unit = "sql" /\ S!Next
              /\ UNCHANGED <<unit, dump, out, answer, pagesVars, idsVars, apiVars, listVars, fetchVars>>
ReadPages  == /\ unit = "pages" /\ D!Next
              /\ UNCHANGED <<unit, sqlVars, idsVars, apiVars, listVars, fetchVars>>
ReadByID   == /\ unit = "ids" /\ I!Next
              /\ UNCHANGED <<unit, tail, sqlVars, pagesVars, apiVars, listVars, fetchVars>>
AskAPI     == /\ unit = "api" /\ A!Next
              /\ UNCHANGED <<unit, tail, dump, sqlVars, pagesVars, idsVars, listVars, fetchVars>>
PickFiles  == /\ unit = "list" /\ L!Next
              /\ UNCHANGED <<unit, tail, dump, out, sqlVars, pagesVars, idsVars, apiVars, fetchVars>>
FetchPages == /\ unit = "fetch" /\ F!Next
              /\ UNCHANGED <<unit, tail, dump, out, answer,
                             sqlVars, pagesVars, idsVars, apiVars, listVars>>

Next == ReadSQL \/ ReadPages \/ ReadByID \/ AskAPI \/ PickFiles \/ FetchPages

Spec == Init /\ [][Next]_vars

----------------------------------------------------------------------------
(* The properties of the units                                               *)

\* The rows of a damaged or cut SQL dump are those of its table, from the first.
RowsArePrefix == unit = "sql" => S!RowsArePrefix

\* The clean end of the reader means that all of the table has been read.
EofIsWhole == unit = "sql" => S!EofIsWhole

\* A command over a dump writes the pages asked for that stand before its end, cut or
\* damage, and no other; it ends well only when the output has them.
WritesTheAsked == unit = "pages" => D!WritesTheAsked

\* Reading by the index misses no wanted page but those behind a syntax error of their
\* own stream, and so none that reading the whole dump reaches.
ReadsTheWanted == unit = "ids" => I!ReadsTheWanted

\* The continuation gives each page of a list once.
EachPageOnce == unit = "api" => A!EachPageOnce

\* The files taken are those of the newest date that has them all.
TakesTheRight == unit = "list" => L!TakesTheRight

\* Requests to Parsoid keep their distance, whatever the caller asks for.
FetchesApart == [][F!FetchStep]_fetchVars
=============================================================================
