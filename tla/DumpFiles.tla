----------------------------- MODULE DumpFiles -----------------------------
(***************************************************************************)
(* Which files of the dump server a command takes (src/wiki/dump.go,       *)
(* src/cli/dump.go, src/cli/export.go). A wiki has dumps of several dates; *)
(* the newest may still run, so a file of it can be missing or not done.   *)
(* `dump tables` takes the newest date on which every table is done        *)
(* (DumpTableFiles); `dump download` takes one file by its name, its job   *)
(* or a part of its name (pickDumpFile); `dump export --download` takes    *)
(* the dump of the pages (pickPagesArticles).                              *)
(*                                                                         *)
(* A file has a name, its job, the status of the job and its size; `has`   *)
(* are the parts of its name that a command looks for. Its place in the    *)
(* list of a date is its place by name. A date given by hand is the case   *)
(* of a wiki with one date.                                                *)
(***************************************************************************)
EXTENDS Integers, Sequences

CONSTANTS
    Tables,     \* the tables asked for, in their order
    TableFile,  \* the file of each table, as a name and a job
    Listings,   \* what the server may list for a date: sequences of files by
                \* name, or NoAnswer when it does not answer
    NoAnswer,
    MaxDates,   \* the most dates of a wiki
    Queries,    \* the arguments of `dump download`
    TablesBack  \* tablesBack

VARIABLES
    task,     \* what is asked: "tables", "pages", or a query of `dump download`
    server,   \* the listing of each date, oldest first; empty: the wiki has no dump
    dates,    \* the dates still to try, newest first
    answer,   \* "dates", "running", "taken", "error", or "noDates" when the page of the
              \* wiki, which lists its dates, does not answer
    taken     \* the date and the files taken

vars == <<task, server, dates, answer, taken>>

Nothing == [date |-> 0, files |-> <<>>]

Init == /\ task \in {"tables", "pages"} \cup Queries
        /\ \E n \in 0 .. MaxDates : server \in [1 .. n -> Listings]
        /\ dates = <<>> /\ answer = "dates" /\ taken = Nothing

\* The first of the files at the places `at`, as a sequence of one, or of none.
First(fs, at) == IF at = {} THEN <<>>
                 ELSE <<fs[CHOOSE i \in at : \A k \in at : i <= k]>>

\* The places of the file of a table.
PlacesOf(fs, t) == {i \in DOMAIN fs : /\ fs[i].name = TableFile[t].name
                                      /\ fs[i].job = TableFile[t].job}

----------------------------------------------------------------------------
(* Mutated forms; no specification uses them.                                *)

\* A file of a job that still runs is taken.
tableFiles_anyStatus(fs) ==
    LET found == [i \in DOMAIN Tables |-> First(fs, PlacesOf(fs, Tables[i]))]
    IN  IF \E i \in DOMAIN found : found[i] = <<>> THEN <<>>
        ELSE [i \in DOMAIN found |-> found[i][1]]

----------------------------------------------------------------------------
\* dumpDates: the dates on the page of the wiki; "latest" is the newest. `dump
\* tables` tries the newest TablesBack of them, the other commands the newest.
Dates == /\ answer = "dates"
         /\ IF server = <<>> THEN answer' = "error" /\ UNCHANGED dates
            ELSE /\ answer' = "running"
                 /\ LET n == Len(server)
                        back == IF task # "tables" THEN 1
                                ELSE IF n < TablesBack THEN n ELSE TablesBack
                    IN  dates' = [i \in 1 .. back |-> n + 1 - i]
         /\ UNCHANGED <<task, server, taken>>

\* The error of that request, which ends the command.
DatesFail == /\ answer = "dates"
             /\ answer' = "noDates"
             /\ UNCHANGED <<task, server, dates, taken>>

\* tableFiles: the file of each table, or none when one is missing or not done.
tableFiles(fs) ==
    LET found == [i \in DOMAIN Tables |-> First(fs, PlacesOf(fs, Tables[i]))]
    IN  IF \E i \in DOMAIN found : found[i] = <<>> \/ found[i][1].status # "done"
          THEN <<>> ELSE [i \in DOMAIN found |-> found[i][1]]

\* pickDumpFile: by name, then by job, then by a part of the name.
pickDumpFile(fs, q) ==
    LET named  == {i \in DOMAIN fs : fs[i].name = q}
        ofJob  == {i \in DOMAIN fs : fs[i].job = q}
    IN  CASE named # {} -> First(fs, named)
          [] named = {} /\ ofJob # {} -> First(fs, ofJob)
          [] OTHER -> First(fs, {i \in DOMAIN fs : q \in fs[i].has})

\* pickPagesArticles: the smallest combined dump of the pages, neither multistream
\* nor an index, else the first file of the pages that is no index.
pickPagesArticles(fs) ==
    LET combined == {i \in DOMAIN fs : /\ "combined" \in fs[i].has
                                       /\ fs[i].has \cap {"multistream", "index"} = {}}
    IN  IF combined # {}
          THEN First(fs, {i \in combined : \A k \in combined : fs[i].size <= fs[k].size})
          ELSE First(fs, {i \in DOMAIN fs : /\ "pages-articles" \in fs[i].has
                                            /\ "index" \notin fs[i].has})

Picked(fs) == CASE task = "tables" -> tableFiles(fs)
                [] task = "pages"  -> pickPagesArticles(fs)
                [] OTHER           -> pickDumpFile(fs, task)

\* The listing of the next date (DumpList). A date without an answer is an error.
Try == /\ answer = "running" /\ dates # <<>>
       /\ LET fs == server[Head(dates)]
          IN  CASE fs = NoAnswer -> answer' = "error" /\ UNCHANGED <<dates, taken>>
                [] fs # NoAnswer /\ Picked(fs) # <<>> ->
                     /\ answer' = "taken"
                     /\ taken' = [date |-> Head(dates), files |-> Picked(fs)]
                     /\ UNCHANGED dates
                [] OTHER -> dates' = Tail(dates) /\ UNCHANGED <<answer, taken>>
       /\ UNCHANGED <<task, server>>

NoneLeft == /\ answer = "running" /\ dates = <<>>
            /\ answer' = "error"
            /\ UNCHANGED <<task, server, dates, taken>>

Next == Dates \/ DatesFail \/ Try \/ NoneLeft

Spec == Init /\ [][Next]_vars

----------------------------------------------------------------------------
(* Properties                                                                *)

Complete(d) == \A i \in DOMAIN Tables : \E k \in DOMAIN server[d] :
                  /\ server[d][k].name = TableFile[Tables[i]].name
                  /\ server[d][k].job = TableFile[Tables[i]].job
                  /\ server[d][k].status = "done"

Newest == Len(server)
Tried  == {d \in DOMAIN server : d > Newest - TablesBack}

\* The tables taken are all of one date, complete, in the order asked for, and
\* of the newest complete date: an error means that none of the newest
\* TablesBack dates is complete, or one of them did not answer. A query that is
\* the name of a file takes that file, whatever jobs and other names it fits,
\* and a query that any file of the newest date fits takes one that it fits. The
\* pages that `dump export --download` fetches are no index.
TakesTheRight ==
    /\ (answer = "taken" /\ task = "tables") =>
         /\ Complete(taken.date)
         /\ \A d \in Tried : d > taken.date => ~Complete(d)
         /\ [i \in DOMAIN taken.files |-> taken.files[i].name] =
                [i \in DOMAIN Tables |-> TableFile[Tables[i]].name]
    /\ (answer = "error" /\ task = "tables") =>
         \/ \E d \in Tried : server[d] = NoAnswer
         \/ \A d \in Tried : ~Complete(d)
    /\ (answer \in {"taken", "error"} /\ task \in Queries /\ server # <<>>) =>
         LET fs == server[Newest]
         IN  \/ fs = NoAnswer
             \/ IF \E k \in DOMAIN fs : fs[k].name = task THEN taken.files[1].name = task
                ELSE (\E k \in DOMAIN fs : fs[k].job = task \/ task \in fs[k].has)
                        <=> (answer = "taken" /\ (taken.files[1].job = task
                                                   \/ task \in taken.files[1].has))
    /\ (answer = "taken" /\ task = "pages") => "index" \notin taken.files[1].has
============================================================================
