----------------------------- MODULE ReadPages -----------------------------
(***************************************************************************)
(* ReadPages of src/wiki/dump/multistream.go: a feeder goroutine puts a    *)
(* channel per stream on a bounded queue and then hands the stream to one  *)
(* of the workers; the workers decompress the streams and put each result  *)
(* in the stream's own channel; the caller reads these channels in the     *)
(* order of the queue and calls fn for the wanted pages.                   *)
(*                                                                         *)
(* A select, a channel operation, a close and a call of fn are each one    *)
(* step; a stream's channel is named by the stream.                        *)
(***************************************************************************)
EXTENDS DumpOrder, FiniteSets

CONSTANT workers  (* the workers argument *)

ASSUME WorkersAssumption == workers \in Int

NumWorkers == IF workers > 1 THEN workers ELSE 1
Worker     == 1 .. NumWorkers
QueueCap   == 2 * NumWorkers
OutCap     == 1

Result == [of : Stream, ok : BOOLEAN]  \* the result of one stream: pages or an error

VARIABLES
    caller,       \* where the caller is: "open", "take", "recv", "deliver", "stop",
                  \* "drain", "wait", "close" or "returned"
    cur, at,      \* the stream of the channel taken last, the next page of its result
    r,            \* the result received last
    err,          \* the error ReadPages gives: "none", "open", "stream" or "fn"
    calls,        \* the positions fn was called with
    file,         \* whether the dump is open
    queue, queueClosed,   \* the channel of channels
    jobsClosed, done,     \* whether the channels jobs and done are closed
    out,          \* the channel of each stream
    feeder, fed,  \* where the feeder is, and the stream it feeds
    wpc, job, got \* where each worker is, its stream and what ReadStream gave

callerVars == <<caller, cur, at, r, err, calls, file>>
feederVars == <<feeder, fed>>
workerVars == <<wpc, job, got>>
chanVars   == <<queue, queueClosed, jobsClosed, done, out>>
vars       == <<callerVars, feederVars, workerVars, chanVars>>

None == [of |-> 0, ok |-> FALSE]  \* no result yet

Init == /\ caller = "open" /\ cur = 0 /\ at = 1 /\ r = None
        /\ err = "none" /\ calls = <<>> /\ file = FALSE
        /\ queue = <<>> /\ queueClosed = FALSE /\ jobsClosed = FALSE /\ done = FALSE
        /\ out = [s \in Stream |-> <<>>]
        /\ feeder = "off" /\ fed = 1
        /\ wpc = [w \in Worker |-> "off"]
        /\ job = [w \in Worker |-> 0]
        /\ got = [w \in Worker |-> None]

----------------------------------------------------------------------------
(* Mutated forms of some actions, each a plausible bug; no specification uses *)
(* them. They show that the properties below can fail.                       *)

\* One channel for all the results: the caller takes whichever came first.
Receive_anyStream ==
    /\ caller = "recv"
    /\ \E s \in Stream : /\ out[s] # <<>>
                         /\ r' = Head(out[s])
                         /\ out' = [out EXCEPT ![s] = Tail(@)]
    /\ at' = 1
    /\ IF r'.ok THEN caller' = "deliver" /\ UNCHANGED err
                ELSE caller' = "stop" /\ err' = "stream"
    /\ UNCHANGED <<cur, calls, file, queue, queueClosed, jobsClosed, done,
                   feederVars, workerVars>>

\* A stream that fails is passed over.
Receive_errorIgnored ==
    /\ caller = "recv" /\ out[cur] # <<>>
    /\ r' = Head(out[cur])
    /\ out' = [out EXCEPT ![cur] = Tail(@)]
    /\ at' = 1
    /\ caller' = IF r'.ok THEN "deliver" ELSE "take"
    /\ UNCHANGED <<cur, err, calls, file, queue, queueClosed, jobsClosed, done,
                   feederVars, workerVars>>

\* The error of fn is kept, and the loop goes on.
CallFn_goesOn ==
    /\ caller = "deliver" /\ at <= Len(Pages[r.of])
    /\ Pages[r.of][at] \in Wanted
    /\ calls' = Append(calls, <<r.of, at>>)
    /\ at' = at + 1
    /\ err' \in {err, "fn"}
    /\ UNCHANGED <<caller, cur, r, file, feederVars, workerVars, chanVars>>

\* The last page of a stream is left out.
PagesEnd_early ==
    /\ caller = "deliver" /\ at >= Len(Pages[r.of])
    /\ caller' = "take"
    /\ UNCHANGED <<cur, at, r, err, calls, file, feederVars, workerVars, chanVars>>

\* No wg.Wait at the end of the queue.
QueueEnds_noWait ==
    /\ caller = "take" /\ queue = <<>> /\ queueClosed
    /\ caller' = "close"
    /\ UNCHANGED <<cur, at, r, err, calls, file, feederVars, workerVars, chanVars>>

\* No wg.Wait at all.
Wait_skipped == /\ caller = "wait"
                /\ caller' = "close"
                /\ UNCHANGED <<cur, at, r, err, calls, file, feederVars, workerVars, chanVars>>

\* A queue with no bound.
Enqueue_unbounded ==
    /\ feeder = "queue" /\ fed <= NumStreams
    /\ queue' = Append(queue, fed)
    /\ feeder' = "hand"
    /\ UNCHANGED <<fed, queueClosed, jobsClosed, done, out, callerVars, workerVars>>

\* The channel of a stream has no buffer: the worker waits for the caller.
SendResult_unbuffered(w) ==
    /\ wpc[w] = "send"
    /\ caller = "recv" /\ cur = job[w] /\ out[cur] = <<>>
    /\ out' = [out EXCEPT ![job[w]] = Append(@, got[w])]
    /\ wpc' = [wpc EXCEPT ![w] = "idle"]
    /\ UNCHANGED <<job, got, queue, queueClosed, jobsClosed, done, callerVars, feederVars>>

----------------------------------------------------------------------------
(* The caller. *)

\* os.Open and Stat succeed; the workers and the feeder are started.
OpenDump == /\ caller = "open"
            /\ file' = TRUE
            /\ caller' = "take"
            /\ feeder' = "queue"
            /\ wpc' = [w \in Worker |-> "idle"]
            /\ UNCHANGED <<cur, at, r, err, calls, fed, job, got, chanVars>>

\* os.Open or Stat fails.
OpenFails == /\ caller = "open"
             /\ err' = "open"
             /\ caller' = "returned"
             /\ UNCHANGED <<cur, at, r, calls, file, feederVars, workerVars, chanVars>>

\* for out := range queue
TakeOut == /\ caller = "take" /\ queue # <<>>
           /\ cur' = Head(queue)
           /\ queue' = Tail(queue)
           /\ caller' = "recv"
           /\ UNCHANGED <<at, r, err, calls, file, queueClosed, jobsClosed, done, out,
                          feederVars, workerVars>>

\* The queue is closed and empty: every stream was read.
QueueEnds == /\ caller = "take" /\ queue = <<>> /\ queueClosed
             /\ caller' = "wait"
             /\ UNCHANGED <<cur, at, r, err, calls, file, feederVars, workerVars, chanVars>>

\* r := <-out
Receive == /\ caller = "recv" /\ out[cur] # <<>>
           /\ r' = Head(out[cur])
           /\ out' = [out EXCEPT ![cur] = Tail(@)]
           /\ at' = 1
           /\ IF r'.ok THEN caller' = "deliver" /\ UNCHANGED err
                       ELSE caller' = "stop" /\ err' = "stream"
           /\ UNCHANGED <<cur, calls, file, queue, queueClosed, jobsClosed, done,
                          feederVars, workerVars>>

\* A page that is not of the set.
SkipPage == /\ caller = "deliver" /\ at <= Len(Pages[r.of])
            /\ Pages[r.of][at] \notin Wanted
            /\ at' = at + 1
            /\ UNCHANGED <<caller, cur, r, err, calls, file, feederVars, workerVars, chanVars>>

\* fn(p), which may fail.
CallFn == /\ caller = "deliver" /\ at <= Len(Pages[r.of])
          /\ Pages[r.of][at] \in Wanted
          /\ calls' = Append(calls, <<r.of, at>>)
          /\ \/ at' = at + 1 /\ UNCHANGED <<caller, err>>
             \/ caller' = "stop" /\ err' = "fn" /\ UNCHANGED at
          /\ UNCHANGED <<cur, r, file, feederVars, workerVars, chanVars>>

PagesEnd == /\ caller = "deliver" /\ at > Len(Pages[r.of])
            /\ caller' = "take"
            /\ UNCHANGED <<cur, at, r, err, calls, file, feederVars, workerVars, chanVars>>

\* stop: close(done)
Stop == /\ caller = "stop"
        /\ done' = TRUE
        /\ caller' = "drain"
        /\ UNCHANGED <<cur, at, r, err, calls, file, queue, queueClosed, jobsClosed, out,
                       feederVars, workerVars>>

\* stop: for range queue {}
Drain == /\ caller = "drain"
         /\ \/ queue # <<>> /\ queue' = Tail(queue) /\ UNCHANGED caller
            \/ queue = <<>> /\ queueClosed /\ caller' = "wait" /\ UNCHANGED queue
         /\ UNCHANGED <<cur, at, r, err, calls, file, queueClosed, jobsClosed, done, out,
                        feederVars, workerVars>>

\* wg.Wait()
Wait == /\ caller = "wait"
        /\ \A w \in Worker : wpc[w] = "exited"
        /\ caller' = "close"
        /\ UNCHANGED <<cur, at, r, err, calls, file, feederVars, workerVars, chanVars>>

\* The deferred f.Close, and the return.
Close == /\ caller = "close"
         /\ file' = FALSE
         /\ caller' = "returned"
         /\ UNCHANGED <<cur, at, r, err, calls, feederVars, workerVars, chanVars>>

Caller == \/ OpenDump \/ OpenFails \/ TakeOut \/ QueueEnds \/ Receive \/ SkipPage \/ CallFn
          \/ PagesEnd \/ Stop \/ Drain \/ Wait \/ Close

----------------------------------------------------------------------------
(* The feeder. *)

\* queue <- out
Enqueue == /\ feeder = "queue" /\ fed <= NumStreams
           /\ Len(queue) < QueueCap
           /\ queue' = Append(queue, fed)
           /\ feeder' = "hand"
           /\ UNCHANGED <<fed, queueClosed, jobsClosed, done, out, callerVars, workerVars>>

\* jobs <- {s, out}, received by the worker w: the channel has no buffer.
HandOff(w) == /\ feeder = "hand" /\ wpc[w] = "idle"
              /\ job' = [job EXCEPT ![w] = fed]
              /\ wpc' = [wpc EXCEPT ![w] = "read"]
              /\ fed' = fed + 1
              /\ feeder' = "queue"
              /\ UNCHANGED <<got, callerVars, chanVars>>

\* The loop ends, or one of the two selects takes <-done.
LeaveLoop == /\ \/ feeder = "queue" /\ fed > NumStreams
                \/ feeder \in {"queue", "hand"} /\ fed <= NumStreams /\ done
             /\ feeder' = "closeQueue"
             /\ UNCHANGED <<fed, callerVars, workerVars, chanVars>>

\* The deferred close(queue), which runs before the deferred close(jobs).
CloseQueue == /\ feeder = "closeQueue"
              /\ queueClosed' = TRUE
              /\ feeder' = "closeJobs"
              /\ UNCHANGED <<fed, queue, jobsClosed, done, out, callerVars, workerVars>>

CloseJobs == /\ feeder = "closeJobs"
             /\ jobsClosed' = TRUE
             /\ feeder' = "exited"
             /\ UNCHANGED <<fed, queue, queueClosed, done, out, callerVars, workerVars>>

Feeder == Enqueue \/ LeaveLoop \/ CloseQueue \/ CloseJobs \/ \E w \in Worker : HandOff(w)

----------------------------------------------------------------------------
(* A worker. *)

\* ReadStream gives the pages up to the edge of the stream, or an error: the
\* bounds are not in the file, the bzip2 data is bad, or a page is malformed.
ReadStream(w) == /\ wpc[w] = "read"
                 /\ \E ok \in IF file THEN BOOLEAN ELSE {FALSE} :
                       got' = [got EXCEPT ![w] = [of |-> job[w], ok |-> ok]]
                 /\ wpc' = [wpc EXCEPT ![w] = "send"]
                 /\ UNCHANGED <<job, callerVars, feederVars, chanVars>>

\* j.out <- result{ps, err}
SendResult(w) == /\ wpc[w] = "send"
                 /\ Len(out[job[w]]) < OutCap
                 /\ out' = [out EXCEPT ![job[w]] = Append(@, got[w])]
                 /\ wpc' = [wpc EXCEPT ![w] = "idle"]
                 /\ UNCHANGED <<job, got, queue, queueClosed, jobsClosed, done,
                                callerVars, feederVars>>

\* range jobs ends, wg.Done()
WorkerExits(w) == /\ wpc[w] = "idle" /\ jobsClosed
                  /\ wpc' = [wpc EXCEPT ![w] = "exited"]
                  /\ UNCHANGED <<job, got, callerVars, feederVars, chanVars>>

WorkerStep(w) == ReadStream(w) \/ SendResult(w) \/ WorkerExits(w)

----------------------------------------------------------------------------
\* ReadPages has returned and every goroutine it started has ended.
Terminated == /\ caller = "returned"
              /\ feeder \in {"off", "exited"}
              /\ \A w \in Worker : wpc[w] \in {"off", "exited"}
              /\ UNCHANGED vars

Next == \/ Caller
        \/ Feeder
        \/ \E w \in Worker : WorkerStep(w)
        \/ Terminated

\* The Go scheduler runs every goroutine that can run, and fn and ReadStream
\* return; which branch of a select with two ready cases runs is left open.
Fairness == /\ WF_vars(Caller)
            /\ WF_vars(Feeder)
            /\ \A w \in Worker : WF_vars(WorkerStep(w))

Spec == Init /\ [][Next]_vars /\ Fairness

----------------------------------------------------------------------------
(* Properties. *)

TypeOK ==
    /\ caller \in {"open", "take", "recv", "deliver", "stop", "drain", "wait", "close",
                   "returned"}
    /\ cur \in 0 .. NumStreams /\ at \in Nat \ {0}
    /\ r \in Result \cup {None}
    /\ err \in {"none", "open", "stream", "fn"}
    /\ calls \in Seq(Position)
    /\ file \in BOOLEAN /\ queueClosed \in BOOLEAN /\ jobsClosed \in BOOLEAN /\ done \in BOOLEAN
    /\ queue \in Seq(Stream)
    /\ out \in [Stream -> Seq(Result)]
    /\ feeder \in {"off", "queue", "hand", "closeQueue", "closeJobs", "exited"}
    /\ fed \in 1 .. NumStreams + 1
    /\ wpc \in [Worker -> {"off", "idle", "read", "send", "exited"}]
    /\ job \in [Worker -> 0 .. NumStreams]
    /\ got \in [Worker -> Result \cup {None}]

\* "fn sees the pages in the order of the dump" (multistream.go:208): whatever
\* the order in which the workers finish, fn is called with ever later pages.
InOrder == \A i, j \in DOMAIN calls : i < j => Before(calls[i], calls[j])

\* fn is never called with a page while a wanted page before it was passed over.
NoneSkipped == \A i \in DOMAIN calls : \A p \in WantedPosition :
                  Before(p, calls[i]) => \E j \in 1 .. i : calls[j] = p

\* The queue bounds the read-ahead: of the streams the workers have started, at
\* most QueueCap + 1 are in memory, the one being delivered included.
Busy     == {w \in Worker : wpc[w] \in {"read", "send"}}
InMemory == {s \in Stream : out[s] # <<>>}
            \cup {job[w] : w \in Busy}
            \cup (IF caller = "deliver" THEN {cur} ELSE {})
BoundedReadAhead == caller \in {"take", "recv", "deliver"}
                       => Cardinality(InMemory) <= QueueCap + 1

\* No worker reads the dump after ReadPages has closed it.
ReadsOpenFile == \A w \in Worker : wpc[w] = "read" => file

\* When ReadPages returns, with or without an error, no goroutine it started is
\* left: the feeder has closed both channels and every worker has ended.
NoGoroutineLeft == caller = "returned" => /\ feeder \in {"off", "exited"}
                                          /\ \A w \in Worker : wpc[w] \in {"off", "exited"}
                                          /\ ~file

\* "An error of fn or of a stream stops the read": after the first error fn is
\* never called again and no later error replaces the one returned.
ErrorStops == [][err # "none" => UNCHANGED <<err, calls>>]_vars

\* No error is lost and no page is: a nil error says fn saw every wanted page.
NilMeansAll == caller = "returned" /\ err = "none"
                  => {calls[i] : i \in DOMAIN calls} = WantedPosition

\* ReadPages returns, however the selects of the feeder choose.
Returns == <>(caller = "returned")

\* ReadPages is a sequential read of the dump.
Sequential == INSTANCE OrderedRead WITH returned <- caller = "returned"
Refines == Sequential!Spec

----------------------------------------------------------------------------
(* Why it holds: the inductive invariant behind InOrder, NoneSkipped,        *)
(* BoundedReadAhead, ReadsOpenFile, NoGoroutineLeft and NilMeansAll          *)
(* (ReadPages_proofs).                                                       *)

Reading == caller \in {"take", "recv", "deliver"}
Called  == {calls[i] : i \in DOMAIN calls}

\* The pages the caller has put behind it while it reads.
Passed(p) == \/ p[1] < cur
             \/ p[1] = cur /\ (caller = "take" \/ (caller = "deliver" /\ p[2] < at))

\* Which goroutines are alive where the caller is, and which channels are closed.
Lifecycle ==
    /\ file <=> caller \notin {"open", "returned"}
    /\ err = "open" => caller = "returned"
    /\ caller = "open" \/ Reading => err = "none" /\ ~done
    /\ caller \in {"stop", "drain"} => err # "none"
    /\ IF caller = "open" \/ err = "open"
       THEN feeder = "off" /\ \A w \in Worker : wpc[w] = "off"
       ELSE feeder # "off" /\ \A w \in Worker : wpc[w] # "off"
    /\ caller \in {"close", "returned"} /\ err # "open" => \A w \in Worker : wpc[w] = "exited"
    /\ queueClosed <=> feeder \in {"closeJobs", "exited"}
    /\ jobsClosed <=> feeder = "exited"
    /\ \A w \in Worker : wpc[w] = "exited" => jobsClosed

\* While the caller reads, the queue holds the streams after cur, one by one.
FedInOrder ==
    /\ caller = "open" => calls = <<>> /\ cur = 0 /\ queue = <<>> /\ fed = 1
    /\ Reading => /\ \A i \in DOMAIN queue : queue[i] = cur + i
                  /\ feeder = "queue" => fed = cur + Len(queue) + 1
                  /\ feeder = "hand" => fed = cur + Len(queue)
                  /\ feeder \notin {"queue", "hand"} => cur + Len(queue) = NumStreams

\* A result stands in the channel of its own stream.
OwnChannel ==
    /\ \A s \in Stream : \A i \in DOMAIN out[s] : out[s][i].of = s
    /\ feeder = "hand" => fed \in Stream
    /\ \A w \in Worker : wpc[w] \in {"read", "send"} => job[w] \in Stream
    /\ \A w \in Worker : wpc[w] = "send" => got[w] \in Result /\ got[w].of = job[w]
    /\ caller \in {"recv", "deliver"} => cur \in Stream
    /\ caller = "deliver" => r \in Result /\ r.of = cur /\ at <= Len(Pages[cur]) + 1

\* While the caller reads, every stream that a worker has or that stands in its
\* channel is one after those the caller has received, and it is in one place.
Ahead(s) == cur <= s /\ (caller # "recv" => cur < s) /\ s < fed
InFlight ==
    /\ Len(queue) <= QueueCap
    /\ caller = "open" => \A s \in Stream : out[s] = <<>>
    /\ caller \in {"take", "deliver"} => cur < fed
    /\ caller = "open" \/ Reading =>
        /\ \A s \in Stream : out[s] # <<>> => /\ Ahead(s) /\ Len(out[s]) = 1
                                              /\ \A w \in Busy : job[w] # s
        /\ \A w \in Busy : Ahead(job[w])
        /\ \A v, w \in Busy : job[v] = job[w] => v = w

\* fn was called with the wanted pages the caller has passed, and no other.
CallsExact ==
    /\ Reading => Called = {p \in WantedPosition : Passed(p)}
    /\ caller \in {"wait", "close", "returned"} /\ err = "none" => Called = WantedPosition

IndInv == /\ TypeOK /\ Lifecycle /\ FedInOrder /\ OwnChannel /\ InFlight /\ CallsExact
          /\ InOrder /\ NoneSkipped

============================================================================
