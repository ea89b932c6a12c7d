------------------------------ MODULE Fetcher ------------------------------
(***************************************************************************)
(* The fetcher of Parsoid HTML, src/wiki/parsoid/parsoid.go: goroutines    *)
(* share one Fetcher, which has a rate limit and a retry loop of its own,  *)
(* apart from those of HTTPClient. Time is relative to now, as in the      *)
(* module HTTPClient: a timer is the ticks it has left, next the ticks     *)
(* until f.next, and a goroutine may run late, never early.                *)
(***************************************************************************)
EXTENDS Integers

CONSTANTS
    Fetchers,     \* the goroutines
    Interval,     \* f.Interval, in ticks
    MinInterval,  \* the shortest interval
    maxTries,
    Waits,        \* the values of Retry-After; Absent when it is none
    Absent,
    Second,       \* the ticks of a second, the unit of the backoff
    MaxCalls      \* bound: the calls of one goroutine

Past == -1

\* What the server answers. "busy" is 429 or 503; "ok" has a body that Fetch
\* returns as it is and that FetchParse decodes and compares.
Answers == {"busy", "ok", "wrong", "missing", "timeout", "other"}

VARIABLES
    pc,       \* "idle", "wait", "slot", "send", "retry"
    kind,     \* "html" (Fetch) or "parse" (FetchParse)
    try, timer, over, got,  \* the try, its timer, whether ctx is done, what the call gave
    next,     \* f.next
    requests, \* f.requests
    sent,     \* history: requests sent by this call
    calls,    \* history: the calls of the goroutine
    free,     \* history: the ticks until a slot may be granted
    held      \* history: the ticks this call was asked to wait

vars == <<pc, kind, try, timer, over, got, next, requests, sent, calls, free, held>>

Init == /\ pc = [g \in Fetchers |-> "idle"] /\ kind = [g \in Fetchers |-> "html"]
        /\ try = [g \in Fetchers |-> 0] /\ timer = [g \in Fetchers |-> 0]
        /\ over = [g \in Fetchers |-> FALSE] /\ got = [g \in Fetchers |-> "none"]
        /\ next = Past /\ requests = 0
        /\ sent = [g \in Fetchers |-> 0] /\ calls = [g \in Fetchers |-> 0]
        /\ free = 0 /\ held = [g \in Fetchers |-> 0]

----------------------------------------------------------------------------
(* Mutated forms; no specification uses them.                                *)

\* The interval of the caller is taken as it is.
Gap_unbounded == Interval

\* The interval of New: that of the caller, if it is not too short.
Gap == IF Interval > MinInterval THEN Interval ELSE MinInterval

----------------------------------------------------------------------------
\* Fetch or FetchParse is called. Without a User-Agent they give an error.
Call(g) == /\ pc[g] = "idle" /\ calls[g] < MaxCalls
           /\ pc' = [pc EXCEPT ![g] = "wait"]
           /\ \E k \in {"html", "parse"} : kind' = [kind EXCEPT ![g] = k]
           /\ try' = [try EXCEPT ![g] = 1]
           /\ over' = [over EXCEPT ![g] = FALSE]
           /\ got' = [got EXCEPT ![g] = "none"]
           /\ sent' = [sent EXCEPT ![g] = 0]
           /\ calls' = [calls EXCEPT ![g] = @ + 1]
           /\ held' = [held EXCEPT ![g] = 0]
           /\ UNCHANGED <<timer, next, requests, free>>

\* wait: under f.mu the call takes the slot at f.next or now, and moves f.next
\* behind it. A slot that is there needs no sleep, but ctx is looked at.
Wait(g) == /\ pc[g] = "wait"
           /\ LET at    == IF next > 0 THEN next ELSE 0
                  ended == at = 0 /\ over[g]
              IN  /\ timer' = [timer EXCEPT ![g] = at]
                  /\ next' = at + Gap
                  /\ free' = at + (IF Interval > MinInterval THEN Interval ELSE MinInterval)
                  /\ pc' = [pc EXCEPT ![g] = CASE at > 0 -> "slot" [] ended -> "idle"
                                               [] OTHER -> "send"]
                  /\ got' = [got EXCEPT ![g] = IF ended THEN "context" ELSE @]
           /\ requests' = requests + 1
           /\ UNCHANGED <<kind, try, over, sent, calls, held>>

\* sleep ends: its timer fires, also when ctx is done at the same time.
Wake(g) == /\ pc[g] \in {"slot", "retry"} /\ timer[g] = 0
           /\ pc' = [pc EXCEPT ![g] = IF pc[g] = "slot" THEN "send" ELSE "wait"]
           /\ try' = [try EXCEPT ![g] = IF pc[g] = "retry" THEN @ + 1 ELSE @]
           /\ UNCHANGED <<kind, timer, over, got, next, requests, sent, calls, free, held>>

Return(g, a) == /\ pc' = [pc EXCEPT ![g] = "idle"]
                /\ got' = [got EXCEPT ![g] = a]

CtxDone(g) == /\ pc[g] \in {"slot", "retry"} /\ over[g]
              /\ Return(g, "context")
              /\ UNCHANGED <<kind, try, timer, over, next, requests, sent, calls, free, held>>

\* client.Do or the read of the body fails.
SendFails(g) == /\ pc[g] = "send"
                /\ sent' = [sent EXCEPT ![g] = IF over[g] THEN @ ELSE @ + 1]
                /\ Return(g, "transport")
                /\ UNCHANGED <<kind, try, timer, over, next, requests, calls, free, held>>

\* retryAfter: the seconds of the header, else a backoff that doubles.
retryAfter(h, n) == IF h # Absent THEN h * Second ELSE 2^n * Second

Retries(g) == try[g] < maxTries

SendBusy(g) == /\ pc[g] = "send" /\ ~over[g] /\ Retries(g)
               /\ sent' = [sent EXCEPT ![g] = @ + 1]
               /\ \E h \in Waits : /\ timer' = [timer EXCEPT ![g] = retryAfter(h, try[g])]
                                   /\ held' = [held EXCEPT ![g] = IF h = Absent THEN 0 ELSE h * Second]
               /\ pc' = [pc EXCEPT ![g] = "retry"]
               /\ UNCHANGED <<kind, try, over, got, next, requests, calls, free>>

\* What the call gives for an answer: a document, ErrNotFound, ErrTimeout or
\* another error. FetchParse gives no document of another revision.
Outcome(k, a) == CASE a = "ok" -> "document"
                   [] a = "missing" -> "notFound"
                   [] a = "timeout" /\ k = "html" -> "timeout"
                   [] a = "wrong" /\ k = "html" -> "document"
                   [] OTHER -> "error"

\* An answer that is not tried again. After the last try a busy answer is one.
SendAnswered(g) == /\ pc[g] = "send" /\ ~over[g]
                   /\ sent' = [sent EXCEPT ![g] = @ + 1]
                   /\ \E a \in Answers : /\ a = "busy" => ~Retries(g)
                                         /\ Return(g, IF a = "busy" THEN "busy"
                                                      ELSE Outcome(kind[g], a))
                   /\ UNCHANGED <<kind, try, timer, over, next, requests, calls, free, held>>

Cancel(g) == /\ pc[g] # "idle" /\ ~over[g]
             /\ over' = [over EXCEPT ![g] = TRUE]
             /\ UNCHANGED <<pc, kind, try, timer, got, next, requests, sent, calls, free, held>>

Down(n) == IF n > 0 THEN n - 1 ELSE 0

Tick == /\ timer' = [g \in Fetchers |-> Down(timer[g])]
        /\ held' = [g \in Fetchers |-> Down(held[g])]
        /\ free' = Down(free)
        /\ next' = IF next > 0 THEN next - 1 ELSE Past
        /\ UNCHANGED <<pc, kind, try, over, got, requests, sent, calls>>

Next == \/ \E g \in Fetchers : \/ Call(g) \/ Wait(g) \/ Wake(g) \/ CtxDone(g) \/ SendFails(g)
                               \/ SendBusy(g) \/ SendAnswered(g) \/ Cancel(g)
        \/ Tick

Spec == Init /\ [][Next]_vars

----------------------------------------------------------------------------
(* Properties                                                                *)

\* "The fetch stays at or below 200 requests a minute ... A caller can make the
\* interval longer, but not shorter" (parsoid.go:6): the slot a request gets,
\* also that of a retry, lies MinInterval and Interval after the one before it,
\* and no request is sent before its slot or before the wait the server asked for.
FetchStep ==
    /\ \A g \in Fetchers : pc[g] = "wait" /\ pc'[g] # "wait" => timer'[g] >= free
    /\ \A g \in Fetchers : sent'[g] > sent[g] => timer[g] = 0 /\ held[g] = 0

\* Every step of the fetcher keeps that distance.
FetchesApart == [][FetchStep]_vars
=============================================================================
