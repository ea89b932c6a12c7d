----------------------------- MODULE HTTPClient -----------------------------
(***************************************************************************)
(* HTTPClient.do of src/wiki/client.go: the requests of the goroutines     *)
(* that share one client, with the throttle that gives each attempt a time *)
(* slot, the backoff between the attempts, the Retry-After header and the  *)
(* end of the context.                                                     *)
(*                                                                         *)
(* Time is relative to now: a timer is the ticks it has left, h.next the   *)
(* ticks until it (Past when it lies before now). So the model needs no    *)
(* bound on the clock. A goroutine may run late, never early.              *)
(***************************************************************************)
EXTENDS Integers

CONSTANTS Caller,     (* the goroutines that use the client                     *)
          retries,    (* h.retries, not negative (NewHTTPClient)                *)
          delay,      (* h.delay, in ticks                                      *)
          RetryAfter, (* the values of the header Retry-After; 0 when absent    *)
          MaxAhead    (* bound: no new call while h.next is further away        *)

ASSUME ClientAssumption == /\ retries \in Nat
                           /\ delay \in Nat
                           /\ RetryAfter \subseteq Nat
                           /\ MaxAhead \in Nat

Past == -1

VARIABLES
    pc,       \* "idle", "loop", "backoff", "throttle", "slot", "send", "retryAfter"
    i,        \* the attempt of the call
    timer,    \* the ticks left of the timer a caller waits for
    next,     \* h.next
    over,     \* whether the context of the call is done
    last,     \* the error of the last attempt: "none", "transport" or "status"
    result,   \* what the call gave: "none", "response", "context", "request" or last
    sends,    \* history: requests sent by this call
    free,     \* history: ticks until the slot after the last one granted
    held      \* history: ticks for which the server asked this caller to wait

callVars == <<pc, i, timer, over, last, result, sends, held>>
vars     == <<callVars, next, free>>

Waiting == {"backoff", "slot", "retryAfter"}

Init == /\ pc = [c \in Caller |-> "idle"]
        /\ i = [c \in Caller |-> 0]
        /\ timer = [c \in Caller |-> 0]
        /\ next = Past          \* the zero time
        /\ over = [c \in Caller |-> FALSE]
        /\ last = [c \in Caller |-> "none"]
        /\ result = [c \in Caller |-> "none"]
        /\ sends = [c \in Caller |-> 0]
        /\ free = 0
        /\ held = [c \in Caller |-> 0]

Goto(c, l)     == pc' = [pc EXCEPT ![c] = l]
Return(c, res) == Goto(c, "idle") /\ result' = [result EXCEPT ![c] = res]

----------------------------------------------------------------------------
(* Mutated forms, each a plausible bug; no specification uses them.          *)

\* h.next is set from now also when it lies ahead.
Throttle_fromNow(c) ==
    /\ pc[c] = "throttle"
    /\ IF delay = 0
       THEN Goto(c, "send") /\ UNCHANGED <<timer, next, free>>
       ELSE /\ next' = delay
            /\ IF next <= 0
               THEN Goto(c, "send") /\ UNCHANGED timer
               ELSE Goto(c, "slot") /\ timer' = [timer EXCEPT ![c] = next]
            /\ free' = (IF next = Past THEN 0 ELSE next) + delay
    /\ UNCHANGED <<i, over, last, result, sends, held>>

\* Retry-After is left to the backoff.
SendRefused_noWait(c) ==
    /\ pc[c] = "send" /\ ~over[c]
    /\ sends' = [sends EXCEPT ![c] = @ + 1]
    /\ last' = [last EXCEPT ![c] = "status"]
    /\ \E wait \in RetryAfter : held' = [held EXCEPT ![c] = wait]
    /\ i' = [i EXCEPT ![c] = @ + 1]
    /\ Goto(c, "loop")
    /\ UNCHANGED <<timer, next, over, result, free>>

\* for i := 0; i < h.retries; i++
Loop_oneLess(c) ==
    /\ pc[c] = "loop"
    /\ \/ /\ i[c] >= retries
          /\ Return(c, last[c])
          /\ UNCHANGED timer
       \/ /\ i[c] < retries /\ i[c] > 0 /\ delay > 0
          /\ timer' = [timer EXCEPT ![c] = delay * (i[c] * i[c] + 1)]
          /\ Goto(c, "backoff")
          /\ UNCHANGED result
       \/ /\ i[c] < retries /\ (i[c] = 0 \/ delay = 0)
          /\ Goto(c, "throttle")
          /\ UNCHANGED <<timer, result>>
    /\ UNCHANGED <<i, next, over, last, sends, free, held>>

\* After its wait a caller asks throttle again, whose slot is then taken by itself.
Wake_asksAgain(c) ==
    /\ pc[c] \in Waiting /\ timer[c] = 0
    /\ Goto(c, IF pc[c] = "retryAfter" THEN "loop" ELSE "throttle")
    /\ i' = [i EXCEPT ![c] = @ + (IF pc[c] = "retryAfter" THEN 1 ELSE 0)]
    /\ UNCHANGED <<timer, next, over, last, result, sends, free, held>>

----------------------------------------------------------------------------
Call(c) == /\ pc[c] = "idle" /\ next <= MaxAhead
           /\ Goto(c, "loop")
           /\ i' = [i EXCEPT ![c] = 0]
           /\ last' = [last EXCEPT ![c] = "none"]
           /\ result' = [result EXCEPT ![c] = "none"]
           /\ sends' = [sends EXCEPT ![c] = 0]
           /\ held' = [held EXCEPT ![c] = 0]
           /\ over' \in {[over EXCEPT ![c] = b] : b \in BOOLEAN}
           /\ UNCHANGED <<timer, next, free>>

\* The head of the loop: the last error after the last attempt, and a backoff
\* before each attempt but the first. sleep of no time does not look at ctx.
Loop(c) == /\ pc[c] = "loop"
           /\ \/ /\ i[c] > retries
                 /\ Return(c, last[c])
                 /\ UNCHANGED timer
              \/ /\ i[c] <= retries /\ i[c] > 0 /\ delay > 0
                 /\ timer' = [timer EXCEPT ![c] = delay * (i[c] * i[c] + 1)]
                 /\ Goto(c, "backoff")
                 /\ UNCHANGED result
              \/ /\ i[c] <= retries /\ (i[c] = 0 \/ delay = 0)
                 /\ Goto(c, "throttle")
                 /\ UNCHANGED <<timer, result>>
           /\ UNCHANGED <<i, next, over, last, sends, free, held>>

\* throttle, up to its timer: under h.mu the caller takes the slot at h.next, or
\* now when h.next is past, and moves h.next behind it.
Throttle(c) ==
    /\ pc[c] = "throttle"
    /\ IF delay = 0
       THEN Goto(c, "send") /\ UNCHANGED <<timer, next, free>>
       ELSE /\ next' = IF next = Past THEN delay ELSE next + delay
            /\ IF next <= 0
               THEN Goto(c, "send") /\ UNCHANGED timer
               ELSE Goto(c, "slot") /\ timer' = [timer EXCEPT ![c] = next]
            /\ free' = (IF next = Past THEN 0 ELSE next) + delay
    /\ UNCHANGED <<i, over, last, result, sends, held>>

\* A timer fires: of the backoff, of the slot or of Retry-After.
Wake(c) == /\ pc[c] \in Waiting /\ timer[c] = 0
           /\ Goto(c, CASE pc[c] = "backoff"    -> "throttle"
                        [] pc[c] = "slot"       -> "send"
                        [] pc[c] = "retryAfter" -> "loop")
           /\ i' = [i EXCEPT ![c] = IF pc[c] = "retryAfter" THEN @ + 1 ELSE @]
           /\ UNCHANGED <<timer, next, over, last, result, sends, free, held>>

\* <-ctx.Done() in one of the three waits.
CtxDone(c) == /\ pc[c] \in Waiting /\ over[c]
              /\ Return(c, "context")
              /\ UNCHANGED <<i, timer, next, over, last, sends, free, held>>

\* NewRequest gives an error: the URL is none. It is the same at each attempt, so the
\* first one fails, and do returns at once.
BadRequest(c) == /\ pc[c] = "send" /\ i[c] = 0
                 /\ Return(c, "request")
                 /\ UNCHANGED <<i, timer, next, over, last, sends, free, held>>

\* client.Do gives an error; with a context that is done, nothing is sent.
SendFails(c) == /\ pc[c] = "send"
                /\ sends' = [sends EXCEPT ![c] = IF over[c] THEN @ ELSE @ + 1]
                /\ last' = [last EXCEPT ![c] = "transport"]
                /\ i' = [i EXCEPT ![c] = @ + 1]
                /\ Goto(c, "loop")
                /\ UNCHANGED <<timer, next, over, result, free, held>>

\* 429 or 5xx: the wait of Retry-After, but after the last attempt.
SendRefused(c) ==
    /\ pc[c] = "send" /\ ~over[c]
    /\ sends' = [sends EXCEPT ![c] = @ + 1]
    /\ last' = [last EXCEPT ![c] = "status"]
    /\ \E wait \in RetryAfter :
          /\ held' = [held EXCEPT ![c] = wait]
          /\ IF i[c] < retries /\ wait > 0
             THEN /\ timer' = [timer EXCEPT ![c] = wait]
                  /\ Goto(c, "retryAfter")
                  /\ UNCHANGED i
             ELSE /\ i' = [i EXCEPT ![c] = @ + 1]
                  /\ Goto(c, "loop")
                  /\ UNCHANGED timer
    /\ UNCHANGED <<next, over, result, free>>

\* Every other status is the answer of do.
SendAnswered(c) == /\ pc[c] = "send" /\ ~over[c]
                   /\ sends' = [sends EXCEPT ![c] = @ + 1]
                   /\ Return(c, "response")
                   /\ UNCHANGED <<i, timer, next, over, last, free, held>>

\* The context of a call ends: the user interrupts the command.
Cancel(c) == /\ pc[c] # "idle" /\ ~over[c]
             /\ over' = [over EXCEPT ![c] = TRUE]
             /\ UNCHANGED <<pc, i, timer, next, last, result, sends, free, held>>

Down(n) == IF n > 0 THEN n - 1 ELSE 0

\* One unit of time passes.
Tick == /\ timer' = [c \in Caller |-> Down(timer[c])]
        /\ held' = [c \in Caller |-> Down(held[c])]
        /\ free' = Down(free)
        /\ next' = IF next > 0 THEN next - 1 ELSE Past
        /\ UNCHANGED <<pc, i, over, last, result, sends>>

Step(c) == \/ Loop(c) \/ Throttle(c) \/ Wake(c) \/ CtxDone(c)
           \/ BadRequest(c) \/ SendFails(c) \/ SendRefused(c) \/ SendAnswered(c)

Next == \/ \E c \in Caller : Call(c) \/ Step(c) \/ Cancel(c)
        \/ Tick

\* A goroutine that can run does, and time passes.
Fairness == /\ \A c \in Caller : WF_vars(Step(c))
            /\ WF_vars(Tick)

Spec == Init /\ [][Next]_vars /\ Fairness

----------------------------------------------------------------------------
(* Properties. *)

TypeOK ==
    /\ pc \in [Caller -> {"idle", "loop", "backoff", "throttle", "slot", "send", "retryAfter"}]
    /\ i \in [Caller -> 0 .. retries + 1]
    /\ timer \in [Caller -> Nat] /\ held \in [Caller -> Nat]
    /\ next \in Nat \cup {Past} /\ free \in Nat
    /\ over \in [Caller -> BOOLEAN]
    /\ last \in [Caller -> {"none", "transport", "status"}]
    /\ result \in [Caller -> {"none", "response", "context", "request", "transport", "status"}]
    /\ sends \in [Caller -> 0 .. retries + 1]

\* "throttle blocks until the configured minimum inter-request delay has elapsed"
\* (client.go:45): however the goroutines interleave, cancel and retry, the slot
\* a caller gets lies at least delay after the slot granted before it.
SlotsApart == [][\A c \in Caller : pc[c] = "throttle" /\ pc'[c] # "throttle"
                    => (IF pc'[c] = "slot" THEN timer'[c] ELSE 0) >= free]_vars

\* "honours the server's Retry-After" (introduction.md:77): no attempt of a call is
\* sent while the wait the server asked this call for is not over.
HonoursRetryAfter == [][\A c \in Caller : sends'[c] > sends[c] => held[c] = 0]_vars

\* A call gives up with the error of an answer or of the transport only after
\* retries + 1 requests, unless its context is done.
GivesUpAfterRetries == \A c \in Caller :
    result[c] \in {"transport", "status"} /\ ~over[c] => sends[c] = retries + 1

\* Every call returns: the slots, backoffs and waits of a call come to an end,
\* whatever the other callers do.
CallReturns == \A c \in Caller : pc[c] # "idle" ~> pc[c] = "idle"
=============================================================================
