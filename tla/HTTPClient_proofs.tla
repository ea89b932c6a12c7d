------------------------- MODULE HTTPClient_proofs -------------------------
(***************************************************************************)
(* Proofs about HTTPClient, for every set of callers, number of retries,   *)
(* delay and values of Retry-After.                                        *)
(***************************************************************************)
EXTENDS HTTPClient, TLAPS

\* The backoff before an attempt is a length of time.
LEMMA BackoffIsTime == ASSUME NEW n \in Nat PROVE delay * (n * n + 1) \in Nat
<1>1. n * n \in Nat /\ delay \in Nat
  BY ClientAssumption
<1>2. n * n + 1 \in Nat
  BY <1>1
<1> QED
  BY <1>1, <1>2

----------------------------------------------------------------------------
(* The inductive invariant. *)

\* The slot after the last one granted is the one h.next stands for; with no delay
\* there are no slots.
NextIsFree == /\ free = IF next = Past THEN 0 ELSE next
              /\ delay = 0 => next = Past

\* Between the attempts a call has sent one request for each of them, unless its
\* context is done; it waits for a server's Retry-After with the timer of its own.
Attempts(c) ==
    /\ pc[c] \notin {"idle", "loop"} => i[c] <= retries
    /\ pc[c] # "idle" => sends[c] <= i[c] + (IF pc[c] = "retryAfter" THEN 1 ELSE 0)
    /\ pc[c] # "idle" /\ ~over[c] => sends[c] = i[c] + (IF pc[c] = "retryAfter" THEN 1 ELSE 0)
    /\ result[c] \in {"transport", "status"} /\ ~over[c] => sends[c] = retries + 1
    /\ pc[c] # "idle" => result[c] = "none"

Held(c) ==
    /\ pc[c] = "retryAfter" => timer[c] = held[c]
    /\ pc[c] \in {"backoff", "throttle", "slot", "send"} => held[c] = 0
    /\ pc[c] = "loop" /\ i[c] <= retries => held[c] = 0

ClientInv == /\ TypeOK
             /\ NextIsFree
             /\ \A c \in Caller : Attempts(c) /\ Held(c)

\* The invariant is preserved by every step.
THEOREM Inductive == Spec => []ClientInv
<1> USE ClientAssumption DEF ClientInv, Past
<1>1. Init => ClientInv
  BY DEF Init, TypeOK, NextIsFree, Attempts, Held
<1>2. ClientInv /\ [Next]_vars => ClientInv'
  <2> SUFFICES ASSUME ClientInv, [Next]_vars PROVE ClientInv'
    OBVIOUS
  <2>1. ASSUME NEW c \in Caller, Call(c) PROVE ClientInv'
    <3>1. TypeOK' /\ NextIsFree'
      BY <2>1 DEF Call, Goto, TypeOK, NextIsFree
    <3>2. ASSUME NEW d \in Caller PROVE Attempts(d)' /\ Held(d)'
      BY <2>1 DEF Call, Goto, TypeOK, Attempts, Held
    <3> QED
      BY <3>1, <3>2
  <2>2. ASSUME NEW c \in Caller, Loop(c) PROVE ClientInv'
    <3> DEFINE wait == delay * (i[c] * i[c] + 1)
    <3>1. wait \in Nat
      <4>1. i[c] \in Nat
        BY DEF TypeOK
      <4> QED
        BY <4>1, BackoffIsTime
    <3>2. /\ \/ pc' = [pc EXCEPT ![c] = "backoff"] /\ UNCHANGED result
             \/ pc' = [pc EXCEPT ![c] = "throttle"] /\ UNCHANGED result
             \/ pc' = [pc EXCEPT ![c] = "idle"] /\ result' = [result EXCEPT ![c] = last[c]]
          /\ UNCHANGED <<i, next, over, last, sends, free, held>>
      BY <2>2, Zenon DEF Loop, Goto, Return
    <3>3. TypeOK' /\ NextIsFree'
      <4>1. timer' = timer \/ timer' = [timer EXCEPT ![c] = wait]
        BY <2>2, Zenon DEF Loop
      <4> HIDE DEF wait
      <4>2. timer' \in [Caller -> Nat]
        BY <3>1, <4>1 DEF TypeOK
      <4> QED
        BY <3>2, <4>2 DEF TypeOK, NextIsFree
    <3> HIDE DEF wait
    <3>4. ASSUME NEW d \in Caller PROVE Attempts(d)' /\ Held(d)'
      <4>1. CASE d # c
        <5>1. /\ pc'[d] = pc[d] /\ result'[d] = result[d] /\ timer'[d] = timer[d]
              /\ UNCHANGED <<i, sends, over, held>>
          BY <2>2, <3>2, <4>1 DEF Loop, TypeOK
        <5> QED
          BY <5>1 DEF Attempts, Held
      <4>2. CASE d = c /\ i[c] > retries
        <5>1. i[c] = retries + 1 /\ pc[c] = "loop"
          BY <2>2, <4>2 DEF Loop, TypeOK
        <5>2. pc'[c] = "idle" /\ UNCHANGED <<i, sends, over, held>>
          BY <2>2, <4>2 DEF Loop, Goto, Return, TypeOK
        <5> QED
          BY <4>2, <5>1, <5>2 DEF TypeOK, Attempts, Held
      <4>3. CASE d = c /\ i[c] <= retries
        <5>1. /\ pc[c] = "loop" /\ pc'[c] \in {"backoff", "throttle"}
              /\ UNCHANGED <<i, sends, over, held, result>>
          BY <2>2, <4>3 DEF Loop, Goto, Return, TypeOK
        <5> QED
          BY <4>3, <5>1 DEF TypeOK, Attempts, Held
      <4> QED
        BY <4>1, <4>2, <4>3 DEF TypeOK
    <3> QED
      BY <3>3, <3>4
  <2>3. ASSUME NEW c \in Caller, Throttle(c) PROVE ClientInv'
    <3>1. TypeOK' /\ NextIsFree'
      BY <2>3 DEF Throttle, Goto, TypeOK, NextIsFree
    <3>2. ASSUME NEW d \in Caller PROVE Attempts(d)' /\ Held(d)'
      BY <2>3 DEF Throttle, Goto, TypeOK, Attempts, Held
    <3> QED
      BY <3>1, <3>2
  <2>4. ASSUME NEW c \in Caller, Wake(c) PROVE ClientInv'
    <3>1. TypeOK' /\ NextIsFree'
      BY <2>4 DEF Wake, Goto, Waiting, TypeOK, NextIsFree, Attempts
    <3>2. ASSUME NEW d \in Caller PROVE Attempts(d)' /\ Held(d)'
      BY <2>4 DEF Wake, Goto, Waiting, TypeOK, Attempts, Held
    <3> QED
      BY <3>1, <3>2
  <2>5. ASSUME NEW c \in Caller, CtxDone(c) PROVE ClientInv'
    <3>1. TypeOK' /\ NextIsFree'
      BY <2>5 DEF CtxDone, Goto, Return, TypeOK, NextIsFree
    <3>2. ASSUME NEW d \in Caller PROVE Attempts(d)' /\ Held(d)'
      BY <2>5 DEF CtxDone, Goto, Return, TypeOK, Attempts, Held
    <3> QED
      BY <3>1, <3>2
  <2>6. ASSUME NEW c \in Caller, SendFails(c) PROVE ClientInv'
    <3>1. TypeOK' /\ NextIsFree'
      BY <2>6 DEF SendFails, Goto, TypeOK, NextIsFree, Attempts
    <3>2. ASSUME NEW d \in Caller PROVE Attempts(d)' /\ Held(d)'
      BY <2>6 DEF SendFails, Goto, TypeOK, Attempts, Held
    <3> QED
      BY <3>1, <3>2
  <2>7. ASSUME NEW c \in Caller, SendRefused(c) PROVE ClientInv'
    <3>1. TypeOK' /\ NextIsFree'
      BY <2>7 DEF SendRefused, Goto, TypeOK, NextIsFree, Attempts
    <3>2. ASSUME NEW d \in Caller PROVE Attempts(d)' /\ Held(d)'
      BY <2>7 DEF SendRefused, Goto, TypeOK, Attempts, Held
    <3> QED
      BY <3>1, <3>2
  <2>8. ASSUME NEW c \in Caller, SendAnswered(c) PROVE ClientInv'
    <3>1. TypeOK' /\ NextIsFree'
      BY <2>8 DEF SendAnswered, Goto, Return, TypeOK, NextIsFree, Attempts
    <3>2. ASSUME NEW d \in Caller PROVE Attempts(d)' /\ Held(d)'
      BY <2>8 DEF SendAnswered, Goto, Return, TypeOK, Attempts, Held
    <3> QED
      BY <3>1, <3>2
  <2>9. ASSUME NEW c \in Caller, Cancel(c) PROVE ClientInv'
    <3>1. TypeOK' /\ NextIsFree'
      BY <2>9 DEF Cancel, TypeOK, NextIsFree
    <3>2. ASSUME NEW d \in Caller PROVE Attempts(d)' /\ Held(d)'
      BY <2>9 DEF Cancel, TypeOK, Attempts, Held
    <3> QED
      BY <3>1, <3>2
  <2>10. CASE Tick
    <3>1. TypeOK' /\ NextIsFree'
      BY <2>10 DEF Tick, Down, TypeOK, NextIsFree
    <3>2. ASSUME NEW d \in Caller PROVE Attempts(d)' /\ Held(d)'
      BY <2>10 DEF Tick, Down, TypeOK, Attempts, Held
    <3> QED
      BY <3>1, <3>2
  <2>11. ASSUME NEW c \in Caller, BadRequest(c) PROVE ClientInv'
    <3>1. TypeOK' /\ NextIsFree'
      BY <2>11 DEF BadRequest, Goto, Return, TypeOK, NextIsFree
    <3>2. ASSUME NEW d \in Caller PROVE Attempts(d)' /\ Held(d)'
      BY <2>11 DEF BadRequest, Goto, Return, TypeOK, Attempts, Held
    <3> QED
      BY <3>1, <3>2
  <2>12. CASE UNCHANGED vars
    BY <2>12 DEF vars, callVars, TypeOK, NextIsFree, Attempts, Held
  <2> QED
    BY <2>1, <2>2, <2>3, <2>4, <2>5, <2>6, <2>7, <2>8, <2>9, <2>10, <2>11, <2>12
       DEF Next, Step
<1> QED
  BY <1>1, <1>2, PTL DEF Spec

\* Types: every variable keeps its type, and no call makes more attempts than its
\* retries allow.
THEOREM TypeCorrect == Spec => []TypeOK
<1>1. ClientInv => TypeOK
  BY DEF ClientInv
<1> QED
  BY <1>1, Inductive, PTL

\* A call fails with the error of an attempt only after all its attempts.
THEOREM AllAttemptsAreMade == Spec => []GivesUpAfterRetries
<1>1. ClientInv => GivesUpAfterRetries
  BY DEF ClientInv, GivesUpAfterRetries, Attempts
<1> QED
  BY <1>1, Inductive, PTL

\* The slots that throttle grants lie at least delay apart.
THEOREM RateIsKept == Spec => SlotsApart
<1> DEFINE Apart(c) == pc[c] = "throttle" /\ pc'[c] # "throttle"
                          => (IF pc'[c] = "slot" THEN timer'[c] ELSE 0) >= free
<1>1. ClientInv /\ [Next]_vars => [\A c \in Caller : Apart(c)]_vars
  <2> SUFFICES ASSUME ClientInv, Next, NEW c \in Caller, pc[c] = "throttle", pc'[c] # "throttle"
               PROVE  (IF pc'[c] = "slot" THEN timer'[c] ELSE 0) >= free
    BY DEF vars, callVars
  <2> USE ClientAssumption DEF ClientInv, TypeOK, Past, Goto, Return, Waiting
  <2>1. ~Tick /\ \A d \in Caller : ~Cancel(d)
    BY DEF Tick, Cancel
  <2>2. ASSUME NEW d \in Caller, Call(d) \/ Step(d), ~Throttle(d) PROVE FALSE
    BY <2>2
       DEF Call, Step, Loop, Wake, CtxDone, BadRequest, SendFails, SendRefused, SendAnswered
  <2>3. Throttle(c)
    <3>1. PICK d \in Caller : Throttle(d)
      BY <2>1, <2>2 DEF Next
    <3> QED
      BY <3>1 DEF Throttle
  <2> QED
    BY <2>3 DEF Throttle, NextIsFree
<1> QED
  BY <1>1, Inductive, PTL DEF Spec, SlotsApart

\* No request leaves before the wait that the server asked this call for is over.
THEOREM RetryAfterIsHonoured == Spec => HonoursRetryAfter
<1> DEFINE Honours(c) == sends'[c] > sends[c] => held[c] = 0
<1>1. ClientInv /\ [Next]_vars => [\A c \in Caller : Honours(c)]_vars
  <2> SUFFICES ASSUME ClientInv, Next, NEW c \in Caller, sends'[c] > sends[c]
               PROVE  held[c] = 0
    BY DEF vars, callVars
  <2> USE DEF ClientInv, TypeOK, Goto, Return
  <2>1. ~Tick /\ \A d \in Caller : ~Cancel(d)
    BY DEF Tick, Cancel
  <2>2. ASSUME NEW d \in Caller, Call(d) \/ Step(d) PROVE d = c /\ pc[c] = "send"
    BY ClientAssumption, <2>2
       DEF Call, Step, Loop, Throttle, Wake, CtxDone, BadRequest,
           SendFails, SendRefused, SendAnswered
  <2>3. pc[c] = "send"
    BY <2>1, <2>2 DEF Next
  <2> QED
    BY <2>3 DEF Held
<1> QED
  BY <1>1, Inductive, PTL DEF Spec, HonoursRetryAfter
============================================================================
