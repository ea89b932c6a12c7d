---------------------------- MODULE OrderedRead ----------------------------
(***************************************************************************)
(* What ReadPages promises its caller, with no goroutine and no channel:   *)
(* fn is called with the wanted pages one after the other in the order of  *)
(* the dump, an error of fn ends the calls, an error of a stream ends them *)
(* after the pages of the streams before it, and the read then returns.    *)
(***************************************************************************)
EXTENDS DumpOrder

VARIABLES calls,    \* the positions fn was called with, in the order of the calls
          err,      \* the error the read met: "none", "open", "stream" or "fn"
          returned  \* whether ReadPages has returned err to its caller

vars == <<calls, err, returned>>

Called == {calls[i] : i \in DOMAIN calls}

\* Every wanted page of the streams before s, and of no other stream, is called.
CalledUpTo(s) == Called = {p \in WantedPosition : p[1] < s}

Init == /\ calls = <<>>
        /\ err = "none"
        /\ returned = FALSE

\* The dump cannot be opened, which is all that ReadPages then says.
OpenFails == /\ calls = <<>> /\ err = "none" /\ ~returned
             /\ err' = "open"
             /\ returned' = TRUE
             /\ UNCHANGED calls

\* fn is called with the first wanted page it has not seen.
CallFn == /\ err = "none" /\ ~returned
          /\ \E p \in WantedPosition :
                /\ Called = {q \in WantedPosition : Before(q, p)}
                /\ calls' = Append(calls, p)
          /\ err' \in {"none", "fn"}
          /\ UNCHANGED returned

StreamFails == /\ err = "none" /\ ~returned
               /\ \E s \in Stream : CalledUpTo(s)
               /\ err' = "stream"
               /\ UNCHANGED <<calls, returned>>

Return == /\ ~returned
          /\ err # "none" \/ CalledUpTo(NumStreams + 1)
          /\ returned' = TRUE
          /\ UNCHANGED <<calls, err>>

Next == OpenFails \/ CallFn \/ StreamFails \/ Return

SafeSpec == Init /\ [][Next]_vars
Spec == SafeSpec /\ WF_vars(Return) /\ WF_vars(CallFn)
============================================================================
