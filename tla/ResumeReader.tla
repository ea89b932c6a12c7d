---------------------------- MODULE ResumeReader ----------------------------
(***************************************************************************)
(* resumeReader of src/wiki/dump.go: the reader under `wiki dump load` and *)
(* `wiki dump sql` of a table name, which reads a file of the dump host    *)
(* over connections that drop, and goes on at the byte it has reached. One *)
(* action is one turn of the loop in Read.                                 *)
(*                                                                         *)
(* The file is the blocks 1 .. Size; the caller reads until an error.      *)
(***************************************************************************)
EXTENDS Integers, Sequences

CONSTANTS Size,          (* blocks of the file                              *)
          streamRetries  (* the constant of the same name (5 in the source) *)

ASSUME StreamAssumption == Size \in Nat \ {0} /\ streamRetries \in Nat

VARIABLES
    off,     \* r.off
    body,    \* the blocks the open body still has, or Closed
    tries,   \* r.tries
    pc,      \* "caller" between two calls of Read, "loop" inside one
    got,     \* the blocks the caller has got
    result,  \* the error the caller has got: "none", "eof", "drop", "context",
             \* "http416", "notContinued" or "open"
    over,    \* whether the context is done
    barren   \* history: drops since the last block

vars == <<off, body, tries, pc, got, result, over, barren>>

Closed == <<0>>  \* no body; 0 is no block
Blocks(a, b) == [i \in 1 .. (IF b < a THEN 0 ELSE b - a + 1) |-> a + i - 1]

Init == /\ off = 0 /\ body = Closed /\ tries = 0
        /\ pc = "caller" /\ got = <<>> /\ result = "none"
        /\ over = FALSE /\ barren = 0

Fail(err) == result' = err /\ pc' = "caller"

----------------------------------------------------------------------------
(* Mutated forms, each a plausible bug; no specification uses them.          *)

\* The blocks that came with the error are not counted.
Drop_notCounted ==
    /\ pc = "loop" /\ body # Closed
    /\ \E n \in 0 .. Len(body) :
          /\ got' = got \o SubSeq(body, 1, n)
          /\ tries' = (IF n > 0 THEN 0 ELSE tries) + 1
          /\ barren' = (IF n > 0 THEN 0 ELSE barren) + 1
          /\ body' = Closed
          /\ IF tries' > streamRetries THEN Fail("drop")
             ELSE /\ pc' = IF n > 0 THEN "caller" ELSE "loop"
                  /\ UNCHANGED result
    /\ UNCHANGED <<off, over>>

\* The count of the tries is never reset.
Drop_noReset ==
    /\ pc = "loop" /\ body # Closed
    /\ \E n \in 0 .. Len(body) :
          /\ got' = got \o SubSeq(body, 1, n)
          /\ off' = off + n
          /\ tries' = tries + 1
          /\ barren' = (IF n > 0 THEN 0 ELSE barren) + 1
          /\ body' = Closed
          /\ IF tries' > streamRetries THEN Fail("drop")
             ELSE /\ pc' = IF n > 0 THEN "caller" ELSE "loop"
                  /\ UNCHANGED result
    /\ UNCHANGED over

\* The tries are not counted.
Drop_unbounded ==
    /\ pc = "loop" /\ body # Closed
    /\ \E n \in 0 .. Len(body) :
          /\ got' = got \o SubSeq(body, 1, n)
          /\ off' = off + n
          /\ body' = Closed
          /\ pc' = IF n > 0 THEN "caller" ELSE "loop"
    /\ UNCHANGED <<result, tries, barren, over>>

\* Every drop is taken for the end of the file.
BodyEnds_early == /\ pc = "loop" /\ body # Closed
                  /\ \E n \in 0 .. Len(body) : /\ got' = got \o SubSeq(body, 1, n)
                                               /\ off' = off + n
                  /\ body' = <<>>
                  /\ Fail("eof")
                  /\ UNCHANGED <<tries, over, barren>>

----------------------------------------------------------------------------
(* Read. *)

Call == /\ pc = "caller" /\ result = "none"
        /\ pc' = "loop"
        /\ UNCHANGED <<off, body, tries, got, result, over, barren>>

OpenFirst == /\ pc = "loop" /\ body = Closed /\ off = 0
             /\ body' = Blocks(1, Size)
             /\ UNCHANGED <<off, tries, pc, got, result, over, barren>>

\* 206: the rest of the file.
OpenRest == /\ pc = "loop" /\ body = Closed /\ off > 0 /\ off < Size
            /\ body' = Blocks(off + 1, Size)
            /\ UNCHANGED <<off, tries, pc, got, result, over, barren>>

\* The server ignores the range.
NotContinued == /\ pc = "loop" /\ body = Closed /\ off > 0
                /\ Fail("notContinued")
                /\ UNCHANGED <<off, body, tries, got, over, barren>>

\* There is nothing after the last byte.
PastEnd == /\ pc = "loop" /\ body = Closed /\ off >= Size
           /\ Fail("http416")
           /\ UNCHANGED <<off, body, tries, got, over, barren>>

\* The request fails, after the retries of the client.
OpenFails == /\ pc = "loop" /\ body = Closed
             /\ Fail("open")
             /\ UNCHANGED <<off, body, tries, got, over, barren>>

\* The body gives some blocks and no error.
SomeRead == /\ pc = "loop" /\ body # Closed
            /\ \E n \in 1 .. Len(body) :
                  /\ got' = got \o SubSeq(body, 1, n)
                  /\ body' = SubSeq(body, n + 1, Len(body))
                  /\ off' = off + n
            /\ tries' = 0 /\ barren' = 0
            /\ pc' = "caller"
            /\ UNCHANGED <<result, over>>

\* The body gives the last blocks, if any are left, and io.EOF.
BodyEnds == /\ pc = "loop" /\ body # Closed
            /\ got' = got \o body
            /\ off' = off + Len(body)
            /\ tries' = (IF Len(body) > 0 THEN 0 ELSE tries)
            /\ barren' = (IF Len(body) > 0 THEN 0 ELSE barren)
            /\ body' = <<>>
            /\ Fail("eof")
            /\ UNCHANGED over

\* The body gives some blocks or none, and an error.
Drop ==
    /\ pc = "loop" /\ body # Closed
    /\ \E n \in 0 .. Len(body) :
          /\ got' = got \o SubSeq(body, 1, n)
          /\ off' = off + n
          /\ body' = Closed
          /\ barren' = (IF n > 0 THEN 0 ELSE barren) + 1
          /\ \/ /\ over
                /\ tries' = (IF n > 0 THEN 0 ELSE tries)
                /\ Fail("context")
             \/ /\ ~over
                /\ tries' = (IF n > 0 THEN 0 ELSE tries) + 1
                /\ IF tries' > streamRetries THEN Fail("drop")
                   ELSE /\ pc' = IF n > 0 THEN "caller" ELSE "loop"
                        /\ UNCHANGED result
    /\ UNCHANGED over

Cancel == /\ ~over /\ result = "none"
          /\ over' = TRUE
          /\ UNCHANGED <<off, body, tries, pc, got, result, barren>>

Ended == pc = "caller" /\ result # "none" /\ UNCHANGED vars

Step == \/ Call \/ OpenFirst \/ OpenRest \/ NotContinued \/ PastEnd \/ OpenFails
        \/ SomeRead \/ BodyEnds \/ Drop

Next == Step \/ Cancel \/ Ended
Spec == Init /\ [][Next]_vars /\ WF_vars(Step)

----------------------------------------------------------------------------
(* Properties. *)

TypeOK == /\ off \in 0 .. Size
          /\ body = Closed \/ \E k \in 1 .. Size + 1 : body = Blocks(k, Size)
          /\ tries \in 0 .. streamRetries + 1
          /\ pc \in {"caller", "loop"}
          /\ got \in Seq(1 .. Size)
          /\ result \in {"none", "eof", "drop", "context", "http416", "notContinued", "open"}
          /\ over \in BOOLEAN /\ barren \in Nat

\* "The bytes that the caller gets are the bytes of the file" (dump.go:402): over
\* any number of connections, in order, none twice and none left out.
ExactBytes == got = Blocks(1, off)

\* The caller sees the end of the stream only after the last byte of the file: a
\* dropped connection is never taken for it.
EofMeansAll == result = "eof" => got = Blocks(1, Size)

\* The stream gives up on the drops only after the URL was opened streamRetries
\* times again with no progress (dump.go:396), and is not refused a range unless
\* the caller has the whole file.
GivesUpLate == /\ result = "drop" => barren > streamRetries
               /\ result = "http416" => got = Blocks(1, Size)

\* Whatever the connections do, the stream comes to an end.
Ends == <>(result # "none")
=============================================================================
