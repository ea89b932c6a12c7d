------------------------ MODULE ResumeReader_proofs ------------------------
(***************************************************************************)
(* Proofs about ResumeReader, for every length of the file and every       *)
(* number of retries.                                                      *)
(***************************************************************************)
EXTENDS ResumeReader, SequenceTheorems, TLAPS

\* The blocks up to the o-th, and those after it, as sequences.
LEMMA BlocksUpTo ==
    ASSUME NEW o \in 0 .. Size
    PROVE  /\ Blocks(1, o) \in Seq(1 .. Size) /\ Len(Blocks(1, o)) = o
           /\ \A i \in 1 .. o : Blocks(1, o)[i] = i
<1>1. o \in Nat /\ Size \in Nat
  BY StreamAssumption
<1>2. Blocks(1, o) = [i \in 1 .. o |-> i]
  BY <1>1 DEF Blocks
<1>3. [i \in 1 .. o |-> i] \in [1 .. o -> 1 .. Size]
  BY <1>1
<1> QED
  BY <1>1, <1>2, <1>3

\* The body of a request that asks for the file from offset o on: every block after it.
LEMMA BlocksAfter ==
    ASSUME NEW o \in 0 .. Size
    PROVE  /\ Blocks(o + 1, Size) \in Seq(1 .. Size) /\ Len(Blocks(o + 1, Size)) = Size - o
           /\ \A i \in 1 .. Size - o : Blocks(o + 1, Size)[i] = o + i
<1> DEFINE m == Size - o
<1>1. o \in Nat /\ Size \in Nat /\ m \in Nat /\ o + m = Size
  BY StreamAssumption
<1>2. Blocks(o + 1, Size) = [i \in 1 .. m |-> o + i]
  BY <1>1 DEF Blocks
<1> HIDE DEF m
<1>3. [i \in 1 .. m |-> o + i] \in [1 .. m -> 1 .. Size]
  BY <1>1
<1>4. /\ Blocks(o + 1, Size) \in Seq(1 .. Size) /\ Len(Blocks(o + 1, Size)) = m
      /\ \A i \in 1 .. m : Blocks(o + 1, Size)[i] = o + i
  BY <1>1, <1>2, <1>3
<1> QED
  BY <1>4 DEF m

\* A read of n blocks from a body that stands at offset o moves it by n: what the
\* caller has goes on, and what the body has left begins, n blocks later.
LEMMA ReadMoves ==
    ASSUME NEW o \in 0 .. Size, NEW n \in 0 .. Size - o
    PROVE  /\ o + n \in 0 .. Size
           /\ Blocks(1, o) \o SubSeq(Blocks(o + 1, Size), 1, n) = Blocks(1, o + n)
           /\ SubSeq(Blocks(o + 1, Size), n + 1, Size - o) = Blocks(o + n + 1, Size)
<1> DEFINE rest == Blocks(o + 1, Size)
           head == SubSeq(rest, 1, n)
           tail == SubSeq(rest, n + 1, Size - o)
<1>1. Size \in Nat /\ o \in Nat /\ n \in Nat /\ o + n \in 0 .. Size
  BY StreamAssumption
<1>2. /\ rest \in Seq(1 .. Size) /\ Len(rest) = Size - o
      /\ \A i \in 1 .. Size - o : rest[i] = o + i
  BY BlocksAfter
<1> HIDE DEF rest
<1>3. /\ head \in Seq(1 .. Size) /\ Len(head) = n
      /\ \A i \in 1 .. n : head[i] = o + i
  <2>1. \A i \in 1 .. n : rest[i] \in 1 .. Size /\ rest[1 + i - 1] = o + i
    BY <1>1, <1>2
  <2>2. 1 \in Int /\ n \in Int
    BY <1>1
  <2> QED
    BY <1>1, <2>1, <2>2, SubSeqProperties
<1>4. /\ tail \in Seq(1 .. Size) /\ Len(tail) = Size - (o + n)
      /\ \A i \in 1 .. Size - (o + n) : tail[i] = (o + n) + i
  <2>1. \A i \in n + 1 .. Size - o : rest[i] \in 1 .. Size
    BY <1>1, <1>2
  <2>2. \A i \in 1 .. Size - (o + n) : rest[n + 1 + i - 1] = (o + n) + i
    BY <1>1, <1>2
  <2>3. n + 1 \in Int /\ Size - o \in Int
    BY <1>1
  <2>4. /\ tail \in Seq(1 .. Size)
        /\ Len(tail) = IF n + 1 <= Size - o THEN (Size - o) - (n + 1) + 1 ELSE 0
        /\ \A i \in 1 .. (Size - o) - (n + 1) + 1 : tail[i] = rest[n + 1 + i - 1]
    BY <2>1, <2>3, SubSeqProperties
  <2> QED
    BY <1>1, <2>2, <2>4
<1> HIDE DEF head, tail
<1>5. Blocks(1, o) \o head = Blocks(1, o + n)
  <2>1. /\ Blocks(1, o) \in Seq(1 .. Size) /\ Len(Blocks(1, o)) = o
        /\ \A i \in 1 .. o : Blocks(1, o)[i] = i
    BY BlocksUpTo
  <2>2. /\ Blocks(1, o + n) \in Seq(1 .. Size) /\ Len(Blocks(1, o + n)) = o + n
        /\ \A i \in 1 .. o + n : Blocks(1, o + n)[i] = i
    BY <1>1, BlocksUpTo
  <2>3. /\ Blocks(1, o) \o head \in Seq(1 .. Size)
        /\ Len(Blocks(1, o) \o head) = o + n
        /\ \A i \in 1 .. o + n : (Blocks(1, o) \o head)[i] = i
    <3>1. /\ Blocks(1, o) \o head \in Seq(1 .. Size)
          /\ Len(Blocks(1, o) \o head) = o + n
          /\ \A i \in 1 .. o + n : (Blocks(1, o) \o head)[i] =
                   IF i <= o THEN Blocks(1, o)[i] ELSE head[i - o]
      <4>1. /\ Blocks(1, o) \o head \in Seq(1 .. Size)
            /\ Len(Blocks(1, o) \o head) = Len(Blocks(1, o)) + Len(head)
            /\ \A i \in 1 .. Len(Blocks(1, o)) + Len(head) : (Blocks(1, o) \o head)[i] =
                   IF i <= Len(Blocks(1, o)) THEN Blocks(1, o)[i] ELSE head[i - Len(Blocks(1, o))]
        <5>1. Blocks(1, o) \in Seq(1 .. Size) /\ head \in Seq(1 .. Size)
          BY <1>3, <2>1
        <5> QED
          BY ONLY <5>1, ConcatProperties, Zenon
      <4>2. Len(Blocks(1, o)) = o /\ Len(head) = n
        BY <1>3, <2>1
      <4> QED
        BY <4>1, <4>2, Zenon
    <3>2. \A i \in 1 .. o + n : ~(i <= o) => i - o \in 1 .. n /\ o + (i - o) = i
      BY <1>1
    <3>3. \A i \in 1 .. o + n : (Blocks(1, o) \o head)[i] = i
      <4> SUFFICES ASSUME NEW i \in 1 .. o + n PROVE (Blocks(1, o) \o head)[i] = i
        OBVIOUS
      <4>1. CASE i <= o
        BY <1>1, <2>1, <3>1, <4>1
      <4>2. CASE ~(i <= o)
        <5>1. (Blocks(1, o) \o head)[i] = head[i - o]
          BY <3>1, <4>2
        <5>2. head[i - o] = o + (i - o)
          BY <1>3, <3>2, <4>2
        <5> QED
          BY <3>2, <4>2, <5>1, <5>2
      <4> QED
        BY <4>1, <4>2
    <3> QED
      BY <3>1, <3>3
  <2> QED
    BY <2>2, <2>3, SeqEqual
<1>6. tail = Blocks(o + n + 1, Size)
  <2>1. /\ Blocks((o + n) + 1, Size) \in Seq(1 .. Size)
        /\ Len(Blocks((o + n) + 1, Size)) = Size - (o + n)
        /\ \A i \in 1 .. Size - (o + n) : Blocks((o + n) + 1, Size)[i] = (o + n) + i
    BY <1>1, BlocksAfter
  <2> QED
    BY <1>4, <2>1, SeqEqual
<1> QED
  BY <1>1, <1>5, <1>6 DEF head, tail, rest

----------------------------------------------------------------------------
(* The inductive invariant: the caller has the blocks up to off, an open body *)
(* stands at off, and tries counts no drop that barren does not.              *)

Counts == /\ pc = "loop" => result = "none"
          /\ result = "none" => tries <= streamRetries
          /\ tries <= barren

Reached == /\ result = "drop" => barren > streamRetries
           /\ result \in {"eof", "http416"} => off = Size

StreamInv == /\ off \in 0 .. Size
             /\ tries \in 0 .. streamRetries + 1
             /\ pc \in {"caller", "loop"}
             /\ result \in {"none", "eof", "drop", "context", "http416", "notContinued", "open"}
             /\ over \in BOOLEAN /\ barren \in Nat
             /\ ExactBytes
             /\ body # Closed => body = Blocks(off + 1, Size)
             /\ Counts
             /\ Reached

\* The invariant is preserved by every step.
THEOREM Inductive == Spec => []StreamInv
<1> USE StreamAssumption
<1>1. Init => StreamInv
  <2> SUFFICES ASSUME Init PROVE StreamInv
    OBVIOUS
  <2>1. got = Blocks(1, off)
    BY BlocksUpTo, SeqEqual, EmptySeq DEF Init
  <2>2. /\ off = 0 /\ body = Closed /\ tries = 0 /\ pc = "caller"
        /\ result = "none" /\ over = FALSE /\ barren = 0
    BY DEF Init
  <2>3. Counts /\ Reached /\ tries \in 0 .. streamRetries + 1 /\ off \in 0 .. Size
    BY <2>2 DEF Counts, Reached
  <2> QED
    BY <2>1, <2>2, <2>3 DEF StreamInv, ExactBytes
<1>2. StreamInv /\ [Next]_vars => StreamInv'
  <2> SUFFICES ASSUME StreamInv, [Next]_vars PROVE StreamInv'
    OBVIOUS
  <2> USE DEF StreamInv, ExactBytes, Counts, Reached
  <2>0. ASSUME body # Closed
        PROVE  /\ body \in Seq(1 .. Size) /\ Len(body) = Size - off
               /\ \A n \in 0 .. Len(body) :
                     /\ off + n \in 0 .. Size
                     /\ got \o SubSeq(body, 1, n) = Blocks(1, off + n)
                     /\ SubSeq(body, n + 1, Len(body)) = Blocks(off + n + 1, Size)
    <3>1. body = Blocks(off + 1, Size)
      BY <2>0
    <3>2. body \in Seq(1 .. Size) /\ Len(body) = Size - off
      BY <3>1, BlocksAfter
    <3>3. ASSUME NEW n \in 0 .. Len(body)
          PROVE  /\ off + n \in 0 .. Size
                 /\ got \o SubSeq(body, 1, n) = Blocks(1, off + n)
                 /\ SubSeq(body, n + 1, Len(body)) = Blocks(off + n + 1, Size)
      BY <3>1, <3>2, ReadMoves
    <3> QED
      BY <3>2, <3>3
  <2>1. CASE Call
    BY <2>1 DEF Call
  <2>2. CASE OpenFirst
    BY <2>2 DEF OpenFirst
  <2>3. CASE OpenRest
    BY <2>3 DEF OpenRest
  <2>4. CASE NotContinued
    BY <2>4 DEF NotContinued, Fail
  <2>5. CASE PastEnd
    BY <2>5 DEF PastEnd, Fail
  <2>6. CASE OpenFails
    BY <2>6 DEF OpenFails, Fail
  <2>7. CASE SomeRead
    <3>1. PICK n \in 1 .. Len(body) : /\ got' = got \o SubSeq(body, 1, n)
                                      /\ body' = SubSeq(body, n + 1, Len(body))
                                      /\ off' = off + n
      BY <2>7 DEF SomeRead
    <3>2. body # Closed /\ n \in 0 .. Len(body)
      BY <2>0, <2>7, <3>1 DEF SomeRead
    <3>3. /\ off' \in 0 .. Size /\ got' = Blocks(1, off')
          /\ body' = Blocks(off' + 1, Size)
      BY <2>0, <3>2, <3>1
    <3> QED
      BY <2>7, <3>3 DEF SomeRead
  <2>8. CASE BodyEnds
    <3>1. /\ body # Closed /\ got' = got \o body /\ off' = off + Len(body)
      BY <2>8 DEF BodyEnds
    <3>2. SubSeq(body, 1, Len(body)) = body /\ Len(body) \in 0 .. Len(body)
      BY <2>0, <3>1, SubSeqFull
    <3>3. off + Len(body) = Size /\ got \o body = Blocks(1, off + Len(body))
      <4>1. off + Len(body) = Size
        BY <2>0, <3>1
      <4>2. got \o SubSeq(body, 1, Len(body)) = Blocks(1, off + Len(body))
        BY <2>0, <3>1, <3>2
      <4> QED
        BY <3>2, <4>1, <4>2
    <3>4. off' = Size /\ got' = Blocks(1, Size)
      BY <3>1, <3>3
    <3>5. Blocks(Size + 1, Size) = <<>>
      BY BlocksAfter, EmptySeq
    <3> QED
      BY <2>8, <3>4, <3>5 DEF BodyEnds, Fail
  <2>9. CASE Drop
    <3>1. PICK n \in 0 .. Len(body) :
             /\ got' = got \o SubSeq(body, 1, n)
             /\ off' = off + n
             /\ body' = Closed
             /\ barren' = (IF n > 0 THEN 0 ELSE barren) + 1
             /\ \/ /\ tries' = (IF n > 0 THEN 0 ELSE tries)
                   /\ Fail("context")
                \/ /\ tries' = (IF n > 0 THEN 0 ELSE tries) + 1
                   /\ IF tries' > streamRetries THEN Fail("drop")
                      ELSE /\ pc' = IF n > 0 THEN "caller" ELSE "loop"
                           /\ UNCHANGED result
      BY <2>9 DEF Drop
    <3>2. body # Closed
      BY <2>9 DEF Drop
    <3>3. off' \in 0 .. Size /\ got' = Blocks(1, off')
      BY <2>0, <3>2, <3>1
    <3>4. result = "none" /\ tries <= streamRetries /\ over' = over
      BY <2>9 DEF Drop
    <3>5. /\ tries' \in 0 .. streamRetries + 1 /\ barren' \in Nat /\ tries' <= barren'
          /\ result' \in {"none", "context", "drop"} /\ pc' \in {"caller", "loop"}
          /\ result' = "none" => tries' <= streamRetries
          /\ result' = "drop" => tries' > streamRetries
          /\ pc' = "loop" => result' = "none"
      BY <3>1, <3>4 DEF Fail
    <3>6. body' = Closed
      BY <3>1
    <3>7. ExactBytes' /\ (body # Closed => body = Blocks(off + 1, Size))'
      BY <3>3, <3>6
    <3>8. Counts'
      BY <3>5
    <3>9. Reached'
      BY <3>5
    <3> HIDE DEF ExactBytes, Counts, Reached
    <3> QED
      BY <3>3, <3>4, <3>5, <3>7, <3>8, <3>9
  <2>10. CASE Cancel
    BY <2>10 DEF Cancel
  <2>11. CASE UNCHANGED vars
    BY <2>11 DEF vars
  <2> QED
    BY <2>1, <2>2, <2>3, <2>4, <2>5, <2>6, <2>7, <2>8, <2>9, <2>10, <2>11
       DEF Next, Step, Ended
<1> QED
  BY <1>1, <1>2, PTL DEF Spec

\* Types: every variable keeps its type; an open body is an end of the file.
THEOREM TypeCorrect == Spec => []TypeOK
<1>1. StreamInv => TypeOK
  <2> SUFFICES ASSUME StreamInv PROVE TypeOK
    OBVIOUS
  <2>1. got \in Seq(1 .. Size)
    BY StreamAssumption, BlocksUpTo DEF StreamInv, ExactBytes
  <2>2. off + 1 \in 1 .. Size + 1
    BY StreamAssumption DEF StreamInv
  <2> QED
    BY <2>1, <2>2 DEF StreamInv, TypeOK
<1> QED
  BY <1>1, Inductive, PTL

\* "The bytes that the caller gets are the bytes of the file" (dump.go:402).
THEOREM StreamIsExact == Spec => []ExactBytes
<1>1. StreamInv => ExactBytes
  BY DEF StreamInv
<1> QED
  BY <1>1, Inductive, PTL

\* A dropped connection is never taken for the end of the file.
THEOREM EndIsTheEnd == Spec => []EofMeansAll
<1>1. StreamInv => EofMeansAll
  BY DEF StreamInv, EofMeansAll, ExactBytes, Reached
<1> QED
  BY <1>1, Inductive, PTL

\* A stream that gives up has met more than streamRetries drops in a row, or has
\* nothing left to read.
THEOREM GivesUpOnlyLate == Spec => []GivesUpLate
<1>1. StreamInv => GivesUpLate
  BY DEF StreamInv, GivesUpLate, ExactBytes, Reached
<1> QED
  BY <1>1, Inductive, PTL
============================================================================
