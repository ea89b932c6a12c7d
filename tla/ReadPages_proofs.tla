-------------------------- MODULE ReadPages_proofs --------------------------
(***************************************************************************)
(* Proofs about ReadPages, for every number of streams and of workers,     *)
(* every content of the streams and every set of wanted pages.             *)
(***************************************************************************)
EXTENDS ReadPages, FiniteSetTheorems, TLAPS

\* The constants as the proofs use them: there is a worker, and streams are numbers
\* that hold pages.
LEMMA Constants == /\ NumStreams \in Nat
                   /\ NumWorkers \in Nat \ {0}
                   /\ 1 \in Worker
                   /\ \A s \in Stream : s \in Nat \ {0} /\ Pages[s] \in Seq(PageID)
<1>1. NumStreams \in Nat /\ Pages \in [Stream -> Seq(PageID)]
  BY DumpAssumption
<1>2. NumWorkers \in Nat \ {0}
  BY WorkersAssumption DEF NumWorkers
<1>3. 1 \in Worker
  BY <1>2 DEF Worker
<1> QED
  BY <1>1, <1>2, <1>3 DEF Stream

\* What receiving from a channel leaves in it.
LEMMA ReceiveFrom == ASSUME NEW S, NEW q \in Seq(S), q # <<>>
                     PROVE  /\ Head(q) \in S /\ Head(q) = q[1] /\ 1 \in DOMAIN q
                            /\ Tail(q) \in Seq(S) /\ Len(Tail(q)) = Len(q) - 1
                            /\ \A i \in DOMAIN Tail(q) : i + 1 \in DOMAIN q /\ Tail(q)[i] = q[i + 1]
OBVIOUS

\* A channel of length 0 is empty.
LEMMA EmptyChannel == ASSUME NEW S, NEW q \in Seq(S), Len(q) = 0
                      PROVE  q = <<>>
OBVIOUS

\* What sending to a channel adds to it.
LEMMA SendTo == ASSUME NEW S, NEW q \in Seq(S), NEW e \in S
                PROVE  /\ Len(Append(q, e)) = Len(q) + 1
                       /\ \A i \in DOMAIN q : Append(q, e)[i] = q[i]
                       /\ \A i \in DOMAIN Append(q, e) :
                            i \in DOMAIN q \/ (i = Len(q) + 1 /\ Append(q, e)[i] = e)
OBVIOUS

\* A page of a stream is a position of the dump.
LEMMA PositionOf == ASSUME NEW s \in Stream, NEW k \in 1 .. Len(Pages[s])
                   PROVE  <<s, k>> \in Position
BY DEF Position

----------------------------------------------------------------------------
(* Types. TypeOK alone is not inductive: that fn is called with a page of the *)
(* dump rests on each result standing in the channel of its own stream.       *)

Typed == TypeOK /\ OwnChannel

\* Every variable keeps its type and each channel carries only its own stream's
\* results, in every reachable state.
LEMMA TypedInv == Spec => []Typed
<1> USE Constants DEF Typed, TypeOK, OwnChannel
<1>1. Init => Typed
  <2> SUFFICES ASSUME Init PROVE Typed
    OBVIOUS
  <2>1. /\ cur \in 0 .. NumStreams /\ fed \in 1 .. NumStreams + 1
        /\ job \in [Worker -> 0 .. NumStreams]
        /\ out \in [Stream -> Seq(Result)] /\ got \in [Worker -> Result \cup {None}]
        /\ wpc \in [Worker -> {"off", "idle", "read", "send", "exited"}]
        /\ calls \in Seq(Position) /\ queue \in Seq(Stream) /\ r \in Result \cup {None}
    BY DEF Init
  <2> HIDE DEF OwnChannel
  <2> HIDE DEF TypeOK
  <2>2. caller = "open" /\ at \in Nat \ {0} /\ err = "none" /\ feeder = "off"
    BY DEF Init
  <2>4. file = FALSE /\ queueClosed = FALSE /\ jobsClosed = FALSE /\ done = FALSE
    BY DEF Init
  <2>5. TypeOK
    BY <2>1, <2>2, <2>4 DEF TypeOK
  <2>3. OwnChannel
    BY DEF Init, OwnChannel
  <2> QED
    BY <2>3, <2>5
<1>2. Typed /\ [Next]_vars => Typed'
  <2> SUFFICES ASSUME Typed, [Next]_vars PROVE Typed'
    OBVIOUS
  <2> USE DEF vars, callerVars, feederVars, workerVars, chanVars
  <2>1. CASE OpenDump
    BY <2>1 DEF OpenDump
  <2>2. CASE OpenFails
    BY <2>2 DEF OpenFails
  <2>3. CASE TakeOut
    <3>1. Head(queue) \in Stream /\ Tail(queue) \in Seq(Stream)
      BY <2>3, ReceiveFrom DEF TakeOut
    <3>2. cur' \in Stream /\ cur' \in 0 .. NumStreams
      BY <2>3, <3>1 DEF TakeOut, Stream
    <3> QED
      BY <2>3, <3>1, <3>2 DEF TakeOut
  <2>4. CASE QueueEnds
    BY <2>4 DEF QueueEnds
  <2>5. CASE Receive
    <3>1. cur \in Stream /\ out[cur] \in Seq(Result) /\ out[cur] # <<>>
      BY <2>5 DEF Receive
    <3>2. /\ r' \in Result /\ r'.of = cur
          /\ Tail(out[cur]) \in Seq(Result)
          /\ \A i \in DOMAIN Tail(out[cur]) : Tail(out[cur])[i].of = cur
      BY <2>5, <3>1, ReceiveFrom DEF Receive
    <3>3. at' = 1 /\ 1 <= Len(Pages[cur]) + 1
      BY <2>5, <3>1 DEF Receive
    <3>4. out' \in [Stream -> Seq(Result)]
      BY <2>5, <3>2 DEF Receive
    <3>5. \A s \in Stream : \A i \in DOMAIN out'[s] : out'[s][i].of = s
      BY <2>5, <3>1, <3>2 DEF Receive
    <3>6. TypeOK'
      BY <2>5, <3>2, <3>3, <3>4 DEF Receive
    <3>7. OwnChannel'
      BY <2>5, <3>2, <3>3, <3>5 DEF Receive
    <3> QED
      BY <3>6, <3>7
  <2>6. CASE SkipPage
    BY <2>6 DEF SkipPage
  <2>7. CASE CallFn
    <3>1. r.of \in Stream /\ r.of = cur /\ at \in 1 .. Len(Pages[r.of])
      BY <2>7 DEF CallFn
    <3>2. <<r.of, at>> \in Position
      BY <3>1, PositionOf
    <3>3. calls' \in Seq(Position)
      BY <2>7, <3>2 DEF CallFn
    <3>4. at \in Nat \ {0} /\ at <= Len(Pages[cur]) /\ Len(Pages[cur]) \in Nat
      BY <3>1, Constants, DumpAssumption
    <3>5. at' \in Nat \ {0} /\ at' <= Len(Pages[cur]) + 1
      BY <2>7, <3>4 DEF CallFn
    <3>6. TypeOK'
      BY <2>7, <3>3, <3>5 DEF CallFn
    <3>7. OwnChannel'
      BY <2>7, <3>5 DEF CallFn
    <3> QED
      BY <3>6, <3>7
  <2>8. CASE PagesEnd
    BY <2>8 DEF PagesEnd
  <2>9. CASE Stop
    BY <2>9 DEF Stop
  <2>10. CASE Drain
    <3>1. queue' = queue \/ (queue # <<>> /\ queue' = Tail(queue))
      BY <2>10 DEF Drain
    <3>2. ASSUME queue # <<>> PROVE Tail(queue) \in Seq(Stream)
      BY <3>2, ReceiveFrom
    <3>3. queue' \in Seq(Stream)
      BY <3>1, <3>2
    <3> QED
      BY <2>10, <3>3 DEF Drain
  <2>11. CASE Wait
    BY <2>11 DEF Wait
  <2>12. CASE Close
    BY <2>12 DEF Close
  <2>13. CASE Enqueue
    BY <2>13 DEF Enqueue, Stream
  <2>14. ASSUME NEW w \in Worker, HandOff(w) PROVE Typed'
    BY <2>14 DEF HandOff, Stream
  <2>15. CASE LeaveLoop
    BY <2>15 DEF LeaveLoop
  <2>16. CASE CloseQueue
    BY <2>16 DEF CloseQueue
  <2>17. CASE CloseJobs
    BY <2>17 DEF CloseJobs
  <2>18. ASSUME NEW w \in Worker, ReadStream(w) PROVE Typed'
    <3>1. PICK ok \in BOOLEAN : got' = [got EXCEPT ![w] = [of |-> job[w], ok |-> ok]]
      BY <2>18 DEF ReadStream
    <3>2. job[w] \in Stream /\ [of |-> job[w], ok |-> ok] \in Result
      BY <2>18 DEF ReadStream, Result
    <3>3. got' \in [Worker -> Result \cup {None}] /\ wpc'[w] = "send"
      BY <2>18, <3>1, <3>2 DEF ReadStream
    <3>4. TypeOK'
      BY <2>18, <3>3 DEF ReadStream
    <3>5. got'[w] \in Result /\ got'[w].of = job[w]
      BY <3>1, <3>2
    <3>6. \A v \in Worker : v # w => got'[v] = got[v] /\ wpc'[v] = wpc[v]
      BY <2>18, <3>1 DEF ReadStream
    <3>7. OwnChannel'
      BY <2>18, <3>5, <3>6 DEF ReadStream
    <3> QED
      BY <3>4, <3>7
  <2>19. ASSUME NEW w \in Worker, SendResult(w) PROVE Typed'
    BY <2>19 DEF SendResult
  <2>20. ASSUME NEW w \in Worker, WorkerExits(w) PROVE Typed'
    BY <2>20 DEF WorkerExits
  <2>21. CASE UNCHANGED vars
    BY <2>21
  <2> QED
    BY <2>1, <2>2, <2>3, <2>4, <2>5, <2>6, <2>7, <2>8, <2>9, <2>10, <2>11, <2>12, <2>13,
       <2>14, <2>15, <2>16, <2>17, <2>18, <2>19, <2>20, <2>21
    DEF Next, Caller, Feeder, WorkerStep, Terminated
<1>3. QED
  BY <1>1, <1>2, PTL DEF Spec

\* Every variable keeps its type: the values of the channels, the places of the
\* goroutines, and the calls of fn, each with a page that is in the dump.
THEOREM TypeCorrect == Spec => []TypeOK
<1>1. Typed => TypeOK
  BY DEF Typed
<1> QED
  BY <1>1, TypedInv, PTL

----------------------------------------------------------------------------
(* Which goroutines are alive and which channels are closed at each place of *)
(* the caller.                                                               *)

LEMMA LifecycleInv == Spec => []Lifecycle
<1> USE Constants DEF Lifecycle, Reading
<1>1. Init => Lifecycle
  BY DEF Init
<1>2. TypeOK /\ Lifecycle /\ [Next]_vars => Lifecycle'
  <2> SUFFICES ASSUME TypeOK, Lifecycle, [Next]_vars PROVE Lifecycle'
    OBVIOUS
  <2> USE DEF TypeOK, vars, callerVars, feederVars, workerVars, chanVars
  <2>1. CASE OpenDump
    BY <2>1 DEF OpenDump
  <2>2. CASE OpenFails
    BY <2>2 DEF OpenFails
  <2>3. CASE TakeOut
    BY <2>3 DEF TakeOut
  <2>4. CASE QueueEnds
    BY <2>4 DEF QueueEnds
  <2>5. CASE Receive
    BY <2>5 DEF Receive
  <2>6. CASE SkipPage
    BY <2>6 DEF SkipPage
  <2>7. CASE CallFn
    BY <2>7 DEF CallFn
  <2>8. CASE PagesEnd
    BY <2>8 DEF PagesEnd
  <2>9. CASE Stop
    BY <2>9 DEF Stop
  <2>10. CASE Drain
    BY <2>10 DEF Drain
  <2>11. CASE Wait
    BY <2>11 DEF Wait
  <2>12. CASE Close
    BY <2>12 DEF Close
  <2>13. CASE Enqueue
    BY <2>13 DEF Enqueue
  <2>14. ASSUME NEW w \in Worker, HandOff(w) PROVE Lifecycle'
    BY <2>14 DEF HandOff
  <2>15. CASE LeaveLoop
    BY <2>15 DEF LeaveLoop
  <2>16. CASE CloseQueue
    BY <2>16 DEF CloseQueue
  <2>17. CASE CloseJobs
    BY <2>17 DEF CloseJobs
  <2>18. ASSUME NEW w \in Worker, ReadStream(w) PROVE Lifecycle'
    BY <2>18 DEF ReadStream
  <2>19. ASSUME NEW w \in Worker, SendResult(w) PROVE Lifecycle'
    BY <2>19 DEF SendResult
  <2>20. ASSUME NEW w \in Worker, WorkerExits(w) PROVE Lifecycle'
    BY <2>20 DEF WorkerExits
  <2>21. CASE UNCHANGED vars
    BY <2>21
  <2> QED
    BY <2>1, <2>2, <2>3, <2>4, <2>5, <2>6, <2>7, <2>8, <2>9, <2>10, <2>11, <2>12,
       <2>13, <2>14, <2>15, <2>16, <2>17, <2>18, <2>19, <2>20, <2>21
    DEF Next, Caller, Feeder, WorkerStep, Terminated
<1>3. QED
  BY <1>1, <1>2, TypeCorrect, PTL DEF Spec

----------------------------------------------------------------------------
(* The queue holds the streams after the one the caller is at, in order.     *)

LEMMA FedInOrderInv == Spec => []FedInOrder
<1> USE Constants DEF FedInOrder, Reading
<1>1. Init => FedInOrder
  BY DEF Init
<1>2. Typed /\ Lifecycle /\ FedInOrder /\ [Next]_vars => FedInOrder'
  <2> SUFFICES ASSUME Typed, Lifecycle, FedInOrder, [Next]_vars PROVE FedInOrder'
    OBVIOUS
  <2> USE DEF Typed, TypeOK, vars, callerVars, feederVars, workerVars, chanVars
  <2>1. CASE OpenDump
    BY <2>1 DEF OpenDump
  <2>2. CASE OpenFails
    BY <2>2 DEF OpenFails
  <2>3. CASE TakeOut
    <3>1. queue \in Seq(Stream) /\ queue # <<>> /\ cur' = Head(queue) /\ queue' = Tail(queue)
      BY <2>3 DEF TakeOut
    <3>2. /\ cur' = queue[1] /\ 1 \in DOMAIN queue /\ Len(queue') = Len(queue) - 1
          /\ \A i \in DOMAIN queue' : i + 1 \in DOMAIN queue /\ queue'[i] = queue[i + 1]
          /\ DOMAIN queue' \subseteq Nat /\ Len(queue) \in Nat
      BY <3>1, ReceiveFrom
    <3>6. caller = "take" /\ cur \in Nat
      BY <2>3 DEF TakeOut
    <3>7. queue[1] = cur + 1 /\ Len(queue) \in Nat
      BY <3>2, <3>6
    <3>3. cur' = cur + 1 /\ cur' + Len(queue') = cur + Len(queue)
      BY <3>2, <3>6, <3>7
    <3>4. \A i \in DOMAIN queue' : queue'[i] = cur' + i
      <4>1. \A i \in DOMAIN queue' : queue'[i] = cur + (i + 1)
        BY <2>3, <3>2 DEF TakeOut
      <4> QED
        BY <4>1, <3>2, <3>3
    <3>5. caller' = "recv" /\ UNCHANGED <<feeder, fed>>
      BY <2>3 DEF TakeOut
    <3> QED
      BY <3>3, <3>4, <3>5, <3>6
  <2>4. CASE QueueEnds
    BY <2>4 DEF QueueEnds
  <2>5. CASE Receive
    BY <2>5 DEF Receive
  <2>6. CASE SkipPage
    BY <2>6 DEF SkipPage
  <2>7. CASE CallFn
    BY <2>7 DEF CallFn
  <2>8. CASE PagesEnd
    BY <2>8 DEF PagesEnd
  <2>9. CASE Stop
    BY <2>9 DEF Stop
  <2>10. CASE Drain
    BY <2>10 DEF Drain
  <2>11. CASE Wait
    BY <2>11 DEF Wait
  <2>12. CASE Close
    BY <2>12 DEF Close
  <2>13. CASE Enqueue
    <3>1. /\ fed \in Stream /\ queue' = Append(queue, fed) /\ Len(queue') = Len(queue) + 1
          /\ \A i \in DOMAIN queue' : i \in DOMAIN queue \/ (i = Len(queue) + 1 /\ queue'[i] = fed)
          /\ \A i \in DOMAIN queue : queue'[i] = queue[i]
      <4>1. fed \in Stream /\ queue' = Append(queue, fed)
        BY <2>13 DEF Enqueue, Stream
      <4>2. queue \in Seq(Stream)
        OBVIOUS
      <4> QED
        BY <4>1, <4>2, SendTo
    <3>2. /\ feeder = "queue" /\ feeder' = "hand" /\ Len(queue) \in Nat
          /\ UNCHANGED <<fed, caller, cur, calls>>
      BY <2>13 DEF Enqueue
    <3>3. Reading => fed = cur + Len(queue) + 1
      BY <3>2
    <3>4. ASSUME Reading, NEW i \in DOMAIN queue' PROVE queue'[i] = cur + i
      <4>1. cur \in Nat /\ fed = cur + (Len(queue) + 1)
        BY <3>2, <3>3, <3>4
      <4>2. CASE i \in DOMAIN queue
        BY <4>2, <3>1, <3>4
      <4>3. CASE i = Len(queue) + 1 /\ queue'[i] = fed
        BY <4>1, <4>3
      <4> QED
        BY <4>2, <4>3, <3>1, <3>4
    <3>5. caller # "open"
      BY <3>2 DEF Lifecycle
    <3> QED
      BY <3>1, <3>2, <3>3, <3>4, <3>5
  <2>14. ASSUME NEW w \in Worker, HandOff(w) PROVE FedInOrder'
    BY <2>14 DEF HandOff, Lifecycle
  <2>15. CASE LeaveLoop
    BY <2>15 DEF LeaveLoop, Lifecycle
  <2>16. CASE CloseQueue
    BY <2>16 DEF CloseQueue, Lifecycle
  <2>17. CASE CloseJobs
    BY <2>17 DEF CloseJobs
  <2>18. ASSUME NEW w \in Worker, ReadStream(w) PROVE FedInOrder'
    BY <2>18 DEF ReadStream
  <2>19. ASSUME NEW w \in Worker, SendResult(w) PROVE FedInOrder'
    BY <2>19 DEF SendResult
  <2>20. ASSUME NEW w \in Worker, WorkerExits(w) PROVE FedInOrder'
    BY <2>20 DEF WorkerExits
  <2>21. CASE UNCHANGED vars
    BY <2>21
  <2> QED
    BY <2>1, <2>2, <2>3, <2>4, <2>5, <2>6, <2>7, <2>8, <2>9, <2>10, <2>11, <2>12,
       <2>13, <2>14, <2>15, <2>16, <2>17, <2>18, <2>19, <2>20, <2>21
    DEF Next, Caller, Feeder, WorkerStep, Terminated
<1>3. QED
  BY <1>1, <1>2, TypedInv, LifecycleInv, PTL DEF Spec

----------------------------------------------------------------------------
(* Each stream is in one place, and the streams in flight are after those    *)
(* the caller has received.                                                  *)

LEMMA InFlightInv == Spec => []InFlight
<1> USE Constants DEF InFlight, Reading, Ahead, Busy
<1>1. Init => InFlight
  BY DEF Init, QueueCap
<1>2. Typed /\ Lifecycle /\ FedInOrder /\ InFlight /\ [Next]_vars => InFlight'
  <2> SUFFICES ASSUME Typed, Lifecycle, FedInOrder, InFlight, [Next]_vars PROVE InFlight'
    OBVIOUS
  <2> USE DEF Typed, TypeOK, vars, callerVars, feederVars, workerVars, chanVars
  <2>1. CASE OpenDump
    <3>1. \A w \in Worker : w \notin Busy'
      BY <2>1 DEF OpenDump
    <3>2. cur' < fed' /\ Len(queue') <= QueueCap /\ \A s \in Stream : out'[s] = <<>>
      BY <2>1 DEF OpenDump, FedInOrder
    <3> QED
      BY <2>1, <3>1, <3>2 DEF OpenDump
  <2>2. CASE OpenFails
    BY <2>2 DEF OpenFails
  <2>3. CASE TakeOut
    <3>1. queue # <<>> /\ queue' = Tail(queue) /\ cur' = Head(queue)
      BY <2>3 DEF TakeOut
    <3>2. Head(queue) = queue[1] /\ 1 \in DOMAIN queue /\ Len(Tail(queue)) = Len(queue) - 1
      BY <3>1, ReceiveFrom
    <3>3. cur' = cur + 1
      BY <2>3, <3>1, <3>2 DEF TakeOut, FedInOrder
    <3>4. Len(queue) \in Nat /\ QueueCap \in Nat
      BY DEF QueueCap
    <3>5. Len(queue') <= QueueCap
      <4>1. Len(queue') = Len(queue) - 1
        BY <3>1, <3>2
      <4>2. Len(queue) <= QueueCap
        OBVIOUS
      <4> QED
        BY <3>4, <4>1, <4>2
    <3> QED
      BY <2>3, <3>3, <3>5 DEF TakeOut
  <2>4. CASE QueueEnds
    BY <2>4 DEF QueueEnds
  <2>5. CASE Receive
    <3>1. cur \in Stream /\ out[cur] \in Seq(Result) /\ out[cur] # <<>>
      BY <2>5 DEF Receive, OwnChannel
    <3>2. Len(out[cur]) = 1 /\ cur < fed /\ \A w \in Busy : job[w] # cur
      BY <2>5, <3>1 DEF Receive
    <3>3. out' = [out EXCEPT ![cur] = <<>>]
      <4>1. Tail(out[cur]) \in Seq(Result) /\ Len(Tail(out[cur])) = 0
        BY <3>1, <3>2, ReceiveFrom
      <4>2. Tail(out[cur]) = <<>>
        BY <4>1, EmptyChannel
      <4> QED
        BY <2>5, <4>2 DEF Receive
    <3> QED
      BY <2>5, <3>1, <3>2, <3>3 DEF Receive
  <2>6. CASE SkipPage
    BY <2>6 DEF SkipPage
  <2>7. CASE CallFn
    BY <2>7 DEF CallFn
  <2>8. CASE PagesEnd
    BY <2>8 DEF PagesEnd
  <2>9. CASE Stop
    BY <2>9 DEF Stop
  <2>10. CASE Drain
    <3>1. Len(queue') <= Len(queue)
      <4>1. ASSUME queue # <<>> PROVE Len(Tail(queue)) <= Len(queue)
        <5>1. Len(Tail(queue)) = Len(queue) - 1 /\ Len(queue) \in Nat
          BY <4>1, ReceiveFrom
        <5> QED
          BY <5>1
      <4> QED
        BY <2>10, <4>1 DEF Drain
    <3>2. Len(queue') \in Nat /\ Len(queue) \in Nat /\ QueueCap \in Nat
      BY <2>10 DEF Drain, QueueCap
    <3> QED
      BY <2>10, <3>1, <3>2 DEF Drain
  <2>11. CASE Wait
    BY <2>11 DEF Wait
  <2>12. CASE Close
    BY <2>12 DEF Close
  <2>13. CASE Enqueue
    <3>1. Len(queue') = Len(queue) + 1 /\ Len(queue) < QueueCap
      BY <2>13 DEF Enqueue
    <3>2. Len(queue) \in Nat /\ QueueCap \in Nat
      BY DEF QueueCap
    <3> QED
      BY <2>13, <3>1, <3>2 DEF Enqueue
  <2>14. ASSUME NEW w \in Worker, HandOff(w) PROVE InFlight'
    <3>1. /\ feeder = "hand" /\ wpc[w] = "idle" /\ fed \in Stream /\ fed' = fed + 1
          /\ job' = [job EXCEPT ![w] = fed] /\ wpc' = [wpc EXCEPT ![w] = "read"]
          /\ UNCHANGED <<caller, cur, queue, out>>
      BY <2>14 DEF HandOff, OwnChannel
    <3>2. Busy' = Busy \cup {w} /\ w \notin Busy /\ job'[w] = fed
      BY <3>1
    <3>3. \A v \in Busy : job'[v] = job[v] /\ v # w
      BY <3>1, <3>2
    <3>4. caller # "open"
      BY <3>1 DEF Lifecycle
    <3>5. Reading => cur <= fed /\ (caller # "recv" => cur < fed)
      BY <3>1 DEF FedInOrder
    <3>6. \A v \in Busy : job[v] \in Stream
      BY DEF OwnChannel
    <3> DEFINE AheadNow(s) == cur <= s /\ (caller # "recv" => cur < s) /\ s < fed + 1
    <3>7. ASSUME Reading
          PROVE  /\ \A s \in Stream : out[s] # <<>> => /\ AheadNow(s) /\ Len(out[s]) = 1
                                                      /\ \A v \in Busy' : job'[v] # s
                 /\ \A v \in Busy' : AheadNow(job'[v])
                 /\ \A v, u \in Busy' : job'[v] = job'[u] => v = u
      <4>1. /\ \A s \in Stream : out[s] # <<>> => /\ Ahead(s) /\ Len(out[s]) = 1
                                                 /\ \A v \in Busy : job[v] # s
            /\ \A v \in Busy : Ahead(job[v])
            /\ \A v, u \in Busy : job[v] = job[u] => v = u
        BY <3>7
      <4>2. \A s \in Stream : Ahead(s) => AheadNow(s) /\ s # fed
        BY <3>1
      <4>3. AheadNow(fed)
        BY <3>1, <3>5, <3>7
      <4> HIDE DEF Ahead, AheadNow, Busy
      <4>4. \A v \in Busy : job[v] # fed /\ AheadNow(job[v])
        BY <3>6, <4>1, <4>2
      <4>5. \A s \in Stream : out[s] # <<>> => \A v \in Busy' : job'[v] # s
        BY <3>2, <3>3, <4>1, <4>2
      <4>6. \A v \in Busy' : AheadNow(job'[v])
        BY <3>2, <3>3, <4>3, <4>4
      <4>7. \A v, u \in Busy' : job'[v] = job'[u] => v = u
        BY <3>2, <3>3, <4>1, <4>4
      <4> QED
        BY <4>1, <4>2, <4>5, <4>6, <4>7
    <3> QED
      BY <3>1, <3>4, <3>5, <3>7
  <2>15. CASE LeaveLoop
    BY <2>15 DEF LeaveLoop
  <2>16. CASE CloseQueue
    BY <2>16 DEF CloseQueue
  <2>17. CASE CloseJobs
    BY <2>17 DEF CloseJobs
  <2>18. ASSUME NEW w \in Worker, ReadStream(w) PROVE InFlight'
    BY <2>18 DEF ReadStream
  <2>19. ASSUME NEW w \in Worker, SendResult(w) PROVE InFlight'
    <3> DEFINE s == job[w]
    <3>1. /\ s \in Stream /\ w \in Busy /\ got[w] \in Result /\ Len(out[s]) < 1
          /\ out' = [out EXCEPT ![s] = Append(@, got[w])]
          /\ wpc' = [wpc EXCEPT ![w] = "idle"]
          /\ UNCHANGED <<caller, cur, queue, job, fed>>
      BY <2>19 DEF SendResult, OwnChannel, OutCap
    <3>2. out[s] \in Seq(Result)
      BY <3>1
    <3>3. Len(out'[s]) = 1 /\ \A q \in Stream : q # s => out'[q] = out[q]
      BY <3>1, <3>2
    <3>4. Busy' = Busy \ {w}
      BY <3>1
    <3>5. caller # "open"
      BY <3>1 DEF Lifecycle
    <3>6. \A q \in Int : Ahead(q)' <=> Ahead(q)
      BY <3>1
    <3> QED
      BY <3>1, <3>3, <3>4, <3>5, <3>6
  <2>20. ASSUME NEW w \in Worker, WorkerExits(w) PROVE InFlight'
    BY <2>20 DEF WorkerExits
  <2>21. CASE UNCHANGED vars
    BY <2>21
  <2> QED
    BY <2>1, <2>2, <2>3, <2>4, <2>5, <2>6, <2>7, <2>8, <2>9, <2>10, <2>11, <2>12,
       <2>13, <2>14, <2>15, <2>16, <2>17, <2>18, <2>19, <2>20, <2>21
    DEF Next, Caller, Feeder, WorkerStep, Terminated
<1>3. QED
  BY <1>1, <1>2, TypedInv, LifecycleInv, FedInOrderInv, PTL DEF Spec

----------------------------------------------------------------------------
(* fn is called with the wanted pages one after the other.                   *)

LEMMA PositionParts == ASSUME NEW p \in Position
                       PROVE  /\ p[1] \in Stream /\ p[1] \in Int
                              /\ p[2] \in 1 .. Len(Pages[p[1]]) /\ p[2] \in Int
                              /\ p = <<p[1], p[2]>>
BY DEF Position, Stream

\* A call with a page that comes right after the pages called with before.
LEMMA NextCall == ASSUME calls \in Seq(Position), InOrder, NoneSkipped,
                         NEW q \in WantedPosition,
                         Called = {p \in WantedPosition : Before(p, q)},
                         calls' = Append(calls, q)
                  PROVE  InOrder' /\ NoneSkipped' /\ Called' = Called \cup {q}
<1>1. /\ Len(calls) \in Nat /\ DOMAIN calls = 1 .. Len(calls)
      /\ DOMAIN calls' = 1 .. Len(calls) + 1
      /\ \A i \in DOMAIN calls : calls'[i] = calls[i]
      /\ calls'[Len(calls) + 1] = q
  BY DEF WantedPosition
<1>2. Called' = Called \cup {q}
  BY <1>1 DEF Called
<1>3. InOrder'
  BY <1>1 DEF InOrder, Called
<1>4. NoneSkipped'
  <2> SUFFICES ASSUME NEW i \in DOMAIN calls', NEW p \in WantedPosition, Before(p, calls'[i])
               PROVE  \E j \in 1 .. i : calls'[j] = p
    BY DEF NoneSkipped
  <2>1. CASE i \in DOMAIN calls
    <3>1. PICK j \in 1 .. i : calls[j] = p
      BY <1>1, <2>1 DEF NoneSkipped
    <3> QED
      BY <1>1, <2>1, <3>1
  <2>2. CASE i = Len(calls) + 1
    <3>1. p \in Called
      BY <1>1, <2>2
    <3>2. PICK j \in DOMAIN calls : calls[j] = p
      BY <3>1 DEF Called
    <3> QED
      BY <1>1, <2>2, <3>2
  <2> QED
    BY <1>1, <2>1, <2>2
<1> QED
  BY <1>2, <1>3, <1>4

CallsInOrder == CallsExact /\ InOrder /\ NoneSkipped

\* A step that leaves the calls alone only has to keep what the caller has passed.
LEMMA SameCalls == ASSUME CallsInOrder, UNCHANGED calls,
                          Reading' => Reading /\ \A p \in WantedPosition : Passed(p)' <=> Passed(p),
                          caller' \in {"wait", "close", "returned"} /\ err' = "none"
                             => /\ err = "none"
                                /\ caller \in {"wait", "close", "returned"}
                   PROVE  CallsInOrder'
BY DEF CallsInOrder, CallsExact, InOrder, NoneSkipped, Called, WantedPosition

\* The calls of fn made so far are exactly the wanted pages up to the caller's
\* position, in dump order.
LEMMA CallsInOrderInv == Spec => []CallsInOrder
<1> USE Constants
<1>1. Init => CallsInOrder
  BY DEF Init, CallsInOrder, CallsExact, InOrder, NoneSkipped, Called, Reading
<1>2. Typed /\ Lifecycle /\ FedInOrder /\ CallsInOrder /\ [Next]_vars => CallsInOrder'
  <2> SUFFICES ASSUME Typed, Lifecycle, FedInOrder, CallsInOrder, [Next]_vars
               PROVE  CallsInOrder'
    OBVIOUS
  <2> USE DEF Typed, TypeOK, vars, callerVars, feederVars, workerVars, chanVars
  <2>1. CASE OpenDump
    <3>1. calls = <<>> /\ cur = 0 /\ caller' = "take" /\ UNCHANGED <<calls, cur>>
      BY <2>1 DEF OpenDump, FedInOrder
    <3>2. \A q \in WantedPosition : ~Passed(q)'
      BY <3>1, PositionParts DEF Passed, WantedPosition, Stream
    <3> QED
      BY <3>1, <3>2 DEF CallsInOrder, CallsExact, InOrder, NoneSkipped, Called, WantedPosition
  <2>2. CASE OpenFails
    BY <2>2, SameCalls DEF OpenFails, Reading, Passed
  <2>3. CASE TakeOut
    <3>1. caller = "take" /\ caller' = "recv" /\ cur' = cur + 1 /\ cur \in Nat
      <4>1. caller = "take" /\ caller' = "recv" /\ cur' = Head(queue) /\ queue # <<>> /\ cur \in Nat
        BY <2>3 DEF TakeOut
      <4>2. queue[1] = cur + 1
        BY <4>1, ReceiveFrom DEF FedInOrder, Reading
      <4> QED
        BY <4>1, <4>2, ReceiveFrom
    <3>2. \A q \in WantedPosition : Passed(q)' <=> Passed(q)
      BY <3>1, PositionParts DEF Passed, WantedPosition
    <3> QED
      BY <2>3, <3>1, <3>2, SameCalls DEF TakeOut, Reading
  <2>4. CASE QueueEnds
    <3>1. caller = "take" /\ queue = <<>> /\ queueClosed /\ cur \in Nat
      BY <2>4 DEF QueueEnds
    <3>2. cur = NumStreams
      BY <3>1 DEF FedInOrder, Reading, Lifecycle
    <3>3. \A q \in WantedPosition : Passed(q)
      BY <3>1, <3>2, PositionParts DEF Passed, WantedPosition, Stream
    <3>4. Called = WantedPosition
      BY <3>1, <3>3 DEF CallsInOrder, CallsExact, Reading
    <3> QED
      BY <2>4, <3>4 DEF QueueEnds, CallsInOrder, CallsExact, InOrder, NoneSkipped, Called,
                     WantedPosition, Reading
  <2>5. CASE Receive
    <3>1. /\ caller = "recv" /\ UNCHANGED <<cur, calls>> /\ at' = 1
          /\ \/ caller' = "deliver"
             \/ caller' = "stop"
      BY <2>5 DEF Receive
    <3>2. \A q \in WantedPosition : caller' = "deliver" => (Passed(q)' <=> Passed(q))
      BY <3>1, PositionParts DEF Passed, WantedPosition
    <3> QED
      BY <3>1, <3>2, SameCalls DEF Reading
  <2>6. CASE SkipPage
    <3>1. /\ caller = "deliver" /\ cur \in Stream /\ r.of = cur /\ at \in Nat
          /\ at' = at + 1 /\ UNCHANGED <<caller, cur, calls, err>>
          /\ Pages[cur][at] \notin Wanted
      BY <2>6 DEF SkipPage, OwnChannel
    <3>2. ASSUME NEW q \in WantedPosition PROVE Passed(q)' <=> Passed(q)
      <4>1. q[1] \in Int /\ q[2] \in Int /\ Pages[q[1]][q[2]] \in Wanted
        BY PositionParts DEF WantedPosition
      <4>2. ~(q[1] = cur /\ q[2] = at)
        BY <3>1, <4>1
      <4> QED
        BY <3>1, <4>1, <4>2 DEF Passed
    <3> QED
      BY <3>1, <3>2, SameCalls DEF Reading
  <2>7. CASE CallFn
    <3> DEFINE q == <<cur, at>>
    <3>0. r.of = cur /\ cur \in Stream /\ at \in Nat \ {0} /\ at <= Len(Pages[cur])
      BY <2>7 DEF CallFn, OwnChannel
    <3>1. /\ caller = "deliver" /\ cur \in Stream /\ at \in 1 .. Len(Pages[cur]) /\ at \in Nat
          /\ Pages[cur][at] \in Wanted /\ calls' = Append(calls, q) /\ UNCHANGED cur
          /\ \/ caller' = "deliver" /\ at' = at + 1
             \/ caller' = "stop"
      BY <2>7, <3>0 DEF CallFn
    <3>2. q \in WantedPosition
      BY <3>1, PositionOf DEF WantedPosition
    <3>3. Called = {p \in WantedPosition : Before(p, q)}
      <4>1. \A p \in WantedPosition : Passed(p) <=> Before(p, q)
        BY <3>1 DEF Passed, Before
      <4> QED
        BY <3>1, <4>1 DEF CallsInOrder, CallsExact, Reading
    <3>4. InOrder' /\ NoneSkipped' /\ Called' = Called \cup {q}
      BY <3>1, <3>2, <3>3, NextCall DEF CallsInOrder
    <3>5. caller' = "deliver" => Called' = {p \in WantedPosition : Passed(p)'}
      <4> SUFFICES ASSUME caller' = "deliver" PROVE Called' = {p \in WantedPosition : Passed(p)'}
        OBVIOUS
      <4>1. ASSUME NEW p \in WantedPosition PROVE Passed(p)' <=> Before(p, q) \/ p = q
        <5>1. p[1] \in Int /\ p[2] \in Int /\ p = <<p[1], p[2]>>
          BY PositionParts DEF WantedPosition
        <5>2. p = q <=> p[1] = cur /\ p[2] = at
          BY <5>1
        <5>3. Passed(p)' <=> p[1] < cur \/ (p[1] = cur /\ p[2] < at + 1)
          BY <3>1 DEF Passed
        <5>4. Before(p, q) <=> p[1] < cur \/ (p[1] = cur /\ p[2] < at)
          BY DEF Before
        <5> QED
          BY <3>1, <5>1, <5>2, <5>3, <5>4
      <4> QED
        BY <3>2, <3>3, <3>4, <4>1
    <3>6. CallsExact'
      BY <3>1, <3>5 DEF CallsExact, Reading, WantedPosition
    <3> QED
      BY <3>4, <3>6 DEF CallsInOrder
  <2>8. CASE PagesEnd
    <3>1. /\ caller = "deliver" /\ cur \in Stream /\ at \in Nat /\ at > Len(Pages[cur])
          /\ caller' = "take" /\ UNCHANGED <<cur, at, calls, err>>
      BY <2>8 DEF PagesEnd, OwnChannel
    <3>2. \A q \in WantedPosition : Passed(q)' <=> Passed(q)
      BY <3>1, PositionParts DEF Passed, WantedPosition
    <3> QED
      BY <3>1, <3>2, SameCalls DEF Reading
  <2>9. CASE Stop
    BY <2>9, SameCalls DEF Stop, Reading, Passed
  <2>10. CASE Drain
    BY <2>10, SameCalls DEF Drain, Reading, Lifecycle
  <2>11. CASE Wait
    BY <2>11, SameCalls DEF Wait, Reading, Passed
  <2>12. CASE Close
    BY <2>12, SameCalls DEF Close, Reading, Passed
  <2>13. CASE Enqueue
    BY <2>13, SameCalls DEF Enqueue, Reading, Passed
  <2>14. ASSUME NEW w \in Worker, HandOff(w) PROVE CallsInOrder'
    BY <2>14, SameCalls DEF HandOff, Reading, Passed
  <2>15. CASE LeaveLoop
    BY <2>15, SameCalls DEF LeaveLoop, Reading, Passed
  <2>16. CASE CloseQueue
    BY <2>16, SameCalls DEF CloseQueue, Reading, Passed
  <2>17. CASE CloseJobs
    BY <2>17, SameCalls DEF CloseJobs, Reading, Passed
  <2>18. ASSUME NEW w \in Worker, ReadStream(w) PROVE CallsInOrder'
    BY <2>18, SameCalls DEF ReadStream, Reading, Passed
  <2>19. ASSUME NEW w \in Worker, SendResult(w) PROVE CallsInOrder'
    BY <2>19, SameCalls DEF SendResult, Reading, Passed
  <2>20. ASSUME NEW w \in Worker, WorkerExits(w) PROVE CallsInOrder'
    BY <2>20, SameCalls DEF WorkerExits, Reading, Passed
  <2>21. CASE UNCHANGED vars
    BY <2>21, SameCalls DEF Reading, Passed
  <2> QED
    BY <2>1, <2>2, <2>3, <2>4, <2>5, <2>6, <2>7, <2>8, <2>9, <2>10, <2>11, <2>12,
       <2>13, <2>14, <2>15, <2>16, <2>17, <2>18, <2>19, <2>20, <2>21
    DEF Next, Caller, Feeder, WorkerStep, Terminated
<1>3. QED
  BY <1>1, <1>2, TypedInv, LifecycleInv, FedInOrderInv, PTL DEF Spec

----------------------------------------------------------------------------
(* The theorems. *)

\* The strengthening of InOrder and NoneSkipped that every step preserves.
THEOREM Inductive == Spec => []IndInv
<1>1. Typed /\ Lifecycle /\ FedInOrder /\ InFlight /\ CallsInOrder => IndInv
  BY DEF Typed, CallsInOrder, IndInv
<1> QED
  BY <1>1, TypedInv, LifecycleInv, FedInOrderInv, InFlightInv, CallsInOrderInv, PTL

\* However the workers run ahead of the caller, at most QueueCap + 1 streams are in
\* memory: they are the ones after the last received, up to the end of the queue.
THEOREM ReadAheadIsBounded == Spec => []BoundedReadAhead
<1>1. IndInv => BoundedReadAhead
  <2> SUFFICES ASSUME IndInv, Reading PROVE Cardinality(InMemory) <= QueueCap + 1
    BY DEF BoundedReadAhead, Reading
  <2> DEFINE last == cur + Len(queue)
  <2>1. /\ cur \in Nat /\ Len(queue) \in Nat /\ Len(queue) <= QueueCap /\ QueueCap \in Nat
        /\ fed \in Nat /\ NumStreams \in Nat
    BY Constants DEF IndInv, TypeOK, InFlight, QueueCap
  <2>2. \A s \in Stream : Ahead(s) => s \in cur .. last
    <3>1. feeder = "off" => FALSE
      BY DEF IndInv, Lifecycle, Reading
    <3>2. fed - 1 <= last \/ last = NumStreams
      BY <2>1, <3>1 DEF IndInv, FedInOrder, TypeOK
    <3> QED
      BY <2>1, <3>2 DEF Ahead, Stream
  <2>3. InMemory \subseteq cur .. last
    <3>1. \A s \in Stream : out[s] # <<>> => Ahead(s)
      BY DEF IndInv, InFlight
    <3>2. \A w \in Busy : Ahead(job[w]) /\ job[w] \in Stream
      BY DEF IndInv, InFlight, OwnChannel, Busy
    <3>3. cur \in cur .. last
      BY <2>1
    <3> QED
      BY <2>2, <3>1, <3>2, <3>3 DEF InMemory
  <2>4. IsFiniteSet(cur .. last) /\ Cardinality(cur .. last) = Len(queue) + 1
    <3>1. cur \in Int /\ last \in Int /\ ~(cur > last) /\ last - cur + 1 = Len(queue) + 1
      BY <2>1
    <3> HIDE DEF last
    <3>2. /\ IsFiniteSet(cur .. last)
          /\ Cardinality(cur .. last) = IF cur > last THEN 0 ELSE last - cur + 1
      BY <3>1, FS_Interval
    <3> QED
      BY <3>1, <3>2
  <2>5. IsFiniteSet(InMemory) /\ Cardinality(InMemory) <= Len(queue) + 1
    BY <2>3, <2>4, FS_Subset
  <2>6. Cardinality(InMemory) \in Nat
    BY <2>5, FS_CardinalityType
  <2> QED
    BY <2>1, <2>5, <2>6
<1> QED
  BY <1>1, Inductive, PTL

\* fn sees the pages in the order of the dump.
THEOREM CallsAreOrdered == Spec => []InOrder
<1>1. IndInv => InOrder
  BY DEF IndInv
<1> QED
  BY <1>1, Inductive, PTL

\* fn sees no page before it has seen every wanted page that lies before it.
THEOREM NoPageSkipped == Spec => []NoneSkipped
<1>1. IndInv => NoneSkipped
  BY DEF IndInv
<1> QED
  BY <1>1, Inductive, PTL

\* A nil error says that fn saw every wanted page.
THEOREM NilMeansComplete == Spec => []NilMeansAll
<1>1. IndInv => NilMeansAll
  BY DEF IndInv, CallsExact, NilMeansAll, Called
<1> QED
  BY <1>1, Inductive, PTL

\* No worker reads a closed file.
THEOREM WorkersReadOpenFile == Spec => []ReadsOpenFile
<1>1. IndInv => ReadsOpenFile
  BY DEF IndInv, Lifecycle, ReadsOpenFile
<1> QED
  BY <1>1, Inductive, PTL

\* ReadPages leaves no goroutine behind.
THEOREM ReturnIsClean == Spec => []NoGoroutineLeft
<1>1. IndInv => NoGoroutineLeft
  BY Constants DEF IndInv, Lifecycle, NoGoroutineLeft
<1> QED
  BY <1>1, Inductive, PTL

\* The first error ends the calls of fn, and it is the one returned.
THEOREM FirstErrorStops == Spec => ErrorStops
<1>1. IndInv /\ [Next]_vars => [err # "none" => UNCHANGED <<err, calls>>]_vars
  <2> SUFFICES ASSUME IndInv, [Next]_vars, err # "none" PROVE UNCHANGED <<err, calls>>
    OBVIOUS
  <2>1. caller # "open" /\ ~Reading
    BY DEF IndInv, Lifecycle
  <2> QED
    BY <2>1 DEF Reading, Next, Caller, OpenDump, OpenFails, TakeOut, QueueEnds, Receive,
       SkipPage, CallFn, PagesEnd, Stop, Drain, Wait, Close, Feeder, Enqueue, HandOff,
       LeaveLoop, CloseQueue, CloseJobs, WorkerStep, ReadStream, SendResult, WorkerExits,
       Terminated, vars, callerVars, feederVars, workerVars, chanVars
<1> QED
  BY <1>1, Inductive, PTL DEF Spec, ErrorStops

\* The sequential read is of the same dump.
LEMMA SameDump == /\ Sequential!Stream = Stream
                  /\ Sequential!WantedPosition = WantedPosition
                  /\ \A p, q : Sequential!Before(p, q) <=> Before(p, q)
BY DEF Sequential!Stream, Stream, Sequential!WantedPosition, WantedPosition, Sequential!Position,
       Position, Sequential!Before, Before

\* Without its liveness: every behaviour of the goroutines is, for the caller of
\* ReadPages, a behaviour of the sequential read.
THEOREM ImplementsSequentialRead == Spec => Sequential!SafeSpec
<1> DEFINE AbsNext == [Sequential!Next]_(Sequential!vars)
<1>1. Init => Sequential!Init
  BY DEF Init, Sequential!Init
<1>2. IndInv /\ [Next]_vars => AbsNext
  <2> SUFFICES ASSUME IndInv, [Next]_vars PROVE AbsNext
    OBVIOUS
  <2> USE Constants DEF IndInv, TypeOK, vars, callerVars, feederVars, workerVars, chanVars
  <2>1. CASE OpenDump
    BY <2>1 DEF OpenDump, Sequential!vars
  <2>2. CASE OpenFails
    BY <2>2 DEF OpenFails, Lifecycle, FedInOrder, Sequential!Next, Sequential!OpenFails
  <2>3. CASE TakeOut
    BY <2>3 DEF TakeOut, Sequential!vars
  <2>4. CASE QueueEnds
    BY <2>4 DEF QueueEnds, Sequential!vars
  <2>5. CASE Receive
    <3>1. CASE caller' = "stop" /\ err' = "stream"
      <4>1. caller = "recv" /\ cur \in Stream /\ err = "none" /\ UNCHANGED calls
        BY <2>5 DEF Receive, OwnChannel, Lifecycle, Reading
      <4>2. Sequential!CalledUpTo(cur)
        BY <4>1, SameDump DEF CallsExact, Reading, Passed, Called, Sequential!CalledUpTo, Sequential!Called
      <4> QED
        BY <3>1, <4>1, <4>2, SameDump DEF Sequential!Next, Sequential!StreamFails
    <3>2. CASE caller' = "deliver" /\ UNCHANGED err
      BY <2>5, <3>2 DEF Receive, Sequential!vars
    <3> QED
      BY <2>5, <3>1, <3>2 DEF Receive
  <2>6. CASE SkipPage
    BY <2>6 DEF SkipPage, Sequential!vars
  <2>7. CASE CallFn
    <3> DEFINE q == <<cur, at>>
    <3>1. /\ caller = "deliver" /\ cur \in Stream /\ at \in 1 .. Len(Pages[cur]) /\ r.of = cur
          /\ Pages[cur][at] \in Wanted /\ err = "none"
      <4>1. r.of = cur /\ cur \in Stream /\ at \in Nat \ {0} /\ at <= Len(Pages[cur])
        BY <2>7 DEF CallFn, OwnChannel
      <4> QED
        BY <2>7, <4>1 DEF CallFn, Lifecycle, Reading
    <3>2. q \in WantedPosition
      BY <3>1, PositionOf DEF WantedPosition
    <3>3. \A p \in WantedPosition : Passed(p) <=> Before(p, q)
      BY <3>1 DEF Passed, Before
    <3>4. Sequential!Called = {p \in WantedPosition : Before(p, q)}
      BY <3>1, <3>3 DEF CallsExact, Reading, Called, Sequential!Called
    <3>5. calls' = Append(calls, q) /\ err' \in {"none", "fn"} /\ caller # "returned" /\ caller' # "returned"
      BY <2>7, <3>1 DEF CallFn
    <3> QED
      BY <3>1, <3>2, <3>4, <3>5, SameDump DEF Sequential!Next, Sequential!CallFn
  <2>8. CASE PagesEnd
    BY <2>8 DEF PagesEnd, Sequential!vars
  <2>9. CASE Stop
    BY <2>9 DEF Stop, Sequential!vars
  <2>10. CASE Drain
    BY <2>10 DEF Drain, Sequential!vars
  <2>11. CASE Wait
    BY <2>11 DEF Wait, Sequential!vars
  <2>12. CASE Close
    <3>1. caller = "close" /\ caller' = "returned" /\ UNCHANGED <<calls, err>>
      BY <2>12 DEF Close
    <3>2. err = "none" => Sequential!CalledUpTo(NumStreams + 1)
      <4>1. \A p \in WantedPosition : p[1] < NumStreams + 1
        BY PositionParts DEF WantedPosition, Stream
      <4> QED
        BY <3>1, <4>1, SameDump DEF CallsExact, Called, Sequential!CalledUpTo, Sequential!Called
    <3> QED
      BY <3>1, <3>2 DEF Sequential!Next, Sequential!Return
  <2>13. CASE Enqueue
    BY <2>13 DEF Enqueue, Sequential!vars
  <2>14. ASSUME NEW w \in Worker, HandOff(w) PROVE AbsNext
    BY <2>14 DEF HandOff, Sequential!vars
  <2>15. CASE LeaveLoop
    BY <2>15 DEF LeaveLoop, Sequential!vars
  <2>16. CASE CloseQueue
    BY <2>16 DEF CloseQueue, Sequential!vars
  <2>17. CASE CloseJobs
    BY <2>17 DEF CloseJobs, Sequential!vars
  <2>18. ASSUME NEW w \in Worker, ReadStream(w) PROVE AbsNext
    BY <2>18 DEF ReadStream, Sequential!vars
  <2>19. ASSUME NEW w \in Worker, SendResult(w) PROVE AbsNext
    BY <2>19 DEF SendResult, Sequential!vars
  <2>20. ASSUME NEW w \in Worker, WorkerExits(w) PROVE AbsNext
    BY <2>20 DEF WorkerExits, Sequential!vars
  <2>21. CASE UNCHANGED vars
    BY <2>21 DEF Sequential!vars
  <2> QED
    BY <2>1, <2>2, <2>3, <2>4, <2>5, <2>6, <2>7, <2>8, <2>9, <2>10, <2>11, <2>12,
       <2>13, <2>14, <2>15, <2>16, <2>17, <2>18, <2>19, <2>20, <2>21
    DEF Next, Caller, Feeder, WorkerStep, Terminated
<1> QED
  BY <1>1, <1>2, Inductive, PTL DEF Spec, Sequential!SafeSpec
=============================================================================
