--------------------------- MODULE Readers_proofs ---------------------------
(***************************************************************************)
(* Theorems about the six units of Readers, for all their inputs: the      *)
(* fetcher of Parsoid HTML, the commands over a whole dump, the choice of  *)
(* dump files, the pages of projects, the reading of a dump by its index   *)
(* and the reader of SQL dumps.                                            *)
(***************************************************************************)
EXTENDS Readers, SequenceTheorems, WellFoundedInduction, TLAPS

----------------------------------------------------------------------------
(* Fetcher. A slot that is free is not before f.next; a call that waits for  *)
(* an answer's Retry-After has a timer at least as long, and a call that     *)
(* sends has waited for both.                                                *)

FetchTypes == /\ pc \in [Fetchers -> {"idle", "wait", "slot", "send", "retry"}]
              /\ timer \in [Fetchers -> Int] /\ held \in [Fetchers -> Nat]
              /\ try \in [Fetchers -> Nat] /\ sent \in [Fetchers -> Nat]
              /\ next \in Int /\ free \in Nat

FetchWaits == /\ free <= next \/ free = 0
              /\ \A g \in Fetchers :
                    /\ pc[g] \in {"wait", "slot", "send"} => held[g] = 0
                    /\ pc[g] = "send" => timer[g] = 0
                    /\ pc[g] = "retry" => held[g] <= timer[g] \/ held[g] = 0

FetchInv == FetchTypes /\ FetchWaits

\* The wait for a busy answer is a whole number of ticks, not below the one asked for.
LEMMA RetryAfterWaits ==
    ASSUME FetcherAssumption, NEW h \in Waits, NEW n \in Nat
    PROVE  /\ F!retryAfter(h, n) \in Int
           /\ h # Absent => h * Second \in Nat /\ F!retryAfter(h, n) = h * Second
<1>1. CASE h = Absent
  <2>1. 2^n \in Int /\ Second \in Int
    BY DEF FetcherAssumption
  <2> QED BY <1>1, <2>1 DEF F!retryAfter
<1>2. CASE h # Absent
  <2>1. h \in Nat /\ Second \in Nat
    BY <1>2 DEF FetcherAssumption
  <2>2. h * Second \in Nat
    BY <2>1
  <2> QED BY <1>2, <2>2 DEF F!retryAfter
<1> QED BY <1>1, <1>2

LEMMA FetchStarts == Init => FetchInv
  BY DEF Init, F!Init, F!Past, FetchInv, FetchTypes, FetchWaits

\* A step of one goroutine.
LEMMA FetcherSteps ==
    ASSUME FetcherAssumption, FetchInv, NEW g \in Fetchers,
           \/ F!Call(g) \/ F!Wait(g) \/ F!Wake(g) \/ F!CtxDone(g) \/ F!SendFails(g)
           \/ F!SendBusy(g) \/ F!SendAnswered(g) \/ F!Cancel(g)
    PROVE  FetchInv' /\ F!FetchStep
<1> USE DEF FetchInv, FetchTypes, FetchWaits, F!FetchStep
<1>1. CASE F!Call(g)
  BY <1>1 DEF F!Call
<1>2. CASE F!Wait(g)
  <2> DEFINE from == IF next > 0 THEN next ELSE 0
             gap  == IF Interval > MinInterval THEN Interval ELSE MinInterval
  <2>1. /\ from \in Nat /\ gap \in Nat /\ from >= free /\ (next > 0 => from = next)
    BY DEF FetcherAssumption
  <2>2. /\ pc[g] = "wait" /\ timer' = [timer EXCEPT ![g] = from]
        /\ next' = from + gap /\ free' = from + gap
        /\ \E p \in {"slot", "idle", "send"} :
              /\ pc' = [pc EXCEPT ![g] = p] /\ (p = "send" => from = 0)
        /\ UNCHANGED <<try, sent, held>>
    <3>1. \E p \in {"slot", "idle", "send"} :
              /\ pc' = [pc EXCEPT ![g] = p] /\ (p = "send" => from = 0)
      <4>0. pc' = [pc EXCEPT ![g] = CASE from > 0 -> "slot" [] from = 0 /\ over[g] -> "idle"
                                      [] OTHER -> "send"]
        BY <1>2 DEF F!Wait
      <4> HIDE DEF from
      <4>1. CASE from > 0
        <5>1. from # 0
          BY <2>1, <4>1
        <5>2. pc' = [pc EXCEPT ![g] = "slot"]
          BY <4>0, <4>1, <5>1, Zenon
        <5> QED BY <5>1, <5>2
      <4>2. CASE from = 0 /\ over[g]
        <5>1. pc' = [pc EXCEPT ![g] = "idle"]
          BY <4>0, <4>2
        <5> QED BY <5>1
      <4>3. CASE from = 0 /\ ~over[g]
        <5>1. pc' = [pc EXCEPT ![g] = "send"]
          BY <4>0, <4>3
        <5> QED BY <4>3, <5>1
      <4> QED BY <2>1, <4>1, <4>2, <4>3
    <3> QED BY <1>2, <3>1 DEF F!Wait, F!Gap
  <2> HIDE DEF from, gap
  <2> QED BY <2>1, <2>2
<1>3. CASE F!Wake(g)
  BY <1>3 DEF F!Wake
<1>4. CASE F!CtxDone(g)
  BY <1>4 DEF F!CtxDone, F!Return
<1>5. CASE F!SendFails(g)
  BY <1>5 DEF F!SendFails, F!Return
<1>6. CASE F!SendBusy(g)
  <2>1. PICK h \in Waits :
           /\ timer' = [timer EXCEPT ![g] = F!retryAfter(h, try[g])]
           /\ held' = [held EXCEPT ![g] = IF h = Absent THEN 0 ELSE h * Second]
    BY <1>6 DEF F!SendBusy
  <2> DEFINE t == F!retryAfter(h, try[g])
             w == IF h = Absent THEN 0 ELSE h * Second
  <2>2. t \in Int /\ w \in Nat /\ (w <= t \/ w = 0)
    BY RetryAfterWaits
  <2>3. timer' = [timer EXCEPT ![g] = t] /\ held' = [held EXCEPT ![g] = w]
    BY <2>1
  <2> HIDE DEF t, w
  <2> QED BY <1>6, <2>2, <2>3 DEF F!SendBusy
<1>7. CASE F!SendAnswered(g)
  <2>1. PICK a \in F!Answers :
           F!Return(g, IF a = "busy" THEN "busy" ELSE F!Outcome(kind[g], a))
    BY <1>7 DEF F!SendAnswered
  <2> QED BY <1>7, <2>1 DEF F!SendAnswered, F!Return
<1>8. CASE F!Cancel(g)
  BY <1>8 DEF F!Cancel
<1> QED BY <1>1, <1>2, <1>3, <1>4, <1>5, <1>6, <1>7, <1>8

\* Time passes: what is left of a wait, a timer and a slot goes down together.
LEMMA TimeSteps ==
    ASSUME FetchInv, F!Tick
    PROVE  FetchInv' /\ F!FetchStep
<1>1. FetchTypes'
  BY DEF FetchInv, FetchTypes, F!Tick, F!Down, F!Past
<1>2. FetchWaits'
  BY DEF FetchInv, FetchTypes, FetchWaits, F!Tick, F!Down, F!Past
<1>3. F!FetchStep
  BY DEF FetchInv, FetchTypes, F!Tick, F!FetchStep
<1> QED BY <1>1, <1>2, <1>3 DEF FetchInv

LEMMA FetchKeeps ==
    ASSUME FetchInv, [Next]_vars
    PROVE  FetchInv' /\ [F!FetchStep]_fetchVars
<1>1. CASE FetchPages
  BY <1>1, ReadersAssumption, FetcherSteps, TimeSteps DEF FetchPages, F!Next, ReadersAssumption
<1>2. CASE UNCHANGED fetchVars
  BY <1>2 DEF FetchInv, FetchTypes, FetchWaits, fetchVars
<1> QED BY <1>1, <1>2 DEF Next, vars, ReadSQL, ReadPages, ReadByID, AskAPI, PickFiles

\* parsoid.go: every slot lies MinInterval and Interval after the one before it, and
\* no request goes out before its slot or before the Retry-After of the last answer.
THEOREM FetchesKeepApart == Spec => FetchesApart
<1>1. Init => FetchInv
  BY FetchStarts
<1>2. FetchInv /\ [Next]_vars => FetchInv' /\ [F!FetchStep]_fetchVars
  BY FetchKeeps
<1> QED BY <1>1, <1>2, PTL DEF Spec, FetchesApart

----------------------------------------------------------------------------
(* DumpPages. The pages written are those asked for before the next element, *)
(* and below the limit as long as the command runs.                          *)

PagesTypes == /\ cmd \in Commands /\ dump \in Seq(Pages) /\ at \in 1 .. Len(dump) + 1
              /\ out \in Seq(Nat) /\ files \in [D!Paths -> Int]
              /\ answer \in {"running", "flushing", "ok", "noResults", "error"}

Increasing(s) == \A i, j \in DOMAIN s : i < j => s[i] < s[j]

BelowLimit == cmd.limit > 0 => Len(out) < cmd.limit

Exports == cmd.name = "export" /\ cmd.outDir

PagesWritten == D!Written = {a \in D!Asked : a < at} /\ Increasing(out)

\* What has reached the output, and the files that other articles leave alone.
PagesShown == /\ shown \subseteq D!Written
              /\ (~D!Buffered \/ answer = "ok") /\ ~D!Unchecked => shown = D!Written
              /\ Exports => \A w \in D!Written : D!OwnPath(w) => files[dump[w].path] = w

PagesEnd == /\ answer = "running" => BelowLimit
            /\ cmd.limit > 0 => Len(out) <= cmd.limit
            /\ answer \in {"flushing", "ok"} =>
                 out # <<>> /\ (D!Written = D!Asked \/ Len(out) = cmd.limit)
            /\ answer = "noResults" => D!Asked = {}
            /\ answer = "error" =>
                 \/ cmd.full
                 \/ tail \in {"damaged", "syntax"} /\ D!Written = D!Asked /\ BelowLimit

PagesInv == PagesTypes /\ PagesWritten /\ PagesShown /\ PagesEnd

\* One more page at the end of those written.
LEMMA AppendWritten ==
    ASSUME NEW s \in Seq(Nat), NEW n \in Nat, Increasing(s), \A i \in DOMAIN s : s[i] < n
    PROVE  /\ Append(s, n) \in Seq(Nat) /\ Len(Append(s, n)) = Len(s) + 1
           /\ Append(s, n) # <<>> /\ Increasing(Append(s, n))
           /\ {Append(s, n)[i] : i \in DOMAIN Append(s, n)} = {s[i] : i \in DOMAIN s} \cup {n}
<1> DEFINE t == Append(s, n)
<1>1. /\ t \in Seq(Nat) /\ Len(t) = Len(s) + 1 /\ Len(s) \in Nat /\ t # <<>>
      /\ DOMAIN t = 1 .. Len(s) + 1 /\ DOMAIN s = 1 .. Len(s)
      /\ t[Len(s) + 1] = n /\ \A i \in 1 .. Len(s) : t[i] = s[i]
  OBVIOUS
<1> HIDE DEF t
<1>2. \A i \in DOMAIN t : i # Len(s) + 1 => i \in DOMAIN s /\ t[i] = s[i]
  BY <1>1
<1>3. Increasing(t)
  <2> SUFFICES ASSUME NEW i \in DOMAIN t, NEW j \in DOMAIN t, i < j PROVE t[i] < t[j]
    BY DEF Increasing
  <2>1. i # Len(s) + 1 /\ i \in DOMAIN s /\ t[i] = s[i]
    BY <1>1, <1>2
  <2>2. CASE j = Len(s) + 1
    BY <1>1, <2>1, <2>2
  <2>3. CASE j # Len(s) + 1
    BY <1>2, <2>1, <2>3 DEF Increasing
  <2> QED BY <2>2, <2>3
<1>4. {t[i] : i \in DOMAIN t} = {s[i] : i \in DOMAIN s} \cup {n}
  <2>1. ASSUME NEW i \in DOMAIN t PROVE t[i] \in {s[k] : k \in DOMAIN s} \cup {n}
    BY <1>1, <1>2
  <2>2. ASSUME NEW i \in DOMAIN s PROVE s[i] \in {t[k] : k \in DOMAIN t}
    BY <1>1
  <2>3. n \in {t[k] : k \in DOMAIN t}
    BY <1>1
  <2> QED BY <2>1, <2>2, <2>3
<1> QED BY <1>1, <1>3, <1>4 DEF t

LEMMA PagesStart ==
    ASSUME CommandsAssumption, Init, unit = "pages"
    PROVE  PagesInv
<1>1. D!Init
  BY DEF Init
<1>2. PICK n \in 0 .. MaxPages : dump \in [1 .. n -> Pages]
  BY <1>1 DEF D!Init
<1>3. n \in Nat /\ dump \in Seq(Pages) /\ Len(dump) = n /\ DOMAIN dump = 1 .. n
  BY <1>2 DEF CommandsAssumption
<1>4. PagesTypes
  BY <1>1, <1>3 DEF D!Init, PagesTypes
<1>5. out = <<>> /\ at = 1 /\ answer = "running" /\ D!Written = {}
  BY <1>1 DEF D!Init, D!Written
<1>6. D!Asked \subseteq 1 .. n
  BY <1>3 DEF D!Asked
<1>7. PagesWritten
  <2>1. \A a \in D!Asked : ~(a < at)
    BY <1>3, <1>5, <1>6
  <2> QED BY <1>5, <2>1 DEF PagesWritten, Increasing
<1>8. PagesShown
  BY <1>1, <1>5 DEF D!Init, PagesShown
<1>9. PagesEnd
  BY <1>1, <1>5 DEF D!Init, PagesEnd, BelowLimit, CommandsAssumption
<1> QED BY <1>4, <1>7, <1>8, <1>9 DEF PagesInv

\* What a step leaves alone, it is asked for the same pages.
LEMMA SameAsked ==
    ASSUME UNCHANGED <<cmd, dump>>
    PROVE  /\ D!Asked' = D!Asked /\ D!Buffered' = D!Buffered
           /\ D!Unchecked' = D!Unchecked /\ Exports' = Exports
           /\ \A w : D!OwnPath(w)' <=> D!OwnPath(w)
<1>1. D!Asked' = D!Asked
  BY DEF D!Asked, D!Keeps, D!fn, D!Matches, D!Article
<1> QED BY <1>1 DEF D!Buffered, D!Unchecked, Exports, D!OwnPath

LEMMA SkipKeeps ==
    ASSUME PagesInv, D!Skip
    PROVE  PagesInv'
<1> USE DEF PagesInv
<1>1. /\ answer = "running" /\ at \in DOMAIN dump /\ at \notin D!Asked
      /\ at' = at + 1 /\ UNCHANGED <<cmd, dump, tail, out, shown, files, answer>>
  BY DEF D!Skip, D!Asked, PagesTypes
<1>2. D!Asked' = D!Asked /\ D!Written' = D!Written
  BY <1>1, SameAsked DEF D!Written
<1>3. PagesTypes'
  BY <1>1 DEF PagesTypes
<1>4. PagesWritten'
  <2>1. \A a \in D!Asked : a < at + 1 <=> a < at
    BY <1>1 DEF PagesTypes, D!Asked
  <2> QED BY <1>1, <1>2, <2>1 DEF PagesWritten
<1>5. PagesShown'
  BY <1>1, <1>2, SameAsked DEF PagesShown
<1>6. PagesEnd'
  BY <1>1, <1>2 DEF PagesEnd, BelowLimit
<1> QED BY <1>3, <1>4, <1>5, <1>6

\* The file of an article that shares its path with none stays, when another is written.
LEMMA OtherPath ==
    ASSUME PagesInv, at \in D!Asked, NEW w \in D!Written, D!OwnPath(w)
    PROVE  dump[at].path # dump[w].path
<1>1. w < at /\ w \in Nat /\ at \in Nat
  BY DEF PagesInv, PagesWritten, PagesTypes, D!Asked
<1>2. at # w
  BY <1>1
<1> QED BY <1>2 DEF D!OwnPath

LEMMA WriteKeeps ==
    ASSUME CommandsAssumption, PagesInv, D!Write
    PROVE  PagesInv'
<1>1. /\ answer = "running" /\ at \in DOMAIN dump /\ at \in D!Asked /\ at \in Nat
      /\ out' = Append(out, at) /\ at' = at + 1 /\ UNCHANGED <<cmd, dump, tail>>
  BY DEF D!Write, D!Asked, PagesInv, PagesTypes
<1>2. \A i \in DOMAIN out : out[i] < at
  BY DEF PagesInv, PagesWritten, D!Written
<1>3. /\ out' \in Seq(Nat) /\ Len(out') = Len(out) + 1 /\ out' # <<>>
      /\ Increasing(out') /\ D!Written' = D!Written \cup {at}
  <2> DEFINE longer == Append(out, at)
  <2>1. /\ longer \in Seq(Nat) /\ Len(longer) = Len(out) + 1 /\ longer # <<>>
        /\ Increasing(longer)
        /\ {longer[i] : i \in DOMAIN longer} = {out[i] : i \in DOMAIN out} \cup {at}
    <3>1. out \in Seq(Nat) /\ at \in Nat /\ Increasing(out)
      BY <1>1 DEF PagesInv, PagesTypes, PagesWritten
    <3> QED BY <1>2, <3>1, AppendWritten
  <2> HIDE DEF longer
  <2>2. out' = longer
    BY <1>1 DEF longer
  <2> QED BY <2>1, <2>2 DEF D!Written, Increasing
<1>4. D!Asked' = D!Asked
  BY <1>1, SameAsked
<1>5. files' = IF Exports THEN [files EXCEPT ![dump[at].path] = at] ELSE files
  BY DEF D!Write, D!pathOf, Exports
<1>6. dump[at] \in Pages /\ dump[at].path \in D!Paths
  BY <1>1 DEF PagesInv, PagesTypes, D!Paths
<1>7. PagesTypes'
  <2>1. answer' \in {"running", "flushing", "ok"}
    BY <1>3 DEF D!Write, D!Outcome
  <2>2. files' \in [D!Paths -> Int]
    BY <1>1, <1>5, <1>6 DEF PagesInv, PagesTypes
  <2> QED BY <1>1, <1>3, <2>1, <2>2 DEF PagesInv, PagesTypes
<1>8. PagesWritten'
  <2>1. \A a \in D!Asked : a < at + 1 <=> a < at \/ a = at
    BY <1>1 DEF PagesInv, PagesTypes, D!Asked
  <2> QED BY <1>1, <1>3, <1>4, <2>1 DEF PagesInv, PagesWritten
<1>9. PagesShown'
  <2>1. /\ shown' \subseteq D!Written'
        /\ ~D!Buffered /\ ~D!Unchecked => shown' = D!Written'
    BY <1>1, <1>3 DEF D!Write, PagesInv, PagesShown
  <2>2. answer' = "ok" => ~D!Buffered
    BY <1>1, <1>3 DEF D!Write, D!Outcome, D!Buffered
  <2>3. ASSUME Exports, NEW w \in D!Written', D!OwnPath(w) PROVE files'[dump[w].path] = w
    <3>1. CASE w = at
      BY <1>5, <1>6, <2>3, <3>1 DEF PagesInv, PagesTypes
    <3>2. CASE w # at
      <4>1. w \in D!Written /\ files[dump[w].path] = w
        BY <1>3, <2>3, <3>2 DEF PagesInv, PagesShown
      <4>2. dump[at].path # dump[w].path
        BY <1>1, <2>3, <4>1, OtherPath
      <4> QED BY <1>5, <2>3, <4>1, <4>2 DEF PagesInv, PagesTypes
    <3> QED BY <3>1, <3>2
  <2> QED BY <1>1, <2>1, <2>2, <2>3, SameAsked DEF PagesShown
<1>10. PagesEnd'
  <2>1. cmd.limit \in Int /\ Len(out) \in Nat
    BY DEF PagesInv, PagesTypes, CommandsAssumption
  <2>2. CASE cmd.limit > 0 /\ Len(out') >= cmd.limit
    <3>1. answer' \in {"flushing", "ok"}
      BY <1>3, <2>2 DEF D!Write, D!Outcome
    <3>2. Len(out') = cmd.limit
      BY <1>1, <1>3, <2>1, <2>2 DEF PagesInv, PagesEnd, BelowLimit
    <3> QED BY <1>1, <1>3, <2>1, <3>1, <3>2 DEF PagesEnd
  <2>3. CASE ~(cmd.limit > 0 /\ Len(out') >= cmd.limit)
    <3>1. answer' = "running" /\ BelowLimit'
      BY <1>1, <1>3, <2>1, <2>3 DEF BelowLimit, D!Write
    <3> QED BY <1>1, <1>3, <2>1, <3>1 DEF PagesEnd, BelowLimit
  <2> QED BY <2>2, <2>3
<1> QED BY <1>7, <1>8, <1>9, <1>10 DEF PagesInv

LEMMA PagesEndKeeps ==
    ASSUME CommandsAssumption, PagesInv, D!WriteFails \/ D!StreamEnds
    PROVE  PagesInv'
<1>1. UNCHANGED <<cmd, dump, tail, at, out, shown>> /\ answer = "running"
  BY DEF D!WriteFails, D!StreamEnds
<1>2. D!Asked' = D!Asked /\ D!Written' = D!Written
  BY <1>1, SameAsked DEF D!Written
<1>3. /\ answer' \in {"flushing", "ok", "noResults", "error"}
      /\ answer' = "ok" => ~D!Buffered
  BY DEF D!WriteFails, D!StreamEnds, D!Outcome, D!Buffered
<1>4. files' = files \/ (D!WriteFails /\ files' = [files EXCEPT ![dump[at].path] = -1])
  BY DEF D!WriteFails, D!StreamEnds, D!pathOf
<1>5. PagesTypes'
  <2>1. files' \in [D!Paths -> Int]
    BY <1>4 DEF PagesInv, PagesTypes
  <2> QED BY <1>1, <1>3, <2>1 DEF PagesInv, PagesTypes
<1>6. PagesWritten'
  BY <1>1, <1>2 DEF PagesInv, PagesWritten
<1>7. PagesShown'
  <2>1. ASSUME Exports, NEW w \in D!Written, D!OwnPath(w) PROVE files'[dump[w].path] = w
    <3>1. files[dump[w].path] = w
      BY <2>1 DEF PagesInv, PagesShown
    <3>2. CASE files' # files
      <4>1. at \in D!Asked /\ files' = [files EXCEPT ![dump[at].path] = -1]
        BY <1>4, <3>2 DEF D!WriteFails, D!Asked, PagesInv, PagesTypes
      <4>2. dump[at].path # dump[w].path
        BY <2>1, <4>1, OtherPath
      <4>3. w \in DOMAIN dump /\ dump[w].path \in D!Paths
        BY DEF PagesInv, PagesTypes, PagesWritten, D!Asked, D!Paths
      <4> QED BY <3>1, <4>1, <4>2, <4>3 DEF PagesInv, PagesTypes
    <3> QED BY <3>1, <3>2
  <2> QED BY <1>1, <1>2, <1>3, <2>1, SameAsked DEF PagesInv, PagesShown
<1>8. CASE D!WriteFails
  <2>1. answer' = "error" /\ cmd.full
    BY <1>8 DEF D!WriteFails, D!Outcome
  <2>2. PagesEnd'
    BY <1>1, <1>2, <2>1 DEF PagesInv, PagesEnd
  <2> QED BY <1>5, <1>6, <1>7, <2>2 DEF PagesInv
<1>9. CASE D!StreamEnds
  <2>1. D!Written = D!Asked
    <3>1. \A a \in D!Asked : a < at
      BY <1>9 DEF D!StreamEnds, D!Asked, PagesInv, PagesTypes
    <3> QED BY <3>1 DEF PagesInv, PagesWritten
  <2>2. /\ answer' \in {"flushing", "ok"} => out # <<>>
        /\ answer' = "noResults" => out = <<>>
        /\ answer' = "error" => tail \in {"damaged", "syntax"}
    BY <1>1, <1>9 DEF D!StreamEnds, D!Outcome
  <2>3. out = <<>> => D!Written = {}
    BY DEF D!Written
  <2>4. PagesEnd'
    BY <1>1, <1>2, <1>3, <2>1, <2>2, <2>3 DEF PagesInv, PagesEnd, BelowLimit
  <2> QED BY <1>5, <1>6, <1>7, <2>4 DEF PagesInv
<1> QED BY <1>8, <1>9

LEMMA FlushKeeps ==
    ASSUME PagesInv, D!Flush \/ D!FlushFails
    PROVE  PagesInv'
<1>1. /\ UNCHANGED <<cmd, dump, tail, at, out, files>> /\ answer = "flushing"
      /\ \/ shown' = D!Written /\ answer' = "ok"
         \/ shown' \subseteq D!Written /\ answer' = "error" /\ cmd.full /\ D!Buffered
  <2>1. CASE D!Flush
    BY <2>1 DEF D!Flush
  <2>2. CASE D!FlushFails
    <3>1. PICK k \in 0 .. Len(out) : shown' = {out[i] : i \in 1 .. k}
      BY <2>2 DEF D!FlushFails
    <3>2. Len(out) \in Nat /\ DOMAIN out = 1 .. Len(out)
      BY DEF PagesInv, PagesTypes
    <3>3. 1 .. k \subseteq DOMAIN out
      BY <3>1, <3>2
    <3>4. shown' \subseteq D!Written
      BY <3>1, <3>3 DEF D!Written
    <3> QED BY <2>2, <3>4 DEF D!FlushFails
  <2> QED BY <2>1, <2>2
<1>2. D!Asked' = D!Asked /\ D!Written' = D!Written
  BY <1>1, SameAsked DEF D!Written
<1>3. PagesTypes'
  BY <1>1 DEF PagesInv, PagesTypes
<1>4. PagesWritten'
  BY <1>1, <1>2 DEF PagesInv, PagesWritten
<1>5. PagesShown'
  <2>1. /\ shown' \subseteq D!Written
        /\ (~D!Buffered \/ answer' = "ok") => shown' = D!Written
    BY <1>1
  <2> QED BY <1>1, <1>2, <2>1, SameAsked DEF PagesInv, PagesShown
<1>6. PagesEnd'
  BY <1>1, <1>2 DEF PagesInv, PagesEnd
<1> QED BY <1>3, <1>4, <1>5, <1>6 DEF PagesInv

LEMMA PagesKeep ==
    ASSUME CommandsAssumption, PagesInv, unit = "pages", [Next]_vars
    PROVE  PagesInv'
<1>1. CASE ReadPages
  BY <1>1, SkipKeeps, WriteKeeps, PagesEndKeeps, FlushKeeps DEF ReadPages, D!Next
<1>2. CASE UNCHANGED vars
  <2>1. UNCHANGED <<cmd, dump, tail, at, out, shown, files, answer>>
    BY <1>2 DEF vars, pagesVars
  <2>2. D!Asked' = D!Asked /\ D!Written' = D!Written
    BY <2>1, SameAsked DEF D!Written
  <2>3. PagesShown'
    BY <2>1, <2>2, SameAsked DEF PagesInv, PagesShown
  <2> QED BY <2>1, <2>2, <2>3
          DEF PagesInv, PagesTypes, PagesWritten, Increasing, PagesEnd, BelowLimit
<1> QED BY <1>1, <1>2 DEF Next, ReadSQL, ReadByID, AskAPI, PickFiles, FetchPages

LEMMA PagesImplies == PagesInv => D!WritesTheAsked
<1> SUFFICES ASSUME PagesInv PROVE D!WritesTheAsked
  OBVIOUS
<1> USE DEF PagesInv
<1>1. /\ D!Written \subseteq D!Asked
      /\ \A a \in D!Asked : \A w \in D!Written : a < w => a \in D!Written
  BY DEF PagesWritten, PagesTypes, D!Asked
<1> QED BY <1>1
        DEF D!WritesTheAsked, PagesWritten, PagesShown, PagesEnd, Increasing, Exports, BelowLimit

\* `dump pages`, `dump grep` and `dump export` write the pages they were asked for in
\* the order of the dump with none passed over, stop at the limit, and report a failure
\* only for one; what they have written has reached the output when they end well.
THEOREM CommandsWriteTheAsked == Spec => []WritesTheAsked
<1> DEFINE Inv == unit = "pages" => PagesInv
<1>1. Init => Inv
  BY PagesStart, ReadersAssumption DEF ReadersAssumption
<1>2. Inv /\ [Next]_vars => Inv'
  <2>1. [Next]_vars => unit' = unit
    BY DEF Next, vars, ReadSQL, ReadPages, ReadByID, AskAPI, PickFiles, FetchPages
  <2> QED BY <2>1, PagesKeep, ReadersAssumption DEF ReadersAssumption
<1>3. Inv => WritesTheAsked
  BY PagesImplies DEF WritesTheAsked
<1> QED BY <1>1, <1>2, <1>3, PTL DEF Spec

----------------------------------------------------------------------------
(* DumpFiles. First, what is picked from one listing.                        *)

\* A set of places has a least one.
LEMMA LeastPlace ==
    ASSUME NEW T \in SUBSET Nat, T # {}
    PROVE  \E i \in T : \A k \in T : i <= k
<1>1. PICK R : IsWellFoundedOn(R, Nat) /\ \A x, y \in Nat : (<<y, x>> \in R) <=> y < x
  <2>1. \A x, y \in Nat : (<<y, x>> \in OpToRel(<, Nat)) <=> y < x
    BY DEF OpToRel
  <2> QED BY <2>1, NatLessThanWellFounded, Zenon
<1>2. PICK i \in T : \A k \in T : ~ (<<k, i>> \in R)
  BY <1>1, WFMin
<1>3. ASSUME NEW k \in T PROVE i <= k
  <2>1. i \in Nat /\ k \in Nat
    OBVIOUS
  <2>2. ~ (k < i)
    BY <1>1, <1>2, <2>1
  <2> QED BY <2>1, <2>2
<1> QED BY <1>3

LEMMA FirstOfPlaces ==
    ASSUME NEW fs, NEW T \in SUBSET Nat
    PROVE  /\ T = {} => L!First(fs, T) = <<>>
           /\ T # {} => /\ L!First(fs, T) # <<>>
                        /\ \E k \in T : L!First(fs, T)[1] = fs[k]
<1>1. CASE T = {}
  BY <1>1 DEF L!First
<1>2. CASE T # {}
  <2> DEFINE least == CHOOSE i \in T : \A k \in T : i <= k
  <2>1. least \in T
    BY <1>2, LeastPlace
  <2>2. L!First(fs, T) = <<fs[least]>>
    BY <1>2 DEF L!First
  <2> HIDE DEF least
  <2>3. L!First(fs, T) # <<>> /\ L!First(fs, T)[1] = fs[least]
    BY <2>2
  <2> QED BY <1>2, <2>1, <2>3
<1> QED BY <1>1, <1>2

LEMMA Listing ==
    ASSUME ListingsAssumption, NEW fs \in Listings, fs # NoAnswer
    PROVE  /\ DOMAIN fs \in SUBSET Nat
           /\ \A i, k \in DOMAIN fs : fs[i].job = fs[k].job => fs[i].status = fs[k].status
  BY DEF ListingsAssumption

\* tableFiles takes a file that is done for each table, or there is a table that has none.
LEMMA TablesPicked ==
    ASSUME ListingsAssumption, NEW fs \in Listings, fs # NoAnswer
    PROVE  /\ L!tableFiles(fs) = <<>> =>
                 \E i \in DOMAIN Tables : \A k \in L!PlacesOf(fs, Tables[i]) : fs[k].status # "done"
           /\ L!tableFiles(fs) # <<>> =>
                 /\ DOMAIN L!tableFiles(fs) = DOMAIN Tables
                 /\ \A i \in DOMAIN Tables : \E k \in L!PlacesOf(fs, Tables[i]) :
                       fs[k].status = "done" /\ L!tableFiles(fs)[i] = fs[k]
<1> DEFINE first(i) == L!First(fs, L!PlacesOf(fs, Tables[i]))
           found    == [i \in DOMAIN Tables |-> first(i)]
           taking   == [i \in DOMAIN found |-> found[i][1]]
           lacks(i) == found[i] = <<>> \/ found[i][1].status # "done"
<1>1. L!tableFiles(fs) = IF \E i \in DOMAIN found : lacks(i) THEN <<>> ELSE taking
  BY DEF L!tableFiles
<1>2. DOMAIN found = DOMAIN Tables /\ DOMAIN taking = DOMAIN Tables
  OBVIOUS
<1>3. ASSUME NEW i \in DOMAIN Tables
      PROVE  /\ found[i] = first(i) /\ taking[i] = first(i)[1]
             /\ lacks(i) => \A k \in L!PlacesOf(fs, Tables[i]) : fs[k].status # "done"
             /\ ~lacks(i) => \E k \in L!PlacesOf(fs, Tables[i]) :
                               fs[k].status = "done" /\ taking[i] = fs[k]
  <2> DEFINE places == L!PlacesOf(fs, Tables[i])
  <2>1. found[i] = first(i) /\ taking[i] = first(i)[1]
    OBVIOUS
  <2>2. places \in SUBSET Nat
    BY Listing DEF L!PlacesOf
  <2>3. \A j, k \in places : fs[j].status = fs[k].status
    BY Listing DEF L!PlacesOf
  <2>4. /\ places = {} => first(i) = <<>>
        /\ places # {} => first(i) # <<>> /\ \E k \in places : first(i)[1] = fs[k]
    <3> HIDE DEF places
    <3>1. /\ places = {} => L!First(fs, places) = <<>>
          /\ places # {} => /\ L!First(fs, places) # <<>>
                            /\ \E k \in places : L!First(fs, places)[1] = fs[k]
      BY <2>2, FirstOfPlaces
    <3> QED BY <3>1 DEF places
  <2> HIDE DEF places, first, found, taking
  <2>5. lacks(i) => \A k \in places : fs[k].status # "done"
    BY <2>1, <2>3, <2>4
  <2>6. ~lacks(i) => \E k \in places : fs[k].status = "done" /\ taking[i] = fs[k]
    BY <2>1, <2>3, <2>4
  <2> QED BY <2>1, <2>5, <2>6 DEF places
<1>4. DOMAIN taking # {}
  <2>1. 1 \in DOMAIN Tables
    BY DEF ListingsAssumption
  <2> QED BY <1>2, <2>1
<1>5. taking # <<>>
  BY <1>4
<1> HIDE DEF taking, lacks, found
<1>6. CASE \E i \in DOMAIN found : lacks(i)
  BY <1>1, <1>2, <1>3, <1>6
<1>7. CASE ~ \E i \in DOMAIN found : lacks(i)
  BY <1>1, <1>2, <1>3, <1>5, <1>7
<1> QED BY <1>6, <1>7

\* pickDumpFile takes a file that the argument fits, one of that name if there is one.
LEMMA FilePicked ==
    ASSUME ListingsAssumption, NEW fs \in Listings, fs # NoAnswer, NEW q
    PROVE  /\ L!pickDumpFile(fs, q) = <<>> =>
                 \A k \in DOMAIN fs : fs[k].name # q /\ fs[k].job # q /\ q \notin fs[k].has
           /\ L!pickDumpFile(fs, q) # <<>> =>
                 \E k \in DOMAIN fs :
                    /\ L!pickDumpFile(fs, q)[1] = fs[k]
                    /\ \/ fs[k].name = q
                       \/ /\ \A j \in DOMAIN fs : fs[j].name # q
                          /\ fs[k].job = q \/ q \in fs[k].has
<1> DEFINE named == {i \in DOMAIN fs : fs[i].name = q}
           ofJob == {i \in DOMAIN fs : fs[i].job = q}
           part  == {i \in DOMAIN fs : q \in fs[i].has}
           pick  == L!pickDumpFile(fs, q)
<1>1. named \in SUBSET Nat /\ ofJob \in SUBSET Nat /\ part \in SUBSET Nat
  BY Listing
<1>2. /\ named # {} => pick = L!First(fs, named)
      /\ named = {} /\ ofJob # {} => pick = L!First(fs, ofJob)
      /\ named = {} /\ ofJob = {} => pick = L!First(fs, part)
  BY DEF L!pickDumpFile
<1> HIDE DEF pick
<1>3. CASE named # {}
  <2>1. pick # <<>> /\ \E k \in named : pick[1] = fs[k]
    <3>1. pick = L!First(fs, named)
      BY <1>2, <1>3
    <3> HIDE DEF named
    <3> QED BY <1>1, <1>3, <3>1, FirstOfPlaces
  <2> QED BY <2>1 DEF pick
<1>4. CASE named = {} /\ ofJob # {}
  <2>1. pick # <<>> /\ \E k \in ofJob : pick[1] = fs[k]
    <3>1. pick = L!First(fs, ofJob)
      BY <1>2, <1>4
    <3> HIDE DEF ofJob
    <3> QED BY <1>1, <1>4, <3>1, FirstOfPlaces
  <2> QED BY <1>4, <2>1 DEF pick
<1>5. CASE named = {} /\ ofJob = {}
  <2>1. /\ part = {} => pick = <<>>
        /\ part # {} => pick # <<>> /\ \E k \in part : pick[1] = fs[k]
    <3>1. pick = L!First(fs, part)
      BY <1>2, <1>5
    <3> HIDE DEF part
    <3> QED BY <1>1, <3>1, FirstOfPlaces
  <2> QED BY <1>5, <2>1 DEF pick
<1> QED BY <1>3, <1>4, <1>5

\* pickPagesArticles takes no index.
LEMMA ArticlesPicked ==
    ASSUME ListingsAssumption, NEW fs \in Listings, fs # NoAnswer,
           L!pickPagesArticles(fs) # <<>>
    PROVE  "index" \notin L!pickPagesArticles(fs)[1].has
<1> DEFINE combined == {i \in DOMAIN fs : /\ "combined" \in fs[i].has
                                          /\ fs[i].has \cap {"multistream", "index"} = {}}
           smallest == {i \in combined : \A k \in combined : fs[i].size <= fs[k].size}
           others   == {i \in DOMAIN fs : /\ "pages-articles" \in fs[i].has
                                          /\ "index" \notin fs[i].has}
           pick     == L!pickPagesArticles(fs)
<1>1. smallest \in SUBSET Nat /\ others \in SUBSET Nat
  BY Listing
<1>2. /\ combined # {} => pick = L!First(fs, smallest)
      /\ combined = {} => pick = L!First(fs, others)
  BY DEF L!pickPagesArticles
<1>3. /\ \A k \in smallest : "index" \notin fs[k].has
      /\ \A k \in others : "index" \notin fs[k].has
  OBVIOUS
<1> HIDE DEF combined, smallest, others
<1>4. ASSUME NEW T \in SUBSET Nat, \A k \in T : "index" \notin fs[k].has,
             pick = L!First(fs, T)
      PROVE  "index" \notin pick[1].has
  <2> HIDE DEF pick
  <2>1. L!First(fs, T) # <<>>
    BY <1>4 DEF pick
  <2>2. PICK k \in T : L!First(fs, T)[1] = fs[k]
    BY <2>1, FirstOfPlaces
  <2> QED BY <1>4, <2>2
<1> QED BY <1>1, <1>2, <1>3, <1>4

(* The dates above those still to try have been asked, and none had what was *)
(* asked for. Tries is how many are tried, Low the last that is not.         *)

Tries == IF task # "tables" THEN 1
         ELSE IF Len(server) < TablesBack THEN Len(server) ELSE TablesBack
Low   == Len(server) - Tries

Failed(d) == server[d] # NoAnswer /\ L!Picked(server[d]) = <<>>
FailedAbove(d) == \A e \in DOMAIN server : e > d => Failed(e)

ListTypes == /\ task \in {"tables", "pages"} \cup Queries /\ server \in Seq(Listings)
             /\ answer \in {"dates", "noDates", "running", "taken", "error"}

ListRunning == answer = "running" =>
    /\ server # <<>> /\ dates \in Seq(Int) /\ Len(dates) <= Tries
    /\ \A i \in DOMAIN dates : dates[i] = Low + Len(dates) + 1 - i
    /\ FailedAbove(Low + Len(dates))

ListTaken == answer = "taken" =>
    /\ taken.date \in DOMAIN server /\ taken.date > Low
    /\ server[taken.date] # NoAnswer
    /\ taken.files = L!Picked(server[taken.date]) /\ taken.files # <<>>
    /\ FailedAbove(taken.date)

ListError == answer = "error" =>
    \/ server = <<>>
    \/ \E d \in DOMAIN server : d > Low /\ server[d] = NoAnswer
    \/ FailedAbove(Low)

ListInv == ListTypes /\ ListRunning /\ ListTaken /\ ListError

LEMMA ListStart ==
    ASSUME ListingsAssumption, Init, unit = "list"
    PROVE  ListInv
<1>1. L!Init
  BY DEF Init
<1>2. PICK n \in 0 .. MaxDates : server \in [1 .. n -> Listings]
  BY <1>1 DEF L!Init
<1>3. n \in Nat /\ server \in Seq(Listings)
  BY <1>2 DEF ListingsAssumption
<1> QED BY <1>1, <1>3 DEF L!Init, ListInv, ListTypes, ListRunning, ListTaken, ListError

\* A wiki with a dump has at least one date to try, and no more than it has dates.
LEMMA TriesBound ==
    ASSUME ListingsAssumption, ListTypes, server # <<>>
    PROVE  /\ Tries \in 1 .. Len(server) /\ Low \in 0 .. Len(server) - 1
           /\ Low + Tries = Len(server) /\ DOMAIN server = 1 .. Len(server)
           /\ Len(server) \in Nat
<1>1. Len(server) \in Nat \ {0} /\ DOMAIN server = 1 .. Len(server)
  BY DEF ListTypes
<1>2. TablesBack \in Nat \ {0}
  BY DEF ListingsAssumption
<1> QED BY <1>1, <1>2 DEF Tries, Low

LEMMA DatesKeep ==
    ASSUME ListingsAssumption, ListInv, L!Dates
    PROVE  ListInv'
<1> USE DEF ListInv
<1>1. UNCHANGED <<task, server, taken>>
  BY DEF L!Dates
<1>2. CASE server = <<>>
  BY <1>1, <1>2 DEF L!Dates, ListTypes, ListRunning, ListTaken, ListError
<1>3. CASE server # <<>>
  <2>1. answer' = "running" /\ dates' = [i \in 1 .. Tries |-> Len(server) + 1 - i]
    BY <1>3 DEF L!Dates, Tries
  <2>2. Tries' = Tries /\ Low' = Low
    BY <1>1 DEF Tries, Low
  <2>3. /\ Tries \in Nat /\ Len(server) \in Nat /\ Low + Tries = Len(server)
        /\ DOMAIN server = 1 .. Len(server)
    BY <1>3, TriesBound
  <2>4. /\ dates' \in Seq(Int) /\ Len(dates') = Tries
        /\ \A i \in DOMAIN dates' : dates'[i] = Low + Tries + 1 - i
    BY <2>1, <2>3
  <2>5. FailedAbove(Low + Len(dates))'
    BY <1>1, <2>2, <2>3, <2>4 DEF FailedAbove
  <2> QED BY <1>1, <1>3, <2>1, <2>2, <2>3, <2>4, <2>5 DEF ListTypes, ListRunning, ListTaken, ListError
<1> QED BY <1>2, <1>3

\* What fails depends only on what is asked and what the server lists.
LEMMA SameFailed ==
    ASSUME UNCHANGED <<task, server>>
    PROVE  /\ Tries' = Tries /\ Low' = Low
           /\ \A d : Failed(d)' <=> Failed(d)
           /\ \A d : L!Picked(server[d])' = L!Picked(server[d])
  BY DEF Tries, Low, Failed, L!Picked

LEMMA TryKeeps ==
    ASSUME ListingsAssumption, ListInv, L!Try
    PROVE  ListInv'
<1> USE DEF ListInv
<1> DEFINE n == Len(dates)
           d == Low + n
<1>1. answer = "running" /\ dates # <<>> /\ UNCHANGED <<task, server>>
  BY DEF L!Try
<1>2. /\ server # <<>> /\ dates \in Seq(Int) /\ n <= Tries
      /\ \A i \in DOMAIN dates : dates[i] = d + 1 - i
      /\ FailedAbove(d)
  BY <1>1 DEF ListRunning
<1>3. /\ n \in Nat \ {0} /\ Low \in Nat /\ d \in DOMAIN server /\ d > Low
      /\ DOMAIN server \subseteq Nat
  <2>1. /\ Tries \in 1 .. Len(server) /\ Low \in 0 .. Len(server) - 1
        /\ Low + Tries = Len(server) /\ DOMAIN server = 1 .. Len(server)
        /\ Len(server) \in Nat
    BY <1>2, TriesBound
  <2>2. n \in Nat \ {0}
    BY <1>1, <1>2
  <2> QED BY <1>2, <2>1, <2>2
<1>4. Head(dates) = d
  <2>1. 1 \in DOMAIN dates /\ Head(dates) = dates[1]
    BY <1>1, <1>2
  <2>2. dates[1] = d + 1 - 1
    BY <1>2, <2>1
  <2> QED BY <1>3, <2>1, <2>2
<1> HIDE DEF d
<1>5. CASE server[d] = NoAnswer
  <2>1. answer' = "error"
    BY <1>4, <1>5 DEF L!Try
  <2> QED BY <1>1, <1>3, <1>5, <2>1, SameFailed DEF ListTypes, ListRunning, ListTaken, ListError
<1>6. CASE server[d] # NoAnswer /\ L!Picked(server[d]) # <<>>
  <2>1. answer' = "taken" /\ taken' = [date |-> d, files |-> L!Picked(server[d])]
    BY <1>4, <1>6 DEF L!Try
  <2>2. taken'.date = d /\ taken'.files = L!Picked(server[d])
    BY <2>1
  <2>3. FailedAbove(d) => FailedAbove(taken.date)'
    BY <1>1, <2>2, SameFailed DEF FailedAbove
  <2>4. ListTaken'
    BY <1>1, <1>2, <1>3, <1>6, <2>2, <2>3, SameFailed DEF ListTaken
  <2> QED BY <1>1, <2>1, <2>4 DEF ListTypes, ListRunning, ListError
<1>7. CASE Failed(d)
  <2>1. dates' = Tail(dates) /\ answer' = answer
    BY <1>4, <1>7 DEF L!Try, Failed
  <2>2. /\ dates' \in Seq(Int) /\ Len(dates') = n - 1
        /\ \A i \in DOMAIN dates' : i \in Nat /\ i + 1 \in DOMAIN dates /\ dates'[i] = dates[i + 1]
    BY <1>1, <1>2, <2>1
  <2>3. d \in Nat /\ Low + Len(dates') = d - 1
    BY <1>3, <2>2 DEF d
  <2>4. ASSUME NEW i \in DOMAIN dates' PROVE dates'[i] = Low + Len(dates') + 1 - i
    <3>1. i \in Nat /\ dates'[i] = d + 1 - (i + 1)
      BY <1>2, <2>2
    <3> QED BY <2>3, <3>1
  <2>5. ASSUME NEW e \in DOMAIN server, e > Low + Len(dates') PROVE Failed(e)
    <3>1. e \in Nat
      BY <1>3
    <3>2. e = d \/ e > d
      BY <2>3, <2>5, <3>1
    <3> QED BY <1>2, <1>7, <3>2 DEF FailedAbove
  <2>6. FailedAbove(Low + Len(dates))'
    BY <1>1, <2>5, SameFailed DEF FailedAbove
  <2>7. Len(dates') <= Tries /\ Tries \in Nat
    BY <1>2, <1>3, <2>2, TriesBound
  <2>8. ListRunning'
    BY <1>1, <1>2, <2>2, <2>4, <2>6, <2>7, SameFailed DEF ListRunning
  <2> QED BY <1>1, <2>1, <2>8 DEF ListTypes, ListTaken, ListError
<1> QED BY <1>5, <1>6, <1>7 DEF Failed

LEMMA NoneLeftKeeps ==
    ASSUME ListingsAssumption, ListInv, L!NoneLeft
    PROVE  ListInv'
<1> USE DEF ListInv
<1>1. /\ answer = "running" /\ dates = <<>> /\ answer' = "error"
      /\ UNCHANGED <<task, server>>
  BY DEF L!NoneLeft
<1>2. FailedAbove(Low)
  <2>1. Low \in Nat /\ Len(dates) = 0 /\ FailedAbove(Low + Len(dates))
    BY <1>1, TriesBound DEF ListRunning
  <2> QED BY <2>1
<1>3. FailedAbove(Low)'
  BY <1>1, <1>2, SameFailed DEF FailedAbove
<1> QED BY <1>1, <1>3 DEF ListTypes, ListRunning, ListTaken, ListError

LEMMA DatesFailKeeps ==
    ASSUME ListInv, L!DatesFail
    PROVE  ListInv'
<1>1. answer' = "noDates" /\ UNCHANGED <<task, server, dates, taken>>
  BY DEF L!DatesFail
<1> QED BY <1>1 DEF ListInv, ListTypes, ListRunning, ListTaken, ListError

LEMMA ListKeeps ==
    ASSUME ListingsAssumption, ListInv, unit = "list", [Next]_vars
    PROVE  ListInv'
<1>1. CASE PickFiles
  BY <1>1, DatesKeep, DatesFailKeeps, TryKeeps, NoneLeftKeeps DEF PickFiles, L!Next
<1>2. CASE UNCHANGED vars
  <2>1. UNCHANGED <<task, server, dates, answer, taken>>
    BY <1>2 DEF vars, listVars
  <2> QED BY <2>1, SameFailed
          DEF ListInv, ListTypes, ListRunning, ListTaken, ListError, FailedAbove
<1> QED BY <1>1, <1>2 DEF Next, ReadSQL, ReadPages, ReadByID, AskAPI, FetchPages

\* A date on which `dump tables` finds nothing is not complete.
LEMMA FailedIncomplete ==
    ASSUME ListingsAssumption, ListTypes, task = "tables",
           NEW d \in DOMAIN server, Failed(d)
    PROVE  ~L!Complete(d)
<1> DEFINE fs == server[d]
<1>1. fs \in Listings /\ fs # NoAnswer /\ L!tableFiles(fs) = <<>>
  BY DEF ListTypes, Failed, L!Picked
<1>2. PICK i \in DOMAIN Tables : \A k \in L!PlacesOf(fs, Tables[i]) : fs[k].status # "done"
  BY <1>1, TablesPicked
<1> QED BY <1>2 DEF L!Complete, L!PlacesOf

LEMMA TablesRight ==
    ASSUME ListingsAssumption, ListInv, task = "tables", answer = "taken"
    PROVE  /\ L!Complete(taken.date)
           /\ \A d \in L!Tried : d > taken.date => ~L!Complete(d)
           /\ [i \in DOMAIN taken.files |-> taken.files[i].name] =
                  [i \in DOMAIN Tables |-> TableFile[Tables[i]].name]
<1> USE DEF ListInv
<1> DEFINE fs == server[taken.date]
<1>1. /\ taken.date \in DOMAIN server /\ fs \in Listings /\ fs # NoAnswer
      /\ taken.files = L!tableFiles(fs) /\ taken.files # <<>> /\ FailedAbove(taken.date)
  BY DEF ListTaken, ListTypes, L!Picked
<1> HIDE DEF fs
<1>2. /\ DOMAIN taken.files = DOMAIN Tables
      /\ \A i \in DOMAIN Tables : \E k \in L!PlacesOf(fs, Tables[i]) :
            fs[k].status = "done" /\ taken.files[i] = fs[k]
  BY <1>1, TablesPicked
<1>3. L!Complete(taken.date)
  BY <1>2 DEF L!Complete, L!PlacesOf, fs
<1>4. \A d \in L!Tried : d > taken.date => ~L!Complete(d)
  BY <1>1, FailedIncomplete DEF L!Tried, FailedAbove
<1>5. \A i \in DOMAIN Tables : taken.files[i].name = TableFile[Tables[i]].name
  BY <1>2 DEF L!PlacesOf
<1> QED BY <1>2, <1>3, <1>4, <1>5

LEMMA TablesError ==
    ASSUME ListingsAssumption, ListInv, task = "tables", answer = "error"
    PROVE  (\E d \in L!Tried : server[d] = NoAnswer) \/ (\A d \in L!Tried : ~L!Complete(d))
<1> USE DEF ListInv
<1>1. CASE server = <<>>
  BY <1>1 DEF L!Tried
<1>2. CASE server # <<>>
  <2>1. L!Tried = {d \in DOMAIN server : d > Low}
    <3>1. TablesBack \in Nat /\ Len(server) \in Nat /\ DOMAIN server \subseteq Nat
      BY <1>2, TriesBound DEF ListingsAssumption
    <3>2. \A d \in DOMAIN server : d > Len(server) - TablesBack <=> d > Low
      BY <1>2, <3>1, TriesBound DEF Low, Tries
    <3> QED BY <3>2 DEF L!Tried, L!Newest
  <2>2. CASE FailedAbove(Low)
    BY <2>1, <2>2, FailedIncomplete DEF FailedAbove
  <2>3. CASE \E d \in DOMAIN server : d > Low /\ server[d] = NoAnswer
    BY <2>1, <2>3
  <2> QED BY <1>2, <2>2, <2>3 DEF ListError
<1> QED BY <1>1, <1>2

\* `dump download` looks at the newest date only.
LEMMA QueryRight ==
    ASSUME ListingsAssumption, ListInv, task \in Queries, answer \in {"taken", "error"},
           server # <<>>
    PROVE  LET fs == server[L!Newest]
           IN  \/ fs = NoAnswer
               \/ IF \E k \in DOMAIN fs : fs[k].name = task THEN taken.files[1].name = task
                  ELSE (\E k \in DOMAIN fs : fs[k].job = task \/ task \in fs[k].has)
                          <=> (answer = "taken" /\ (taken.files[1].job = task
                                                     \/ task \in taken.files[1].has))
<1> USE DEF ListInv
<1> DEFINE n  == Len(server)
           fs == server[n]
<1>1. task \notin {"tables", "pages"}
  BY DEF ListingsAssumption
<1>2. /\ n \in Nat \ {0} /\ n \in DOMAIN server /\ fs \in Listings
      /\ \A d \in DOMAIN server : d > Low <=> d = n
      /\ Low < n
  BY <1>1, TriesBound DEF ListTypes, Low, Tries
<1>3. L!Picked(fs) = L!pickDumpFile(fs, task)
  BY <1>1 DEF L!Picked
<1> HIDE DEF fs
<1>4. CASE fs = NoAnswer
  BY <1>4 DEF L!Newest, fs
<1>5. CASE fs # NoAnswer /\ answer = "error"
  <2>1. L!pickDumpFile(fs, task) = <<>>
    BY <1>2, <1>3, <1>5 DEF ListError, FailedAbove, Failed, fs
  <2>2. \A k \in DOMAIN fs : fs[k].name # task /\ fs[k].job # task /\ task \notin fs[k].has
    BY <1>2, <1>5, <2>1, FilePicked
  <2> QED BY <1>5, <2>2 DEF L!Newest, fs
<1>6. CASE fs # NoAnswer /\ answer = "taken"
  <2>1. taken.files = L!pickDumpFile(fs, task) /\ taken.files # <<>>
    BY <1>2, <1>3, <1>6 DEF ListTaken, fs
  <2>2. PICK k \in DOMAIN fs :
           /\ taken.files[1] = fs[k]
           /\ \/ fs[k].name = task
              \/ /\ \A j \in DOMAIN fs : fs[j].name # task
                 /\ fs[k].job = task \/ task \in fs[k].has
    BY <1>2, <1>6, <2>1, FilePicked
  <2> QED BY <1>6, <2>2 DEF L!Newest, fs
<1> QED BY <1>4, <1>5, <1>6

LEMMA ArticlesRight ==
    ASSUME ListingsAssumption, ListInv, task = "pages", answer = "taken"
    PROVE  "index" \notin taken.files[1].has
<1> DEFINE fs == server[taken.date]
<1>1. /\ fs \in Listings /\ fs # NoAnswer
      /\ taken.files = L!pickPagesArticles(fs) /\ taken.files # <<>>
  BY DEF ListInv, ListTaken, ListTypes, L!Picked
<1> QED BY <1>1, ArticlesPicked

\* DumpTableFiles takes the files of the newest date that has them all, or says that
\* there is none among those it tries; pickDumpFile takes a file of the name it is
\* given before any other that fits, and pickPagesArticles no index.
THEOREM TheRightIsTaken == Spec => []TakesTheRight
<1> DEFINE Inv == unit = "list" => ListInv
<1>1. Init => Inv
  BY ListStart, ReadersAssumption DEF ReadersAssumption
<1>2. Inv /\ [Next]_vars => Inv'
  <2>1. [Next]_vars => unit' = unit
    BY DEF Next, vars, ReadSQL, ReadPages, ReadByID, AskAPI, PickFiles, FetchPages
  <2> QED BY <2>1, ListKeeps, ReadersAssumption DEF ReadersAssumption
<1>3. Inv => TakesTheRight
  BY TablesRight, TablesError, QueryRight, ArticlesRight, ReadersAssumption
     DEF TakesTheRight, L!TakesTheRight, ReadersAssumption
<1> QED BY <1>1, <1>2, <1>3, PTL DEF Spec

----------------------------------------------------------------------------
(* ProjectPages. The places of the pages, in the order of the loops.         *)

Places == Nat \X Nat \X Nat

LEMMA PlacesOrder ==
    /\ \A a, b, c \in Places : A!Before(a, b) /\ A!Before(b, c) => A!Before(a, c)
    /\ \A a \in Places : ~A!Before(a, a)
    /\ \A a, b \in Places : a = b \/ A!Before(a, b) \/ A!Before(b, a)
<1>1. \A a \in Places : /\ a[1] \in Nat /\ a[2] \in Nat /\ a[3] \in Nat
                       /\ a = <<a[1], a[2], a[3]>>
  BY DEF Places
<1>2. ASSUME NEW a \in Places, NEW b \in Places, NEW c \in Places,
             A!Before(a, b), A!Before(b, c)
      PROVE  A!Before(a, c)
  BY <1>1, <1>2 DEF A!Before
<1>3. ASSUME NEW a \in Places PROVE ~A!Before(a, a)
  BY <1>1 DEF A!Before
<1>4. ASSUME NEW a \in Places, NEW b \in Places, ~A!Before(a, b), ~A!Before(b, a)
      PROVE  a = b
  <2>1. a[1] = b[1] /\ a[2] = b[2] /\ a[3] = b[3]
    BY <1>1, <1>4 DEF A!Before
  <2> QED BY <1>1, <2>1
<1> QED BY <1>2, <1>3, <1>4

ApiTypes == /\ req \in Requests /\ list \in Seq(Parts) /\ list # <<>>
            /\ asked \in BOOLEAN /\ place \in Places /\ out \in Seq(Places)
            /\ answer \in {"running", "nil", "error"}

\* The page has been read; the loops have come to it or past it.
Past(c) == c = place \/ A!Before(c, place)

\* A request asks for the part after the one that has been read to its end.
ApiKeys ==
    /\ asked => place[1] \in DOMAIN list
    /\ (answer = "running" /\ ~asked) =>
          /\ A!PartAsked(keys) = place[1] + 1 /\ place[1] + 1 \in DOMAIN list
          /\ \A c \in A!Wanted : c[1] = place[1] => Past(c)

InOrder(s) == \A i, j \in DOMAIN s : i < j => A!Before(s[i], s[j])

ApiRead == /\ A!Seen = {c \in A!Wanted : Past(c)}
           /\ InOrder(out)

ApiLimit == req.limit > 0 => Len(out) < req.limit

ApiEnd == /\ answer = "running" => ApiLimit
          /\ req.limit > 0 => Len(out) <= req.limit
          /\ answer = "nil" => A!Seen = A!Wanted \/ (req.limit > 0 /\ Len(out) = req.limit)

ApiInv == ApiTypes /\ ApiKeys /\ ApiRead /\ ApiEnd

\* A page of the part n has n as the number of its part, and counts from 1.
LEMMA PartPlaces ==
    ASSUME PartsAssumption, ApiTypes, NEW n \in DOMAIN list
    PROVE  /\ A!PlacesIn(n) \subseteq Places
           /\ \A c \in A!PlacesIn(n) : c[1] = n /\ c[2] >= 1
<1> SUFFICES ASSUME NEW c \in A!PlacesIn(n) PROVE c \in Places /\ c[1] = n /\ c[2] >= 1
  OBVIOUS
<1>1. PICK i \in DOMAIN Projects : /\ Projects[i] \in DOMAIN list[n]
                                   /\ c \in {<<n, i, k>> : k \in DOMAIN list[n][Projects[i]]}
  BY DEF A!PlacesIn
<1>2. PICK k \in DOMAIN list[n][Projects[i]] : c = <<n, i, k>>
  BY <1>1
<1>3. n \in Nat /\ list[n] \in Parts
  BY DEF ApiTypes
<1>4. i \in Nat /\ i >= 1
  BY DEF PartsAssumption
<1>5. k \in Nat
  BY <1>1, <1>3 DEF PartsAssumption
<1> QED BY <1>2, <1>3, <1>4, <1>5 DEF Places

LEMMA WantedPlaces ==
    ASSUME PartsAssumption, ApiTypes
    PROVE  /\ A!Wanted \subseteq Places
           /\ \A c \in A!Wanted : /\ c[1] \in DOMAIN list /\ c[2] >= 1
                                  /\ c \in A!PlacesIn(c[1]) /\ A!Keeps(c)
           /\ \A n \in DOMAIN list : \A c \in A!PlacesIn(n) : A!Keeps(c) => c \in A!Wanted
  BY PartPlaces DEF A!Wanted

\* What a step leaves alone, the same pages are asked for.
LEMMA SameWanted ==
    ASSUME UNCHANGED <<req, list>>
    PROVE  A!Wanted' = A!Wanted
  BY DEF A!Wanted, A!PlacesIn, A!Keeps

LEMMA AppendSeen ==
    ASSUME NEW s \in Seq(Places), NEW c \in Places, InOrder(s),
           \A i \in DOMAIN s : A!Before(s[i], c)
    PROVE  /\ Append(s, c) \in Seq(Places) /\ Len(Append(s, c)) = Len(s) + 1
           /\ InOrder(Append(s, c))
           /\ {Append(s, c)[i] : i \in DOMAIN Append(s, c)} = {s[i] : i \in DOMAIN s} \cup {c}
<1> DEFINE t == Append(s, c)
<1>1. /\ t \in Seq(Places) /\ Len(t) = Len(s) + 1 /\ Len(s) \in Nat
      /\ DOMAIN t = 1 .. Len(s) + 1 /\ DOMAIN s = 1 .. Len(s)
      /\ t[Len(s) + 1] = c /\ \A i \in 1 .. Len(s) : t[i] = s[i]
  OBVIOUS
<1> HIDE DEF t
<1>2. \A i \in DOMAIN t : i # Len(s) + 1 => i \in DOMAIN s /\ t[i] = s[i]
  BY <1>1
<1>3. InOrder(t)
  <2> SUFFICES ASSUME NEW i \in DOMAIN t, NEW j \in DOMAIN t, i < j PROVE A!Before(t[i], t[j])
    BY DEF InOrder
  <2>1. i # Len(s) + 1 /\ i \in DOMAIN s /\ t[i] = s[i]
    BY <1>1, <1>2
  <2>2. CASE j = Len(s) + 1
    BY <1>1, <2>1, <2>2
  <2>3. CASE j # Len(s) + 1
    BY <1>2, <2>1, <2>3 DEF InOrder
  <2> QED BY <2>2, <2>3
<1>4. {t[i] : i \in DOMAIN t} = {s[i] : i \in DOMAIN s} \cup {c}
  <2>1. ASSUME NEW i \in DOMAIN t PROVE t[i] \in {s[k] : k \in DOMAIN s} \cup {c}
    BY <1>1, <1>2
  <2>2. ASSUME NEW i \in DOMAIN s PROVE s[i] \in {t[k] : k \in DOMAIN t}
    BY <1>1
  <2>3. c \in {t[k] : k \in DOMAIN t}
    BY <1>1
  <2> QED BY <2>1, <2>2, <2>3
<1> QED BY <1>1, <1>3, <1>4 DEF t

LEMMA ApiStart ==
    ASSUME PartsAssumption, Init, unit = "api"
    PROVE  ApiInv
<1>1. A!Init
  BY DEF Init
<1>2. PICK n \in 1 .. MaxParts : list \in [1 .. n -> Parts]
  BY <1>1 DEF A!Init
<1>3. n \in Nat /\ list \in Seq(Parts) /\ list # <<>> /\ 1 \in DOMAIN list /\ DOMAIN list \subseteq Nat
  BY <1>2 DEF PartsAssumption
<1>4. ApiTypes
  <2>1. <<0, 0, 0>> \in Places
    BY DEF Places
  <2>2. /\ req \in Requests /\ asked = FALSE /\ place \in Places /\ answer = "running"
        /\ out = <<>>
    BY <1>1, <2>1 DEF A!Init
  <2>3. <<>> \in Seq(Places)
    OBVIOUS
  <2> QED BY <1>3, <2>2, <2>3 DEF ApiTypes
<1>5. /\ place = <<0, 0, 0>> /\ place[1] = 0 /\ place[2] = 0 /\ out = <<>> /\ keys = <<>>
      /\ answer = "running" /\ asked = FALSE /\ A!Seen = {}
  BY <1>1 DEF A!Init, A!Seen
<1>6. \A c \in A!Wanted : c[1] \in Nat /\ c[1] # 0 /\ ~Past(c)
  <2> SUFFICES ASSUME NEW c \in A!Wanted PROVE c[1] \in Nat /\ c[1] # 0 /\ ~Past(c)
    OBVIOUS
  <2>1. c[1] \in DOMAIN list /\ c[1] >= 1 /\ c[1] \in Nat
    BY <1>3, <1>4, WantedPlaces DEF ApiTypes
  <2> QED BY <1>5, <2>1 DEF Past, A!Before
<1>7. ApiKeys
  BY <1>3, <1>5, <1>6 DEF ApiKeys, A!PartAsked
<1>8. ApiRead
  BY <1>5, <1>6 DEF ApiRead, InOrder
<1>9. ApiEnd
  BY <1>1, <1>5 DEF ApiEnd, ApiLimit, A!Init, PartsAssumption
<1> QED BY <1>4, <1>7, <1>8, <1>9 DEF ApiInv

LEMMA AskKeeps ==
    ASSUME PartsAssumption, ApiInv, A!Ask
    PROVE  ApiInv'
<1> USE DEF ApiInv
<1> DEFINE n == A!PartAsked(keys)
<1>1. /\ answer = "running" /\ asked = FALSE /\ asked' = TRUE /\ place' = <<n, 0, 0>>
      /\ UNCHANGED <<req, list, keys, out, answer>>
  BY DEF A!Ask, ApiTypes
<1>2. /\ n = place[1] + 1 /\ n \in DOMAIN list /\ n \in Nat /\ place[1] \in Nat
      /\ \A c \in A!Wanted : c[1] = place[1] => Past(c)
  BY <1>1 DEF ApiKeys, ApiTypes, Places
<1> HIDE DEF n
<1>3. place' \in Places /\ place'[1] = n /\ place'[2] = 0 /\ place'[3] = 0
  BY <1>1, <1>2 DEF Places
<1>4. A!Wanted' = A!Wanted
  BY <1>1, SameWanted
<1>5. ASSUME NEW c \in A!Wanted PROVE Past(c)' <=> Past(c)
  <2>1. /\ c[1] \in Nat /\ c[2] \in Nat /\ c[3] \in Nat /\ c[2] >= 1
        /\ place[1] \in Nat /\ place[2] \in Nat /\ place[3] \in Nat
    BY WantedPlaces DEF ApiTypes, Places
  <2>2. Past(c)' <=> c[1] < n
    BY <1>2, <1>3, <2>1 DEF Past, A!Before
  <2>3. Past(c) <=> c[1] <= place[1]
    BY <1>2, <2>1 DEF Past, A!Before
  <2> QED BY <1>2, <2>1, <2>2, <2>3
<1>6. ApiTypes'
  BY <1>1, <1>3 DEF ApiTypes
<1>7. ApiKeys'
  BY <1>1, <1>2, <1>3 DEF ApiKeys
<1>8. ApiRead' /\ ApiEnd'
  <2>1. A!Seen' = A!Seen
    BY <1>1 DEF A!Seen
  <2> QED BY <1>1, <1>4, <1>5, <2>1 DEF ApiRead, InOrder, ApiEnd, ApiLimit
<1> QED BY <1>6, <1>7, <1>8

\* The loops come to the next page: what is read now is what was, and that page.
LEMMA ReadMoves ==
    ASSUME PartsAssumption, ApiInv, NEW c \in A!Unread, A!Read(c)
    PROVE  /\ c \in Places /\ c[1] = place[1] /\ place[1] \in DOMAIN list
           /\ place' = c /\ A!Wanted' = A!Wanted
           /\ \A d \in A!Wanted : Past(d)' <=> Past(d) \/ d = c
           /\ \A i \in DOMAIN out : A!Before(out[i], c)
           /\ A!Keeps(c) <=> c \in A!Wanted
<1> USE DEF ApiInv
<1>1. /\ asked /\ place' = c /\ UNCHANGED <<req, list>>
      /\ \A d \in A!Unread : ~A!Before(d, c)
  BY DEF A!Read
<1>2. place[1] \in DOMAIN list /\ place \in Places
  BY <1>1 DEF ApiKeys, ApiTypes
<1>3. c \in A!PlacesIn(place[1]) /\ A!Before(place, c)
  BY DEF A!Unread
<1>4. c \in Places /\ c[1] = place[1]
  BY <1>2, <1>3, PartPlaces
<1>5. A!Wanted' = A!Wanted
  BY <1>1, SameWanted
<1>6. ASSUME NEW d \in A!Wanted PROVE Past(d)' <=> Past(d) \/ d = c
  <2>1. d \in Places /\ d \in A!PlacesIn(d[1])
    BY WantedPlaces
  <2>2. Past(d)' <=> d = c \/ A!Before(d, c)
    BY <1>1 DEF Past, A!Before
  <2>3. CASE Past(d)
    <3>1. A!Before(d, c)
      BY <1>2, <1>3, <1>4, <2>1, <2>3, PlacesOrder DEF Past
    <3> QED BY <2>2, <2>3, <3>1
  <2>4. CASE ~Past(d)
    <3>1. A!Before(place, d)
      BY <1>2, <2>1, <2>4, PlacesOrder DEF Past
    <3>2. ~A!Before(d, c)
      <4>1. CASE d[1] = place[1]
        BY <1>1, <2>1, <3>1, <4>1 DEF A!Unread
      <4>2. CASE d[1] # place[1]
        <5>1. d[1] \in Nat /\ place[1] \in Nat /\ c[1] \in Nat
          BY <1>2, <1>4, <2>1 DEF Places
        <5>2. d[1] > c[1]
          BY <1>4, <3>1, <4>2, <5>1 DEF A!Before
        <5> QED BY <5>1, <5>2 DEF A!Before
      <4> QED BY <4>1, <4>2
    <3> QED BY <2>2, <2>4, <3>2
  <2> QED BY <2>3, <2>4
<1>7. ASSUME NEW i \in DOMAIN out PROVE A!Before(out[i], c)
  <2>1. out[i] \in A!Wanted /\ Past(out[i])
    BY DEF ApiRead, A!Seen
  <2>2. out[i] \in Places
    BY <2>1, WantedPlaces
  <2> QED BY <1>2, <1>3, <1>4, <2>1, <2>2, PlacesOrder DEF Past
<1>8. A!Keeps(c) <=> c \in A!Wanted
  BY <1>2, <1>3, WantedPlaces
<1> QED BY <1>1, <1>2, <1>4, <1>5, <1>6, <1>7, <1>8

LEMMA SkipPageKeeps ==
    ASSUME PartsAssumption, ApiInv, NEW c \in A!Unread, A!Skip(c)
    PROVE  ApiInv'
<1> USE DEF ApiInv
<1>1. /\ A!Read(c) /\ ~A!Keeps(c) /\ asked
      /\ UNCHANGED <<req, list, keys, asked, out, answer>>
  BY DEF A!Skip, A!Read
<1>2. /\ c \in Places /\ c[1] = place[1] /\ place[1] \in DOMAIN list
      /\ place' = c /\ A!Wanted' = A!Wanted /\ c \notin A!Wanted
      /\ \A d \in A!Wanted : Past(d)' <=> Past(d) \/ d = c
  BY <1>1, ReadMoves
<1>3. A!Seen' = A!Seen
  BY <1>1 DEF A!Seen
<1>4. ApiRead'
  BY <1>1, <1>2, <1>3 DEF ApiRead, InOrder
<1> QED BY <1>1, <1>2, <1>3, <1>4 DEF ApiTypes, ApiKeys, ApiEnd, ApiLimit

\* fn is called with the page.
LEMMA FnCalled ==
    ASSUME PartsAssumption, ApiInv, NEW c \in A!Unread, A!Read(c), A!Keeps(c),
           out' = Append(out, c)
    PROVE  /\ out' \in Seq(Places) /\ Len(out') = Len(out) + 1 /\ ApiRead'
           /\ UNCHANGED <<req, list, keys, asked>> /\ asked /\ place' \in Places
           /\ place'[1] \in DOMAIN list /\ answer = "running"
<1> USE DEF ApiInv
<1>1. /\ UNCHANGED <<req, list, keys, asked>> /\ asked /\ answer = "running"
  BY DEF A!Read
<1>2. /\ c \in Places /\ c[1] = place[1] /\ place[1] \in DOMAIN list
      /\ place' = c /\ A!Wanted' = A!Wanted /\ c \in A!Wanted
      /\ \A d \in A!Wanted : Past(d)' <=> Past(d) \/ d = c
      /\ \A i \in DOMAIN out : A!Before(out[i], c)
  BY ReadMoves
<1> DEFINE longer == Append(out, c)
<1>3. /\ longer \in Seq(Places) /\ Len(longer) = Len(out) + 1 /\ InOrder(longer)
      /\ {longer[i] : i \in DOMAIN longer} = {out[i] : i \in DOMAIN out} \cup {c}
  <2>1. out \in Seq(Places) /\ InOrder(out)
    BY DEF ApiTypes, ApiRead
  <2> QED BY <1>2, <2>1, AppendSeen
<1> HIDE DEF longer
<1>4. out' = longer
  BY DEF longer
<1>5. A!Seen' = A!Seen \cup {c}
  BY <1>3, <1>4 DEF A!Seen
<1>6. ApiRead'
  BY <1>2, <1>3, <1>4, <1>5 DEF ApiRead, InOrder
<1> QED BY <1>1, <1>2, <1>3, <1>4, <1>6

LEMMA TakeKeeps ==
    ASSUME PartsAssumption, ApiInv, NEW c \in A!Unread, A!Take(c) \/ A!FnFails(c)
    PROVE  ApiInv'
<1> USE DEF ApiInv
<1>1. A!Read(c) /\ A!Keeps(c) /\ out' = Append(out, c)
  BY DEF A!Take, A!FnFails
<1>2. /\ out' \in Seq(Places) /\ Len(out') = Len(out) + 1 /\ ApiRead'
      /\ UNCHANGED <<req, list, keys, asked>> /\ asked /\ place' \in Places
      /\ place'[1] \in DOMAIN list /\ answer = "running"
  BY <1>1, FnCalled
<1>3. answer' \in {"running", "nil", "error"}
  BY DEF A!Take, A!FnFails
<1>4. ApiTypes' /\ ApiKeys'
  BY <1>2, <1>3 DEF ApiTypes, ApiKeys
<1>5. req.limit \in Int /\ Len(out) \in Nat /\ ApiLimit
  BY <1>2 DEF ApiTypes, ApiEnd, PartsAssumption
<1>6. CASE A!FnFails(c)
  <2>1. answer' = "error"
    BY <1>6 DEF A!FnFails
  <2> QED BY <1>2, <1>4, <1>5, <2>1 DEF ApiEnd, ApiLimit
<1>7. CASE A!Take(c) /\ req.limit > 0 /\ Len(out') >= req.limit
  <2>1. answer' = "nil" /\ Len(out') = req.limit
    BY <1>2, <1>5, <1>7 DEF A!Take, ApiLimit
  <2> QED BY <1>2, <1>4, <1>5, <2>1 DEF ApiEnd
<1>8. CASE A!Take(c) /\ ~(req.limit > 0 /\ Len(out') >= req.limit)
  <2>1. answer' = "running" /\ ApiLimit'
    BY <1>2, <1>5, <1>8 DEF A!Take, ApiLimit
  <2> QED BY <1>2, <1>4, <1>5, <2>1 DEF ApiEnd, ApiLimit
<1> QED BY <1>6, <1>7, <1>8

\* A part has been read to its end: the next request asks for the one after it.
LEMMA FollowKeeps ==
    ASSUME PartsAssumption, ApiInv, A!Follow
    PROVE  ApiInv'
<1> USE DEF ApiInv
<1>1. /\ answer = "running" /\ asked /\ A!Unread = {} /\ asked' = FALSE
      /\ UNCHANGED <<req, list, place, out>>
  BY DEF A!Follow
<1>2. /\ place[1] \in DOMAIN list /\ place \in Places /\ DOMAIN list = 1 .. Len(list)
      /\ Len(list) \in Nat
  BY <1>1 DEF ApiKeys, ApiTypes
<1>3. ASSUME NEW c \in A!Wanted, c[1] = place[1] PROVE Past(c)
  <2>1. c \in Places /\ c \in A!PlacesIn(place[1])
    BY <1>3, WantedPlaces
  <2>2. ~A!Before(place, c)
    BY <1>1, <2>1 DEF A!Unread
  <2> QED BY <1>2, <2>1, <2>2, PlacesOrder DEF Past
<1>4. A!Wanted' = A!Wanted /\ A!Seen' = A!Seen /\ \A c : Past(c)' <=> Past(c)
  BY <1>1, SameWanted DEF A!Seen, Past
<1>5. ApiRead' /\ (answer' = "running" => ApiLimit')
  BY <1>1, <1>4 DEF ApiRead, InOrder, ApiEnd, ApiLimit
<1>6. CASE place[1] < Len(list)
  <2> DEFINE cont == A!ContinueOf(place[1])
  <2>1. /\ cont = [key \in {"wppcontinue", "continue"} |-> place[1] + 1]
    BY <1>6 DEF A!ContinueOf
  <2>2. "wppcontinue" \in DOMAIN cont /\ cont["wppcontinue"] = place[1] + 1 /\ cont # <<>>
    BY <2>1
  <2> HIDE DEF cont
  <2>3. /\ answer' = "running"
        /\ keys' = [k \in DOMAIN keys \cup DOMAIN cont |->
                       IF k \in DOMAIN cont THEN cont[k] ELSE keys[k]]
    BY <1>1, <2>2 DEF A!Follow, A!Ended, cont
  <2>4. "wppcontinue" \in DOMAIN keys' /\ keys'["wppcontinue"] = place[1] + 1
    BY <2>2, <2>3
  <2>5. A!PartAsked(keys)' = place[1] + 1
    BY <2>4 DEF A!PartAsked
  <2>6. place[1] + 1 \in DOMAIN list
    BY <1>2, <1>6
  <2>7. ApiKeys'
    BY <1>1, <1>3, <1>4, <2>5, <2>6 DEF ApiKeys
  <2> QED BY <1>1, <1>5, <2>3, <2>7 DEF ApiTypes, ApiEnd
<1>7. CASE ~(place[1] < Len(list))
  <2>1. answer' = "nil"
    BY <1>7 DEF A!Follow, A!Ended, A!ContinueOf
  <2>2. ASSUME NEW c \in A!Wanted PROVE Past(c)
    <3>1. c[1] \in DOMAIN list
      BY WantedPlaces
    <3>2. c[1] = place[1] \/ c[1] < place[1]
      BY <1>2, <1>7, <3>1
    <3>3. CASE c[1] < place[1]
      BY <3>3 DEF Past, A!Before
    <3> QED BY <1>3, <3>2, <3>3
  <2>3. A!Seen = A!Wanted
    BY <2>2 DEF ApiRead
  <2>4. ApiKeys'
    BY <1>1, <2>1 DEF ApiKeys
  <2> QED BY <1>1, <1>4, <1>5, <2>1, <2>3, <2>4 DEF ApiTypes, ApiEnd
<1> QED BY <1>6, <1>7

LEMMA ApiKeeps ==
    ASSUME PartsAssumption, ApiInv, unit = "api", [Next]_vars
    PROVE  ApiInv'
<1>1. CASE AskAPI
  <2>1. CASE A!AskFails
    <3>1. UNCHANGED <<req, list, keys, asked, place, out>> /\ answer' = "error"
      BY <2>1 DEF A!AskFails
    <3>2. A!Wanted' = A!Wanted /\ A!Seen' = A!Seen /\ \A c : Past(c)' <=> Past(c)
      BY <3>1, SameWanted DEF A!Seen, Past
    <3> QED BY <3>1, <3>2 DEF ApiInv, ApiTypes, ApiKeys, ApiRead, InOrder, ApiEnd
  <2> QED BY <1>1, <2>1, AskKeeps, FollowKeeps, SkipPageKeeps, TakeKeeps DEF AskAPI, A!Next
<1>2. CASE UNCHANGED vars
  <2>1. UNCHANGED <<req, list, keys, asked, place, out, answer>>
    BY <1>2 DEF vars, apiVars
  <2>2. A!Wanted' = A!Wanted /\ A!Seen' = A!Seen /\ \A c : Past(c)' <=> Past(c)
    BY <2>1, SameWanted DEF A!Seen, Past
  <2>3. A!PartAsked(keys)' = A!PartAsked(keys)
    BY <2>1 DEF A!PartAsked
  <2> QED BY <2>1, <2>2, <2>3
          DEF ApiInv, ApiTypes, ApiKeys, ApiRead, InOrder, ApiEnd, ApiLimit
<1> QED BY <1>1, <1>2 DEF Next, ReadSQL, ReadPages, ReadByID, PickFiles, FetchPages

LEMMA ApiImplies == PartsAssumption /\ ApiInv => A!EachPageOnce
<1> SUFFICES ASSUME PartsAssumption, ApiInv PROVE A!EachPageOnce
  OBVIOUS
<1> USE DEF ApiInv
<1>1. \A c \in A!Wanted : \A w \in A!Seen : A!Before(c, w) => c \in A!Seen
  <2> SUFFICES ASSUME NEW c \in A!Wanted, NEW w \in A!Seen, A!Before(c, w) PROVE Past(c)
    BY DEF ApiRead
  <2>1. c \in Places /\ w \in Places /\ Past(w) /\ place \in Places
    BY WantedPlaces DEF ApiRead, ApiTypes
  <2> QED BY <2>1, PlacesOrder DEF Past
<1> QED BY <1>1 DEF A!EachPageOnce, ApiRead, InOrder, ApiEnd

\* projectPages calls fn with each page of the namespace once and in the order of the
\* API's list, over all its continuations, and gives nil only when it has seen them
\* all or as many as the limit.
THEOREM EachPageIsSeenOnce == Spec => []EachPageOnce
<1> DEFINE Inv == unit = "api" => ApiInv
<1>1. Init => Inv
  BY ApiStart, ReadersAssumption DEF ReadersAssumption
<1>2. Inv /\ [Next]_vars => Inv'
  <2>1. [Next]_vars => unit' = unit
    BY DEF Next, vars, ReadSQL, ReadPages, ReadByID, AskAPI, PickFiles, FetchPages
  <2> QED BY <2>1, ApiKeeps, ReadersAssumption DEF ReadersAssumption
<1>3. Inv => EachPageOnce
  BY ApiImplies, ReadersAssumption DEF EachPageOnce, ReadersAssumption
<1> QED BY <1>1, <1>2, <1>3, PTL DEF Spec

----------------------------------------------------------------------------
(* PagesByID. The places of the elements, in the order of the dump.          *)

Cells == Nat \X Nat

LEMMA CellsOrder ==
    /\ \A a, b, c \in Cells : I!Before(a, b) /\ I!Before(b, c) => I!Before(a, c)
    /\ \A a \in Cells : ~I!Before(a, a)
    /\ \A a, b \in Cells : a = b \/ I!Before(a, b) \/ I!Before(b, a)
<1>1. \A a \in Cells : a[1] \in Nat /\ a[2] \in Nat /\ a = <<a[1], a[2]>>
  BY DEF Cells
<1>2. ASSUME NEW a \in Cells, NEW b \in Cells, NEW c \in Cells,
             I!Before(a, b), I!Before(b, c)
      PROVE  I!Before(a, c)
  BY <1>1, <1>2 DEF I!Before
<1>3. ASSUME NEW a \in Cells PROVE ~I!Before(a, a)
  BY <1>1 DEF I!Before
<1>4. ASSUME NEW a \in Cells, NEW b \in Cells, ~I!Before(a, b), ~I!Before(b, a)
      PROVE  a = b
  <2>1. a[1] = b[1] /\ a[2] = b[2]
    BY <1>1, <1>4 DEF I!Before
  <2> QED BY <1>1, <2>1
<1> QED BY <1>2, <1>3, <1>4

Ranges == [start : Nat, end : Int]

IDsTypes == /\ dump \in Seq(StreamTexts) /\ limit \in Limits
            /\ entry \in Cells /\ cur \in Int /\ need \in BOOLEAN
            /\ streams \in Seq(Ranges) /\ stream \in 0 .. Len(streams)
            /\ page \in Cells /\ out \in Seq(Cells)
            /\ answer \in {"index", "read", "pages", "ok", "noResults", "error"}

\* A picked stream holds a wanted page, and ends where the next page of another
\* stream is, or with the file.
RightStream(s) ==
    /\ s.start \in I!Hit
    /\ s.end < 0 \/ (s.start < s.end /\ \E d \in I!Index : d[1] = s.end)
    /\ \A d \in I!Index : d[1] > s.start => s.end >= 0 /\ s.end <= d[1]

IDsStreams == /\ \A n \in DOMAIN streams : RightStream(streams[n])
              /\ \A m, n \in DOMAIN streams : m < n => streams[m].start < streams[n].start

Picked(i) == \E n \in DOMAIN streams : streams[n].start = i

\* The walk of the index has come to the entry, or past it.
Walked(c) == c = entry \/ I!Before(c, entry)

IDsWalk ==
    /\ \/ entry = <<0, 0>> /\ cur = -1
       \/ entry \in I!Index /\ cur = entry[1]
    /\ need <=> \E c \in I!Index : c[1] = cur /\ Walked(c) /\ I!Wanted(I!Elem(c))
    /\ \A n \in DOMAIN streams : streams[n].start < cur
    /\ \A i \in I!Hit : i < cur => Picked(i)
    /\ seen = {I!Elem(c) : c \in {e \in I!Index : I!Wanted(I!Elem(e)) /\ Walked(e)}}
    /\ stream = 0 /\ out = <<>>

IDsPicked == /\ \A i \in I!Hit : Picked(i)
             /\ seen = {I!Elem(c) : c \in {e \in I!Index : I!Wanted(I!Elem(e))}}

Given(c) == c = page \/ I!Before(c, page)

\* Where the reading of the streams stands.
IDsRead ==
    /\ answer \in {"read", "pages"} =>
         /\ \A m \in 1 .. stream : I!Decodes(streams[m])
         /\ limit > 0 => Len(out) < limit
    /\ answer = "read" =>
         I!Written = {c \in I!Reachable : stream > 0 /\ c[1] <= streams[stream].start}
    /\ answer = "pages" =>
         /\ stream > 0
         /\ I!Written = {c \in I!Reachable : \/ c[1] < streams[stream].start
                                             \/ c[1] = streams[stream].start /\ Given(c)}

AllBefore(s) == \A i, j \in DOMAIN s : i < j => I!Before(s[i], s[j])

IDsWritten == /\ I!Written \subseteq I!Reachable /\ AllBefore(out)
              /\ \A c \in I!Reachable : \A w \in I!Written : I!Before(c, w) => c \in I!Written
              /\ limit > 0 => Len(out) <= limit

IDsEnd == /\ answer = "ok" => out # <<>>
          /\ answer = "noResults" => out = <<>>
          /\ answer \in {"ok", "noResults"} =>
                \/ limit > 0 /\ Len(out) = limit
                \/ I!Written = I!Reachable /\ \A i \in I!Hit : ~I!Fails(i)
          /\ answer = "error" => \E i \in I!Hit : I!Fails(i)

IDsInv == /\ IDsTypes /\ IDsStreams /\ IDsRead /\ IDsWritten /\ IDsEnd
          /\ answer = "index" => IDsWalk
          /\ answer # "index" => IDsPicked

LEMMA DumpCells ==
    ASSUME StreamsAssumption, IDsTypes
    PROVE  /\ I!Places \subseteq Cells /\ I!Index \subseteq I!Places
           /\ I!Reachable \subseteq I!Index
           /\ \A c \in I!Places : c[1] \in 1 .. Len(dump) /\ c[2] >= 1
           /\ \A c \in I!Index : I!Wanted(I!Elem(c)) => c[1] \in I!Hit
           /\ \A i \in I!Hit : i \in 1 .. Len(dump) /\ \E c \in I!Index : c[1] = i /\ I!Wanted(I!Elem(c))
<1>1. ASSUME NEW c \in I!Places PROVE c \in Cells /\ c[1] \in 1 .. Len(dump) /\ c[2] >= 1
  <2>1. PICK i \in DOMAIN dump : c \in {<<i, k>> : k \in DOMAIN dump[i]}
    BY DEF I!Places
  <2>2. PICK k \in DOMAIN dump[i] : c = <<i, k>>
    BY <2>1
  <2>3. i \in 1 .. Len(dump) /\ i \in Nat /\ dump[i] \in StreamTexts
    BY DEF IDsTypes
  <2>4. k \in Nat /\ k >= 1
    BY <2>3 DEF StreamsAssumption
  <2> QED BY <2>2, <2>3, <2>4 DEF Cells
<1>2. I!Index \subseteq I!Places /\ I!Reachable \subseteq I!Index
  BY DEF I!Index, I!Reachable, I!Asked
<1>3. \A c \in I!Index : I!Wanted(I!Elem(c)) => c[1] \in I!Hit
  BY DEF I!Hit, I!Asked
<1>4. ASSUME NEW i \in I!Hit
      PROVE  i \in 1 .. Len(dump) /\ \E c \in I!Index : c[1] = i /\ I!Wanted(I!Elem(c))
  <2>1. PICK c \in {e \in I!Index : I!Wanted(I!Elem(e))} : c[1] = i
    BY DEF I!Hit, I!Asked
  <2> QED BY <1>1, <1>2, <2>1
<1> QED BY <1>1, <1>2, <1>3, <1>4

LEMMA RangeStarts ==
    ASSUME NEW s \in Seq(Ranges), NEW n \in DOMAIN s
    PROVE  s[n] \in Ranges /\ s[n].start \in Nat
<1>1. s[n] \in Ranges
  OBVIOUS
<1> QED BY <1>1 DEF Ranges

LEMMA SameDump ==
    ASSUME UNCHANGED <<dump, ids>>
    PROVE  /\ I!Places' = I!Places /\ I!Index' = I!Index /\ I!Reachable' = I!Reachable
           /\ I!Hit' = I!Hit
           /\ \A s : RightStream(s)' <=> RightStream(s)
           /\ \A s : I!Decodes(s)' <=> I!Decodes(s)
           /\ \A i : I!Fails(i)' <=> I!Fails(i)
           /\ \A c : I!Wanted(I!Elem(c))' <=> I!Wanted(I!Elem(c))
           /\ \A c : I!Elem(c)' = I!Elem(c)
<1>1. I!Places' = I!Places /\ \A c : I!Elem(c)' = I!Elem(c)
  BY DEF I!Places, I!Elem
<1>2. \A c : I!Wanted(I!Elem(c))' <=> I!Wanted(I!Elem(c))
  BY <1>1 DEF I!Wanted
<1>3. I!Index' = I!Index
  BY <1>1 DEF I!Index
<1>4. I!Reachable' = I!Reachable /\ I!Hit' = I!Hit
  BY <1>1, <1>2, <1>3 DEF I!Reachable, I!Hit, I!Asked
<1>5. \A s : RightStream(s)' <=> RightStream(s)
  BY <1>3, <1>4 DEF RightStream
<1>6. \A s : I!Decodes(s)' <=> I!Decodes(s)
  <2>1. \A s : I!Section(s)' = I!Section(s)
    BY <1>1 DEF I!Section, I!End, I!Size
  <2> QED BY <1>1, <2>1 DEF I!Decodes
<1>7. \A i : I!Fails(i)' <=> I!Fails(i)
  BY <1>1, <1>3 DEF I!Fails
<1> QED BY <1>1, <1>2, <1>3, <1>4, <1>5, <1>6, <1>7

\* What a picked stream gives: the wanted pages that its own stream reaches, and a
\* failure just when that stream fails.
LEMMA StreamGives ==
    ASSUME StreamsAssumption, IDsTypes, NEW s \in Ranges, RightStream(s)
    PROVE  /\ I!InFile(s)
           /\ I!Decodes(s) <=> ~I!Fails(s.start)
           /\ I!Decodes(s) => \A c : (c \in I!PagesOf(s) /\ I!Wanted(I!Elem(c)))
                                        <=> (c \in I!Reachable /\ c[1] = s.start)
<1>1. /\ s.start \in Nat /\ s.end \in Int /\ s.start \in 1 .. Len(dump) /\ Len(dump) \in Nat
      /\ s.start \in I!Hit
  BY DumpCells DEF Ranges, RightStream, IDsTypes
<1> DEFINE end == I!End(s)
<1>2. /\ end = IF s.end < 0 THEN Len(dump) + 1 ELSE s.end
      /\ I!Section(s) = {c \in I!Places : s.start <= c[1] /\ c[1] < end}
  BY DEF I!End, I!Size, I!Section
<1>3. end \in Nat /\ s.start < end /\ end <= Len(dump) + 1
  <2>1. CASE s.end < 0
    BY <1>1, <1>2, <2>1
  <2>2. CASE s.end >= 0
    <3>1. PICK d \in I!Index : d[1] = s.end
      BY <1>1, <2>2 DEF RightStream
    <3>2. s.end \in 1 .. Len(dump)
      BY <3>1, DumpCells
    <3> QED BY <1>1, <1>2, <2>2, <3>2 DEF RightStream
  <2> QED BY <1>1, <2>1, <2>2
<1>4. I!InFile(s)
  BY <1>1, <1>3 DEF I!InFile, I!Size
\* No page of another stream in the section, and one right after it.
<1>5. ASSUME NEW d \in I!Index PROVE d[1] \in 1 .. Len(dump) /\ (d[1] <= s.start \/ end <= d[1])
  <2>1. d[1] \in 1 .. Len(dump)
    BY DumpCells
  <2> QED BY <1>1, <1>2, <2>1 DEF RightStream
<1>6. end > Len(dump) \/ \E d \in I!Index : d[1] = end
  BY <1>1, <1>2 DEF RightStream
<1> HIDE DEF end
<1>7. \A c \in I!Places : c \in Cells /\ c[1] \in Nat /\ c[1] <= Len(dump)
  BY DumpCells DEF Cells
<1>8. ASSUME ~I!Decodes(s) PROVE I!Fails(s.start)
  <2>1. PICK c \in I!Section(s) : /\ I!Elem(c) = Broken
                                  /\ \A d \in I!Section(s) : I!Elem(d) = Edge => ~I!Before(d, c)
    BY <1>8 DEF I!Decodes
  <2>2. c \in I!Places /\ s.start <= c[1] /\ c[1] < end
    BY <1>2, <2>1
  <2>3. \A d \in I!Index : d[1] <= s.start \/ d[1] > c[1]
    BY <1>1, <1>3, <1>5, <1>7, <2>2
  <2>4. ASSUME NEW d \in I!Places, I!Elem(d) = Edge, s.start <= d[1] PROVE ~I!Before(d, c)
    <3>1. CASE d[1] < end
      BY <1>2, <2>1, <2>4, <3>1
    <3>2. CASE ~(d[1] < end)
      BY <1>3, <1>7, <2>2, <3>2 DEF I!Before
    <3> QED BY <3>1, <3>2
  <2> QED BY <2>1, <2>2, <2>3, <2>4 DEF I!Fails
<1>9. ASSUME I!Fails(s.start) PROVE ~I!Decodes(s)
  <2>1. PICK c \in I!Places :
               /\ I!Elem(c) = Broken /\ s.start <= c[1]
               /\ \A d \in I!Index : d[1] <= s.start \/ d[1] > c[1]
               /\ \A d \in I!Places : I!Elem(d) = Edge /\ s.start <= d[1] => ~I!Before(d, c)
    BY <1>9 DEF I!Fails
  <2>2. c[1] < end
    BY <1>1, <1>3, <1>6, <1>7, <2>1
  <2>3. c \in I!Section(s) /\ \A d \in I!Section(s) : I!Elem(d) = Edge => ~I!Before(d, c)
    BY <1>2, <2>1, <2>2
  <2> QED BY <2>1, <2>3 DEF I!Decodes
<1>10. ASSUME I!Decodes(s), NEW c, c \in I!PagesOf(s), I!Wanted(I!Elem(c))
       PROVE  c \in I!Reachable /\ c[1] = s.start
  <2>1. /\ c \in I!Section(s) /\ I!Elem(c) \in IDs
        /\ \A d \in I!Section(s) : I!Elem(d) = Edge => ~I!Before(d, c)
    BY <1>10 DEF I!PagesOf
  <2>2. c \in I!Index /\ c \in I!Places /\ s.start <= c[1] /\ c[1] < end
    BY <1>2, <2>1 DEF I!Index
  <2>3. c[1] = s.start
    BY <1>1, <1>3, <1>5, <1>7, <2>2
  <2>4. ASSUME NEW d \in I!Places, d[1] = c[1], I!Elem(d) \in {Edge, Broken}
        PROVE  I!Before(c, d)
    <3>1. d \in I!Section(s)
      BY <1>2, <2>2, <2>4
    <3>2. ~I!Before(d, c)
      <4>1. CASE I!Elem(d) = Edge
        BY <2>1, <3>1, <4>1
      <4>2. CASE I!Elem(d) = Broken
        <5>1. PICK e \in I!Section(s) : I!Elem(e) = Edge /\ I!Before(e, d)
          BY <1>10, <3>1, <4>2 DEF I!Decodes
        <5>2. ~I!Before(e, c) /\ e \in Cells /\ d \in Cells /\ c \in Cells
          BY <1>2, <1>7, <2>1, <2>2, <2>4, <5>1
        <5> QED BY <5>1, <5>2, CellsOrder
      <4> QED BY <2>4, <4>1, <4>2
    <3>3. c # d
      BY <2>1, <2>4 DEF StreamsAssumption
    <3> QED BY <1>7, <2>2, <2>4, <3>2, <3>3, CellsOrder
  <2> QED BY <1>10, <2>2, <2>3, <2>4 DEF I!Reachable, I!Asked
<1>11. ASSUME NEW c \in I!Reachable, c[1] = s.start
       PROVE  c \in I!PagesOf(s) /\ I!Wanted(I!Elem(c))
  <2>1. /\ c \in I!Index /\ c \in I!Places /\ I!Elem(c) \in IDs /\ I!Wanted(I!Elem(c))
        /\ \A d \in I!Places : d[1] = c[1] /\ I!Elem(d) \in {Edge, Broken} => I!Before(c, d)
    BY DEF I!Reachable, I!Asked, I!Index
  <2>2. c \in I!Section(s)
    BY <1>1, <1>2, <1>3, <1>11, <2>1
  <2>3. ASSUME NEW d \in I!Section(s), I!Elem(d) = Edge PROVE ~I!Before(d, c)
    <3>1. d \in I!Places /\ s.start <= d[1] /\ d \in Cells /\ c \in Cells
      BY <1>2, <1>7, <2>1
    <3>2. CASE d[1] = s.start
      <4>1. I!Before(c, d)
        BY <1>11, <2>1, <2>3, <3>1, <3>2
      <4> QED BY <3>1, <4>1, CellsOrder
    <3>3. CASE d[1] # s.start
      BY <1>1, <1>7, <1>11, <2>1, <3>1, <3>3 DEF I!Before
    <3> QED BY <3>2, <3>3
  <2> QED BY <2>1, <2>2, <2>3 DEF I!PagesOf
<1> QED BY <1>4, <1>8, <1>9, <1>10, <1>11

LEMMA IDsStart ==
    ASSUME StreamsAssumption, Init, unit = "ids"
    PROVE  IDsInv
<1>1. I!Init
  BY DEF Init
<1>2. PICK n \in 0 .. MaxStreams : dump \in [1 .. n -> StreamTexts]
  BY <1>1 DEF I!Init
<1>3. /\ entry = <<0, 0>> /\ cur = -1 /\ need = FALSE /\ seen = {} /\ streams = <<>>
      /\ stream = 0 /\ page = <<0, 0>> /\ out = <<>> /\ answer = "index" /\ limit \in Limits
  BY <1>1 DEF I!Init
<1>4. n \in Nat /\ dump \in Seq(StreamTexts) /\ <<0, 0>> \in Cells
  BY <1>2 DEF StreamsAssumption, Cells
<1>5. IDsTypes
  <2>1. <<>> \in Seq(Ranges) /\ <<>> \in Seq(Cells) /\ Len(<<>>) = 0
    OBVIOUS
  <2>2. streams \in Seq(Ranges) /\ out \in Seq(Cells) /\ stream \in 0 .. Len(streams)
    BY <1>3, <2>1
  <2>3. entry \in Cells /\ page \in Cells /\ cur \in Int
    BY <1>3, <1>4
  <2>4. need \in BOOLEAN /\ answer \in {"index", "read", "pages", "ok", "noResults", "error"}
    BY <1>3
  <2> QED BY <1>3, <1>4, <2>2, <2>3, <2>4 DEF IDsTypes
<1>6. ASSUME NEW c \in I!Index PROVE c[1] # -1 /\ ~Walked(c)
  <2>1. c \in Cells /\ c[1] \in Nat /\ c[2] \in Nat /\ c[1] >= 1
    BY <1>5, DumpCells DEF Cells
  <2> QED BY <1>3, <2>1 DEF Walked, I!Before
<1>7. IDsWalk
  <2>1. \A i \in I!Hit : ~(i < cur)
    BY <1>3, <1>5, DumpCells
  <2>2. {I!Elem(c) : c \in {e \in I!Index : I!Wanted(I!Elem(e)) /\ Walked(e)}} = {}
    BY <1>6
  <2>3. \A k \in DOMAIN streams : FALSE
    BY <1>3
  <2> QED BY <1>3, <1>6, <2>1, <2>2, <2>3 DEF IDsWalk
<1>8. I!Written = {} /\ Len(out) = 0 /\ \A k \in DOMAIN out : FALSE
  BY <1>3 DEF I!Written
<1>9. IDsStreams /\ IDsRead /\ IDsEnd
  <2>1. \A k \in DOMAIN streams : FALSE
    BY <1>3
  <2>2. IDsStreams
    BY <2>1 DEF IDsStreams
  <2> QED BY <1>3, <2>2 DEF IDsRead, IDsEnd
<1>10. IDsWritten
  <2>1. limit > 0 => Len(out) <= limit
    BY <1>3, <1>8 DEF StreamsAssumption
  <2> QED BY <1>8, <2>1 DEF IDsWritten, AllBefore
<1> QED BY <1>3, <1>5, <1>7, <1>9, <1>10 DEF IDsInv

\* The streams picked and s, which comes after them.
PickedAnd(t, s) ==
    /\ t \in Seq(Ranges) /\ Len(t) = Len(streams) + 1
    /\ \A n \in DOMAIN t : RightStream(t[n]) /\ t[n].start <= s.start
    /\ \A m, n \in DOMAIN t : m < n => t[m].start < t[n].start
    /\ \A i : (\E n \in DOMAIN t : t[n].start = i) <=> Picked(i) \/ i = s.start

LEMMA AppendStream ==
    ASSUME IDsTypes, IDsStreams, NEW s \in Ranges, RightStream(s),
           \A n \in DOMAIN streams : streams[n].start < s.start
    PROVE  PickedAnd(Append(streams, s), s)
<1> DEFINE t == Append(streams, s)
<1>1. /\ t \in Seq(Ranges) /\ Len(t) = Len(streams) + 1 /\ Len(streams) \in Nat
      /\ DOMAIN t = 1 .. Len(streams) + 1 /\ DOMAIN streams = 1 .. Len(streams)
      /\ t[Len(streams) + 1] = s /\ \A n \in 1 .. Len(streams) : t[n] = streams[n]
  BY DEF IDsTypes
<1> HIDE DEF t
<1>2. \A n \in DOMAIN t : n = Len(streams) + 1 \/ (n \in DOMAIN streams /\ t[n] = streams[n])
  BY <1>1
<1>3. s.start \in Nat /\ \A n \in DOMAIN streams : streams[n].start \in Nat
  <2>1. streams \in Seq(Ranges)
    BY DEF IDsTypes
  <2> QED BY <2>1, RangeStarts DEF Ranges
<1>4. \A n \in DOMAIN t : RightStream(t[n]) /\ t[n].start <= s.start
  BY <1>1, <1>2, <1>3 DEF IDsStreams
<1>5. ASSUME NEW m \in DOMAIN t, NEW n \in DOMAIN t, m < n PROVE t[m].start < t[n].start
  <2>1. m \in DOMAIN streams /\ t[m] = streams[m]
    BY <1>1, <1>2, <1>5
  <2>2. CASE n = Len(streams) + 1
    BY <1>1, <2>1, <2>2
  <2>3. CASE n \in DOMAIN streams /\ t[n] = streams[n]
    BY <1>5, <2>1, <2>3 DEF IDsStreams
  <2> QED BY <1>2, <2>2, <2>3
<1>6. ASSUME NEW i PROVE (\E n \in DOMAIN t : t[n].start = i) <=> Picked(i) \/ i = s.start
  BY <1>1, <1>2 DEF Picked
<1> QED BY <1>1, <1>4, <1>5, <1>6 DEF PickedAnd, t

\* The next entry: what has been walked is what was, and that entry.
LEMMA EntryMoves ==
    ASSUME StreamsAssumption, IDsTypes, IDsWalk,
           NEW e \in I!First({c \in I!Index : I!Before(entry, c)})
    PROVE  /\ e \in I!Index /\ e \in Cells /\ e[1] \in Nat /\ cur <= e[1]
           /\ \A d \in I!Index : d[1] > cur => e[1] <= d[1]
           /\ \A d \in I!Index : d[1] \in Nat /\ (Walked(d) => d[1] <= cur)
           /\ \A d \in I!Index : d[1] = cur /\ d[1] < e[1] => Walked(d)
           /\ \A d \in I!Index : Walked(d) \/ d = e <=> (d = e \/ I!Before(d, e))
<1>1. /\ e \in I!Index /\ I!Before(entry, e)
      /\ \A d \in I!Index : I!Before(entry, d) => ~I!Before(d, e)
  BY DEF I!First
<1>2. /\ entry \in Cells /\ cur \in Int /\ e \in Cells
      /\ \A d \in I!Index : d \in Cells /\ d[1] \in Nat /\ d[2] \in Nat /\ d[1] >= 1
      /\ entry[1] \in Nat /\ entry[2] \in Nat /\ e[1] \in Nat /\ e[2] \in Nat
  BY <1>1, DumpCells DEF IDsTypes, Cells
<1>3. (entry[1] = 0 /\ entry[2] = 0 /\ cur = -1) \/ cur = entry[1]
  BY DEF IDsWalk
<1>4. cur <= e[1]
  BY <1>1, <1>2, <1>3 DEF I!Before
<1>5. ASSUME NEW d \in I!Index PROVE ~Walked(d) <=> I!Before(entry, d)
  BY <1>2, CellsOrder DEF Walked
<1>6. ASSUME NEW d \in I!Index, d[1] > cur PROVE e[1] <= d[1]
  <2>1. I!Before(entry, d)
    BY <1>2, <1>3, <1>6 DEF I!Before
  <2>2. ~I!Before(d, e)
    BY <1>1, <2>1
  <2> QED BY <1>2, <2>2 DEF I!Before
<1>7. ASSUME NEW d \in I!Index, Walked(d) PROVE d[1] <= cur
  <2>1. ~I!Before(entry, d)
    BY <1>5, <1>7
  <2> QED BY <1>2, <1>3, <2>1 DEF I!Before
<1>8. ASSUME NEW d \in I!Index, d[1] < e[1] PROVE Walked(d)
  BY <1>1, <1>5, <1>8 DEF I!Before
<1>9. ASSUME NEW d \in I!Index PROVE Walked(d) \/ d = e <=> (d = e \/ I!Before(d, e))
  <2>1. ASSUME Walked(d) PROVE I!Before(d, e)
    BY <1>1, <1>2, <2>1, CellsOrder DEF Walked
  <2>2. ASSUME I!Before(d, e) PROVE Walked(d)
    BY <1>1, <1>5, <2>2
  <2> QED BY <2>1, <2>2
<1> QED BY <1>1, <1>2, <1>4, <1>6, <1>7, <1>8, <1>9

\* The stream that the walk leaves behind when it comes to the entry e.
LEMMA LeftBehind ==
    ASSUME StreamsAssumption, IDsTypes, IDsWalk, need, NEW end \in Int,
           end < 0 \/ (cur < end /\ \E d \in I!Index : d[1] = end),
           \A d \in I!Index : d[1] > cur => end >= 0 /\ end <= d[1]
    PROVE  /\ I!StreamOf(cur, end) \in Ranges /\ I!StreamOf(cur, end).start = cur
           /\ RightStream(I!StreamOf(cur, end))
<1>1. cur \in I!Hit /\ cur \in Nat
  <2>1. PICK c \in I!Index : c[1] = cur /\ Walked(c) /\ I!Wanted(I!Elem(c))
    BY DEF IDsWalk
  <2> QED BY <2>1, DumpCells
<1> DEFINE s == I!StreamOf(cur, end)
<1>2. s \in Ranges /\ s.start = cur /\ s.end = end
  BY <1>1 DEF I!StreamOf, Ranges
<1> HIDE DEF s
<1>3. RightStream(s)
  BY <1>1, <1>2 DEF RightStream
<1> QED BY <1>2, <1>3 DEF s

LEMMA EntryKeeps ==
    ASSUME StreamsAssumption, IDsInv, I!Entry
    PROVE  IDsInv'
<1>1. /\ answer = "index" /\ UNCHANGED <<dump, ids, limit, stream, page, out, answer>>
  BY DEF I!Entry
<1>2. PICK e \in I!First({c \in I!Index : I!Before(entry, c)}) : I!Read(e) /\ entry' = e
  BY DEF I!Entry
<1>3. IDsTypes /\ IDsStreams /\ IDsWalk
  BY <1>1 DEF IDsInv
<1>4. /\ e \in I!Index /\ e \in Cells /\ e[1] \in Nat /\ cur <= e[1] /\ cur \in Int
      /\ \A d \in I!Index : d[1] > cur => e[1] <= d[1]
      /\ \A d \in I!Index : d[1] \in Nat /\ (Walked(d) => d[1] <= cur)
      /\ \A d \in I!Index : d[1] = cur /\ d[1] < e[1] => Walked(d)
      /\ \A d \in I!Index : Walked(d) \/ d = e <=> (d = e \/ I!Before(d, e))
  BY <1>3, EntryMoves DEF IDsTypes
<1> DEFINE wants == I!Wanted(I!Elem(e))
<1>5. /\ cur' = e[1] /\ need' = (wants \/ (need /\ ~(e[1] # cur)))
      /\ seen' = IF wants THEN seen \cup {I!Elem(e)} ELSE seen
      /\ streams' = IF e[1] # cur /\ need THEN Append(streams, I!StreamOf(cur, e[1])) ELSE streams
  BY <1>2 DEF I!Read
<1>6. /\ I!Index' = I!Index /\ I!Hit' = I!Hit /\ I!Reachable' = I!Reachable
      /\ \A s : RightStream(s)' <=> RightStream(s)
      /\ \A c : I!Wanted(I!Elem(c))' <=> I!Wanted(I!Elem(c))
      /\ \A c : I!Elem(c)' = I!Elem(c)
  BY <1>1, SameDump
<1>7. \A d \in I!Index : Walked(d)' <=> Walked(d) \/ d = e
  BY <1>2, <1>4 DEF Walked
\* The streams picked.
<1>8. /\ streams' \in Seq(Ranges) /\ Len(streams') >= Len(streams) /\ Len(streams) \in Nat
      /\ \A n \in DOMAIN streams' : RightStream(streams'[n]) /\ streams'[n].start < e[1]
      /\ \A m, n \in DOMAIN streams' : m < n => streams'[m].start < streams'[n].start
      /\ \A i \in I!Hit : i < e[1] => Picked(i)'
  <2>1. \A n \in DOMAIN streams : streams[n].start \in Nat /\ streams[n].start < cur
    BY <1>3, RangeStarts DEF IDsTypes, IDsWalk
  <2>2. ASSUME NEW i \in I!Hit, i < e[1] PROVE i < cur \/ (i = cur /\ e[1] # cur /\ need)
    <3>1. PICK c \in I!Index : c[1] = i /\ I!Wanted(I!Elem(c))
      BY <1>3, DumpCells
    <3>2. i \in Nat /\ i <= cur
      BY <1>4, <2>2, <3>1
    <3>3. CASE i = cur
      BY <1>3, <1>4, <2>2, <3>1, <3>3 DEF IDsWalk
    <3> QED BY <1>4, <3>2, <3>3
  <2>3. CASE e[1] # cur /\ need
    <3>1. PICK s \in Ranges : s = I!StreamOf(cur, e[1]) /\ s.start = cur /\ RightStream(s)
      BY <1>3, <1>4, <2>3, LeftBehind
    <3>2. PICK t : t = streams'
      OBVIOUS
    <3>3. /\ t \in Seq(Ranges) /\ Len(t) = Len(streams) + 1
          /\ \A n \in DOMAIN t : RightStream(t[n]) /\ t[n].start <= s.start
          /\ \A m, n \in DOMAIN t : m < n => t[m].start < t[n].start
          /\ \A i : (\E n \in DOMAIN t : t[n].start = i) <=> Picked(i) \/ i = s.start
      <4>1. \A n \in DOMAIN streams : streams[n].start < s.start
        BY <2>1, <3>1
      <4>2. t = Append(streams, s)
        BY <1>5, <2>3, <3>1, <3>2
      <4>3. PickedAnd(Append(streams, s), s)
        BY <1>3, <3>1, <4>1, AppendStream
      <4> QED BY <4>2, <4>3 DEF PickedAnd
    <3>4. \A i \in I!Hit : i < e[1] => Picked(i)'
      BY <1>3, <2>2, <3>1, <3>2, <3>3 DEF IDsWalk, Picked
    <3>5. \A n \in DOMAIN t : t[n].start \in Nat
      BY <3>3, RangeStarts
    <3>6. Len(streams) \in Nat /\ cur < e[1]
      BY <1>3, <1>4, <2>3 DEF IDsTypes
    <3>7. \A n \in DOMAIN t : t[n].start < e[1]
      BY <1>4, <3>1, <3>3, <3>5, <3>6
    <3> QED BY <3>2, <3>3, <3>4, <3>6, <3>7
  <2>4. CASE ~(e[1] # cur /\ need)
    <3>1. streams' = streams
      BY <1>5, <2>4
    <3>2. \A i \in I!Hit : i < e[1] => Picked(i)'
      BY <1>3, <2>2, <2>4, <3>1 DEF IDsWalk, Picked
    <3>3. \A n \in DOMAIN streams : streams[n].start < e[1]
      BY <1>4, <2>1
    <3> QED BY <1>3, <3>1, <3>2, <3>3 DEF IDsTypes, IDsStreams
  <2> QED BY <2>3, <2>4
<1>9. need' <=> \E c \in I!Index : c[1] = e[1] /\ (Walked(c) \/ c = e) /\ I!Wanted(I!Elem(c))
  <2>1. need <=> \E c \in I!Index : c[1] = cur /\ Walked(c) /\ I!Wanted(I!Elem(c))
    BY <1>3 DEF IDsWalk
  <2>2. CASE e[1] = cur
    BY <1>4, <1>5, <2>1, <2>2
  <2>3. CASE e[1] # cur
    <3>1. \A c \in I!Index : c[1] = e[1] => ~Walked(c)
      BY <1>4, <2>3
    <3> QED BY <1>4, <1>5, <2>3, <3>1
  <2> QED BY <2>2, <2>3
<1>10. seen' = {I!Elem(c) : c \in {d \in I!Index : I!Wanted(I!Elem(d)) /\ (Walked(d) \/ d = e)}}
  <2>1. seen = {I!Elem(c) : c \in {d \in I!Index : I!Wanted(I!Elem(d)) /\ Walked(d)}}
    BY <1>3 DEF IDsWalk
  <2> QED BY <1>4, <1>5, <2>1
<1>11. IDsTypes'
  <2>1. need' \in BOOLEAN
    BY <1>5
  <2>2. stream \in 0 .. Len(streams')
    BY <1>3, <1>8 DEF IDsTypes
  <2>3. cur' \in Int /\ entry' \in Cells
    BY <1>2, <1>4, <1>5
  <2> QED BY <1>1, <1>3, <1>8, <2>1, <2>2, <2>3 DEF IDsTypes
<1>12. IDsWalk'
  <2>1. entry' \in I!Index' /\ cur' = entry'[1]
    BY <1>2, <1>4, <1>5, <1>6
  <2>2. (need <=> \E c \in I!Index : c[1] = cur /\ Walked(c) /\ I!Wanted(I!Elem(c)))'
    BY <1>5, <1>6, <1>7, <1>9
  <2>3. \A n \in DOMAIN streams' : streams'[n].start < cur'
    BY <1>5, <1>8
  <2>4. (\A i \in I!Hit : i < cur => Picked(i))'
    BY <1>5, <1>6, <1>8
  <2>5. (seen = {I!Elem(c) : c \in {d \in I!Index : I!Wanted(I!Elem(d)) /\ Walked(d)}})'
    BY <1>6, <1>7, <1>10
  <2>6. stream' = 0 /\ out' = <<>>
    BY <1>1, <1>3 DEF IDsWalk
  <2> QED BY <2>1, <2>2, <2>3, <2>4, <2>5, <2>6 DEF IDsWalk
<1>13. IDsStreams'
  BY <1>6, <1>8 DEF IDsStreams
<1>14. IDsRead' /\ IDsEnd'
  BY <1>1 DEF IDsRead, IDsEnd
<1>15. IDsWritten'
  <2>1. IDsWritten /\ I!Written' = I!Written
    BY <1>1 DEF IDsInv, I!Written
  <2> QED BY <1>1, <1>6, <2>1 DEF IDsWritten, AllBefore
<1> QED BY <1>1, <1>11, <1>12, <1>13, <1>14, <1>15 DEF IDsInv

LEMMA LastStreamKeeps ==
    ASSUME StreamsAssumption, IDsInv, I!LastStream
    PROVE  IDsInv'
<1>1. /\ answer = "index" /\ answer' = "read" /\ {c \in I!Index : I!Before(entry, c)} = {}
      /\ UNCHANGED <<dump, ids, limit, entry, cur, need, seen, stream, page, out>>
      /\ streams' = IF need THEN Append(streams, I!StreamOf(cur, -1)) ELSE streams
  BY DEF I!LastStream
<1>2. IDsTypes /\ IDsStreams /\ IDsWalk
  BY <1>1 DEF IDsInv
<1>3. /\ I!Index' = I!Index /\ I!Hit' = I!Hit /\ I!Reachable' = I!Reachable
      /\ \A s : RightStream(s)' <=> RightStream(s)
      /\ \A c : I!Wanted(I!Elem(c))' <=> I!Wanted(I!Elem(c))
      /\ \A c : I!Elem(c)' = I!Elem(c)
  BY <1>1, SameDump
<1>4. ASSUME NEW d \in I!Index PROVE Walked(d) /\ d[1] <= cur
  <2>1. /\ entry \in Cells /\ d \in Cells /\ ~I!Before(entry, d)
        /\ entry[1] \in Nat /\ entry[2] \in Nat /\ d[1] \in Nat /\ d[2] \in Nat /\ d[1] >= 1
    BY <1>1, <1>2, DumpCells DEF IDsTypes, Cells
  <2>2. Walked(d)
    BY <2>1, CellsOrder DEF Walked
  <2>3. (entry[1] = 0 /\ entry[2] = 0) \/ cur = entry[1]
    BY <1>2 DEF IDsWalk
  <2>4. d[1] <= cur
    BY <2>1, <2>3 DEF I!Before
  <2> QED BY <2>2, <2>4
<1>5. ASSUME NEW i \in I!Hit PROVE i < cur \/ (i = cur /\ need)
  <2>1. PICK c \in I!Index : c[1] = i /\ I!Wanted(I!Elem(c))
    BY <1>2, DumpCells
  <2>2. i \in 1 .. Len(dump) /\ cur \in Int /\ i <= cur
    BY <1>2, <1>4, <2>1, DumpCells DEF IDsTypes
  <2>3. CASE i = cur
    BY <1>2, <1>4, <2>1, <2>3 DEF IDsWalk
  <2> QED BY <2>2, <2>3
<1>6. /\ streams' \in Seq(Ranges) /\ Len(streams') >= Len(streams) /\ Len(streams) \in Nat
      /\ \A n \in DOMAIN streams' : RightStream(streams'[n])
      /\ \A m, n \in DOMAIN streams' : m < n => streams'[m].start < streams'[n].start
      /\ \A i \in I!Hit : Picked(i)'
  <2>1. CASE need
    <3>1. \A d \in I!Index : ~(d[1] > cur)
      BY <1>2, <1>4, DumpCells DEF IDsTypes
    <3>2. PICK s \in Ranges : s = I!StreamOf(cur, -1) /\ s.start = cur /\ RightStream(s)
      BY <1>2, <2>1, <3>1, LeftBehind
    <3>3. \A n \in DOMAIN streams : streams[n].start < s.start
      BY <1>2, <3>2 DEF IDsWalk
    <3>4. PickedAnd(Append(streams, s), s)
      BY <1>2, <3>2, <3>3, AppendStream
    <3>5. PickedAnd(streams', s)
      BY <1>1, <2>1, <3>2, <3>4
    <3>6. \A i \in I!Hit : Picked(i)'
      BY <1>2, <1>5, <3>2, <3>5 DEF PickedAnd, Picked, IDsWalk
    <3> QED BY <1>2, <3>5, <3>6 DEF PickedAnd, IDsTypes
  <2>2. CASE ~need
    <3>1. streams' = streams
      BY <1>1, <2>2
    <3>2. \A i \in I!Hit : Picked(i)'
      BY <1>2, <1>5, <2>2, <3>1 DEF Picked, IDsWalk
    <3> QED BY <1>2, <3>1, <3>2 DEF IDsTypes, IDsStreams
  <2> QED BY <2>1, <2>2
<1>7. IDsTypes'
  <2>1. stream \in 0 .. Len(streams')
    BY <1>2, <1>6 DEF IDsTypes
  <2> QED BY <1>1, <1>2, <1>6, <2>1 DEF IDsTypes
<1>8. IDsStreams' /\ IDsPicked'
  <2>1. seen = {I!Elem(c) : c \in {e \in I!Index : I!Wanted(I!Elem(e))}}
    BY <1>2, <1>4 DEF IDsWalk
  <2> QED BY <1>1, <1>3, <1>6, <2>1 DEF IDsStreams, IDsPicked
<1>9. /\ stream' = 0 /\ out' = <<>> /\ Len(out') = 0 /\ I!Written' = {}
      /\ limit' \in Int /\ I!Written' = I!Written
  BY <1>1, <1>2 DEF IDsWalk, IDsTypes, I!Written, StreamsAssumption
<1>10. IDsRead' /\ IDsEnd'
  BY <1>1, <1>9 DEF IDsRead, IDsEnd
<1>11. IDsWritten'
  <2>1. IDsWritten
    BY DEF IDsInv
  <2> QED BY <1>1, <1>3, <1>9, <2>1 DEF IDsWritten, AllBefore
<1> QED BY <1>1, <1>7, <1>8, <1>10, <1>11 DEF IDsInv

\* What a step that leaves the dump and the picked streams alone keeps.
LEMMA KeptByReading ==
    ASSUME IDsInv, answer # "index", answer' # "index",
           UNCHANGED <<dump, ids, limit, entry, cur, need, seen, streams>>, IDsTypes',
           IDsRead', IDsWritten', IDsEnd'
    PROVE  IDsInv'
<1>1. /\ I!Index' = I!Index /\ I!Hit' = I!Hit
      /\ \A s : RightStream(s)' <=> RightStream(s)
      /\ \A c : I!Wanted(I!Elem(c))' <=> I!Wanted(I!Elem(c))
      /\ \A c : I!Elem(c)' = I!Elem(c)
  BY SameDump
<1>2. IDsStreams'
  BY <1>1 DEF IDsInv, IDsStreams
<1>3. IDsPicked'
  BY <1>1 DEF IDsInv, IDsPicked, Picked
<1> QED BY <1>2, <1>3 DEF IDsInv

LEMMA OpenKeeps ==
    ASSUME StreamsAssumption, IDsInv, I!Open
    PROVE  IDsInv'
<1> DEFINE n == stream + 1
<1>1. /\ answer = "read" /\ stream < Len(streams) /\ stream' = n /\ page' = <<0, 0>>
      /\ answer' = IF I!InFile(streams[n]) /\ I!Decodes(streams[n]) THEN "pages" ELSE "error"
      /\ UNCHANGED <<dump, ids, limit, entry, cur, need, seen, streams, out>>
  BY DEF I!Open
<1>2. IDsTypes /\ IDsStreams /\ IDsRead /\ IDsWritten /\ IDsPicked
  BY <1>1 DEF IDsInv
<1>3. /\ stream \in Nat /\ n \in DOMAIN streams /\ n \in Nat /\ n > 0 /\ Len(streams) \in Nat
      /\ DOMAIN streams = 1 .. Len(streams) /\ streams \in Seq(Ranges)
  BY <1>1, <1>2 DEF IDsTypes
<1>4. /\ I!Reachable' = I!Reachable /\ I!Hit' = I!Hit /\ I!Written' = I!Written
      /\ \A s : I!Decodes(s)' <=> I!Decodes(s)
      /\ \A i : I!Fails(i)' <=> I!Fails(i)
  BY <1>1, SameDump DEF I!Written
<1>5. /\ streams[n] \in Ranges /\ streams[n].start \in Nat /\ streams[n].start \in I!Hit
      /\ I!InFile(streams[n]) /\ (I!Decodes(streams[n]) <=> ~I!Fails(streams[n].start))
  <2>1. streams[n] \in Ranges /\ streams[n].start \in Nat
    BY <1>3, RangeStarts
  <2>2. RightStream(streams[n])
    BY <1>2, <1>3 DEF IDsStreams
  <2> QED BY <1>2, <2>1, <2>2, StreamGives DEF RightStream
<1>6. IDsTypes'
  <2>1. <<0, 0>> \in Cells /\ n \in 0 .. Len(streams)
    BY <1>3 DEF Cells
  <2>2. answer' \in {"index", "read", "pages", "ok", "noResults", "error"}
    BY <1>1
  <2>3. page' \in Cells /\ stream' \in 0 .. Len(streams')
    BY <1>1, <2>1
  <2> QED BY <1>1, <1>2, <2>2, <2>3 DEF IDsTypes
<1>7. IDsWritten'
  BY <1>1, <1>2, <1>4 DEF IDsWritten, AllBefore
<1>8. CASE ~I!Decodes(streams[n])
  <2>1. answer' = "error"
    BY <1>1, <1>8
  <2>2. IDsEnd'
    BY <1>4, <1>5, <1>8, <2>1 DEF IDsEnd
  <2>3. IDsRead'
    BY <2>1 DEF IDsRead
  <2> QED BY <1>1, <1>6, <1>7, <2>1, <2>2, <2>3, KeptByReading
<1>9. CASE I!Decodes(streams[n])
  <2>1. answer' = "pages"
    BY <1>1, <1>5, <1>9
  <2>2. \A m \in 1 .. n : I!Decodes(streams[m])
    BY <1>1, <1>2, <1>3, <1>9 DEF IDsRead
  <2>3. ASSUME NEW c \in I!Reachable
        PROVE  /\ stream > 0 /\ c[1] <= streams[stream].start <=> c[1] < streams[n].start
               /\ ~(Given(c))'
    <3>1. c \in Cells /\ c[1] \in I!Hit /\ c[1] \in Nat /\ c[1] >= 1 /\ c[2] \in Nat /\ c[2] >= 1
      <4>1. c \in I!Index /\ I!Wanted(I!Elem(c))
        BY DEF I!Reachable, I!Asked
      <4> QED BY <1>2, <4>1, DumpCells DEF Cells
    <3>2. PICK m \in DOMAIN streams : streams[m].start = c[1]
      BY <1>2, <3>1 DEF IDsPicked, Picked
    <3>3. stream > 0 => stream \in DOMAIN streams /\ streams[stream].start \in Nat
      BY <1>3, RangeStarts
    <3>4. ~(Given(c))'
      BY <1>1, <3>1 DEF Given, I!Before
    <3>5. CASE m < n
      <4>1. m <= stream /\ stream > 0 /\ streams[m].start < streams[n].start
        BY <1>2, <1>3, <3>2, <3>5 DEF IDsStreams
      <4>2. m < stream => streams[m].start < streams[stream].start
        BY <1>2, <3>3, <4>1 DEF IDsStreams
      <4>3. m = stream \/ m < stream
        BY <1>3, <4>1
      <4> QED BY <3>1, <3>2, <3>3, <3>4, <4>1, <4>2, <4>3
    <3>6. CASE ~(m < n)
      <4>1. m = n \/ n < m
        BY <1>3, <3>6
      <4>2. n < m => streams[n].start < streams[m].start
        BY <1>2, <1>3 DEF IDsStreams
      <4>3. ~(c[1] < streams[n].start)
        BY <1>5, <3>1, <3>2, <4>1, <4>2
      <4>4. stream > 0 => streams[stream].start < streams[n].start
        BY <1>2, <1>3, <3>3 DEF IDsStreams
      <4> QED BY <1>5, <3>1, <3>3, <3>4, <4>3, <4>4
    <3> QED BY <3>5, <3>6
  <2>4. I!Written = {c \in I!Reachable : c[1] < streams[n].start}
    BY <1>1, <1>2, <2>3 DEF IDsRead
  <2>5. IDsRead'
    BY <1>1, <1>2, <1>3, <1>4, <2>1, <2>2, <2>3, <2>4 DEF IDsRead
  <2>6. IDsEnd'
    BY <2>1 DEF IDsEnd
  <2> QED BY <1>1, <1>6, <1>7, <2>1, <2>5, <2>6, KeptByReading
<1> QED BY <1>8, <1>9

LEMMA AppendWrite ==
    ASSUME NEW s \in Seq(Cells), NEW c \in Cells, AllBefore(s),
           \A i \in DOMAIN s : I!Before(s[i], c)
    PROVE  /\ Append(s, c) \in Seq(Cells) /\ Len(Append(s, c)) = Len(s) + 1
           /\ AllBefore(Append(s, c)) /\ Append(s, c) # <<>>
           /\ {Append(s, c)[i] : i \in DOMAIN Append(s, c)} = {s[i] : i \in DOMAIN s} \cup {c}
<1> DEFINE t == Append(s, c)
<1>1. /\ t \in Seq(Cells) /\ Len(t) = Len(s) + 1 /\ Len(s) \in Nat /\ t # <<>>
      /\ DOMAIN t = 1 .. Len(s) + 1 /\ DOMAIN s = 1 .. Len(s)
      /\ t[Len(s) + 1] = c /\ \A i \in 1 .. Len(s) : t[i] = s[i]
  OBVIOUS
<1> HIDE DEF t
<1>2. \A i \in DOMAIN t : i # Len(s) + 1 => i \in DOMAIN s /\ t[i] = s[i]
  BY <1>1
<1>3. AllBefore(t)
  <2> SUFFICES ASSUME NEW i \in DOMAIN t, NEW j \in DOMAIN t, i < j PROVE I!Before(t[i], t[j])
    BY DEF AllBefore
  <2>1. i # Len(s) + 1 /\ i \in DOMAIN s /\ t[i] = s[i]
    BY <1>1, <1>2
  <2>2. CASE j = Len(s) + 1
    BY <1>1, <2>1, <2>2
  <2>3. CASE j # Len(s) + 1
    BY <1>2, <2>1, <2>3 DEF AllBefore
  <2> QED BY <2>2, <2>3
<1>4. {t[i] : i \in DOMAIN t} = {s[i] : i \in DOMAIN s} \cup {c}
  <2>1. ASSUME NEW i \in DOMAIN t PROVE t[i] \in {s[k] : k \in DOMAIN s} \cup {c}
    BY <1>1, <1>2
  <2>2. ASSUME NEW i \in DOMAIN s PROVE s[i] \in {t[k] : k \in DOMAIN t}
    BY <1>1
  <2>3. c \in {t[k] : k \in DOMAIN t}
    BY <1>1
  <2> QED BY <2>1, <2>2, <2>3
<1> QED BY <1>1, <1>3, <1>4 DEF t

\* What is still to write of the stream being read.
LEMMA Remaining ==
    ASSUME StreamsAssumption, IDsInv, answer = "pages"
    PROVE  /\ stream \in DOMAIN streams /\ streams[stream].start \in Nat
           /\ I!ToWrite = {c \in I!Reachable : c[1] = streams[stream].start /\ ~Given(c)}
           /\ \A c \in I!Reachable : c \in Cells /\ c[1] \in Nat /\ c[1] \in I!Hit
<1>1. IDsTypes /\ IDsStreams /\ IDsRead
  BY DEF IDsInv
<1>2. /\ stream \in Nat /\ stream \in DOMAIN streams /\ stream \in 1 .. stream
      /\ streams \in Seq(Ranges) /\ page \in Cells
  BY <1>1 DEF IDsTypes, IDsRead
<1>3. /\ streams[stream] \in Ranges /\ streams[stream].start \in Nat
      /\ RightStream(streams[stream]) /\ I!Decodes(streams[stream])
  BY <1>1, <1>2, RangeStarts DEF IDsStreams, IDsRead
<1>4. \A c : (c \in I!PagesOf(streams[stream]) /\ I!Wanted(I!Elem(c)))
                <=> (c \in I!Reachable /\ c[1] = streams[stream].start)
  BY <1>1, <1>3, StreamGives
<1>5. ASSUME NEW c \in I!Reachable PROVE c \in Cells /\ c[1] \in Nat /\ c[1] \in I!Hit
  <2>1. c \in I!Index /\ I!Wanted(I!Elem(c))
    BY DEF I!Reachable, I!Asked
  <2> QED BY <1>1, <2>1, DumpCells DEF Cells
<1>6. \A c \in I!Reachable : I!Before(page, c) <=> ~Given(c)
  BY <1>2, <1>5, CellsOrder DEF Given
<1> QED BY <1>2, <1>3, <1>4, <1>5, <1>6 DEF I!ToWrite

LEMMA WritePageKeeps ==
    ASSUME StreamsAssumption, IDsInv, I!Write
    PROVE  IDsInv'
<1>1. /\ answer = "pages"
      /\ answer' = IF limit > 0 /\ Len(out') >= limit THEN "ok" ELSE "pages"
      /\ UNCHANGED <<dump, ids, limit, entry, cur, need, seen, streams, stream>>
  BY DEF I!Write
<1>2. PICK c \in I!First(I!ToWrite) : page' = c /\ out' = Append(out, c)
  BY DEF I!Write
<1>3. IDsTypes /\ IDsStreams /\ IDsRead /\ IDsWritten
  BY DEF IDsInv
<1> DEFINE start == streams[stream].start
<1>4. /\ stream \in DOMAIN streams /\ start \in Nat
      /\ I!ToWrite = {d \in I!Reachable : d[1] = start /\ ~Given(d)}
      /\ \A d \in I!Reachable : d \in Cells /\ d[1] \in Nat
  BY <1>1, Remaining
<1>5. I!Written = {d \in I!Reachable : d[1] < start \/ (d[1] = start /\ Given(d))}
  BY <1>1, <1>3 DEF IDsRead
<1>6. /\ I!Reachable' = I!Reachable /\ I!Hit' = I!Hit
      /\ \A s : I!Decodes(s)' <=> I!Decodes(s)
  BY <1>1, SameDump
<1> HIDE DEF start
<1>7. /\ c \in I!Reachable /\ c[1] = start /\ ~Given(c) /\ c \in Cells
      /\ \A d \in I!Reachable : d[1] = start /\ ~Given(d) => ~I!Before(d, c)
  BY <1>2, <1>4 DEF I!First
<1>8. page \in Cells /\ out \in Seq(Cells) /\ AllBefore(out) /\ I!Before(page, c)
  BY <1>3, <1>7, CellsOrder DEF IDsTypes, IDsWritten, Given
<1>9. ASSUME NEW d \in I!Reachable
      PROVE  d \in I!Written \cup {c} <=> (d = c \/ I!Before(d, c))
  <2>1. CASE d[1] = start
    <3>1. Given(d) => I!Before(d, c)
      BY <1>4, <1>7, <1>8, CellsOrder DEF Given
    <3>2. ~Given(d) => ~I!Before(d, c)
      BY <1>7, <2>1
    <3>3. d \in I!Written <=> Given(d)
      BY <1>4, <1>5, <2>1
    <3> QED BY <3>1, <3>2, <3>3
  <2>2. CASE d[1] # start
    BY <1>4, <1>5, <1>7, <2>2 DEF I!Before
  <2> QED BY <2>1, <2>2
<1>10. /\ out' \in Seq(Cells) /\ Len(out') = Len(out) + 1 /\ AllBefore(out') /\ out' # <<>>
       /\ I!Written' = I!Written \cup {c}
  <2>1. \A i \in DOMAIN out : I!Before(out[i], c)
    <3> SUFFICES ASSUME NEW i \in DOMAIN out PROVE I!Before(out[i], c)
      OBVIOUS
    <3>1. out[i] \in I!Written
      BY DEF I!Written
    <3>2. out[i] \in I!Reachable /\ out[i] # c
      BY <1>4, <1>5, <1>7, <3>1
    <3> QED BY <1>9, <3>1, <3>2
  <2> DEFINE longer == Append(out, c)
  <2>2. /\ longer \in Seq(Cells) /\ Len(longer) = Len(out) + 1 /\ AllBefore(longer)
        /\ longer # <<>>
        /\ {longer[i] : i \in DOMAIN longer} = {out[i] : i \in DOMAIN out} \cup {c}
    BY <1>7, <1>8, <2>1, AppendWrite
  <2> HIDE DEF longer
  <2>3. out' = longer
    BY <1>2 DEF longer
  <2> QED BY <2>2, <2>3 DEF I!Written, AllBefore
<1>11. limit \in Int /\ Len(out) \in Nat /\ (limit > 0 => Len(out) < limit)
  BY <1>1, <1>3 DEF IDsTypes, IDsRead, StreamsAssumption
<1>12. IDsTypes'
  <2>1. answer' \in {"index", "read", "pages", "ok", "noResults", "error"}
    BY <1>1
  <2>2. page' \in Cells
    BY <1>2, <1>7
  <2> QED BY <1>1, <1>3, <1>10, <2>1, <2>2 DEF IDsTypes
<1>13. IDsWritten'
  <2>1. I!Written' \subseteq I!Reachable'
    BY <1>3, <1>6, <1>7, <1>10 DEF IDsWritten
  <2>2. ASSUME NEW d \in I!Reachable, NEW w \in I!Written \cup {c}, I!Before(d, w)
        PROVE  d \in I!Written \cup {c}
    <3>1. w \in I!Reachable /\ (w = c \/ I!Before(w, c))
      BY <1>3, <1>7, <1>9 DEF IDsWritten
    <3>2. I!Before(d, c)
      BY <1>4, <1>7, <2>2, <3>1, CellsOrder
    <3> QED BY <1>9, <3>2
  <2>3. limit' > 0 => Len(out') <= limit'
    BY <1>1, <1>10, <1>11
  <2> QED BY <1>6, <1>10, <2>1, <2>2, <2>3 DEF IDsWritten
<1>14. CASE limit > 0 /\ Len(out') >= limit
  <2>1. answer' = "ok" /\ Len(out') = limit'
    BY <1>1, <1>10, <1>11, <1>14
  <2>2. IDsRead' /\ IDsEnd'
    BY <1>1, <1>10, <1>14, <2>1 DEF IDsRead, IDsEnd
  <2> QED BY <1>1, <1>12, <1>13, <2>1, <2>2, KeptByReading
<1>15. CASE ~(limit > 0 /\ Len(out') >= limit)
  <2>1. answer' = "pages" /\ (limit' > 0 => Len(out') < limit')
    BY <1>1, <1>10, <1>11, <1>15
  <2>2. stream > 0 /\ \A m \in 1 .. stream : I!Decodes(streams[m])
    BY <1>1, <1>3 DEF IDsRead
  <2>3. I!Written \cup {c} =
            {d \in I!Reachable : d[1] < start \/ (d[1] = start /\ (d = c \/ I!Before(d, c)))}
    <3>1. ASSUME NEW d \in I!Reachable
          PROVE  d \in I!Written \cup {c} <=>
                    (d[1] < start \/ (d[1] = start /\ (d = c \/ I!Before(d, c))))
      BY <1>4, <1>7, <1>9 DEF I!Before
    <3> QED BY <1>3, <1>7, <3>1 DEF IDsWritten
  <2>4. \A d : Given(d)' <=> (d = c \/ I!Before(d, c))
    BY <1>2 DEF Given
  <2>5. start' = start
    BY <1>1 DEF start
  <2>6. IDsRead'
    BY <1>1, <1>6, <1>10, <2>1, <2>2, <2>3, <2>4, <2>5 DEF IDsRead, start
  <2>7. IDsEnd'
    BY <2>1 DEF IDsEnd
  <2> QED BY <1>1, <1>12, <1>13, <2>1, <2>6, <2>7, KeptByReading
<1> QED BY <1>14, <1>15

LEMMA CloseKeeps ==
    ASSUME StreamsAssumption, IDsInv, I!Close
    PROVE  IDsInv'
<1>1. /\ answer = "pages" /\ answer' = "read" /\ I!ToWrite = {}
      /\ UNCHANGED <<dump, ids, limit, entry, cur, need, seen, streams, stream, page, out>>
  BY DEF I!Close
<1>2. IDsTypes /\ IDsStreams /\ IDsRead /\ IDsWritten
  BY DEF IDsInv
<1>3. /\ stream \in DOMAIN streams /\ streams[stream].start \in Nat
      /\ I!ToWrite = {d \in I!Reachable : d[1] = streams[stream].start /\ ~Given(d)}
      /\ \A d \in I!Reachable : d[1] \in Nat
  BY <1>1, Remaining
<1>4. /\ I!Reachable' = I!Reachable /\ I!Written' = I!Written
      /\ \A s : I!Decodes(s)' <=> I!Decodes(s)
  BY <1>1, SameDump DEF I!Written
<1>5. I!Written = {d \in I!Reachable : stream > 0 /\ d[1] <= streams[stream].start}
  <2>1. /\ stream > 0
        /\ I!Written = {d \in I!Reachable : \/ d[1] < streams[stream].start
                                            \/ d[1] = streams[stream].start /\ Given(d)}
    BY <1>1, <1>2 DEF IDsRead
  <2>2. \A d \in I!Reachable : d[1] = streams[stream].start => Given(d)
    BY <1>1, <1>3
  <2> QED BY <1>3, <2>1, <2>2
<1>6. IDsRead'
  BY <1>1, <1>2, <1>4, <1>5 DEF IDsRead
<1>7. IDsTypes' /\ IDsWritten' /\ IDsEnd'
  BY <1>1, <1>2, <1>4 DEF IDsTypes, IDsWritten, AllBefore, IDsEnd
<1> QED BY <1>1, <1>6, <1>7, KeptByReading

\* All picked streams have been read, so all streams with a wanted page have.
LEMMA DoneKeeps ==
    ASSUME StreamsAssumption, IDsInv, I!Done
    PROVE  IDsInv'
<1>1. /\ answer = "read" /\ stream = Len(streams)
      /\ answer' = IF out = <<>> THEN "noResults" ELSE "ok"
      /\ UNCHANGED <<dump, ids, limit, entry, cur, need, seen, streams, stream, page, out>>
  BY DEF I!Done
<1>2. IDsTypes /\ IDsStreams /\ IDsRead /\ IDsWritten /\ IDsPicked
  BY <1>1 DEF IDsInv
<1>3. /\ I!Reachable' = I!Reachable /\ I!Written' = I!Written /\ I!Hit' = I!Hit
      /\ \A i : I!Fails(i)' <=> I!Fails(i)
  BY <1>1, SameDump DEF I!Written
<1>4. DOMAIN streams = 1 .. stream /\ stream \in Nat /\ streams \in Seq(Ranges)
  BY <1>1, <1>2 DEF IDsTypes
<1>5. ASSUME NEW i \in I!Hit
      PROVE  ~I!Fails(i) /\ stream > 0 /\ i <= streams[stream].start
  <2>1. PICK m \in DOMAIN streams : streams[m].start = i
    BY <1>2 DEF IDsPicked, Picked
  <2>2. streams[m] \in Ranges /\ RightStream(streams[m]) /\ I!Decodes(streams[m]) /\ i \in Nat
    BY <1>1, <1>2, <1>4, <2>1, RangeStarts DEF IDsStreams, IDsRead
  <2>3. ~I!Fails(i)
    BY <1>2, <2>1, <2>2, StreamGives
  <2>4. m = stream \/ m < stream
    BY <1>4
  <2>5. stream \in DOMAIN streams /\ streams[stream].start \in Nat /\ stream > 0
    BY <1>4, RangeStarts
  <2>6. i <= streams[stream].start
    BY <1>2, <2>1, <2>2, <2>4, <2>5 DEF IDsStreams
  <2> QED BY <2>3, <2>5, <2>6
<1>6. I!Written = I!Reachable
  <2>1. \A c \in I!Reachable : c[1] \in I!Hit
    BY <1>2, DumpCells DEF I!Reachable, I!Asked
  <2>2. I!Written = {c \in I!Reachable : stream > 0 /\ c[1] <= streams[stream].start}
    BY <1>1, <1>2 DEF IDsRead
  <2> QED BY <1>5, <2>1, <2>2
<1>7. IDsEnd'
  <2>1. out' = out /\ answer' \in {"ok", "noResults"} /\ (answer' = "ok" <=> out # <<>>)
    BY <1>1
  <2>2. (I!Written = I!Reachable /\ \A i \in I!Hit : ~I!Fails(i))'
    BY <1>3, <1>5, <1>6
  <2> QED BY <2>1, <2>2 DEF IDsEnd
<1>8. answer' \in {"ok", "noResults"}
  BY <1>1
<1>9. IDsTypes' /\ IDsRead'
  BY <1>1, <1>2, <1>8 DEF IDsTypes, IDsRead
<1>10. IDsWritten'
  BY <1>1, <1>2, <1>3 DEF IDsWritten, AllBefore
<1> QED BY <1>1, <1>7, <1>8, <1>9, <1>10, KeptByReading

LEMMA IDsKeep ==
    ASSUME StreamsAssumption, IDsInv, unit = "ids", [Next]_vars
    PROVE  IDsInv'
<1>1. CASE ReadByID
  BY <1>1, EntryKeeps, LastStreamKeeps, OpenKeeps, WritePageKeeps, CloseKeeps, DoneKeeps
     DEF ReadByID, I!Next
<1>2. CASE UNCHANGED vars
  <2>1. UNCHANGED <<dump, ids, limit, entry, cur, need, seen, streams, stream, page, out, answer>>
    BY <1>2 DEF vars, idsVars
  <2>2. /\ I!Index' = I!Index /\ I!Reachable' = I!Reachable /\ I!Hit' = I!Hit
        /\ I!Written' = I!Written
        /\ \A s : RightStream(s)' <=> RightStream(s)
        /\ \A s : I!Decodes(s)' <=> I!Decodes(s)
        /\ \A i : I!Fails(i)' <=> I!Fails(i)
        /\ \A c : I!Wanted(I!Elem(c))' <=> I!Wanted(I!Elem(c))
        /\ \A c : I!Elem(c)' = I!Elem(c)
    BY <2>1, SameDump DEF I!Written
  <2>3. /\ \A c : Walked(c)' <=> Walked(c)
        /\ \A c : Given(c)' <=> Given(c)
        /\ \A i : Picked(i)' <=> Picked(i)
    BY <2>1 DEF Walked, Given, Picked
  <2>4. (IDsTypes /\ IDsStreams /\ IDsRead)'
    BY <2>1, <2>2, <2>3 DEF IDsInv, IDsTypes, IDsStreams, IDsRead
  <2>5. (IDsWritten /\ IDsEnd)'
    BY <2>1, <2>2 DEF IDsInv, IDsWritten, AllBefore, IDsEnd
  <2>6. answer' = "index" => IDsWalk'
    BY <2>1, <2>2, <2>3 DEF IDsInv, IDsWalk
  <2>7. answer' # "index" => IDsPicked'
    BY <2>1, <2>2, <2>3 DEF IDsInv, IDsPicked
  <2> QED BY <2>4, <2>5, <2>6, <2>7 DEF IDsInv
<1> QED BY <1>1, <1>2 DEF Next, ReadSQL, ReadPages, AskAPI, PickFiles, FetchPages

\* Where no stream with a wanted page fails, the wanted pages that their streams do not
\* reach are those behind a syntax error of their own stream.
LEMMA LostPages ==
    ASSUME StreamsAssumption, IDsTypes, \A i \in I!Hit : ~I!Fails(i)
    PROVE  /\ I!Asked \ I!Reachable = {c \in I!Asked : I!BehindEdge(c)}
           /\ I!Whole \subseteq I!Reachable
<1>1. \A c \in I!Places : c \in Cells /\ c[1] \in Nat
  BY DumpCells DEF Cells
<1>2. ASSUME NEW c \in I!Asked, c \notin I!Reachable PROVE I!BehindEdge(c)
  <2>1. c \in I!Places /\ c[1] \in I!Hit /\ I!Elem(c) \in IDs
    BY DEF I!Asked, I!Index, I!Hit
  <2>2. PICK d \in I!Places : d[1] = c[1] /\ I!Elem(d) \in {Edge, Broken} /\ ~I!Before(c, d)
    BY <1>2 DEF I!Reachable
  <2>3. c # d
    BY <2>1, <2>2 DEF StreamsAssumption
  <2>4. I!Before(d, c)
    BY <1>1, <2>1, <2>2, <2>3, CellsOrder
  <2>5. CASE I!Elem(d) = Edge
    BY <2>2, <2>4, <2>5 DEF I!BehindEdge
  <2>6. CASE I!Elem(d) = Broken
    <3>1. ~I!Fails(c[1])
      BY <2>1
    <3>2. \A e \in I!Index : e[1] <= c[1] \/ e[1] > d[1]
      <4>1. \A e \in I!Index : e[1] \in Nat
        BY <1>1 DEF I!Index
      <4> QED BY <1>1, <2>1, <2>2, <4>1
    <3>3. PICK e \in I!Places : I!Elem(e) = Edge /\ c[1] <= e[1] /\ I!Before(e, d)
      <4>1. c[1] <= d[1]
        BY <1>1, <2>1, <2>2
      <4> QED BY <2>2, <2>6, <3>1, <3>2, <4>1 DEF I!Fails
    <3>4. e[1] = c[1]
      BY <1>1, <2>1, <2>2, <3>3 DEF I!Before
    <3>5. I!Before(e, c)
      BY <1>1, <2>1, <2>2, <2>4, <3>3, CellsOrder
    <3> QED BY <3>3, <3>4, <3>5 DEF I!BehindEdge
  <2> QED BY <2>2, <2>5, <2>6
<1>3. ASSUME NEW c \in I!Asked, I!BehindEdge(c) PROVE c \notin I!Reachable
  <2>1. PICK d \in I!Places : I!Elem(d) = Edge /\ d[1] = c[1] /\ I!Before(d, c)
    BY <1>3 DEF I!BehindEdge
  <2>2. c \in I!Places
    BY DEF I!Asked, I!Index
  <2>3. ~I!Before(c, d)
    BY <1>1, <2>1, <2>2, CellsOrder
  <2> QED BY <2>1, <2>3 DEF I!Reachable
<1>4. I!Whole \subseteq I!Reachable
  BY DEF I!Whole, I!Reachable
<1> QED BY <1>2, <1>3, <1>4

\* `dump pages --index --ids` writes wanted pages in the order of the dump and once
\* each, up to the limit. When it ends well below it, every stream with a wanted page
\* has been decoded and only the pages behind a syntax error of their own stream are
\* missing, so none that a reading of the whole dump reaches. It fails only when such a
\* stream fails, and finds the ids that have a page.
THEOREM TheWantedAreRead == Spec => []ReadsTheWanted
<1> DEFINE Inv == unit = "ids" => IDsInv
<1>1. Init => Inv
  BY IDsStart, ReadersAssumption DEF ReadersAssumption
<1>2. Inv /\ [Next]_vars => Inv'
  <2>1. [Next]_vars => unit' = unit
    BY DEF Next, vars, ReadSQL, ReadPages, ReadByID, AskAPI, PickFiles, FetchPages
  <2> QED BY <2>1, IDsKeep, ReadersAssumption DEF ReadersAssumption
<1>3. Inv => ReadsTheWanted
  <2> SUFFICES ASSUME unit = "ids", IDsInv PROVE I!ReadsTheWanted
    BY DEF ReadsTheWanted
  <2>1. answer \in {"ok", "noResults"} =>
           \/ limit > 0 /\ Len(out) = limit
           \/ /\ I!Asked \ I!Written = {c \in I!Asked : I!BehindEdge(c)}
              /\ I!Whole \subseteq I!Written
              /\ \A i \in I!Hit : ~I!Fails(i)
    BY LostPages, ReadersAssumption DEF ReadersAssumption, IDsInv, IDsEnd
  <2>2. answer # "index" => seen = {I!Elem(c) : c \in I!Asked}
    BY DEF IDsInv, IDsPicked, I!Asked
  <2> QED BY <2>1, <2>2 DEF I!ReadsTheWanted, IDsInv, IDsWritten, AllBefore, IDsEnd
<1> QED BY <1>1, <1>2, <1>3, PTL DEF Spec

----------------------------------------------------------------------------
(* SQLReader. In each part of the reader the next token has one place in the *)
(* text of the table, which what has been read so far gives: the rows        *)
(* returned, the fields of the row and the characters of the field.          *)

RowIn   == Len(rows) + 1
FieldIn == Len(row) + 1
CharIn  == Len(buf) + 1

SQLTypes ==
    /\ table \in SQLFiles /\ tail \in {"eof", "broken"}
    /\ file \in Seq(Tokens) /\ Len(file) <= Len(table.text)
    /\ \A k \in 1 .. Len(file) : file[k] = table.text[k]
    /\ pos \in Nat \ {0} /\ pos <= Len(file) + 1 /\ cols \in Nat
    /\ mode \in {"head", "cols", "find", "words", "list", "field", "raw", "quoted",
                 "closed", "eof", "error"}
    /\ rows \in Seq(Seq(S!Fields)) /\ row \in Seq(S!Fields) /\ buf \in Seq(Tokens)

\* The reader is at row q, in a statement that is begun and not closed; those before
\* it are closed.
SQLInside(q) ==
    \E s \in table.starts :
        /\ q \in S!Statement(s) /\ S!Begun(s)
        /\ \A k \in table.starts : k < s => S!Closed(k)
        /\ table.row[q] <= pos /\ pos <= S!EndAt(table, q)

SQLHead ==
    /\ mode \in {"head", "cols"} => rows = <<>>
    /\ mode = "head" => pos \in {1, 3} /\ cols = 0
    /\ mode = "cols" => /\ cols <= NumCols
                        /\ \/ pos = 2 * cols + 5
                           \/ S!AtEnd /\ ~S!HeadWhole
    /\ mode \notin {"head", "cols", "error"} => cols = NumCols /\ S!HeadWhole

SQLFind ==
    mode = "find" =>
        /\ \A s \in table.starts : s <= Len(rows) => S!Closed(s)
        /\ Len(rows) > 0 => S!Ends(table, Len(rows))
        /\ \/ pos = table.row[RowIn]
           \/ pos = table.row[RowIn] - 1 /\ S!AtEnd
           \/ pos = table.row[RowIn] - 1 /\ file[pos] = "nl"
           \/ RowIn = Len(table.rows) + 1 /\ S!AtEnd

SQLWords ==
    mode = "words" =>
        /\ RowIn \in table.starts /\ SQLInside(RowIn)
        /\ S!AtEnd \/ \E n \in {0, 2, 4, 6} : pos = table.row[RowIn] + n

SQLList ==
    mode = "list" =>
        \/ /\ RowIn <= Len(table.rows) /\ SQLInside(RowIn)
           /\ \/ S!AtEnd
              \/ pos = table.field[RowIn][1] - 1
              \/ RowIn \notin table.starts /\ pos < table.field[RowIn][1]
        \/ /\ Len(rows) > 0 /\ S!Ends(table, Len(rows)) /\ SQLInside(Len(rows))
           /\ pos = S!EndAt(table, Len(rows))

\* The fields read are the first ones of the row that is being read.
RowIsRead ==
    /\ RowIn <= Len(table.rows) /\ FieldIn <= Len(table.rows[RowIn]) /\ SQLInside(RowIn)
    /\ \A f \in 1 .. Len(row) : row[f] = table.rows[RowIn][f]

\* The characters read are the first ones of the text t.
TextIsRead(t) == Len(buf) <= Len(t) /\ \A j \in 1 .. Len(buf) : buf[j] = t[j]

FieldRead == table.rows[RowIn][FieldIn]

SQLFields ==
    /\ mode \in {"field", "raw", "quoted", "closed"} => RowIsRead
    /\ mode = "field" => pos = table.field[RowIn][FieldIn]
    /\ mode = "raw" => /\ FieldRead.kind # "quoted" /\ TextIsRead(S!Bare(FieldRead))
                       /\ pos = table.field[RowIn][FieldIn] + Len(buf)
    /\ mode = "quoted" =>
          /\ FieldRead.kind = "quoted"
          /\ \/ S!AtEnd
             \/ TextIsRead(FieldRead.text) /\ pos = table.char[RowIn][FieldIn][CharIn]
    /\ mode = "closed" =>
          /\ FieldRead.kind = "quoted"
          /\ \/ S!AtEnd
             \/ buf = FieldRead.text /\ pos = table.field[RowIn][FieldIn + 1] - 1

SQLInv == /\ SQLTypes /\ S!RowsArePrefix /\ SQLHead /\ SQLFind /\ SQLWords /\ SQLList
          /\ SQLFields /\ S!EofIsWhole

----------------------------------------------------------------------------
(* The text of the table, place by place.                                    *)

LEMMA HasTwo ==
    ASSUME NEW d, NEW p \in Nat, NEW a, NEW b, S!Has(d, p, <<a, b>>)
    PROVE  d.text[p] = a /\ d.text[p + 1] = b
<1>1. \A i \in 1 .. 2 : d.text[p + i - 1] = <<a, b>>[i]
  BY DEF S!Has
<1>2. d.text[p + 1 - 1] = <<a, b>>[1] /\ d.text[p + 2 - 1] = <<a, b>>[2]
  BY <1>1
<1> QED BY <1>2

LEMMA HasThree ==
    ASSUME NEW d, NEW p \in Nat, NEW a, NEW b, NEW c, S!Has(d, p, <<a, b, c>>)
    PROVE  d.text[p] = a /\ d.text[p + 1] = b /\ d.text[p + 2] = c
<1>1. \A i \in 1 .. 3 : d.text[p + i - 1] = <<a, b, c>>[i]
  BY DEF S!Has
<1>2. /\ d.text[p + 1 - 1] = a /\ d.text[p + 2 - 1] = b /\ d.text[p + 3 - 1] = c
  BY <1>1
<1> QED BY <1>2

LEMMA SQLTable ==
    ASSUME SQLAssumption, SQLTypes
    PROVE  /\ S!IsSQLFile(table) /\ NumCols \in Nat \ {0}
           /\ Len(table.rows) \in Nat /\ Len(table.text) \in Nat /\ Len(file) \in Nat
           /\ \A r \in 1 .. Len(table.rows) + 1 : table.row[r] \in Nat
           /\ table.starts \subseteq 1 .. Len(table.rows)
           /\ Len(table.rows) > 0 => 1 \in table.starts
           /\ table.row[1] = 2 * NumCols + 7
<1>1. S!IsSQLFile(table) /\ NumCols \in Nat \ {0}
  BY DEF SQLAssumption, SQLTypes
<1>2. table.rows \in Seq(Seq(S!Fields)) /\ table.text \in Seq(Tokens) /\ file \in Seq(Tokens)
  BY <1>1 DEF S!IsSQLFile, SQLTypes
<1>3. Len(table.rows) \in Nat /\ Len(table.text) \in Nat /\ Len(file) \in Nat
  BY <1>2, LenProperties
<1>4. Len(table.rows) > 0 => table.rows # <<>>
  OBVIOUS
<1> QED BY <1>1, <1>3, <1>4 DEF S!IsSQLFile, S!HeadWritten

\* The rows and fields of the table.
LEMMA SQLTheRow ==
    ASSUME SQLAssumption, SQLTypes, NEW r \in 1 .. Len(table.rows)
    PROVE  /\ table.rows[r] \in Seq(S!Fields) /\ Len(table.rows[r]) \in Nat \ {0}
           /\ \A f \in 1 .. Len(table.rows[r]) + 1 : table.field[r][f] \in Nat
           /\ S!EndAt(table, r) \in Nat
           /\ S!RowWritten(table, r)
           /\ table.row[r] \in Nat /\ table.row[r + 1] \in Nat
<1>1. S!IsSQLFile(table) /\ Len(table.rows) \in Nat
  BY SQLTable
<1>2. table.rows \in Seq(Seq(S!Fields))
  BY <1>1 DEF S!IsSQLFile
<1>3. table.rows[r] \in Seq(S!Fields)
  BY <1>2, ElementOfSeq
<1>4. table.rows[r] # <<>> /\ S!RowWritten(table, r)
  BY <1>1 DEF S!IsSQLFile
<1>5. Len(table.rows[r]) \in Nat \ {0}
  BY <1>3, <1>4, EmptySeq
<1>6. \A f \in 1 .. Len(table.rows[r]) + 1 : table.field[r][f] \in Nat
  BY <1>1 DEF S!IsSQLFile
<1>7. S!EndAt(table, r) \in Nat
  <2>1. Len(table.rows[r]) + 1 \in 1 .. Len(table.rows[r]) + 1
    BY <1>5
  <2> QED BY <2>1, <1>6 DEF S!EndAt
<1>8. r \in 1 .. Len(table.rows) + 1 /\ r + 1 \in 1 .. Len(table.rows) + 1
  BY <1>1
<1>9. table.row[r] \in Nat /\ table.row[r + 1] \in Nat
  BY <1>8, SQLTable
<1> QED BY <1>3, <1>4, <1>5, <1>6, <1>7, <1>9

\* A row that begins a statement.
LEMMA SQLFirstRow ==
    ASSUME SQLAssumption, SQLTypes, NEW r \in table.starts
    PROVE  /\ r \in 1 .. Len(table.rows)
           /\ table.text[table.row[r]] = "INSERT" /\ table.text[table.row[r] + 1] = " "
           /\ table.text[table.row[r] + 2] = "INTO" /\ table.text[table.row[r] + 3] = " "
           /\ table.text[table.row[r] + 4] = "t" /\ table.text[table.row[r] + 5] = " "
           /\ table.text[table.row[r] + 6] = "VALUES"
           /\ table.text[table.row[r] + 7] \in {"nl", " "}
           /\ table.text[table.row[r] + 8] = "("
           /\ table.field[r][1] = table.row[r] + 9
<1>1. r \in 1 .. Len(table.rows)
  BY SQLTable
<1>2. S!RowWritten(table, r) /\ table.row[r] \in Nat
  BY <1>1, SQLTheRow
<1> DEFINE gap == IF table.lines THEN "nl" ELSE " "
<1>3. S!RowStart(table, r) = <<"INSERT", " ", "INTO", " ", "t", " ", "VALUES", gap, "(">>
  BY DEF S!RowStart
<1>4. PICK p, a, b, c, e, f, g, h :
         /\ p \in Nat /\ p = table.row[r] /\ a = "INSERT" /\ b = " " /\ c = "INTO" /\ e = "t"
         /\ f = "VALUES" /\ g = gap /\ h = "("
  BY <1>2
<1>5. S!Has(table, p, <<a, b, c, b, e, b, f, g, h>>)
  BY <1>2, <1>3, <1>4 DEF S!RowWritten
<1>6. /\ table.text[p] = a /\ table.text[p + 1] = b /\ table.text[p + 2] = c
      /\ table.text[p + 3] = b /\ table.text[p + 4] = e /\ table.text[p + 5] = b
      /\ table.text[p + 6] = f /\ table.text[p + 7] = g /\ table.text[p + 8] = h
  <2> DEFINE t == table.text
  <2>1. p \in Nat /\ \A i \in 1 .. 9 : t[p + i - 1] = <<a, b, c, b, e, b, f, g, h>>[i]
    BY <1>4, <1>5 DEF S!Has
  <2> HIDE DEF t
  <2>2. t[p + 1 - 1] = a /\ t[p + 2 - 1] = b /\ t[p + 3 - 1] = c
    BY <2>1
  <2>3. t[p + 4 - 1] = b /\ t[p + 5 - 1] = e /\ t[p + 6 - 1] = b
    BY <2>1
  <2>4. t[p + 7 - 1] = f /\ t[p + 8 - 1] = g /\ t[p + 9 - 1] = h
    BY <2>1
  <2> QED BY <2>1, <2>2, <2>3, <2>4 DEF t
<1>7. table.field[r][1] = table.row[r] + 9
  BY <1>2, <1>3 DEF S!RowWritten
<1> QED BY <1>1, <1>4, <1>6, <1>7

\* A row that goes on with a statement.
LEMMA SQLOtherRow ==
    ASSUME SQLAssumption, SQLTypes, NEW r \in 1 .. Len(table.rows), r \notin table.starts
    PROVE  /\ table.text[table.row[r]] = ","
           /\ table.field[r][1] \in {table.row[r] + 2, table.row[r] + 3}
           /\ table.field[r][1] = table.row[r] + 3 => table.text[table.row[r] + 1] = "nl"
           /\ table.text[table.field[r][1] - 1] = "("
<1>2. S!RowWritten(table, r) /\ table.row[r] \in Nat
  BY SQLTheRow
<1>3. CASE table.lines
  <2>1. S!RowStart(table, r) = <<",", "nl", "(">>
    BY <1>3 DEF S!RowStart
  <2>2. S!Has(table, table.row[r], <<",", "nl", "(">>)
    BY <1>2, <2>1 DEF S!RowWritten
  <2>3. /\ table.text[table.row[r]] = "," /\ table.text[table.row[r] + 1] = "nl"
        /\ table.text[table.row[r] + 2] = "("
    <3>1. PICK p, a, b, c : p \in Nat /\ p = table.row[r] /\ a = "," /\ b = "nl" /\ c = "("
      BY <1>2
    <3>2. S!Has(table, p, <<a, b, c>>)
      BY <2>2, <3>1
    <3>4. p \in Nat
      BY <3>1
    <3>3. table.text[p] = a /\ table.text[p + 1] = b /\ table.text[p + 2] = c
      BY <3>2, <3>4, HasThree
    <3> QED BY <3>1, <3>3
  <2>4. table.field[r][1] = table.row[r] + 3
    BY <1>2, <2>1 DEF S!RowWritten
  <2>5. table.field[r][1] - 1 = table.row[r] + 2
    BY <1>2, <2>4
  <2> QED BY <2>3, <2>4, <2>5
<1>4. CASE ~table.lines
  <2>1. S!RowStart(table, r) = <<",", "(">>
    BY <1>4 DEF S!RowStart
  <2>2. S!Has(table, table.row[r], <<",", "(">>)
    BY <1>2, <2>1 DEF S!RowWritten
  <2>3. table.text[table.row[r]] = "," /\ table.text[table.row[r] + 1] = "("
    BY <1>2, <2>2, HasTwo
  <2>4. table.field[r][1] = table.row[r] + 2
    BY <1>2, <2>1 DEF S!RowWritten
  <2>5. table.field[r][1] - 1 = table.row[r] + 1 /\ table.field[r][1] # table.row[r] + 3
    BY <1>2, <2>4
  <2> QED BY <2>3, <2>4, <2>5
<1> QED BY <1>3, <1>4

\* What follows a row.
LEMMA SQLAfterRow ==
    ASSUME SQLAssumption, SQLTypes, NEW r \in 1 .. Len(table.rows)
    PROVE  /\ S!Ends(table, r) => /\ table.text[S!EndAt(table, r)] = ";"
                                  /\ table.text[S!EndAt(table, r) + 1] = "nl"
                                  /\ table.row[r + 1] = S!EndAt(table, r) + 2
           /\ ~S!Ends(table, r) => /\ table.row[r + 1] = S!EndAt(table, r)
                                   /\ r + 1 \in 1 .. Len(table.rows) /\ r + 1 \notin table.starts
           /\ r # Len(table.rows) => r + 1 \in 1 .. Len(table.rows)
<1>1. S!RowWritten(table, r) /\ S!EndAt(table, r) \in Nat /\ Len(table.rows) \in Nat
  BY SQLTheRow, SQLTable
<1>2. CASE S!Ends(table, r)
  <2>1. S!Has(table, S!EndAt(table, r), <<";", "nl">>)
    BY <1>1, <1>2 DEF S!RowWritten
  <2>2. /\ table.text[S!EndAt(table, r)] = ";" /\ table.text[S!EndAt(table, r) + 1] = "nl"
    BY <1>1, <2>1, HasTwo
  <2>3. table.row[r + 1] = S!EndAt(table, r) + 2
    BY <1>1, <1>2 DEF S!RowWritten
  <2>4. r # Len(table.rows) => r + 1 \in 1 .. Len(table.rows)
    BY <1>1
  <2> QED BY <1>2, <2>2, <2>3, <2>4
<1>3. CASE ~S!Ends(table, r)
  <2> DEFINE e == S!EndAt(table, r)
  <2>1. table.row[r + 1] = e + 0 /\ e \in Nat
    BY <1>1, <1>3 DEF S!RowWritten
  <2>2. table.row[r + 1] = e
    <3> HIDE DEF e
    <3> QED BY <2>1
  <2>3. r # Len(table.rows) /\ r + 1 \notin table.starts
    BY <1>3 DEF S!Ends
  <2>4. r + 1 \in 1 .. Len(table.rows)
    BY <1>1, <2>3
  <2> QED BY <1>3, <2>2, <2>3, <2>4
<1> QED BY <1>2, <1>3

\* The head and the last line.
LEMMA SQLHeadText ==
    ASSUME SQLAssumption, SQLTypes
    PROVE  /\ table.text[1] = "word" /\ table.text[2] = "nl"
           /\ table.text[3] = "CREATE" /\ table.text[4] = "nl"
           /\ \A i \in 1 .. NumCols : /\ table.text[2 * i + 3] = "col"
                                      /\ table.text[2 * i + 4] = "nl"
           /\ table.text[2 * NumCols + 5] = ")" /\ table.text[2 * NumCols + 6] = "nl"
<1>1. S!HeadWritten(table) /\ NumCols \in Nat
  BY SQLTable DEF S!IsSQLFile
<1>2. \A i \in 1 .. 4 : table.text[1 + i - 1] = <<"word", "nl", "CREATE", "nl">>[i]
  BY <1>1 DEF S!HeadWritten, S!Has
<1>3. /\ table.text[1 + 1 - 1] = "word" /\ table.text[1 + 2 - 1] = "nl"
      /\ table.text[1 + 3 - 1] = "CREATE" /\ table.text[1 + 4 - 1] = "nl"
  BY <1>2
<1>4. ASSUME NEW i \in 1 .. NumCols
      PROVE  table.text[2 * i + 3] = "col" /\ table.text[2 * i + 4] = "nl"
  <2>1. S!Has(table, 2 * i + 3, <<"col", "nl">>)
    BY <1>1 DEF S!HeadWritten
  <2>2. table.text[2 * i + 3 + 1 - 1] = "col" /\ table.text[2 * i + 3 + 2 - 1] = "nl"
    BY <2>1 DEF S!Has
  <2> QED BY <2>2
<1>5. S!Has(table, 2 * NumCols + 5, <<")", "nl">>)
  BY <1>1 DEF S!HeadWritten
<1>6. table.text[2 * NumCols + 5 + 1 - 1] = ")" /\ table.text[2 * NumCols + 5 + 2 - 1] = "nl"
  BY <1>5 DEF S!Has
<1> QED BY <1>1, <1>3, <1>4, <1>6

LEMMA SQLLastText ==
    ASSUME SQLAssumption, SQLTypes
    PROVE  LET e == table.row[Len(table.rows) + 1]
           IN  /\ e \in Nat /\ table.text[e] = "word" /\ table.text[e + 1] = ";"
               /\ table.text[e + 2] = "nl" /\ Len(table.text) = e + 2
<1> DEFINE e == table.row[Len(table.rows) + 1]
<1>1. Len(table.rows) + 1 \in 1 .. Len(table.rows) + 1
  BY SQLTable
<1>2. e \in Nat /\ S!Has(table, e, <<"word", ";", "nl">>) /\ Len(table.text) = e + 2
  BY <1>1, SQLTable DEF S!IsSQLFile
<1> HIDE DEF e
<1>3. table.text[e] = "word" /\ table.text[e + 1] = ";" /\ table.text[e + 2] = "nl"
  BY <1>2, HasThree
<1> QED BY <1>2, <1>3 DEF e

LEMMA SQLTheField ==
    ASSUME SQLAssumption, SQLTypes, NEW r \in 1 .. Len(table.rows),
           NEW f \in 1 .. Len(table.rows[r])
    PROVE  /\ table.rows[r][f] \in S!Fields
           /\ table.rows[r][f].text \in Seq(Tokens) /\ Len(table.rows[r][f].text) \in Nat
           /\ table.field[r][f] \in Nat /\ table.field[r][f + 1] \in Nat
           /\ table.field[r][f] < table.field[r][f + 1]
           /\ table.field[r][f + 1] <= S!EndAt(table, r)
           /\ S!FieldWritten(table, r, f)
           /\ f = Len(table.rows[r]) => table.field[r][f + 1] = S!EndAt(table, r)
           /\ f # Len(table.rows[r]) => f + 1 \in 1 .. Len(table.rows[r])
<1>1. /\ table.rows[r] \in Seq(S!Fields) /\ Len(table.rows[r]) \in Nat \ {0}
      /\ \A g \in 1 .. Len(table.rows[r]) + 1 : table.field[r][g] \in Nat
      /\ S!RowWritten(table, r)
  BY SQLTheRow
<1>2. table.rows[r][f] \in S!Fields
  BY <1>1, ElementOfSeq
<1>3. table.rows[r][f].text \in Seq(Tokens)
  BY <1>2 DEF S!Fields
<1>4. Len(table.rows[r][f].text) \in Nat
  BY <1>3, LenProperties
<1>5. f \in 1 .. Len(table.rows[r]) + 1 /\ f + 1 \in 1 .. Len(table.rows[r]) + 1
  BY <1>1
<1>6. S!FieldWritten(table, r, f)
  BY <1>1 DEF S!RowWritten
<1>7. table.field[r][f] < table.field[r][f + 1] /\ table.field[r][f + 1] <= S!EndAt(table, r)
  BY SQLTable DEF S!IsSQLFile, S!InOrder
<1>8. f = Len(table.rows[r]) => table.field[r][f + 1] = S!EndAt(table, r)
  BY DEF S!EndAt
<1>9. f # Len(table.rows[r]) => f + 1 \in 1 .. Len(table.rows[r])
  BY <1>1
<1> QED BY <1>1, <1>2, <1>3, <1>4, <1>5, <1>6, <1>7, <1>8, <1>9

\* What follows a field.
LEMMA SQLAfterField ==
    ASSUME SQLAssumption, SQLTypes, NEW r \in 1 .. Len(table.rows),
           NEW f \in 1 .. Len(table.rows[r])
    PROVE  table.text[table.field[r][f + 1] - 1] = IF f = Len(table.rows[r]) THEN ")" ELSE ","
  BY SQLTheField DEF S!FieldWritten

\* A field without quotes.
LEMMA SQLBareField ==
    ASSUME SQLAssumption, SQLTypes, NEW r \in 1 .. Len(table.rows),
           NEW f \in 1 .. Len(table.rows[r]), table.rows[r][f].kind # "quoted"
    PROVE  LET b == S!Bare(table.rows[r][f])
           IN  /\ b \in Seq(Tokens) /\ Len(b) \in Nat \ {0}
               /\ \A j \in 1 .. Len(b) : /\ table.text[table.field[r][f] + j - 1] = b[j]
                                         /\ b[j] \notin S!Space \cup {",", ")", "'"}
               /\ table.field[r][f + 1] = table.field[r][f] + Len(b) + 1
               /\ table.rows[r][f] = IF b = <<"NULL">> THEN S!Null ELSE S!Raw(b)
<1> DEFINE v == table.rows[r][f]
           b == S!Bare(v)
<1>1. v \in S!Fields /\ S!FieldWritten(table, r, f) /\ v.text \in Seq(Tokens)
  BY SQLTheField
<1>2. S!BareWritten(table, r, f)
  BY <1>1 DEF S!FieldWritten
<1>3. S!IsBare(v) /\ S!Has(table, table.field[r][f], b)
      /\ table.field[r][f + 1] = table.field[r][f] + Len(b) + 1
  BY <1>2 DEF S!BareWritten
<1>4. CASE v = S!Null
  <2>1. b = <<"NULL">>
    BY <1>4 DEF S!Bare, S!Null
  <2>2. b \in Seq(Tokens) /\ Len(b) = 1 /\ b[1] = "NULL"
    <3>0. "NULL" \in Tokens
      BY DEF SQLAssumption
    <3>1. PICK n : n \in Tokens /\ n = "NULL"
      BY <3>0
    <3>2. <<n>> \in Seq(Tokens) /\ Len(<<n>>) = 1 /\ <<n>>[1] = n
      BY <3>1
    <3> HIDE DEF b
    <3>3. b = <<n>>
      BY <2>1, <3>1
    <3> QED BY <3>1, <3>2, <3>3
  <2>3. \A j \in 1 .. Len(b) : b[j] \notin S!Space \cup {",", ")", "'"}
    <3>1. "NULL" \notin S!Space \cup {",", ")", "'"}
      BY DEF S!Space
    <3> HIDE DEF b
    <3>2. \A j \in 1 .. Len(b) : j = 1
      BY <2>2
    <3> QED BY <2>2, <3>1, <3>2
  <2>4. \A j \in 1 .. Len(b) : table.text[table.field[r][f] + j - 1] = b[j]
    BY <1>3 DEF S!Has
  <2> HIDE DEF v, b
  <2>5. v = IF b = <<"NULL">> THEN S!Null ELSE S!Raw(b)
    BY <1>4, <2>1
  <2>6. Len(b) \in Nat \ {0}
    BY <2>2
  <2> QED BY <1>3, <2>2, <2>3, <2>4, <2>5, <2>6 DEF v, b
<1>5. CASE v # S!Null
  <2>1. /\ v.kind = "raw" /\ v.text # <<>> /\ v.text # <<"NULL">>
        /\ \A j \in DOMAIN v.text : v.text[j] \notin S!Space \cup {",", ")", "'"}
    BY <1>3, <1>5 DEF S!IsBare
  <2>2. b = v.text
    BY <2>1 DEF S!Bare
  <2>3. Len(b) \in Nat \ {0} /\ DOMAIN v.text = 1 .. Len(b)
    BY <1>1, <2>1, <2>2, EmptySeq, LenProperties
  <2>4. \A j \in 1 .. Len(b) : table.text[table.field[r][f] + j - 1] = b[j]
    BY <1>3 DEF S!Has
  <2>5. v = [kind |-> "raw", text |-> v.text]
    BY <1>1, <2>1 DEF S!Fields
  <2>6. v = S!Raw(b)
    BY <2>2, <2>5 DEF S!Raw
  <2>7. \A j \in 1 .. Len(b) : b[j] \notin S!Space \cup {",", ")", "'"}
    BY <2>1, <2>2, <2>3
  <2>8. b \in Seq(Tokens) /\ b # <<"NULL">>
    BY <1>1, <2>1, <2>2
  <2> HIDE DEF v, b
  <2> QED BY <1>3, <2>3, <2>4, <2>6, <2>7, <2>8 DEF v, b
<1> QED BY <1>4, <1>5

\* A field with quotes: its ends, and each of its characters.
LEMMA SQLQuotedField ==
    ASSUME SQLAssumption, SQLTypes, NEW r \in 1 .. Len(table.rows),
           NEW f \in 1 .. Len(table.rows[r]), table.rows[r][f].kind = "quoted"
    PROVE  /\ table.text[table.field[r][f]] = "'"
           /\ table.char[r][f][1] = table.field[r][f] + 1
           /\ table.char[r][f][Len(table.rows[r][f].text) + 1] \in Nat
           /\ table.text[table.char[r][f][Len(table.rows[r][f].text) + 1]] = "'"
           /\ table.field[r][f + 1] = table.char[r][f][Len(table.rows[r][f].text) + 1] + 2
           /\ table.rows[r][f] = S!Quoted(table.rows[r][f].text)
<1> DEFINE v == table.rows[r][f]
<1>1. v \in S!Fields /\ S!FieldWritten(table, r, f) /\ Len(v.text) \in Nat
  BY SQLTheField
<1>2. S!QuotedWritten(table, r, f)
  BY <1>1 DEF S!FieldWritten
<1>3. v = S!Quoted(v.text)
  BY <1>1 DEF S!Fields, S!Quoted
<1>4. Len(v.text) + 1 \in 1 .. Len(v.text) + 1
  BY <1>1
<1>5. table.char[r][f][Len(v.text) + 1] \in Nat
  BY <1>4, SQLTable DEF S!IsSQLFile, S!InOrder
<1> QED BY <1>2, <1>3, <1>5 DEF S!QuotedWritten

\* The character c is written at p, the next one at n.
CharAt(c, p, n) ==
    \/ table.text[p] = c /\ c \notin {"'", "\\"} /\ n = p + 1
    \/ table.text[p] = "'" /\ table.text[p + 1] = "'" /\ c = "'" /\ n = p + 2
    \/ table.text[p] = "\\" /\ S!unescape(table.text[p + 1]) = c /\ n = p + 2

LEMMA SQLQuotedChar ==
    ASSUME SQLAssumption, SQLTypes, NEW r \in 1 .. Len(table.rows),
           NEW f \in 1 .. Len(table.rows[r]), table.rows[r][f].kind = "quoted",
           NEW j \in 1 .. Len(table.rows[r][f].text)
    PROVE  /\ table.char[r][f][j] \in Nat /\ table.char[r][f][j] < table.field[r][f + 1]
           /\ table.char[r][f][j + 1] \in Nat
           /\ table.char[r][f][j + 1] < table.field[r][f + 1]
           /\ table.rows[r][f].text[j] \in Tokens
           /\ CharAt(table.rows[r][f].text[j], table.char[r][f][j], table.char[r][f][j + 1])
<1> DEFINE u == table.rows[r][f].text
           c == u[j]
           p == table.char[r][f][j]
           q == table.char[r][f][j + 1]
<1>1. S!FieldWritten(table, r, f) /\ u \in Seq(Tokens) /\ Len(u) \in Nat
  BY SQLTheField
<1>2. S!CharWritten(table, r, f, j)
  BY <1>1 DEF S!FieldWritten, S!QuotedWritten
<1>3. S!Has(table, p, S!CharText(table, c)) /\ q = p + Len(S!CharText(table, c))
  BY <1>2 DEF S!CharWritten
<1>4. c \in Tokens
  BY <1>1, ElementOfSeq
<1>5. j \in 1 .. Len(u) + 1 /\ j + 1 \in 1 .. Len(u) + 1
  BY <1>1
<1>6. p \in Nat /\ p < table.field[r][f + 1] /\ q \in Nat /\ q < table.field[r][f + 1]
  BY <1>5, SQLTable DEF S!IsSQLFile, S!InOrder
<1> HIDE DEF u, c, p, q
<1>7. CASE c \notin S!Escaped
  <2>1. S!CharText(table, c) = <<c>>
    BY <1>7 DEF S!CharText
  <2>2. \A i \in 1 .. 1 : table.text[p + i - 1] = <<c>>[i]
    BY <1>3, <2>1 DEF S!Has
  <2>3. table.text[p + 1 - 1] = c
    BY <2>2
  <2>4. table.text[p] = c /\ q = p + 1
    BY <1>3, <1>6, <2>1, <2>3
  <2>5. c \notin {"'", "\\"}
    BY <1>7 DEF S!Escaped
  <2> QED BY <1>4, <1>6, <2>4, <2>5 DEF u, c, p, q, CharAt
<1>8. CASE c \in S!Escaped
  <2>1. PICK a, b : a = (IF c = "'" /\ table.doubled THEN "'" ELSE "\\") /\ b = S!EscapeOf(c)
    OBVIOUS
  <2>2. S!CharText(table, c) = <<a, b>>
    BY <1>8, <2>1 DEF S!CharText
  <2>3. S!Has(table, p, <<a, b>>) /\ q = p + 2
    BY <1>3, <2>2
  <2>4. table.text[p] = a /\ table.text[p + 1] = b
    BY <1>6, <2>3, HasTwo
  <2>5. S!unescape(b) = c
    BY <1>8, <2>1 DEF S!Escaped, S!EscapeOf, S!unescape
  <2>6. CASE c = "'" /\ table.doubled
    <3>1. a = "'" /\ b = "'"
      BY <2>1, <2>6 DEF S!EscapeOf
    <3> QED BY <1>4, <1>6, <2>3, <2>4, <2>6, <3>1 DEF u, c, p, q, CharAt
  <2>7. CASE ~(c = "'" /\ table.doubled)
    <3>1. a = "\\"
      BY <2>1, <2>7
    <3> QED BY <1>4, <1>6, <2>3, <2>4, <2>5, <3>1 DEF u, c, p, q, CharAt
  <2> QED BY <2>6, <2>7
<1> QED BY <1>7, <1>8

\* The first newline, or the first space, at or after a place.
LEMMA SQLLine ==
    ASSUME NEW p \in Nat, NEW q \in p .. Len(file), S!LineTo(p, q), Len(file) \in Nat
    PROVE  S!LineEnds(p) /\ S!AfterLine(p) = q + 1
<1>1. S!LineEnds(p)
  BY DEF S!LineEnds, S!LineTo
<1>2. \A m \in p .. Len(file) : S!LineTo(p, m) => m = q
  <2> SUFFICES ASSUME NEW m \in p .. Len(file), S!LineTo(p, m) PROVE m = q
    OBVIOUS
  <2>1. ~ m < q
    BY DEF S!LineTo
  <2>2. ~ q < m
    BY DEF S!LineTo
  <2> QED BY <2>1, <2>2
<1>3. (CHOOSE m \in p .. Len(file) : S!LineTo(p, m)) = q
  BY <1>2
<1> DEFINE w == CHOOSE m \in p .. Len(file) : S!LineTo(p, m)
<1>4. S!AfterLine(p) = 1 + w /\ w = q
  BY <1>1, <1>3 DEF S!AfterLine
<1> HIDE DEF w
<1> QED BY <1>1, <1>4

LEMMA SQLWord ==
    ASSUME NEW p \in Nat, NEW q \in p .. Len(file), S!WordTo(p, q), Len(file) \in Nat
    PROVE  S!AfterWord(p) = q
<1>1. \E m \in p .. Len(file) : file[m] \in S!Space
  BY DEF S!WordTo
<1>2. \A m \in p .. Len(file) : S!WordTo(p, m) => m = q
  <2> SUFFICES ASSUME NEW m \in p .. Len(file), S!WordTo(p, m) PROVE m = q
    OBVIOUS
  <2>1. ~ m < q
    BY DEF S!WordTo
  <2>2. ~ q < m
    BY DEF S!WordTo
  <2> QED BY <2>1, <2>2
<1>3. (CHOOSE m \in p .. Len(file) : S!WordTo(p, m)) = q
  BY <1>2
<1> QED BY <1>1, <1>3 DEF S!AfterWord

\* The tokens of a field without quotes.
LEMMA SQLBareTokens ==
    ASSUME SQLAssumption, SQLTypes, NEW r \in 1 .. Len(table.rows),
           NEW f \in 1 .. Len(table.rows[r]), table.rows[r][f].kind # "quoted",
           NEW k \in Nat, k < Len(S!Bare(table.rows[r][f]))
    PROVE  LET b == S!Bare(table.rows[r][f])
           IN  /\ table.text[table.field[r][f] + k] = b[k + 1]
               /\ b[k + 1] \notin S!Space \cup {",", ")", "'"}
<1>1. PICK b : b = S!Bare(table.rows[r][f])
  OBVIOUS
<1>2. \A j \in 1 .. Len(b) : table.text[table.field[r][f] + j - 1] = b[j]
  <2>1. S!Has(table, table.field[r][f], b)
    BY <1>1, SQLTheField DEF S!FieldWritten, S!BareWritten
  <2> QED BY <2>1 DEF S!Has
<1>3. \A j \in 1 .. Len(b) : b[j] \notin S!Space \cup {",", ")", "'"}
  BY <1>1, SQLBareField
<1>4. Len(b) \in Nat
  BY <1>1, SQLBareField
<1>5. k + 1 \in 1 .. Len(b)
  BY <1>1, <1>4
<1>6. PICK p \in Nat : p = table.field[r][f]
  BY SQLTheField
<1>7. table.text[p + (k + 1) - 1] = b[k + 1]
  BY <1>2, <1>5, <1>6
<1>8. p + (k + 1) - 1 = p + k
  OBVIOUS
<1> QED BY <1>1, <1>3, <1>5, <1>6, <1>7, <1>8

----------------------------------------------------------------------------
(* The steps of the reader.                                                  *)

\* The place of a row.
LEMMA SQLRowSpan ==
    ASSUME SQLAssumption, SQLTypes, NEW r \in 1 .. Len(table.rows)
    PROVE  /\ table.row[r] \in Nat /\ table.field[r][1] \in Nat /\ S!EndAt(table, r) \in Nat
           /\ table.row[r] + 2 <= table.field[r][1] /\ table.field[r][1] < S!EndAt(table, r)
<1>1. /\ table.row[r] \in Nat /\ S!EndAt(table, r) \in Nat
      /\ Len(table.rows[r]) \in Nat \ {0}
  BY SQLTheRow
<1>2. 1 \in 1 .. Len(table.rows[r])
  BY <1>1
<1>3. /\ table.field[r][1] \in Nat /\ table.field[r][1 + 1] \in Nat
      /\ table.field[r][1] < table.field[r][1 + 1]
      /\ table.field[r][1 + 1] <= S!EndAt(table, r)
  BY <1>2, SQLTheField
<1>4. table.row[r] + 2 <= table.field[r][1]
  <2>1. CASE r \in table.starts
    <3>1. table.field[r][1] = table.row[r] + 9
      BY <2>1, SQLFirstRow
    <3> QED BY <1>1, <3>1
  <2>2. CASE r \notin table.starts
    <3>1. table.field[r][1] \in {table.row[r] + 2, table.row[r] + 3}
      BY <2>2, SQLOtherRow
    <3> QED BY <1>1, <3>1
  <2> QED BY <2>1, <2>2
<1> QED BY <1>1, <1>3, <1>4

\* The rows come one after the other.
LEMMA SQLRowOrder ==
    ASSUME SQLAssumption, SQLTypes, NEW q \in 1 .. Len(table.rows) + 1,
           NEW r \in 1 .. Len(table.rows) + 1, q < r
    PROVE  table.row[q] < table.row[r]
  BY SQLTable DEF S!IsSQLFile, S!InOrder

\* A step that moves within the statement, or before it.
LEMMA SQLMoves ==
    ASSUME SQLTypes, S!RowsArePrefix, UNCHANGED <<table, file, tail, rows>>,
           pos' \in Nat, pos' > 0, pos' <= Len(file) + 1, cols' \in Nat,
           mode' \in {"head", "cols", "find", "words", "list", "field", "raw", "quoted",
                      "closed"},
           row' \in Seq(S!Fields), buf' \in Seq(Tokens)
    PROVE  SQLTypes' /\ S!RowsArePrefix' /\ S!EofIsWhole'
<1>1. SQLTypes'
  BY DEF SQLTypes
<1>2. S!RowsArePrefix'
  BY DEF S!RowsArePrefix
<1>3. S!EofIsWhole'
  BY DEF S!EofIsWhole
<1> QED BY <1>1, <1>2, <1>3

LEMMA SQLInsideMoves ==
    ASSUME NEW q, SQLInside(q), UNCHANGED <<table, file>>,
           table.row[q] <= pos', pos' <= S!EndAt(table, q)
    PROVE  SQLInside(q)'
<1>1. PICK s \in table.starts :
        /\ q \in S!Statement(s) /\ S!Begun(s)
        /\ \A k \in table.starts : k < s => S!Closed(k)
  BY DEF SQLInside
<1>2. /\ q \in S!Statement(s)' /\ S!Begun(s)'
      /\ \A k \in table.starts : k < s => S!Closed(k)'
  BY <1>1 DEF S!Statement, S!Begun, S!Closed
<1> QED BY <1>2 DEF SQLInside

\* readHead: the line before the CREATE TABLE is skipped.
LEMMA SQLHeadLine ==
    ASSUME SQLAssumption, SQLInv, S!HeadLine
    PROVE  SQLInv'
<1>1. /\ SQLTypes /\ S!RowsArePrefix /\ SQLHead /\ mode = "head" /\ cols = 0 /\ rows = <<>>
      /\ pos \in {1, 3} /\ Len(file) \in Nat /\ Len(file) >= pos /\ file[pos] # "CREATE"
      /\ S!LineEnds(pos)
  BY SQLTable DEF SQLInv, S!HeadLine, SQLHead, S!AtEnd, S!C, SQLTypes
<1>2. /\ table.text[1] = "word" /\ table.text[2] = "nl" /\ table.text[3] = "CREATE"
      /\ \A k \in 1 .. Len(file) : file[k] = table.text[k]
  BY <1>1, SQLHeadText DEF SQLTypes
<1>3. pos = 1
  <2> SUFFICES ASSUME pos = 3 PROVE FALSE
    BY <1>1
  <2>1. file[3] = "CREATE"
    BY <1>1, <1>2
  <2> QED BY <1>1, <2>1
<1>4. file[1] = "word"
  BY <1>1, <1>2, <1>3
<1>5. Len(file) >= 2
  BY <1>1, <1>3, <1>4 DEF S!LineEnds
<1>6. 2 \in 1 .. Len(file) /\ S!LineTo(1, 2)
  BY <1>1, <1>2, <1>4, <1>5 DEF S!LineTo
<1>7. S!AfterLine(1) = 3
  BY <1>1, <1>6, SQLLine
<1>8. /\ pos' = 3 /\ mode' = "head"
      /\ UNCHANGED <<table, file, tail, cols, buf, row, rows>>
  BY <1>3, <1>7 DEF S!HeadLine, S!Move
<1>9. SQLTypes' /\ S!RowsArePrefix' /\ S!EofIsWhole'
  <2>1. row \in Seq(S!Fields) /\ buf \in Seq(Tokens) /\ cols \in Nat
    BY <1>1 DEF SQLTypes
  <2> QED BY <1>1, <1>5, <1>8, <2>1, SQLMoves
<1> QED BY <1>1, <1>8, <1>9 DEF SQLInv, SQLHead, SQLFind, SQLWords, SQLList, SQLFields

\* readHead: the line of the CREATE TABLE.
LEMMA SQLHeadCreate ==
    ASSUME SQLAssumption, SQLInv, S!HeadCreate
    PROVE  SQLInv'
<1>1. /\ SQLTypes /\ S!RowsArePrefix /\ SQLHead /\ mode = "head" /\ cols = 0 /\ rows = <<>>
      /\ pos \in {1, 3} /\ Len(file) \in Nat /\ Len(file) >= pos /\ file[pos] = "CREATE"
  BY SQLTable DEF SQLInv, S!HeadCreate, SQLHead, S!AtEnd, S!C, SQLTypes
<1>2. /\ table.text[1] = "word" /\ table.text[3] = "CREATE" /\ table.text[4] = "nl"
      /\ \A k \in 1 .. Len(file) : file[k] = table.text[k]
      /\ NumCols \in Nat \ {0}
  BY <1>1, SQLHeadText, SQLTable DEF SQLTypes
<1>3. pos = 3
  <2> SUFFICES ASSUME pos = 1 PROVE FALSE
    BY <1>1
  <2>1. file[1] = "word"
    BY <1>1, <1>2
  <2> QED BY <1>1, <2>1
<1>4. /\ mode' = "cols" /\ pos' = S!AfterLine(3)
      /\ UNCHANGED <<table, file, tail, cols, buf, row, rows>>
  BY <1>3 DEF S!HeadCreate, S!Move
<1>5. /\ pos' \in Nat /\ pos' > 0 /\ pos' <= Len(file) + 1
      /\ pos' = 5 \/ (pos' = Len(file) + 1 /\ Len(file) < 2 * NumCols + 5)
  <2>1. CASE Len(file) >= 4
    <3>1. 4 \in 3 .. Len(file) /\ S!LineTo(3, 4)
      BY <1>1, <1>2, <1>3, <2>1 DEF S!LineTo
    <3>2. S!AfterLine(3) = 5
      BY <1>1, <3>1, SQLLine
    <3> QED BY <1>1, <1>4, <2>1, <3>2
  <2>2. CASE Len(file) = 3
    <3>1. ~S!LineEnds(3)
      BY <1>1, <1>3, <2>2 DEF S!LineEnds
    <3>2. S!AfterLine(3) = Len(file) + 1
      BY <3>1 DEF S!AfterLine
    <3> QED BY <1>2, <1>4, <2>2, <3>2
  <2>3. Len(file) \in Nat /\ Len(file) >= 3
    BY <1>1, <1>3
  <2>4. Len(file) >= 4 \/ Len(file) = 3
    <3>1. PICK n \in Nat : n = Len(file)
      BY <2>3
    <3>2. n >= 3
      BY <2>3, <3>1
    <3>3. n >= 4 \/ n = 3
      BY <3>2
    <3> QED BY <3>1, <3>3
  <2> QED BY <2>1, <2>2, <2>4
<1>6. SQLTypes' /\ S!RowsArePrefix' /\ S!EofIsWhole'
  <2>1. row \in Seq(S!Fields) /\ buf \in Seq(Tokens) /\ cols \in Nat
    BY <1>1 DEF SQLTypes
  <2> QED BY <1>1, <1>4, <1>5, <2>1, SQLMoves
<1>7. SQLHead'
  BY <1>1, <1>2, <1>4, <1>5 DEF SQLHead, S!AtEnd, S!HeadWhole
<1> QED BY <1>4, <1>6, <1>7 DEF SQLInv, SQLFind, SQLWords, SQLList, SQLFields

\* readColumns: the line of a column.
LEMMA SQLColumnLine ==
    ASSUME SQLAssumption, SQLInv, S!ColumnLine
    PROVE  SQLInv'
<1>1. /\ SQLTypes /\ S!RowsArePrefix /\ SQLHead /\ mode = "cols" /\ rows = <<>>
      /\ cols \in Nat /\ cols <= NumCols /\ pos = 2 * cols + 5
      /\ Len(file) \in Nat /\ Len(file) >= pos /\ file[pos] # ")" /\ S!LineEnds(pos)
      /\ NumCols \in Nat \ {0}
  BY SQLTable DEF SQLInv, S!ColumnLine, SQLHead, S!AtEnd, S!C, SQLTypes
<1>2. \A k \in 1 .. Len(file) : file[k] = table.text[k]
  BY <1>1 DEF SQLTypes
<1>3. cols < NumCols
  <2> SUFFICES ASSUME cols = NumCols PROVE FALSE
    BY <1>1
  <2>1. table.text[pos] = ")"
    BY <1>1, SQLHeadText
  <2> QED BY <1>1, <1>2, <2>1
<1>4. table.text[pos] = "col" /\ table.text[pos + 1] = "nl"
  <2>1. cols + 1 \in 1 .. NumCols /\ 2 * (cols + 1) + 3 = pos /\ 2 * (cols + 1) + 4 = pos + 1
    BY <1>1, <1>3
  <2>2. table.text[2 * (cols + 1) + 3] = "col" /\ table.text[2 * (cols + 1) + 4] = "nl"
    BY <1>1, <2>1, SQLHeadText
  <2> QED BY <2>1, <2>2
<1>5. file[pos] = "col"
  BY <1>1, <1>2, <1>4
<1>6. Len(file) >= pos + 1
  BY <1>1, <1>5 DEF S!LineEnds
<1>7. pos \in Nat /\ pos + 1 \in pos .. Len(file) /\ S!LineTo(pos, pos + 1)
  BY <1>1, <1>2, <1>4, <1>5, <1>6 DEF S!LineTo
<1>8. S!AfterLine(pos) = pos + 1 + 1
  BY <1>1, <1>7, SQLLine
<1>9. /\ mode' = "cols" /\ pos' = pos + 2 /\ cols' = cols + 1
      /\ UNCHANGED <<table, file, tail, buf, row, rows>>
  BY <1>5, <1>7, <1>8 DEF S!ColumnLine, S!Move, S!C
<1>10. SQLTypes' /\ S!RowsArePrefix' /\ S!EofIsWhole'
  <2>1. row \in Seq(S!Fields) /\ buf \in Seq(Tokens)
    BY <1>1 DEF SQLTypes
  <2> QED BY <1>1, <1>6, <1>9, <2>1, SQLMoves
<1>11. SQLHead'
  BY <1>1, <1>3, <1>9 DEF SQLHead
<1> QED BY <1>9, <1>10, <1>11 DEF SQLInv, SQLFind, SQLWords, SQLList, SQLFields

\* readColumns: the line that closes the columns.
LEMMA SQLColumnsClose ==
    ASSUME SQLAssumption, SQLInv, S!ColumnsClose
    PROVE  SQLInv'
<1>1. /\ SQLTypes /\ S!RowsArePrefix /\ SQLHead /\ mode = "cols" /\ rows = <<>>
      /\ cols \in Nat /\ cols <= NumCols /\ pos = 2 * cols + 5
      /\ Len(file) \in Nat /\ Len(file) >= pos /\ file[pos] = ")"
      /\ NumCols \in Nat \ {0} /\ Len(table.rows) \in Nat
      /\ table.row[1] = 2 * NumCols + 7
  BY SQLTable DEF SQLInv, S!ColumnsClose, SQLHead, S!AtEnd, S!C, SQLTypes
<1>2. \A k \in 1 .. Len(file) : file[k] = table.text[k]
  BY <1>1 DEF SQLTypes
<1>3. cols = NumCols
  <2> SUFFICES ASSUME cols < NumCols PROVE FALSE
    BY <1>1
  <2>1. cols + 1 \in 1 .. NumCols /\ 2 * (cols + 1) + 3 = pos
    BY <1>1
  <2>2. table.text[2 * (cols + 1) + 3] = "col"
    BY <1>1, <2>1, SQLHeadText
  <2> QED BY <1>1, <1>2, <2>1, <2>2
<1>4. /\ mode' = "find" /\ pos' = S!AfterLine(pos)
      /\ UNCHANGED <<table, file, tail, cols, buf, row, rows>>
  BY <1>1, <1>3 DEF S!ColumnsClose, S!Move
<1>5. /\ pos' \in Nat /\ pos' > 0 /\ pos' <= Len(file) + 1
      /\ \/ pos' = table.row[1]
         \/ pos' = table.row[1] - 1 /\ pos' > Len(file)
  <2>1. CASE Len(file) >= pos + 1
    <3>1. table.text[pos + 1] = "nl"
      BY <1>1, <1>3, SQLHeadText
    <3>2. pos \in Nat /\ pos + 1 \in pos .. Len(file) /\ S!LineTo(pos, pos + 1)
      BY <1>1, <1>2, <2>1, <3>1 DEF S!LineTo
    <3>3. S!AfterLine(pos) = pos + 1 + 1
      BY <1>1, <3>2, SQLLine
    <3> QED BY <1>1, <1>3, <1>4, <2>1, <3>3
  <2>2. CASE Len(file) = pos
    <3>1. ~S!LineEnds(pos)
      BY <1>1, <2>2 DEF S!LineEnds
    <3>2. S!AfterLine(pos) = Len(file) + 1
      BY <3>1 DEF S!AfterLine
    <3> QED BY <1>1, <1>3, <1>4, <2>2, <3>2
  <2> QED BY <1>1, <2>1, <2>2
<1>6. SQLTypes' /\ S!RowsArePrefix' /\ S!EofIsWhole'
  <2>1. row \in Seq(S!Fields) /\ buf \in Seq(Tokens) /\ cols \in Nat
    BY <1>1 DEF SQLTypes
  <2> QED BY <1>1, <1>4, <1>5, <2>1, SQLMoves
<1>7. SQLHead'
  BY <1>1, <1>3, <1>4 DEF SQLHead, S!HeadWhole
<1>8. SQLFind'
  <2>1. Len(rows') = 0 /\ RowIn' = 1
    BY <1>1, <1>4 DEF RowIn
  <2>2. table.starts \subseteq 1 .. Len(table.rows)
    BY <1>1, SQLTable
  <2>3. \A s \in table'.starts : ~ s <= Len(rows')
    BY <1>1, <1>4, <2>1, <2>2
  <2> QED BY <1>4, <1>5, <2>1, <2>3 DEF SQLFind, S!AtEnd
<1> QED BY <1>4, <1>6, <1>7, <1>8 DEF SQLInv, SQLWords, SQLList, SQLFields

\* The bytes end in the head.
LEMMA SQLHeadEnds ==
    ASSUME SQLAssumption, SQLInv, S!HeadEnds
    PROVE  SQLInv'
<1>1. /\ SQLTypes /\ S!RowsArePrefix /\ SQLHead /\ mode \in {"head", "cols"} /\ rows = <<>>
      /\ Len(file) \in Nat /\ NumCols \in Nat \ {0} /\ cols \in Nat
      /\ ~S!LineEnds(pos)
  BY SQLTable DEF SQLInv, S!HeadEnds, SQLHead, SQLTypes
<1>2. /\ mode' = "error" /\ UNCHANGED <<table, file, tail, pos, cols, buf, row, rows>>
  BY DEF S!HeadEnds, S!Answer
<1>3. \A k \in 1 .. Len(file) : file[k] = table.text[k]
  BY <1>1 DEF SQLTypes
<1>4. ~S!HeadWhole
  <2>1. CASE mode = "head"
    <3>1. pos \in {1, 3} /\ ~S!At("CREATE")
      BY <1>1, <2>1 DEF SQLHead, S!HeadEnds
    <3>2. table.text[2] = "nl" /\ table.text[3] = "CREATE"
      BY <1>1, SQLHeadText
    <3>3. pos = 1 => Len(file) < 2
      BY <1>1, <1>3, <3>2 DEF S!LineEnds
    <3>4. pos = 3 => Len(file) < 3
      BY <1>1, <1>3, <3>1, <3>2 DEF S!At, S!AtEnd, S!C
    <3> QED BY <1>1, <3>1, <3>3, <3>4 DEF S!HeadWhole
  <2>2. CASE mode = "cols" /\ pos = 2 * cols + 5
    <3>1. cols <= NumCols /\ ~S!At(")")
      BY <1>1, <2>2 DEF SQLHead, S!HeadEnds
    <3>2. CASE cols = NumCols
      <4>1. table.text[pos] = ")"
        BY <1>1, <2>2, <3>2, SQLHeadText
      <4> QED BY <1>1, <1>3, <2>2, <3>1, <3>2, <4>1 DEF S!At, S!AtEnd, S!C, S!HeadWhole
    <3>3. CASE cols < NumCols
      <4>1. cols + 1 \in 1 .. NumCols /\ 2 * (cols + 1) + 4 = pos + 1
        BY <1>1, <2>2, <3>3
      <4>2. table.text[2 * (cols + 1) + 4] = "nl"
        BY <1>1, <4>1, SQLHeadText
      <4>3. table.text[pos + 1] = "nl"
        BY <4>1, <4>2
      <4>4. Len(file) < pos + 1
        <5> SUFFICES ASSUME Len(file) >= pos + 1 PROVE FALSE
          BY <1>1, <2>2
        <5>1. pos + 1 \in pos .. Len(file) /\ pos + 1 \in 1 .. Len(file)
          BY <1>1, <2>2
        <5>2. file[pos + 1] = "nl"
          BY <1>3, <4>3, <5>1
        <5> QED BY <1>1, <5>1, <5>2 DEF S!LineEnds
      <4> QED BY <1>1, <2>2, <3>3, <4>4 DEF S!HeadWhole
    <3> QED BY <1>1, <3>1, <3>2, <3>3
  <2>3. CASE mode = "cols" /\ pos # 2 * cols + 5
    BY <1>1, <2>3 DEF SQLHead
  <2> QED BY <1>1, <2>1, <2>2, <2>3
<1>5. SQLTypes' /\ S!RowsArePrefix'
  BY <1>1, <1>2 DEF SQLTypes, S!RowsArePrefix
<1>6. S!EofIsWhole'
  BY <1>2, <1>4 DEF S!EofIsWhole, S!HeadWhole
<1> QED BY <1>2, <1>5, <1>6 DEF SQLInv, SQLHead, SQLFind, SQLWords, SQLList, SQLFields

\* Between two statements the next row begins one.
LEMMA SQLNextBegins ==
    ASSUME SQLAssumption, SQLTypes, S!RowsArePrefix, SQLFind, mode = "find"
    PROVE  /\ RowIn \in 1 .. Len(table.rows) + 1 /\ Len(rows) \in Nat
           /\ RowIn = Len(table.rows) + 1 \/ RowIn \in table.starts
           /\ table.row[RowIn] \in Nat
<1>1. Len(table.rows) \in Nat /\ Len(rows) \in Nat /\ Len(rows) <= Len(table.rows)
  BY SQLTable, LenProperties DEF SQLTypes, S!RowsArePrefix
<1>2. RowIn \in 1 .. Len(table.rows) + 1
  BY <1>1 DEF RowIn
<1>3. CASE Len(rows) = 0
  BY <1>1, <1>2, <1>3, SQLTable DEF RowIn
<1>4. CASE Len(rows) > 0
  BY <1>1, <1>2, <1>4, SQLTable DEF RowIn, SQLFind, S!Ends
<1> QED BY <1>1, <1>3, <1>4

\* findInsert: the first bytes of a statement.
LEMMA SQLInsertFound ==
    ASSUME SQLAssumption, SQLInv, S!InsertFound
    PROVE  SQLInv'
<1>1. /\ SQLTypes /\ S!RowsArePrefix /\ SQLHead /\ SQLFind /\ mode = "find"
      /\ Len(file) \in Nat /\ pos \in Nat \ {0} /\ pos + 3 <= Len(file) /\ file[pos] = "INSERT"
      /\ Len(table.rows) \in Nat
  BY SQLTable DEF SQLInv, S!InsertFound, S!AtInsert, SQLTypes
<1>2. \A k \in 1 .. Len(file) : file[k] = table.text[k]
  BY <1>1 DEF SQLTypes
<1>3. /\ mode' = "words" /\ UNCHANGED <<table, file, tail, pos, cols, buf, row, rows>>
  BY DEF S!InsertFound, S!Move
<1>4. /\ RowIn \in 1 .. Len(table.rows) + 1 /\ Len(rows) \in Nat
      /\ RowIn = Len(table.rows) + 1 \/ RowIn \in table.starts
      /\ table.row[RowIn] \in Nat
  BY <1>1, SQLNextBegins
<1>5. pos = table.row[RowIn] /\ RowIn \in table.starts
  <2>1. ~S!AtEnd /\ file[pos] # "nl"
    BY <1>1 DEF S!AtEnd
  <2>2. pos = table.row[RowIn]
    BY <1>1, <2>1 DEF SQLFind
  <2>3. RowIn # Len(table.rows) + 1
    <3> SUFFICES ASSUME RowIn = Len(table.rows) + 1 PROVE FALSE
      OBVIOUS
    <3>1. table.text[table.row[Len(table.rows) + 1]] = "word"
      BY <1>1, SQLLastText
    <3>2. table.text[pos] = "word"
      BY <2>2, <3>1
    <3>3. pos \in 1 .. Len(file)
      BY <1>1
    <3> QED BY <1>1, <1>2, <3>2, <3>3
  <2> QED BY <1>4, <2>2, <2>3
<1>6. PICK q : q = RowIn
  OBVIOUS
<1>7. q \in 1 .. Len(table.rows) /\ q \in table.starts /\ pos = table.row[q] /\ q = Len(rows) + 1
  BY <1>5, <1>6, SQLTable, <1>1 DEF RowIn
<1>8. SQLInside(q)
  <2>1. q \in S!Statement(q)
    BY <1>1, <1>7 DEF S!Statement
  <2>2. S!Begun(q)
    BY <1>1, <1>7 DEF S!Begun
  <2>3. \A k \in table.starts : k < q => S!Closed(k)
    <3> SUFFICES ASSUME NEW k \in table.starts, k < q PROVE S!Closed(k)
      OBVIOUS
    <3>1. k \in 1 .. Len(table.rows)
      BY <1>1, SQLTable
    <3>2. k <= Len(rows)
      BY <1>4, <1>7, <3>1
    <3> QED BY <1>1, <3>2 DEF SQLFind
  <2>4. table.row[q] <= pos /\ pos <= S!EndAt(table, q)
    <3>1. /\ table.row[q] \in Nat /\ table.field[q][1] \in Nat /\ S!EndAt(table, q) \in Nat
          /\ table.row[q] + 2 <= table.field[q][1] /\ table.field[q][1] < S!EndAt(table, q)
      BY <1>1, <1>7, SQLRowSpan
    <3> QED BY <1>1, <1>7, <3>1
  <2> QED BY <1>7, <2>1, <2>2, <2>3, <2>4 DEF SQLInside
<1>9. SQLInside(q)'
  <2>1. table.row[q] <= pos /\ pos <= S!EndAt(table, q)
    BY <1>8 DEF SQLInside
  <2> QED BY <1>3, <1>8, <2>1, SQLInsideMoves
<1>10. SQLTypes' /\ S!RowsArePrefix' /\ S!EofIsWhole'
  <2>1. row \in Seq(S!Fields) /\ buf \in Seq(Tokens) /\ cols \in Nat /\ pos <= Len(file) + 1
    BY <1>1 DEF SQLTypes
  <2> QED BY <1>1, <1>3, <2>1, SQLMoves
<1>11. SQLHead'
  BY <1>1, <1>3 DEF SQLHead, S!HeadWhole
<1>12. SQLWords'
  <2>1. RowIn' = q /\ pos' = table'.row[q] + 0
    BY <1>1, <1>3, <1>6, <1>7 DEF RowIn
  <2> QED BY <1>3, <1>7, <1>9, <2>1 DEF SQLWords
<1> QED BY <1>3, <1>10, <1>11, <1>12 DEF SQLInv, SQLFind, SQLList, SQLFields

\* findInsert: a line that is no INSERT statement.
LEMMA SQLSkipLine ==
    ASSUME SQLAssumption, SQLInv, S!SkipLine
    PROVE  SQLInv'
<1>1. /\ SQLTypes /\ S!RowsArePrefix /\ SQLHead /\ SQLFind /\ mode = "find"
      /\ Len(file) \in Nat /\ pos \in Nat \ {0} /\ pos <= Len(file)
      /\ ~S!AtInsert /\ S!LineEnds(pos) /\ Len(table.rows) \in Nat
      /\ Len(file) <= Len(table.text) /\ ~S!AtEnd
  BY SQLTable DEF SQLInv, S!SkipLine, S!AtEnd, SQLTypes
<1>2. \A k \in 1 .. Len(file) : file[k] = table.text[k]
  BY <1>1 DEF SQLTypes
<1>3. /\ mode' = "find" /\ pos' = S!AfterLine(pos)
      /\ UNCHANGED <<table, file, tail, cols, buf, row, rows>>
  BY DEF S!SkipLine, S!Move
<1>4. /\ RowIn \in 1 .. Len(table.rows) + 1 /\ Len(rows) \in Nat
      /\ RowIn = Len(table.rows) + 1 \/ RowIn \in table.starts
      /\ table.row[RowIn] \in Nat
  BY <1>1, SQLNextBegins
<1>5. /\ pos' \in Nat /\ pos' > 0 /\ pos' <= Len(file) + 1
      /\ \/ pos' = table.row[RowIn]
         \/ RowIn = Len(table.rows) + 1 /\ pos' > Len(file)
  <2>1. CASE pos = table.row[RowIn] /\ RowIn = Len(table.rows) + 1
    <3>1. PICK e : e = table.row[Len(table.rows) + 1]
      OBVIOUS
    <3>2. /\ e = pos /\ table.text[e] = "word" /\ table.text[e + 1] = ";"
          /\ table.text[e + 2] = "nl" /\ Len(table.text) = e + 2
      BY <1>1, <2>1, <3>1, SQLLastText
    <3>3. Len(file) = pos + 2
      <4>1. Len(file) <= pos + 2
        BY <1>1, <3>2
      <4>2. ~ Len(file) <= pos + 1
        <5> SUFFICES ASSUME Len(file) <= pos + 1 PROVE FALSE
          OBVIOUS
        <5>1. PICK k \in pos .. Len(file) : file[k] = "nl"
          BY <1>1 DEF S!LineEnds
        <5>2. k \in 1 .. Len(file) /\ k \in {pos, pos + 1}
          BY <1>1, <5>1
        <5>3. table.text[k] = "nl"
          BY <1>2, <5>1, <5>2
        <5> QED BY <3>2, <5>2, <5>3
      <4> QED BY <1>1, <4>1, <4>2
    <3>4. pos + 2 \in pos .. Len(file) /\ S!LineTo(pos, pos + 2)
      <4>1. /\ pos \in 1 .. Len(file) /\ pos + 1 \in 1 .. Len(file)
            /\ pos + 2 \in 1 .. Len(file) /\ pos + 2 \in pos .. Len(file)
        BY <1>1, <3>3
      <4>2. file[pos] = "word" /\ file[pos + 1] = ";" /\ file[pos + 2] = "nl"
        BY <1>2, <3>2, <4>1
      <4>3. pos \in Nat
        BY <1>1
      <4>4. PICK w : w \in Nat /\ w = pos + 2
        BY <4>3
      <4>5. \A k \in pos .. (w - 1) : k = pos \/ k = pos + 1
        BY <4>3, <4>4
      <4>6. S!LineTo(pos, w)
        BY <4>2, <4>4, <4>5 DEF S!LineTo
      <4> QED BY <4>1, <4>4, <4>6
    <3>5. S!AfterLine(pos) = pos + 2 + 1
      BY <1>1, <3>4, SQLLine
    <3> QED BY <1>1, <1>3, <2>1, <3>3, <3>5
  <2>2. CASE pos = table.row[RowIn] /\ RowIn \in table.starts
    <3>1. PICK q : q = RowIn
      OBVIOUS
    <3>2. /\ q \in table.starts /\ pos = table.row[q]
          /\ table.text[pos] = "INSERT" /\ table.text[pos + 1] = " "
          /\ table.text[pos + 2] = "INTO" /\ table.text[pos + 3] = " "
      BY <1>1, <2>2, <3>1, SQLFirstRow
    <3>3. Len(file) < pos + 3
      <4> SUFFICES ASSUME Len(file) >= pos + 3 PROVE FALSE
        BY <1>1
      <4>1. /\ pos \in 1 .. Len(file) /\ pos + 1 \in 1 .. Len(file)
            /\ pos + 2 \in 1 .. Len(file) /\ pos + 3 \in 1 .. Len(file)
        BY <1>1
      <4>2. /\ file[pos] = "INSERT" /\ file[pos + 1] = " " /\ file[pos + 2] = "INTO"
            /\ file[pos + 3] = " "
        BY <1>2, <3>2, <4>1
      <4>3. pos + 3 <= Len(file)
        BY <1>1
      <4> QED BY <1>1, <4>2, <4>3 DEF S!AtInsert
    <3>4. FALSE
      <4>1. PICK k \in pos .. Len(file) : file[k] = "nl"
        BY <1>1 DEF S!LineEnds
      <4>2. k \in 1 .. Len(file) /\ k \in {pos, pos + 1, pos + 2}
        BY <1>1, <3>3, <4>1
      <4>3. table.text[k] = "nl"
        BY <1>2, <4>1, <4>2
      <4> QED BY <3>2, <4>2, <4>3
    <3> QED BY <3>4
  <2>3. CASE pos = table.row[RowIn] - 1 /\ file[pos] = "nl"
    <3>1. pos \in pos .. Len(file) /\ S!LineTo(pos, pos)
      BY <1>1, <2>3 DEF S!LineTo
    <3>2. S!AfterLine(pos) = pos + 1
      BY <1>1, <3>1, SQLLine
    <3> QED BY <1>1, <1>3, <1>4, <2>3, <3>2
  <2> QED BY <1>1, <1>4, <2>1, <2>2, <2>3 DEF SQLFind
<1>6. SQLTypes' /\ S!RowsArePrefix' /\ S!EofIsWhole'
  <2>1. row \in Seq(S!Fields) /\ buf \in Seq(Tokens) /\ cols \in Nat
    BY <1>1 DEF SQLTypes
  <2> QED BY <1>1, <1>3, <1>5, <2>1, SQLMoves
<1>7. SQLHead'
  BY <1>1, <1>3 DEF SQLHead, S!HeadWhole
<1>8. SQLFind'
  <2>1. RowIn' = RowIn /\ \A s : S!Closed(s)' <=> S!Closed(s)
    BY <1>3 DEF RowIn, S!Closed, S!Statement
  <2>2. /\ \A s \in table'.starts : s <= Len(rows') => S!Closed(s)'
        /\ Len(rows') > 0 => S!Ends(table', Len(rows'))
    BY <1>1, <1>3, <2>1 DEF SQLFind
  <2> QED BY <1>3, <1>5, <2>1, <2>2 DEF SQLFind, S!AtEnd
<1> QED BY <1>3, <1>6, <1>7, <1>8 DEF SQLInv, SQLWords, SQLList, SQLFields

\* findInsert: the bytes end between two statements.
LEMMA SQLFindEnds ==
    ASSUME SQLAssumption, SQLInv, S!FindEnds
    PROVE  SQLInv'
<1>1. /\ SQLTypes /\ S!RowsArePrefix /\ SQLHead /\ SQLFind /\ mode = "find"
      /\ Len(file) \in Nat /\ pos \in Nat \ {0}
      /\ ~S!AtInsert /\ ~S!LineEnds(pos) /\ Len(table.rows) \in Nat
      /\ table.starts \subseteq 1 .. Len(table.rows) /\ tail \in {"eof", "broken"}
  BY SQLTable DEF SQLInv, S!FindEnds, SQLTypes
<1>2. \A k \in 1 .. Len(file) : file[k] = table.text[k]
  BY <1>1 DEF SQLTypes
<1>3. /\ mode' = (IF tail = "eof" THEN "eof" ELSE "error")
      /\ UNCHANGED <<table, file, tail, pos, cols, buf, row, rows>>
  BY DEF S!FindEnds, S!Answer
<1>4. /\ RowIn \in 1 .. Len(table.rows) + 1 /\ Len(rows) \in Nat /\ RowIn = Len(rows) + 1
      /\ RowIn = Len(table.rows) + 1 \/ RowIn \in table.starts
      /\ table.row[RowIn] \in Nat
  BY <1>1, SQLNextBegins DEF RowIn
<1>5. RowIn \in table.starts => Len(file) < table.row[RowIn] + 3
  <2> SUFFICES ASSUME RowIn \in table.starts PROVE Len(file) < table.row[RowIn] + 3
    OBVIOUS
  <2>1. PICK q : q = RowIn
    OBVIOUS
  <2>2. PICK p \in Nat : p = table.row[q]
    BY <1>4, <2>1
  <2>3. /\ table.text[p] = "INSERT" /\ table.text[p + 1] = " "
        /\ table.text[p + 2] = "INTO" /\ table.text[p + 3] = " "
    BY <1>1, <2>1, <2>2, SQLFirstRow
  <2>4. CASE pos = p
    <3> SUFFICES ASSUME Len(file) >= pos + 3 PROVE FALSE
      BY <1>1, <2>1, <2>2, <2>4
    <3>1. /\ pos \in 1 .. Len(file) /\ pos + 1 \in 1 .. Len(file)
          /\ pos + 2 \in 1 .. Len(file) /\ pos + 3 \in 1 .. Len(file)
      BY <1>1
    <3>2. /\ file[pos] = "INSERT" /\ file[pos + 1] = " " /\ file[pos + 2] = "INTO"
          /\ file[pos + 3] = " "
      BY <1>2, <2>3, <2>4, <3>1
    <3>3. pos + 3 <= Len(file)
      BY <1>1
    <3> QED BY <1>1, <3>2, <3>3 DEF S!AtInsert
  <2>5. CASE pos = p - 1
    <3>1. pos > Len(file)
      BY <1>1, <1>4, <2>1, <2>2, <2>5 DEF SQLFind, S!AtEnd, S!LineEnds
    <3> QED BY <1>1, <2>1, <2>2, <2>5, <3>1
  <2>6. RowIn # Len(table.rows) + 1
    BY <1>1
  <2> QED BY <1>1, <2>1, <2>2, <2>4, <2>5, <2>6 DEF SQLFind
<1>6. ASSUME NEW s \in table.starts, S!Begun(s)
      PROVE  S!Closed(s) /\ \A r \in S!Statement(s) : r <= Len(rows)
  <2>1. s \in 1 .. Len(table.rows) /\ s \in 1 .. Len(table.rows) + 1 /\ table.row[s] \in Nat
    BY <1>1, SQLTable
  <2>2. Len(file) >= table.row[s] + 3
    BY <1>6 DEF S!Begun
  <2>3. s <= Len(rows)
    <3> SUFFICES ASSUME s >= RowIn PROVE FALSE
      BY <1>4, <2>1
    <3>1. RowIn \in table.starts
      BY <1>4, <2>1
    <3>2. PICK q : q = RowIn
      OBVIOUS
    <3>3. q = s \/ table.row[q] < table.row[s]
      BY <1>1, <1>4, <2>1, <3>2, SQLRowOrder
    <3> QED BY <1>1, <1>4, <1>5, <2>1, <2>2, <3>1, <3>2, <3>3
  <2>4. S!Closed(s)
    BY <1>1, <2>3 DEF SQLFind
  <2>5. ASSUME NEW r \in S!Statement(s), r > Len(rows) PROVE FALSE
    <3>1. r \in s .. Len(table.rows) /\ \A k \in (s + 1) .. r : k \notin table.starts
      BY <2>5 DEF S!Statement
    <3>2. Len(rows) + 1 \in (s + 1) .. r
      BY <1>4, <2>1, <2>3, <2>5, <3>1
    <3>3. Len(rows) # Len(table.rows)
      BY <1>4, <2>1, <2>5, <3>1
    <3> QED BY <1>1, <1>4, <3>1, <3>2, <3>3
  <2>6. \A r \in S!Statement(s) : r \in Nat
    BY <2>1 DEF S!Statement
  <2> QED BY <1>4, <2>4, <2>5, <2>6
<1>7. S!EofIsWhole'
  <2>1. CASE tail = "eof"
    <3>1. mode' = "eof" /\ tail' = "eof"
      BY <1>3, <2>1
    <3>2. S!HeadWhole'
      BY <1>1, <1>3 DEF SQLHead, S!HeadWhole
    <3>3. \A s \in table'.starts : S!Begun(s)' =>
             S!Closed(s)' /\ \A r \in S!Statement(s)' : r <= Len(rows')
      BY <1>3, <1>6 DEF S!Begun, S!Closed, S!Statement
    <3> QED BY <3>1, <3>2, <3>3 DEF S!EofIsWhole
  <2>2. CASE tail # "eof"
    BY <1>1, <1>3, <2>2 DEF S!EofIsWhole
  <2> QED BY <2>1, <2>2
<1>8. SQLTypes' /\ S!RowsArePrefix'
  BY <1>1, <1>3 DEF SQLTypes, S!RowsArePrefix
<1>9. SQLHead'
  BY <1>1, <1>3 DEF SQLHead, S!HeadWhole
<1> QED BY <1>3, <1>7, <1>8, <1>9 DEF SQLInv, SQLFind, SQLWords, SQLList, SQLFields

LEMMA SQLInsideRow ==
    ASSUME SQLAssumption, SQLTypes, NEW q, SQLInside(q)
    PROVE  q \in 1 .. Len(table.rows) /\ table.row[q] <= pos /\ pos <= S!EndAt(table, q)
<1>1. PICK s \in table.starts : q \in S!Statement(s)
  BY DEF SQLInside
<1>2. s \in 1 .. Len(table.rows) /\ Len(table.rows) \in Nat
  BY SQLTable
<1>3. q \in 1 .. Len(table.rows)
  BY <1>1, <1>2 DEF S!Statement
<1> QED BY <1>3 DEF SQLInside

\* A step inside a statement that returns no row.
LEMMA SQLWithin ==
    ASSUME SQLInv, UNCHANGED <<table, file, tail, cols, rows>>,
           mode \in {"words", "list", "field", "raw", "quoted", "closed"},
           mode' \in {"words", "list", "field", "raw", "quoted", "closed"},
           pos' \in Nat, pos' > 0, pos' <= Len(file) + 1,
           row' \in Seq(S!Fields), buf' \in Seq(Tokens)
    PROVE  /\ SQLTypes' /\ S!RowsArePrefix' /\ S!EofIsWhole' /\ SQLHead' /\ SQLFind'
           /\ RowIn' = RowIn
<1>1. SQLTypes /\ S!RowsArePrefix /\ SQLHead /\ cols \in Nat
  BY DEF SQLInv, SQLTypes
<1>2. SQLTypes' /\ S!RowsArePrefix' /\ S!EofIsWhole'
  BY <1>1, SQLMoves
<1>3. SQLHead'
  BY <1>1 DEF SQLHead, S!HeadWhole
<1>4. SQLFind' /\ RowIn' = RowIn
  BY DEF SQLFind, RowIn
<1> QED BY <1>2, <1>3, <1>4

\* readWord: a word of the head of the statement, the last of which is VALUES.
LEMMA SQLReadWord ==
    ASSUME SQLAssumption, SQLInv, S!ReadWord
    PROVE  SQLInv'
<1>1. /\ SQLTypes /\ SQLWords /\ mode = "words" /\ Len(file) \in Nat
      /\ pos \in Nat /\ pos > 0 /\ pos <= Len(file) /\ ~S!AtEnd
      /\ row \in Seq(S!Fields) /\ buf \in Seq(Tokens)
      /\ \A k \in 1 .. Len(file) : file[k] = table.text[k]
  BY SQLTable DEF SQLInv, SQLTypes, S!ReadWord, S!AtEnd
<1>2. UNCHANGED <<table, file, tail, cols, buf, row, rows>>
  BY DEF S!ReadWord, S!Move
<1>3. PICK q : q = RowIn
  OBVIOUS
<1>4. q \in table.starts /\ SQLInside(q) /\ \E n \in {0, 2, 4, 6} : pos = table.row[q] + n
  BY <1>1, <1>3 DEF SQLWords
<1>5. /\ q \in 1 .. Len(table.rows) /\ table.row[q] \in Nat /\ table.row[q] <= pos
      /\ S!EndAt(table, q) \in Nat /\ table.field[q][1] \in Nat
      /\ table.field[q][1] < S!EndAt(table, q)
  BY <1>1, <1>4, SQLInsideRow, SQLRowSpan
<1>6. PICK p \in Nat : p = table.row[q]
  BY <1>5
<1>7. /\ table.text[p] = "INSERT" /\ table.text[p + 1] = " "
      /\ table.text[p + 2] = "INTO" /\ table.text[p + 3] = " "
      /\ table.text[p + 4] = "t" /\ table.text[p + 5] = " "
      /\ table.text[p + 6] = "VALUES" /\ table.text[p + 7] \in {"nl", " "}
      /\ table.field[q][1] = p + 9
  BY <1>1, <1>4, <1>6, SQLFirstRow
<1>8. PICK n \in {0, 2, 4, 6} : pos = p + n
  BY <1>4, <1>6
<1>9. /\ table.text[pos] \notin S!Space /\ table.text[pos + 1] \in S!Space
      /\ table.text[pos] = "VALUES" <=> n = 6
  <2>1. CASE n = 0
    <3>1. pos = p /\ pos + 1 = p + 1
      BY <1>8, <2>1
    <3>2. table.text[pos] = "INSERT" /\ table.text[pos + 1] = " "
      BY <1>7, <3>1
    <3>3. n # 6
      BY <2>1
    <3>5. table.text[pos] # "VALUES"
      BY <3>2
    <3>4. table.text[pos] \notin S!Space /\ table.text[pos + 1] \in S!Space
      BY <3>2 DEF S!Space
    <3> QED BY <3>3, <3>4, <3>5
  <2>2. CASE n = 2
    <3>1. pos = p + 2 /\ pos + 1 = p + 3
      BY <1>8, <2>2
    <3> QED BY <1>7, <2>2, <3>1 DEF S!Space
  <2>3. CASE n = 4
    <3>1. pos = p + 4 /\ pos + 1 = p + 5
      BY <1>8, <2>3
    <3> QED BY <1>7, <2>3, <3>1 DEF S!Space
  <2>4. CASE n = 6
    <3>1. pos = p + 6 /\ pos + 1 = p + 7
      BY <1>8, <2>4
    <3> QED BY <1>7, <2>4, <3>1 DEF S!Space
  <2> QED BY <2>1, <2>2, <2>3, <2>4
<1>10. pos \in 1 .. Len(file) /\ file[pos] = table.text[pos]
  BY <1>1
<1>13. PICK o \in Nat, e \in Nat :
          o = table.field[q][1] /\ e = S!EndAt(table, q) /\ o = p + 9 /\ o < e
  BY <1>5, <1>7
<1>14. n \in Nat /\ n <= 6
  OBVIOUS
<1>11. CASE Len(file) >= pos + 1
  <2>1. PICK w \in Nat : w = pos + 1
    BY <1>1
  <2>2. w \in pos .. Len(file) /\ w \in 1 .. Len(file)
    BY <1>1, <1>11, <2>1
  <2>3. file[w] \in S!Space
    BY <1>1, <1>9, <2>1, <2>2
  <2>4. \A k \in pos .. (w - 1) : k = pos
    BY <1>1, <2>1
  <2>5. S!WordTo(pos, w)
    BY <1>9, <1>10, <2>3, <2>4 DEF S!WordTo
  <2>6. S!AfterWord(pos) = w
    BY <1>1, <2>2, <2>5, SQLWord
  <2>7. /\ pos' = w + 1
        /\ mode' = IF n = 6 THEN "list" ELSE "words"
    BY <1>1, <1>9, <1>10, <2>1, <2>2, <2>6 DEF S!ReadWord, S!Move, S!C
  <2>8. /\ pos' \in Nat /\ pos' > 0 /\ pos' <= Len(file) + 1
        /\ pos' = p + n + 2 /\ n <= 6 /\ n >= 0
    BY <1>1, <1>8, <2>1, <2>2, <2>7
  <2>9. SQLInside(q)'
    <3>1. table.row[q] <= pos' /\ pos' <= S!EndAt(table, q)
      BY <1>6, <1>13, <1>14, <2>8
    <3> QED BY <1>2, <1>4, <3>1, SQLInsideMoves
  <2>10. /\ SQLTypes' /\ S!RowsArePrefix' /\ S!EofIsWhole' /\ SQLHead' /\ SQLFind'
         /\ RowIn' = RowIn
    BY <1>1, <1>2, <2>7, <2>8, SQLWithin
  <2>11. CASE n = 6
    <3>1. mode' = "list" /\ pos' = table.field[q][1] - 1 /\ q <= Len(table.rows)
      <4>1. mode' = "list" /\ pos' = p + 8 /\ p + 8 = o - 1
        BY <1>13, <2>7, <2>8, <2>11
      <4> QED BY <1>5, <1>13, <4>1
    <3>2. SQLList'
      BY <1>2, <1>3, <2>9, <2>10, <3>1 DEF SQLList
    <3> QED BY <2>10, <3>1, <3>2 DEF SQLInv, SQLWords, SQLFields
  <2>12. CASE n # 6
    <3>1. mode' = "words"
      BY <2>7, <2>12
    <3>2. \E m \in {0, 2, 4, 6} : pos' = table.row[q] + m
      <4>1. n + 2 \in {0, 2, 4, 6} /\ pos' = p + (n + 2)
        BY <2>8, <2>12
      <4> QED BY <1>6, <4>1
    <3>3. SQLWords'
      BY <1>2, <1>3, <1>4, <2>9, <2>10, <3>2 DEF SQLWords
    <3> QED BY <2>10, <3>1, <3>3 DEF SQLInv, SQLList, SQLFields
  <2> QED BY <2>11, <2>12
<1>12. CASE ~ Len(file) >= pos + 1
  <2>1. Len(file) = pos
    BY <1>1, <1>12
  <2>2. ~\E k \in pos .. Len(file) : file[k] \in S!Space
    BY <1>9, <1>10, <2>1
  <2>3. S!AfterWord(pos) = Len(file) + 1
    BY <2>2 DEF S!AfterWord
  <2>4. pos' = pos + 1 /\ mode' = "words"
    BY <1>1, <2>1, <2>3 DEF S!ReadWord, S!Move
  <2>5. pos' \in Nat /\ pos' > 0 /\ pos' <= Len(file) + 1 /\ pos' > Len(file)
    BY <1>1, <2>1, <2>4
  <2>6. SQLInside(q)'
    <3>1. pos' = p + n + 1
      BY <1>8, <2>4
    <3>2. table.row[q] <= pos' /\ pos' <= S!EndAt(table, q)
      BY <1>6, <1>13, <1>14, <3>1
    <3> QED BY <1>2, <1>4, <3>2, SQLInsideMoves
  <2>7. /\ SQLTypes' /\ S!RowsArePrefix' /\ S!EofIsWhole' /\ SQLHead' /\ SQLFind'
        /\ RowIn' = RowIn
    BY <1>1, <1>2, <2>4, <2>5, SQLWithin
  <2>8. SQLWords'
    BY <1>2, <1>3, <1>4, <2>5, <2>6, <2>7 DEF SQLWords, S!AtEnd
  <2> QED BY <2>4, <2>7, <2>8 DEF SQLInv, SQLList, SQLFields
<1> QED BY <1>11, <1>12

\* The next token is that of the text.
LEMMA SQLToken ==
    ASSUME SQLAssumption, SQLTypes, ~S!AtEnd
    PROVE  /\ pos \in Nat /\ pos > 0 /\ Len(file) \in Nat /\ pos <= Len(file)
           /\ pos \in 1 .. Len(file) /\ file[pos] = table.text[pos]
           /\ \A t : S!At(t) <=> table.text[pos] = t
<1>1. pos \in Nat /\ pos > 0 /\ Len(file) \in Nat /\ pos <= Len(file)
  BY SQLTable DEF SQLTypes, S!AtEnd
<1>2. pos \in 1 .. Len(file)
  BY <1>1
<1>3. file[pos] = table.text[pos]
  BY <1>2 DEF SQLTypes
<1> QED BY <1>1, <1>2, <1>3 DEF S!At, S!C

\* The tokens of a list of rows.
AtOpen  == S!At("(")
AtComma == S!At(",")
AtLine  == S!At("nl")
AtSemi  == S!At(";")

LEMMA SQLOneToken ==
    /\ AtSemi => ~AtOpen /\ ~AtComma /\ ~AtLine
    /\ AtOpen => ~AtComma /\ ~AtLine
    /\ AtOpen \/ AtComma \/ AtLine \/ AtSemi => ~S!AtEnd
  BY DEF AtOpen, AtComma, AtLine, AtSemi, S!At

\* Before the parenthesis of row q, in its statement: what the token is says where.
LEMMA SQLListToken ==
    ASSUME SQLAssumption, SQLTypes, NEW q, SQLInside(q), ~S!AtEnd,
           \/ pos = table.field[q][1] - 1
           \/ q \notin table.starts /\ pos < table.field[q][1]
    PROVE  \/ AtOpen /\ pos = table.field[q][1] - 1
           \/ AtComma /\ q \notin table.starts /\ pos + 1 < table.field[q][1]
           \/ AtLine /\ q \notin table.starts /\ pos + 2 = table.field[q][1]
<1>1. q \in 1 .. Len(table.rows) /\ table.row[q] <= pos /\ pos <= S!EndAt(table, q)
  BY SQLInsideRow
<1>2. pos \in Nat
  BY SQLToken
<1>3. PICK o \in Nat : o = table.field[q][1]
  BY <1>1, SQLRowSpan
<1>4. CASE q \in table.starts
  <2>1. pos = o - 1
    BY <1>3, <1>4
  <2>2. table.text[table.row[q] + 8] = "(" /\ table.field[q][1] = table.row[q] + 9
    BY <1>4, SQLFirstRow
  <2>3. table.row[q] \in Nat
    BY <1>1, SQLRowSpan
  <2>4. table.row[q] + 8 = pos
    BY <1>2, <1>3, <2>1, <2>2, <2>3
  <2>5. AtOpen
    BY <2>2, <2>4, SQLToken DEF AtOpen
  <2> QED BY <1>3, <2>1, <2>5
<1>5. CASE q \notin table.starts
  <2>1. PICK p \in Nat : p = table.row[q]
    BY <1>1, SQLRowSpan
  <2>2. /\ table.text[p] = ","
        /\ o = p + 3 => table.text[p + 1] = "nl"
        /\ table.text[table.field[q][1] - 1] = "("
    BY <1>1, <1>3, <1>5, <2>1, SQLOtherRow
  <2>3. pos >= p /\ pos < o
    BY <1>1, <1>2, <1>3, <2>1
  <2>4. o = p + 2 \/ o = p + 3
    BY <1>1, <1>3, <1>5, <2>1, SQLOtherRow
  <2>5. CASE pos = o - 1
    <3>1. table.text[pos] = "("
      BY <1>3, <2>2, <2>5
    <3>2. AtOpen
      BY <3>1, SQLToken DEF AtOpen
    <3> QED BY <1>3, <2>5, <3>2
  <2>6. CASE pos = p /\ pos # o - 1
    <3>1. pos + 1 < o
      BY <2>1, <2>3, <2>4, <2>6
    <3>2. AtComma
      BY <2>2, <2>6, SQLToken DEF AtComma
    <3> QED BY <1>3, <1>5, <3>1, <3>2
  <2>7. CASE pos = p + 1 /\ pos # o - 1
    <3>1. o = p + 3 /\ pos + 2 = o
      BY <2>1, <2>3, <2>4, <2>7
    <3>2. table.text[pos] = "nl"
      BY <2>2, <2>7, <3>1
    <3>3. AtLine
      BY <3>2, SQLToken DEF AtLine
    <3> QED BY <1>3, <1>5, <3>1, <3>3
  <2>8. pos = o - 1 \/ pos = p \/ pos = p + 1
    BY <1>2, <2>1, <2>3, <2>4
  <2> QED BY <2>5, <2>6, <2>7, <2>8
<1> QED BY <1>4, <1>5

\* A step in the list of rows, before the parenthesis of the next one.
LEMMA SQLListStep ==
    ASSUME SQLAssumption, SQLInv, mode = "list", ~S!AtEnd, ~AtSemi
    PROVE  /\ RowIn \in 1 .. Len(table.rows) /\ SQLInside(RowIn)
           /\ \/ AtOpen /\ pos = table.field[RowIn][1] - 1
              \/ AtComma /\ RowIn \notin table.starts /\ pos + 1 < table.field[RowIn][1]
              \/ AtLine /\ RowIn \notin table.starts /\ pos + 2 = table.field[RowIn][1]
<1>1. SQLTypes /\ SQLList
  BY DEF SQLInv
<1>2. PICK q : q = RowIn
  OBVIOUS
<1>3. ~(/\ Len(rows) > 0 /\ S!Ends(table, Len(rows)) /\ SQLInside(Len(rows))
        /\ pos = S!EndAt(table, Len(rows)))
  <2> SUFFICES ASSUME S!Ends(table, Len(rows)), SQLInside(Len(rows)),
                      pos = S!EndAt(table, Len(rows))
               PROVE  FALSE
    OBVIOUS
  <2>1. PICK r : r = Len(rows)
    OBVIOUS
  <2>2. r \in 1 .. Len(table.rows) /\ S!Ends(table, r) /\ pos = S!EndAt(table, r)
    BY <1>1, <2>1, SQLInsideRow
  <2>3. table.text[pos] = ";"
    BY <1>1, <2>2, SQLAfterRow
  <2>4. AtSemi
    BY <1>1, <2>3, SQLToken DEF AtSemi
  <2> QED BY <2>4
<1>4. /\ SQLInside(q)
      /\ \/ pos = table.field[q][1] - 1
         \/ q \notin table.starts /\ pos < table.field[q][1]
  BY <1>1, <1>2, <1>3 DEF SQLList
<1>5. q \in 1 .. Len(table.rows)
  BY <1>1, <1>4, SQLInsideRow
<1>6. \/ AtOpen /\ pos = table.field[q][1] - 1
      \/ AtComma /\ q \notin table.starts /\ pos + 1 < table.field[q][1]
      \/ AtLine /\ q \notin table.starts /\ pos + 2 = table.field[q][1]
  BY <1>1, <1>4, SQLListToken
<1> QED BY <1>2, <1>4, <1>5, <1>6

\* The reader goes on to the next token of the list.
LEMMA SQLListMoves ==
    ASSUME SQLAssumption, SQLInv, mode = "list", ~S!AtEnd, AtComma \/ AtLine,
           pos' = pos + 1, mode' = "list", UNCHANGED <<table, file, tail, cols, buf, row, rows>>
    PROVE  SQLInv'
<1>1. SQLTypes /\ row \in Seq(S!Fields) /\ buf \in Seq(Tokens)
  BY DEF SQLInv, SQLTypes
<1>9. pos \in Nat /\ Len(file) \in Nat /\ pos <= Len(file)
  BY <1>1, SQLToken
<1>2. PICK q : q = RowIn
  OBVIOUS
<1>3. /\ q \in 1 .. Len(table.rows) /\ SQLInside(q) /\ q \notin table.starts
      /\ pos + 1 < table.field[q][1]
  <2>1. ~AtSemi /\ ~AtOpen
    BY SQLOneToken
  <2>2. /\ q \in 1 .. Len(table.rows) /\ SQLInside(q) /\ q \notin table.starts
        /\ pos + 1 < table.field[q][1] \/ pos + 2 = table.field[q][1]
    BY <1>2, <2>1, SQLListStep
  <2>3. PICK o \in Nat : o = table.field[q][1]
    BY <1>1, <2>2, SQLRowSpan
  <2>4. pos + 1 < o
    BY <1>9, <2>2, <2>3
  <2> QED BY <2>2, <2>3, <2>4
<1>4. /\ table.row[q] \in Nat /\ table.field[q][1] \in Nat /\ S!EndAt(table, q) \in Nat
      /\ table.field[q][1] < S!EndAt(table, q) /\ table.row[q] <= pos
  BY <1>1, <1>3, SQLInsideRow, SQLRowSpan
<1>5. pos' \in Nat /\ pos' > 0 /\ pos' <= Len(file) + 1 /\ pos' < table.field[q][1]
  BY <1>3, <1>9
<1>6. SQLInside(q)'
  <2>1. table.row[q] <= pos' /\ pos' <= S!EndAt(table, q)
    BY <1>4, <1>5, <1>9
  <2> QED BY <1>3, <2>1, SQLInsideMoves
<1>7. /\ SQLTypes' /\ S!RowsArePrefix' /\ S!EofIsWhole' /\ SQLHead' /\ SQLFind'
      /\ RowIn' = RowIn
  BY <1>1, <1>5, SQLWithin
<1>8. SQLList'
  <2>1. q <= Len(table.rows)
    BY <1>3
  <2> QED BY <1>2, <1>3, <1>5, <1>6, <1>7, <2>1 DEF SQLList
<1> QED BY <1>7, <1>8 DEF SQLInv, SQLWords, SQLFields

LEMMA SQLListComma ==
    ASSUME SQLAssumption, SQLInv, S!ListComma
    PROVE  SQLInv'
<1>1. /\ mode = "list" /\ AtComma /\ pos' = pos + 1 /\ mode' = "list"
      /\ UNCHANGED <<table, file, tail, cols, buf, row, rows>>
  BY DEF S!ListComma, S!Move, AtComma
<1>2. ~S!AtEnd
  BY <1>1, SQLOneToken
<1> QED BY <1>1, <1>2, SQLListMoves

\* The parenthesis of a row.
LEMMA SQLListOpen ==
    ASSUME SQLAssumption, SQLInv, S!ListOpen
    PROVE  SQLInv'
<1>1. /\ mode = "list" /\ AtOpen /\ pos' = pos + 1 /\ mode' = "field"
      /\ row' = <<>> /\ UNCHANGED <<table, file, tail, cols, buf, rows>>
  BY DEF S!ListOpen, S!Move, AtOpen
<1>2. SQLTypes /\ buf \in Seq(Tokens) /\ ~S!AtEnd
  BY <1>1, SQLOneToken DEF SQLInv, SQLTypes
<1>14. pos \in Nat /\ Len(file) \in Nat /\ pos <= Len(file)
  BY <1>2, SQLToken
<1>3. ~AtSemi /\ ~AtComma /\ ~AtLine
  BY <1>1, SQLOneToken
<1>4. PICK q : q = RowIn
  OBVIOUS
<1>5. q \in 1 .. Len(table.rows) /\ SQLInside(q) /\ pos = table.field[q][1] - 1
  BY <1>1, <1>2, <1>3, <1>4, SQLListStep
<1>6. /\ table.row[q] \in Nat /\ table.field[q][1] \in Nat /\ S!EndAt(table, q) \in Nat
      /\ table.field[q][1] < S!EndAt(table, q) /\ table.row[q] <= pos
  BY <1>2, <1>5, SQLInsideRow, SQLRowSpan
<1>7. pos' \in Nat /\ pos' > 0 /\ pos' <= Len(file) + 1 /\ pos' = table.field[q][1]
  <2>1. pos' = pos + 1
    BY <1>1
  <2>2. PICK o \in Nat : o = table.field[q][1] /\ pos = o - 1
    BY <1>5, <1>6
  <2>3. pos' = o
    BY <2>1, <2>2
  <2> QED BY <1>14, <2>1, <2>2, <2>3
<1>8. SQLInside(q)'
  <2>1. table.row[q] <= pos' /\ pos' <= S!EndAt(table, q)
    BY <1>1, <1>6, <1>7, <1>14
  <2> QED BY <1>1, <1>5, <2>1, SQLInsideMoves
<1>9. row' \in Seq(S!Fields) /\ Len(row') = 0 /\ FieldIn' = 1
  BY <1>1 DEF FieldIn
<1>10. /\ SQLTypes' /\ S!RowsArePrefix' /\ S!EofIsWhole' /\ SQLHead' /\ SQLFind'
       /\ RowIn' = RowIn
  BY <1>1, <1>2, <1>7, <1>9, SQLWithin
<1>11. Len(table.rows[q]) \in Nat \ {0} /\ q <= Len(table.rows)
  BY <1>2, <1>5, SQLTheRow
<1>12. RowIsRead'
  <2>1. \A f \in 1 .. Len(row') : FALSE
    BY <1>9
  <2>2. RowIn' = q /\ 1 <= Len(table.rows[q])
    BY <1>4, <1>10, <1>11
  <2> QED BY <1>1, <1>8, <1>9, <1>11, <2>1, <2>2 DEF RowIsRead
<1>13. SQLFields'
  BY <1>1, <1>4, <1>7, <1>9, <1>10, <1>12 DEF SQLFields
<1> QED BY <1>1, <1>10, <1>13 DEF SQLInv, SQLWords, SQLList

\* The semicolon of a statement.
LEMMA SQLListClose ==
    ASSUME SQLAssumption, SQLInv, S!ListClose
    PROVE  SQLInv'
<1>1. /\ mode = "list" /\ ~S!AtEnd /\ ~AtLine /\ ~AtComma /\ ~AtOpen /\ pos' = pos + 1
      /\ UNCHANGED <<table, file, tail, cols, buf, row, rows>>
  BY DEF S!ListClose, S!At, S!Move, S!Space, AtOpen, AtComma, AtLine
<1>2. /\ SQLTypes /\ SQLList /\ SQLHead /\ S!RowsArePrefix
      /\ row \in Seq(S!Fields) /\ buf \in Seq(Tokens) /\ cols \in Nat
      /\ Len(rows) \in Nat
  BY LenProperties DEF SQLInv, SQLTypes
<1>3. pos \in Nat /\ pos > 0 /\ Len(file) \in Nat /\ pos <= Len(file)
  BY <1>1, <1>2, SQLToken
<1>4. AtSemi
  BY <1>1, SQLListStep
<1>13. mode' = "find"
  BY <1>4 DEF S!ListClose, S!At, S!Move, AtSemi
<1>5. PICK q : q = Len(rows)
  OBVIOUS
<1>6. q \in Nat /\ q > 0 /\ S!Ends(table, q) /\ SQLInside(q) /\ pos = S!EndAt(table, q)
  <2>1. PICK r : r = RowIn
    OBVIOUS
  <2>2. ~(/\ SQLInside(r)
          /\ \/ pos = table.field[r][1] - 1
             \/ r \notin table.starts /\ pos < table.field[r][1])
    BY <1>1, <1>2, SQLListToken
  <2> QED BY <1>1, <1>2, <1>5, <2>1, <2>2 DEF SQLList
<1>7. q \in 1 .. Len(table.rows) /\ Len(table.rows) \in Nat
  BY <1>2, <1>6, SQLInsideRow, SQLTable
<1>8. table.row[q + 1] = pos + 2
  BY <1>2, <1>6, <1>7, SQLAfterRow
<1>14. table.text[pos + 1] = "nl"
  BY <1>2, <1>6, <1>7, SQLAfterRow
<1>9. ASSUME NEW s \in table.starts, s <= q PROVE S!Closed(s)
  <2>1. PICK t \in table.starts :
           q \in S!Statement(t) /\ \A k \in table.starts : k < t => S!Closed(k)
    BY <1>6 DEF SQLInside
  <2>2. s \in 1 .. Len(table.rows) /\ t \in 1 .. Len(table.rows)
    BY <1>2, SQLTable
  <2>3. q \in t .. Len(table.rows) /\ \A k \in (t + 1) .. q : k \notin table.starts
    BY <2>1 DEF S!Statement
  <2>4. CASE s < t
    BY <2>1, <2>4
  <2>5. CASE s = t
    <3>1. Len(file) >= S!EndAt(table, q)
      BY <1>3, <1>6
    <3> QED BY <1>6, <2>1, <2>5, <3>1 DEF S!Closed
  <2>6. CASE s > t
    <3>1. s \in (t + 1) .. q
      BY <1>7, <1>9, <2>2, <2>6
    <3> QED BY <2>3, <3>1
  <2> QED BY <2>2, <2>4, <2>5, <2>6
<1>10. SQLTypes' /\ S!RowsArePrefix' /\ S!EofIsWhole'
  <2>1. pos' \in Nat /\ pos' > 0 /\ pos' <= Len(file) + 1 /\ mode' = "find"
    BY <1>1, <1>3, <1>13
  <2> QED BY <1>1, <1>2, <2>1, SQLMoves
<1>11. SQLHead'
  BY <1>1, <1>2, <1>13 DEF SQLHead, S!HeadWhole
<1>12. SQLFind'
  <2>1. RowIn' = q + 1
    BY <1>1, <1>5 DEF RowIn
  <2>2. \A s \in table'.starts : s <= Len(rows') => S!Closed(s)'
    BY <1>1, <1>5, <1>9 DEF S!Closed, S!Statement
  <2>3. S!Ends(table', Len(rows'))
    BY <1>1, <1>5, <1>6
  <2>4. pos' = table'.row[RowIn'] - 1
    BY <1>1, <1>3, <1>8, <2>1
  <2>5. pos' > Len(file') \/ file'[pos'] = "nl"
    <3>1. pos + 1 <= Len(file) => pos + 1 \in 1 .. Len(file)
      BY <1>3
    <3>2. pos + 1 <= Len(file) => file[pos + 1] = "nl"
      BY <1>2, <1>14, <3>1 DEF SQLTypes
    <3>3. pos + 1 > Len(file) \/ pos + 1 <= Len(file)
      BY <1>3
    <3> QED BY <1>1, <3>2, <3>3
  <2> QED BY <2>2, <2>3, <2>4, <2>5 DEF SQLFind, S!AtEnd
<1> QED BY <1>10, <1>11, <1>12, <1>13 DEF SQLInv, SQLWords, SQLList, SQLFields

\* Spaces before a token: only the newline between two rows is one.
LEMMA SQLSkipSpace ==
    ASSUME SQLAssumption, SQLInv, S!SkipSpace
    PROVE  SQLInv'
<1>1. /\ mode \in {"words", "list", "field", "closed"} /\ ~S!AtEnd
      /\ pos' = pos + 1 /\ mode' = mode
      /\ UNCHANGED <<table, file, tail, cols, buf, row, rows>>
  BY DEF S!SkipSpace, S!Move
<1>2. SQLTypes /\ SQLWords /\ SQLFields
  BY DEF SQLInv
<1>3. table.text[pos] \in S!Space
  BY <1>1, <1>2, SQLToken DEF S!SkipSpace, S!C
<1>4. mode # "words"
  <2> SUFFICES ASSUME mode = "words" PROVE FALSE
    OBVIOUS
  <2>1. PICK q, p, n : /\ q = RowIn /\ q \in table.starts /\ p = table.row[q]
                       /\ n \in {0, 2, 4, 6} /\ pos = p + n
    BY <1>1, <1>2 DEF SQLWords
  <2>2. q \in 1 .. Len(table.rows)
    BY <1>2, <2>1, SQLTable
  <2>3. p \in Nat
    BY <1>2, <2>1, <2>2, SQLTheRow
  <2>4. /\ table.text[p] = "INSERT" /\ table.text[p + 2] = "INTO"
        /\ table.text[p + 4] = "t" /\ table.text[p + 6] = "VALUES"
    BY <1>2, <2>1, SQLFirstRow
  <2>5. pos = p \/ pos = p + 2 \/ pos = p + 4 \/ pos = p + 6
    BY <2>1, <2>3
  <2>6. table.text[pos] \in {"INSERT", "INTO", "t", "VALUES"}
    BY <2>4, <2>5
  <2> QED BY <1>3, <2>6 DEF S!Space
<1>5. mode \notin {"field", "closed"}
  <2> SUFFICES ASSUME mode \in {"field", "closed"} PROVE FALSE
    OBVIOUS
  <2>1. PICK q, f : q = RowIn /\ f = FieldIn
    OBVIOUS
  <2>2. RowIsRead
    BY <1>2 DEF SQLFields
  <2>3. q \in 1 .. Len(table.rows)
    BY <1>2, <2>1, <2>2, SQLInsideRow DEF RowIsRead
  <2>4. f \in 1 .. Len(table.rows[q])
    <3>1. Len(row) \in Nat
      BY <1>2, LenProperties DEF SQLTypes
    <3>2. Len(table.rows[q]) \in Nat
      BY <1>2, <2>3, SQLTheRow
    <3> QED BY <2>1, <2>2, <3>1, <3>2 DEF RowIsRead, FieldIn
  <2>5. CASE mode = "closed"
    <3>1. pos = table.field[q][f + 1] - 1
      BY <1>1, <1>2, <2>1, <2>5 DEF SQLFields
    <3>2. table.text[pos] \in {")", ","}
      BY <1>2, <2>3, <2>4, <3>1, SQLAfterField
    <3> QED BY <1>3, <3>2 DEF S!Space
  <2>6. CASE mode = "field"
    <3>1. pos = table.field[q][f]
      BY <1>2, <2>1, <2>6 DEF SQLFields
    <3>2. CASE table.rows[q][f].kind = "quoted"
      <4>1. table.text[pos] = "'"
        BY <1>2, <2>3, <2>4, <3>1, <3>2, SQLQuotedField
      <4> QED BY <1>3, <4>1 DEF S!Space
    <3>3. CASE table.rows[q][f].kind # "quoted"
      <4>1. PICK b : b = S!Bare(table.rows[q][f])
        OBVIOUS
      <4>2. Len(b) \in Nat \ {0}
        BY <1>2, <2>3, <2>4, <3>3, <4>1, SQLBareField
      <4>3. 0 \in Nat /\ 0 < Len(b)
        BY <4>2
      <4>4. table.text[table.field[q][f] + 0] \notin S!Space \cup {",", ")", "'"}
        BY <1>2, <2>3, <2>4, <3>3, <4>1, <4>3, SQLBareTokens
      <4>5. table.field[q][f] + 0 = pos
        BY <1>2, <2>3, <2>4, <3>1, SQLTheField
      <4> QED BY <1>3, <4>4, <4>5
    <3> QED BY <3>2, <3>3
  <2> QED BY <2>5, <2>6
<1>6. mode = "list"
  BY <1>1, <1>4, <1>5
<1>7. ~AtSemi /\ ~AtOpen
  <2>1. table.text[pos] # ";" /\ table.text[pos] # "("
    BY <1>3 DEF S!Space
  <2>2. \A t : S!At(t) <=> table.text[pos] = t
    BY <1>1, <1>2, SQLToken
  <2> QED BY <2>1, <2>2 DEF AtSemi, AtOpen
<1>8. AtComma \/ AtLine
  BY <1>1, <1>6, <1>7, SQLListStep
<1>9. mode' = "list"
  BY <1>1, <1>6
<1> QED BY <1>1, <1>6, <1>8, <1>9, SQLListMoves

\* The row and the field that are being read.
LEMMA SQLNowRead ==
    ASSUME SQLAssumption, SQLTypes, RowIsRead
    PROVE  /\ RowIn \in 1 .. Len(table.rows) /\ FieldIn \in 1 .. Len(table.rows[RowIn])
           /\ SQLInside(RowIn) /\ Len(row) \in Nat /\ Len(rows) \in Nat /\ Len(buf) \in Nat
<1>1. PICK q : q = RowIn
  OBVIOUS
<1>2. q \in 1 .. Len(table.rows) /\ SQLInside(q)
  BY <1>1, SQLInsideRow DEF RowIsRead
<1>3. Len(row) \in Nat /\ Len(rows) \in Nat /\ Len(buf) \in Nat
  BY LenProperties DEF SQLTypes
<1>4. Len(table.rows[q]) \in Nat
  BY <1>2, SQLTheRow
<1>5. FieldIn \in 1 .. Len(table.rows[q])
  BY <1>1, <1>3, <1>4 DEF RowIsRead, FieldIn
<1> QED BY <1>1, <1>2, <1>3, <1>5

\* A step inside a field: the place stays in the statement, the row stays as it is.
LEMMA SQLFieldMoves ==
    ASSUME SQLAssumption, SQLInv, mode \in {"field", "raw", "quoted", "closed"},
           mode' \in {"field", "raw", "quoted", "closed"},
           UNCHANGED <<table, file, tail, cols, row, rows>>, buf' \in Seq(Tokens),
           pos' \in Nat, pos' >= pos, pos' <= Len(file) + 1,
           pos' <= table.field[RowIn][FieldIn + 1]
    PROVE  /\ SQLTypes' /\ S!RowsArePrefix' /\ S!EofIsWhole' /\ SQLHead' /\ SQLFind'
           /\ SQLWords' /\ SQLList' /\ RowIsRead'
           /\ RowIn' = RowIn /\ FieldIn' = FieldIn /\ FieldRead' = FieldRead
<1>1. SQLTypes /\ RowIsRead /\ pos \in Nat /\ pos > 0 /\ row \in Seq(S!Fields)
  BY DEF SQLInv, SQLTypes, SQLFields
<1>2. PICK q, f : q = RowIn /\ f = FieldIn
  OBVIOUS
<1>3. q \in 1 .. Len(table.rows) /\ f \in 1 .. Len(table.rows[q]) /\ SQLInside(q)
  BY <1>1, <1>2, SQLNowRead
<1>4. PICK e \in Nat : e = table.field[q][f + 1]
  BY <1>1, <1>3, SQLTheField
<1>5. e <= S!EndAt(table, q) /\ S!EndAt(table, q) \in Nat
  BY <1>1, <1>3, <1>4, SQLTheField, SQLTheRow
<1>6. table.row[q] <= pos /\ table.row[q] \in Nat
  BY <1>1, <1>3, SQLInsideRow, SQLTheRow
<1>7. SQLInside(q)'
  <2>1. pos' <= e
    BY <1>2, <1>4
  <2>2. table.row[q] <= pos' /\ pos' <= S!EndAt(table, q)
    BY <1>1, <1>4, <1>5, <1>6, <2>1
  <2> QED BY <1>3, <2>2, SQLInsideMoves
<1>8. /\ SQLTypes' /\ S!RowsArePrefix' /\ S!EofIsWhole' /\ SQLHead' /\ SQLFind'
      /\ RowIn' = RowIn
  <2>1. pos' > 0 /\ row' \in Seq(S!Fields)
    BY <1>1
  <2> QED BY <2>1, SQLWithin
<1>9. FieldIn' = FieldIn /\ FieldRead' = FieldRead
  BY <1>8 DEF FieldIn, FieldRead
<1>10. RowIsRead'
  BY <1>1, <1>2, <1>7, <1>8, <1>9 DEF RowIsRead
<1>11. SQLWords' /\ SQLList'
  BY DEF SQLWords, SQLList
<1> QED BY <1>8, <1>9, <1>10, <1>11

\* readField: the quote of a field, or the first token of a field without quotes.
LEMMA SQLFieldStart ==
    ASSUME SQLAssumption, SQLInv, S!FieldStart
    PROVE  SQLInv'
<1>1. /\ mode = "field" /\ ~S!AtEnd /\ buf' = <<>>
      /\ UNCHANGED <<table, file, tail, cols, row, rows>>
  BY DEF S!FieldStart, S!Move
<1>2. SQLTypes /\ RowIsRead
  BY <1>1 DEF SQLInv, SQLFields
<1>3. PICK q, f : q = RowIn /\ f = FieldIn
  OBVIOUS
<1>4. q \in 1 .. Len(table.rows) /\ f \in 1 .. Len(table.rows[q])
  BY <1>2, <1>3, SQLNowRead
<1>5. PICK p \in Nat : p = table.field[q][f]
  BY <1>2, <1>4, SQLTheField
<1>6. pos = p
  BY <1>1, <1>3, <1>5 DEF SQLInv, SQLFields
<1>7. pos > 0 /\ Len(file) \in Nat /\ pos <= Len(file) /\ S!C = table.text[pos]
  BY <1>1, <1>2, SQLToken DEF S!C
<1>8. buf' \in Seq(Tokens) /\ Len(buf') = 0 /\ CharIn' = 1
  BY <1>1 DEF CharIn
<1>9. \A t : Len(t) \in Nat => TextIsRead(t)'
  <2> SUFFICES ASSUME NEW t, Len(t) \in Nat PROVE TextIsRead(t)'
    OBVIOUS
  <2>1. Len(buf') <= Len(t) /\ \A j \in 1 .. Len(buf') : FALSE
    BY <1>8
  <2> QED BY <2>1 DEF TextIsRead
<1>10. CASE table.rows[q][f].kind = "quoted"
  <2>1. table.text[p] = "'"
    BY <1>2, <1>4, <1>5, <1>10, SQLQuotedField
  <2>2. pos' = pos + 1 /\ mode' = "quoted"
    BY <1>6, <1>7, <2>1 DEF S!FieldStart, S!Move
  <2>3. PICK e \in Nat : e = table.field[q][f + 1]
    BY <1>2, <1>4, SQLTheField
  <2>4. p < e
    BY <1>2, <1>4, <1>5, <2>3, SQLTheField
  <2>5. pos' \in Nat /\ pos' >= pos /\ pos' <= Len(file) + 1 /\ pos' <= e
    BY <1>6, <1>7, <2>2, <2>4
  <2>6. pos' = table.char[q][f][1]
    BY <1>2, <1>4, <1>5, <1>6, <1>10, <2>2, SQLQuotedField
  <2>7. Len(table.rows[q][f].text) \in Nat
    BY <1>2, <1>4, SQLTheField
  <2>8. /\ SQLTypes' /\ S!RowsArePrefix' /\ S!EofIsWhole' /\ SQLHead' /\ SQLFind'
        /\ SQLWords' /\ SQLList' /\ RowIsRead'
        /\ RowIn' = RowIn /\ FieldIn' = FieldIn /\ FieldRead' = FieldRead
    BY <1>1, <1>3, <1>8, <2>2, <2>3, <2>5, SQLFieldMoves
  <2>9. TextIsRead(table.rows[q][f].text)'
    BY <1>1, <1>3, <1>8, <1>9, <2>7, <2>8 DEF TextIsRead, FieldRead
  <2>10. SQLFields'
    BY <1>1, <1>3, <1>8, <1>10, <2>2, <2>6, <2>8, <2>9 DEF SQLFields, FieldRead, TextIsRead
  <2> QED BY <2>8, <2>10 DEF SQLInv
<1>11. CASE table.rows[q][f].kind # "quoted"
  <2>1. PICK b : b = S!Bare(table.rows[q][f])
    OBVIOUS
  <2>2. Len(b) \in Nat \ {0}
    BY <1>2, <1>4, <1>11, <2>1, SQLBareField
  <2>3. 0 \in Nat /\ 0 < Len(b) /\ p + 0 = pos
    BY <1>6, <2>2
  <2>4. table.text[table.field[q][f] + 0] \notin S!Space \cup {",", ")", "'"}
    BY <1>2, <1>4, <1>11, <2>1, <2>3, SQLBareTokens
  <2>5. table.text[pos] \notin S!Space \cup {",", ")", "'"}
    BY <1>5, <2>3, <2>4
  <2>6. table.text[pos] # "'"
    BY <2>5
  <2>7. pos' = pos /\ mode' = "raw"
    BY <1>7, <2>6 DEF S!FieldStart, S!Move
  <2>8. PICK e \in Nat : e = table.field[q][f + 1]
    BY <1>2, <1>4, SQLTheField
  <2>9. p < e
    BY <1>2, <1>4, <1>5, <2>8, SQLTheField
  <2>10. pos' \in Nat /\ pos' >= pos /\ pos' <= Len(file) + 1 /\ pos' <= e
    BY <1>6, <1>7, <2>7, <2>9
  <2>11. /\ SQLTypes' /\ S!RowsArePrefix' /\ S!EofIsWhole' /\ SQLHead' /\ SQLFind'
         /\ SQLWords' /\ SQLList' /\ RowIsRead'
         /\ RowIn' = RowIn /\ FieldIn' = FieldIn /\ FieldRead' = FieldRead
    BY <1>1, <1>3, <1>8, <2>7, <2>8, <2>10, SQLFieldMoves
  <2>12. TextIsRead(b)'
    BY <1>9, <2>2
  <2>13. pos' = table.field[q][f] + Len(buf')
    BY <1>5, <1>6, <1>8, <2>7
  <2>14. FieldRead = table.rows[q][f]
    BY <1>3 DEF FieldRead
  <2>15. FieldRead'.kind # "quoted" /\ TextIsRead(S!Bare(FieldRead))'
    <3>1. S!Bare(FieldRead') = b
      BY <2>1, <2>11, <2>14
    <3> QED BY <1>11, <2>11, <2>12, <2>14, <3>1 DEF TextIsRead
  <2>16. pos' = table'.field[RowIn'][FieldIn'] + Len(buf')
    BY <1>1, <1>3, <2>11, <2>13
  <2>17. SQLFields'
    BY <2>7, <2>11, <2>15, <2>16 DEF SQLFields
  <2> QED BY <2>11, <2>17 DEF SQLInv
<1> QED BY <1>10, <1>11

\* One more character of the text.
LEMMA SQLOneMore ==
    ASSUME NEW t \in Seq(Tokens), buf \in Seq(Tokens), TextIsRead(t), Len(buf) # Len(t),
           buf' = Append(buf, t[Len(buf) + 1])
    PROVE  /\ buf' \in Seq(Tokens) /\ Len(buf') = Len(buf) + 1 /\ TextIsRead(t)'
           /\ Len(buf) \in Nat /\ Len(buf) < Len(t) /\ Len(buf) + 1 \in 1 .. Len(t)
<1>1. Len(buf) \in Nat /\ Len(t) \in Nat
  BY LenProperties
<1>2. /\ Len(buf) < Len(t) /\ Len(buf) + 1 \in 1 .. Len(t)
  BY <1>1 DEF TextIsRead
<1>3. t[Len(buf) + 1] \in Tokens
  BY <1>2, ElementOfSeq
<1>4. /\ buf' \in Seq(Tokens) /\ Len(buf') = Len(buf) + 1
      /\ \A j \in 1 .. Len(buf) : buf'[j] = buf[j]
      /\ buf'[Len(buf) + 1] = t[Len(buf) + 1]
  BY <1>3, AppendProperties
<1>5. \A j \in 1 .. Len(buf') : buf'[j] = t[j]
  <2> SUFFICES ASSUME NEW j \in 1 .. Len(buf') PROVE buf'[j] = t[j]
    OBVIOUS
  <2>1. j \in 1 .. Len(buf) \/ j = Len(buf) + 1
    BY <1>1, <1>4
  <2> QED BY <1>4, <2>1 DEF TextIsRead
<1>6. Len(buf') <= Len(t)
  BY <1>1, <1>2, <1>4
<1> QED BY <1>1, <1>2, <1>4, <1>5, <1>6 DEF TextIsRead

\* Where the reader is in a field without quotes.
LEMMA SQLAtRaw ==
    ASSUME SQLAssumption, SQLInv, mode = "raw", ~S!AtEnd,
           NEW q, NEW f, NEW b, q = RowIn, f = FieldIn, b = S!Bare(table.rows[q][f])
    PROVE  /\ q \in 1 .. Len(table.rows) /\ f \in 1 .. Len(table.rows[q])
           /\ b \in Seq(Tokens) /\ Len(b) \in Nat /\ Len(buf) \in Nat /\ Len(buf) <= Len(b)
           /\ table.rows[q][f].kind # "quoted" /\ TextIsRead(b)
           /\ table.field[q][f] \in Nat /\ pos = table.field[q][f] + Len(buf)
           /\ table.field[q][f + 1] = table.field[q][f] + Len(b) + 1
           /\ S!C \in {",", ")"} <=> Len(buf) = Len(b)
           /\ Len(buf) < Len(b) => S!C = b[Len(buf) + 1] /\ S!C \notin S!Space
<1>1. SQLTypes /\ SQLFields /\ RowIsRead /\ buf \in Seq(Tokens)
  BY DEF SQLInv, SQLTypes, SQLFields
<1>2. q \in 1 .. Len(table.rows) /\ f \in 1 .. Len(table.rows[q]) /\ Len(buf) \in Nat
  BY <1>1, SQLNowRead
<1>3. /\ table.rows[q][f].kind # "quoted" /\ TextIsRead(b)
      /\ pos = table.field[q][f] + Len(buf)
  BY <1>1 DEF SQLFields, FieldRead, TextIsRead
<1>4. /\ b \in Seq(Tokens) /\ Len(b) \in Nat
      /\ table.field[q][f + 1] = table.field[q][f] + Len(b) + 1
  BY <1>1, <1>2, <1>3, SQLBareField
<1>5. Len(buf) <= Len(b)
  BY <1>3 DEF TextIsRead
<1>6. PICK p \in Nat : p = table.field[q][f]
  BY <1>1, <1>2, SQLTheField
<1>7. S!C = table.text[pos]
  BY <1>1, SQLToken DEF S!C
<1>8. CASE Len(buf) < Len(b)
  <2>1. /\ table.text[table.field[q][f] + Len(buf)] = b[Len(buf) + 1]
        /\ b[Len(buf) + 1] \notin S!Space \cup {",", ")", "'"}
    BY <1>1, <1>2, <1>3, <1>8, SQLBareTokens
  <2>2. S!C = b[Len(buf) + 1] /\ S!C \notin S!Space /\ S!C \notin {",", ")"}
    BY <1>3, <1>7, <2>1
  <2>3. Len(buf) # Len(b)
    BY <1>2, <1>4, <1>8
  <2> QED BY <1>2, <1>3, <1>4, <1>5, <1>6, <2>2, <2>3
<1>9. CASE Len(buf) = Len(b)
  <2>1. pos = table.field[q][f + 1] - 1
    BY <1>2, <1>3, <1>4, <1>6, <1>9
  <2>2. S!C \in {",", ")"}
    BY <1>1, <1>2, <1>7, <2>1, SQLAfterField
  <2>3. ~(Len(buf) < Len(b))
    BY <1>2, <1>4, <1>9
  <2> QED BY <1>2, <1>3, <1>4, <1>5, <1>6, <1>9, <2>2, <2>3
<1>10. Len(buf) < Len(b) \/ Len(buf) = Len(b)
  BY <1>2, <1>4, <1>5
<1> QED BY <1>8, <1>9, <1>10

\* A character of a field without quotes.
LEMMA SQLRawChar ==
    ASSUME SQLAssumption, SQLInv, S!RawChar
    PROVE  SQLInv'
<1>1. /\ mode = "raw" /\ mode' = "raw" /\ ~S!AtEnd /\ S!C \notin {",", ")"} /\ pos' = pos + 1
      /\ buf' = IF S!C \in S!Space THEN buf ELSE Append(buf, S!C)
      /\ UNCHANGED <<table, file, tail, cols, row, rows>>
  BY DEF S!RawChar, S!Move
<1>2. PICK q, f, b : q = RowIn /\ f = FieldIn /\ b = S!Bare(table.rows[q][f])
  OBVIOUS
<1>3. SQLTypes /\ buf \in Seq(Tokens)
  BY DEF SQLInv, SQLTypes
<1>4. q \in 1 .. Len(table.rows) /\ f \in 1 .. Len(table.rows[q])
  BY <1>1, <1>2, SQLAtRaw
<1>5. b \in Seq(Tokens) /\ Len(b) \in Nat /\ Len(buf) \in Nat /\ Len(buf) <= Len(b)
  BY <1>1, <1>2, SQLAtRaw
<1>6. table.rows[q][f].kind # "quoted" /\ TextIsRead(b) /\ Len(buf) # Len(b)
  BY <1>1, <1>2, SQLAtRaw
<1>7. PICK p \in Nat : p = table.field[q][f]
  BY <1>1, <1>2, SQLAtRaw
<1>8. pos = p + Len(buf) /\ table.field[q][f + 1] = p + Len(b) + 1
  BY <1>1, <1>2, <1>7, SQLAtRaw
<1>9. Len(buf) < Len(b)
  BY <1>5, <1>6
<1>10. buf' = Append(buf, b[Len(buf) + 1])
  <2>1. S!C = b[Len(buf) + 1] /\ S!C \notin S!Space
    BY <1>1, <1>2, <1>9, SQLAtRaw
  <2> QED BY <1>1, <2>1
<1>11. buf' \in Seq(Tokens) /\ Len(buf') = Len(buf) + 1 /\ TextIsRead(b)'
  BY <1>3, <1>5, <1>6, <1>10, SQLOneMore
<1>12. pos \in Nat /\ Len(file) \in Nat /\ pos <= Len(file)
  BY <1>1, <1>3, SQLToken
<1>20. pos' = pos + 1
  BY <1>1
<1>13. pos' \in Nat /\ pos' >= pos /\ pos' <= Len(file) + 1 /\ pos' = p + Len(buf')
  <2>1. pos = p + Len(buf) /\ Len(buf') = Len(buf) + 1
    BY <1>8, <1>11
  <2>2. pos' = p + Len(buf')
    BY <1>5, <1>7, <1>20, <2>1
  <2> QED BY <1>12, <1>20, <2>2
<1>14. pos' <= table.field[q][f + 1]
  BY <1>20, <1>5, <1>7, <1>8, <1>9
<1>15. /\ SQLTypes' /\ S!RowsArePrefix' /\ S!EofIsWhole' /\ SQLHead' /\ SQLFind'
       /\ SQLWords' /\ SQLList' /\ RowIsRead'
       /\ RowIn' = RowIn /\ FieldIn' = FieldIn /\ FieldRead' = FieldRead
  BY <1>1, <1>2, <1>11, <1>13, <1>14, SQLFieldMoves
<1>16. FieldRead' = table.rows[q][f]
  BY <1>2, <1>15 DEF FieldRead
<1>17. FieldRead'.kind # "quoted" /\ TextIsRead(S!Bare(FieldRead))'
  BY <1>2, <1>6, <1>11, <1>16 DEF TextIsRead
<1>18. pos' = table'.field[RowIn'][FieldIn'] + Len(buf')
  BY <1>1, <1>2, <1>7, <1>13, <1>15
<1>19. SQLFields'
  BY <1>1, <1>15, <1>17, <1>18 DEF SQLFields
<1> QED BY <1>15, <1>19 DEF SQLInv

\* Where the reader is in a field with quotes.
LEMMA SQLAtQuoted ==
    ASSUME SQLAssumption, SQLInv, mode = "quoted", ~S!AtEnd,
           NEW q, NEW f, NEW t, q = RowIn, f = FieldIn, t = table.rows[q][f].text
    PROVE  /\ q \in 1 .. Len(table.rows) /\ f \in 1 .. Len(table.rows[q])
           /\ t \in Seq(Tokens) /\ Len(t) \in Nat /\ Len(buf) \in Nat /\ Len(buf) <= Len(t)
           /\ table.rows[q][f].kind = "quoted" /\ TextIsRead(t)
           /\ pos = table.char[q][f][Len(buf) + 1]
           /\ S!C = table.text[pos] /\ table.field[q][f + 1] \in Nat
<1>1. SQLTypes /\ SQLFields /\ RowIsRead
  BY DEF SQLInv, SQLFields
<1>2. q \in 1 .. Len(table.rows) /\ f \in 1 .. Len(table.rows[q]) /\ Len(buf) \in Nat
  BY <1>1, SQLNowRead
<1>3. /\ table.rows[q][f].kind = "quoted" /\ TextIsRead(t)
      /\ pos = table.char[q][f][Len(buf) + 1]
  BY <1>1 DEF SQLFields, FieldRead, TextIsRead, CharIn
<1>4. t \in Seq(Tokens) /\ Len(t) \in Nat /\ table.field[q][f + 1] \in Nat
  BY <1>1, <1>2, SQLTheField
<1>5. Len(buf) <= Len(t)
  BY <1>3 DEF TextIsRead
<1>6. S!C = table.text[pos]
  BY <1>1, SQLToken DEF S!C
<1> QED BY <1>2, <1>3, <1>4, <1>5, <1>6

\* What stands there: a character of the text, or the quote that ends it.
LEMMA SQLInQuotes ==
    ASSUME SQLAssumption, SQLInv, mode = "quoted", ~S!AtEnd,
           NEW q, NEW f, NEW t, q = RowIn, f = FieldIn, t = table.rows[q][f].text
    PROVE  \/ /\ Len(buf) = Len(t) /\ S!C = "'" /\ table.field[q][f + 1] = pos + 2
           \/ /\ Len(buf) # Len(t) /\ S!C = t[Len(buf) + 1] /\ S!C \notin {"'", "\\"}
              /\ table.char[q][f][Len(buf) + 2] = pos + 1
              /\ pos + 1 < table.field[q][f + 1]
           \/ /\ Len(buf) # Len(t) /\ S!C = "'" /\ table.text[pos + 1] = "'"
              /\ t[Len(buf) + 1] = "'"
              /\ table.char[q][f][Len(buf) + 2] = pos + 2
              /\ pos + 2 < table.field[q][f + 1]
           \/ /\ Len(buf) # Len(t) /\ S!C = "\\"
              /\ S!unescape(table.text[pos + 1]) = t[Len(buf) + 1]
              /\ table.char[q][f][Len(buf) + 2] = pos + 2
              /\ pos + 2 < table.field[q][f + 1]
<1>1. SQLTypes
  BY DEF SQLInv
<1>2. /\ q \in 1 .. Len(table.rows) /\ f \in 1 .. Len(table.rows[q])
      /\ table.rows[q][f].kind = "quoted" /\ pos = table.char[q][f][Len(buf) + 1]
      /\ S!C = table.text[pos]
  BY SQLAtQuoted
<1>3. Len(t) \in Nat /\ Len(buf) \in Nat /\ Len(buf) <= Len(t)
  BY SQLAtQuoted
<1>4. CASE Len(buf) = Len(t)
  <2>2. pos = table.char[q][f][Len(t) + 1]
    BY <1>2, <1>4
  <2>3. table.field[q][f + 1] = table.char[q][f][Len(t) + 1] + 2
    BY <1>1, <1>2, SQLQuotedField
  <2>4. table.text[table.char[q][f][Len(t) + 1]] = "'"
    BY <1>1, <1>2, SQLQuotedField
  <2>1. table.text[pos] = "'" /\ table.field[q][f + 1] = pos + 2
    BY <2>2, <2>3, <2>4
  <2> QED BY <1>2, <1>4, <2>1
<1>5. CASE Len(buf) # Len(t)
  <2>1. Len(buf) + 1 \in 1 .. Len(t) /\ (Len(buf) + 1) + 1 = Len(buf) + 2
    BY <1>3, <1>5
  <2>2. PICK j, n : j = Len(buf) + 1 /\ n = Len(buf) + 2 /\ j \in 1 .. Len(t) /\ j + 1 = n
    BY <2>1
  <2>3. pos = table.char[q][f][j]
    BY <1>2, <2>2
  <2>5. table.rows[q][f].text = t /\ j \in 1 .. Len(table.rows[q][f].text)
    BY <2>2
  <2>6. table.char[q][f][j + 1] < table.field[q][f + 1]
    BY <1>1, <1>2, <2>5, SQLQuotedChar
  <2>7. CharAt(table.rows[q][f].text[j], table.char[q][f][j], table.char[q][f][j + 1])
    BY <1>1, <1>2, <2>5, SQLQuotedChar
  <2>8. CharAt(t[j], pos, table.char[q][f][n])
    BY <2>2, <2>3, <2>5, <2>7
  <2>4. table.char[q][f][n] < table.field[q][f + 1]
    BY <2>2, <2>6
  <2> QED BY <1>2, <1>5, <2>2, <2>4, <2>8 DEF CharAt
<1> QED BY <1>4, <1>5

\* One more character of a field with quotes, and the place of the next.
LEMMA SQLQuotedMoves ==
    ASSUME SQLAssumption, SQLInv, mode = "quoted", ~S!AtEnd, mode' = "quoted",
           UNCHANGED <<table, file, tail, cols, row, rows>>,
           NEW q, NEW f, NEW t, q = RowIn, f = FieldIn, t = table.rows[q][f].text,
           Len(buf) # Len(t), buf' = Append(buf, t[Len(buf) + 1]),
           pos' \in {pos + 1, pos + 2}, pos' <= Len(file) + 1,
           pos' = table.char[q][f][Len(buf) + 2], pos' < table.field[q][f + 1]
    PROVE  SQLInv'
<1>1. SQLTypes /\ buf \in Seq(Tokens)
  BY DEF SQLInv, SQLTypes
<1>2. t \in Seq(Tokens) /\ TextIsRead(t) /\ table.rows[q][f].kind = "quoted"
  BY SQLAtQuoted
<1>3. Len(buf) \in Nat /\ Len(t) \in Nat
  BY SQLAtQuoted
<1>4. buf' \in Seq(Tokens) /\ Len(buf') = Len(buf) + 1 /\ TextIsRead(t)'
  BY <1>1, <1>2, SQLOneMore
<1>5. pos \in Nat
  BY <1>1, SQLToken
<1>6. PICK e \in Nat : e = table.field[q][f + 1]
  BY SQLAtQuoted
<1>7. pos' \in Nat /\ pos' >= pos /\ pos' <= e
  BY <1>5, <1>6
<1>8. /\ SQLTypes' /\ S!RowsArePrefix' /\ S!EofIsWhole' /\ SQLHead' /\ SQLFind'
      /\ SQLWords' /\ SQLList' /\ RowIsRead'
      /\ RowIn' = RowIn /\ FieldIn' = FieldIn /\ FieldRead' = FieldRead
  BY <1>4, <1>6, <1>7, SQLFieldMoves
<1>9. FieldRead' = table.rows[q][f]
  BY <1>8 DEF FieldRead
<1>10. CharIn' = Len(buf) + 2
  BY <1>3, <1>4 DEF CharIn
<1>11. pos' = table'.char[RowIn'][FieldIn'][CharIn']
  BY <1>8, <1>10
<1>12. TextIsRead(FieldRead.text)'
  BY <1>4, <1>9 DEF TextIsRead
<1>13. SQLFields'
  BY <1>2, <1>8, <1>9, <1>11, <1>12 DEF SQLFields
<1> QED BY <1>8, <1>13 DEF SQLInv

\* A character that is written as it is.
LEMMA SQLQuotedPlain ==
    ASSUME SQLAssumption, SQLInv, S!QuotedChar
    PROVE  SQLInv'
<1>1. /\ mode = "quoted" /\ mode' = "quoted" /\ ~S!AtEnd /\ S!C \notin {"'", "\\"}
      /\ pos' = pos + 1 /\ buf' = Append(buf, S!C)
      /\ UNCHANGED <<table, file, tail, cols, row, rows>>
  BY DEF S!QuotedChar, S!Move
<1>2. PICK q, f, t : q = RowIn /\ f = FieldIn /\ t = table.rows[q][f].text
  OBVIOUS
<1>3. /\ Len(buf) # Len(t) /\ S!C = t[Len(buf) + 1]
      /\ table.char[q][f][Len(buf) + 2] = pos + 1 /\ pos + 1 < table.field[q][f + 1]
  BY <1>1, <1>2, SQLInQuotes
<1>4. pos' <= Len(file) + 1
  <2>1. pos \in Nat /\ Len(file) \in Nat /\ pos <= Len(file)
    BY <1>1, SQLToken DEF SQLInv
  <2>2. pos' = pos + 1
    BY <1>1
  <2> QED BY <2>1, <2>2
<1> QED BY <1>1, <1>2, <1>3, <1>4, SQLQuotedMoves

\* The bytes end after the token that is read, or the text does.
LEMMA SQLQuotedStops ==
    ASSUME SQLAssumption, SQLInv, mode = "quoted", ~S!AtEnd, mode' \in {"quoted", "closed"},
           UNCHANGED <<table, file, tail, cols, buf, row, rows>>, pos' = pos + 1,
           NEW q, NEW f, NEW t, q = RowIn, f = FieldIn, t = table.rows[q][f].text,
           pos' < table.field[q][f + 1],
           \/ pos' > Len(file)
           \/ mode' = "closed" /\ buf = t /\ pos' = table.field[q][f + 1] - 1
    PROVE  SQLInv'
<1>1. SQLTypes /\ buf' \in Seq(Tokens)
  BY DEF SQLInv, SQLTypes
<1>2. table.rows[q][f].kind = "quoted"
  BY SQLAtQuoted
<1>3. pos \in Nat /\ Len(file) \in Nat /\ pos <= Len(file)
  BY <1>1, SQLToken
<1>4. PICK e \in Nat : e = table.field[q][f + 1]
  BY SQLAtQuoted
<1>5. pos' \in Nat /\ pos' >= pos /\ pos' <= Len(file) + 1 /\ pos' <= e
  BY <1>3, <1>4
<1>6. /\ SQLTypes' /\ S!RowsArePrefix' /\ S!EofIsWhole' /\ SQLHead' /\ SQLFind'
      /\ SQLWords' /\ SQLList' /\ RowIsRead'
      /\ RowIn' = RowIn /\ FieldIn' = FieldIn /\ FieldRead' = FieldRead
  BY <1>1, <1>4, <1>5, SQLFieldMoves
<1>7. FieldRead' = table.rows[q][f]
  BY <1>6 DEF FieldRead
<1>8. CASE pos' > Len(file)
  <2>1. S!AtEnd'
    BY <1>8 DEF S!AtEnd
  <2> QED BY <1>2, <1>6, <1>7, <2>1 DEF SQLFields, SQLInv
<1>9. CASE mode' = "closed" /\ buf = t /\ pos' = table.field[q][f + 1] - 1
  <2>1. pos' = table'.field[RowIn'][FieldIn' + 1] - 1 /\ buf' = FieldRead'.text
    BY <1>6, <1>7, <1>9
  <2> QED BY <1>2, <1>6, <1>7, <1>9, <2>1 DEF SQLFields, SQLInv
<1> QED BY <1>8, <1>9

\* A character that is written with a backslash.
LEMMA SQLQuotedEscape ==
    ASSUME SQLAssumption, SQLInv, S!QuotedEscape
    PROVE  SQLInv'
<1>1. /\ mode = "quoted" /\ mode' = "quoted" /\ ~S!AtEnd /\ S!C = "\\"
      /\ IF pos = Len(file) THEN pos' = pos + 1 /\ UNCHANGED buf
         ELSE pos' = pos + 2 /\ buf' = Append(buf, S!unescape(file[pos + 1]))
      /\ UNCHANGED <<table, file, tail, cols, row, rows>>
  BY DEF S!QuotedEscape, S!Move
<1>2. PICK q, f, t : q = RowIn /\ f = FieldIn /\ t = table.rows[q][f].text
  OBVIOUS
<1>3. S!C # "'"
  BY <1>1
<1>4. /\ Len(buf) # Len(t) /\ S!unescape(table.text[pos + 1]) = t[Len(buf) + 1]
      /\ table.char[q][f][Len(buf) + 2] = pos + 2 /\ pos + 2 < table.field[q][f + 1]
  BY <1>1, <1>2, <1>3, SQLInQuotes
<1>5. SQLTypes
  BY DEF SQLInv
<1>6. pos \in Nat /\ Len(file) \in Nat /\ pos <= Len(file)
  BY <1>1, <1>5, SQLToken
<1>7. PICK e \in Nat : e = table.field[q][f + 1]
  BY <1>1, <1>2, SQLAtQuoted
<1>8. pos + 2 < e
  BY <1>4, <1>7
<1>9. CASE pos = Len(file)
  <2>1. pos' = pos + 1 /\ UNCHANGED buf
    BY <1>1, <1>9
  <2>2. pos' > Len(file) /\ pos' < e
    BY <1>6, <1>8, <1>9, <2>1
  <2> QED BY <1>1, <1>2, <1>7, <2>1, <2>2, SQLQuotedStops
<1>10. CASE pos # Len(file)
  <2>1. pos' = pos + 2 /\ buf' = Append(buf, S!unescape(file[pos + 1]))
    BY <1>1, <1>10
  <2>2. pos + 1 \in 1 .. Len(file) /\ pos + 2 <= Len(file) + 1
    BY <1>6, <1>10
  <2>3. file[pos + 1] = table.text[pos + 1]
    BY <1>5, <2>2 DEF SQLTypes
  <2>4. buf' = Append(buf, t[Len(buf) + 1])
    BY <1>4, <2>1, <2>3
  <2>5. pos' \in {pos + 1, pos + 2} /\ pos' <= Len(file) + 1
    BY <2>1, <2>2
  <2>6. pos' = table.char[q][f][Len(buf) + 2] /\ pos' < table.field[q][f + 1]
    BY <1>4, <2>1
  <2> QED BY <1>1, <1>2, <1>4, <2>4, <2>5, <2>6, SQLQuotedMoves
<1> QED BY <1>9, <1>10

\* A quote in a text: a doubled one stands for itself, the other ends the field.
LEMMA SQLCloseQuote ==
    ASSUME SQLAssumption, SQLInv, S!CloseQuote
    PROVE  SQLInv'
<1>1. /\ mode = "quoted" /\ ~S!AtEnd /\ S!C = "'"
      /\ IF pos < Len(file) /\ file[pos + 1] = "'"
           THEN pos' = pos + 2 /\ mode' = "quoted" /\ buf' = Append(buf, "'")
           ELSE pos' = pos + 1 /\ mode' = "closed" /\ UNCHANGED buf
      /\ UNCHANGED <<table, file, tail, cols, row, rows>>
  BY DEF S!CloseQuote, S!Move
<1>2. PICK q, f, t : q = RowIn /\ f = FieldIn /\ t = table.rows[q][f].text
  OBVIOUS
<1>3. S!C # "\\"
  BY <1>1
<1>4. \/ Len(buf) = Len(t) /\ table.field[q][f + 1] = pos + 2
      \/ /\ Len(buf) # Len(t) /\ table.text[pos + 1] = "'" /\ t[Len(buf) + 1] = "'"
         /\ table.char[q][f][Len(buf) + 2] = pos + 2 /\ pos + 2 < table.field[q][f + 1]
  BY <1>1, <1>2, <1>3, SQLInQuotes
<1>5. SQLTypes /\ buf \in Seq(Tokens)
  BY DEF SQLInv, SQLTypes
<1>6. pos \in Nat /\ Len(file) \in Nat /\ pos <= Len(file)
  BY <1>1, <1>5, SQLToken
<1>7. /\ q \in 1 .. Len(table.rows) /\ f \in 1 .. Len(table.rows[q])
      /\ t \in Seq(Tokens) /\ TextIsRead(t)
  BY <1>1, <1>2, SQLAtQuoted
<1>8. PICK e \in Nat : e = table.field[q][f + 1]
  BY <1>1, <1>2, SQLAtQuoted
<1>9. pos < Len(file) => file[pos + 1] = table.text[pos + 1]
  <2>1. pos < Len(file) => pos + 1 \in 1 .. Len(file)
    BY <1>6
  <2> QED BY <1>5, <2>1 DEF SQLTypes
<1>10. CASE Len(buf) = Len(t) /\ table.field[q][f + 1] = pos + 2
  <2>1. e = pos + 2
    BY <1>8, <1>10
  <2>2. e - 1 = pos + 1
    BY <1>6, <2>1
  <2>3. table.text[e - 1] \in {",", ")"}
    BY <1>5, <1>7, <1>8, SQLAfterField
  <2>4. table.text[pos + 1] # "'"
    BY <2>2, <2>3
  <2>5. pos' = pos + 1 /\ mode' = "closed" /\ UNCHANGED buf
    BY <1>1, <1>9, <2>4
  <2>6. pos' < e /\ pos' = e - 1
    BY <1>6, <2>1, <2>5
  <2>7. buf = t
    BY <1>5, <1>7, <1>10, SeqEqual DEF TextIsRead
  <2> QED BY <1>1, <1>2, <1>8, <2>5, <2>6, <2>7, SQLQuotedStops
<1>11. CASE /\ Len(buf) # Len(t) /\ table.text[pos + 1] = "'" /\ t[Len(buf) + 1] = "'"
            /\ table.char[q][f][Len(buf) + 2] = pos + 2 /\ pos + 2 < table.field[q][f + 1]
  <2>1. CASE pos < Len(file)
    <3>1. pos' = pos + 2 /\ mode' = "quoted" /\ buf' = Append(buf, t[Len(buf) + 1])
      BY <1>1, <1>9, <1>11, <2>1
    <3>2. pos + 2 <= Len(file) + 1
      BY <1>6, <2>1
    <3>3. pos' \in {pos + 1, pos + 2} /\ pos' <= Len(file) + 1
      BY <3>1, <3>2
    <3> QED BY <1>1, <1>2, <1>11, <3>1, <3>3, SQLQuotedMoves
  <2>2. CASE ~(pos < Len(file))
    <3>1. pos' = pos + 1 /\ mode' = "closed" /\ UNCHANGED buf
      BY <1>1, <2>2
    <3>2. pos + 2 < e
      BY <1>8, <1>11
    <3>3. pos' < e /\ pos' > Len(file)
      BY <1>6, <2>2, <3>1, <3>2
    <3> QED BY <1>1, <1>2, <1>8, <3>1, <3>3, SQLQuotedStops
  <2> QED BY <2>1, <2>2
<1> QED BY <1>4, <1>10, <1>11

\* The field that ends, and what comes next.
LEMMA SQLNextField ==
    ASSUME SQLAssumption, SQLInv, mode \in {"raw", "closed"}, ~S!AtEnd,
           NEW q, NEW f, NEW v, q = RowIn, f = FieldIn, v = table.rows[q][f],
           pos = table.field[q][f + 1] - 1, S!FieldDone(v)
    PROVE  /\ q \in 1 .. Len(table.rows) /\ f \in 1 .. Len(table.rows[q])
           /\ row' \in Seq(S!Fields) /\ Len(row') = f
           /\ \A i \in 1 .. f : row'[i] = table.rows[q][i]
           /\ pos' = table.field[q][f + 1] /\ pos' = pos + 1
           /\ table.row[q] <= pos' /\ pos' <= S!EndAt(table, q)
           /\ cols = NumCols /\ S!HeadWhole
           /\ UNCHANGED <<table, file, tail, cols, buf>>
           /\ \/ f # Len(table.rows[q]) /\ mode' = "field" /\ UNCHANGED rows
              \/ /\ f = Len(table.rows[q]) /\ f = NumCols /\ mode' = "list"
                 /\ rows' = Append(rows, row')
              \/ f = Len(table.rows[q]) /\ f # NumCols /\ mode' = "error" /\ UNCHANGED rows
<1>1. SQLTypes /\ RowIsRead /\ row \in Seq(S!Fields)
  BY DEF SQLInv, SQLTypes, SQLFields
<1>2. /\ q \in 1 .. Len(table.rows) /\ f \in 1 .. Len(table.rows[q]) /\ SQLInside(q)
      /\ Len(row) \in Nat
  BY <1>1, SQLNowRead
<1>3. v \in S!Fields
  BY <1>1, <1>2, SQLTheField
<1>4. row' = Append(row, v)
  BY DEF S!FieldDone
<1>5. /\ row' \in Seq(S!Fields) /\ Len(row') = Len(row) + 1
      /\ \A i \in 1 .. Len(row) : row'[i] = row[i]
      /\ row'[Len(row) + 1] = v
  BY <1>1, <1>3, <1>4, AppendProperties
<1>6. Len(row') = f /\ f = Len(row) + 1
  BY <1>5 DEF FieldIn
<1>7. \A i \in 1 .. f : row'[i] = table.rows[q][i]
  <2> SUFFICES ASSUME NEW i \in 1 .. f PROVE row'[i] = table.rows[q][i]
    OBVIOUS
  <2>1. i \in 1 .. Len(row) \/ i = f
    BY <1>2, <1>6
  <2> QED BY <1>1, <1>5, <1>6, <2>1 DEF RowIsRead
<1>8. UNCHANGED <<table, file, tail, cols, buf>> /\ pos' = pos + 1
  BY DEF S!FieldDone, S!Move
<1>9. cols = NumCols /\ S!HeadWhole
  BY DEF SQLInv, SQLHead
<1>10. PICK e \in Nat : e = table.field[q][f + 1]
  BY <1>1, <1>2, SQLTheField
<1>11. pos' = e /\ pos \in Nat
  <2>1. pos = e - 1 /\ pos \in Nat
    BY <1>1, <1>10, SQLToken
  <2> QED BY <1>8, <2>1
<1>12. table.row[q] <= pos' /\ pos' <= S!EndAt(table, q)
  <2>1. e <= S!EndAt(table, q)
    BY <1>1, <1>2, <1>10, SQLTheField
  <2>2. table.row[q] <= pos /\ table.row[q] \in Nat
    BY <1>1, <1>2, SQLInsideRow, SQLTheRow
  <2> QED BY <1>8, <1>11, <2>1, <2>2
<1>13. S!C = IF f = Len(table.rows[q]) THEN ")" ELSE ","
  <2>1. S!C = table.text[pos]
    BY <1>1, SQLToken DEF S!C
  <2> QED BY <1>1, <1>2, <2>1, SQLAfterField
<1>14. CASE f # Len(table.rows[q])
  <2>1. S!C = ","
    BY <1>13, <1>14
  <2>2. mode' = "field" /\ UNCHANGED rows
    BY <2>1 DEF S!FieldDone, S!Move
  <2> QED BY <1>2, <1>5, <1>6, <1>7, <1>8, <1>9, <1>10, <1>11, <1>12, <1>14, <2>2
<1>15. CASE f = Len(table.rows[q]) /\ f = NumCols
  <2>1. S!C = ")" /\ Len(row') = cols
    BY <1>6, <1>9, <1>13, <1>15
  <2>2. mode' = "list" /\ rows' = Append(rows, row')
    BY <2>1 DEF S!FieldDone, S!Move
  <2> QED BY <1>2, <1>5, <1>6, <1>7, <1>8, <1>9, <1>10, <1>11, <1>12, <1>15, <2>2
<1>16. CASE f = Len(table.rows[q]) /\ f # NumCols
  <2>1. S!C = ")" /\ Len(row') # cols
    BY <1>6, <1>9, <1>13, <1>16
  <2>2. mode' = "error" /\ UNCHANGED rows
    BY <2>1 DEF S!FieldDone, S!Move
  <2> QED BY <1>2, <1>5, <1>6, <1>7, <1>8, <1>9, <1>10, <1>11, <1>12, <1>16, <2>2
<1> QED BY <1>14, <1>15, <1>16

\* The row that is returned is the next one of the table.
LEMMA SQLRowDone ==
    ASSUME SQLAssumption, SQLInv, NEW q, q = RowIn, q \in 1 .. Len(table.rows),
           row' \in Seq(S!Fields), Len(row') = Len(table.rows[q]),
           \A i \in 1 .. Len(table.rows[q]) : row'[i] = table.rows[q][i],
           rows' = Append(rows, row')
    PROVE  /\ rows' \in Seq(Seq(S!Fields)) /\ Len(rows') = q /\ RowIn' = q + 1
           /\ \A r \in 1 .. q : rows'[r] = table.rows[r]
<1>1. SQLTypes /\ S!RowsArePrefix /\ rows \in Seq(Seq(S!Fields))
  BY DEF SQLInv, SQLTypes
<1>2. Len(rows) \in Nat /\ q = Len(rows) + 1
  BY <1>1, LenProperties DEF RowIn
<1>3. table.rows[q] \in Seq(S!Fields)
  BY <1>1, SQLTheRow
<1>4. row' = table.rows[q]
  BY <1>3, SeqEqual
<1>5. /\ rows' \in Seq(Seq(S!Fields)) /\ Len(rows') = Len(rows) + 1
      /\ \A r \in 1 .. Len(rows) : rows'[r] = rows[r]
      /\ rows'[Len(rows) + 1] = row'
  <2>1. PICK x \in Seq(S!Fields) : x = row'
    OBVIOUS
  <2>2. rows' = Append(rows, x)
    BY <2>1
  <2> QED BY <1>1, <2>1, <2>2, AppendProperties
<1>6. ASSUME NEW r \in 1 .. q PROVE rows'[r] = table.rows[r]
  <2>1. r \in 1 .. Len(rows) \/ r = q
    BY <1>2
  <2> QED BY <1>1, <1>2, <1>4, <1>5, <2>1 DEF S!RowsArePrefix
<1> QED BY <1>2, <1>5, <1>6 DEF RowIn

\* readTuple: a field ends, and with the last one the row.
LEMMA SQLFieldDone ==
    ASSUME SQLAssumption, SQLInv, mode \in {"raw", "closed"}, ~S!AtEnd,
           NEW q, NEW f, NEW v, q = RowIn, f = FieldIn, v = table.rows[q][f],
           pos = table.field[q][f + 1] - 1, S!FieldDone(v)
    PROVE  SQLInv'
<1>1. /\ SQLTypes /\ S!RowsArePrefix /\ RowIsRead
      /\ buf \in Seq(Tokens) /\ cols \in Nat /\ SQLInside(q)
  BY DEF SQLInv, SQLTypes, SQLFields, RowIsRead
<1>2. /\ q \in 1 .. Len(table.rows) /\ f \in 1 .. Len(table.rows[q])
      /\ row' \in Seq(S!Fields) /\ Len(row') = f
      /\ \A i \in 1 .. f : row'[i] = table.rows[q][i]
  BY SQLNextField
<1>3. pos' = table.field[q][f + 1] /\ pos' = pos + 1
  BY SQLNextField
<1>4. table.row[q] <= pos' /\ pos' <= S!EndAt(table, q)
  BY SQLNextField
<1>5. /\ cols = NumCols /\ S!HeadWhole
      /\ UNCHANGED <<table, file, tail, cols, buf>>
  BY SQLNextField
<1>6. \/ f # Len(table.rows[q]) /\ mode' = "field" /\ UNCHANGED rows
      \/ /\ f = Len(table.rows[q]) /\ f = NumCols /\ mode' = "list"
         /\ rows' = Append(rows, row')
      \/ f = Len(table.rows[q]) /\ f # NumCols /\ mode' = "error" /\ UNCHANGED rows
  BY SQLNextField
<1>7. pos' \in Nat /\ pos' > 0 /\ pos' <= Len(file) + 1
  <2>1. pos \in Nat /\ Len(file) \in Nat /\ pos <= Len(file)
    BY <1>1, SQLToken
  <2> QED BY <1>3, <2>1
<1>8. Len(table.rows[q]) \in Nat /\ Len(table.rows) \in Nat
  BY <1>1, <1>2, SQLTheRow, SQLTable
<1>9. SQLInside(q)'
  BY <1>1, <1>4, <1>5, SQLInsideMoves
<1>10. CASE f # Len(table.rows[q]) /\ mode' = "field" /\ UNCHANGED rows
  <2>1. mode \in {"words", "list", "field", "raw", "quoted", "closed"}
        /\ mode' \in {"words", "list", "field", "raw", "quoted", "closed"}
    BY <1>10
  <2>2. /\ SQLTypes' /\ S!RowsArePrefix' /\ S!EofIsWhole' /\ SQLHead' /\ SQLFind'
        /\ RowIn' = RowIn
    BY <1>1, <1>2, <1>5, <1>7, <1>10, <2>1, SQLWithin
  <2>3. FieldIn' = f + 1
    BY <1>2 DEF FieldIn
  <2>4. f + 1 <= Len(table.rows[q])
    BY <1>2, <1>8, <1>10
  <2>5. q <= Len(table.rows)
    BY <1>2, <1>8
  <2>6. RowIsRead'
    BY <1>2, <1>5, <1>9, <2>2, <2>3, <2>4, <2>5 DEF RowIsRead
  <2>7. pos' = table'.field[RowIn'][FieldIn']
    BY <1>3, <1>5, <2>2, <2>3
  <2>8. SQLFields'
    BY <1>10, <2>6, <2>7 DEF SQLFields
  <2> QED BY <1>10, <2>2, <2>8 DEF SQLInv, SQLWords, SQLList
<1>11. CASE /\ f = Len(table.rows[q]) /\ f = NumCols /\ mode' = "list"
            /\ rows' = Append(rows, row')
  <2>1. /\ rows' \in Seq(Seq(S!Fields)) /\ Len(rows') = q /\ RowIn' = q + 1
        /\ \A r \in 1 .. q : rows'[r] = table.rows[r]
    <3>1. Len(row') = Len(table.rows[q])
      BY <1>2, <1>11
    <3>2. \A i \in 1 .. Len(table.rows[q]) : row'[i] = table.rows[q][i]
      BY <1>2, <1>11
    <3> QED BY <1>2, <1>11, <3>1, <3>2, SQLRowDone
  <2>2. SQLTypes'
    BY <1>1, <1>2, <1>5, <1>7, <1>11, <2>1 DEF SQLTypes
  <2>3. S!RowsArePrefix'
    <3>1. q <= Len(table.rows)
      BY <1>2, <1>8
    <3> QED BY <1>5, <2>1, <3>1 DEF S!RowsArePrefix
  <2>4. SQLHead'
    BY <1>5, <1>11 DEF SQLHead, S!HeadWhole
  <2>5. pos' = S!EndAt(table, q)
    BY <1>3, <1>11 DEF S!EndAt
  <2>6. CASE S!Ends(table, q)
    <3>1. q > 0 /\ pos' = S!EndAt(table', q) /\ S!Ends(table', q)
      BY <1>2, <1>5, <2>5, <2>6
    <3>2. SQLList'
      BY <1>9, <2>1, <3>1 DEF SQLList
    <3> QED BY <1>11, <2>2, <2>3, <2>4, <3>2
        DEF SQLInv, SQLFind, SQLWords, SQLFields, S!EofIsWhole
  <2>7. CASE ~S!Ends(table, q)
    <3>1. PICK n : n = q + 1
      OBVIOUS
    <3>2. table.row[n] = S!EndAt(table, q) /\ n \in 1 .. Len(table.rows) /\ n \notin table.starts
      BY <1>1, <1>2, <2>7, <3>1, SQLAfterRow
    <3>3. PICK a \in Nat, b \in Nat, c \in Nat :
             /\ a = table.row[n] /\ b = table.field[n][1] /\ c = S!EndAt(table, n)
             /\ a + 2 <= b /\ b < c
      BY <1>1, <3>2, SQLRowSpan
    <3>4. pos' = a
      BY <2>5, <3>2, <3>3
    <3>5. pos' < b /\ pos' <= c /\ a <= pos'
      BY <3>3, <3>4
    <3>6. SQLInside(n)'
      <4>1. PICK s \in table.starts :
               /\ q \in S!Statement(s) /\ S!Begun(s)
               /\ \A k \in table.starts : k < s => S!Closed(k)
        BY <1>1 DEF SQLInside
      <4>2. n \in S!Statement(s)
        <5>1. s \in 1 .. Len(table.rows)
          BY <1>1, SQLTable
        <5>2. q \in s .. Len(table.rows) /\ \A k \in (s + 1) .. q : k \notin table.starts
          BY <4>1 DEF S!Statement
        <5>3. n \in s .. Len(table.rows)
          BY <1>2, <3>1, <3>2, <5>1, <5>2
        <5>4. \A k \in (s + 1) .. n : k \in (s + 1) .. q \/ k = n
          BY <1>2, <3>1, <5>1
        <5> QED BY <3>2, <5>2, <5>3, <5>4 DEF S!Statement
      <4>3. table.row[n] <= pos' /\ pos' <= S!EndAt(table, n)
        BY <3>3, <3>5
      <4> QED BY <1>5, <4>1, <4>2, <4>3 DEF SQLInside, S!Statement, S!Begun, S!Closed
    <3>7. n <= Len(table.rows)
      BY <1>8, <3>2
    <3>8. SQLList'
      BY <1>5, <2>1, <3>1, <3>2, <3>3, <3>5, <3>6, <3>7 DEF SQLList
    <3> QED BY <1>11, <2>2, <2>3, <2>4, <3>8
        DEF SQLInv, SQLFind, SQLWords, SQLFields, S!EofIsWhole
  <2> QED BY <2>6, <2>7
<1>12. CASE f = Len(table.rows[q]) /\ f # NumCols /\ mode' = "error" /\ UNCHANGED rows
  <2>1. SQLTypes'
    BY <1>1, <1>2, <1>5, <1>7, <1>12 DEF SQLTypes
  <2>2. S!RowsArePrefix'
    BY <1>1, <1>5, <1>12 DEF S!RowsArePrefix
  <2>3. \E r \in 1 .. Len(table'.rows) : Len(table'.rows[r]) # NumCols
    BY <1>2, <1>5, <1>12
  <2>4. S!EofIsWhole'
    BY <1>12, <2>3 DEF S!EofIsWhole
  <2> QED BY <1>12, <2>1, <2>2, <2>4
      DEF SQLInv, SQLHead, SQLFind, SQLWords, SQLList, SQLFields
<1> QED BY <1>6, <1>10, <1>11, <1>12

\* The end of a field without quotes.
LEMMA SQLRawDone ==
    ASSUME SQLAssumption, SQLInv, S!RawDone
    PROVE  SQLInv'
<1>1. mode = "raw" /\ ~S!AtEnd /\ S!C \in {",", ")"}
  BY DEF S!RawDone
<1>2. PICK v : v = (IF buf = <<"NULL">> THEN S!Null ELSE S!Raw(buf)) /\ S!FieldDone(v)
  BY DEF S!RawDone
<1>3. PICK q, f, b : q = RowIn /\ f = FieldIn /\ b = S!Bare(table.rows[q][f])
  OBVIOUS
<1>4. SQLTypes /\ buf \in Seq(Tokens)
  BY DEF SQLInv, SQLTypes
<1>5. /\ q \in 1 .. Len(table.rows) /\ f \in 1 .. Len(table.rows[q])
      /\ b \in Seq(Tokens) /\ table.rows[q][f].kind # "quoted" /\ TextIsRead(b)
      /\ Len(buf) = Len(b)
  BY <1>1, <1>3, SQLAtRaw
<1>6. buf = b
  BY <1>4, <1>5, SeqEqual DEF TextIsRead
<1>7. v = table.rows[q][f]
  BY <1>2, <1>3, <1>4, <1>5, <1>6, SQLBareField
<1>8. pos = table.field[q][f + 1] - 1
  <2>1. PICK p \in Nat, k \in Nat : p = table.field[q][f] /\ k = Len(buf)
    BY <1>1, <1>3, SQLAtRaw
  <2>2. pos = p + k /\ table.field[q][f + 1] = p + k + 1
    BY <1>1, <1>3, <1>5, <2>1, SQLAtRaw
  <2> QED BY <2>1, <2>2
<1> QED BY <1>1, <1>2, <1>3, <1>7, <1>8, SQLFieldDone

\* What follows a field with quotes.
LEMMA SQLQuotedDone ==
    ASSUME SQLAssumption, SQLInv, S!QuotedDone
    PROVE  SQLInv'
<1>1. mode = "closed" /\ ~S!AtEnd /\ S!FieldDone(S!Quoted(buf))
  BY DEF S!QuotedDone
<1>2. PICK q, f, v : q = RowIn /\ f = FieldIn /\ v = table.rows[q][f]
  OBVIOUS
<1>3. SQLTypes /\ RowIsRead
  BY <1>1 DEF SQLInv, SQLFields
<1>4. /\ table.rows[q][f].kind = "quoted" /\ buf = table.rows[q][f].text
      /\ pos = table.field[q][f + 1] - 1
  BY <1>1, <1>2 DEF SQLInv, SQLFields, FieldRead
<1>5. q \in 1 .. Len(table.rows) /\ f \in 1 .. Len(table.rows[q])
  BY <1>2, <1>3, SQLNowRead
<1>6. v = S!Quoted(buf)
  BY <1>2, <1>3, <1>4, <1>5, SQLQuotedField
<1> QED BY <1>1, <1>2, <1>4, <1>6, SQLFieldDone

\* The bytes end inside a statement: it is begun, and it is not closed.
LEMMA SQLNotClosed ==
    ASSUME SQLAssumption, SQLTypes, NEW q, SQLInside(q), S!AtEnd
    PROVE  \E s \in table.starts : S!Begun(s) /\ ~S!Closed(s)
<1>1. PICK s \in table.starts : q \in S!Statement(s) /\ S!Begun(s) /\ pos <= S!EndAt(table, q)
  BY DEF SQLInside
<1>2. /\ q \in 1 .. Len(table.rows) /\ s \in 1 .. Len(table.rows)
      /\ q \in s .. Len(table.rows) /\ \A k \in (s + 1) .. q : k \notin table.starts
  BY <1>1, SQLInsideRow, SQLTable DEF S!Statement
<1>3. PICK a \in Nat : a = S!EndAt(table, q)
  BY <1>2, SQLTheRow
<1>4. Len(file) < a /\ Len(file) \in Nat /\ Len(table.rows) \in Nat
  <2>1. pos > Len(file) /\ Len(file) \in Nat /\ pos \in Nat /\ Len(table.rows) \in Nat
    BY SQLTable DEF S!AtEnd, SQLTypes
  <2>2. pos <= a
    BY <1>1, <1>3
  <2> QED BY <2>1, <2>2
<1>5. ASSUME NEW e \in S!Statement(s), S!Ends(table, e) PROVE ~(Len(file) >= S!EndAt(table, e))
  <2>1. e \in s .. Len(table.rows)
    BY DEF S!Statement
  <2>2. e \in 1 .. Len(table.rows)
    BY <1>2, <1>4, <2>1
  <2>3. PICK b \in Nat, c \in Nat : b = S!EndAt(table, e) /\ c = table.row[e]
    BY <2>2, SQLTheRow
  <2>4. c < b
    <3>1. PICK x \in Nat : x = table.field[e][1] /\ c + 2 <= x /\ x < b
      BY <2>2, <2>3, SQLRowSpan
    <3> QED BY <3>1
  <2>5. ~(e < q)
    <3> SUFFICES ASSUME e < q PROVE FALSE
      OBVIOUS
    <3>1. e # Len(table.rows)
      BY <1>2, <1>4
    <3>2. e + 1 \in table.starts
      BY <1>5, <3>1 DEF S!Ends
    <3>3. e + 1 \in (s + 1) .. q
      BY <1>2, <1>4, <2>1
    <3> QED BY <1>2, <3>2, <3>3
  <2>6. CASE e = q
    BY <1>3, <1>4, <2>3, <2>6
  <2>7. CASE e # q
    <3>1. q < e
      BY <1>2, <2>2, <2>5, <2>7
    <3>2. PICK n : n = q + 1
      OBVIOUS
    <3>3. n \in 1 .. Len(table.rows) + 1 /\ e \in 1 .. Len(table.rows) + 1 /\ (n = e \/ n < e)
      BY <1>2, <1>4, <2>2, <3>1, <3>2
    <3>4. PICK d \in Nat : d = table.row[n]
      BY <3>3, SQLTable
    <3>5. d <= c
      <4>1. n = e => d = c
        BY <2>3, <3>4
      <4>2. n < e => d < c
        BY <2>3, <3>3, <3>4, SQLRowOrder
      <4> QED BY <3>3, <4>1, <4>2
    <3>6. d = a \/ d = a + 2
      BY <1>2, <1>3, <3>2, <3>4, SQLAfterRow
    <3>7. a < b
      BY <2>4, <3>5, <3>6
    <3> QED BY <1>4, <2>3, <3>7
  <2> QED BY <2>6, <2>7
<1>6. ~S!Closed(s)
  BY <1>5 DEF S!Closed
<1> QED BY <1>1, <1>6

LEMMA SQLInsideEnds ==
    ASSUME SQLAssumption, SQLInv, S!InsideEnds
    PROVE  SQLInv'
<1>1. /\ mode \in {"words", "list", "field", "raw", "quoted", "closed"} /\ S!AtEnd
      /\ mode' = "error" /\ UNCHANGED <<table, file, tail, pos, cols, buf, row, rows>>
  BY DEF S!InsideEnds, S!Answer
<1>2. SQLTypes
  BY DEF SQLInv
<1>3. PICK q : SQLInside(q)
  <2>1. mode = "words" => SQLInside(RowIn)
    BY DEF SQLInv, SQLWords
  <2>2. mode = "list" => SQLInside(RowIn) \/ SQLInside(Len(rows))
    BY DEF SQLInv, SQLList
  <2>3. mode \in {"field", "raw", "quoted", "closed"} => SQLInside(RowIn)
    BY DEF SQLInv, SQLFields, RowIsRead
  <2> QED BY <1>1, <2>1, <2>2, <2>3
<1>4. \E s \in table.starts : S!Begun(s) /\ ~S!Closed(s)
  BY <1>1, <1>2, <1>3, SQLNotClosed
<1>5. S!EofIsWhole'
  BY <1>1, <1>4 DEF S!EofIsWhole, S!Begun, S!Closed, S!Statement
<1>6. SQLTypes'
  BY <1>1, <1>2 DEF SQLTypes
<1>7. S!RowsArePrefix'
  BY <1>1 DEF SQLInv, S!RowsArePrefix
<1> QED BY <1>1, <1>5, <1>6, <1>7
    DEF SQLInv, SQLHead, SQLFind, SQLWords, SQLList, SQLFields

\* The reader starts at the first byte.
LEMMA SQLStarts ==
    ASSUME SQLAssumption, S!Init
    PROVE  SQLInv
<1>1. /\ table \in SQLFiles /\ tail \in {"eof", "broken"} /\ pos = 1 /\ mode = "head"
      /\ cols = 0 /\ buf = <<>> /\ row = <<>> /\ rows = <<>>
  BY DEF S!Init
<1>2. PICK cut \in 0 .. Len(table.text) : file = SubSeq(table.text, 1, cut)
  BY DEF S!Init
<1>3. table.text \in Seq(Tokens) /\ Len(table.text) \in Nat /\ table.rows \in Seq(Seq(S!Fields))
  BY <1>1, LenProperties DEF SQLAssumption, S!IsSQLFile
<1>4. /\ file \in Seq(Tokens) /\ Len(file) = cut
      /\ \A k \in 1 .. Len(file) : file[k] = table.text[k]
  <2>1. CASE cut = 0
    <3>1. file = <<>>
      BY <1>2, <1>3, <2>1, SubSeqProperties
    <3> QED BY <2>1, <3>1
  <2>2. CASE cut > 0
    <3>1. \A k \in 1 .. cut : k \in 1 .. Len(table.text)
      BY <1>3
    <3>2. /\ file \in Seq(Tokens) /\ Len(file) = cut
          /\ \A k \in 1 .. cut : file[k] = table.text[1 + k - 1]
      BY <1>2, <1>3, <2>2, <3>1, SubSeqProperties
    <3>3. \A k \in 1 .. cut : 1 + k - 1 = k
      OBVIOUS
    <3> QED BY <3>2, <3>3
  <2> QED BY <2>1, <2>2
<1>5. Len(rows) = 0 /\ rows \in Seq(Seq(S!Fields)) /\ row \in Seq(S!Fields) /\ buf \in Seq(Tokens)
  BY <1>1
<1>6. SQLTypes
  <2>1. pos \in Nat \ {0} /\ pos <= Len(file) + 1 /\ cols \in Nat /\ Len(file) <= Len(table.text)
    BY <1>1, <1>2, <1>3, <1>4
  <2> QED BY <1>1, <1>4, <1>5, <2>1 DEF SQLTypes
<1>7. S!RowsArePrefix
  <2>1. Len(table.rows) \in Nat /\ \A r \in 1 .. Len(rows) : FALSE
    BY <1>3, <1>5, LenProperties
  <2>2. Len(rows) <= Len(table.rows)
    BY <1>5, <2>1
  <2> QED BY <2>1, <2>2 DEF S!RowsArePrefix
<1> QED BY <1>1, <1>6, <1>7
    DEF SQLInv, SQLHead, SQLFind, SQLWords, SQLList, SQLFields, S!EofIsWhole

\* A step of the reader, and one that leaves it alone.
LEMMA SQLKeeps ==
    ASSUME SQLAssumption, SQLInv, S!Next \/ UNCHANGED S!vars
    PROVE  SQLInv'
<1>1. CASE S!Next
  BY <1>1, SQLHeadLine, SQLHeadCreate, SQLColumnLine, SQLColumnsClose, SQLHeadEnds,
     SQLInsertFound, SQLSkipLine, SQLFindEnds, SQLSkipSpace, SQLReadWord, SQLListComma,
     SQLListOpen, SQLListClose, SQLFieldStart, SQLRawChar, SQLRawDone, SQLQuotedPlain,
     SQLQuotedEscape, SQLCloseQuote, SQLQuotedDone, SQLInsideEnds
  DEF S!Next
<1>2. CASE UNCHANGED S!vars
  <2>1. UNCHANGED <<table, file, tail, pos, mode, cols, buf, row, rows>>
    BY <1>2 DEF S!vars
  <2>2. SQLTypes' /\ S!RowsArePrefix' /\ S!EofIsWhole'
    BY <2>1 DEF SQLInv, SQLTypes, S!RowsArePrefix, S!EofIsWhole, S!HeadWhole, S!Begun,
                S!Closed, S!Statement
  <2>3. UNCHANGED <<RowIn, FieldIn, CharIn, FieldRead>>
    BY <2>1 DEF RowIn, FieldIn, CharIn, FieldRead
  <2>4. \A q : SQLInside(q)' <=> SQLInside(q)
    BY <2>1 DEF SQLInside, S!Begun, S!Closed, S!Statement
  <2>5. SQLHead' /\ SQLFind'
    BY <2>1, <2>3 DEF SQLInv, SQLHead, SQLFind, S!AtEnd, S!HeadWhole, S!Closed, S!Statement
  <2>6. SQLWords' /\ SQLList'
    BY <2>1, <2>3, <2>4 DEF SQLInv, SQLWords, SQLList, S!AtEnd
  <2>7. SQLFields'
    BY <2>1, <2>3, <2>4 DEF SQLInv, SQLFields, S!AtEnd, RowIsRead, TextIsRead
  <2> QED BY <2>2, <2>5, <2>6, <2>7 DEF SQLInv
<1> QED BY <1>1, <1>2

\* The other units leave the reader of SQL dumps alone.
LEMMA SQLUnitKeeps ==
    ASSUME unit = "sql" => SQLInv, [Next]_vars
    PROVE  (unit = "sql" => SQLInv)'
<1>1. unit' = unit
  BY DEF Next, vars, ReadSQL, ReadPages, ReadByID, AskAPI, PickFiles, FetchPages
<1>2. unit = "sql" => S!Next \/ UNCHANGED S!vars
  BY DEF Next, vars, sqlVars, S!vars, ReadSQL, ReadPages, ReadByID, AskAPI, PickFiles, FetchPages
<1> QED BY <1>1, <1>2, SQLKeeps, ReadersAssumption DEF ReadersAssumption

\* The rows that the reader of a SQL dump returns are the first rows of its table, in
\* order and each field as it was written, wherever the file is cut or damaged.
THEOREM TheRowsAreRight == Spec => []RowsArePrefix
<1> DEFINE Inv == unit = "sql" => SQLInv
<1>1. Init => Inv
  BY SQLStarts, ReadersAssumption DEF ReadersAssumption, Init
<1>2. Inv /\ [Next]_vars => Inv'
  BY SQLUnitKeeps
<1>3. Inv => RowsArePrefix
  BY DEF RowsArePrefix, SQLInv
<1> QED BY <1>1, <1>2, <1>3, PTL DEF Spec

\* The reader of a SQL dump gives io.EOF only when the bytes ended without an error and
\* every statement that was begun has been read to its end, and fails only for a
\* reason: the stream is broken or cut, or a row has not the columns of the table.
THEOREM TheEndIsWhole == Spec => []EofIsWhole
<1> DEFINE Inv == unit = "sql" => SQLInv
<1>1. Init => Inv
  BY SQLStarts, ReadersAssumption DEF ReadersAssumption, Init
<1>2. Inv /\ [Next]_vars => Inv'
  BY SQLUnitKeeps
<1>3. Inv => EofIsWhole
  BY DEF EofIsWhole, SQLInv
<1> QED BY <1>1, <1>2, <1>3, PTL DEF Spec

=============================================================================
