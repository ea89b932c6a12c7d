-------------------------- MODULE Download_proofs --------------------------
(***************************************************************************)
(* Proofs about Download, for every size of the file, every set of         *)
(* commands and any number of failures.                                    *)
(***************************************************************************)
EXTENDS Download, SequenceTheorems, TLAPS

\* A start of the published file that has its size is the published file.
LEMMA WholePrefix == ASSUME NEW s \in Seq(Block), IsPrefix(s), Len(s) = Size
                     PROVE  s = Published
<1>1. Size \in Nat
  BY DownloadAssumption
<1>2. Published \in [1 .. Size -> Block]
  BY <1>1 DEF Published, Block
<1>3. Published \in Seq(Block) /\ Len(Published) = Size
  BY <1>1, <1>2
<1>4. \A i \in 1 .. Len(s) : s[i] = Published[i]
  BY DEF IsPrefix, Published
<1> QED
  BY <1>3, <1>4, SeqEqual

\* A start of the published file goes on with its next block.
LEMMA PrefixGrows == ASSUME NEW s \in Seq(Block), NEW n \in 1 .. Size, n = Len(s) + 1
                     PROVE  /\ Append(s, n) \in Seq(Block) /\ Len(Append(s, n)) = Len(s) + 1
                            /\ IsPrefix(s) => IsPrefix(Append(s, n))
<1>1. n \in Block /\ Size \in Nat /\ Len(s) \in Nat
  BY DownloadAssumption DEF Block
<1>2. /\ Append(s, n) \in Seq(Block) /\ Len(Append(s, n)) = Len(s) + 1
      /\ \A i \in 1 .. Len(s) : Append(s, n)[i] = s[i]
      /\ Append(s, n)[Len(s) + 1] = n
  BY <1>1
<1>3. ASSUME IsPrefix(s), NEW i \in 1 .. Len(s) + 1 PROVE Append(s, n)[i] = i
  <2>1. CASE i \in 1 .. Len(s)
    BY <1>2, <1>3, <2>1 DEF IsPrefix
  <2>2. CASE i = Len(s) + 1
    BY <1>2, <2>2
  <2> QED
    BY <1>1, <2>1, <2>2
<1> QED
  BY <1>1, <1>2, <1>3 DEF IsPrefix

\* A .part file just created holds a prefix of the published file: the empty one.
LEMMA EmptyPrefix == <<>> \in Seq(Block) /\ IsPrefix(<<>>) /\ Len(<<>>) = 0
BY DownloadAssumption DEF IsPrefix

----------------------------------------------------------------------------
(* The inductive invariant. The types rest on the file being there while it is *)
(* copied; the results rest on what the run knows of the file at each place.    *)

\* While a command runs it has no result, and a copy appends the block after the
\* last one on disk.
Running == /\ pc # "idle" => result = "none"
           /\ pc = "check" => cmd = "tables"
           /\ pc = "copy" => exists /\ next = Len(disk) + 1

\* fetchTable asks for less than the file only when there is a part of it, and
\* copies into a file that is the start of the published one unless it resumes.
Fetching == cmd = "tables" =>
               /\ pc = "open" => Len(disk) < Size /\ (~resumed => disk = <<>>)
               /\ pc = "copy" /\ ~resumed => IsPrefix(disk)

\* A run that began with the start of the file keeps one.
Resuming == clean /\ IsPrefix(began) /\ Len(began) < Size /\ pc # "idle" =>
               /\ IsPrefix(disk)
               /\ pc \in {"check", "open"} => Len(disk) < Size

DownloadInv == /\ TypeOK /\ Running /\ Fetching /\ Resuming
               /\ VerifiedResult /\ FetchNeverMismatches /\ ResumeSucceeds

\* A run that fails or is killed leaves everything as it is but its result.
LEMMA FailedRun == ASSUME DownloadInv, Fault, pc' = "idle", result' \in {"error", "crash"},
                          UNCHANGED <<disk, exists, sha1, cmd, have, resumed, next, began>>
                   PROVE  DownloadInv'
<1> USE DEF DownloadInv
<1>1. faults' \in 0 .. MaxFaults /\ clean' = FALSE
  BY DownloadAssumption DEF Fault, TypeOK
<1>2. TypeOK'
  BY <1>1 DEF TypeOK
<1>3. VerifiedResult' /\ FetchNeverMismatches' /\ ResumeSucceeds'
  BY DEF VerifiedResult, FetchNeverMismatches, ResumeSucceeds
<1>4. Running' /\ Fetching' /\ Resuming'
  BY <1>1 DEF Running, Fetching, Resuming
<1> QED
  BY <1>2, <1>3, <1>4

\* The invariant is preserved by every step.
THEOREM Inductive == Spec => []DownloadInv
<1> USE DownloadAssumption DEF DownloadInv
<1>1. Init => DownloadInv
  <2> SUFFICES ASSUME Init PROVE DownloadInv
    OBVIOUS
  <2>1. disk \in Seq(Block)
    BY DEF Init
  <2>2. TypeOK
    <3>1. disk \in Seq(0 .. Size) /\ 1 \in 1 .. Size + 1 /\ 0 \in 0 .. MaxFaults
      BY <2>1 DEF Block
    <3> QED
      BY <3>1 DEF Init, TypeOK
  <2> QED
    BY <2>2 DEF Init, Running, Fetching, Resuming, VerifiedResult, FetchNeverMismatches,
                ResumeSucceeds
<1>2. DownloadInv /\ [Next]_vars => DownloadInv'
  <2> SUFFICES ASSUME DownloadInv, [Next]_vars PROVE DownloadInv'
    OBVIOUS
  <2> USE DEF Running, Fetching, Resuming, VerifiedResult, FetchNeverMismatches,
              ResumeSucceeds, Finish, Fault, Remove, histVars
  <2>0. disk \in Seq(Block) /\ Len(disk) \in Nat
    BY DEF TypeOK, Block
  <2>1. ASSUME NEW c \in Commands, Start(c) PROVE DownloadInv'
    BY <2>1 DEF Start, TypeOK
  <2>2. CASE CheckFile
    <3>1. /\ pc = "check" /\ cmd = "tables" /\ result = "none"
          /\ UNCHANGED <<sha1, cmd, have, next, faults, clean, began>>
      BY <2>2 DEF CheckFile
    <3>2. CASE pc' = "idle"
      <4>1. result' = "have" /\ Verifies /\ UNCHANGED <<disk, exists, resumed>>
        BY <2>2, <3>2 DEF CheckFile
      <4>2. TypeOK'
        BY <3>1, <3>2, <4>1 DEF TypeOK
      <4> QED
        BY <3>1, <3>2, <4>1, <4>2 DEF Verifies
    <3>3. CASE pc' = "open" /\ UNCHANGED result /\ disk' = <<>> /\ exists' = FALSE /\ resumed' = FALSE
      <4>1. TypeOK'
        BY <3>1, <3>3, EmptyPrefix DEF TypeOK, Block
      <4> QED
        BY <3>1, <3>3, <4>1, EmptyPrefix
    <3>4. CASE pc' = "open" /\ UNCHANGED <<disk, exists, result>> /\ resumed' = exists
               /\ (~exists \/ Len(disk) < Size)
      <4>1. TypeOK'
        BY <3>1, <3>4 DEF TypeOK
      <4>2. Len(disk) < Size /\ (~exists => disk = <<>>)
        BY <3>4, EmptyPrefix DEF TypeOK
      <4>3. Fetching' /\ Running' /\ VerifiedResult' /\ FetchNeverMismatches' /\ ResumeSucceeds'
        BY <3>1, <3>4, <4>2
      <4>4. Resuming'
        BY <3>1, <3>4, <4>2 DEF IsPrefix
      <4> QED
        BY <4>1, <4>3, <4>4
    <3> QED
      BY <2>0, <2>2, <3>2, <3>3, <3>4 DEF CheckFile, TypeOK
  <2>3. CASE CheckFails
    BY <2>3, FailedRun DEF CheckFails
  <2>4. CASE OpenPartial
    BY <2>0, <2>4 DEF OpenPartial, TypeOK
  <2>5. CASE OpenWhole
    BY <2>5, EmptyPrefix DEF OpenWhole, TypeOK
  <2>6. CASE OpenPastEnd
    BY <2>0, <2>6 DEF OpenPastEnd, TypeOK
  <2>7. CASE OpenFails
    BY <2>7, FailedRun DEF OpenFails
  <2>8. CASE CopyBlock
    <3>1. /\ disk' \in Seq(Block) /\ Len(disk') = Len(disk) + 1
          /\ IsPrefix(disk) => IsPrefix(disk')
      BY <2>0, <2>8, PrefixGrows DEF CopyBlock, TypeOK
    <3>2. /\ next' \in 1 .. Size + 1 /\ next' = Len(disk') + 1 /\ have' \in Nat
      BY <2>0, <2>8, <3>1 DEF CopyBlock, TypeOK
    <3>3. TypeOK'
      BY <2>8, <3>1, <3>2 DEF CopyBlock, TypeOK, Block
    <3> QED
      BY <2>8, <3>1, <3>2, <3>3 DEF CopyBlock
  <2>9. CASE CopyEnds
    <3>1. /\ pc = "copy" /\ Len(disk) = Size
          /\ IsPrefix(disk) => Verifies
      BY <2>0, <2>9, WholePrefix DEF CopyEnds, TypeOK, Verifies
    <3>2. /\ result = "none" /\ exists
          /\ UNCHANGED <<sha1, cmd, have, next, faults, clean, began>>
      BY <2>9 DEF CopyEnds
    <3>3. CASE UNCHANGED <<disk, exists, resumed>> /\ pc' = "idle"
      <4>1. result' \in {"downloaded", "mismatch"}
        BY <2>9, <3>3 DEF CopyEnds
      <4>2. TypeOK'
        BY <3>2, <3>3, <4>1 DEF TypeOK
      <4>3. VerifiedResult'
        BY <2>9, <3>2, <3>3 DEF CopyEnds, Verifies
      <4>4. FetchNeverMismatches'
        BY <2>9, <3>1, <3>2, <3>3 DEF CopyEnds
      <4>5. ResumeSucceeds'
        BY <2>9, <3>1, <3>2, <3>3, <4>1 DEF CopyEnds, IsPrefix
      <4>6. Running' /\ Fetching' /\ Resuming'
        BY <3>3
      <4> QED
        BY <4>2, <4>3, <4>4, <4>5, <4>6
    <3>4. CASE /\ cmd = "tables" /\ ~Verifies /\ resumed
               /\ disk' = <<>> /\ exists' = FALSE
               /\ resumed' = FALSE /\ pc' = "open" /\ UNCHANGED result
      <4>1. TypeOK'
        BY <3>2, <3>4, EmptyPrefix DEF TypeOK, Block
      <4> QED
        BY <3>1, <3>2, <3>4, <4>1, EmptyPrefix
    <3> QED
      BY <2>9, <3>3, <3>4 DEF CopyEnds
  <2>10. CASE CopyFails
    BY <2>10, FailedRun DEF CopyFails
  <2>11. CASE Crash
    BY <2>11, FailedRun DEF Crash
  <2>12. CASE UNCHANGED vars
    BY <2>12 DEF vars, progVars, TypeOK, IsPrefix
  <2> QED
    BY <2>1, <2>2, <2>3, <2>4, <2>5, <2>6, <2>7, <2>8, <2>9, <2>10, <2>11, <2>12
       DEF Next, Step
<1> QED
  BY <1>1, <1>2, PTL DEF Spec

\* Types: every variable keeps its type, and a file with bytes exists.
THEOREM TypeCorrect == Spec => []TypeOK
<1>1. DownloadInv => TypeOK
  BY DEF DownloadInv
<1> QED
  BY <1>1, Inductive, PTL

\* What is reported as there or downloaded is the published file, when it has a
\* sha1: from whatever file was on disk, and whatever failed before.
THEOREM ResultIsVerified == Spec => []VerifiedResult
<1>1. DownloadInv => VerifiedResult
  BY DEF DownloadInv
<1> QED
  BY <1>1, Inductive, PTL

\* fetchTable never reports a wrong sha1 or an unsatisfiable range.
THEOREM FetchRepairs == Spec => []FetchNeverMismatches
<1>1. DownloadInv => FetchNeverMismatches
  BY DEF DownloadInv
<1> QED
  BY <1>1, Inductive, PTL

\* A run of any command that continues a proper part of the file ends well.
THEOREM ResumeWorks == Spec => []ResumeSucceeds
<1>1. DownloadInv => ResumeSucceeds
  BY DEF DownloadInv
<1> QED
  BY <1>1, Inductive, PTL

\* No step of any command makes the start of the published file something else.
THEOREM PrefixIsKept == Spec => StaysPrefix
<1> USE DownloadAssumption
<1>1. DownloadInv /\ [Next]_vars => [IsPrefix(disk) => IsPrefix(disk')]_vars
  <2> SUFFICES ASSUME DownloadInv, [Next]_vars, IsPrefix(disk) PROVE IsPrefix(disk')
    OBVIOUS
  <2> USE DEF DownloadInv
  <2>1. CASE UNCHANGED disk
    BY <2>1 DEF IsPrefix
  <2>2. CASE disk' = <<>>
    BY <2>2, EmptyPrefix
  <2>3. CASE CopyBlock
    <3>1. disk \in Seq(Block) /\ next \in 1 .. Size /\ next = Len(disk) + 1
      BY <2>3 DEF CopyBlock, TypeOK, Running, Block
    <3> QED
      BY <2>3, <3>1, PrefixGrows DEF CopyBlock
  <2> QED
    BY <2>1, <2>2, <2>3 DEF Next, Step, Start, CheckFile, CheckFails, OpenPartial, OpenWhole,
       OpenPastEnd, OpenFails, CopyEnds, CopyFails, Crash, Remove, vars, progVars
<1> QED
  BY <1>1, Inductive, PTL DEF Spec, StaysPrefix
=============================================================================
