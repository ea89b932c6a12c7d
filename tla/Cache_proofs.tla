---------------------------- MODULE Cache_proofs ----------------------------
(***************************************************************************)
(* Proofs about Cache, for every set of processes, every set of bodies of  *)
(* any length, and any number of bad answers, kills and full disks.        *)
(***************************************************************************)
EXTENDS Cache, TLAPS

\* What os.WriteFile leaves in a temporary file is the part of a body.
LEMMA WrittenIsContent == ASSUME NEW old \in Content \cup {"absent"}, NEW b \in Content
                          PROVE  Overwritten(old, b) \in Content
BY DEF Overwritten, Content

----------------------------------------------------------------------------
(* The inductive invariant. While no two runs are in Put at once, one run at most *)
(* has the temporary file; it finds there what it wrote itself, and no run holds  *)
(* the entry open.                                                               *)

OnePut == \A p, q \in Process : InPut(p) /\ InPut(q) => p = q

OwnTmp(p) ==
    /\ fd[p] = IF pc[p] = "write" THEN "tmp" ELSE "none"
    /\ pc[p] = "write"  => tmp = "empty"
    /\ pc[p] = "rename" => tmp \in Body

\* The body that a run puts in the cache is one of the server.
Fetched(p) == pc[p] \in {"put", "write"} => data[p] \in Body

CacheInv == /\ TypeOK
            /\ \A p \in Process : Fetched(p)
            /\ alone => /\ entry \in Body \cup {"absent"}
                        /\ OnePut
                        /\ \A p \in Process : OwnTmp(p)

\* The types are kept by every step, whatever alone says.
LEMMA TypesKept == ASSUME TypeOK, [Next]_vars, \A p \in Process : Fetched(p)
                   PROVE  TypeOK' /\ \A p \in Process : Fetched(p)'
<1> DEFINE Types == TypeOK' /\ \A p \in Process : Fetched(p)'
<1> USE CacheAssumption DEF TypeOK, Fetched, Goto, Content
<1>0. ASSUME Next PROVE alone' \in BOOLEAN
  BY <1>0 DEF Next
<1> HIDE DEF Content
<1>1. ASSUME Next, NEW p \in Process, Run(p) PROVE Types
  BY <1>0, <1>1 DEF Run
<1>2. ASSUME Next, NEW p \in Process, Stat(p) PROVE Types
  BY <1>0, <1>2 DEF Stat
<1>3. ASSUME Next, NEW p \in Process, Read(p) PROVE Types
  BY <1>0, <1>3 DEF Read
<1>4. ASSUME Next, NEW p \in Process, Fetch(p) PROVE Types
  BY <1>0, <1>4 DEF Fetch, Content
<1>5. ASSUME Next, NEW p \in Process, FetchFails(p) PROVE Types
  BY <1>0, <1>5 DEF FetchFails
<1>6. ASSUME Next, NEW p \in Process, OpenTmp(p) PROVE Types
  BY <1>0, <1>6 DEF OpenTmp, Content
<1>7. ASSUME Next, NEW p \in Process, Write(p) PROVE Types
  <2>1. /\ Overwritten(tmp, data[p]) \in Content /\ Overwritten(entry, data[p]) \in Content
    BY WrittenIsContent
  <2> QED
    BY <1>0, <1>7, <2>1 DEF Write
<1>8. ASSUME Next, NEW p \in Process, Rename(p) PROVE Types
  BY <1>0, <1>8 DEF Rename, AfterRename, Unlinked
<1>9. ASSUME Next, NEW p \in Process, PutFails(p) PROVE Types
  BY <1>0, <1>9 DEF PutFails, Content
<1>10. ASSUME Next, NEW p \in Process, Decode(p) PROVE Types
  BY <1>0, <1>10 DEF Decode
<1>11. ASSUME Next, NEW p \in Process, Crash(p) PROVE Types
  BY <1>0, <1>11 DEF Crash, Content
<1>12. ASSUME Next, Clear PROVE Types
  BY <1>0, <1>12 DEF Clear, Unlinked, runVars
<1>13. ASSUME Next, Expire PROVE Types
  BY <1>0, <1>13 DEF Expire, runVars
<1>14. ASSUME UNCHANGED vars PROVE Types
  BY <1>14 DEF vars, progVars, runVars
<1> QED
  BY <1>1, <1>2, <1>3, <1>4, <1>5, <1>6, <1>7, <1>8, <1>9, <1>10, <1>11, <1>12, <1>13, <1>14
     DEF Next, Step

\* The invariant is preserved by every step.
THEOREM Inductive == Spec => []CacheInv
<1> USE CacheAssumption
<1>1. Init => CacheInv
  <2> SUFFICES ASSUME Init PROVE CacheInv
    OBVIOUS
  <2>1. /\ \A p \in Process : pc[p] = "idle" /\ fd[p] = "none"
        /\ entry = "absent" /\ alone = TRUE
    BY DEF Init
  <2>2. TypeOK
    <3>1. 0 \in 0 .. MaxBad /\ 0 \in 0 .. MaxCrashes
      OBVIOUS
    <3>2. data \in [Process -> Content]
      BY DEF Init, Content
    <3> QED
      BY <2>1, <3>1, <3>2 DEF Init, TypeOK
  <2>3. \A p \in Process : Fetched(p) /\ OwnTmp(p) /\ ~InPut(p)
    BY <2>1 DEF Fetched, OwnTmp, InPut
  <2> QED
    BY <2>1, <2>2, <2>3 DEF CacheInv, OnePut
<1>2. CacheInv /\ [Next]_vars => CacheInv'
  <2> SUFFICES ASSUME CacheInv, [Next]_vars PROVE CacheInv'
    OBVIOUS
  <2> USE DEF CacheInv
  <2>0. TypeOK' /\ \A p \in Process : Fetched(p)'
    BY TypesKept
  <2> SUFFICES ASSUME alone' PROVE /\ entry' \in Body \cup {"absent"}
                                   /\ OnePut'
                                   /\ \A p \in Process : OwnTmp(p)'
    BY <2>0
  <2>1. CASE UNCHANGED vars
    BY <2>1 DEF vars, progVars, runVars, OnePut, InPut, OwnTmp
  <2>2. CASE Next
    <3>1. alone /\ OnePut'
      BY <2>2 DEF Next, OnePut, InPut
    <3> DEFINE Whole == entry' \in Body \cup {"absent"} /\ \A q \in Process : OwnTmp(q)'
    <3> USE DEF TypeOK, OwnTmp, Goto
    <3>2. ASSUME NEW p \in Process, Run(p) \/ Stat(p) \/ Read(p) \/ Fetch(p) \/ FetchFails(p) \/ Decode(p)
          PROVE  Whole
      <4>1. UNCHANGED <<entry, tmp, fd>> /\ pc[p] \notin {"write", "rename"}
        BY <3>2 DEF Run, Stat, Read, Fetch, FetchFails, Decode
      <4>2. pc'[p] \notin {"write", "rename"} /\ \A q \in Process \ {p} : pc'[q] = pc[q]
        BY <3>2 DEF Run, Stat, Read, Fetch, FetchFails, Decode
      <4> QED
        BY <3>1, <4>1, <4>2
    <3>3. ASSUME NEW p \in Process, OpenTmp(p) PROVE Whole
      <4>1. \A q \in Process \ {p} : pc'[q] = pc[q] /\ pc[q] \notin {"write", "rename"}
        BY <3>1, <3>3 DEF OpenTmp, OnePut, InPut
      <4> QED
        BY <3>1, <3>3, <4>1 DEF OpenTmp
    <3>4. ASSUME NEW p \in Process, Write(p) PROVE Whole
      <4>1. \A q \in Process \ {p} : pc'[q] = pc[q] /\ pc[q] \notin {"write", "rename"}
        BY <3>1, <3>4 DEF Write, OnePut, InPut
      <4>2. fd[p] = "tmp" /\ tmp = "empty" /\ data[p] \in Body
        BY <3>1, <3>4 DEF Write, Fetched
      <4>3. tmp' \in Body /\ UNCHANGED entry
        BY <3>4, <4>2 DEF Write, Overwritten
      <4> QED
        BY <3>1, <3>4, <4>1, <4>3 DEF Write
    <3>5. ASSUME NEW p \in Process, Rename(p) PROVE Whole
      <4>1. \A q \in Process \ {p} : pc'[q] = pc[q] /\ pc[q] \notin {"write", "rename"}
        BY <3>1, <3>5 DEF Rename, OnePut, InPut
      <4>2. \A q \in Process : fd[q] = "none"
        BY <3>1, <3>5, <4>1 DEF Rename
      <4>3. tmp \in Body /\ tmp # "absent"
        BY <3>1, <3>5 DEF Rename
      <4> QED
        BY <3>1, <3>5, <4>1, <4>2, <4>3 DEF Rename, AfterRename, Unlinked
    <3>6. ASSUME NEW p \in Process, PutFails(p) \/ Crash(p) PROVE Whole
      <4>1. pc'[p] \in {"decode", "idle"} /\ fd' = [fd EXCEPT ![p] = "none"]
            /\ \A q \in Process \ {p} : pc'[q] = pc[q]
        BY <3>6 DEF PutFails, Crash
      <4>2. fd[p] \in {"none", "tmp"}
        BY <3>1
      <4>3. UNCHANGED entry /\ (fd[p] = "none" => UNCHANGED tmp)
        BY <3>6, <4>2 DEF PutFails, Crash
      <4>4. fd[p] = "tmp" => \A q \in Process \ {p} : pc[q] \notin {"write", "rename"}
        BY <3>1 DEF OnePut, InPut
      <4> QED
        BY <3>1, <4>1, <4>2, <4>3, <4>4
    <3>7. CASE Clear
      <4>1. \A q \in Process : fd'[q] = fd[q]
        BY <3>1, <3>7 DEF Clear, Unlinked
      <4> QED
        BY <3>1, <3>7, <4>1 DEF Clear, runVars
    <3>8. CASE Expire
      BY <3>1, <3>8 DEF Expire, runVars
    <3>9. Whole
      BY <2>2, <3>2, <3>3, <3>4, <3>5, <3>6, <3>7, <3>8 DEF Next, Step
    <3> QED
      BY <3>1, <3>9
  <2> QED
    BY <2>1, <2>2
<1> QED
  BY <1>1, <1>2, PTL DEF Spec

\* Types: every variable keeps its type.
THEOREM TypeCorrect == Spec => []TypeOK
<1>1. CacheInv => TypeOK
  BY DEF CacheInv
<1> QED
  BY <1>1, Inductive, PTL

\* As long as no two runs were in Put at once, the entry is a whole body of the
\* server or absent.
THEOREM EntryIsWhole == Spec => []EntryWhole
<1>1. CacheInv => EntryWhole
  BY DEF CacheInv, EntryWhole
<1> QED
  BY <1>1, Inductive, PTL
=============================================================================
