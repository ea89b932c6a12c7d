------------------------------- MODULE Cache -------------------------------
(***************************************************************************)
(* HTTPClient.GetJSON and the on-disk Cache (src/wiki/client.go, cache.go) *)
(* for one URL: runs of the program look the entry up, fetch the body when *)
(* it is absent or older than the ttl, and put it in the cache through a   *)
(* temporary file of one name that is renamed over the entry; each file    *)
(* call is a step, and a run can be killed between two of them.            *)
(*                                                                         *)
(* A file is its content. Renaming moves the file itself, so a process     *)
(* that has the temporary file open then writes to the entry.              *)
(***************************************************************************)
EXTENDS Integers

CONSTANTS Process,    (* the runs of the program that share the cache directory *)
          Body,       (* the bodies the server answers with                     *)
          Long,       (* those that are longer than the others                  *)
          MaxBad,     (* bound: answers other than "page", and failed requests  *)
          MaxCrashes  (* bound: runs that are killed or cannot write             *)

ASSUME CacheAssumption == /\ "page" \in Body
                          /\ Body \subseteq {"page", "apiError", "garbled"}
                          /\ Long \subseteq Body
                          /\ MaxBad \in Nat /\ MaxCrashes \in Nat

Content == Body \cup {"empty", "torn"}

VARIABLES
    entry, tmp,  \* the file <sha1>.cache and the file <sha1>.cache.tmp, or "absent"
    fresh,       \* whether the entry is younger than the ttl
    pc, data,    \* where each run is, and the body it holds
    fd,          \* the file a run writes: "none", "tmp", "entry", or "gone" (unlinked)
    result,      \* what GetJSON gave: "none", "ok", "apiError", "badJSON", "httpError"
    bad, crashes, \* the bad answers, and the crashes and failed writes
    alone        \* history: no two runs were in Put at the same time

runVars  == <<pc, data, result>>
progVars == <<entry, tmp, fresh, runVars, fd, bad, crashes>>
vars     == <<progVars, alone>>

Init == /\ entry = "absent" /\ tmp = "absent" /\ fresh = FALSE
        /\ pc = [p \in Process |-> "idle"]
        /\ data = [p \in Process |-> "empty"]
        /\ fd = [p \in Process |-> "none"]
        /\ result = [p \in Process |-> "none"]
        /\ bad = 0 /\ crashes = 0 /\ alone = TRUE

Goto(p, l) == pc' = [pc EXCEPT ![p] = l]

\* The content of a file with the content old after b is written at its start.
Overwritten(old, b) == IF b \in Long \/ old = "empty" \/ (old \in Body /\ old \notin Long)
                       THEN b ELSE "torn"

----------------------------------------------------------------------------
(* Mutated forms, each a plausible bug; no specification uses them.          *)

\* Put writes the entry itself.
OpenTmp_inPlace(p) == /\ pc[p] = "put"
                      /\ entry' = "empty" /\ fresh' = TRUE
                      /\ fd' = [fd EXCEPT ![p] = "entry"]
                      /\ Goto(p, "write")
                      /\ UNCHANGED <<tmp, data, result, bad, crashes>>

\* The age of the entry is not looked at.
Stat_noTTL(p) == /\ pc[p] = "stat"
                 /\ Goto(p, IF entry # "absent" THEN "read" ELSE "fetch")
                 /\ UNCHANGED <<entry, tmp, fresh, data, fd, result, bad, crashes>>

----------------------------------------------------------------------------
(* GetJSON with a ttl, in a run p. *)

Run(p) == /\ pc[p] = "idle"
          /\ Goto(p, "stat")
          /\ result' = [result EXCEPT ![p] = "none"]
          /\ UNCHANGED <<entry, tmp, fresh, data, fd, bad, crashes>>

\* Cache.Get: os.Stat and the age of the file.
Stat(p) == /\ pc[p] = "stat"
           /\ Goto(p, IF entry # "absent" /\ fresh THEN "read" ELSE "fetch")
           /\ UNCHANGED <<entry, tmp, fresh, data, fd, result, bad, crashes>>

\* Cache.Get: os.ReadFile; the entry may be gone again.
Read(p) == /\ pc[p] = "read"
           /\ IF entry = "absent"
              THEN Goto(p, "fetch") /\ UNCHANGED data
              ELSE Goto(p, "decode") /\ data' = [data EXCEPT ![p] = entry]
           /\ UNCHANGED <<entry, tmp, fresh, fd, result, bad, crashes>>

\* GetBytes gives the body of an answer 200. It goes to the cache unread.
Fetch(p) == /\ pc[p] = "fetch"
            /\ \E b \in Body : /\ b # "page" => bad < MaxBad
                               /\ bad' = IF b = "page" THEN bad ELSE bad + 1
                               /\ data' = [data EXCEPT ![p] = b]
            /\ Goto(p, "put")
            /\ UNCHANGED <<entry, tmp, fresh, fd, result, crashes>>

FetchFails(p) == /\ pc[p] = "fetch"
                 /\ bad < MaxBad /\ bad' = bad + 1
                 /\ Goto(p, "idle")
                 /\ result' = [result EXCEPT ![p] = "httpError"]
                 /\ UNCHANGED <<entry, tmp, fresh, data, fd, crashes>>

\* Cache.Put: os.WriteFile opens the temporary file with O_TRUNC.
OpenTmp(p) == /\ pc[p] = "put"
              /\ tmp' = "empty"
              /\ fd' = [fd EXCEPT ![p] = "tmp"]
              /\ Goto(p, "write")
              /\ UNCHANGED <<entry, fresh, data, result, bad, crashes>>

\* Cache.Put: os.WriteFile writes the body and closes the file.
Write(p) == /\ pc[p] = "write"
            /\ tmp' = IF fd[p] = "tmp" THEN Overwritten(tmp, data[p]) ELSE tmp
            /\ entry' = IF fd[p] = "entry" THEN Overwritten(entry, data[p]) ELSE entry
            /\ fresh' = (fresh \/ fd[p] = "entry")
            /\ fd' = [fd EXCEPT ![p] = "none"]
            /\ Goto(p, "rename")
            /\ UNCHANGED <<data, result, bad, crashes>>

\* Where the open files are after the entry was replaced or removed.
Unlinked(f)        == IF f = "entry" THEN "gone" ELSE f
AfterRename(f)     == IF f = "tmp" THEN "entry" ELSE Unlinked(f)

\* Cache.Put: os.Rename. Its error, when there is no temporary file, is ignored.
Rename(p) == /\ pc[p] = "rename"
             /\ IF tmp = "absent"
                THEN UNCHANGED <<entry, tmp, fresh, fd>>
                ELSE /\ entry' = tmp /\ tmp' = "absent" /\ fresh' = TRUE
                     /\ fd' = [q \in Process |-> AfterRename(fd[q])]
             /\ Goto(p, "decode")
             /\ UNCHANGED <<data, result, bad, crashes>>

\* Cache.Put gives up: no directory, no file, or a disk that is full.
PutFails(p) == /\ pc[p] \in {"put", "write"}
               /\ crashes < MaxCrashes /\ crashes' = crashes + 1
               /\ tmp' = IF fd[p] = "tmp" THEN "torn" ELSE tmp
               /\ entry' = IF fd[p] = "entry" THEN "torn" ELSE entry
               /\ fd' = [fd EXCEPT ![p] = "none"]
               /\ Goto(p, "decode")
               /\ UNCHANGED <<fresh, data, result, bad>>

\* json.Unmarshal, and the error field of the answer, which the callers look at.
Decode(p) == /\ pc[p] = "decode"
             /\ result' = [result EXCEPT ![p] = CASE data[p] = "page"     -> "ok"
                                                  [] data[p] = "apiError" -> "apiError"
                                                  [] OTHER                -> "badJSON"]
             /\ Goto(p, "idle")
             /\ UNCHANGED <<entry, tmp, fresh, data, fd, bad, crashes>>

----------------------------------------------------------------------------
(* What happens around the runs. *)

\* `wiki cache clear`: the files .cache are removed, the files .tmp are not.
Clear == /\ entry # "absent"
         /\ entry' = "absent"
         /\ fd' = [q \in Process |-> Unlinked(fd[q])]
         /\ UNCHANGED <<tmp, fresh, runVars, bad, crashes>>

\* The entry reaches its ttl.
Expire == /\ fresh
          /\ fresh' = FALSE
          /\ UNCHANGED <<entry, tmp, runVars, fd, bad, crashes>>

\* A run is killed; a body it was writing may be there in part.
Crash(p) == /\ pc[p] # "idle" /\ crashes < MaxCrashes
            /\ crashes' = crashes + 1
            /\ \/ UNCHANGED <<entry, tmp>>
               \/ fd[p] = "tmp" /\ tmp' = "torn" /\ UNCHANGED entry
               \/ fd[p] = "entry" /\ entry' = "torn" /\ UNCHANGED tmp
            /\ fd' = [fd EXCEPT ![p] = "none"]
            /\ Goto(p, "idle")
            /\ result' = [result EXCEPT ![p] = "none"]
            /\ UNCHANGED <<fresh, data, bad>>

Step(p) == \/ Stat(p) \/ Read(p) \/ Fetch(p) \/ FetchFails(p) \/ OpenTmp(p) \/ Write(p)
           \/ Rename(p) \/ PutFails(p) \/ Decode(p)

InPut(p) == pc[p] \in {"write", "rename"}

Next == /\ \/ \E p \in Process : Run(p) \/ Step(p) \/ Crash(p)
           \/ Clear \/ Expire
        /\ alone' = (alone /\ \A p, q \in Process : InPut(p)' /\ InPut(q)' => p = q)

\* The program is run again and again, a run goes on, and the ttl passes.
Fairness == /\ \A p \in Process : WF_progVars(Run(p)) /\ WF_progVars(Step(p))
            /\ WF_progVars(Expire)

Spec == Init /\ [][Next]_vars /\ Fairness

----------------------------------------------------------------------------
(* Properties. *)

TypeOK == /\ entry \in Content \cup {"absent"} /\ tmp \in Content \cup {"absent"}
          /\ fresh \in BOOLEAN
          /\ pc \in [Process -> {"idle", "stat", "read", "fetch", "put", "write", "rename",
                                 "decode"}]
          /\ data \in [Process -> Content]
          /\ fd \in [Process -> {"none", "tmp", "entry", "gone"}]
          /\ result \in [Process -> {"none", "ok", "apiError", "badJSON", "httpError"}]
          /\ bad \in 0 .. MaxBad /\ crashes \in 0 .. MaxCrashes /\ alone \in BOOLEAN

\* "It is safe for the simple single-process use the CLI makes of it" (cache.go:12):
\* as long as no two runs were in Put at the same time, the entry is a whole body of
\* the server, through crashes, full disks and `wiki cache clear`.
EntryWhole == alone => entry \in Body \cup {"absent"}

\* An error or a garbled body that went to the cache is not served for ever: the
\* program comes back to good results once the server does.
Recovers == \A p \in Process : []<>(result[p] = "ok")
============================================================================
