------------------------------ MODULE Download ------------------------------
(***************************************************************************)
(* One dump file on disk and the commands that fetch it: `wiki dump        *)
(* tables` (fetchTable), `wiki dump download` and `wiki export`. All three *)
(* go through Client.DownloadFile, which resumes a partial file with a     *)
(* Range request, and differ in what they do before and after it.          *)
(*                                                                         *)
(* The published file is the blocks 1 .. Size. A block on disk is the      *)
(* number of the published block it equals, or 0 if it equals none (what   *)
(* an older file of the same name leaves behind).                          *)
(***************************************************************************)
EXTENDS Integers, Sequences

CONSTANTS Size,       (* blocks of the published file                           *)
          Commands,   (* the commands that are run, one at a time               *)
          MaxFaults   (* bound: failures of the server, the disk or the process *)

ASSUME DownloadAssumption ==
    /\ Size \in Nat \ {0}
    /\ Commands \subseteq {"tables", "download", "export"}
    /\ MaxFaults \in Nat

Block     == 0 .. Size
Published == [i \in 1 .. Size |-> i]

VARIABLES
    disk, exists,  \* the blocks of the file, and whether there is one
    sha1,          \* whether dumpstatus.json has a sha1 for the file
    cmd, pc,       \* the command that runs, and where it is
    have,          \* bytes on disk, as DownloadFile counts them
    resumed,       \* fetchTable: the download continues a partial file
    next,          \* the next block of the response body
    result,        \* what the last run ended with
    faults,        \* failures so far
    clean, began   \* history: this run met no failure; the disk when it began

progVars == <<cmd, pc, have, resumed, next, result>>
histVars == <<clean, began>>
vars     == <<disk, exists, sha1, progVars, faults, histVars>>

\* VerifySha1: an empty digest verifies every file.
Verifies == ~sha1 \/ disk = Published

IsPrefix(s) == Len(s) <= Size /\ \A i \in 1 .. Len(s) : s[i] = i

Init == /\ exists \in BOOLEAN
        /\ disk \in UNION {[1 .. n -> Block] : n \in 0 .. Size + 1}
        /\ disk # <<>> => exists
        /\ sha1 \in BOOLEAN
        /\ cmd \in Commands /\ pc = "idle"
        /\ have = 0 /\ resumed = FALSE /\ next = 1
        /\ result = "none"
        /\ faults = 0 /\ clean = TRUE /\ began = disk

Finish(res) == pc' = "idle" /\ result' = res

Fault == /\ faults < MaxFaults
         /\ faults' = faults + 1
         /\ clean' = FALSE

Remove == disk' = <<>> /\ exists' = FALSE

----------------------------------------------------------------------------
(* Mutated forms, each a plausible bug; no specification uses them.          *)

\* A file that is too long is left where it is.
CheckFile_longKept ==
    /\ pc = "check"
    /\ \/ /\ exists /\ Len(disk) = Size /\ Verifies
          /\ Finish("have")
          /\ UNCHANGED <<disk, exists, resumed>>
       \/ /\ exists /\ Len(disk) = Size /\ ~Verifies
          /\ Remove
          /\ resumed' = FALSE /\ pc' = "open"
          /\ UNCHANGED result
       \/ /\ ~exists \/ Len(disk) # Size
          /\ resumed' = exists /\ pc' = "open"
          /\ UNCHANGED <<disk, exists, result>>
    /\ UNCHANGED <<sha1, cmd, have, next, faults, histVars>>

\* The range starts at the last byte on disk instead of after it.
OpenPartial_lastByte ==
    /\ pc = "open" /\ Len(disk) > 0 /\ Len(disk) < Size
    /\ have' = Len(disk)
    /\ next' = have'
    /\ pc' = "copy"
    /\ UNCHANGED <<disk, exists, sha1, cmd, resumed, result, faults, histVars>>

\* The status is not looked at: the file is always opened with O_APPEND.
OpenWhole_append ==
    /\ pc = "open"
    /\ exists' = TRUE
    /\ have' = 0 /\ next' = 1
    /\ pc' = "copy"
    /\ UNCHANGED <<disk, sha1, cmd, resumed, result, faults, histVars>>

\* The caller does not verify what DownloadFile gave.
CopyEnds_unverified ==
    /\ pc = "copy" /\ next > Size
    /\ Finish("downloaded")
    /\ UNCHANGED <<disk, exists, resumed, sha1, cmd, have, next, faults, histVars>>

\* fetchTable gives up where a resumed file does not verify.
CopyEnds_noRetry ==
    /\ pc = "copy" /\ next > Size
    /\ Finish(IF Verifies \/ cmd = "export" THEN "downloaded" ELSE "mismatch")
    /\ UNCHANGED <<disk, exists, resumed, sha1, cmd, have, next, faults, histVars>>

----------------------------------------------------------------------------
(* A run of a command. *)

Start(c) == /\ pc = "idle"
            /\ cmd' = c
            /\ pc' = IF c = "tables" THEN "check" ELSE "open"
            /\ resumed' = FALSE
            /\ result' = "none"
            /\ clean' = TRUE /\ began' = disk
            /\ UNCHANGED <<disk, exists, sha1, have, next, faults>>

\* fetchTable up to its loop: the size of the file decides.
CheckFile ==
    /\ pc = "check"
    /\ \/ /\ exists /\ Len(disk) = Size /\ Verifies
          /\ Finish("have")
          /\ UNCHANGED <<disk, exists, resumed>>
       \/ /\ exists /\ (Len(disk) > Size \/ (Len(disk) = Size /\ ~Verifies))
          /\ Remove
          /\ resumed' = FALSE /\ pc' = "open"
          /\ UNCHANGED result
       \/ /\ ~exists \/ Len(disk) < Size
          /\ resumed' = exists /\ pc' = "open"
          /\ UNCHANGED <<disk, exists, result>>
    /\ UNCHANGED <<sha1, cmd, have, next, faults, histVars>>

\* The file cannot be read or removed.
CheckFails == /\ pc = "check"
              /\ Fault
              /\ Finish("error")
              /\ UNCHANGED <<disk, exists, sha1, cmd, have, resumed, next, began>>

\* DownloadFile up to its loop, with HTTPClient.Open. A range that starts at or
\* after the end is not satisfiable (416); a server may also ignore the range.
OpenPartial == /\ pc = "open" /\ Len(disk) > 0 /\ Len(disk) < Size
               /\ have' = Len(disk)
               /\ next' = have' + 1     \* 206: O_APPEND
               /\ pc' = "copy"
               /\ UNCHANGED <<disk, exists, sha1, cmd, resumed, result, faults, histVars>>

OpenWhole == /\ pc = "open"
             /\ disk' = <<>> /\ exists' = TRUE   \* 200: O_TRUNC
             /\ have' = 0 /\ next' = 1
             /\ pc' = "copy"
             /\ UNCHANGED <<sha1, cmd, resumed, result, faults, histVars>>

OpenPastEnd == /\ pc = "open" /\ Len(disk) >= Size
               /\ have' = Len(disk)
               /\ Finish("http416")
               /\ UNCHANGED <<disk, exists, sha1, cmd, resumed, next, faults, histVars>>

\* The request fails, or the file cannot be opened.
OpenFails == /\ pc = "open"
             /\ Fault
             /\ Finish("error")
             /\ UNCHANGED <<disk, exists, sha1, cmd, have, resumed, next, began>>

\* A read of the body and the write of what it gave.
CopyBlock == /\ pc = "copy" /\ next <= Size
             /\ disk' = Append(disk, next)
             /\ have' = have + 1
             /\ next' = next + 1
             /\ UNCHANGED <<exists, sha1, cmd, pc, resumed, result, faults, histVars>>

\* io.EOF, then the caller: fetchTable and `dump download` verify the file.
CopyEnds ==
    /\ pc = "copy" /\ next > Size
    /\ \/ /\ cmd = "tables" /\ Verifies
          /\ Finish("downloaded")
          /\ UNCHANGED <<disk, exists, resumed>>
       \/ /\ cmd = "tables" /\ ~Verifies /\ ~resumed
          /\ Finish("mismatch")
          /\ UNCHANGED <<disk, exists, resumed>>
       \/ /\ cmd = "tables" /\ ~Verifies /\ resumed
          /\ Remove
          /\ resumed' = FALSE /\ pc' = "open"
          /\ UNCHANGED result
       \/ /\ cmd = "download"
          /\ Finish(IF Verifies THEN "downloaded" ELSE "mismatch")
          /\ UNCHANGED <<disk, exists, resumed>>
       \/ /\ cmd = "export"
          /\ Finish("downloaded")
          /\ UNCHANGED <<disk, exists, resumed>>
    /\ UNCHANGED <<sha1, cmd, have, next, faults, histVars>>

\* The connection drops, the disk is full, the context ends, or the file cannot be
\* read or removed afterwards.
CopyFails == /\ pc = "copy"
             /\ Fault
             /\ Finish("error")
             /\ UNCHANGED <<disk, exists, sha1, cmd, have, resumed, next, began>>

\* The process is killed; what was written stays.
Crash == /\ pc # "idle"
         /\ Fault
         /\ Finish("crash")
         /\ UNCHANGED <<disk, exists, sha1, cmd, have, resumed, next, began>>

Step == CheckFile \/ OpenPartial \/ OpenWhole \/ OpenPastEnd \/ CopyBlock \/ CopyEnds
Next == \/ \E c \in Commands : Start(c)
        \/ Step \/ CheckFails \/ OpenFails \/ CopyFails \/ Crash

\* A command that runs goes on; the user runs a command again when it ended.
Fairness == WF_vars(Step) /\ \A c \in Commands : WF_vars(Start(c))

Spec == Init /\ [][Next]_vars /\ Fairness

----------------------------------------------------------------------------
(* Properties. *)

TypeOK == /\ disk \in Seq(0 .. Size) /\ exists \in BOOLEAN /\ sha1 \in BOOLEAN
          /\ (disk # <<>> => exists)
          /\ cmd \in {"tables", "download", "export"}
          /\ pc \in {"idle", "check", "open", "copy"}
          /\ have \in Nat /\ next \in 1 .. Size + 1
          /\ resumed \in BOOLEAN /\ clean \in BOOLEAN
          /\ result \in {"none", "have", "downloaded", "mismatch", "http416", "error", "crash"}
          /\ faults \in 0 .. MaxFaults

\* Every row with the state "have" or "downloaded", and every path `dump
\* download` prints, is the published file, when it has a sha1: from whatever
\* file was there, and whatever failed before.
VerifiedResult == cmd \in {"tables", "download"} /\ result \in {"have", "downloaded"} /\ sha1
                     => disk = Published

\* A file that is the start of the published file stays one, through resumed,
\* restarted, failed and killed runs of all three commands.
StaysPrefix == [][IsPrefix(disk) => IsPrefix(disk')]_vars

\* "fetchTable makes sure that the file f is in dir with the correct sha1"
\* (dumptables.go:85): from every file on disk it repairs what is wrong with it, and
\* never ends with a wrong sha1 or a range that the server refuses.
FetchNeverMismatches == cmd = "tables" => result \notin {"mismatch", "http416"}

\* A run that continues a proper part of the file and meets no failure ends well.
ResumeSucceeds == /\ clean /\ IsPrefix(began) /\ Len(began) < Size
                  => result \notin {"mismatch", "http416"}

\* Run again and again, with no other command in between, fetchTable ends with the
\* published file in place, from every file that was there and every file the other
\* commands and their failures left.
FetchConverges == <>[](cmd = "tables") => <>[](sha1 => disk = Published)

\* "Re-run the same command and it continues from the bytes already on disk, then
\* verifies the sha1 when one is published" (troubleshooting.md:68, of `dump
\* download`): a run that finds the start of the file and meets no failure ends well.
RerunContinues == cmd = "download" /\ clean /\ IsPrefix(began)
                     => result \notin {"mismatch", "http416"}
=============================================================================
