----------------------------- MODULE DumpPages -----------------------------
(***************************************************************************)
(* The commands over a pages-articles dump that read it from its start:    *)
(* `dump pages`, `dump grep` and `dump export` (src/cli/dump.go,           *)
(* src/cli/export.go) call StreamPages (src/wiki/dump.go) with a function  *)
(* fn that filters, writes and counts the pages.                           *)
(*                                                                         *)
(* A dump is a sequence of elements. What a page is to the filters (its    *)
(* namespace, whether it is a redirect, which kind of text it has, where   *)
(* the pattern of grep matches, the file it is exported to) is a field of  *)
(* its element; the pages are told apart by their place in the dump. The   *)
(* renderer of `dump pages` and `dump grep` is a library: of its formats,  *)
(* some write each page as it comes and some keep them for Flush.          *)
(***************************************************************************)
EXTENDS Integers, Sequences

CONSTANTS
    Pages,     \* the elements a dump may have
    MaxPages,  \* the most elements of a dump
    Commands   \* the commands and their flags

VARIABLES
    cmd,      \* the command, its flags, the decompressor and the output it has
    dump,     \* the elements of the dump, up to its cut
    tail,     \* after them: "eof", "cut" (the XML stops), "damaged" (the data is
              \* bad) or "syntax" (it decodes, but is no XML)
    at,       \* the next element
    out,      \* the places of the pages that fn has counted
    shown,    \* those of them that have reached the output
    files,    \* the exported page that each file holds; 0 is no file, -1 a part of one
    answer    \* "running", "flushing", "ok", "noResults" or "error"

vars == <<cmd, dump, tail, at, out, shown, files, answer>>

Paths == {p.path : p \in Pages}

\* The format keeps the pages for Flush. export has no renderer.
Buffered == cmd.buffers /\ cmd.name # "export"

\* export to the standard output drops the error of a write.
Unchecked == cmd.full /\ cmd.name = "export" /\ ~cmd.outDir

Init == /\ cmd \in Commands
        /\ \E n \in 0 .. MaxPages : dump \in [1 .. n -> Pages]
        /\ tail \in {"eof", "cut", "damaged", "syntax"}
        /\ at = 1 /\ out = <<>> /\ shown = {} /\ files = [p \in Paths |-> 0]
        /\ answer = "running"

----------------------------------------------------------------------------
(* Mutated forms; no specification uses them.                                *)

\* The stop of the limit is wrapped like any error.
Outcome_stopFails(stop) ==
    CASE stop = "error" -> "error"
      [] stop = "limit" -> "error"
      [] OTHER -> IF out' = <<>> THEN "noResults"
                  ELSE IF cmd.name = "export" THEN "ok" ELSE "flushing"

----------------------------------------------------------------------------
(* The functions that the commands give to StreamPages.                      *)

\* grep: the title, or the text unless --title-only.
Matches(p) == p.hit = "title" \/ (p.hit = "text" /\ ~cmd.titleOnly)

\* export: the pages it turns into articles. A text is "prose", "short" (below
\* --min-bytes), "blank", "redirect" (starts with #REDIRECT) or "markup" (its
\* conversion is blank).
Article(p) == /\ ~p.redirect /\ p.text # "blank"
              /\ ~(cmd.minBytes /\ p.text = "short")
              /\ (~cmd.keepRedirects => p.text # "redirect")
              /\ p.text # "markup"

fn(p) == CASE cmd.name = "pages"  -> TRUE
           [] cmd.name = "grep"   -> Matches(p)
           [] cmd.name = "export" -> Article(p)

\* shardPath
pathOf(p) == p.path

\* What the command answers when StreamPages gives `stop`: "eof", an "error", or
\* the errStopStream of the limit. An error comes before Flush, and so does "no results".
Outcome(stop) ==
    CASE stop = "error" -> "error"
      [] OTHER -> IF out' = <<>> THEN "noResults"
                  ELSE IF cmd.name = "export" THEN "ok" ELSE "flushing"

\* StreamPages: pages of the namespace that decode; a malformed page is skipped.
Keeps(p) == p.decodes /\ (cmd.namespace >= 0 => p.ns = cmd.namespace)

----------------------------------------------------------------------------
(* streamPagesReader: one element per step.                                  *)

Skip == /\ answer = "running" /\ at <= Len(dump)
        /\ ~(Keeps(dump[at]) /\ fn(dump[at]))
        /\ at' = at + 1
        /\ UNCHANGED <<cmd, dump, tail, out, shown, files, answer>>

\* fn writes the page, and stops the stream at the limit.
Write == /\ answer = "running" /\ at <= Len(dump)
         /\ Keeps(dump[at]) /\ fn(dump[at])
         /\ out' = Append(out, at)
         /\ \/ ~Buffered /\ shown' = shown \cup {at}
            \/ (Buffered \/ Unchecked) /\ shown' = shown
         /\ files' = IF cmd.name = "export" /\ cmd.outDir
                       THEN [files EXCEPT ![pathOf(dump[at])] = at] ELSE files
         /\ at' = at + 1
         /\ answer' = IF cmd.limit > 0 /\ Len(out') >= cmd.limit
                        THEN Outcome("limit") ELSE "running"
         /\ UNCHANGED <<cmd, dump, tail>>

\* The output cannot be written: fn gives the error of Emit or writeArticle, which
\* may leave a part of its file.
WriteFails == /\ answer = "running" /\ at <= Len(dump)
              /\ Keeps(dump[at]) /\ fn(dump[at])
              /\ cmd.full /\ ~Buffered /\ ~Unchecked
              /\ \/ files' = files
                 \/ /\ cmd.name = "export"
                    /\ files' = [files EXCEPT ![pathOf(dump[at])] = -1]
              /\ answer' = Outcome("error")
              /\ UNCHANGED <<cmd, dump, tail, at, out, shown>>

\* The end: io.EOF and "unexpected EOF" end the stream; so does damage that the
\* decompressor ran into in a process of its own, whose exit Close ignores. Data that
\* decodes to something else than XML is an error with any decompressor.
StreamEnds == /\ answer = "running" /\ at > Len(dump)
              /\ UNCHANGED <<cmd, dump, tail, at, out, shown, files>>
              /\ answer' = Outcome(IF tail = "syntax" \/ (tail = "damaged" /\ ~cmd.process)
                                     THEN "error" ELSE "eof")

\* What fn has counted, as places.
Written == {out[i] : i \in DOMAIN out}

\* app.Out.Flush
Flush == /\ answer = "flushing"
         /\ shown' = Written /\ answer' = "ok"
         /\ UNCHANGED <<cmd, dump, tail, at, out, files>>

FlushFails == /\ answer = "flushing" /\ Buffered /\ cmd.full
              /\ \E k \in 0 .. Len(out) : shown' = {out[i] : i \in 1 .. k}
              /\ answer' = "error"
              /\ UNCHANGED <<cmd, dump, tail, at, out, files>>

Next == Skip \/ Write \/ WriteFails \/ StreamEnds \/ Flush \/ FlushFails

Spec == Init /\ [][Next]_vars

----------------------------------------------------------------------------
(* Properties                                                                *)

\* The places of the pages that the command is about: those before the end of the
\* dump, its cut or its damage.
Asked == {a \in DOMAIN dump : Keeps(dump[a]) /\ fn(dump[a])}

\* No other article of the dump has the path of a.
OwnPath(a) == \A b \in Asked : dump[b].path = dump[a].path => b = a

\* What has been counted are pages asked for, in the order of the dump and with
\* none passed over before them, and not more than the limit. A command that ends
\* well has counted them all, or as many as the limit: a page that does not decode
\* costs no other page, and the stop at the limit is no failure. It gives "no
\* results" only when no page was asked for, and an error only for an output that
\* fails, or for damage that it ran into after all pages before it, below the limit.
\* What was counted has reached the output: at once when the format keeps no pages,
\* and at a good end in every format, but for an export to a standard output that
\* fails. A file of the export holds its article when no other has its path; of
\* articles that share one, all but one are lost, and nothing is claimed.
WritesTheAsked ==
    /\ Written \subseteq Asked
    /\ \A i, j \in DOMAIN out : i < j => out[i] < out[j]
    /\ \A a \in Asked : \A w \in Written : a < w => a \in Written
    /\ cmd.limit > 0 => Len(out) <= cmd.limit
    /\ answer \in {"flushing", "ok"} =>
         out # <<>> /\ (Written = Asked \/ Len(out) = cmd.limit)
    /\ answer = "noResults" => Asked = {}
    /\ answer = "error" =>
         \/ cmd.full
         \/ /\ tail \in {"damaged", "syntax"}
            /\ Written = Asked /\ (cmd.limit > 0 => Len(out) < cmd.limit)
    /\ shown \subseteq Written
    /\ (~Buffered \/ answer = "ok") /\ ~Unchecked => shown = Written
    /\ (cmd.name = "export" /\ cmd.outDir) =>
         \A w \in Written : OwnPath(w) => files[dump[w].path] = w
============================================================================
