----------------------------- MODULE PagesByID -----------------------------
(***************************************************************************)
(* `dump pages --index --ids` over a multistream dump: dumpPagesByID of    *)
(* src/cli/dump.go reads the ids, StreamsOf of src/wiki/dump/multistream.go*)
(* walks the index and picks the streams that hold them, and ReadStream    *)
(* decodes each one. ReadPages itself, which reads the streams in parallel,*)
(* is the module ReadPages; here its promise (OrderedRead) is all that is  *)
(* left of it: the streams come one after the other, in their order.       *)
(*                                                                         *)
(* The dump is a sequence of bzip2 streams; the stream i starts at the     *)
(* offset i and the file has the size Len(dump) + 1. The place of an       *)
(* element is <<stream, element>>. The index has an entry for each page of *)
(* the dump, in its order. Files that are missing and lines that do not    *)
(* parse end the command at once and are left out; a failing fn is in      *)
(* ReadPages.                                                              *)
(***************************************************************************)
EXTENDS Integers, Sequences

CONSTANTS
    IDs,          \* page ids
    Edge, Broken, \* what can stand in a stream instead of a page: a syntax
                  \* error between two pages, data that cannot be decoded
    StreamTexts,  \* the streams a dump may have: sequences of pages, Edge and Broken
    MaxStreams,
    IDFiles,      \* the ids files: sets of ids, which may be empty
    Limits

VARIABLES
    dump, ids, limit,
    entry,     \* the place of the last page that the walk of the index came to
    cur, need, \* the offset of the stream it walks, whether it holds a wanted page
    seen,      \* the ids found
    streams,   \* the streams picked
    stream,    \* the one being read, of them
    page,      \* the place of the last page of it given to fn
    out,       \* the places of the pages written
    answer     \* "index", "read", "pages", "ok", "noResults" or "error"

vars == <<dump, ids, limit, entry, cur, need, seen, streams, stream, page, out, answer>>

Init == /\ \E n \in 0 .. MaxStreams : dump \in [1 .. n -> StreamTexts]
        /\ ids \in IDFiles /\ limit \in Limits
        /\ entry = <<0, 0>> /\ cur = -1 /\ need = FALSE /\ seen = {} /\ streams = <<>>
        /\ stream = 0 /\ page = <<0, 0>> /\ out = <<>> /\ answer = "index"

Places  == UNION {{<<i, k>> : k \in DOMAIN dump[i]} : i \in DOMAIN dump}
Elem(c) == dump[c[1]][c[2]]

Before(c, d) == c[1] < d[1] \/ (c[1] = d[1] /\ c[2] < d[2])

\* The first of the places, as a set of one, or of none.
First(T) == {c \in T : \A d \in T : ~Before(d, c)}

\* The entries of the index, as the places of their pages.
Index == {c \in Places : Elem(c) \in IDs}

\* The set of the ids file is never nil, with which StreamsOf would take all pages.
Wanted(id) == id \in ids

----------------------------------------------------------------------------
(* Mutated forms; no specification uses them.                                *)

\* The last stream of the index is not closed.
LastStream_lost == /\ answer = "index" /\ {c \in Index : Before(entry, c)} = {}
                   /\ answer' = "read"
                   /\ UNCHANGED <<dump, ids, limit, entry, cur, need, seen, streams,
                                  stream, page, out>>

----------------------------------------------------------------------------
(* StreamsOf                                                                 *)

StreamOf(start, end) == [start |-> start, end |-> end]

\* The entry e. A new offset ends the stream before it.
Read(e) == LET fresh == e[1] # cur
               asked == Wanted(Elem(e))
           IN  /\ streams' = IF fresh /\ need THEN Append(streams, StreamOf(cur, e[1]))
                                              ELSE streams
               /\ cur' = e[1]
               /\ need' = (asked \/ (need /\ ~fresh))
               /\ seen' = IF asked THEN seen \cup {Elem(e)} ELSE seen

\* The next entry.
Entry == /\ answer = "index"
         /\ \E e \in First({c \in Index : Before(entry, c)}) : Read(e) /\ entry' = e
         /\ UNCHANGED <<dump, ids, limit, stream, page, out, answer>>

\* The end of the index ends the last stream, whose end is the end of the file.
LastStream == /\ answer = "index" /\ {c \in Index : Before(entry, c)} = {}
              /\ streams' = IF need THEN Append(streams, StreamOf(cur, -1)) ELSE streams
              /\ answer' = "read"
              /\ UNCHANGED <<dump, ids, limit, entry, cur, need, seen, stream, page, out>>

----------------------------------------------------------------------------
(* ReadStream                                                                *)

Size   == Len(dump) + 1
End(s) == IF s.end < 0 THEN Size ELSE s.end

\* The offsets are in the file.
InFile(s) == s.start >= 0 /\ End(s) >= s.start /\ End(s) <= Size

\* The elements between the two offsets.
Section(s) == {c \in Places : s.start <= c[1] /\ c[1] < End(s)}

\* The data decodes, at least up to a syntax error between two pages.
Decodes(s) == \A c \in Section(s) : Elem(c) = Broken =>
                 \E d \in Section(s) : Elem(d) = Edge /\ Before(d, c)

\* The pages up to that error.
PagesOf(s) == {c \in Section(s) : /\ Elem(c) \in IDs
                                  /\ \A d \in Section(s) : Elem(d) = Edge => ~Before(d, c)}

----------------------------------------------------------------------------
(* ReadPages, and the fn of dumpPagesByID                                    *)

\* The next stream, which is decoded as a whole before fn has a page of it.
Open == /\ answer = "read" /\ stream < Len(streams)
        /\ stream' = stream + 1 /\ page' = <<0, 0>>
        /\ answer' = IF InFile(streams[stream']) /\ Decodes(streams[stream'])
                       THEN "pages" ELSE "error"
        /\ UNCHANGED <<dump, ids, limit, entry, cur, need, seen, streams, out>>

\* The wanted pages of the stream that fn has not had.
ToWrite == {c \in PagesOf(streams[stream]) : Wanted(Elem(c)) /\ Before(page, c)}

\* fn writes the next one, and stops at the limit.
Write == /\ answer = "pages"
         /\ \E c \in First(ToWrite) : page' = c /\ out' = Append(out, c)
         /\ answer' = IF limit > 0 /\ Len(out') >= limit THEN "ok" ELSE "pages"
         /\ UNCHANGED <<dump, ids, limit, entry, cur, need, seen, streams, stream>>

Close == /\ answer = "pages" /\ ToWrite = {}
         /\ answer' = "read"
         /\ UNCHANGED <<dump, ids, limit, entry, cur, need, seen, streams, stream, page, out>>

Done == /\ answer = "read" /\ stream = Len(streams)
        /\ answer' = IF out = <<>> THEN "noResults" ELSE "ok"
        /\ UNCHANGED <<dump, ids, limit, entry, cur, need, seen, streams, stream, page, out>>

Next == Entry \/ LastStream \/ Open \/ Write \/ Close \/ Done

Spec == Init /\ [][Next]_vars

----------------------------------------------------------------------------
(* Properties                                                                *)

\* The wanted pages of the dump, and the streams that hold them.
Asked == {c \in Index : Wanted(Elem(c))}
Hit   == {c[1] : c \in Asked}

Written == {out[i] : i \in DOMAIN out}

\* Those that a reading of their own stream reaches: they stand before its first defect.
Reachable == {c \in Asked : \A d \in Places :
                 d[1] = c[1] /\ Elem(d) \in {Edge, Broken} => Before(c, d)}

\* Those that a reading of the whole dump from its start reaches (StreamPages).
Whole == {c \in Asked : \A d \in Places : Elem(d) \in {Edge, Broken} => Before(c, d)}

\* A syntax error between two pages stands before the page in its stream.
BehindEdge(c) == \E d \in Places : Elem(d) = Edge /\ d[1] = c[1] /\ Before(d, c)

\* A reading from the stream i on meets data that cannot be decoded before a
\* syntax error and before a page of another stream.
Fails(i) == \E c \in Places :
               /\ Elem(c) = Broken /\ i <= c[1]
               /\ \A d \in Index : d[1] <= i \/ d[1] > c[1]
               /\ \A d \in Places : Elem(d) = Edge /\ i <= d[1] => ~Before(d, c)

\* What has been written are wanted pages that their streams reach, in the order
\* of the dump and with none passed over, and not more than the limit. A command
\* that ends well below its limit has read every stream that holds a wanted page,
\* and none of them failed. What it has not written are just the wanted pages behind a
\* syntax error of their own stream, which ReadStream takes for the edge of the
\* stream: they are lost without an error. So it writes every wanted page that a
\* reading of the whole dump reaches, and more when the dump has a defect in another
\* stream. It fails only when a stream with a wanted page does. The ids that are not
\* reported as missing are those of a page.
ReadsTheWanted ==
    /\ Written \subseteq Reachable
    /\ \A i, j \in DOMAIN out : i < j => Before(out[i], out[j])
    /\ \A c \in Reachable : \A w \in Written : Before(c, w) => c \in Written
    /\ limit > 0 => Len(out) <= limit
    /\ answer = "ok" => out # <<>>
    /\ answer = "noResults" => out = <<>>
    /\ answer \in {"ok", "noResults"} =>
          \/ limit > 0 /\ Len(out) = limit
          \/ /\ Asked \ Written = {c \in Asked : BehindEdge(c)}
             /\ Whole \subseteq Written
             /\ \A i \in Hit : ~Fails(i)
    /\ answer = "error" => \E i \in Hit : Fails(i)
    /\ answer # "index" => seen = {Elem(c) : c \in Asked}
============================================================================
