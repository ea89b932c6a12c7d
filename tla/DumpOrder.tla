----------------------------- MODULE DumpOrder -----------------------------
(***************************************************************************)
(* The input of one read of a multistream dump: the streams the caller     *)
(* asks for, the pages that lie in each, and the set of wanted pages.      *)
(* Shared by OrderedRead (what ReadPages promises) and ReadPages (how the  *)
(* goroutines of src/wiki/dump/multistream.go do it).                      *)
(***************************************************************************)
EXTENDS Integers, Sequences

CONSTANTS NumStreams,  (* the length of the streams argument                 *)
          PageID,      (* the identifiers of pages                           *)
          Pages,       (* the pages of each stream, up to the stream's edge  *)
          Wanted       (* the pages argument; PageID stands for a nil set    *)

Stream == 1 .. NumStreams

ASSUME DumpAssumption ==
    /\ NumStreams \in Nat
    /\ Pages \in [Stream -> Seq(PageID)]
    /\ Wanted \subseteq PageID

\* A position is a place in the dump: a stream and the ordinal of a page in it.
Position == UNION {{s} \X (1 .. Len(Pages[s])) : s \in Stream}

\* The positions fn has to see: those of the pages of the set.
WantedPosition == {p \in Position : Pages[p[1]][p[2]] \in Wanted}

\* The order of the dump.
Before(p, q) == \/ p[1] < q[1]
                \/ p[1] = q[1] /\ p[2] < q[2]
============================================================================
