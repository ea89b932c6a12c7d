------------------------------- MODULE Walker -------------------------------
(***************************************************************************)
(* Walker.Walk of src/wiki/discover.go: the breadth-first walk from a list *)
(* of seeds over the graph of pages and categories, behind `wiki           *)
(* discover`. One action is one turn of its loop; a list call or the fetch *)
(* of a seed may fail, emit may fail, and the context may end.             *)
(*                                                                         *)
(* A page or category is its normalized name, so that a node is its own    *)
(* key (nodeKey). A page fetched as a seed may be a redirect to another.   *)
(***************************************************************************)
EXTENDS Integers, Sequences

CONSTANTS Page, Category,  (* the nodes of the graph                              *)
          RedirectTo,      (* the title GetSummary answers with, for each page    *)
          List,            (* the whole list of each edge and node                *)
          ServerMax,       (* the longest list the API gives in one answer        *)
          Seeds, Options   (* the seed lists, and the WalkOptions, that are tried *)

Node == Page \cup Category
Edge == {"links", "backlinks", "categories", "members", "subcats"}

\* Edge.source and Edge.Target
source(e) == IF e \in {"members", "subcats"} THEN Category ELSE Page
Target(e) == IF e \in {"categories", "subcats"} THEN Category ELSE Page

ASSUME GraphAssumption ==
    /\ Page \cap Category = {}
    /\ RedirectTo \in [Page -> Page]
    /\ \A p \in Page : RedirectTo[RedirectTo[p]] = RedirectTo[p]
    /\ \A e \in Edge : \A n \in source(e) : List[e][n] \in Seq(Target(e))

ASSUME WalkAssumption ==
    /\ ServerMax \in Nat \ {0}
    /\ Seeds \subseteq Seq(Node)
    /\ Options \subseteq [Depth : Nat, Max : Nat, Fanout : Nat, Edges : SUBSET Edge]

VARIABLES
    seeds, opts,  \* the arguments of Walk
    queue,        \* the frontier
    visited,      \* the keys seen
    emitted,      \* the nodes given to emit, in order
    result,       \* "walking", "done", "budget", "seed", "emit" or "cancelled"
    over,         \* whether the context is done
    failed        \* history: whether a list call failed

vars == <<seeds, opts, queue, visited, emitted, result, over, failed>>

SeedItem(n) == [node |-> n, depth |-> 0, via |-> "none", parent |-> n]

Init == /\ seeds \in Seeds /\ opts \in Options
        /\ queue = [i \in DOMAIN seeds |-> SeedItem(seeds[i])]
        /\ visited = {} /\ emitted = <<>>
        /\ result = "walking"
        /\ over \in BOOLEAN /\ failed = FALSE

----------------------------------------------------------------------------
(* What one turn of the loop does with the item at the head of the queue. *)

\* hydrate: a seed page is fetched and may turn out to be another page; every
\* other item carries its record, and a category keeps the name it was asked by.
hydrate(f) == IF f.via = "none" /\ f.node \in Page THEN RedirectTo[f.node] ELSE f.node

\* The limit of neighbors, and what a list call gives under it.
Limit == IF opts.Fanout > 0 THEN opts.Fanout ELSE opts.Max
Answer(e, n) == LET cap == IF Limit = 0 \/ Limit > ServerMax THEN ServerMax ELSE Limit
                IN SubSeq(List[e][n], 1, IF Len(List[e][n]) < cap THEN Len(List[e][n]) ELSE cap)

(* Mutated forms, each a plausible bug; no specification uses them.          *)

\* Only the name an item was asked by is marked.
Mark_askedOnly(f, n) == visited' = visited \cup {f.node}

\* The neighbors go to the front of the queue.
Enqueue_front(items) == queue' = items \o Tail(queue)

\* The last hop is not followed.
IsLeaf_early(f) == f.depth + 1 >= opts.Depth

\* An item that was seen is left at the head of the queue.
Skip_kept == /\ result = "walking" /\ queue # <<>> /\ ~over
             /\ Head(queue).node \in visited
             /\ UNCHANGED vars

----------------------------------------------------------------------------
\* The items of the node n at the depth d, edge by edge, but for the lists in bad.
neighbors(n, d, bad) ==
    LET items(e) == IF e \notin opts.Edges \ bad THEN <<>>
                    ELSE [i \in DOMAIN Answer(e, n) |->
                             [node |-> Answer(e, n)[i], depth |-> d + 1, via |-> e, parent |-> n]]
    IN IF n \in Page THEN items("links") \o items("backlinks") \o items("categories")
                     ELSE items("members") \o items("subcats")

\* The key of the item and that of the node it resolved to are both seen.
Mark(f, n) == visited' = visited \cup {f.node, n}

Emit(f, n) == emitted' = Append(emitted, [node |-> n, asked |-> f.node, depth |-> f.depth,
                                          via |-> f.via, parent |-> f.parent])

Spent    == opts.Max > 0 /\ Len(emitted) + 1 >= opts.Max
IsLeaf(f) == f.depth >= opts.Depth

Enqueue(items) == queue' = Tail(queue) \o items

----------------------------------------------------------------------------
Live == result = "walking" /\ queue # <<>> /\ ~over

\* An item that was seen already.
Skip == /\ Live /\ Head(queue).node \in visited
        /\ queue' = Tail(queue)
        /\ UNCHANGED <<seeds, opts, visited, emitted, result, over, failed>>

\* A seed cannot be fetched, which ends the walk.
SeedFails == /\ Live /\ Head(queue).node \notin visited
             /\ Head(queue).via = "none"
             /\ visited' = visited \cup {Head(queue).node}
             /\ queue' = Tail(queue)
             /\ result' = "seed"
             /\ UNCHANGED <<seeds, opts, emitted, over, failed>>

\* The node is given to emit, which may refuse it; then the budget, the depth and
\* the lists of the node, each of which may fail and leave a note.
Visit ==
    /\ Live /\ Head(queue).node \notin visited
    /\ LET f == Head(queue)
           n == hydrate(f)
       IN /\ Mark(f, n)
          /\ \/ /\ result' = "emit"
                /\ queue' = Tail(queue)
                /\ UNCHANGED <<emitted, failed>>
             \/ /\ Spent
                /\ Emit(f, n)
                /\ result' = "budget"
                /\ queue' = Tail(queue)
                /\ UNCHANGED failed
             \/ /\ ~Spent /\ IsLeaf(f)
                /\ Emit(f, n)
                /\ queue' = Tail(queue)
                /\ UNCHANGED <<result, failed>>
             \/ /\ ~Spent /\ ~IsLeaf(f)
                /\ Emit(f, n)
                /\ \E bad \in SUBSET {e \in opts.Edges : n \in source(e)} :
                      /\ Enqueue(neighbors(n, f.depth, bad))
                      /\ failed' = (failed \/ bad # {})
                /\ UNCHANGED result
    /\ UNCHANGED <<seeds, opts, over>>

SeesCancel == /\ result = "walking" /\ queue # <<>> /\ over
              /\ result' = "cancelled"
              /\ UNCHANGED <<seeds, opts, queue, visited, emitted, over, failed>>

QueueEmpty == /\ result = "walking" /\ queue = <<>>
              /\ result' = "done"
              /\ UNCHANGED <<seeds, opts, queue, visited, emitted, over, failed>>

Cancel == /\ ~over /\ result = "walking"
          /\ over' = TRUE
          /\ UNCHANGED <<seeds, opts, queue, visited, emitted, result, failed>>

Terminated == result # "walking" /\ UNCHANGED vars

Loop == Skip \/ SeedFails \/ Visit \/ SeesCancel \/ QueueEmpty
Next == Loop \/ Cancel \/ Terminated
Spec == Init /\ [][Next]_vars /\ WF_vars(Loop)

----------------------------------------------------------------------------
(* Properties. *)

Item    == [node : Node, depth : 0 .. opts.Depth, via : Edge \cup {"none"}, parent : Node]
Visited == [node : Node, asked : Node, depth : 0 .. opts.Depth,
            via : Edge \cup {"none"}, parent : Node]

TypeOK == /\ seeds \in Seeds /\ opts \in Options
          /\ queue \in Seq(Item)
          /\ visited \subseteq Node
          /\ emitted \in Seq(Visited)
          /\ result \in {"walking", "done", "budget", "seed", "emit", "cancelled"}
          /\ over \in BOOLEAN /\ failed \in BOOLEAN

\* The definition the walk is measured by, over the whole lists: the nodes at most
\* d hops from the seeds are the ends of the paths of d steps, a hop or a rest each.
Listed(e, n) == {List[e][n][i] : i \in DOMAIN List[e][n]}
Hop(n)    == {n} \cup UNION {Listed(e, n) : e \in {x \in opts.Edges : n \in source(x)}}
Start     == {hydrate(SeedItem(seeds[i])) : i \in DOMAIN seeds}
Paths(d)  == {p \in [0 .. d -> Node] : p[0] \in Start /\ \A k \in 1 .. d : p[k] \in Hop(p[k - 1])}
Within(d) == {p[d] : p \in Paths(d)}
Reached   == {emitted[i].node : i \in DOMAIN emitted}
NoAlias   == \A i \in DOMAIN seeds : hydrate(SeedItem(seeds[i])) = seeds[i]

\* Every list comes in one answer of the API and names a node once.
WholeLists == \A e \in Edge : \A n \in source(e) :
                 /\ Len(List[e][n]) <= ServerMax
                 /\ \A i, j \in DOMAIN List[e][n] : List[e][n][i] = List[e][n][j] => i = j

\* The walks that have to find everything: only the budget and the depth cut them.
Exhaustive == opts.Fanout = 0 /\ ~failed /\ NoAlias /\ WholeLists

\* A node is emitted a second time only for a seed that is a redirect to it: never
\* because a link, a category or another seed leads to it again.
EmittedOnce == \A i, j \in DOMAIN emitted :
                  i < j /\ emitted[i].node = emitted[j].node
                     => emitted[j].via = "none" /\ emitted[j].asked # emitted[j].node

\* With no fanout and no failed list, breadth first: a node has the depth of its
\* distance from the seeds, and every nearer node was emitted before it. The lists
\* are cut at the budget then (neighbors), which must not lose a nearer node.
NearestFirst == Exhaustive =>
    \A j \in DOMAIN emitted : LET d == emitted[j].depth IN
        /\ emitted[j].node \in Within(d)
        /\ d > 0 => Within(d - 1) \subseteq {emitted[i].node : i \in 1 .. j - 1}

\* A walk that ends with its queue empty, with no fanout and no failed list, has
\* emitted every node within Depth hops, whatever the budget was.
Complete == result = "done" /\ Exhaustive => Reached = Within(opts.Depth)

\* "An unbounded discover always terminates" (discovering.md:65).
Terminates == <>(result # "walking")

\* "A redirect or a normalization that lands on an already-seen node does not
\* re-emit" (discover.go:332).
NoReEmit == \A i, j \in DOMAIN emitted : i # j => emitted[i].node # emitted[j].node
=============================================================================
