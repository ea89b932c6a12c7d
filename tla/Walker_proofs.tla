---------------------------- MODULE Walker_proofs ----------------------------
(***************************************************************************)
(* Theorems about Walker, for every graph, every list of seeds and all     *)
(* options.                                                                *)
(***************************************************************************)
EXTENDS Walker, FiniteSetTheorems, SequenceTheorems, WellFoundedInduction, TLAPS

----------------------------------------------------------------------------
(* Sequences and the lists of the graph.                                     *)

Elements(s) == {s[i] : i \in DOMAIN s}

\* The elements of two sequences together.
LEMMA ConcatElements ==
    ASSUME NEW S, NEW s \in Seq(S), NEW t \in Seq(S)
    PROVE  s \o t \in Seq(S) /\ Elements(s \o t) = Elements(s) \cup Elements(t)
<1>1. /\ s \o t \in Seq(S) /\ Len(s \o t) = Len(s) + Len(t)
      /\ Len(s) \in Nat /\ Len(t) \in Nat
      /\ \A i \in 1 .. Len(s) + Len(t) :
            (s \o t)[i] = IF i <= Len(s) THEN s[i] ELSE t[i - Len(s)]
  BY ConcatProperties
<1>2. /\ DOMAIN s = 1 .. Len(s) /\ DOMAIN t = 1 .. Len(t)
      /\ DOMAIN (s \o t) = 1 .. Len(s) + Len(t)
  BY <1>1
<1>3. Elements(s \o t) \subseteq Elements(s) \cup Elements(t)
  BY <1>1, <1>2 DEF Elements
<1>4. ASSUME NEW i \in DOMAIN s PROVE s[i] \in Elements(s \o t)
  BY <1>1, <1>2 DEF Elements
<1>5. ASSUME NEW i \in DOMAIN t PROVE t[i] \in Elements(s \o t)
  <2>1. Len(s) + i \in DOMAIN (s \o t) /\ ~(Len(s) + i <= Len(s)) /\ (Len(s) + i) - Len(s) = i
    BY <1>1, <1>2
  <2>2. (s \o t)[Len(s) + i] = t[i]
    BY <1>1, <1>2, <2>1
  <2> QED BY <2>1, <2>2 DEF Elements
<1> QED BY <1>1, <1>3, <1>4, <1>5 DEF Elements

\* The head and the rest of a sequence.
LEMMA HeadAndTail ==
    ASSUME NEW S, NEW s \in Seq(S), s # <<>>
    PROVE  /\ Head(s) \in S /\ Head(s) = s[1] /\ 1 \in DOMAIN s
           /\ Tail(s) \in Seq(S) /\ Len(Tail(s)) = Len(s) - 1
           /\ \A i \in DOMAIN Tail(s) : i + 1 \in DOMAIN s /\ Tail(s)[i] = s[i + 1]
           /\ Elements(s) = {Head(s)} \cup Elements(Tail(s))
<1>1. /\ Head(s) \in S /\ Head(s) = s[1] /\ 1 \in DOMAIN s
      /\ Tail(s) \in Seq(S) /\ Len(Tail(s)) = Len(s) - 1
      /\ \A i \in DOMAIN Tail(s) : i + 1 \in DOMAIN s /\ Tail(s)[i] = s[i + 1]
  OBVIOUS
<1>2. ASSUME NEW i \in DOMAIN s, i # 1 PROVE i - 1 \in DOMAIN Tail(s) /\ Tail(s)[i - 1] = s[i]
  BY <1>2
<1>3. Elements(s) \subseteq {Head(s)} \cup Elements(Tail(s))
  <2> SUFFICES ASSUME NEW i \in DOMAIN s PROVE s[i] = Head(s) \/ s[i] \in Elements(Tail(s))
    BY DEF Elements
  <2>1. CASE i = 1
    BY <1>1, <2>1
  <2>2. CASE i # 1
    <3>1. i - 1 \in DOMAIN Tail(s) /\ Tail(s)[i - 1] = s[i]
      BY <1>2, <2>2
    <3> QED BY <3>1 DEF Elements
  <2> QED BY <2>1, <2>2
<1>4. {Head(s)} \cup Elements(Tail(s)) \subseteq Elements(s)
  BY <1>1 DEF Elements
<1> QED BY <1>1, <1>3, <1>4

\* A list as neighbors gets it is the start of the list. With no fanout it is the
\* list, or as much of it as the budget.
LEMMA AnswerIs ==
    ASSUME opts \in Options, NEW e \in Edge, NEW n \in source(e)
    PROVE  /\ Answer(e, n) \in Seq(Target(e)) /\ List[e][n] \in Seq(Target(e))
           /\ Len(Answer(e, n)) <= Len(List[e][n])
           /\ \A i \in DOMAIN Answer(e, n) :
                 i \in DOMAIN List[e][n] /\ Answer(e, n)[i] = List[e][n][i]
           /\ opts.Fanout = 0 /\ WholeLists =>
                 \/ Len(Answer(e, n)) = Len(List[e][n])
                 \/ opts.Max > 0 /\ Len(Answer(e, n)) = opts.Max
<1> DEFINE list == List[e][n]
           cap  == IF Limit = 0 \/ Limit > ServerMax THEN ServerMax ELSE Limit
           m    == IF Len(list) < cap THEN Len(list) ELSE cap
<1>1. list \in Seq(Target(e)) /\ Len(list) \in Nat
  BY GraphAssumption
<1>2. opts.Max \in Nat /\ opts.Fanout \in Nat /\ Limit \in Nat /\ ServerMax \in Nat
  BY WalkAssumption DEF Limit
<1>3. m \in 0 .. Len(list) /\ Answer(e, n) = SubSeq(list, 1, m)
  BY <1>1, <1>2 DEF Answer
<1>4. opts.Fanout = 0 /\ WholeLists => m = Len(list) \/ (opts.Max > 0 /\ m = opts.Max)
  <2> SUFFICES ASSUME opts.Fanout = 0, WholeLists
               PROVE  m = Len(list) \/ (opts.Max > 0 /\ m = opts.Max)
    OBVIOUS
  <2>1. Limit = opts.Max
    BY DEF Limit
  <2>2. Len(list) <= ServerMax
    BY DEF WholeLists
  <2> QED BY <1>1, <1>2, <2>1, <2>2
<1> HIDE DEF m, list
<1>5. /\ SubSeq(list, 1, m) \in Seq(Target(e)) /\ Len(SubSeq(list, 1, m)) = m
      /\ \A i \in 1 .. m : SubSeq(list, 1, m)[i] = list[i]
  BY <1>1, <1>3
<1>6. DOMAIN Answer(e, n) = 1 .. m /\ DOMAIN list = 1 .. Len(list)
  BY <1>1, <1>3, <1>5
<1> QED BY <1>1, <1>3, <1>4, <1>5, <1>6 DEF list

\* The items of a node: each is one hop from it and one deeper, and without a
\* failed list every node that the answers name has one.
LEMMA NeighborItems ==
    ASSUME opts \in Options, NEW n \in Node, NEW d \in Nat, NEW bad
    PROVE  /\ neighbors(n, d, bad) \in
                 Seq([node : Node, depth : {d + 1}, via : Edge, parent : Node])
           /\ \A x \in Elements(neighbors(n, d, bad)) : x.node \in Hop(n)
           /\ bad = {} => \A e \in opts.Edges : n \in source(e) =>
                 \A i \in DOMAIN Answer(e, n) :
                    \E x \in Elements(neighbors(n, d, bad)) : x.node = Answer(e, n)[i]
<1> DEFINE S == {x \in [node : Node, depth : {d + 1}, via : Edge, parent : Node] :
                   x.node \in Hop(n)}
           items(e) == IF e \notin opts.Edges \ bad THEN <<>>
                       ELSE [i \in DOMAIN Answer(e, n) |->
                               [node |-> Answer(e, n)[i], depth |-> d + 1, via |-> e,
                                parent |-> n]]
           Finds(s, e) == bad = {} /\ e \in opts.Edges =>
                             \A i \in DOMAIN Answer(e, n) :
                                \E x \in Elements(s) : x.node = Answer(e, n)[i]
<1>1. ASSUME NEW e \in Edge, n \in source(e) PROVE items(e) \in Seq(S) /\ Finds(items(e), e)
  <2>1. CASE e \notin opts.Edges \ bad
    BY <2>1
  <2>2. CASE e \in opts.Edges \ bad
    <3>1. /\ Answer(e, n) \in Seq(Target(e)) /\ Target(e) \subseteq Node
          /\ \A i \in DOMAIN Answer(e, n) : Answer(e, n)[i] \in Listed(e, n)
      <4>1. n \in source(e)
        BY <1>1
      <4> QED BY <4>1, AnswerIs DEF Listed, Node, Target
    <3>2. Listed(e, n) \subseteq Hop(n)
      BY <1>1, <2>2 DEF Hop
    <3> DEFINE L == Len(Answer(e, n))
               it == [i \in 1 .. L |-> [node |-> Answer(e, n)[i], depth |-> d + 1, via |-> e,
                                        parent |-> n]]
    <3>3. L \in Nat /\ DOMAIN Answer(e, n) = 1 .. L /\ items(e) = it
      BY <2>2, <3>1
    <3>4. \A i \in 1 .. L : Answer(e, n)[i] \in Node /\ Answer(e, n)[i] \in Hop(n)
      BY <3>1, <3>2, <3>3
    <3>5. \A i \in 1 .. L : it[i] \in S
      BY <3>4
    <3>6. it \in Seq(S)
      <4> HIDE DEF S
      <4> QED BY <3>3, <3>5
    <3>7. \A i \in 1 .. L : it[i] \in Elements(it) /\ it[i].node = Answer(e, n)[i]
      BY DEF Elements
    <3> HIDE DEF it, L
    <3> QED BY <3>3, <3>6, <3>7
  <2> QED BY <2>1, <2>2
<1>2. ASSUME NEW s \in Seq(S), NEW t \in Seq(S)
      PROVE  /\ s \o t \in Seq(S)
             /\ \A e : Finds(s, e) \/ Finds(t, e) => Finds(s \o t, e)
  <2>1. s \o t \in Seq(S) /\ Elements(s \o t) = Elements(s) \cup Elements(t)
    BY ConcatElements
  <2> HIDE DEF S
  <2> QED BY <2>1
<1> HIDE DEF S, items, Finds
<1>3. /\ neighbors(n, d, bad) \in Seq(S)
      /\ \A e \in opts.Edges : n \in source(e) => Finds(neighbors(n, d, bad), e)
  <2>1. CASE n \in Page
    <3>1. \A e \in {"links", "backlinks", "categories"} :
             e \in Edge /\ n \in source(e) /\ items(e) \in Seq(S) /\ Finds(items(e), e)
      BY <1>1, <2>1 DEF Edge, source
    <3>2. \A e \in opts.Edges : n \in source(e) => e \in {"links", "backlinks", "categories"}
      BY <2>1, GraphAssumption, WalkAssumption DEF Edge, source
    <3>3. neighbors(n, d, bad) = (items("links") \o items("backlinks")) \o items("categories")
      BY <2>1 DEF neighbors, items
    <3>4. items("links") \o items("backlinks") \in Seq(S)
      BY <1>2, <3>1
    <3>5. neighbors(n, d, bad) \in Seq(S)
      BY <1>2, <3>1, <3>3, <3>4
    <3>6. \A e \in {"links", "backlinks", "categories"} : Finds(neighbors(n, d, bad), e)
      <4>1. \A e \in {"links", "backlinks"} : Finds(items("links") \o items("backlinks"), e)
        BY <1>2, <3>1
      <4> QED BY <1>2, <3>1, <3>3, <3>4, <4>1
    <3> QED BY <3>2, <3>5, <3>6
  <2>2. CASE n \notin Page
    <3>1. \A e \in {"members", "subcats"} :
             e \in Edge /\ n \in source(e) /\ items(e) \in Seq(S) /\ Finds(items(e), e)
      BY <1>1, <2>2 DEF Edge, source, Node
    <3>2. \A e \in opts.Edges : n \in source(e) => e \in {"members", "subcats"}
      BY <2>2, WalkAssumption DEF Edge, source
    <3>3. neighbors(n, d, bad) = items("members") \o items("subcats")
      BY <2>2 DEF neighbors, items
    <3> QED BY <1>2, <3>1, <3>2, <3>3
  <2> QED BY <2>1, <2>2
<1>4. \A x \in Elements(neighbors(n, d, bad)) : x \in S
  BY <1>3 DEF Elements
<1>5. neighbors(n, d, bad) \in Seq([node : Node, depth : {d + 1}, via : Edge, parent : Node])
  <2> DEFINE T == [node : Node, depth : {d + 1}, via : Edge, parent : Node]
  <2>1. S \subseteq T
    BY DEF S
  <2> HIDE DEF T
  <2>2. neighbors(n, d, bad) \in Seq(T)
    BY <1>3, <2>1, SeqMonotonic
  <2> QED BY <2>2 DEF T
<1> QED BY <1>3, <1>4, <1>5 DEF S, Finds

----------------------------------------------------------------------------
(* Types, and the turn of the loop that visits a node.                       *)

\* The item of a visit, its node and what emit gets.
Asked  == Head(queue)
Found  == hydrate(Asked)
Record == [node |-> Found, asked |-> Asked.node, depth |-> Asked.depth, via |-> Asked.via,
           parent |-> Asked.parent]

\* The outcomes of a visit: emit refuses the node, or the node is emitted and the
\* walk ends at its budget, or it goes on with the items that are enqueued.
Refused     == result' = "emit" /\ queue' = Tail(queue) /\ UNCHANGED <<emitted, failed>>
BudgetEnds  == /\ emitted' = Append(emitted, Record)
               /\ result' = "budget" /\ queue' = Tail(queue) /\ UNCHANGED failed
GoesOn(items) == /\ emitted' = Append(emitted, Record)
                 /\ result' = "walking" /\ queue' = Tail(queue) \o items
                 /\ opts.Max > 0 => Len(emitted) + 1 < opts.Max
                 /\ \A x \in Elements(items) : x.depth = Asked.depth + 1 /\ x.node \in Hop(Found)
                                             /\ x.via \in Edge
                 /\ ~failed' => /\ ~failed
                                /\ Asked.depth < opts.Depth =>
                                     \A e \in opts.Edges : Found \in source(e) =>
                                        \A i \in DOMAIN Answer(e, Found) :
                                           \E x \in Elements(items) : x.node = Answer(e, Found)[i]

LEMMA VisitOutcomes ==
    ASSUME TypeOK, Visit
    PROVE  /\ queue # <<>> /\ result = "walking" /\ Asked \in Item /\ Asked.node \notin visited
           /\ Found \in Node /\ Record \in Visited
           /\ visited' = visited \cup {Asked.node, Found}
           /\ UNCHANGED <<seeds, opts, over>> /\ failed' \in BOOLEAN
           /\ Refused \/ BudgetEnds \/ \E items \in Seq(Item) : GoesOn(items)
<1>1. /\ queue # <<>> /\ result = "walking" /\ Asked.node \notin visited
      /\ visited' = visited \cup {Asked.node, Found}
      /\ UNCHANGED <<seeds, opts, over>>
  BY DEF Visit, Live, Asked, Found, Mark
<1>2. Asked \in Item
  BY <1>1, HeadAndTail DEF TypeOK, Asked
<1>3. Found \in Node
  BY <1>2, GraphAssumption DEF Found, hydrate, Item, Node
<1>4. Record \in Visited
  BY <1>2, <1>3 DEF Record, Item, Visited
<1>5. Asked.depth \in Nat /\ opts.Depth \in Nat /\ opts.Max \in Nat /\ Len(emitted) \in Nat
  BY <1>2, WalkAssumption DEF TypeOK, Item
<1>6. /\ Tail(queue) \in Seq(Item) /\ Tail(queue) \o <<>> = Tail(queue)
      /\ <<>> \in Seq(Item) /\ Elements(<<>>) = {}
  BY <1>1, HeadAndTail, ConcatEmptySeq, EmptySeq DEF TypeOK, Elements
<1>7. ASSUME Emit(Asked, Found) PROVE emitted' = Append(emitted, Record)
  BY <1>7 DEF Emit, Record
<1>8. ~Spent => (opts.Max > 0 => Len(emitted) + 1 < opts.Max)
  BY <1>5 DEF Spent
<1>9. CASE result' = "emit" /\ queue' = Tail(queue) /\ UNCHANGED <<emitted, failed>>
  BY <1>1, <1>2, <1>3, <1>4, <1>9 DEF Refused, TypeOK
<1>10. CASE /\ Emit(Asked, Found)
            /\ result' = "budget" /\ queue' = Tail(queue) /\ UNCHANGED failed
  BY <1>1, <1>2, <1>3, <1>4, <1>7, <1>10 DEF BudgetEnds, TypeOK
<1>11. CASE /\ ~Spent /\ IsLeaf(Asked) /\ Emit(Asked, Found)
            /\ queue' = Tail(queue) /\ UNCHANGED <<result, failed>>
  <2>1. ~(Asked.depth < opts.Depth)
    BY <1>5, <1>11 DEF IsLeaf
  <2>2. GoesOn(<<>>)
    BY <1>1, <1>6, <1>7, <1>8, <1>11, <2>1 DEF GoesOn
  <2> QED BY <1>1, <1>2, <1>3, <1>4, <1>6, <1>11, <2>2 DEF TypeOK
<1>12. CASE /\ ~Spent /\ ~IsLeaf(Asked) /\ Emit(Asked, Found) /\ UNCHANGED result
            /\ \E bad \in SUBSET {e \in opts.Edges : Found \in source(e)} :
                  /\ Enqueue(neighbors(Found, Asked.depth, bad))
                  /\ failed' = (failed \/ bad # {})
  <2>1. PICK bad : /\ Enqueue(neighbors(Found, Asked.depth, bad))
                   /\ failed' = (failed \/ bad # {})
    BY <1>12
  <2> DEFINE items == neighbors(Found, Asked.depth, bad)
             T     == [node : Node, depth : {Asked.depth + 1}, via : Edge, parent : Node]
  <2>2. Asked.depth + 1 \in 0 .. opts.Depth
    BY <1>5, <1>12 DEF IsLeaf
  <2>3. opts \in Options
    BY DEF TypeOK
  <2>4. /\ items \in Seq(T) /\ \A x \in Elements(items) : x.node \in Hop(Found)
        /\ bad = {} => \A e \in opts.Edges : Found \in source(e) =>
              \A i \in DOMAIN Answer(e, Found) :
                 \E x \in Elements(items) : x.node = Answer(e, Found)[i]
    <3> DEFINE n == Found
               d == Asked.depth
    <3>1. n \in Node /\ d \in Nat
      BY <1>3, <1>5
    <3> HIDE DEF n, d
    <3>2. /\ neighbors(n, d, bad) \in
                Seq([node : Node, depth : {d + 1}, via : Edge, parent : Node])
          /\ \A x \in Elements(neighbors(n, d, bad)) : x.node \in Hop(n)
          /\ bad = {} => \A e \in opts.Edges : n \in source(e) =>
                \A i \in DOMAIN Answer(e, n) :
                   \E x \in Elements(neighbors(n, d, bad)) : x.node = Answer(e, n)[i]
      BY <2>3, <3>1, NeighborItems, Zenon
    <3> QED BY <3>2 DEF n, d
  <2>5. T \subseteq Item
    BY <2>2 DEF Item
  <2> HIDE DEF items
  <2>6. \A x \in Elements(items) : x \in T
    <3> HIDE DEF T
    <3> QED BY <2>4 DEF Elements
  <2>7. items \in Seq(Item)
    <3> HIDE DEF T
    <3> QED BY <2>4, <2>5, SeqMonotonic
  <2>8. queue' = Tail(queue) \o items
    BY <2>1 DEF Enqueue, items
  <2>9. GoesOn(items)
    BY <1>1, <1>7, <1>8, <1>12, <2>1, <2>4, <2>6, <2>8 DEF GoesOn
  <2>10. failed' \in BOOLEAN
    BY <2>1
  <2> QED BY <1>1, <1>2, <1>3, <1>4, <2>7, <2>9, <2>10
<1> QED BY <1>9, <1>10, <1>11, <1>12 DEF Visit, Asked, Found

LEMMA TypeInit == Init => TypeOK
<1> SUFFICES ASSUME Init PROVE TypeOK
  OBVIOUS
<1>1. /\ seeds \in Seq(Node) /\ opts \in Options /\ opts.Depth \in Nat
  BY WalkAssumption DEF Init
<1>2. queue \in Seq(Item)
  <2>1. \A i \in 1 .. Len(seeds) : SeedItem(seeds[i]) \in Item
    BY <1>1 DEF SeedItem, Item
  <2>2. queue = [i \in 1 .. Len(seeds) |-> SeedItem(seeds[i])] /\ Len(seeds) \in Nat
    BY <1>1 DEF Init
  <2> QED BY <2>1, <2>2
<1>3. emitted \in Seq(Visited)
  BY DEF Init
<1> QED BY <1>1, <1>2, <1>3 DEF Init, TypeOK

LEMMA TypeNext == TypeOK /\ [Next]_vars => TypeOK'
<1> SUFFICES ASSUME TypeOK, [Next]_vars PROVE TypeOK'
  OBVIOUS
<1>1. queue # <<>> => Tail(queue) \in Seq(Item) /\ Head(queue) \in Item
  BY HeadAndTail DEF TypeOK
<1>2. CASE Skip
  BY <1>1, <1>2 DEF TypeOK, Skip, Live, Item, Visited
<1>3. CASE SeedFails
  BY <1>1, <1>3 DEF TypeOK, SeedFails, Live, Item, Visited
<1>4. CASE Visit
  <2>1. /\ UNCHANGED <<seeds, opts, over>> /\ failed' \in BOOLEAN
        /\ visited' \subseteq Node /\ Record \in Visited /\ queue # <<>>
    BY <1>4, VisitOutcomes DEF TypeOK, Item
  <2>2. Item' = Item /\ Visited' = Visited
    BY <2>1 DEF Item, Visited
  <2>3. /\ queue' \in Seq(Item) /\ emitted' \in Seq(Visited)
        /\ result' \in {"walking", "emit", "budget"}
    <3>1. CASE Refused
      BY <1>1, <2>1, <3>1 DEF TypeOK, Refused
    <3>2. CASE BudgetEnds
      BY <1>1, <2>1, <3>2 DEF TypeOK, BudgetEnds
    <3>3. CASE \E items \in Seq(Item) : GoesOn(items)
      BY <1>1, <2>1, <3>3 DEF TypeOK, GoesOn
    <3> QED BY <1>4, <3>1, <3>2, <3>3, VisitOutcomes
  <2> QED BY <2>1, <2>2, <2>3 DEF TypeOK
<1>5. CASE SeesCancel
  BY <1>5 DEF TypeOK, SeesCancel, Item, Visited
<1>6. CASE QueueEmpty
  BY <1>6 DEF TypeOK, QueueEmpty, Item, Visited
<1>7. CASE Cancel
  BY <1>7 DEF TypeOK, Cancel, Item, Visited
<1>8. CASE UNCHANGED vars
  BY <1>8 DEF TypeOK, vars, Item, Visited
<1> QED BY <1>2, <1>3, <1>4, <1>5, <1>6, <1>7, <1>8 DEF Next, Loop, Terminated

\* The variables keep their types: no item and no node lies deeper than Depth, and
\* no list leads the walk out of the graph (discover.go: Walk, neighbors).
THEOREM TypeCorrect == Spec => []TypeOK
<1> QED BY TypeInit, TypeNext, PTL DEF Spec

----------------------------------------------------------------------------
(* No node is emitted twice.                                                 *)

\* What was emitted is marked as seen, by its own name and by the one it was asked by.
Marked == \A i \in DOMAIN emitted :
             /\ emitted[i].node \in visited
             /\ emitted[i].via # "none" => emitted[i].asked = emitted[i].node

OnceInv == TypeOK /\ Marked /\ EmittedOnce

\* What a visit adds to the nodes emitted.
LEMMA EmitsOne ==
    ASSUME TypeOK, Visit, ~Refused
    PROVE  /\ emitted' = Append(emitted, Record) /\ Len(emitted) \in Nat
           /\ DOMAIN emitted = 1 .. Len(emitted) /\ DOMAIN emitted' = 1 .. Len(emitted) + 1
           /\ \A i \in DOMAIN emitted : i \in DOMAIN emitted' /\ emitted'[i] = emitted[i]
           /\ emitted'[Len(emitted) + 1] = Record
<1>1. emitted' = Append(emitted, Record) /\ Record \in Visited
  BY VisitOutcomes DEF BudgetEnds, GoesOn
<1> HIDE DEF Record
<1> QED BY <1>1 DEF TypeOK

LEMMA OnceNext == OnceInv /\ [Next]_vars => OnceInv'
<1> SUFFICES ASSUME OnceInv, [Next]_vars PROVE OnceInv'
  OBVIOUS
<1>1. TypeOK'
  BY TypeNext DEF OnceInv
<1>2. ASSUME visited \subseteq visited', UNCHANGED emitted PROVE Marked' /\ EmittedOnce'
  BY <1>2 DEF OnceInv, Marked, EmittedOnce
<1>3. CASE Skip \/ SeedFails \/ SeesCancel \/ QueueEmpty \/ Cancel \/ UNCHANGED vars
  BY <1>1, <1>2, <1>3 DEF OnceInv, Skip, SeedFails, SeesCancel, QueueEmpty, Cancel, vars
<1>4. CASE Visit
  <2>1. /\ Asked.node \notin visited /\ visited' = visited \cup {Asked.node, Found}
    BY <1>4, VisitOutcomes DEF OnceInv
  <2>2. CASE Refused
    BY <1>1, <1>2, <2>1, <2>2 DEF OnceInv, Refused
  <2>3. CASE ~Refused
    <3> DEFINE m == Len(emitted) + 1
    <3>1. /\ DOMAIN emitted = 1 .. Len(emitted) /\ DOMAIN emitted' = 1 .. m /\ Len(emitted) \in Nat
          /\ \A i \in DOMAIN emitted : emitted'[i] = emitted[i]
          /\ emitted'[m] = Record
      BY <1>4, <2>3, EmitsOne DEF OnceInv
    <3>2. /\ Record.node = Found /\ Record.asked = Asked.node /\ Record.via = Asked.via
          /\ Asked.via # "none" => Found = Asked.node
      BY DEF Record, Found, hydrate
    <3>3. Marked'
      BY <2>1, <3>1, <3>2 DEF OnceInv, Marked
    <3>4. ASSUME NEW i \in DOMAIN emitted', NEW j \in DOMAIN emitted', i < j,
                 emitted'[i].node = emitted'[j].node
          PROVE  emitted'[j].via = "none" /\ emitted'[j].asked # emitted'[j].node
      <4>1. i \in DOMAIN emitted /\ emitted'[i] = emitted[i] /\ emitted[i].node \in visited
        BY <3>1, <3>4 DEF OnceInv, Marked
      <4>2. CASE j = m
        BY <2>1, <3>1, <3>2, <3>4, <4>1, <4>2
      <4>3. CASE j # m
        BY <3>1, <3>4, <4>1, <4>3 DEF OnceInv, EmittedOnce
      <4> QED BY <4>2, <4>3
    <3>5. EmittedOnce'
      BY <3>4 DEF EmittedOnce
    <3> QED BY <1>1, <3>3, <3>5 DEF OnceInv
  <2> QED BY <2>2, <2>3
<1> QED BY <1>3, <1>4 DEF Next, Loop, Terminated

\* No page and no category is emitted twice, whatever the cycles and the redirects of
\* the graph, but for a seed that is a redirect to a node seen before (discover.go: Walk).
THEOREM NodesAreEmittedOnce == Spec => []EmittedOnce
<1>1. Init => OnceInv
  BY TypeInit DEF Init, OnceInv, Marked, EmittedOnce
<1>2. OnceInv => EmittedOnce
  BY DEF OnceInv
<1> QED BY <1>1, <1>2, OnceNext, PTL DEF Spec

----------------------------------------------------------------------------
(* The nodes within some hops of the seeds.                                  *)

\* Induction over a set: one that holds 0 and the successor of each of its numbers
\* holds every number.
LEMMA SetInduction ==
    ASSUME NEW T, 0 \in T, \A n \in Nat : n \in T => n + 1 \in T
    PROVE  Nat \subseteq T
<1> DEFINE U == Nat \ T
<1>1. SUFFICES ASSUME U # {} PROVE FALSE
  OBVIOUS
<1>2. PICK R : IsWellFoundedOn(R, Nat) /\ \A x, y \in Nat : (<<y, x>> \in R) <=> y < x
  <2>1. \A x, y \in Nat : (<<y, x>> \in OpToRel(<, Nat)) <=> y < x
    BY DEF OpToRel
  <2> QED BY <2>1, NatLessThanWellFounded, Zenon
<1>3. U \subseteq Nat
  OBVIOUS
<1> HIDE DEF U
<1>4. PICK x \in U : \A y \in U : ~ (<<y, x>> \in R)
  BY <1>1, <1>2, <1>3, WFMin
<1>5. x \in Nat /\ x # 0 /\ x \notin T
  BY DEF U
<1>6. x - 1 \in Nat /\ x - 1 < x
  BY <1>5
<1>7. x - 1 \in T
  BY <1>2, <1>4, <1>5, <1>6 DEF U
<1>8. (x - 1) + 1 = x
  BY <1>5
<1> QED BY <1>5, <1>6, <1>7, <1>8

\* A hop stays in the graph.
LEMMA HopIsNode ==
    ASSUME opts \in Options, NEW n \in Node
    PROVE  Hop(n) \subseteq Node /\ n \in Hop(n)
<1>1. ASSUME NEW e \in opts.Edges, n \in source(e) PROVE Listed(e, n) \subseteq Node
  <2>1. e \in Edge
    BY WalkAssumption
  <2>2. List[e][n] \in Seq(Target(e)) /\ Target(e) \subseteq Node
    BY <1>1, <2>1, GraphAssumption DEF Node, Target
  <2> QED BY <2>2 DEF Listed
<1> QED BY <1>1 DEF Hop

LEMMA StartIsNode ==
    ASSUME seeds \in Seq(Node)
    PROVE  /\ Start \subseteq Node
           /\ NoAlias => Start = {seeds[i] : i \in DOMAIN seeds}
<1>1. \A i \in DOMAIN seeds : seeds[i] \in Node
  OBVIOUS
<1>2. \A n \in Node : hydrate(SeedItem(n)) \in Node
  BY GraphAssumption DEF hydrate, SeedItem, Node
<1> QED BY <1>1, <1>2 DEF Start, NoAlias

\* The nodes within no hop are the seeds.
LEMMA WithinZero ==
    ASSUME seeds \in Seq(Node)
    PROVE  Within(0) = Start
<1>1. Within(0) \subseteq Start
  BY DEF Within, Paths
<1>2. ASSUME NEW n \in Start PROVE n \in Within(0)
  <2> DEFINE p == [k \in 0 .. 0 |-> n]
  <2>1. p \in Paths(0) /\ p[0] = n
    BY StartIsNode DEF Paths
  <2> QED BY <2>1 DEF Within
<1> QED BY <1>1, <1>2

\* One hop more: a path of d + 1 steps is one of d steps and a step.
LEMMA WithinNext ==
    ASSUME opts \in Options, seeds \in Seq(Node), NEW d \in Nat
    PROVE  /\ Within(d) \subseteq Node
           /\ \A n \in Within(d) : Hop(n) \subseteq Within(d + 1)
           /\ \A m \in Within(d + 1) : \E n \in Within(d) : m \in Hop(n)
<1>1. Within(d) \subseteq Node
  BY DEF Within, Paths
<1>2. ASSUME NEW n \in Within(d), NEW m \in Hop(n) PROVE m \in Within(d + 1)
  <2>1. PICK p \in Paths(d) : p[d] = n
    BY DEF Within
  <2>2. m \in Node
    BY <1>1, HopIsNode
  <2> DEFINE q == [k \in 0 .. d + 1 |-> IF k = d + 1 THEN m ELSE p[k]]
  <2>3. q \in [0 .. d + 1 -> Node] /\ q[0] \in Start /\ q[d + 1] = m
    BY <2>1, <2>2 DEF Paths
  <2>4. ASSUME NEW k \in 1 .. d + 1 PROVE q[k] \in Hop(q[k - 1])
    <3>1. q[k - 1] = p[k - 1]
      OBVIOUS
    <3>2. CASE k = d + 1
      <4>1. q[k] = m /\ k - 1 = d
        BY <3>2
      <4> HIDE DEF q
      <4> QED BY <2>1, <3>1, <4>1
    <3>3. CASE k # d + 1
      <4>1. q[k] = p[k] /\ k \in 1 .. d
        BY <3>3
      <4> HIDE DEF q
      <4> QED BY <2>1, <3>1, <4>1 DEF Paths
    <3> QED BY <3>2, <3>3
  <2>5. q \in Paths(d + 1)
    <3> HIDE DEF q
    <3> QED BY <2>3, <2>4 DEF Paths
  <2> HIDE DEF q
  <2> QED BY <2>3, <2>5 DEF Within
<1>3. ASSUME NEW m \in Within(d + 1) PROVE \E n \in Within(d) : m \in Hop(n)
  <2>1. PICK p \in Paths(d + 1) : p[d + 1] = m
    BY DEF Within
  <2> DEFINE q == [k \in 0 .. d |-> p[k]]
  <2>2. p \in [0 .. d + 1 -> Node] /\ p[0] \in Start /\ \A k \in 1 .. d + 1 : p[k] \in Hop(p[k - 1])
    BY <2>1 DEF Paths
  <2>3. q \in [0 .. d -> Node] /\ q[0] \in Start
    BY <2>2
  <2>4. ASSUME NEW k \in 1 .. d PROVE q[k] \in Hop(q[k - 1])
    <3>1. q[k] = p[k] /\ q[k - 1] = p[k - 1] /\ k \in 1 .. d + 1
      OBVIOUS
    <3> HIDE DEF q
    <3> QED BY <2>2, <3>1
  <2>5. q \in Paths(d) /\ q[d] = p[d]
    <3>1. q[d] = p[d]
      OBVIOUS
    <3> HIDE DEF q
    <3> QED BY <2>3, <2>4, <3>1 DEF Paths
  <2>6. p[d] \in Within(d)
    <3> HIDE DEF q
    <3> QED BY <2>5 DEF Within
  <2>7. p[d + 1] \in Hop(p[d])
    <3>1. d + 1 \in 1 .. d + 1 /\ (d + 1) - 1 = d
      OBVIOUS
    <3> QED BY <2>2, <3>1
  <2> QED BY <2>1, <2>6, <2>7
<1> QED BY <1>1, <1>2, <1>3

\* What is within some hops is within more.
LEMMA WithinGrows ==
    ASSUME opts \in Options, seeds \in Seq(Node), NEW a \in Nat, NEW b \in Nat, a <= b
    PROVE  Within(a) \subseteq Within(b)
<1> DEFINE T == {c \in Nat : Within(a) \subseteq Within(a + c)}
<1>1. 0 \in T
  OBVIOUS
<1>2. ASSUME NEW c \in Nat, c \in T PROVE c + 1 \in T
  <2>1. a + c \in Nat /\ (a + c) + 1 = a + (c + 1)
    OBVIOUS
  <2>2. Within(a + c) \subseteq Within((a + c) + 1)
    BY <2>1, WithinNext, HopIsNode
  <2> QED BY <1>2, <2>1, <2>2
<1>3. b - a \in T /\ a + (b - a) = b
  <2> HIDE DEF T
  <2> QED BY <1>1, <1>2, SetInduction
<1> QED BY <1>3

\* More different names do not stand in fewer places.
Apart(s, n)       == \A i, j \in 1 .. n : s[i] = s[j] => i = j
Among(s, n, t, m) == \A i \in 1 .. n : \E j \in 1 .. m : t[j] = s[i]

LEMMA Pigeonhole ==
    ASSUME NEW m \in Nat, NEW n \in Nat, NEW s, NEW t, Apart(s, n), Among(s, n, t, m)
    PROVE  ~(m < n)
<1> SUFFICES ASSUME m < n PROVE FALSE
  OBVIOUS
<1> DEFINE f == [i \in 1 .. n |-> CHOOSE j \in 1 .. m : t[j] = s[i]]
<1>1. \A i \in 1 .. n : f[i] \in 1 .. m /\ t[f[i]] = s[i]
  BY DEF Among
<1>2. f \in [1 .. n -> 1 .. m]
  BY <1>1
<1>3. /\ IsFiniteSet(1 .. n) /\ Cardinality(1 .. n) = n
      /\ IsFiniteSet(1 .. m) /\ Cardinality(1 .. m) = m
  <2>1. ASSUME NEW b \in Nat PROVE IsFiniteSet(1 .. b) /\ Cardinality(1 .. b) = b
    <3>1. 1 \in Int /\ b \in Int
      OBVIOUS
    <3>2. IsFiniteSet(1 .. b) /\ Cardinality(1 .. b) = IF 1 > b THEN 0 ELSE b - 1 + 1
      BY <3>1, FS_Interval, Zenon
    <3> QED BY <3>2
  <2> QED BY <2>1
<1> DEFINE S == 1 .. n
           T == 1 .. m
<1>4. IsFiniteSet(T) /\ IsFiniteSet(S) /\ Cardinality(T) < Cardinality(S) /\ f \in [S -> T]
  BY <1>2, <1>3
<1> HIDE DEF f
<1>5. \E i, j \in S : i # j /\ f[i] = f[j]
  <2> HIDE DEF S, T
  <2> QED BY <1>4, FS_PigeonHole
<1> QED BY <1>1, <1>5 DEF Apart

----------------------------------------------------------------------------
(* Breadth first.                                                            *)

\* A node was emitted, or is queued, at most d deep.
EmittedBy(n, d) == \E i \in DOMAIN emitted : emitted[i].node = n /\ emitted[i].depth <= d
QueuedBy(n, d)  == \E k \in DOMAIN queue : queue[k].node = n /\ queue[k].depth <= d
Has(n, d)       == EmittedBy(n, d) \/ QueuedBy(n, d)

\* The frontier is in order: its depths grow, by one at most, from those emitted.
InLayers ==
    /\ \A j, k \in DOMAIN queue : j <= k => /\ queue[j].depth <= queue[k].depth
                                            /\ queue[k].depth <= queue[j].depth + 1
    /\ \A i \in DOMAIN emitted : \A k \in DOMAIN queue : emitted[i].depth <= queue[k].depth

\* No node is deeper than its distance allows, and only a seed has no edge behind it.
Near ==
    /\ \A i \in DOMAIN emitted : emitted[i].node \in Within(emitted[i].depth)
    /\ \A k \in DOMAIN queue : /\ queue[k].node \in Within(queue[k].depth)
                               /\ queue[k].via = "none" => \E i \in DOMAIN seeds : seeds[i] = queue[k].node

\* Nothing near is lost: the seeds, and what each node emitted leads to, are emitted
\* or queued; and the budget is not spent.
Kept ==
    /\ visited = Reached
    /\ opts.Max > 0 => Len(emitted) < opts.Max
    /\ \A n \in Start : Has(n, 0)
    /\ \A i \in DOMAIN emitted : emitted[i].depth < opts.Depth =>
          \A e \in opts.Edges : emitted[i].node \in source(e) =>
             \A a \in DOMAIN Answer(e, emitted[i].node) :
                Has(Answer(e, emitted[i].node)[a], emitted[i].depth + 1)

BreadthFirst == Exhaustive => InLayers /\ Near /\ (result = "walking" => Kept)

\* When the frontier is past a depth, every node within it was emitted: a list that
\* was cut at the budget would have had as many different nodes emitted as the budget.
LEMMA Covered ==
    ASSUME TypeOK, Exhaustive, Kept, NEW d \in Nat, d <= opts.Depth,
           \A k \in DOMAIN queue : ~(queue[k].depth <= d)
    PROVE  \A n \in Within(d) : EmittedBy(n, d)
<1> DEFINE T == {c \in Nat : c <= d => \A n \in Within(c) : EmittedBy(n, c)}
<1>1. /\ opts \in Options /\ seeds \in Seq(Node) /\ opts.Depth \in Nat /\ opts.Max \in Nat
      /\ opts.Edges \subseteq Edge
  BY WalkAssumption DEF TypeOK
<1>2. /\ \A k \in DOMAIN queue : queue[k].depth \in Nat
      /\ \A i \in DOMAIN emitted : emitted[i].depth \in Nat /\ emitted[i].node \in Node
      /\ DOMAIN emitted = 1 .. Len(emitted) /\ Len(emitted) \in Nat
  <2>1. \A k \in DOMAIN queue : queue[k] \in Item
    BY DEF TypeOK
  <2>2. /\ \A i \in DOMAIN emitted : emitted[i] \in Visited
        /\ DOMAIN emitted = 1 .. Len(emitted) /\ Len(emitted) \in Nat
    BY DEF TypeOK
  <2> QED BY <1>1, <2>1, <2>2 DEF Item, Visited
<1>3. ASSUME NEW n, NEW c \in Nat, c <= d, Has(n, c) PROVE EmittedBy(n, c)
  BY <1>2, <1>3 DEF Has, QueuedBy
<1>4. 0 \in T
  BY <1>1, <1>3, WithinZero DEF Kept
<1>5. ASSUME NEW c \in Nat, c \in T PROVE c + 1 \in T
  <2> SUFFICES ASSUME c + 1 <= d, NEW m \in Within(c + 1) PROVE EmittedBy(m, c + 1)
    OBVIOUS
  <2>1. PICK n \in Within(c) : m \in Hop(n)
    BY <1>1, WithinNext
  <2>2. PICK i \in DOMAIN emitted : emitted[i].node = n /\ emitted[i].depth <= c
    BY <1>5 DEF EmittedBy
  <2>3. emitted[i].depth \in Nat /\ emitted[i].depth < opts.Depth /\ n \in Node
    <3>1. emitted[i].depth \in Nat /\ n \in Node
      BY <1>2, <2>2
    <3>2. c < opts.Depth
      BY <1>1
    <3> QED BY <1>1, <2>2, <3>1, <3>2
  <2>4. CASE m = n
    BY <2>2, <2>3, <2>4 DEF EmittedBy
  <2>5. CASE m # n
    <3>1. PICK e \in opts.Edges : n \in source(e) /\ m \in Listed(e, n)
      BY <2>1, <2>5 DEF Hop
    <3> DEFINE answer == Answer(e, n)
               list   == List[e][n]
    <3>2. \A a \in DOMAIN answer : EmittedBy(answer[a], c + 1)
      <4> SUFFICES ASSUME NEW a \in DOMAIN answer PROVE EmittedBy(answer[a], c + 1)
        OBVIOUS
      <4>1. Has(answer[a], emitted[i].depth + 1)
        BY <2>2, <2>3, <3>1 DEF Kept
      <4>2. EmittedBy(answer[a], emitted[i].depth + 1)
        BY <1>3, <2>2, <2>3, <4>1
      <4>3. PICK k \in DOMAIN emitted :
               emitted[k].node = answer[a] /\ emitted[k].depth <= emitted[i].depth + 1
        BY <4>2 DEF EmittedBy
      <4>4. emitted[k].depth <= c + 1
        <5> DEFINE di == emitted[i].depth
                   dk == emitted[k].depth
        <5>1. di \in Nat /\ dk \in Nat /\ di <= c /\ dk <= di + 1
          BY <1>2, <2>2, <4>3
        <5> HIDE DEF di, dk
        <5>2. dk <= c + 1
          BY <5>1
        <5> QED BY <5>2 DEF dk
      <4> QED BY <4>3, <4>4 DEF EmittedBy
    <3>3. /\ answer \in Seq(Target(e)) /\ list \in Seq(Target(e))
          /\ \A a \in DOMAIN answer : a \in DOMAIN list /\ answer[a] = list[a]
          /\ Len(answer) = Len(list) \/ (opts.Max > 0 /\ Len(answer) = opts.Max)
      BY <1>1, <3>1, AnswerIs DEF Exhaustive
    <3>4. \A a, b \in DOMAIN list : list[a] = list[b] => a = b
      BY <1>1, <3>1 DEF Exhaustive, WholeLists
    <3> HIDE DEF answer
    <3>5. Len(answer) = Len(list)
      <4> SUFFICES ASSUME opts.Max > 0, Len(answer) = opts.Max PROVE FALSE
        BY <3>3
      <4> DEFINE nodes == [k \in 1 .. Len(emitted) |-> emitted[k].node]
      <4>1. Len(emitted) < Len(answer) /\ Len(answer) \in Nat /\ DOMAIN answer = 1 .. Len(answer)
        BY <1>1, <3>3 DEF Kept
      <4>2. \A a, b \in 1 .. Len(answer) : answer[a] = answer[b] => a = b
        BY <3>3, <3>4, <4>1
      <4>3. \A a \in 1 .. Len(answer) : \E k \in 1 .. Len(emitted) : nodes[k] = answer[a]
        BY <1>2, <3>2, <4>1 DEF EmittedBy
      <4> DEFINE M == Len(emitted)
                 N == Len(answer)
      <4>4. M \in Nat /\ N \in Nat /\ M < N
        BY <1>2, <4>1
      <4> HIDE DEF nodes, M, N
      <4>5. Apart(answer, N) /\ Among(answer, N, nodes, M)
        BY <4>2, <4>3 DEF M, N, Apart, Among
      <4> QED BY <4>4, <4>5, Pigeonhole
    <3>6. PICK a \in DOMAIN list : list[a] = m
      BY <3>1 DEF Listed
    <3>7. a \in DOMAIN answer /\ answer[a] = m
      BY <3>3, <3>5, <3>6
    <3> QED BY <3>2, <3>7
  <2> QED BY <2>4, <2>5
<1>6. d \in T
  <2> HIDE DEF T
  <2> QED BY <1>4, <1>5, SetInduction
<1> QED BY <1>6

\* A turn takes the head of the frontier and enqueues items one hop further.
Takes(items) == /\ queue # <<>> /\ queue' = Tail(queue) \o items
                /\ UNCHANGED <<seeds, opts>>
                /\ emitted' = emitted \/ emitted' = Append(emitted, Record)
                /\ \A x \in Elements(items) : x.depth = Asked.depth + 1 /\ x.node \in Hop(Found)
                                            /\ x.via \in Edge

\* What is queued after a turn was queued behind the head, or is one of the items.
LEMMA QueueStep ==
    ASSUME TypeOK, NEW items \in Seq(Item), Takes(items)
    PROVE  /\ \A k \in DOMAIN queue' :
                 \/ k + 1 \in DOMAIN queue /\ queue'[k] = queue[k + 1]
                 \/ k >= Len(queue) /\ queue'[k] \in Elements(items)
           /\ \A k \in DOMAIN queue : k # 1 => \E j \in DOMAIN queue' : queue'[j] = queue[k]
           /\ \A x \in Elements(items) : \E j \in DOMAIN queue' : queue'[j] = x
           /\ 1 \in DOMAIN queue /\ Asked = queue[1] /\ Asked \in Item
           /\ \A k \in DOMAIN queue : k \in Nat /\ 1 <= k /\ k <= Len(queue)
           /\ \A k \in DOMAIN queue' : k \in Nat /\ 1 <= k
<1> DEFINE t == Tail(queue)
           L == Len(queue)
<1>1. /\ t \in Seq(Item) /\ Len(t) = L - 1 /\ 1 \in DOMAIN queue
      /\ \A i \in DOMAIN t : i + 1 \in DOMAIN queue /\ t[i] = queue[i + 1]
      /\ Head(queue) = queue[1] /\ Head(queue) \in Item
  BY HeadAndTail DEF TypeOK, Takes
<1>2. L \in Nat /\ L >= 1 /\ DOMAIN queue = 1 .. L /\ Len(items) \in Nat
  BY <1>1 DEF TypeOK
<1> HIDE DEF t, L
<1>3. /\ queue' = t \o items /\ Len(t \o items) = Len(t) + Len(items)
      /\ \A i \in 1 .. Len(t) + Len(items) :
            (t \o items)[i] = IF i <= Len(t) THEN t[i] ELSE items[i - Len(t)]
      /\ t \o items \in Seq(Item)
  BY <1>1, ConcatProperties DEF Takes, t
<1>4. /\ DOMAIN queue' = 1 .. (L - 1) + Len(items) /\ DOMAIN t = 1 .. L - 1
      /\ DOMAIN items = 1 .. Len(items)
  BY <1>1, <1>2, <1>3
<1>5. ASSUME NEW k \in DOMAIN queue'
      PROVE  \/ k + 1 \in DOMAIN queue /\ queue'[k] = queue[k + 1]
             \/ k >= L /\ queue'[k] \in Elements(items)
  <2>1. CASE k <= L - 1
    BY <1>1, <1>2, <1>3, <1>4, <2>1
  <2>2. CASE ~(k <= L - 1)
    <3>1. k >= L /\ k - (L - 1) \in DOMAIN items /\ k \in 1 .. Len(t) + Len(items)
      BY <1>1, <1>2, <1>4, <2>2
    <3>2. queue'[k] = items[k - (L - 1)]
      BY <1>1, <1>3, <2>2, <3>1
    <3> QED BY <3>1, <3>2 DEF Elements
  <2> QED BY <2>1, <2>2
<1>6. ASSUME NEW k \in DOMAIN queue, k # 1 PROVE \E j \in DOMAIN queue' : queue'[j] = queue[k]
  <2>1. k - 1 \in DOMAIN queue' /\ k - 1 \in DOMAIN t /\ (k - 1) + 1 = k /\ k - 1 <= Len(t)
    BY <1>1, <1>2, <1>4, <1>6
  <2>2. queue'[k - 1] = t[k - 1]
    BY <1>1, <1>2, <1>3, <1>4, <2>1
  <2>3. t[k - 1] = queue[(k - 1) + 1]
    BY <1>1, <2>1
  <2> QED BY <2>1, <2>2, <2>3
<1>7. ASSUME NEW j \in DOMAIN items PROVE \E k \in DOMAIN queue' : queue'[k] = items[j]
  <2>1. /\ (L - 1) + j \in DOMAIN queue' /\ ((L - 1) + j) - (L - 1) = j
        /\ ~((L - 1) + j <= L - 1)
    BY <1>2, <1>4
  <2>2. queue'[(L - 1) + j] = items[j]
    BY <1>1, <1>2, <1>3, <1>4, <2>1
  <2> QED BY <2>1, <2>2
<1>8. \A x \in Elements(items) : \E j \in DOMAIN queue' : queue'[j] = x
  BY <1>7 DEF Elements
<1>9. \A k \in DOMAIN queue' : k \in Nat /\ 1 <= k
  BY <1>2, <1>4
<1> QED BY <1>1, <1>2, <1>5, <1>6, <1>8, <1>9 DEF L, Asked

\* What is emitted after a turn was, or is the node it found.
LEMMA EmittedStep ==
    ASSUME TypeOK, NEW items \in Seq(Item), Takes(items)
    PROVE  /\ \A i \in DOMAIN emitted : i \in DOMAIN emitted' /\ emitted'[i] = emitted[i]
           /\ \A i \in DOMAIN emitted' :
                 \/ i \in DOMAIN emitted /\ emitted'[i] = emitted[i]
                 \/ emitted' = Append(emitted, Record) /\ i = Len(emitted) + 1
                    /\ emitted'[i] = Record
           /\ Record.node = Found /\ Record.depth = Asked.depth
           /\ emitted' = Append(emitted, Record) =>
                 Len(emitted) + 1 \in DOMAIN emitted' /\ emitted'[Len(emitted) + 1] = Record
<1>1. Record.node = Found /\ Record.depth = Asked.depth
  BY DEF Record
<1>2. DOMAIN emitted = 1 .. Len(emitted) /\ Len(emitted) \in Nat /\ emitted \in Seq(Visited)
  BY DEF TypeOK
<1>3. Record \in Visited
  <2>1. Asked \in Item
    BY HeadAndTail DEF TypeOK, Takes, Asked
  <2>2. Found \in Node
    BY <2>1, GraphAssumption DEF Found, hydrate, Item, Node
  <2> QED BY <2>1, <2>2 DEF Record, Item, Visited
<1>4. CASE emitted' = emitted
  <2>1. Len(emitted) + 1 \notin DOMAIN emitted
    BY <1>2
  <2> DEFINE x == Append(emitted, Record)
  <2>2. Len(emitted) + 1 \in DOMAIN x
    <3> HIDE DEF Record
    <3> QED BY <1>2, <1>3
  <2>3. emitted' # x
    BY <1>4, <2>1, <2>2
  <2> QED BY <1>1, <1>4, <2>3
<1>5. CASE emitted' = Append(emitted, Record)
  <2> HIDE DEF Record
  <2>1. /\ DOMAIN emitted' = 1 .. Len(emitted) + 1
        /\ \A i \in 1 .. Len(emitted) : emitted'[i] = emitted[i]
        /\ emitted'[Len(emitted) + 1] = Record
    BY <1>2, <1>3, <1>5
  <2> QED BY <1>1, <1>2, <1>5, <2>1
<1> QED BY <1>4, <1>5 DEF Takes

\* The depths are numbers within the limit of the walk.
LEMMA Depths ==
    ASSUME TypeOK
    PROVE  /\ \A k \in DOMAIN queue : queue[k].depth \in Nat /\ queue[k].node \in Node
           /\ \A i \in DOMAIN emitted : emitted[i].depth \in Nat /\ emitted[i].depth <= opts.Depth
           /\ opts \in Options /\ opts.Depth \in Nat /\ opts.Max \in Nat
           /\ opts.Edges \subseteq Edge /\ seeds \in Seq(Node)
<1>1. /\ opts \in Options /\ opts.Depth \in Nat /\ opts.Max \in Nat
      /\ opts.Edges \subseteq Edge /\ seeds \in Seq(Node)
  BY WalkAssumption DEF TypeOK
<1>2. \A k \in DOMAIN queue : queue[k] \in Item
  BY DEF TypeOK
<1>3. \A i \in DOMAIN emitted : emitted[i] \in Visited
  BY DEF TypeOK
<1> QED BY <1>1, <1>2, <1>3 DEF Item, Visited

\* The frontier stays in order.
LEMMA LayersStep ==
    ASSUME TypeOK, InLayers, NEW items \in Seq(Item), Takes(items)
    PROVE  InLayers'
<1> DEFINE L == Len(queue)
           h == Asked.depth
           D(k) == queue[k].depth
           E(i) == emitted[i].depth
<1>1. /\ h \in Nat /\ \A k \in DOMAIN queue : D(k) \in Nat
      /\ \A k \in DOMAIN queue : k \in Nat /\ h <= D(k) /\ D(k) <= h + 1
      /\ \A j, k \in DOMAIN queue : j <= k => D(j) <= D(k) /\ D(k) <= D(j) + 1
      /\ \A i \in DOMAIN emitted : E(i) \in Nat /\ E(i) <= h
      /\ \A i \in DOMAIN emitted : \A k \in DOMAIN queue : E(i) <= D(k)
  BY Depths, QueueStep DEF InLayers
<1>2. \A k \in DOMAIN queue' :
         \/ k + 1 \in DOMAIN queue /\ queue'[k].depth = D(k + 1)
         \/ k >= L /\ queue'[k].depth = h + 1
  BY QueueStep DEF Takes
<1>3. \A i \in DOMAIN emitted' :
         \/ i \in DOMAIN emitted /\ emitted'[i].depth = E(i)
         \/ emitted'[i].depth = h
  BY EmittedStep
<1>4. \A k \in DOMAIN queue' : k \in Nat
  BY QueueStep
<1>5. L \in Nat /\ \A k \in DOMAIN queue : k <= L
  BY QueueStep DEF TypeOK
<1> HIDE DEF L, h, D, E
<1>6. ASSUME NEW j \in DOMAIN queue', NEW k \in DOMAIN queue', j <= k
      PROVE  queue'[j].depth <= queue'[k].depth /\ queue'[k].depth <= queue'[j].depth + 1
  <2>1. CASE k + 1 \in DOMAIN queue /\ queue'[k].depth = D(k + 1)
    <3>1. j + 1 \in DOMAIN queue /\ queue'[j].depth = D(j + 1)
      <4>1. ~(j >= L)
        BY <1>4, <1>5, <1>6, <2>1
      <4> QED BY <1>2, <4>1
    <3>2. j + 1 <= k + 1
      BY <1>4, <1>6
    <3> QED BY <1>1, <2>1, <3>1, <3>2
  <2>2. CASE queue'[k].depth = h + 1
    <3>1. CASE j + 1 \in DOMAIN queue /\ queue'[j].depth = D(j + 1)
      <4>1. D(j + 1) \in Nat /\ h <= D(j + 1) /\ D(j + 1) <= h + 1
        BY <1>1, <3>1
      <4> QED BY <1>1, <2>2, <3>1, <4>1
    <3>2. CASE queue'[j].depth = h + 1
      BY <1>1, <2>2, <3>2
    <3> QED BY <1>2, <3>1, <3>2
  <2> QED BY <1>2, <2>1, <2>2
<1>7. ASSUME NEW i \in DOMAIN emitted', NEW k \in DOMAIN queue'
      PROVE  emitted'[i].depth <= queue'[k].depth
  <2>1. emitted'[i].depth \in Nat /\ emitted'[i].depth <= h
    BY <1>1, <1>3
  <2>2. CASE k + 1 \in DOMAIN queue /\ queue'[k].depth = D(k + 1)
    <3>1. D(k + 1) \in Nat /\ h <= D(k + 1)
      BY <1>1, <2>2
    <3> QED BY <1>1, <2>1, <2>2, <3>1
  <2>3. CASE queue'[k].depth = h + 1
    BY <1>1, <2>1, <2>3
  <2> QED BY <1>2, <2>2, <2>3
<1> QED BY <1>6, <1>7 DEF InLayers

\* The distances are those of the arguments, which no step changes.
LEMMA SameWithin ==
    ASSUME UNCHANGED <<seeds, opts>>
    PROVE  /\ \A d : Within(d)' = Within(d)
           /\ Start' = Start /\ NoAlias' = NoAlias
           /\ \A e, n : Answer(e, n)' = Answer(e, n)
BY DEF Within, Paths, Hop, Listed, Start, NoAlias, Answer, Limit, hydrate, SeedItem

\* With no redirect among the seeds the head of the frontier is the node it names.
LEMMA FoundIsAsked ==
    ASSUME TypeOK, queue # <<>>, Near, NoAlias
    PROVE  Found = Asked.node /\ Found \in Node /\ Found \in Within(Asked.depth)
<1>1. 1 \in DOMAIN queue /\ Asked = queue[1] /\ Asked \in Item
  BY HeadAndTail DEF TypeOK, Asked
<1>2. /\ Asked.node \in Within(Asked.depth) /\ Asked.node \in Node
      /\ Asked.via = "none" => \E i \in DOMAIN seeds : seeds[i] = Asked.node
  BY <1>1 DEF Near, Item
<1>3. CASE Asked.via = "none" /\ Asked.node \in Page
  <2>1. PICK i \in DOMAIN seeds : seeds[i] = Asked.node
    BY <1>2, <1>3
  <2>2. hydrate(SeedItem(seeds[i])) = seeds[i]
    BY DEF NoAlias
  <2>3. hydrate(SeedItem(seeds[i])) = RedirectTo[seeds[i]]
    BY <1>3, <2>1 DEF hydrate, SeedItem
  <2> QED BY <1>2, <1>3, <2>1, <2>2, <2>3 DEF Found, hydrate
<1>4. CASE ~(Asked.via = "none" /\ Asked.node \in Page)
  BY <1>2, <1>4 DEF Found, hydrate
<1> QED BY <1>3, <1>4

\* No node comes nearer than it is.
LEMMA NearStep ==
    ASSUME TypeOK, Near, NoAlias, NEW items \in Seq(Item), Takes(items)
    PROVE  Near'
<1>1. /\ Found = Asked.node /\ Found \in Within(Asked.depth)
      /\ Asked.depth \in Nat /\ opts \in Options /\ seeds \in Seq(Node)
  BY FoundIsAsked, Depths, QueueStep DEF Takes
<1>2. /\ \A d : Within(d)' = Within(d)
      /\ seeds' = seeds
  BY SameWithin DEF Takes
<1>3. Hop(Found) \subseteq Within(Asked.depth + 1)
  BY <1>1, WithinNext
<1>4. ASSUME NEW i \in DOMAIN emitted' PROVE emitted'[i].node \in Within(emitted'[i].depth)
  <2>1. CASE i \in DOMAIN emitted /\ emitted'[i] = emitted[i]
    BY <2>1 DEF Near
  <2>2. CASE emitted'[i] = Record
    BY <1>1, <2>2, EmittedStep
  <2> QED BY <2>1, <2>2, EmittedStep
<1>5. ASSUME NEW k \in DOMAIN queue'
      PROVE  /\ queue'[k].node \in Within(queue'[k].depth)
             /\ queue'[k].via = "none" => \E i \in DOMAIN seeds : seeds[i] = queue'[k].node
  <2>1. CASE k + 1 \in DOMAIN queue /\ queue'[k] = queue[k + 1]
    BY <2>1 DEF Near
  <2>2. CASE queue'[k] \in Elements(items)
    BY <1>3, <2>2 DEF Takes, Edge
  <2> QED BY <2>1, <2>2, QueueStep
<1> QED BY <1>2, <1>4, <1>5 DEF Near

\* A turn loses nothing when the node it takes was emitted, now or before.
LEMMA HasStep ==
    ASSUME TypeOK, NEW items \in Seq(Item), Takes(items),
           \E i \in DOMAIN emitted' :
              emitted'[i].node = Asked.node /\ emitted'[i].depth <= Asked.depth
    PROVE  \A n : \A d \in Nat : Has(n, d) => Has(n, d)'
<1> SUFFICES ASSUME NEW n, NEW d \in Nat, Has(n, d) PROVE EmittedBy(n, d)' \/ QueuedBy(n, d)'
  BY DEF Has
<1>1. CASE EmittedBy(n, d)
  BY <1>1, EmittedStep DEF EmittedBy
<1>2. CASE QueuedBy(n, d)
  <2>1. PICK k \in DOMAIN queue : queue[k].node = n /\ queue[k].depth <= d
    BY <1>2 DEF QueuedBy
  <2>2. CASE k = 1
    <3>1. PICK i \in DOMAIN emitted' : emitted'[i].node = n /\ emitted'[i].depth <= Asked.depth
      BY <2>1, <2>2, QueueStep
    <3>2. Asked.depth \in Nat /\ Asked.depth <= d
      BY <2>1, <2>2, QueueStep, Depths
    <3>3. emitted'[i].depth \in Nat
      BY <3>2, EmittedStep, Depths
    <3>4. emitted'[i].depth <= d
      <4> DEFINE x == emitted'[i].depth
                 y == Asked.depth
      <4>1. x \in Nat /\ y \in Nat /\ x <= y /\ y <= d
        BY <3>1, <3>2, <3>3
      <4> HIDE DEF x, y
      <4>2. x <= d
        BY <4>1
      <4> QED BY <4>2 DEF x
    <3> QED BY <3>1, <3>4 DEF EmittedBy
  <2>3. CASE k # 1
    BY <2>1, <2>3, QueueStep DEF QueuedBy
  <2> QED BY <2>2, <2>3
<1> QED BY <1>1, <1>2 DEF Has

\* Taking an item for a node that was seen loses nothing.
LEMMA SkipKeeps ==
    ASSUME TypeOK, InLayers, Kept, Skip
    PROVE  Takes(<<>>) /\ Kept'
<1>1. Takes(<<>>) /\ <<>> \in Seq(Item)
  <2>1. Tail(queue) \o <<>> = Tail(queue)
    BY HeadAndTail, ConcatEmptySeq DEF TypeOK, Skip, Live
  <2> QED BY <2>1 DEF Takes, Skip, Live, Elements
<1>2. UNCHANGED <<seeds, opts, visited, emitted>>
  BY DEF Skip
<1>3. 1 \in DOMAIN queue /\ Asked = queue[1]
  BY <1>1, QueueStep
<1>4. PICK i \in DOMAIN emitted : emitted[i].node = Asked.node
  BY DEF Kept, Reached, Skip, Asked
<1>5. emitted[i].depth <= Asked.depth
  BY <1>3 DEF InLayers
<1>6. \A n : \A d \in Nat : Has(n, d) => Has(n, d)'
  BY <1>1, <1>2, <1>4, <1>5, HasStep
<1>7. \A k \in DOMAIN emitted : emitted[k].depth + 1 \in Nat
  BY Depths
<1>8. Start' = Start /\ Reached' = Reached /\ \A e, n : Answer(e, n)' = Answer(e, n)
  BY <1>2, SameWithin DEF Reached
<1>9. \A n \in Start : Has(n, 0)'
  BY <1>6 DEF Kept
<1>10. ASSUME NEW k \in DOMAIN emitted, emitted[k].depth < opts.Depth,
              NEW e \in opts.Edges, emitted[k].node \in source(e),
              NEW a \in DOMAIN Answer(e, emitted[k].node)
       PROVE  Has(Answer(e, emitted[k].node)[a], emitted[k].depth + 1)'
  <2> DEFINE n == Answer(e, emitted[k].node)[a]
             d == emitted[k].depth + 1
  <2>1. Has(n, d)
    BY <1>10 DEF Kept
  <2> QED
    BY <1>2, <1>6, <1>7, <1>8, <2>1
<1> QED BY <1>1, <1>2, <1>8, <1>9, <1>10 DEF Kept

\* The turns of a visit.
LEMMA VisitTakes ==
    ASSUME TypeOK, Visit
    PROVE  /\ Refused \/ BudgetEnds => Takes(<<>>)
           /\ \A items \in Seq(Item) : GoesOn(items) => Takes(items)
<1>1. queue # <<>> /\ UNCHANGED <<seeds, opts>>
  BY VisitOutcomes
<1>2. Tail(queue) \o <<>> = Tail(queue) /\ Elements(<<>>) = {}
  BY <1>1, HeadAndTail, ConcatEmptySeq DEF TypeOK, Elements
<1> QED BY <1>1, <1>2 DEF Refused, BudgetEnds, GoesOn, Takes

\* A visit that goes on loses nothing: the node is emitted, what it leads to is queued.
LEMMA VisitKeeps ==
    ASSUME TypeOK, Near, NoAlias, Kept, Visit, ~failed',
           NEW items \in Seq(Item), GoesOn(items)
    PROVE  Kept'
<1>1. Takes(items) /\ emitted' = Append(emitted, Record)
  BY VisitTakes DEF GoesOn
<1>2. /\ UNCHANGED <<seeds, opts>> /\ visited' = visited \cup {Asked.node, Found}
      /\ queue # <<>>
  BY VisitOutcomes
<1>3. Found = Asked.node
  BY <1>2, FoundIsAsked
<1>4. /\ Len(emitted) + 1 \in DOMAIN emitted' /\ emitted'[Len(emitted) + 1] = Record
      /\ Record.node = Found /\ Record.depth = Asked.depth
  BY <1>1, EmittedStep
<1>5. Asked.depth \in Nat
  BY <1>1, QueueStep, Depths
<1>6. \A n : \A d \in Nat : Has(n, d) => Has(n, d)'
  BY <1>1, <1>3, <1>4, <1>5, HasStep
<1>7. visited' = Reached'
  <2>1. Reached' = Reached \cup {Found}
    BY <1>1, <1>4, EmittedStep DEF Reached
  <2> QED BY <1>2, <1>3, <2>1 DEF Kept
<1>8. (opts.Max > 0 => Len(emitted) < opts.Max)'
  <2>1. Len(emitted') = Len(emitted) + 1
    <3>1. Record \in Visited
      BY VisitOutcomes
    <3> HIDE DEF Record
    <3> QED BY <1>1, <3>1 DEF TypeOK
  <2> QED BY <1>2, <2>1 DEF GoesOn
<1>9. Start' = Start /\ \A e, n : Answer(e, n)' = Answer(e, n)
  BY <1>2, SameWithin
<1>10. \A n \in Start : Has(n, 0)'
  BY <1>6 DEF Kept
<1>11. ASSUME NEW i \in DOMAIN emitted', NEW e \in opts.Edges, NEW d, NEW n, NEW m,
              n = emitted'[i].node, d = emitted'[i].depth, d < opts.Depth, n \in source(e),
              NEW a \in DOMAIN Answer(e, n), m = Answer(e, n)[a]
       PROVE  Has(m, d + 1)'
  <2>1. CASE i \in DOMAIN emitted /\ emitted'[i] = emitted[i]
    <3>1. Has(m, d + 1)
      BY <1>11, <2>1 DEF Kept
    <3>2. d + 1 \in Nat
      BY <1>11, <2>1, Depths
    <3> QED BY <1>6, <3>1, <3>2
  <2>2. CASE emitted'[i] = Record
    <3>1. n = Found /\ d = Asked.depth
      BY <1>4, <1>11, <2>2
    <3>2. PICK x \in Elements(items) : x.node = m
      <4>1. Asked.depth < opts.Depth /\ Found \in source(e) /\ a \in DOMAIN Answer(e, Found)
        BY <1>11, <3>1
      <4>2. Asked.depth < opts.Depth =>
               \A y \in opts.Edges : Found \in source(y) =>
                  \A j \in DOMAIN Answer(y, Found) :
                     \E x \in Elements(items) : x.node = Answer(y, Found)[j]
        BY Zenon DEF GoesOn
      <4>3. \E x \in Elements(items) : x.node = Answer(e, Found)[a]
        BY <1>11, <4>1, <4>2
      <4> QED BY <1>11, <3>1, <4>3
    <3>3. PICK j \in DOMAIN queue' : queue'[j] = x
      BY <1>1, QueueStep
    <3>4. x.depth = d + 1 /\ d + 1 <= d + 1
      BY <1>1, <1>5, <3>1 DEF Takes
    <3>5. QueuedBy(m, d + 1)'
      BY <3>2, <3>3, <3>4 DEF QueuedBy
    <3> QED BY <3>5 DEF Has
  <2> QED BY <1>1, <2>1, <2>2, EmittedStep
<1>12. ASSUME NEW i \in DOMAIN emitted', emitted'[i].depth < opts.Depth,
              NEW e \in opts.Edges, emitted'[i].node \in source(e),
              NEW a \in DOMAIN Answer(e, emitted'[i].node)
       PROVE  Has(Answer(e, emitted[i].node)[a], emitted[i].depth + 1)'
  <2>1. \A n, d, m : n = emitted'[i].node /\ d = emitted'[i].depth /\ m = Answer(e, n)[a]
                        => Has(m, d + 1)'
    BY <1>11, <1>12
  <2> QED BY <1>9, <2>1
<1> QED BY <1>2, <1>7, <1>8, <1>9, <1>10, <1>12 DEF Kept

\* Every step keeps the walk breadth first.
LEMMA BreadthNext == TypeOK /\ BreadthFirst /\ [Next]_vars => BreadthFirst'
<1> SUFFICES ASSUME TypeOK, BreadthFirst, [Next]_vars, Exhaustive'
             PROVE  InLayers' /\ Near' /\ (result = "walking" => Kept)'
  BY DEF BreadthFirst
<1>1. <<>> \in Seq(Item)
  OBVIOUS
<1>2. CASE Skip
  <2>1. UNCHANGED <<seeds, opts, failed>> /\ result = "walking"
    BY <1>2 DEF Skip, Live
  <2>2. InLayers /\ Near /\ Kept /\ NoAlias
    BY <2>1, SameWithin DEF BreadthFirst, Exhaustive
  <2>3. Takes(<<>>) /\ Kept'
    BY <1>2, <2>2, SkipKeeps
  <2> QED BY <1>1, <2>2, <2>3, LayersStep, NearStep
<1>3. CASE SeedFails
  <2>1. UNCHANGED <<seeds, opts, failed, emitted>> /\ queue # <<>> /\ result' = "seed"
        /\ queue' = Tail(queue)
    BY <1>3 DEF SeedFails, Live
  <2>2. InLayers /\ Near /\ NoAlias
    BY <2>1, SameWithin DEF BreadthFirst, Exhaustive
  <2>3. Takes(<<>>)
    <3>1. Tail(queue) \o <<>> = Tail(queue)
      BY <2>1, HeadAndTail, ConcatEmptySeq DEF TypeOK
    <3> QED BY <2>1, <3>1 DEF Takes, Elements
  <2> QED BY <1>1, <2>1, <2>2, <2>3, LayersStep, NearStep
<1>4. CASE Visit
  <2>1. /\ UNCHANGED <<seeds, opts>> /\ result = "walking"
        /\ Refused \/ BudgetEnds \/ \E items \in Seq(Item) : GoesOn(items)
    BY <1>4, VisitOutcomes
  <2>2. ~failed
    <3>1. ~failed'
      BY DEF Exhaustive
    <3>2. Refused \/ BudgetEnds => failed' = failed
      BY DEF Refused, BudgetEnds
    <3>3. \A items : GoesOn(items) => ~failed
      BY <3>1, Zenon DEF GoesOn
    <3> QED BY <2>1, <3>1, <3>2, <3>3, Zenon
  <2>3. InLayers /\ Near /\ Kept /\ NoAlias /\ ~failed'
    BY <2>1, <2>2, SameWithin DEF BreadthFirst, Exhaustive
  <2>4. CASE Refused \/ BudgetEnds
    <3>1. Takes(<<>>) /\ result' # "walking"
      BY <1>4, <2>4, VisitTakes DEF Refused, BudgetEnds
    <3> QED BY <1>1, <2>3, <3>1, LayersStep, NearStep
  <2>5. CASE \E items \in Seq(Item) : GoesOn(items)
    <3>1. PICK items \in Seq(Item) : GoesOn(items)
      BY <2>5
    <3>2. Takes(items)
      BY <1>4, <3>1, VisitTakes
    <3>3. Kept'
      BY <1>4, <2>3, <3>1, VisitKeeps
    <3> QED BY <2>3, <3>2, <3>3, LayersStep, NearStep
  <2> QED BY <2>1, <2>4, <2>5
<1>5. CASE SeesCancel \/ QueueEmpty \/ Cancel \/ UNCHANGED vars
  <2>1. /\ UNCHANGED <<seeds, opts, queue, visited, emitted, failed>>
        /\ result' = "walking" => result = "walking"
    BY <1>5 DEF SeesCancel, QueueEmpty, Cancel, vars
  <2>2. InLayers /\ Near /\ (result = "walking" => Kept)
    BY <2>1, SameWithin DEF BreadthFirst, Exhaustive
  <2>3. InLayers'
    BY <2>1, <2>2 DEF InLayers
  <2>4. Near'
    BY <2>1, <2>2, SameWithin DEF Near
  <2>5. Kept => Kept'
    <3>1. \A n, d : Has(n, d)' = Has(n, d)
      BY <2>1 DEF Has, EmittedBy, QueuedBy
    <3>2. Start' = Start /\ \A e, n : Answer(e, n)' = Answer(e, n)
      BY <2>1, SameWithin
    <3> QED BY <2>1, <3>1, <3>2 DEF Kept, Reached
  <2> QED BY <2>1, <2>2, <2>3, <2>4, <2>5
<1> QED BY <1>2, <1>3, <1>4, <1>5 DEF Next, Loop, Terminated

LEMMA BreadthInit == Init => BreadthFirst
<1> SUFFICES ASSUME Init, Exhaustive PROVE InLayers /\ Near /\ Kept
  BY DEF BreadthFirst
<1>1. TypeOK /\ emitted = <<>> /\ DOMAIN emitted = {} /\ Len(emitted) = 0 /\ visited = {}
  BY TypeInit DEF Init
<1>2. /\ DOMAIN queue = DOMAIN seeds
      /\ \A i \in DOMAIN seeds : queue[i].node = seeds[i] /\ queue[i].depth = 0
  BY DEF Init, SeedItem
<1>3. /\ opts.Max \in Nat /\ seeds \in Seq(Node) /\ Within(0) = Start
      /\ Start = {seeds[i] : i \in DOMAIN seeds}
  BY <1>1, Depths, WithinZero, StartIsNode DEF Exhaustive
<1>4. InLayers
  BY <1>1, <1>2 DEF InLayers
<1>5. Near
  BY <1>1, <1>2, <1>3 DEF Near
<1>6. \A n \in Start : Has(n, 0)
  BY <1>2, <1>3 DEF Has, QueuedBy
<1> QED BY <1>1, <1>3, <1>4, <1>5, <1>6 DEF Kept, Reached

\* What is emitted stays where it is, and one node more may follow it.
LEMMA EmittedGrows ==
    ASSUME TypeOK, [Next]_vars
    PROVE  /\ UNCHANGED <<seeds, opts>> /\ (~failed' => ~failed)
           /\ \/ UNCHANGED emitted
              \/ /\ queue # <<>> /\ result = "walking"
                 /\ DOMAIN emitted = 1 .. Len(emitted) /\ DOMAIN emitted' = 1 .. Len(emitted) + 1
                 /\ \A i \in DOMAIN emitted : emitted'[i] = emitted[i]
                 /\ emitted'[Len(emitted) + 1].depth = Asked.depth
<1>1. CASE Visit
  <2>1. UNCHANGED <<seeds, opts>> /\ queue # <<>> /\ result = "walking"
    BY <1>1, VisitOutcomes
  <2>2. CASE Refused
    BY <2>1, <2>2 DEF Refused
  <2>3. CASE ~Refused
    <3>1. Record.depth = Asked.depth
      BY DEF Record
    <3>2. ~failed' => ~failed
      <4>1. BudgetEnds => failed' = failed
        BY DEF BudgetEnds
      <4>2. \A items : GoesOn(items) => (~failed' => ~failed)
        BY Zenon DEF GoesOn
      <4>3. BudgetEnds \/ \E items : GoesOn(items)
        BY <1>1, <2>3, VisitOutcomes
      <4> QED BY <4>1, <4>2, <4>3, Zenon
    <3> QED BY <1>1, <2>1, <2>3, <3>1, <3>2, EmitsOne
  <2> QED BY <2>2, <2>3
<1>2. CASE ~Visit
  BY <1>2 DEF Next, Loop, Terminated, Skip, SeedFails, SeesCancel, QueueEmpty, Cancel, vars
<1> QED BY <1>1, <1>2

LEMMA NearestNext ==
    TypeOK /\ BreadthFirst /\ NearestFirst /\ [Next]_vars => NearestFirst'
<1> SUFFICES ASSUME TypeOK, BreadthFirst, NearestFirst, [Next]_vars, Exhaustive',
                    NEW j \in DOMAIN emitted', NEW d, d = emitted'[j].depth
             PROVE  /\ emitted'[j].node \in Within(d)'
                    /\ d > 0 => Within(d - 1)' \subseteq {emitted'[i].node : i \in 1 .. j - 1}
  BY DEF NearestFirst
<1>1. /\ \A c : Within(c)' = Within(c)
      /\ Exhaustive /\ InLayers /\ TypeOK'
  <2>1. UNCHANGED <<seeds, opts>> /\ (~failed' => ~failed) /\ TypeOK'
    BY EmittedGrows, TypeNext
  <2>2. Exhaustive
    BY <2>1, SameWithin, Zenon DEF Exhaustive
  <2> QED BY <2>1, <2>2, SameWithin DEF BreadthFirst
<1>2. Near'
  BY BreadthNext DEF BreadthFirst
<1>3. emitted'[j].node \in Within(d)'
  BY <1>1, <1>2 DEF Near
<1>4. ASSUME d > 0 PROVE Within(d - 1) \subseteq {emitted'[i].node : i \in 1 .. j - 1}
  <2>1. ASSUME j \in DOMAIN emitted, \A i \in DOMAIN emitted : emitted'[i] = emitted[i]
        PROVE  Within(d - 1) \subseteq {emitted'[i].node : i \in 1 .. j - 1}
    <3>1. \A i \in 1 .. j - 1 : i \in DOMAIN emitted
      BY <2>1 DEF TypeOK
    <3>2. Within(d - 1) \subseteq {emitted[i].node : i \in 1 .. j - 1}
      BY <1>1, <1>4, <2>1 DEF NearestFirst
    <3> QED BY <2>1, <3>1, <3>2
  <2>2. ASSUME queue # <<>>, result = "walking", j = Len(emitted) + 1,
               DOMAIN emitted = 1 .. Len(emitted), d = Asked.depth,
               \A i \in DOMAIN emitted : emitted'[i] = emitted[i]
        PROVE  Within(d - 1) \subseteq {emitted'[i].node : i \in 1 .. j - 1}
    <3>1. /\ 1 \in DOMAIN queue /\ Asked = queue[1]
          /\ \A k \in DOMAIN queue : k \in Nat /\ 1 <= k
      BY <2>2, HeadAndTail DEF TypeOK, Asked
    <3>2. \A k \in DOMAIN queue : queue[k].depth \in Nat /\ d <= queue[k].depth
      BY <1>1, <2>2, <3>1, Depths DEF InLayers
    <3>3. d \in Nat /\ d - 1 \in Nat /\ d - 1 <= opts.Depth /\ Len(emitted) \in Nat
      <4>1. Asked \in Item /\ opts.Depth \in Nat
        BY <3>1, Depths DEF TypeOK
      <4> QED BY <1>4, <2>2, <4>1 DEF Item, TypeOK
    <3>4. \A k \in DOMAIN queue : ~(queue[k].depth <= d - 1)
      <4>1. \A x \in Nat : d <= x => ~(x <= d - 1)
        BY <3>3
      <4> QED BY <3>2, <4>1
    <3>5. \A n \in Within(d - 1) : EmittedBy(n, d - 1)
      <4> DEFINE c == d - 1
      <4>1. c \in Nat /\ c <= opts.Depth /\ \A k \in DOMAIN queue : ~(queue[k].depth <= c)
        BY <3>3, <3>4
      <4>2. Kept
        BY <1>1, <2>2 DEF BreadthFirst
      <4> HIDE DEF c
      <4>3. \A n \in Within(c) : EmittedBy(n, c)
        BY <1>1, <4>1, <4>2, Covered
      <4> QED BY <4>3 DEF c
    <3>6. j - 1 = Len(emitted)
      BY <2>2, <3>3
    <3> QED BY <2>2, <3>5, <3>6 DEF EmittedBy
  <2> QED
    <3>1. CASE UNCHANGED emitted
      BY <2>1, <3>1
    <3>2. CASE ~(UNCHANGED emitted)
      <4>1. /\ queue # <<>> /\ result = "walking"
            /\ DOMAIN emitted = 1 .. Len(emitted) /\ DOMAIN emitted' = 1 .. Len(emitted) + 1
            /\ \A i \in DOMAIN emitted : emitted'[i] = emitted[i]
            /\ emitted'[Len(emitted) + 1].depth = Asked.depth
        BY <3>2, EmittedGrows
      <4>2. j \in DOMAIN emitted \/ j = Len(emitted) + 1
        BY <4>1 DEF TypeOK
      <4>3. CASE j \in DOMAIN emitted
        BY <2>1, <4>1, <4>3
      <4>4. CASE j = Len(emitted) + 1
        BY <2>2, <4>1, <4>4
      <4> QED BY <4>2, <4>3, <4>4
    <3> QED BY <3>1, <3>2
<1> QED BY <1>1, <1>3, <1>4

LEMMA CompleteNext ==
    TypeOK /\ BreadthFirst /\ Complete /\ [Next]_vars => Complete'
<1> SUFFICES ASSUME TypeOK, BreadthFirst, Complete, [Next]_vars, result' = "done", Exhaustive'
             PROVE  Reached' = Within(opts.Depth)'
  BY DEF Complete
<1>1. CASE QueueEmpty
  <2>1. /\ UNCHANGED <<seeds, opts, queue, visited, emitted, failed>>
        /\ result = "walking" /\ queue = <<>>
    BY <1>1 DEF QueueEmpty
  <2>2. Exhaustive /\ Near /\ Kept
    BY <2>1, SameWithin DEF Exhaustive, BreadthFirst
  <2>3. opts \in Options /\ seeds \in Seq(Node) /\ opts.Depth \in Nat
    BY Depths
  <2>4. Within(opts.Depth) \subseteq Reached
    <3> DEFINE c == opts.Depth
    <3>1. c \in Nat /\ c <= opts.Depth /\ \A k \in DOMAIN queue : ~(queue[k].depth <= c)
      BY <2>1, <2>3
    <3> HIDE DEF c
    <3>2. \A n \in Within(c) : EmittedBy(n, c)
      BY <2>2, <3>1, Covered
    <3> QED BY <3>2 DEF EmittedBy, Reached, c
  <2>5. ASSUME NEW i \in DOMAIN emitted PROVE emitted[i].node \in Within(opts.Depth)
    <3>1. emitted[i].node \in Within(emitted[i].depth)
      BY <2>2 DEF Near
    <3>2. emitted[i].depth \in Nat /\ emitted[i].depth <= opts.Depth
      BY Depths
    <3> QED BY <2>3, <3>1, <3>2, WithinGrows
  <2>6. Reached = Within(opts.Depth)
    BY <2>4, <2>5 DEF Reached
  <2>7. Reached' = Reached /\ \A d : Within(d)' = Within(d)
    BY <2>1, SameWithin DEF Reached
  <2> QED BY <2>1, <2>6, <2>7
<1>2. CASE UNCHANGED vars
  <2>1. UNCHANGED <<seeds, opts, emitted, failed, result>>
    BY <1>2 DEF vars
  <2>2. Exhaustive /\ result = "done"
    BY <2>1, SameWithin DEF Exhaustive
  <2>3. Reached' = Reached /\ \A d : Within(d)' = Within(d)
    BY <2>1, SameWithin DEF Reached
  <2> QED BY <2>1, <2>2, <2>3 DEF Complete
<1>3. CASE Visit
  <2>1. result' \in {"emit", "budget", "walking"}
    BY <1>3, VisitOutcomes DEF Refused, BudgetEnds, GoesOn
  <2> QED BY <2>1
<1>4. CASE Skip \/ SeedFails \/ SeesCancel \/ Cancel
  BY <1>4 DEF Skip, Live, SeedFails, SeesCancel, Cancel
<1> QED BY <1>1, <1>2, <1>3, <1>4 DEF Next, Loop, Terminated

WalkInv == TypeOK /\ BreadthFirst /\ NearestFirst /\ Complete

LEMMA WalkInvariant == Spec => []WalkInv
<1>1. Init => WalkInv
  BY TypeInit, BreadthInit DEF Init, WalkInv, NearestFirst, Complete
<1>2. WalkInv /\ [Next]_vars => WalkInv'
  BY TypeNext, BreadthNext, NearestNext, CompleteNext DEF WalkInv
<1> QED BY <1>1, <1>2, PTL DEF Spec

\* Without a fanout, a failed list or a redirect among the seeds, the walk is breadth
\* first: a node has the depth of its distance, and every nearer node came before it,
\* though the lists are cut at the budget (discover.go: Walk, neighbors).
THEOREM NearestComesFirst == Spec => []NearestFirst
<1>1. WalkInv => NearestFirst
  BY DEF WalkInv
<1> QED BY <1>1, WalkInvariant, PTL

\* And one that ends with its frontier empty has emitted the nodes within Depth hops of
\* the seeds, all of them and no other (discover.go: Walk).
THEOREM WalkIsComplete == Spec => []Complete
<1>1. WalkInv => Complete
  BY DEF WalkInv
<1> QED BY <1>1, WalkInvariant, PTL
============================================================================
