---------------------------- MODULE Store_proofs ----------------------------
(* Theorems about Store, for every value of its constants. *)
EXTENDS Store, WellFoundedInduction, SequenceTheorems, TLAPS

----------------------------------------------------------------------------
(* Lemmas about the rows that a load keeps.                                  *)

\* The naturals are well founded, as a relation that the provers can name.
LEMMA NatOrder ==
    \E R : IsWellFoundedOn(R, Nat) /\ \A x, y \in Nat : (<<y, x>> \in R) <=> y < x
<1>1. \A x, y \in Nat : (<<y, x>> \in OpToRel(<, Nat)) <=> y < x
  BY DEF OpToRel
<1> QED BY <1>1, NatLessThanWellFounded, Zenon

\* Induction over a set: one that holds 0 and the successor of each of its numbers
\* holds every number.
LEMMA SetInduction ==
    ASSUME NEW T, 0 \in T, \A n \in Nat : n \in T => n + 1 \in T
    PROVE  Nat \subseteq T
<1> DEFINE U == Nat \ T
<1>1. SUFFICES ASSUME U # {} PROVE FALSE
  OBVIOUS
<1>2. PICK R : IsWellFoundedOn(R, Nat) /\ \A x, y \in Nat : (<<y, x>> \in R) <=> y < x
  BY NatOrder
<1>3. U \subseteq Nat
  OBVIOUS
<1> HIDE DEF U
<1>4. PICK x \in U : \A y \in U : ~ (<<y, x>> \in R)
  BY <1>1, <1>2, <1>3, WFMin
<1>5. x \in Nat /\ x # 0 /\ x \notin T
  BY DEF U
<1>6. x - 1 \in Nat /\ x - 1 < x
  BY <1>5
<1>7. x - 1 \in T
  BY <1>2, <1>4, <1>5, <1>6 DEF U
<1>8. (x - 1) + 1 = x
  BY <1>5
<1> QED BY <1>5, <1>6, <1>7, <1>8

\* A recursion over 1 .. n in a set S is given by its start z and its steps; g
\* solves it.
Steps(n, S)           == [S \X (1 .. n) -> S]
Solves(g, n, z, step) == g[0] = z /\ \A i \in 1 .. n : g[i] = step[<<g[i - 1], i>>]

\* Every recursion has a solution.
LEMMA Recursion ==
    ASSUME NEW n \in Nat, NEW S, NEW z \in S, NEW step \in Steps(n, S)
    PROVE  \E g \in [0 .. n -> S] : Solves(g, n, z, step)
<1> DEFINE Good(g, m) == g \in [0 .. m -> S] /\ Solves(g, m, z, step)
           T == {m \in Nat : m <= n => \E g : Good(g, m)}
<1> USE DEF Steps, Solves
<1>1. 0 \in T
  <2>1. Good([i \in 0 .. 0 |-> z], 0)
    OBVIOUS
  <2> QED BY <2>1
<1>2. ASSUME NEW m \in Nat, m \in T PROVE m + 1 \in T
  <2>1. SUFFICES ASSUME m + 1 <= n PROVE \E g : Good(g, m + 1)
    OBVIOUS
  <2>2. PICK g : Good(g, m)
    BY <1>2, <2>1
  <2> DEFINE h == [i \in 0 .. m + 1 |-> IF i = m + 1 THEN step[<<g[m], m + 1>>] ELSE g[i]]
  <2>3. step[<<g[m], m + 1>>] \in S
    BY <2>1, <2>2
  <2>4. h \in [0 .. m + 1 -> S] /\ h[0] = z
    BY <2>2, <2>3
  <2>5. ASSUME NEW i \in 1 .. m + 1 PROVE h[i] = step[<<h[i - 1], i>>]
    <3>1. h[i - 1] = g[i - 1]
      OBVIOUS
    <3>2. CASE i = m + 1
      <4>1. i - 1 = m /\ h[i] = step[<<g[m], m + 1>>]
        BY <3>2
      <4> HIDE DEF h
      <4> QED BY <3>1, <3>2, <4>1
    <3>3. CASE i # m + 1
      BY <2>2, <3>1, <3>3
    <3> QED BY <3>2, <3>3
  <2> HIDE DEF h
  <2> QED BY <2>4, <2>5
<1>3. n \in T
  <2> HIDE DEF T
  <2> QED BY <1>1, <1>2, SetInduction
<1> QED BY <1>3

\* KeptUpTo is the solution of its recursion.
LEMMA KeptUpToDef ==
    ASSUME NEW l \in Loads
    PROVE  /\ KeptUpTo(l) \in [0 .. Len(l.rows) -> Seq(Row)]
           /\ KeptUpTo(l)[0] = <<>>
           /\ \A n \in 1 .. Len(l.rows) :
                 KeptUpTo(l)[n] = IF l.rows[n] \in l.keep
                                  THEN Append(KeptUpTo(l)[n - 1], l.rows[n])
                                  ELSE KeptUpTo(l)[n - 1]
<1> DEFINE L == Len(l.rows)
           step == [p \in Seq(Row) \X (1 .. L) |->
                       IF l.rows[p[2]] \in l.keep THEN Append(p[1], l.rows[p[2]]) ELSE p[1]]
           Body(g, n) == IF n = 0 THEN <<>>
                         ELSE IF l.rows[n] \in l.keep THEN Append(g[n - 1], l.rows[n])
                         ELSE g[n - 1]
<1>1. L \in Nat /\ \A n \in 1 .. L : l.rows[n] \in Row
  BY StoreAssumption
<1>2. step \in Steps(L, Seq(Row)) /\ <<>> \in Seq(Row)
  BY <1>1 DEF Steps
<1>3. PICK g \in [0 .. L -> Seq(Row)] : Solves(g, L, <<>>, step)
  <2> HIDE DEF step, L
  <2> QED BY <1>1, <1>2, Recursion, Zenon
<1>4. ASSUME NEW n \in 0 .. L PROVE g[n] = Body(g, n)
  <2>1. CASE n = 0
    BY <1>3, <2>1 DEF Solves
  <2>2. CASE n # 0
    <3>1. n \in 1 .. L /\ g[n - 1] \in Seq(Row)
      BY <1>1, <2>2
    <3>2. step[<<g[n - 1], n>>] = Body(g, n)
      BY <3>1, <2>2
    <3> QED BY <1>3, <3>1, <3>2 DEF Solves
  <2> QED BY <2>1, <2>2
<1>5. g = [n \in 0 .. L |-> Body(g, n)]
  <2> HIDE DEF Body
  <2> QED BY <1>4
<1>6. KeptUpTo(l) = [n \in 0 .. L |-> Body(KeptUpTo(l), n)]
  BY <1>5 DEF KeptUpTo
<1> DEFINE f == KeptUpTo(l)
<1>7. \A n \in 0 .. L : f[n] = Body(f, n)
  <2> HIDE DEF Body, f
  <2> QED BY <1>6 DEF f
<1>8. f \in [0 .. L -> Seq(Row)]
  <2> DEFINE T == {n \in Nat : n <= L => f[n] \in Seq(Row)}
  <2>1. 0 \in T
    <3>1. f[0] = <<>>
      BY <1>7, <1>1
    <3> HIDE DEF f
    <3>2. f[0] \in Seq(Row)
      BY <3>1
    <3> QED BY <3>2
  <2>2. ASSUME NEW n \in Nat, n \in T PROVE n + 1 \in T
    <3>1. SUFFICES ASSUME n + 1 <= L PROVE f[n + 1] \in Seq(Row)
      OBVIOUS
    <3>2. f[n] \in Seq(Row) /\ n + 1 \in 0 .. L /\ l.rows[n + 1] \in Row
      BY <1>1, <2>2, <3>1
    <3>3. f[n + 1] = Body(f, n + 1)
      BY <1>7, <3>2
    <3>4. (n + 1) - 1 = n /\ n + 1 # 0
      OBVIOUS
    <3> HIDE DEF f
    <3> QED BY <3>2, <3>3, <3>4
  <2>3. Nat \subseteq T
    <3> HIDE DEF T
    <3> QED BY <2>1, <2>2, SetInduction
  <2>4. \A n \in 0 .. L : f[n] \in Seq(Row)
    BY <1>1, <2>3
  <2> HIDE DEF f, Body
  <2> QED BY <1>6, <2>4 DEF f
<1>9. \A n \in 1 .. L : n \in 0 .. L /\ n # 0
  BY <1>1
<1>10. 0 \in 0 .. L
  BY <1>1
<1> HIDE DEF f
<1>11. f[0] = <<>> /\ \A n \in 1 .. L : f[n] = Body(f, n)
  BY <1>7, <1>9, <1>10
<1> QED BY <1>8, <1>9, <1>11 DEF f

\* What is kept of the first m rows is the start of what is kept of more.
LEMMA KeptPrefix ==
    ASSUME NEW l \in Loads, NEW m \in 0 .. Len(l.rows)
    PROVE  SubSeq(Kept(l), 1, Len(KeptUpTo(l)[m])) = KeptUpTo(l)[m]
<1> DEFINE L == Len(l.rows)
           f == KeptUpTo(l)
           T == {k \in Nat : m + k <= L => /\ Len(f[m]) <= Len(f[m + k])
                                           /\ \A i \in 1 .. Len(f[m]) : f[m + k][i] = f[m][i]}
<1>1. L \in Nat /\ m \in Nat /\ m <= L /\ \A n \in 1 .. L : l.rows[n] \in Row
  BY StoreAssumption
<1>2. /\ \A n \in 0 .. L : f[n] \in Seq(Row)
      /\ \A n \in 1 .. L : f[n] = f[n - 1] \/ f[n] = Append(f[n - 1], l.rows[n])
  BY KeptUpToDef
<1> HIDE DEF f
<1>3. 0 \in T
  BY <1>1, <1>2
<1>4. ASSUME NEW k \in Nat, k \in T PROVE k + 1 \in T
  <2>1. SUFFICES ASSUME m + (k + 1) <= L
                 PROVE  /\ Len(f[m]) <= Len(f[m + (k + 1)])
                        /\ \A i \in 1 .. Len(f[m]) : f[m + (k + 1)][i] = f[m][i]
    OBVIOUS
  <2>2. /\ m + (k + 1) \in 1 .. L /\ (m + (k + 1)) - 1 = m + k
        /\ f[m + k] \in Seq(Row) /\ f[m] \in Seq(Row) /\ l.rows[m + (k + 1)] \in Row
    BY <1>1, <1>2, <2>1
  <2>3. Len(f[m]) <= Len(f[m + k]) /\ \A i \in 1 .. Len(f[m]) : f[m + k][i] = f[m][i]
    BY <1>1, <1>4, <2>1
  <2>4. f[m + (k + 1)] = f[m + k] \/ f[m + (k + 1)] = Append(f[m + k], l.rows[m + (k + 1)])
    BY <1>2, <2>2
  <2>5. CASE f[m + (k + 1)] = f[m + k]
    BY <2>3, <2>5
  <2>6. CASE f[m + (k + 1)] = Append(f[m + k], l.rows[m + (k + 1)])
    <3> DEFINE a == f[m + k]
               b == f[m + (k + 1)]
    <3>1. Len(b) = Len(a) + 1 /\ \A i \in 1 .. Len(a) : b[i] = a[i]
      BY <2>2, <2>6
    <3>2. \A i \in 1 .. Len(f[m]) : i \in 1 .. Len(a)
      BY <2>2, <2>3
    <3> QED BY <2>2, <2>3, <3>1, <3>2
  <2> QED BY <2>4, <2>5, <2>6
<1>5. L - m \in T /\ m + (L - m) = L
  <2> HIDE DEF T
  <2>1. Nat \subseteq T
    BY <1>3, <1>4, SetInduction
  <2> QED BY <1>1, <2>1
<1>6. Len(f[m]) <= Len(f[L]) /\ \A i \in 1 .. Len(f[m]) : f[L][i] = f[m][i]
  BY <1>1, <1>5
<1>7. f[m] \in Seq(Row) /\ f[L] \in Seq(Row)
  BY <1>1, <1>2
<1> QED BY <1>6, <1>7 DEF Kept, f

\* A transaction that follows whole batches reaches its batch at the rows that
\* res.Kept%batch finds.
LEMMA FullIsBatch ==
    ASSUME NEW c \in Nat, NEW t \in Nat, c % batch = 0, t < batch
    PROVE  Full(c + t + 1) <=> t + 1 = batch
<1> DEFINE q == c \div batch
<1>1. batch \in Nat /\ batch > 0
  BY StoreAssumption
<1>2. q \in Nat /\ c = batch * q
  BY <1>1
<1>3. ASSUME NEW x \in Int, batch * x = batch * q + t + 1 PROVE t + 1 = batch
  <2>1. batch * (x - q) = t + 1
    BY <1>1, <1>2, <1>3
  <2>2. CASE x - q <= 0
    BY <1>1, <1>2, <2>1, <2>2
  <2>3. CASE x - q >= 2
    <3>1. batch * (x - q) >= batch * 2
      BY <1>1, <1>2, <2>3
    <3> QED BY <1>1, <2>1, <3>1
  <2>4. CASE x - q = 1
    BY <1>1, <2>1, <2>4
  <2> QED BY <1>2, <2>2, <2>3, <2>4
<1>4. ASSUME Full(c + t + 1) PROVE t + 1 = batch
  <2>1. (c + t + 1) \div batch \in Int /\ c + t + 1 = batch * ((c + t + 1) \div batch)
    BY <1>1, <1>4 DEF Full
  <2> QED BY <1>2, <1>3, <2>1
<1>5. ASSUME t + 1 = batch PROVE Full(c + t + 1)
  <2>1. c + t + 1 = batch * (q + 1)
    BY <1>1, <1>2, <1>5
  <2> DEFINE d == (c + t + 1) \div batch
             r == (c + t + 1) % batch
  <2>2. d \in Int /\ r \in Int /\ 0 <= r /\ r < batch /\ c + t + 1 = batch * d + r
    BY <1>1
  <2> HIDE DEF d, r
  <2>3. batch * ((q + 1) - d) = r
    BY <1>1, <1>2, <2>1, <2>2
  <2>4. CASE (q + 1) - d = 0
    BY <1>1, <2>3, <2>4 DEF Full, r
  <2>5. CASE (q + 1) - d >= 1
    BY <1>1, <1>2, <2>2, <2>3, <2>5
  <2>6. CASE (q + 1) - d <= -1
    BY <1>1, <1>2, <2>2, <2>3, <2>6
  <2> QED BY <1>2, <2>2, <2>4, <2>5, <2>6
<1> QED BY <1>4, <1>5

----------------------------------------------------------------------------
(* The inductive invariant.                                                  *)

\* What a load has written so far. Its table is not one of a load that ended well:
\* it was dropped, and good gets the load with its last step only.
RunsInv ==
    /\ tx # <<>> => pc = "rows"
    /\ pc \in {"create", "rows", "index"} => \A l \in good : Fold[l.name] # Obj
    /\ pc \in {"drop", "create"} => at = 0 /\ kept = 0
    /\ pc \in {"drop", "create", "rows"} => built = 0
    /\ pc = "create" => table[Obj] = <<>>
    /\ pc \in {"rows", "index"} => Obj \in tables
    /\ pc = "rows" => /\ table[Obj] \o tx = KeptUpTo(load)[at]
                      /\ kept = Len(KeptUpTo(load)[at])
                      /\ Len(tx) < batch /\ Len(table[Obj]) % batch = 0
    /\ pc = "index" => /\ at = Len(load.rows)
                       /\ table[Obj] = Kept(load) /\ kept = Len(Kept(load))
                       /\ \A i \in 1 .. built : on[IndexObj(i)] = Obj

IndInv == TypeOK /\ RunsInv /\ GoodIsExact

\* What the assumption says of a load.
LEMMA LoadTypes ==
    ASSUME NEW l \in Loads
    PROVE  /\ l.name \in Name /\ Fold[l.name] \in Object
           /\ l.rows \in Seq(Row) /\ Len(l.rows) \in Nat
           /\ Len(l.index) \in Nat /\ DOMAIN l.index = 1 .. Len(l.index)
           /\ \A i \in 1 .. Len(l.index) : FoldIndex[<<l.name, l.index[i]>>] \in Object
<1>1. l.name \in Name /\ l.rows \in Seq(Row) /\ l.index \in Seq(Column)
  BY StoreAssumption
<1>2. \A i \in 1 .. Len(l.index) : l.index[i] \in Column
  BY <1>1
<1> QED BY <1>1, <1>2, StoreAssumption

LEMMA TypeInit == Init => TypeOK
<1> SUFFICES ASSUME Init PROVE TypeOK
  OBVIOUS
<1>1. /\ table \in [Object -> Seq(Row)] /\ on \in [Object -> Object \cup {NoObject}]
      /\ tx \in Seq(Row)
  BY DEF Init
<1>2. load \in Loads /\ Len(load.rows) \in Nat /\ Len(load.index) \in Nat /\ MaxFaults \in Nat
  BY LoadTypes, StoreAssumption DEF Init
<1> QED BY <1>1, <1>2 DEF Init, TypeOK

LEMMA TypeNext == TypeOK /\ [Next]_vars => TypeOK'
<1> SUFFICES ASSUME TypeOK, [Next]_vars PROVE TypeOK'
  OBVIOUS
<1>1. /\ load \in Loads /\ load.name \in Name /\ Obj \in Object
      /\ Len(load.rows) \in Nat /\ \A i \in 1 .. Len(load.rows) : load.rows[i] \in Row
      /\ Len(load.index) \in Nat
      /\ \A i \in 1 .. Len(load.index) : IndexObj(i) \in Object
  BY LoadTypes DEF TypeOK, Obj, IndexObj
<1>2. \A rows \in Seq(Row) : Commit(rows) => table' \in [Object -> Seq(Row)]
  BY <1>1 DEF TypeOK, Commit
<1>3. ASSUME NEW l \in Loads, Start(l) PROVE TypeOK'
  BY <1>3, LoadTypes DEF TypeOK, Start
<1>4. CASE Drop
  BY <1>1, <1>4 DEF TypeOK, Drop
<1>5. CASE Create
  BY <1>1, <1>5 DEF TypeOK, Create, Finish
<1>6. CASE SkipRow
  BY <1>1, <1>6 DEF TypeOK, SkipRow
<1>7. CASE KeepRow
  <2> DEFINE rows == Append(tx, load.rows[at + 1])
  <2>1. at + 1 \in 1 .. Len(load.rows)
    BY <1>1, <1>7 DEF TypeOK, KeepRow
  <2>2. rows \in Seq(Row) /\ <<>> \in Seq(Row)
    BY <1>1, <2>1 DEF TypeOK
  <2>3. \/ Commit(rows) /\ tx' = <<>>
        \/ tx' = rows /\ UNCHANGED table
    BY <1>7 DEF KeepRow
  <2>4. table' \in [Object -> Seq(Row)] /\ tx' \in Seq(Row)
    <3> HIDE DEF rows
    <3> QED BY <1>2, <2>2, <2>3 DEF TypeOK
  <2> QED BY <1>1, <1>7, <2>1, <2>4 DEF TypeOK, KeepRow
<1>8. CASE RowsEnd
  <2>1. table' \in [Object -> Seq(Row)] /\ tx' \in Seq(Row)
    BY <1>2, <1>8 DEF TypeOK, RowsEnd
  <2> QED BY <1>8, <2>1 DEF TypeOK, RowsEnd
<1>9. CASE CreateIndex
  <2>1. built + 1 \in 1 .. Len(load.index)
    BY <1>1, <1>9 DEF TypeOK, CreateIndex
  <2>2. IndexObj(built + 1) \in Object
    BY <1>1, <2>1
  <2>3. on' \in [Object -> Object \cup {NoObject}]
    BY <1>1, <1>9, <2>2 DEF TypeOK, CreateIndex, Finish
  <2>4. built' \in 0 .. Len(load.index)
    BY <1>1, <1>9, <2>1 DEF TypeOK, CreateIndex, Finish
  <2> QED BY <1>9, <2>3, <2>4 DEF TypeOK, CreateIndex, Finish
<1>10. CASE Record
  BY <1>1, <1>10 DEF TypeOK, Record, Finish
<1>11. CASE Fails
  <2>1. \A n \in 1 .. Len(tx) : SubSeq(tx, 1, n) \in Seq(Row)
    BY DEF TypeOK
  <2>2. table' \in [Object -> Seq(Row)]
    BY <1>2, <1>11, <2>1 DEF TypeOK, Fails
  <2>3. MaxFaults \in Nat
    BY StoreAssumption
  <2>4. tx' \in Seq(Row)
    BY <1>11 DEF Fails
  <2> QED BY <1>11, <2>2, <2>3, <2>4 DEF TypeOK, Fails, Finish
<1>12. CASE UNCHANGED vars
  BY <1>12 DEF TypeOK, vars, progVars
<1> QED BY <1>3, <1>4, <1>5, <1>6, <1>7, <1>8, <1>9, <1>10, <1>11, <1>12 DEF Next, Step

\* The variables keep their types: no load leaves a row that no dump has, an index
\* beyond its list, or a count above the rows read (store.go: Load).
THEOREM TypeCorrect == Spec => []TypeOK
<1> QED BY TypeInit, TypeNext, PTL DEF Spec

----------------------------------------------------------------------------
LEMMA IndInit == Init => IndInv
<1> SUFFICES ASSUME Init PROVE IndInv
  OBVIOUS
<1>1. TypeOK
  BY TypeInit
<1>2. RunsInv /\ GoodIsExact
  BY DEF Init, RunsInv, GoodIsExact
<1> QED BY <1>1, <1>2 DEF IndInv

\* What the loads that ended well rest on: a step that leaves it alone for those
\* that stay in good leaves them exact.
LEMMA GoodStays ==
    ASSUME TypeOK, GoodIsExact, good' \subseteq good,
           \A l \in good' : /\ Fold[l.name] \in tables => Fold[l.name] \in tables'
                            /\ table'[Fold[l.name]] = table[Fold[l.name]]
                            /\ \A o \in Object : on[o] = Fold[l.name] => on'[o] = on[o],
           loaded \subseteq loaded'
    PROVE  GoodIsExact'
<1> SUFFICES ASSUME NEW l \in good'
             PROVE  /\ Fold[l.name] \in tables' /\ table'[Fold[l.name]] = Kept(l)
                    /\ \A i \in DOMAIN l.index :
                          on'[FoldIndex[<<l.name, l.index[i]>>]] = Fold[l.name]
                    /\ [name |-> l.name, read |-> Len(l.rows), kept |-> Len(Kept(l))]
                          \in loaded'
  BY DEF GoodIsExact
<1>1. l \in good /\ l \in Loads
  BY DEF TypeOK
<1>2. \A i \in DOMAIN l.index : FoldIndex[<<l.name, l.index[i]>>] \in Object
  BY <1>1, LoadTypes
<1> QED BY <1>1, <1>2 DEF GoodIsExact

\* What the proofs of the steps use of the running load.
LEMMA RunFacts ==
    ASSUME TypeOK
    PROVE  /\ load \in Loads /\ load.name \in Name /\ Obj \in Object
           /\ load.rows \in Seq(Row) /\ Len(load.rows) \in Nat
           /\ DOMAIN load.index = 1 .. Len(load.index) /\ Len(load.index) \in Nat
           /\ \A i \in 1 .. Len(load.index) : IndexObj(i) \in Object
           /\ table[Obj] \in Seq(Row) /\ tx \in Seq(Row)
           /\ at \in 0 .. Len(load.rows) /\ kept \in Nat
           /\ KeptUpTo(load)[at] \in Seq(Row)
BY LoadTypes, KeptUpToDef DEF TypeOK, Obj, IndexObj

LEMMA StartStep ==
    ASSUME IndInv, NEW l \in Loads, Start(l)
    PROVE  RunsInv' /\ GoodIsExact'
<1>1. RunsInv'
  BY DEF IndInv, RunsInv, Start
<1>2. GoodIsExact'
  BY DEF IndInv, GoodIsExact, Start
<1> QED BY <1>1, <1>2

LEMMA DropStep == ASSUME IndInv, Drop PROVE RunsInv' /\ GoodIsExact'
<1>1. RunsInv'
  <2>1. Obj' = Obj /\ Obj \in Object /\ table \in [Object -> Seq(Row)]
    BY RunFacts DEF Drop, Obj, IndInv, TypeOK
  <2> QED BY <2>1 DEF IndInv, RunsInv, Drop
<1>2. GoodIsExact'
  <2>1. good' \subseteq good /\ loaded \subseteq loaded'
    BY DEF Drop
  <2>2. ASSUME NEW l \in good'
        PROVE  /\ Fold[l.name] \in tables => Fold[l.name] \in tables'
               /\ table'[Fold[l.name]] = table[Fold[l.name]]
               /\ \A o \in Object : on[o] = Fold[l.name] => on'[o] = on[o]
    <3>1. Fold[l.name] # Obj /\ l \in Loads
      BY DEF Drop, IndInv, TypeOK
    <3>2. Fold[l.name] \in Object
      BY <3>1, LoadTypes
    <3> QED BY <3>1, <3>2, RunFacts DEF Drop, IndInv, TypeOK
  <2> QED BY <2>1, <2>2, GoodStays DEF IndInv
<1> QED BY <1>1, <1>2

LEMMA CreateStep == ASSUME IndInv, Create PROVE RunsInv' /\ GoodIsExact'
<1>1. RunsInv'
  <2>1. Obj' = Obj /\ load' = load
    BY DEF Create, Obj
  <2>2. CASE on[Obj] # NoObject
    BY <2>1, <2>2 DEF IndInv, RunsInv, Create, Finish
  <2>3. CASE on[Obj] = NoObject
    <3>1. KeptUpTo(load)[0] = <<>> /\ load \in Loads
      BY KeptUpToDef, RunFacts DEF IndInv
    <3>2. tx = <<>> /\ table[Obj] = <<>> /\ at = 0 /\ kept = 0 /\ built = 0
      BY DEF IndInv, RunsInv, Create
    <3>3. table[Obj] \o tx = KeptUpTo(load)[at] /\ kept = Len(KeptUpTo(load)[at])
      BY <3>1, <3>2
    <3>4. 0 < batch /\ 0 % batch = 0
      BY StoreAssumption
    <3>5. Len(tx) < batch /\ Len(table[Obj]) % batch = 0
      BY <3>2, <3>4
    <3>6. /\ pc' = "rows" /\ Obj \in tables'
          /\ UNCHANGED <<table, load, at, kept, tx, built, good>>
      BY <2>3 DEF Create
    <3>7. \A l \in good : Fold[l.name] # Obj
      BY DEF IndInv, RunsInv, Create
    <3> QED BY <2>1, <3>2, <3>3, <3>5, <3>6, <3>7 DEF RunsInv
  <2> QED BY <2>2, <2>3
<1>2. GoodIsExact'
  BY GoodStays DEF IndInv, Create
<1> QED BY <1>1, <1>2

\* A commit while the load reads its rows touches no table of good.
LEMMA CommitStays ==
    ASSUME IndInv, pc = "rows", UNCHANGED <<tables, on, loaded, good>>,
           UNCHANGED table \/ \E rows : Commit(rows)
    PROVE  GoodIsExact'
<1>1. ASSUME NEW l \in good' PROVE table'[Fold[l.name]] = table[Fold[l.name]]
  <2>1. Fold[l.name] # Obj /\ l \in Loads
    BY DEF IndInv, RunsInv, TypeOK
  <2>2. Fold[l.name] \in Object /\ table \in [Object -> Seq(Row)]
    BY <2>1, LoadTypes DEF IndInv, TypeOK
  <2> QED BY <2>1, <2>2 DEF Commit
<1> QED BY <1>1, GoodStays DEF IndInv

\* Appending to the second of two sequences appends to both together.
LEMMA ConcatAppend ==
    ASSUME NEW S, NEW s \in Seq(S), NEW t \in Seq(S), NEW e \in S
    PROVE  /\ s \o Append(t, e) = Append(s \o t, e)
           /\ Append(s \o t, e) \in Seq(S) /\ Append(t, e) \in Seq(S)
           /\ Len(Append(t, e)) = Len(t) + 1
           /\ Len(s \o t) = Len(s) + Len(t) /\ Len(Append(s \o t, e)) = Len(s) + Len(t) + 1
<1> DEFINE a == s \o Append(t, e)
           b == Append(s \o t, e)
<1>1. /\ Append(t, e) \in Seq(S) /\ Len(Append(t, e)) = Len(t) + 1
      /\ \A i \in 1 .. Len(t) : Append(t, e)[i] = t[i]
      /\ Append(t, e)[Len(t) + 1] = e
  OBVIOUS
<1>2. /\ s \o t \in Seq(S) /\ Len(s \o t) = Len(s) + Len(t)
      /\ \A i \in 1 .. Len(s) + Len(t) :
            (s \o t)[i] = IF i <= Len(s) THEN s[i] ELSE t[i - Len(s)]
  BY ConcatProperties
<1>3. /\ a \in Seq(S) /\ Len(a) = Len(s) + Len(t) + 1
      /\ \A i \in 1 .. Len(s) + Len(t) + 1 :
            a[i] = IF i <= Len(s) THEN s[i] ELSE Append(t, e)[i - Len(s)]
  <2> DEFINE u == Append(t, e)
  <2>1. u \in Seq(S) /\ Len(u) = Len(t) + 1 /\ Len(t) \in Nat /\ Len(s) \in Nat
    BY <1>1
  <2> HIDE DEF u
  <2>2. /\ s \o u \in Seq(S) /\ Len(s \o u) = Len(s) + Len(u)
        /\ \A i \in 1 .. Len(s) + Len(u) :
              (s \o u)[i] = IF i <= Len(s) THEN s[i] ELSE u[i - Len(s)]
    BY <2>1, ConcatProperties
  <2>3. Len(s) + Len(u) = Len(s) + Len(t) + 1
    BY <2>1
  <2> QED BY <2>2, <2>3 DEF u
<1>4. b \in Seq(S) /\ Len(b) = Len(s) + Len(t) + 1
  BY <1>2
<1>5. ASSUME NEW i \in 1 .. Len(a) PROVE a[i] = b[i]
  <2>1. CASE i <= Len(s) + Len(t)
    <3>1. b[i] = (s \o t)[i]
      BY <1>2, <1>3, <2>1
    <3> QED BY <1>1, <1>2, <1>3, <2>1, <3>1
  <2>2. CASE i = Len(s) + Len(t) + 1
    <3>1. b[i] = e
      BY <1>2, <2>2
    <3> QED BY <1>1, <1>3, <2>2, <3>1
  <2> QED BY <1>3, <2>1, <2>2
<1>6. a = b
  <2> HIDE DEF a, b
  <2> QED BY <1>3, <1>4, <1>5, SeqEqual
<1> QED BY <1>1, <1>2, <1>4, <1>6

LEMMA SkipRowStep == ASSUME IndInv, SkipRow PROVE RunsInv' /\ GoodIsExact'
<1>1. RunsInv'
  <2>1. KeptUpTo(load)[at + 1] = KeptUpTo(load)[at]
    <3>1. load \in Loads /\ at + 1 \in 1 .. Len(load.rows) /\ (at + 1) - 1 = at
      <4>1. load \in Loads /\ Len(load.rows) \in Nat /\ at \in 0 .. Len(load.rows)
        BY RunFacts DEF IndInv
      <4> QED BY <4>1 DEF SkipRow
    <3> QED BY <3>1, KeptUpToDef DEF SkipRow
  <2>2. /\ pc = "rows" /\ pc' = "rows" /\ at' = at + 1 /\ Obj' = Obj
        /\ UNCHANGED <<tables, table, load, kept, tx, built, good>>
    BY DEF SkipRow, Obj
  <2> QED BY <2>1, <2>2 DEF IndInv, RunsInv
<1>2. GoodIsExact'
  BY CommitStays DEF SkipRow
<1> QED BY <1>1, <1>2

LEMMA KeepRowStep == ASSUME IndInv, KeepRow PROVE RunsInv' /\ GoodIsExact'
<1> DEFINE r    == load.rows[at + 1]
           rows == Append(tx, r)
           upTo == KeptUpTo(load)[at]
<1>1. /\ load \in Loads /\ Obj \in Object /\ at + 1 \in 1 .. Len(load.rows)
      /\ (at + 1) - 1 = at /\ r \in Row
      /\ table[Obj] \in Seq(Row) /\ tx \in Seq(Row) /\ upTo \in Seq(Row)
  <2>1. /\ load \in Loads /\ Obj \in Object /\ load.rows \in Seq(Row)
        /\ Len(load.rows) \in Nat /\ at \in 0 .. Len(load.rows)
        /\ table[Obj] \in Seq(Row) /\ tx \in Seq(Row) /\ upTo \in Seq(Row)
    BY RunFacts DEF IndInv
  <2>2. at < Len(load.rows)
    BY DEF KeepRow
  <2> QED BY <2>1, <2>2
<1>2. KeptUpTo(load)[at + 1] = Append(upTo, r)
  BY <1>1, KeptUpToDef DEF KeepRow
<1>3. /\ table[Obj] \o tx = upTo /\ kept = Len(upTo)
      /\ Len(tx) < batch /\ Len(table[Obj]) % batch = 0
      /\ Obj \in tables /\ built = 0 /\ \A l \in good : Fold[l.name] # Obj
  BY DEF IndInv, RunsInv, KeepRow
<1>4. /\ pc' = "rows" /\ at' = at + 1 /\ kept' = kept + 1 /\ Obj' = Obj
      /\ UNCHANGED <<tables, on, loaded, load, built, good>>
  BY DEF KeepRow, Obj
<1>5. /\ table[Obj] \o rows = Append(upTo, r) /\ Append(upTo, r) \in Seq(Row)
      /\ kept = Len(table[Obj]) + Len(tx) /\ kept + 1 = Len(Append(upTo, r))
      /\ Len(rows) = Len(tx) + 1
  <2> DEFINE c == table[Obj]
  <2>0. c \in Seq(Row) /\ tx \in Seq(Row) /\ r \in Row
    BY <1>1
  <2> HIDE DEF c, r
  <2>1. c \o Append(tx, r) = Append(c \o tx, r) /\ Append(c \o tx, r) \in Seq(Row)
    BY <2>0, ConcatAppend
  <2>2. Len(Append(tx, r)) = Len(tx) + 1 /\ Len(c \o tx) = Len(c) + Len(tx)
    BY <2>0, ConcatAppend
  <2>3. Len(Append(c \o tx, r)) = Len(c \o tx) + 1
    <3>1. c \o tx \in Seq(Row)
      BY <2>0, ConcatProperties
    <3> QED BY <2>0, <3>1
  <2> QED BY <1>3, <2>1, <2>2, <2>3 DEF c
<1>6. Full(kept + 1) <=> Len(tx) + 1 = batch
  <2>1. Len(table[Obj]) \in Nat /\ Len(tx) \in Nat
    BY <1>1
  <2> QED BY <1>3, <1>5, <2>1, FullIsBatch
<1>7. CASE Full(kept + 1)
  <2>1. Commit(rows) /\ tx' = <<>>
    BY <1>7 DEF KeepRow
  <2>2. table'[Obj] = table[Obj] \o rows
    BY <1>1, <2>1 DEF Commit, IndInv, TypeOK
  <2>3. table'[Obj] \o tx' = Append(upTo, r) /\ Len(table'[Obj]) = kept + 1
    BY <1>1, <1>5, <2>1, <2>2
  <2>4. Len(tx') < batch /\ Len(table'[Obj]) % batch = 0
    BY <1>7, <2>1, <2>3, StoreAssumption DEF Full
  <2>5. RunsInv'
    BY <1>2, <1>3, <1>4, <1>5, <2>3, <2>4 DEF RunsInv
  <2>6. GoodIsExact'
    BY <1>4, <2>1, CommitStays DEF KeepRow
  <2> QED BY <2>5, <2>6
<1>8. CASE ~Full(kept + 1)
  <2>1. tx' = rows /\ UNCHANGED table
    BY <1>8 DEF KeepRow
  <2>2. table'[Obj] \o tx' = Append(upTo, r) /\ Len(tx') = Len(tx) + 1
    <3> HIDE DEF rows
    <3> QED BY <1>5, <2>1
  <2>3. Len(tx') < batch /\ Len(table'[Obj]) % batch = 0
    <3>1. Len(table'[Obj]) % batch = 0
      BY <1>3, <2>1
    <3>2. Len(tx) \in Nat /\ batch \in Nat /\ Len(tx) < batch /\ Len(tx) + 1 # batch
      BY <1>1, <1>3, <1>6, <1>8, StoreAssumption
    <3>3. Len(tx) + 1 < batch
      BY <3>2
    <3> QED BY <2>2, <3>1, <3>3
  <2>4. RunsInv'
    BY <1>2, <1>3, <1>4, <1>5, <2>2, <2>3 DEF RunsInv
  <2>5. GoodIsExact'
    BY <1>4, <2>1, CommitStays DEF KeepRow
  <2> QED BY <2>4, <2>5
<1> QED BY <1>7, <1>8

LEMMA RowsEndStep == ASSUME IndInv, RowsEnd PROVE RunsInv' /\ GoodIsExact'
<1>1. /\ Obj \in Object /\ table[Obj] \in Seq(Row) /\ tx \in Seq(Row)
      /\ table \in [Object -> Seq(Row)] /\ Len(load.rows) \in Nat
  BY RunFacts DEF IndInv, TypeOK
<1>2. table'[Obj] = Kept(load) /\ kept = Len(Kept(load))
  BY <1>1 DEF RowsEnd, Commit, IndInv, RunsInv, Kept
<1>3. RunsInv'
  <2>1. /\ pc = "rows" /\ pc' = "index" /\ Obj' = Obj /\ tx' = <<>> /\ at = Len(load.rows)
        /\ UNCHANGED <<tables, load, at, kept, built, good>>
    BY DEF RowsEnd, Obj
  <2>2. built = 0 /\ Obj \in tables /\ \A l \in good : Fold[l.name] # Obj
    BY <2>1 DEF IndInv, RunsInv
  <2> QED BY <1>2, <2>1, <2>2 DEF RunsInv
<1>4. GoodIsExact'
  BY CommitStays DEF RowsEnd
<1> QED BY <1>3, <1>4

LEMMA CreateIndexStep == ASSUME IndInv, CreateIndex PROVE RunsInv' /\ GoodIsExact'
<1> DEFINE o == IndexObj(built + 1)
<1>1. Obj' = Obj /\ \A i \in Nat : IndexObj(i)' = IndexObj(i)
  BY DEF CreateIndex, Obj, IndexObj
<1>2. /\ pc = "index" /\ UNCHANGED <<tables, table, loaded, load, at, kept, tx, good>>
      /\ built \in Nat /\ Obj \in Object /\ NoObject \notin Object
      /\ o \in Object /\ on \in [Object -> Object \cup {NoObject}]
      /\ \A i \in 1 .. built : IndexObj(i) \in Object
  BY RunFacts, StoreAssumption DEF CreateIndex, IndInv, TypeOK
<1>3. CASE on[o] # NoObject \/ o \in tables
  <2>1. pc' = "idle" /\ UNCHANGED <<on, built>>
    BY <1>3 DEF CreateIndex, Finish
  <2>2. RunsInv'
    BY <1>1, <1>2, <2>1 DEF IndInv, RunsInv
  <2> QED BY <1>2, <2>1, <2>2, GoodStays DEF IndInv
<1>4. CASE on[o] = NoObject /\ o \notin tables
  <2>1. on' = [on EXCEPT ![o] = Obj] /\ built' = built + 1 /\ pc' = "index"
    BY <1>2, <1>4 DEF CreateIndex
  <2>2. ASSUME NEW i \in 1 .. built' PROVE on'[IndexObj(i)] = Obj
    <3>1. CASE i = built + 1
      BY <1>2, <2>1, <3>1
    <3>2. CASE i # built + 1
      <4>1. i \in 1 .. built
        BY <1>2, <2>1, <3>2
      <4>2. on[IndexObj(i)] = Obj /\ IndexObj(i) # o
        BY <1>2, <1>4, <4>1 DEF IndInv, RunsInv
      <4> QED BY <1>2, <2>1, <4>1, <4>2
    <3> QED BY <3>1, <3>2
  <2>3. RunsInv'
    <3> HIDE DEF o
    <3> QED BY <1>1, <1>2, <2>1, <2>2 DEF IndInv, RunsInv
  <2>4. ASSUME NEW l \in good', NEW q \in Object, on[q] = Fold[l.name]
        PROVE  on'[q] = on[q]
    <3>1. Fold[l.name] \in Object
      BY <1>2, <2>4, LoadTypes DEF IndInv, TypeOK
    <3> QED BY <1>2, <1>4, <2>1, <2>4, <3>1
  <2>5. GoodIsExact'
    BY <1>2, <2>4, GoodStays DEF IndInv
  <2> QED BY <2>3, <2>5
<1> QED BY <1>3, <1>4

LEMMA RecordStep == ASSUME IndInv, Record PROVE RunsInv' /\ GoodIsExact'
<1>1. RunsInv'
  BY DEF IndInv, RunsInv, Record, Finish
<1>2. /\ pc = "index" /\ built = Len(load.index) /\ good' = good \cup {load}
      /\ loaded' = {r \in loaded : r.name # load.name}
                   \cup {[name |-> load.name, read |-> at, kept |-> kept]}
      /\ UNCHANGED <<tables, table, on, load>>
  BY DEF Record
<1>3. ASSUME NEW l \in good'
      PROVE  /\ Fold[l.name] \in tables' /\ table'[Fold[l.name]] = Kept(l)
             /\ \A i \in DOMAIN l.index : on'[FoldIndex[<<l.name, l.index[i]>>]] = Fold[l.name]
             /\ [name |-> l.name, read |-> Len(l.rows), kept |-> Len(Kept(l))] \in loaded'
  <2>1. CASE l \in good
    <3>1. Fold[l.name] # Fold[load.name]
      BY <1>2, <2>1 DEF IndInv, RunsInv, Obj
    <3>2. l.name # load.name
      BY <3>1
    <3> DEFINE r == [name |-> l.name, read |-> Len(l.rows), kept |-> Len(Kept(l))]
    <3>3. r \in loaded /\ r.name = l.name
      BY <2>1 DEF IndInv, GoodIsExact
    <3>4. r \in loaded'
      <4> HIDE DEF r
      <4> QED BY <1>2, <3>2, <3>3
    <3> QED BY <1>2, <2>1, <3>4 DEF IndInv, GoodIsExact
  <2>2. CASE l = load
    <3>1. /\ Obj \in tables /\ table[Obj] = Kept(load) /\ kept = Len(Kept(load))
          /\ at = Len(load.rows) /\ \A i \in 1 .. built : on[IndexObj(i)] = Obj
      BY <1>2 DEF IndInv, RunsInv
    <3>2. DOMAIN load.index = 1 .. built
      BY <1>2, RunFacts DEF IndInv
    <3> QED BY <1>2, <2>2, <3>1, <3>2 DEF Obj, IndexObj
  <2> QED BY <1>2, <2>1, <2>2
<1>4. GoodIsExact'
  BY <1>3 DEF GoodIsExact
<1> QED BY <1>1, <1>4

LEMMA FailsStep == ASSUME IndInv, Fails PROVE RunsInv' /\ GoodIsExact'
<1>1. /\ pc' = "idle" /\ tx' = <<>> /\ UNCHANGED <<tables, on, loaded, load, good>>
      /\ UNCHANGED table \/ (tx # <<>> /\ \E rows : Commit(rows))
  BY DEF Fails, Finish
<1>2. RunsInv'
  BY <1>1 DEF RunsInv
<1>3. CASE UNCHANGED table
  <2>1. GoodIsExact'
    BY <1>1, <1>3, GoodStays DEF IndInv
  <2> QED BY <1>2, <2>1
<1>4. CASE tx # <<>> /\ \E rows : Commit(rows)
  <2>1. pc = "rows"
    BY <1>4 DEF IndInv, RunsInv
  <2> QED BY <1>1, <1>2, <1>4, <2>1, CommitStays
<1> QED BY <1>1, <1>2, <1>3, <1>4

LEMMA IndNext == IndInv /\ [Next]_vars => IndInv'
<1> SUFFICES ASSUME IndInv, [Next]_vars PROVE IndInv'
  OBVIOUS
<1>1. TypeOK'
  BY TypeNext DEF IndInv
<1>2. RunsInv' /\ GoodIsExact'
  <2>1. ASSUME NEW l \in Loads, Start(l) PROVE RunsInv' /\ GoodIsExact'
    BY <2>1, StartStep
  <2>2. CASE Step
    BY <2>2, DropStep, CreateStep, SkipRowStep, KeepRowStep, RowsEndStep, CreateIndexStep,
       RecordStep DEF Step
  <2>3. CASE Fails
    BY <2>3, FailsStep
  <2>4. CASE UNCHANGED vars
    <3>1. RunsInv'
      BY <2>4 DEF IndInv, RunsInv, vars, progVars, Obj, IndexObj
    <3>2. GoodIsExact'
      BY <2>4 DEF IndInv, GoodIsExact, vars, progVars
    <3> QED BY <3>1, <3>2
  <2> QED BY <2>1, <2>2, <2>3, <2>4 DEF Next
<1> QED BY <1>1, <1>2 DEF IndInv

\* A table whose last load ended well holds exactly the rows that the filters keep,
\* has its indexes and is recorded with its counts, until its own next load: no load
\* of another table, failed transaction or kill changes it (store.go: Load).
THEOREM GoodTablesAreExact == Spec => []GoodIsExact
<1>1. IndInv => GoodIsExact
  BY DEF IndInv
<1> QED BY <1>1, IndInit, IndNext, PTL DEF Spec

\* While a load reads, its table and its open transaction are together the start of
\* what it keeps, cut at a whole number of batches: res.Kept%batch commits exactly
\* when the transaction has batch rows (store.go:172).
THEOREM BatchesAreInOrder == Spec => []BatchesInOrder
<1>1. IndInv => BatchesInOrder
  <2> SUFFICES ASSUME IndInv, pc = "rows" PROVE BatchesInOrder
    BY DEF BatchesInOrder
  <2>1. load \in Loads /\ at \in 0 .. Len(load.rows)
    BY RunFacts DEF IndInv
  <2>2. SubSeq(Kept(load), 1, Len(KeptUpTo(load)[at])) = KeptUpTo(load)[at]
    BY <2>1, KeptPrefix
  <2> QED BY <2>2 DEF IndInv, RunsInv, BatchesInOrder
<1> QED BY <1>1, IndInit, IndNext, PTL DEF Spec
============================================================================
