------------------------------- MODULE Store -------------------------------
(***************************************************************************)
(* Load of src/wiki/dump/store/store.go: loads of dump tables into one     *)
(* SQLite store, one after the other. A load drops and creates its table,  *)
(* writes the rows that pass its filters in transactions of batch rows,    *)
(* adds the indexes, and records itself in the table _load. It can fail at *)
(* every statement and be killed between two; there is no rollback journal.*)
(*                                                                         *)
(* SQLite, as Load uses it: tables and indexes share one space of names,   *)
(* which ignores case, so a name stands for the object it folds to, while  *)
(* the key of _load does not ignore it. Without a journal a transaction    *)
(* that does not commit may leave a part of its rows in the table.         *)
(***************************************************************************)
EXTENDS Integers, Sequences, FiniteSets

CONSTANTS Name,       (* the names of tables, as o.Name gives them              *)
          Column,     (* the columns that get indexes                           *)
          Object,     (* the names of the schema, case folded                   *)
          Fold,       (* the object of a table name                             *)
          FoldIndex,  (* the object of the index of a table name and a column   *)
          Loads,      (* the loads that are tried                               *)
          batch,      (* rows in one transaction                                *)
          MaxFaults   (* bound: failed statements, broken dumps and kills       *)

NoObject == "none"

\* The rows of all the dumps.
Row == UNION {{l.rows[i] : i \in DOMAIN l.rows} : l \in Loads}

\* A load: the rows of the dump, the rows its filters keep, its indexes in order
\* without the quoting, and whether its name, columns and filters are valid.
ASSUME StoreAssumption ==
    /\ Fold \in [Name -> Object]
    /\ FoldIndex \in [Name \X Column -> Object]
    /\ NoObject \notin Object
    /\ \A l \in Loads : /\ l.name \in Name /\ l.valid \in BOOLEAN
                        /\ l.index \in Seq(Column)
                        /\ l.rows \in Seq(Row) /\ l.keep \subseteq Row
    /\ batch \in Nat \ {0} /\ MaxFaults \in Nat

VARIABLES
    tables,   \* the objects that are tables
    table,    \* the committed rows of each table
    on,       \* the table the index of an object is on, or NoObject
    loaded,   \* the table _load: the name and the counts of each load
    load,     \* the load that runs
    pc,       \* "idle", "drop", "create", "rows" or "index"
    at,       \* the rows read, res.Read
    kept,     \* res.Kept
    tx,       \* the rows of the open transaction; no transaction when empty
    built,    \* the indexes created
    result,   \* what the last load gave: "none", "ok", "refused", "error", "killed"
    faults,
    good      \* history: the last load of each table, if it ended well

progVars == <<load, pc, at, kept, tx, built, result>>
vars     == <<tables, table, on, loaded, progVars, faults, good>>

Init == /\ tables = {} /\ table = [o \in Object |-> <<>>]
        /\ on = [o \in Object |-> NoObject]
        /\ loaded = {}
        /\ load \in Loads /\ pc = "idle"
        /\ at = 0 /\ kept = 0 /\ tx = <<>> /\ built = 0
        /\ result = "none" /\ faults = 0
        /\ good = {}

Obj       == Fold[load.name]
IndexObj(i) == FoldIndex[<<load.name, load.index[i]>>]
Finish(res) == pc' = "idle" /\ result' = res

\* The rows that the filters keep, among the first n and among all.
KeptUpTo(l) == LET upTo[n \in 0 .. Len(l.rows)] ==
                       IF n = 0 THEN <<>>
                       ELSE IF l.rows[n] \in l.keep THEN Append(upTo[n - 1], l.rows[n])
                       ELSE upTo[n - 1]
               IN upTo
Kept(l) == KeptUpTo(l)[Len(l.rows)]

\* The rows of the transaction are in the table.
Commit(rows) == table' = [table EXCEPT ![Obj] = @ \o rows]

----------------------------------------------------------------------------
(* Mutated forms, each a plausible bug; no specification uses them.          *)

\* The last transaction is left open.
RowsEnd_noCommit == /\ pc = "rows" /\ at = Len(load.rows)
                    /\ tx' = <<>>
                    /\ pc' = "index"
                    /\ UNCHANGED <<tables, table, on, loaded, load, at, kept, built, result, faults, good>>

\* The batch is counted over the rows read instead of the rows kept.
Full_read(k) == (at + 1) % batch = 0

----------------------------------------------------------------------------
\* Load up to its first statement. A bad name, column, filter or index is refused.
Start(l) == /\ pc = "idle"
            /\ load' = l
            /\ at' = 0 /\ kept' = 0 /\ tx' = <<>> /\ built' = 0
            /\ IF l.valid THEN pc' = "drop" /\ result' = "none"
                          ELSE pc' = "idle" /\ result' = "refused"
            /\ UNCHANGED <<tables, table, on, loaded, faults, good>>

\* DROP TABLE IF EXISTS takes the indexes of the table along.
Drop == /\ pc = "drop"
        /\ pc' = "create"
        /\ tables' = tables \ {Obj}
        /\ table' = [table EXCEPT ![Obj] = <<>>]
        /\ on' = [o \in Object |-> IF on[o] = Obj THEN NoObject ELSE on[o]]
        /\ good' = {l \in good : Fold[l.name] # Obj}
        /\ UNCHANGED <<loaded, load, at, kept, tx, built, result, faults>>

\* CREATE TABLE, which an index of the name stops.
Create == /\ pc = "create"
          /\ IF on[Obj] # NoObject
             THEN Finish("error") /\ UNCHANGED tables
             ELSE /\ tables' = tables \cup {Obj}
                  /\ pc' = "rows" /\ UNCHANGED result
          /\ UNCHANGED <<table, on, loaded, load, at, kept, tx, built, faults, good>>

\* A row that the filters do not keep.
SkipRow == /\ pc = "rows" /\ at < Len(load.rows)
           /\ load.rows[at + 1] \notin load.keep
           /\ at' = at + 1
           /\ UNCHANGED <<tables, table, on, loaded, load, pc, kept, tx, built, result, faults, good>>

\* res.Kept%batch == 0
Full(k) == k % batch = 0

\* A row that is kept: in the open transaction or a new one, which is committed
\* when it is full.
KeepRow == /\ pc = "rows" /\ at < Len(load.rows)
           /\ load.rows[at + 1] \in load.keep
           /\ at' = at + 1 /\ kept' = kept + 1
           /\ LET rows == Append(tx, load.rows[at + 1]) IN
              IF Full(kept + 1) THEN Commit(rows) /\ tx' = <<>>
                                ELSE tx' = rows /\ UNCHANGED table
           /\ UNCHANGED <<tables, on, loaded, load, pc, built, result, faults, good>>

RowsEnd == /\ pc = "rows" /\ at = Len(load.rows)
           /\ Commit(tx) /\ tx' = <<>>
           /\ pc' = "index"
           /\ UNCHANGED <<tables, on, loaded, load, at, kept, built, result, faults, good>>

\* CREATE INDEX, which a table or an index of the name stops.
CreateIndex == /\ pc = "index" /\ built < Len(load.index)
               /\ LET o == IndexObj(built + 1) IN
                  IF on[o] # NoObject \/ o \in tables
                  THEN Finish("error") /\ UNCHANGED <<on, built>>
                  ELSE /\ on' = [on EXCEPT ![o] = Obj]
                       /\ built' = built + 1
                       /\ UNCHANGED <<pc, result>>
               /\ UNCHANGED <<tables, table, loaded, load, at, kept, tx, faults, good>>

\* INSERT OR REPLACE INTO _load, and the return.
Record == /\ pc = "index" /\ built = Len(load.index)
          /\ loaded' = {r \in loaded : r.name # load.name}
                       \cup {[name |-> load.name, read |-> at, kept |-> kept]}
          /\ good' = good \cup {load}
          /\ Finish("ok")
          /\ UNCHANGED <<tables, table, on, load, at, kept, tx, built, faults>>

\* A statement fails, the dump breaks off, the context ends or the process is
\* killed. Of an open transaction, some rows may stay.
Fails == /\ pc # "idle" /\ faults < MaxFaults
         /\ faults' = faults + 1
         /\ \E res \in {"error", "killed"} : Finish(res)
         /\ \/ UNCHANGED table
            \/ tx # <<>> /\ \E n \in 1 .. Len(tx) : Commit(SubSeq(tx, 1, n))
         /\ tx' = <<>>
         /\ UNCHANGED <<tables, on, loaded, load, at, kept, built, good>>

Step == Drop \/ Create \/ SkipRow \/ KeepRow \/ RowsEnd \/ CreateIndex \/ Record

Next == (\E l \in Loads : Start(l)) \/ Step \/ Fails

Spec == Init /\ [][Next]_vars

----------------------------------------------------------------------------
(* Properties. *)

TypeOK ==
    /\ tables \subseteq Object /\ table \in [Object -> Seq(Row)]
    /\ on \in [Object -> Object \cup {NoObject}]
    /\ loaded \subseteq [name : Name, read : Nat, kept : Nat]
    /\ load \in Loads
    /\ pc \in {"idle", "drop", "create", "rows", "index"}
    /\ at \in 0 .. Len(load.rows) /\ kept \in 0 .. at /\ built \in 0 .. Len(load.index)
    /\ tx \in Seq(Row)
    /\ result \in {"none", "ok", "refused", "error", "killed"}
    /\ faults \in 0 .. MaxFaults
    /\ good \subseteq Loads

\* A table whose last load ended well holds exactly the rows of the dump that the
\* filters keep, in order, over all batches; has its indexes; and was recorded
\* with its counts: until its next load, whatever loads of other tables do.
GoodIsExact == \A l \in good :
    /\ Fold[l.name] \in tables /\ table[Fold[l.name]] = Kept(l)
    /\ \A i \in DOMAIN l.index : on[FoldIndex[<<l.name, l.index[i]>>]] = Fold[l.name]
    /\ [name |-> l.name, read |-> Len(l.rows), kept |-> Len(Kept(l))] \in loaded

\* While a load runs, its table is the start of what it keeps, the committed rows
\* end where the transaction begins, and a transaction never reaches batch rows.
BatchesInOrder == pc = "rows" =>
    /\ table[Obj] \o tx = SubSeq(Kept(load), 1, kept)
    /\ Len(tx) < batch /\ Len(table[Obj]) % batch = 0
=============================================================================
