------------------------------ MODULE Memstore ------------------------------
(***************************************************************************)
(* The in-memory engine (src/memstore/memstore.go) as the sessions use it: *)
(* one table, every change kept in a pending list until Commit, and a      *)
(* write lock on a committed row for as long as its writer runs.  As in    *)
(* module Mvcc, the executor passes to Update and Delete only ids that a   *)
(* scan of the same transaction returned.                                  *)
(*                                                                         *)
(* A row's values are one Go slice, which Insert stores and every copy of  *)
(* the row shares: the committed row, the pending ones and what Scan       *)
(* returns.  applyUpdateAssignments (src/executor/executor.go) writes into *)
(* that slice before it calls Update.  So the model keeps one value per    *)
(* row id, and an UPDATE changes it at once, also when Update is refused.  *)
(***************************************************************************)
EXTENDS Integers, Sequences

CONSTANTS MaxTx,      \* bound: transactions
          MaxRowID,   \* bound: rows
          MaxPending, \* bound: changes of one transaction
          MaxDrop,    \* bound: times the table is dropped
          Value       \* what a row may hold

ASSUME MemAssumption ==
  /\ MaxTx \in Nat /\ MaxRowID \in Nat /\ MaxPending \in Nat /\ MaxDrop \in Nat
  /\ Value # {}

VARIABLES table,      \* the table exists
          rows,       \* ids of the committed rows
          rowTxns,    \* owner of each committed row, 0 when free
          nextID,     \* last row id handed out
          nextTx,     \* last transaction id handed out
          activeTxns, \* running transactions
          pending,    \* per running transaction: its changes in order
          vals,       \* what the slice of each row holds
          past,       \* history: ids that were ever committed
          told,       \* history: what the commits, in order, made each row hold
          clean,      \* history: no UPDATE was refused, no change rolled back
          orphans,    \* history: ids with a pending change when the table was dropped
          drops       \* times the table was dropped

hist == <<told, clean, orphans, drops>>
mvars == <<table, rows, rowTxns, nextID, nextTx, activeTxns, pending, vals, past, hist>>

RowIDs == 1 .. MaxRowID

\* The changed rows of a list, and those whose last change is a deletion.
Touched(changes) == {changes[i].id : i \in DOMAIN changes}

LastChange(changes, id) ==
  CHOOSE i \in DOMAIN changes :
    /\ changes[i].id = id
    /\ \A j \in DOMAIN changes : changes[j].id = id => j <= i

Deleted(changes) == {id \in Touched(changes) : changes[LastChange(changes, id)].isDelete}

Init ==
  /\ table = FALSE
  /\ rows = {}
  /\ rowTxns = [id \in RowIDs |-> 0]
  /\ nextID = 0
  /\ nextTx = 0
  /\ activeTxns = {}
  /\ pending = [t \in {} |-> <<>>]
  /\ vals \in [RowIDs -> {CHOOSE v \in Value : TRUE}]
  /\ past = {}
  /\ told = vals
  /\ clean = TRUE
  /\ orphans = {}
  /\ drops = 0

CreateTable ==
  /\ ~table
  /\ table' = TRUE
  /\ UNCHANGED <<rows, rowTxns, nextID, nextTx, activeTxns, pending, vals, past, hist>>

\* The table goes with its rows and locks; pending changes stay.
DropTable ==
  /\ table
  /\ drops < MaxDrop
  /\ drops' = drops + 1
  /\ table' = FALSE
  /\ rows' = {}
  /\ rowTxns' = [id \in RowIDs |-> 0]
  /\ orphans' = orphans \cup UNION {Touched(pending[t]) : t \in activeTxns}
  /\ UNCHANGED <<nextID, nextTx, activeTxns, pending, vals, past, told, clean>>

\* The committed rows with the pending changes of t laid over them.
Scan(t) == (rows \cup Touched(pending[t])) \ Deleted(pending[t])

Begin ==
  /\ nextTx < MaxTx
  /\ nextTx' = nextTx + 1
  /\ activeTxns' = activeTxns \cup {nextTx'}
  /\ pending' = [t \in activeTxns' |-> IF t = nextTx' THEN <<>> ELSE pending[t]]
  /\ UNCHANGED <<table, rows, rowTxns, nextID, vals, past, hist>>

Forget(t) ==
  /\ activeTxns' = activeTxns \ {t}
  /\ pending' = [u \in activeTxns \ {t} |-> pending[u]]

\* Apply the changes in order, if there is a table; rows written become free.
Commit(t) ==
  LET changed == IF table THEN Touched(pending[t]) ELSE {}
  IN  /\ t \in activeTxns
      /\ rows' = (rows \cup changed) \ (changed \cap Deleted(pending[t]))
      /\ rowTxns' = [id \in RowIDs |-> IF id \in changed THEN 0 ELSE rowTxns[id]]
      /\ past' = past \cup rows'
      /\ told' = [id \in RowIDs |->
           IF id \in changed THEN pending[t][LastChange(pending[t], id)].val ELSE told[id]]
      /\ Forget(t)
      /\ UNCHANGED <<table, nextID, nextTx, vals, clean, orphans, drops>>

\* Mutant: a rolled-back transaction keeps its locks.
ReleaseNone(t) == rowTxns

\* The rows t had claimed become free.
Release(t) == [id \in RowIDs |->
                 IF id \in Touched(pending[t]) /\ rowTxns[id] = t THEN 0 ELSE rowTxns[id]]

Rollback(t) ==
  /\ t \in activeTxns
  /\ rowTxns' = Release(t)
  /\ clean' = (clean /\ pending[t] = <<>>)
  /\ Forget(t)
  /\ UNCHANGED <<table, rows, nextID, nextTx, vals, past, told, orphans, drops>>

\* Append a pending change.  Its val is history: the row shares its slice.
Pend(t, id, val, isDelete) ==
  /\ Len(pending[t]) < MaxPending
  /\ pending' = [pending EXCEPT ![t] = Append(@, [id |-> id, val |-> val, isDelete |-> isDelete])]

Insert(t, v) ==
  /\ t \in activeTxns
  /\ table
  /\ nextID < MaxRowID
  /\ nextID' = nextID + 1
  /\ vals' = [vals EXCEPT ![nextID'] = v]
  /\ Pend(t, nextID', v, FALSE)
  /\ UNCHANGED <<table, rows, rowTxns, nextTx, activeTxns, past, hist>>

\* Mutant: the lock is not looked at.
NeverOwned(t, id) == FALSE

\* The row is locked by another running transaction.
OwnedByOther(t, id) == rowTxns[id] \notin {0, t} /\ rowTxns[id] \in activeTxns

\* Record a change of a committed row and lock the row.
Claim(t, id, val, isDelete) ==
  /\ t \in activeTxns
  /\ table
  /\ id \in Scan(t) \cap rows
  /\ ~OwnedByOther(t, id)
  /\ Pend(t, id, val, isDelete)
  /\ rowTxns' = [rowTxns EXCEPT ![id] = t]
  /\ UNCHANGED <<table, rows, nextID, nextTx, activeTxns, past, hist>>

\* applyUpdateAssignments: into the slice that all copies of the row share.
Assign(id, v) == [vals EXCEPT ![id] = v]

Update(t, id, v) ==
  /\ Claim(t, id, v, FALSE)
  /\ vals' = Assign(id, v)

Delete(t, id) ==
  /\ Claim(t, id, vals[id], TRUE)
  /\ UNCHANGED vals

\* An UPDATE of a row that is locked by another: the value is assigned, then
\* Update returns core.ErrWriteConflict and the session rolls back.
UpdateConflict(t, id, v) ==
  /\ table
  /\ id \in Scan(t) \cap rows
  /\ OwnedByOther(t, id)
  /\ vals' = Assign(id, v)
  /\ rowTxns' = Release(t)
  /\ clean' = FALSE
  /\ Forget(t)
  /\ UNCHANGED <<table, rows, nextID, nextTx, past, told, orphans, drops>>

DeleteConflict(t, id) ==
  /\ table
  /\ id \in Scan(t) \cap rows
  /\ OwnedByOther(t, id)
  /\ Rollback(t)

\* An UPDATE of a row that t itself inserted: the value is assigned, then the
\* row is not found among the committed ones.  The transaction goes on.
UpdateNotFound(t, id, v) ==
  /\ table
  /\ id \in Scan(t) \ rows
  /\ vals' = Assign(id, v)
  /\ clean' = FALSE
  /\ UNCHANGED <<table, rows, rowTxns, nextID, nextTx, activeTxns, pending, past, told, orphans, drops>>

Next ==
  \/ CreateTable
  \/ DropTable
  \/ Begin
  \/ \E t \in activeTxns :
       \/ Commit(t)
       \/ Rollback(t)
       \/ \E v \in Value : Insert(t, v)
       \/ \E id \in RowIDs :
            \/ \E v \in Value : Update(t, id, v) \/ UpdateConflict(t, id, v) \/ UpdateNotFound(t, id, v)
            \/ Delete(t, id)
            \/ DeleteConflict(t, id)

Spec == Init /\ [][Next]_mvars

(***************************************************************************)
(* Properties                                                              *)
(***************************************************************************)

\* A committed row with a pending change is locked by the transaction that made
\* it, from the change to the end of the transaction: no two running
\* transactions ever hold changes of the same row, so neither commit overwrites
\* the other.
WritersExclusive ==
  \A t \in activeTxns : \A id \in Touched(pending[t]) :
    /\ id \in rows => rowTxns[id] = t
    /\ \A u \in activeTxns \ {t} : id \notin Touched(pending[u])

\* A committed deletion is final: a row id that left the committed rows never
\* comes back, whatever was pending elsewhere when the deletion committed.  The
\* one exception is DropTable, which leaves pending changes behind: their
\* transactions put the old rows into a new table of the same name.
NoResurrection ==
  [][\A id \in rows' : id \in rows \/ id \notin past \/ id \in orphans]_mvars

\* Although every UPDATE writes through to the committed row, the contents at
\* rest are what the commits, in their order, made of them, as long as no UPDATE
\* was refused and no change rolled back: the write locks keep a transaction from
\* writing over the uncommitted value of another.
ContentsAtRest ==
  clean /\ activeTxns = {} => \A id \in rows : vals[id] = told[id]

\* DESIGN.md's "ROLLBACK discards them": the committed rows that a transaction
\* changed hold, once it is rolled back, what the commits made of them.
RollbackDiscards ==
  [][\A t \in activeTxns :
       Rollback(t) => \A id \in Touched(pending[t]) \cap rows : vals'[id] = told[id]]_mvars

\* A lock lives exactly as long as the change it protects: after Commit,
\* Rollback or a conflict no row stays claimed by a transaction that is gone.
NoStaleLock ==
  \A id \in RowIDs :
    rowTxns[id] # 0 =>
      /\ id \in rows
      /\ rowTxns[id] \in activeTxns
      /\ id \in Touched(pending[rowTxns[id]])
=============================================================================
