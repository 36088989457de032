-------------------------------- MODULE Mvcc --------------------------------
(***************************************************************************)
(* Multi-version concurrency control of the storage engine                *)
(* (src/storage/engine.go): transaction table, frozen snapshots, row       *)
(* versions stamped with Xmin and Xmax, visibility and the write-conflict  *)
(* test.                                                                   *)
(*                                                                         *)
(* A row version is known by its RowID.  The column values of a version    *)
(* never change once it is written (an UPDATE stamps the old version and   *)
(* writes another one), so the model keeps the two stamps only.  Which     *)
(* RowID a new version gets is the heap file's first-fit choice: here, any *)
(* RowID not used yet.                                                     *)
(*                                                                         *)
(* Callers are the executor's statements, which pass to Update and Delete  *)
(* only the RowIDs that a Scan or SeekIndex of the same transaction        *)
(* returned (src/executor/executor.go, materialize-then-mutate).           *)
(***************************************************************************)
EXTENDS Integers

CONSTANTS RowID,   \* names of row versions
          MaxTx    \* bound: transactions begun in one life of the engine

ASSUME MaxTxAssumption == MaxTx \in Nat

VARIABLES nextTx,        \* last transaction id handed out
          activeTxns,    \* ids of running transactions
          committed,     \* ids of committed transactions
          txnSnapshots,  \* committed set frozen at Begin, per running txn
          heap           \* stored row versions: RowID -> [xmin, xmax]

vars == <<nextTx, activeTxns, committed, txnSnapshots, heap>>

TxID == 1 .. MaxTx

Version == [xmin : TxID, xmax : {0} \cup TxID]

(***************************************************************************)
(* Visibility and conflicts                                                *)
(***************************************************************************)

\* Mutant: visibility against the live committed set (read committed).
LiveCommitted(t) == committed

\* The committed set a transaction reads against: its frozen snapshot, or the
\* live set when it has none (use after commit).
Snapshot(t) == IF t \in DOMAIN txnSnapshots THEN txnSnapshots[t] ELSE committed

\* Mutant: a version is visible unless its creator still runs.
createdUnlessRunning(t, v) == v.xmin = t \/ v.xmin \notin activeTxns

createdVisible(t, v) == v.xmin = t \/ v.xmin \in Snapshot(t)

\* Mutant: a transaction's own deletions are forgotten.
deletedByOthers(t, v) == v.xmax # 0 /\ v.xmax \in Snapshot(t)

deletedVisible(t, v) == v.xmax # 0 /\ (v.xmax = t \/ v.xmax \in Snapshot(t))

isVisible(t, v) == createdVisible(t, v) /\ ~deletedVisible(t, v)

\* Mutant: a scan that skips the visibility filter (the raw iterator).
ScanRaw(t) == DOMAIN heap

\* What a full scan by t returns.
Scan(t) == {r \in DOMAIN heap : isVisible(t, heap[r])}

\* Mutant: a deletion that is still running, or rolled back, counts too.
deletedByAnyone(t, v) == v.xmax # 0 /\ v.xmax # t

\* Case A: the version's deleter has committed.
deletedByCommitted(t, v) == v.xmax # 0 /\ v.xmax # t /\ v.xmax \in committed

\* Case B: the version's creator committed after t began.
createdAfterSnapshot(t, v) ==
  /\ t \in DOMAIN txnSnapshots
  /\ v.xmin # t
  /\ v.xmin \in committed
  /\ v.xmin \notin txnSnapshots[t]

\* Mutant: the conflict test without case A.
createdOnly(t, v) == createdAfterSnapshot(t, v)

checkWriteConflict(t, v) == deletedByCommitted(t, v) \/ createdAfterSnapshot(t, v)

(***************************************************************************)
(* Heap updates                                                            *)
(***************************************************************************)

\* The heap h after t has stamped the versions in S and stored the versions
\* in N as its own.
Stored(h, t, S, N) ==
  [r \in DOMAIN h \cup N |->
     IF r \in N THEN [xmin |-> t, xmax |-> 0]
     ELSE IF r \in S THEN [h[r] EXCEPT !.xmax = t]
     ELSE h[r]]

FreeRowID == RowID \ DOMAIN heap

(***************************************************************************)
(* Actions                                                                 *)
(***************************************************************************)

Init ==
  /\ nextTx = 0
  /\ activeTxns = {}
  /\ committed = {}
  /\ txnSnapshots = [t \in {} |-> {}]
  /\ heap = [r \in {} |-> [xmin |-> 0, xmax |-> 0]]

Begin ==
  /\ nextTx < MaxTx
  /\ nextTx' = nextTx + 1
  /\ activeTxns' = activeTxns \cup {nextTx'}
  /\ txnSnapshots' = [t \in DOMAIN txnSnapshots \cup {nextTx'} |->
                        IF t = nextTx' THEN committed ELSE txnSnapshots[t]]
  /\ UNCHANGED <<committed, heap>>

\* Mutant: the snapshot of an ended transaction is kept.
LeaveKeepSnapshot(t) ==
  /\ t \in activeTxns
  /\ activeTxns' = activeTxns \ {t}
  /\ UNCHANGED txnSnapshots

\* Forget a transaction that ends.
Leave(t) ==
  /\ t \in activeTxns
  /\ activeTxns' = activeTxns \ {t}
  /\ txnSnapshots' = [u \in DOMAIN txnSnapshots \ {t} |-> txnSnapshots[u]]

Commit(t) ==
  /\ Leave(t)
  /\ committed' = committed \cup {t}
  /\ UNCHANGED <<nextTx, heap>>

\* Nothing is undone: the stamps of t stay in the heap.
Rollback(t) ==
  /\ Leave(t)
  /\ UNCHANGED <<nextTx, committed, heap>>

Insert(t, new) ==
  /\ t \in activeTxns
  /\ new \in FreeRowID
  /\ heap' = Stored(heap, t, {}, {new})
  /\ UNCHANGED <<nextTx, activeTxns, committed, txnSnapshots>>

Update(t, id, new) ==
  /\ t \in activeTxns
  /\ id \in Scan(t)
  /\ ~checkWriteConflict(t, heap[id])
  /\ new \in FreeRowID
  /\ heap' = Stored(heap, t, {id}, {new})
  /\ UNCHANGED <<nextTx, activeTxns, committed, txnSnapshots>>

\* The new version does not fit in a page: HeapFile.Insert fails after the old
\* version has been stamped, and the caller gets an error.
UpdateTooLarge(t, id) ==
  /\ t \in activeTxns
  /\ id \in Scan(t)
  /\ ~checkWriteConflict(t, heap[id])
  /\ heap' = Stored(heap, t, {id}, {})
  /\ UNCHANGED <<nextTx, activeTxns, committed, txnSnapshots>>

Delete(t, id) ==
  /\ t \in activeTxns
  /\ id \in Scan(t)
  /\ ~checkWriteConflict(t, heap[id])
  /\ heap' = Stored(heap, t, {id}, {})
  /\ UNCHANGED <<nextTx, activeTxns, committed, txnSnapshots>>

\* A rejected Update or Delete returns an error and changes nothing here, so
\* it needs no action: it is a stuttering step.
Next ==
  \/ Begin
  \/ \E t \in activeTxns :
       \/ Commit(t)
       \/ Rollback(t)
       \/ \E new \in RowID : Insert(t, new)
       \/ \E id \in Scan(t) :
            \/ \E new \in RowID : Update(t, id, new)
            \/ UpdateTooLarge(t, id)
            \/ Delete(t, id)

Spec == Init /\ [][Next]_vars

(***************************************************************************)
(* Derived views                                                           *)
(***************************************************************************)

\* The committed database: the versions a transaction begun now would see.
LiveRows == {r \in DOMAIN heap : /\ heap[r].xmin \in committed
                                 /\ heap[r].xmax \notin committed}

\* What the snapshot of t holds, its own work left aside.
SnapshotRows(t) ==
  {r \in DOMAIN heap : /\ heap[r].xmin \in txnSnapshots[t]
                       /\ heap[r].xmax \notin txnSnapshots[t]}

(***************************************************************************)
(* Properties                                                              *)
(***************************************************************************)

\* Every variable has its type; snapshots are kept for exactly the running
\* transactions.
TypeOK ==
  /\ nextTx \in 0 .. MaxTx
  /\ activeTxns \subseteq 1 .. nextTx
  /\ committed \subseteq 1 .. nextTx
  /\ txnSnapshots \in [activeTxns -> SUBSET committed]
  /\ DOMAIN heap \subseteq RowID
  /\ heap \in [DOMAIN heap -> [xmin : 1 .. nextTx, xmax : 0 .. nextTx]]

\* A version that another transaction has not committed is never returned by a
\* scan (DESIGN.md, "Dirty Read"): not while its creator runs, and not after
\* its creator rolled back with the version left in the heap.
NoDirtyRead ==
  \A t \in activeTxns : \A r \in Scan(t) :
    heap[r].xmin # t => heap[r].xmin \in committed \ activeTxns

\* The versions a running transaction's snapshot holds never change, whatever
\* other transactions stamp, store, commit or roll back in between (isVisible
\* over a frozen set, checkWriteConflict guarding committed stamps).
SnapshotStable ==
  [][\A t \in activeTxns \cap activeTxns' : SnapshotRows(t)' = SnapshotRows(t)]_vars

\* A version that left the committed database never comes back: the stamp of a
\* committed deleter is never overwritten (checkWriteConflict, case A).
CommittedDeleteFinal ==
  [][\A r \in DOMAIN heap :
       heap[r].xmax \in committed => r \in DOMAIN heap' /\ heap'[r] = heap[r]]_vars

\* Whoever stamps a version that it did not create had the version in its
\* snapshot, so no transaction ever deletes or replaces another's uncommitted
\* or rolled-back work.
StampDiscipline ==
  \A r \in DOMAIN heap :
    LET v == heap[r]
    IN  v.xmax \notin {0, v.xmin} =>
          /\ v.xmin \in committed
          /\ v.xmax \in activeTxns => v.xmin \in txnSnapshots[v.xmax]

\* The version behind a rejected write of a visible row was always deleted by a
\* transaction that committed after the writer began: a scan never returns a
\* version whose creator is outside the snapshot, so case B of
\* checkWriteConflict cannot fire for it.
ConflictOnlyWithLaterCommit ==
  \A t \in activeTxns : \A r \in Scan(t) :
    checkWriteConflict(t, heap[r]) =>
      /\ heap[r].xmax \in committed \ txnSnapshots[t]
      /\ r \in SnapshotRows(t)

(***************************************************************************)
(* Refinement                                                              *)
(***************************************************************************)

\* What each running transaction began on, and what it reads.
BaseMap == [t \in activeTxns |-> SnapshotRows(t)]
ViewMap == [t \in activeTxns |-> Scan(t)]

Store == INSTANCE SnapshotStore WITH
           Row <- RowID,
           Tx <- TxID,
           rows <- DOMAIN heap,
           db <- LiveRows,
           base <- BaseMap,
           view <- ViewMap

\* A write replaces the stamp of another transaction that still runs: a version
\* has room for one deleter, and checkWriteConflict refuses committed deleters
\* only.  The overwritten deleter reads the version again.
Overwrites ==
  \E r \in DOMAIN heap : heap[r].xmax \in activeTxns /\ heap'[r].xmax # heap[r].xmax

\* Stamps, snapshots and visibility implement the view-level store: a
\* transaction reads the database it began on plus its own work, Commit
\* publishes exactly the difference at once, and a rollback publishes nothing
\* although its versions and stamps stay in the heap.  Every step is a step of
\* the store but one kind, the replacement of a running transaction's stamp;
\* that one still changes neither the committed database nor what any running
\* transaction began on.
ImplementsStore ==
  /\ Store!Init
  /\ [][Store!Next \/ (Overwrites /\ UNCHANGED <<LiveRows, BaseMap>>)]_Store!svars
=============================================================================
