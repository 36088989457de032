------------------------- MODULE TransactionProofs -------------------------
(***************************************************************************)
(* Theorems about transactions: first about Mvcc, for every set of row ids *)
(* and every number of transactions, then about Session, for every set of  *)
(* sessions and every finite set of row ids.                               *)
(***************************************************************************)
EXTENDS Session, FiniteSetTheorems, TLAPS

(***************************************************************************)
(* The engine                                                              *)
(***************************************************************************)

\* The inductive invariant: types, an ended transaction never runs again, and
\* the discipline of the stamps.
IInv ==
  /\ TypeOK
  /\ activeTxns \cap committed = {}
  /\ StampDiscipline

\* A write that the engine accepts: transaction w stamps the versions in S,
\* which it sees and may write, and stores the versions in N.
AcceptedWrite(w, S, N) ==
  /\ S \in SUBSET DOMAIN heap
  /\ N \in SUBSET FreeRowID
  /\ \A id \in S : id \in Scan(w) /\ ~checkWriteConflict(w, heap[id])
  /\ heap' = Stored(heap, w, S, N)
  /\ UNCHANGED <<nextTx, activeTxns, committed, txnSnapshots>>

\* What an accepted write does to the derived views: the committed database
\* and every snapshot stay, the writer's view loses S and gains N, and another
\* transaction's view regains those rows of S that its snapshot holds.
WriteMoves(w, S, N) ==
  /\ DOMAIN heap' = DOMAIN heap \cup N
  /\ LiveRows' = LiveRows
  /\ \A t \in activeTxns : SnapshotRows(t)' = SnapshotRows(t)
  /\ Scan(w)' = (Scan(w) \ S) \cup N
  /\ \A u \in activeTxns \ {w} : Scan(u)' = Scan(u) \cup (S \cap SnapshotRows(u))
  /\ \A r \in DOMAIN heap : heap[r].xmax \in committed => heap'[r] = heap[r]

\* A version as TypeOK describes it.
LEMMA VersionType ==
  ASSUME TypeOK, NEW r \in DOMAIN heap
  PROVE  /\ heap[r] \in [xmin : 1 .. nextTx, xmax : 0 .. nextTx]
         /\ heap[r].xmin \in 1 .. nextTx
         /\ heap[r].xmax \in 0 .. nextTx
         /\ r \in RowID
BY DEF TypeOK

\* A scan returns only versions whose creator is the reader or is in its
\* snapshot, and the conflict test leaves only versions whose deleter has not
\* committed.
LEMMA WritableVersion ==
  ASSUME IInv, NEW t \in activeTxns, NEW id \in Scan(t), ~checkWriteConflict(t, heap[id])
  PROVE  /\ id \in DOMAIN heap
         /\ heap[id].xmin # t => heap[id].xmin \in txnSnapshots[t] /\ heap[id].xmin \in committed
         /\ heap[id].xmax \notin committed
         /\ heap[id].xmax # t
         /\ heap[id].xmin = t => heap[id].xmax = 0
<1>1. id \in DOMAIN heap
  BY DEF Scan
<1>2. DOMAIN txnSnapshots = activeTxns /\ txnSnapshots[t] \subseteq committed
  BY DEF IInv, TypeOK
<1>3. heap[id].xmin # t => heap[id].xmin \in txnSnapshots[t] /\ heap[id].xmin \in committed
  BY <1>2 DEF Scan, isVisible, createdVisible, Snapshot
<1>4. 0 \notin committed /\ t # 0
  BY DEF IInv, TypeOK
<1>5. heap[id].xmax # t
  BY <1>4 DEF Scan, isVisible, deletedVisible
<1>6. heap[id].xmax \notin committed
  BY <1>4, <1>5 DEF checkWriteConflict, deletedByCommitted
<1>7. heap[id].xmin = t => heap[id].xmax = 0
  BY <1>1, <1>5 DEF IInv, StampDiscipline
<1> QED
  BY <1>1, <1>3, <1>5, <1>6, <1>7

\* Every write the engine accepts keeps the invariant.
LEMMA WriteKeepsIInv ==
  ASSUME IInv, NEW t \in activeTxns, NEW S, NEW N, AcceptedWrite(t, S, N)
  PROVE  IInv'
<1> USE DEF AcceptedWrite
<1>1. TypeOK
  BY DEF IInv
<1>2. t \in 1 .. nextTx /\ nextTx \in Nat
  BY MaxTxAssumption DEF IInv, TypeOK
<1>3. /\ DOMAIN heap' = DOMAIN heap \cup N
      /\ \A r \in N : heap'[r] = [xmin |-> t, xmax |-> 0]
      /\ \A r \in (DOMAIN heap \cap S) \ N : heap'[r] = [xmin |-> heap[r].xmin, xmax |-> t]
      /\ \A r \in DOMAIN heap \ (S \cup N) : heap'[r] = heap[r]
  BY <1>1 DEF Stored, TypeOK
<1>4. \A r \in DOMAIN heap' : heap'[r] \in [xmin : 1 .. nextTx, xmax : 0 .. nextTx]
  <2> SUFFICES ASSUME NEW r \in DOMAIN heap'
               PROVE  heap'[r] \in [xmin : 1 .. nextTx, xmax : 0 .. nextTx]
    OBVIOUS
  <2>1. CASE r \in N
    BY <2>1, <1>2, <1>3
  <2>2. CASE r \in (DOMAIN heap \cap S) \ N
    BY <2>2, <1>1, <1>2, <1>3, VersionType
  <2>3. CASE r \in DOMAIN heap \ (S \cup N)
    BY <2>3, <1>1, <1>3, VersionType
  <2> QED
    BY <2>1, <2>2, <2>3, <1>3
<1>5. heap' = [r \in DOMAIN heap' |-> heap'[r]]
  BY DEF Stored
<1>6. TypeOK'
  <2>1. DOMAIN heap' \subseteq RowID
    BY <1>1, <1>3 DEF TypeOK, FreeRowID
  <2>2. heap' \in [DOMAIN heap' -> [xmin : 1 .. nextTx', xmax : 0 .. nextTx']]
    BY <1>4, <1>5
  <2> QED
    BY <2>1, <2>2, <1>1 DEF TypeOK
<1>7. StampDiscipline'
  <2> SUFFICES ASSUME NEW r \in DOMAIN heap', heap'[r].xmax \notin {0, heap'[r].xmin}
               PROVE  /\ heap'[r].xmin \in committed
                      /\ heap'[r].xmax \in activeTxns =>
                           heap'[r].xmin \in txnSnapshots[heap'[r].xmax]
    BY DEF StampDiscipline
  <2>1. CASE r \in N
    BY <2>1, <1>3
  <2>2. CASE r \in (DOMAIN heap \cap S) \ N
    <3>1. heap'[r].xmin = heap[r].xmin /\ heap'[r].xmax = t
      BY <2>2, <1>3
    <3>2. heap[r].xmin # t
      BY <3>1
    <3>3. heap[r].xmin \in txnSnapshots[t] /\ heap[r].xmin \in committed
      BY <2>2, <3>2, WritableVersion
    <3> QED
      BY <3>1, <3>3
  <2>3. CASE r \in DOMAIN heap \ (S \cup N)
    BY <2>3, <1>3 DEF IInv, StampDiscipline
  <2> QED
    BY <2>1, <2>2, <2>3, <1>3
<1> QED
  BY <1>6, <1>7 DEF IInv

\* Begin keeps the invariant: the new id is above every id in use.
LEMMA BeginKeepsIInv ==
  ASSUME IInv, Begin
  PROVE  IInv'
<1>1. nextTx \in Nat /\ nextTx' = nextTx + 1 /\ nextTx' \in 0 .. MaxTx
  BY MaxTxAssumption DEF IInv, TypeOK, Begin
<1>2. TypeOK'
  <2>1. activeTxns' \subseteq 1 .. nextTx' /\ committed' \subseteq 1 .. nextTx'
    BY <1>1 DEF IInv, TypeOK, Begin
  <2>2. txnSnapshots' \in [activeTxns' -> SUBSET committed']
    BY <1>1 DEF IInv, TypeOK, Begin
  <2>3. DOMAIN heap' \subseteq RowID
    BY DEF IInv, TypeOK, Begin
  <2>4. heap' \in [DOMAIN heap' -> [xmin : 1 .. nextTx', xmax : 0 .. nextTx']]
    <3>1. [xmin : 1 .. nextTx, xmax : 0 .. nextTx]
            \subseteq [xmin : 1 .. nextTx', xmax : 0 .. nextTx']
      BY <1>1
    <3> QED
      BY <3>1 DEF IInv, TypeOK, Begin
  <2> QED
    BY <1>1, <2>1, <2>2, <2>3, <2>4 DEF TypeOK
<1>3. (activeTxns \cap committed = {})'
  BY <1>1 DEF IInv, TypeOK, Begin
<1>4. StampDiscipline'
  <2> SUFFICES ASSUME NEW r \in DOMAIN heap, heap[r].xmax \notin {0, heap[r].xmin}
               PROVE  /\ heap[r].xmin \in committed
                      /\ heap[r].xmax \in activeTxns' =>
                           heap[r].xmin \in txnSnapshots'[heap[r].xmax]
    BY DEF StampDiscipline, Begin
  <2>1. heap[r].xmax # nextTx'
    BY <1>1, VersionType DEF IInv
  <2>2. /\ heap[r].xmin \in committed
        /\ heap[r].xmax \in activeTxns => heap[r].xmin \in txnSnapshots[heap[r].xmax]
    BY DEF IInv, StampDiscipline
  <2>3. heap[r].xmax \in activeTxns =>
          txnSnapshots'[heap[r].xmax] = txnSnapshots[heap[r].xmax]
    BY <2>1 DEF IInv, TypeOK, Begin
  <2> QED
    BY <2>1, <2>2, <2>3 DEF Begin
<1> QED
  BY <1>2, <1>3, <1>4 DEF IInv

\* The end of a transaction, committed or not, keeps the invariant.
LEMMA EndKeepsIInv ==
  ASSUME IInv, NEW t \in activeTxns, Commit(t) \/ Rollback(t)
  PROVE  IInv'
<1>1. /\ activeTxns' = activeTxns \ {t}
      /\ txnSnapshots' = [u \in DOMAIN txnSnapshots \ {t} |-> txnSnapshots[u]]
      /\ nextTx' = nextTx /\ heap' = heap
      /\ committed' = committed \/ committed' = committed \cup {t}
  BY DEF Commit, Rollback, Leave
<1>2. TypeOK'
  BY <1>1 DEF IInv, TypeOK
<1>3. (activeTxns \cap committed = {})'
  BY <1>1 DEF IInv
<1>4. StampDiscipline'
  BY <1>1 DEF IInv, TypeOK, StampDiscipline
<1> QED
  BY <1>2, <1>3, <1>4 DEF IInv

\* Every step keeps the invariant.
LEMMA NextKeepsIInv ==
  ASSUME IInv, [Next]_vars
  PROVE  IInv'
<1>1. CASE Begin
  BY <1>1, BeginKeepsIInv
<1>2. ASSUME NEW t \in activeTxns, Commit(t) \/ Rollback(t)
      PROVE  IInv'
  BY <1>2, EndKeepsIInv
<1>3. ASSUME NEW t \in activeTxns, NEW new \in RowID, Insert(t, new)
      PROVE  IInv'
  <2>1. AcceptedWrite(t, {}, {new})
    BY <1>3 DEF Insert, AcceptedWrite
  <2> QED
    BY <2>1, WriteKeepsIInv
<1>4. ASSUME NEW t \in activeTxns, NEW id \in Scan(t), NEW new \in RowID, Update(t, id, new)
      PROVE  IInv'
  <2>1. AcceptedWrite(t, {id}, {new})
    BY <1>4 DEF Update, Scan, AcceptedWrite
  <2> QED
    BY <2>1, WriteKeepsIInv
<1>5. ASSUME NEW t \in activeTxns, NEW id \in Scan(t), UpdateTooLarge(t, id) \/ Delete(t, id)
      PROVE  IInv'
  <2>1. AcceptedWrite(t, {id}, {})
    BY <1>5 DEF UpdateTooLarge, Delete, Scan, AcceptedWrite
  <2> QED
    BY <2>1, WriteKeepsIInv
<1>6. CASE UNCHANGED vars
  BY <1>6 DEF vars, IInv, TypeOK, StampDiscipline
<1> QED
  BY <1>1, <1>2, <1>3, <1>4, <1>5, <1>6 DEF Next

\* The invariant holds in every reachable state.
LEMMA Invariant == Spec => []IInv
<1>1. Init => IInv
  BY MaxTxAssumption DEF Init, IInv, TypeOK, StampDiscipline
<1>2. IInv /\ [Next]_vars => IInv'
  BY NextKeepsIInv
<1> QED
  BY <1>1, <1>2, PTL DEF Spec

\* The transaction table and the row headers are well formed in every
\* reachable state, and a snapshot exists for exactly the running transactions.
THEOREM TypeCorrect == Spec => []TypeOK
<1>1. IInv => TypeOK
  BY DEF IInv
<1> QED
  BY <1>1, Invariant, PTL

\* Stamps are put only on versions that the stamping transaction had in its
\* snapshot or created itself.
THEOREM StampsAreDisciplined == Spec => []StampDiscipline
<1>1. IInv => StampDiscipline
  BY DEF IInv
<1> QED
  BY <1>1, Invariant, PTL

\* The invariant rules out dirty reads.
LEMMA IInvNoDirtyRead == IInv => NoDirtyRead
BY DEF IInv, TypeOK, NoDirtyRead, Scan, isVisible, createdVisible, Snapshot

\* No scan returns uncommitted or rolled-back work of another transaction.
THEOREM DirtyReadsPrevented == Spec => []NoDirtyRead
BY IInvNoDirtyRead, Invariant, PTL

\* Under the invariant a conflict is one with a later commit.
LEMMA IInvConflict == IInv => ConflictOnlyWithLaterCommit
<1>1. ASSUME IInv, NEW t \in activeTxns, NEW r \in Scan(t), checkWriteConflict(t, heap[r])
      PROVE  heap[r].xmax \in committed \ txnSnapshots[t] /\ r \in SnapshotRows(t)
  <2>1. DOMAIN txnSnapshots = activeTxns /\ t \notin committed
    BY <1>1 DEF IInv, TypeOK
  <2>2. /\ r \in DOMAIN heap
        /\ heap[r].xmin = t \/ heap[r].xmin \in txnSnapshots[t]
        /\ heap[r].xmax = 0 \/ (heap[r].xmax # t /\ heap[r].xmax \notin txnSnapshots[t])
    BY <2>1 DEF Scan, isVisible, createdVisible, deletedVisible, Snapshot
  <2>3. heap[r].xmax # 0 /\ heap[r].xmax # t /\ heap[r].xmax \in committed
    BY <1>1, <2>2 DEF checkWriteConflict, deletedByCommitted, createdAfterSnapshot
  <2>4. heap[r].xmin # t
    BY <1>1, <2>1, <2>2, <2>3 DEF IInv, StampDiscipline
  <2> QED
    BY <2>2, <2>3, <2>4 DEF SnapshotRows
<1> QED
  BY <1>1 DEF ConflictOnlyWithLaterCommit

\* A write of a visible row is rejected only because of a commit that happened
\* after the writer began.
THEOREM ConflictsAreLaterCommits == Spec => []ConflictOnlyWithLaterCommit
BY IInvConflict, Invariant, PTL

\* An accepted write moves the derived views as WriteMoves says.
LEMMA WriteEffect ==
  ASSUME IInv, NEW w \in activeTxns, NEW S, NEW N, AcceptedWrite(w, S, N)
  PROVE  WriteMoves(w, S, N)
<1> USE DEF AcceptedWrite
<1>1. /\ DOMAIN heap' = DOMAIN heap \cup N
      /\ N \cap DOMAIN heap = {}
      /\ \A r \in N : heap'[r].xmin = w /\ heap'[r].xmax = 0
      /\ \A r \in S : heap'[r].xmin = heap[r].xmin /\ heap'[r].xmax = w
      /\ \A r \in DOMAIN heap \ S : heap'[r] = heap[r]
      /\ S \subseteq DOMAIN heap
  BY DEF Stored, IInv, TypeOK, FreeRowID
<1>2. /\ DOMAIN txnSnapshots = activeTxns
      /\ w # 0
      /\ 0 \notin committed
      /\ \A t \in activeTxns : txnSnapshots[t] \subseteq committed /\ t \notin committed
  BY DEF IInv, TypeOK
<1>3. \A r \in S : /\ heap[r].xmin # w => heap[r].xmin \in txnSnapshots[w] /\ heap[r].xmin \in committed
                   /\ heap[r].xmax \notin committed
  BY WritableVersion
<1>4. LiveRows' = LiveRows
  <2>1. ASSUME NEW r \in N PROVE r \notin LiveRows' /\ r \notin LiveRows
    BY <1>1, <1>2 DEF LiveRows
  <2>2. ASSUME NEW r \in S PROVE r \in LiveRows' <=> r \in LiveRows
    <3>1. heap'[r].xmax \notin committed /\ heap[r].xmax \notin committed
      BY <1>1, <1>2, <1>3
    <3> QED
      BY <1>1, <3>1 DEF LiveRows
  <2>3. ASSUME NEW r \in DOMAIN heap \ S PROVE r \in LiveRows' <=> r \in LiveRows
    BY <1>1 DEF LiveRows
  <2>4. LiveRows' \subseteq DOMAIN heap \cup N /\ LiveRows \subseteq DOMAIN heap
    BY <1>1 DEF LiveRows
  <2> QED
    BY <2>1, <2>2, <2>3, <2>4
<1>5. ASSUME NEW t \in activeTxns
      PROVE  SnapshotRows(t)' = SnapshotRows(t)
  <2>1. ASSUME NEW r \in N PROVE r \notin SnapshotRows(t)' /\ r \notin SnapshotRows(t)
    BY <1>1, <1>2 DEF SnapshotRows
  <2>2. ASSUME NEW r \in S PROVE r \in SnapshotRows(t)' <=> r \in SnapshotRows(t)
    <3>1. heap'[r].xmax \notin txnSnapshots[t] /\ heap[r].xmax \notin txnSnapshots[t]
      BY <1>1, <1>2, <1>3
    <3> QED
      BY <1>1, <3>1 DEF SnapshotRows
  <2>3. ASSUME NEW r \in DOMAIN heap \ S PROVE r \in SnapshotRows(t)' <=> r \in SnapshotRows(t)
    BY <1>1 DEF SnapshotRows
  <2>4. SnapshotRows(t)' \subseteq DOMAIN heap \cup N /\ SnapshotRows(t) \subseteq DOMAIN heap
    BY <1>1 DEF SnapshotRows
  <2> QED
    BY <2>1, <2>2, <2>3, <2>4
<1>6. Scan(w)' = (Scan(w) \ S) \cup N
  <2>1. ASSUME NEW r \in N PROVE r \in Scan(w)'
    BY <1>1, <1>2 DEF Scan, isVisible, createdVisible, deletedVisible, Snapshot
  <2>2. ASSUME NEW r \in S PROVE r \notin Scan(w)'
    BY <1>1, <1>2 DEF Scan, isVisible, createdVisible, deletedVisible, Snapshot
  <2>3. ASSUME NEW r \in DOMAIN heap \ S PROVE r \in Scan(w)' <=> r \in Scan(w)
    BY <1>1, <1>2 DEF Scan, isVisible, createdVisible, deletedVisible, Snapshot
  <2>4. Scan(w)' \subseteq DOMAIN heap \cup N /\ Scan(w) \subseteq DOMAIN heap
    BY <1>1 DEF Scan
  <2> QED
    BY <1>1, <2>1, <2>2, <2>3, <2>4
<1>7. ASSUME NEW u \in activeTxns \ {w}
      PROVE  Scan(u)' = Scan(u) \cup (S \cap SnapshotRows(u))
  <2>1. ASSUME NEW r \in N PROVE r \notin Scan(u)'
    BY <1>1, <1>2 DEF Scan, isVisible, createdVisible, Snapshot
  <2>2. ASSUME NEW r \in S PROVE r \in Scan(u)' <=> r \in SnapshotRows(u)
    <3>1. heap'[r].xmin = heap[r].xmin /\ heap'[r].xmax = w /\ r \in DOMAIN heap
      BY <1>1
    <3>2. heap[r].xmin # u /\ heap[r].xmax \notin txnSnapshots[u] /\ w \notin txnSnapshots[u]
      BY <1>2, <1>3
    <3>3. r \in Scan(u)' <=> heap[r].xmin \in txnSnapshots[u]
      BY <1>1, <1>2, <3>1, <3>2 DEF Scan, isVisible, createdVisible, deletedVisible, Snapshot
    <3> QED
      BY <3>1, <3>2, <3>3 DEF SnapshotRows
  <2>3. ASSUME NEW r \in S PROVE r \in Scan(u) => r \in SnapshotRows(u)
    BY <1>1, <1>2, <1>3
       DEF Scan, isVisible, createdVisible, deletedVisible, Snapshot, SnapshotRows
  <2>4. ASSUME NEW r \in DOMAIN heap \ S PROVE r \in Scan(u)' <=> r \in Scan(u)
    BY <1>1, <1>2 DEF Scan, isVisible, createdVisible, deletedVisible, Snapshot
  <2>5. Scan(u)' \subseteq DOMAIN heap \cup N /\ Scan(u) \subseteq DOMAIN heap
    BY <1>1 DEF Scan
  <2> QED
    BY <1>1, <2>1, <2>2, <2>3, <2>4, <2>5
<1>8. \A r \in DOMAIN heap : heap[r].xmax \in committed => heap'[r] = heap[r]
  BY <1>1, <1>3
<1> QED
  BY <1>1, <1>4, <1>5, <1>6, <1>7, <1>8 DEF WriteMoves

\* Every write action is a write in the sense of WriteEffect.
LEMMA WriteActions ==
  ASSUME IInv, Next
  PROVE  \/ Begin
         \/ \E t \in activeTxns : Commit(t) \/ Rollback(t)
         \/ \E t \in activeTxns, new \in RowID : AcceptedWrite(t, {}, {new})
         \/ \E t \in activeTxns : \E id \in Scan(t) : AcceptedWrite(t, {id}, {})
         \/ \E t \in activeTxns : \E id \in Scan(t), new \in RowID : AcceptedWrite(t, {id}, {new})
<1>1. ASSUME NEW t \in activeTxns, NEW new \in RowID, Insert(t, new)
      PROVE  AcceptedWrite(t, {}, {new})
  BY <1>1 DEF Insert, AcceptedWrite
<1>2. ASSUME NEW t \in activeTxns, NEW id \in Scan(t), NEW new \in RowID, Update(t, id, new)
      PROVE  AcceptedWrite(t, {id}, {new})
  BY <1>2 DEF Update, Scan, AcceptedWrite
<1>3. ASSUME NEW t \in activeTxns, NEW id \in Scan(t), UpdateTooLarge(t, id) \/ Delete(t, id)
      PROVE  AcceptedWrite(t, {id}, {})
  BY <1>3 DEF UpdateTooLarge, Delete, Scan, AcceptedWrite
<1> QED
  BY <1>1, <1>2, <1>3 DEF Next

\* Begin gives the new transaction the committed database as snapshot and view
\* and leaves every other view alone.
LEMMA BeginEffect ==
  ASSUME IInv, Begin, NEW n, n = nextTx + 1
  PROVE  /\ n \in TxID \ activeTxns
         /\ activeTxns' = activeTxns \cup {n}
         /\ LiveRows' = LiveRows /\ heap' = heap
         /\ SnapshotRows(n)' = LiveRows
         /\ Scan(n)' = LiveRows
         /\ \A t \in activeTxns : SnapshotRows(t)' = SnapshotRows(t) /\ Scan(t)' = Scan(t)
<1>1. /\ nextTx \in Nat /\ nextTx' = n /\ n = nextTx + 1 /\ n \in TxID
      /\ heap' = heap /\ committed' = committed
      /\ activeTxns' = activeTxns \cup {n}
      /\ n \notin activeTxns
  BY MaxTxAssumption DEF IInv, TypeOK, Begin, TxID
<1>2. /\ DOMAIN txnSnapshots = activeTxns
      /\ DOMAIN txnSnapshots' = activeTxns'
      /\ txnSnapshots'[n] = committed
      /\ \A t \in activeTxns : txnSnapshots'[t] = txnSnapshots[t]
  BY <1>1 DEF IInv, TypeOK, Begin
<1>3. \A r \in DOMAIN heap : heap[r].xmin # n /\ heap[r].xmax # n
  BY <1>1, VersionType DEF IInv
<1>4. 0 \notin committed
  BY DEF IInv, TypeOK
<1>5. LiveRows' = LiveRows
  BY <1>1 DEF LiveRows
<1>6. SnapshotRows(n)' = LiveRows
  BY <1>1, <1>2 DEF SnapshotRows, LiveRows
<1>7. Scan(n)' = LiveRows
  BY <1>1, <1>2, <1>3, <1>4
     DEF Scan, isVisible, createdVisible, deletedVisible, Snapshot, LiveRows
<1>8. ASSUME NEW t \in activeTxns
      PROVE  SnapshotRows(t)' = SnapshotRows(t) /\ Scan(t)' = Scan(t)
  <2>1. t \in DOMAIN txnSnapshots /\ t \in DOMAIN txnSnapshots' /\ txnSnapshots'[t] = txnSnapshots[t]
    BY <1>1, <1>2
  <2>2. SnapshotRows(t)' = SnapshotRows(t)
    BY <1>1, <2>1 DEF SnapshotRows
  <2>3. Scan(t)' = Scan(t)
    BY <1>1, <2>1 DEF Scan, isVisible, createdVisible, deletedVisible, Snapshot
  <2> QED
    BY <2>2, <2>3
<1> QED
  BY <1>1, <1>5, <1>6, <1>7, <1>8

\* The end of a transaction leaves the snapshots and views of the others alone;
\* a commit moves the committed database by the transaction's own difference.
LEMMA EndEffect ==
  ASSUME IInv, NEW t \in activeTxns, Commit(t) \/ Rollback(t)
  PROVE  /\ activeTxns' = activeTxns \ {t} /\ heap' = heap
         /\ \A u \in activeTxns \ {t} : SnapshotRows(u)' = SnapshotRows(u) /\ Scan(u)' = Scan(u)
         /\ Rollback(t) => LiveRows' = LiveRows
         /\ Commit(t) => LiveRows' = (LiveRows \ (SnapshotRows(t) \ Scan(t)))
                                       \cup (Scan(t) \ SnapshotRows(t))
<1>1. /\ activeTxns' = activeTxns \ {t}
      /\ heap' = heap
      /\ DOMAIN txnSnapshots' = activeTxns'
      /\ DOMAIN txnSnapshots = activeTxns
      /\ \A u \in activeTxns \ {t} : txnSnapshots'[u] = txnSnapshots[u]
  BY DEF Commit, Rollback, Leave, IInv, TypeOK
<1>2. ASSUME NEW u \in activeTxns \ {t}
      PROVE  SnapshotRows(u)' = SnapshotRows(u) /\ Scan(u)' = Scan(u)
  <2>1. u \in DOMAIN txnSnapshots /\ u \in DOMAIN txnSnapshots' /\ txnSnapshots'[u] = txnSnapshots[u]
    BY <1>1
  <2>2. SnapshotRows(u)' = SnapshotRows(u)
    BY <1>1, <2>1 DEF SnapshotRows
  <2>3. Scan(u)' = Scan(u)
    BY <1>1, <2>1 DEF Scan, isVisible, createdVisible, deletedVisible, Snapshot
  <2> QED
    BY <2>2, <2>3
<1>3. ASSUME Rollback(t) PROVE LiveRows' = LiveRows
  BY <1>3 DEF Rollback, LiveRows
<1>4. ASSUME Commit(t)
      PROVE  LiveRows' = (LiveRows \ (SnapshotRows(t) \ Scan(t))) \cup (Scan(t) \ SnapshotRows(t))
  <2> DEFINE Target == (LiveRows \ (SnapshotRows(t) \ Scan(t))) \cup (Scan(t) \ SnapshotRows(t))
  <2>1. committed' = committed \cup {t} /\ heap' = heap
    BY <1>4 DEF Commit
  <2>2. t \notin committed /\ 0 \notin committed /\ t # 0 /\ txnSnapshots[t] \subseteq committed
    BY DEF IInv, TypeOK
  <2>3. ASSUME NEW r \in DOMAIN heap
        PROVE  r \in LiveRows' <=> r \in Target
    <3>0. /\ r \in LiveRows' <=> /\ heap[r].xmin \in committed \/ heap[r].xmin = t
                                 /\ heap[r].xmax \notin committed /\ heap[r].xmax # t
          /\ r \in LiveRows <=> heap[r].xmin \in committed /\ heap[r].xmax \notin committed
          /\ r \in SnapshotRows(t) <=> /\ heap[r].xmin \in txnSnapshots[t]
                                       /\ heap[r].xmax \notin txnSnapshots[t]
          /\ r \in Scan(t) <=> /\ heap[r].xmin = t \/ heap[r].xmin \in txnSnapshots[t]
                               /\ heap[r].xmax # t /\ heap[r].xmax \notin txnSnapshots[t]
      BY <1>1, <2>1, <2>2
         DEF LiveRows, SnapshotRows, Scan, isVisible, createdVisible, deletedVisible, Snapshot
    <3>1. CASE heap[r].xmin = t
      <4>1. heap[r].xmax \in {0, t}
        BY <3>1, <2>2 DEF IInv, StampDiscipline
      <4>2. heap[r].xmin \notin committed /\ heap[r].xmin \notin txnSnapshots[t]
        BY <3>1, <2>2
      <4> QED
        BY <3>0, <3>1, <4>1, <4>2, <2>2
    <3>2. CASE heap[r].xmin # t
      <4>1. heap[r].xmax = t => heap[r].xmin \in txnSnapshots[t]
        BY <3>2, <2>2 DEF IInv, StampDiscipline
      <4> QED
        BY <3>0, <3>2, <4>1, <2>2
    <3> QED
      BY <3>1, <3>2
  <2>4. LiveRows' \subseteq DOMAIN heap /\ Target \subseteq DOMAIN heap
    BY <2>1 DEF LiveRows, Scan
  <2>5. LiveRows' = Target
    <3> HIDE DEF Target
    <3> QED
      BY <2>3, <2>4
  <2> QED
    BY <2>5
<1> QED
  BY <1>1, <1>2, <1>3, <1>4

\* Whatever happens between two reads of a transaction, its snapshot holds the
\* same versions.
THEOREM SnapshotsAreStable == Spec => SnapshotStable
<1>1. ASSUME IInv, [Next]_vars, NEW t \in activeTxns \cap activeTxns'
      PROVE  SnapshotRows(t)' = SnapshotRows(t)
  <2>1. CASE Begin
    BY <1>1, <2>1, BeginEffect
  <2>2. CASE \E u \in activeTxns : Commit(u) \/ Rollback(u)
    BY <1>1, <2>2, EndEffect
  <2>3. CASE Next /\ ~Begin /\ ~\E u \in activeTxns : Commit(u) \/ Rollback(u)
    <3>1. PICK w \in activeTxns : \E S, N : AcceptedWrite(w, S, N)
      BY <1>1, <2>3, WriteActions
    <3>2. \E S, N : WriteMoves(w, S, N)
      BY <1>1, <3>1, WriteEffect
    <3> QED
      BY <3>2 DEF WriteMoves
  <2>4. CASE UNCHANGED vars
    BY <2>4 DEF vars, SnapshotRows
  <2> QED
    BY <1>1, <2>1, <2>2, <2>3, <2>4
<1>2. IInv /\ [Next]_vars =>
        [\A t \in activeTxns \cap activeTxns' : SnapshotRows(t)' = SnapshotRows(t)]_vars
  BY <1>1
<1> QED
  BY <1>2, Invariant, PTL DEF Spec, SnapshotStable

\* A committed deletion is never taken back or taken over.
THEOREM CommittedDeletesAreFinal == Spec => CommittedDeleteFinal
<1> DEFINE Final == \A r \in DOMAIN heap :
                      heap[r].xmax \in committed => r \in DOMAIN heap' /\ heap'[r] = heap[r]
<1>1. ASSUME IInv, [Next]_vars
      PROVE  Final
  <2>1. CASE heap' = heap
    BY <2>1
  <2>2. CASE Next /\ heap' # heap
    <3>1. ~Begin /\ ~\E u \in activeTxns : Commit(u) \/ Rollback(u)
      BY <2>2 DEF Begin, Commit, Rollback
    <3>2. PICK w \in activeTxns : \E S, N : AcceptedWrite(w, S, N)
      BY <1>1, <2>2, <3>1, WriteActions
    <3>3. \E S, N : WriteMoves(w, S, N)
      BY <1>1, <3>2, WriteEffect
    <3> QED
      BY <3>3 DEF WriteMoves
  <2> QED
    BY <1>1, <2>1, <2>2 DEF vars
<1>2. IInv /\ [Next]_vars => [Final]_vars
  BY <1>1
<1> QED
  BY <1>2, Invariant, PTL DEF Spec, CommittedDeleteFinal

\* Begin maps to the abstract Begin.
LEMMA BeginRefines ==
  ASSUME IInv, Begin
  PROVE  Store!Next
<1>1. PICK n : n = nextTx + 1
  OBVIOUS
<1>2. /\ n \in TxID \ activeTxns
      /\ activeTxns' = activeTxns \cup {n}
      /\ LiveRows' = LiveRows /\ heap' = heap
      /\ SnapshotRows(n)' = LiveRows
      /\ Scan(n)' = LiveRows
      /\ \A t \in activeTxns : SnapshotRows(t)' = SnapshotRows(t) /\ Scan(t)' = Scan(t)
  BY <1>1, BeginEffect
<1>3. BaseMap' = [u \in activeTxns \cup {n} |-> IF u = n THEN LiveRows ELSE BaseMap[u]]
  BY <1>2 DEF BaseMap
<1>4. ViewMap' = [u \in activeTxns \cup {n} |-> IF u = n THEN LiveRows ELSE ViewMap[u]]
  BY <1>2 DEF ViewMap
<1>5. Store!Begin(n)
  BY <1>2, <1>3, <1>4 DEF Store!Begin, Store!Running, BaseMap, ViewMap
<1> QED
  BY <1>2, <1>5 DEF Store!Next

\* What a running transaction has removed is still in the committed database:
\* its stamp is the one the version holds, and it has not committed.
LEMMA RemovedStillLive ==
  ASSUME IInv, NEW t \in activeTxns
  PROVE  SnapshotRows(t) \ Scan(t) \subseteq LiveRows
<1>1. /\ DOMAIN txnSnapshots = activeTxns
      /\ txnSnapshots[t] \subseteq committed
      /\ t \notin committed
  BY DEF IInv, TypeOK
<1>2. ASSUME NEW r \in SnapshotRows(t) \ Scan(t)
      PROVE  r \in LiveRows
  <2>1. r \in DOMAIN heap /\ heap[r].xmin \in txnSnapshots[t] /\ heap[r].xmax \notin txnSnapshots[t]
    BY DEF SnapshotRows
  <2>2. heap[r].xmax = t
    BY <1>1, <2>1 DEF Scan, isVisible, createdVisible, deletedVisible, Snapshot
  <2> QED
    BY <1>1, <2>1, <2>2 DEF LiveRows
<1> QED
  BY <1>2

\* The end of a transaction maps to the abstract Commit or Rollback.
LEMMA EndRefines ==
  ASSUME IInv, NEW t \in activeTxns, Commit(t) \/ Rollback(t)
  PROVE  Store!Next
<1>1. /\ activeTxns' = activeTxns \ {t} /\ heap' = heap
      /\ \A u \in activeTxns \ {t} : SnapshotRows(u)' = SnapshotRows(u) /\ Scan(u)' = Scan(u)
      /\ Rollback(t) => LiveRows' = LiveRows
      /\ Commit(t) => LiveRows' = (LiveRows \ (SnapshotRows(t) \ Scan(t)))
                                    \cup (Scan(t) \ SnapshotRows(t))
  BY EndEffect
<1>2. BaseMap' = [u \in activeTxns \ {t} |-> BaseMap[u]] /\ BaseMap[t] = SnapshotRows(t)
  BY <1>1 DEF BaseMap
<1>3. ViewMap' = [u \in activeTxns \ {t} |-> ViewMap[u]] /\ ViewMap[t] = Scan(t)
  BY <1>1 DEF ViewMap
<1>4. Store!End(t)
  BY <1>1, <1>2, <1>3 DEF Store!End, Store!Running, BaseMap, ViewMap
<1>5. CASE Commit(t)
  <2>1. SnapshotRows(t) \ Scan(t) \subseteq LiveRows
    BY RemovedStillLive
  <2>2. Store!Commit(t)
    BY <1>1, <1>2, <1>3, <1>4, <1>5, <2>1 DEF Store!Commit
  <2> QED
    BY <2>2 DEF Store!Next, Store!Running, BaseMap
<1>6. CASE Rollback(t)
  <2>1. Store!Rollback(t)
    BY <1>1, <1>4, <1>6 DEF Store!Rollback
  <2> QED
    BY <2>1 DEF Store!Next, Store!Running, BaseMap
<1> QED
  BY <1>5, <1>6

\* An accepted write maps to the abstract Write, unless it replaces the stamp of
\* a transaction that still runs.
LEMMA WriteRefines ==
  ASSUME IInv, NEW w \in activeTxns, NEW S, NEW N, AcceptedWrite(w, S, N), ~Overwrites
  PROVE  Store!Write(w, S, N)
<1>1. WriteMoves(w, S, N)
  BY WriteEffect
<1>2. BaseMap' = BaseMap
  BY <1>1 DEF BaseMap, WriteMoves, AcceptedWrite
<1>3. ASSUME NEW u \in activeTxns \ {w}
      PROVE  S \cap SnapshotRows(u) \subseteq Scan(u)
  <2>1. ASSUME NEW r \in S \cap SnapshotRows(u), r \notin Scan(u)
        PROVE  FALSE
    <3>1. /\ r \in DOMAIN heap /\ heap[r].xmin \in txnSnapshots[u]
          /\ heap[r].xmax \notin txnSnapshots[u] /\ DOMAIN txnSnapshots = activeTxns
      BY <2>1 DEF SnapshotRows, IInv, TypeOK
    <3>2. heap[r].xmax = u
      BY <2>1, <3>1 DEF Scan, isVisible, createdVisible, deletedVisible, Snapshot
    <3>3. heap'[r].xmax = w
      BY <2>1, <3>1 DEF AcceptedWrite, Stored, FreeRowID, IInv, TypeOK
    <3> QED
      BY <1>3, <3>1, <3>2, <3>3 DEF Overwrites
  <2> QED
    BY <2>1
<1>4. \A u \in activeTxns \ {w} : Scan(u)' = Scan(u)
  BY <1>1, <1>3 DEF WriteMoves
<1>5. ViewMap' = [ViewMap EXCEPT ![w] = (ViewMap[w] \ S) \cup N]
  BY <1>1, <1>4 DEF ViewMap, WriteMoves, AcceptedWrite
<1>6. S \subseteq ViewMap[w] /\ N \subseteq RowID \ DOMAIN heap
  BY DEF ViewMap, FreeRowID, AcceptedWrite
<1> QED
  BY <1>1, <1>2, <1>5, <1>6 DEF WriteMoves, Store!Write

\* A write that replaces a running transaction's stamp changes neither the
\* committed database nor what any running transaction began on.
LEMMA WriteKeepsBases ==
  ASSUME IInv, NEW w \in activeTxns, NEW S, NEW N, AcceptedWrite(w, S, N)
  PROVE  LiveRows' = LiveRows /\ BaseMap' = BaseMap
<1>1. WriteMoves(w, S, N)
  BY WriteEffect
<1> QED
  BY <1>1 DEF BaseMap, WriteMoves, AcceptedWrite

\* The engine implements the view-level store: every step but the replacement of
\* a running transaction's stamp is one of the store's.
THEOREM EngineImplementsStore == Spec => ImplementsStore
<1> DEFINE Step == Store!Next \/ (Overwrites /\ UNCHANGED <<LiveRows, BaseMap>>)
<1>1. Init => Store!Init
  BY DEF Init, Store!Init, LiveRows, BaseMap, ViewMap
<1>2. ASSUME IInv, [Next]_vars
      PROVE  [Step]_Store!svars
  <2>1. ASSUME Begin
        PROVE  Store!Next
    BY <1>2, <2>1, BeginRefines
  <2>2. ASSUME NEW t \in activeTxns, Commit(t) \/ Rollback(t)
        PROVE  Store!Next
    BY <1>2, <2>2, EndRefines
  <2>3. ASSUME NEW w \in activeTxns, NEW S, NEW N, AcceptedWrite(w, S, N)
        PROVE  Store!Write(w, S, N) \/ (Overwrites /\ UNCHANGED <<LiveRows, BaseMap>>)
    BY <1>2, <2>3, WriteRefines, WriteKeepsBases
  <2>4. \A w \in activeTxns : w \in Store!Running /\ ViewMap[w] = Scan(w)
    BY DEF Store!Running, BaseMap, ViewMap
  <2>5. ASSUME NEW w \in activeTxns, NEW new \in RowID, AcceptedWrite(w, {}, {new})
        PROVE  Step
    BY <2>3, <2>4, <2>5 DEF Store!Next
  <2>6. ASSUME NEW w \in activeTxns, NEW id \in Scan(w), AcceptedWrite(w, {id}, {})
        PROVE  Step
    BY <2>3, <2>4, <2>6 DEF Store!Next
  <2>7. ASSUME NEW w \in activeTxns, NEW id \in Scan(w), NEW new \in RowID,
               AcceptedWrite(w, {id}, {new})
        PROVE  Step
    BY <2>3, <2>4, <2>7 DEF Store!Next
  <2>8. CASE UNCHANGED vars
    <3>1. LiveRows' = LiveRows /\ BaseMap' = BaseMap /\ ViewMap' = ViewMap
      BY <2>8 DEF vars, LiveRows, BaseMap, ViewMap, SnapshotRows, Scan, isVisible,
                  createdVisible, deletedVisible, Snapshot
    <3> QED
      BY <2>8, <3>1 DEF vars, Store!svars
  <2>9. Next => Step
    BY <1>2, <2>1, <2>2, <2>5, <2>6, <2>7, WriteActions
  <2> QED
    BY <1>2, <2>8, <2>9
<1> QED
  BY <1>1, <1>2, Invariant, PTL DEF Spec, ImplementsStore

(***************************************************************************)
(* Sessions                                                                *)
(***************************************************************************)

\* The inductive invariant: that of Mvcc, which holds although autocommit
\* statements begin and end inside one step, and the sessions' hold on the
\* running transactions.
SInv ==
  /\ IInv
  /\ cur \in [Session -> 0 .. nextTx]
  /\ NoLeakedTxn

\* Every statement stamps only rows that its transaction sees and may write,
\* and none returns the sentinel that isWriteConflict looks for.
LEMMA StatementWrites ==
  ASSUME NEW t, NEW stmt, NEW S, NEW N, NEW err, Execute(t, stmt, S, N, err)
  PROVE  /\ S \subseteq Writable(t)
         /\ ~isWriteConflict(err)
         /\ stmt \in Statement
BY DEF Execute, executeInsert, executeUpdate, executeDelete, isWriteConflict, Statement

\* Only a contested row makes a statement end with a conflict.
LEMMA ConflictNeedsContest ==
  ASSUME NEW t, NEW stmt, NEW S, NEW N, Execute(t, stmt, S, N, "conflict")
  PROVE  Contested(t) # {}
BY DEF Execute, executeInsert, executeUpdate, executeDelete

\* A session's transaction runs.
LEMMA CurRuns ==
  ASSUME SInv, NEW s \in Session, cur[s] # NoTxn
  PROVE  cur[s] \in activeTxns
BY DEF SInv, NoLeakedTxn

\* A statement inside a transaction is a write in the sense of Mvcc.
LEMMA ExplicitWrites ==
  ASSUME SInv, NEW s \in Session, NEW stmt, NEW S \in SUBSET DOMAIN heap,
         NEW N \in SUBSET FreeRowID, NEW err, ExecExplicit(s, stmt, S, N, err)
  PROVE  /\ cur[s] \in activeTxns
         /\ AcceptedWrite(cur[s], S, N)
         /\ Execute(cur[s], stmt, S, N, err)
         /\ cur' = cur
         /\ last' = [who |-> s, stmt |-> stmt, err |-> err]
<1>1. /\ Execute(cur[s], stmt, S, N, err)
      /\ cur[s] # NoTxn
      /\ heap' = Stored(heap, cur[s], S, N)
      /\ last' = [who |-> s, stmt |-> stmt, err |-> err]
      /\ UNCHANGED <<nextTx, committed>>
  BY DEF ExecExplicit, Reply
<1>2. S \subseteq Writable(cur[s]) /\ ~isWriteConflict(err)
  BY <1>1, StatementWrites
<1>3. UNCHANGED <<activeTxns, txnSnapshots, cur>>
  BY <1>2 DEF ExecExplicit
<1>4. \A id \in S : id \in Scan(cur[s]) /\ ~checkWriteConflict(cur[s], heap[id])
  BY <1>2 DEF Writable
<1>5. AcceptedWrite(cur[s], S, N)
  BY <1>1, <1>3, <1>4 DEF AcceptedWrite
<1> QED
  BY <1>1, <1>3, <1>5, CurRuns

\* What an autocommit statement does, apart from its reply: transaction t begins
\* on the committed set, writes, and is committed or not.
AutocommitWrite(t, S, N) ==
  /\ nextTx < MaxTx
  /\ t = nextTx + 1
  /\ S \subseteq Writable(t)
  /\ N \subseteq FreeRowID
  /\ nextTx' = t
  /\ heap' = Stored(heap, t, S, N)
  /\ committed' \in {committed, committed \cup {t}}
  /\ UNCHANGED <<activeTxns, txnSnapshots>>

LEMMA AutocommitWrites ==
  ASSUME NEW s, NEW stmt, NEW S, NEW N \in SUBSET FreeRowID, NEW err,
         ExecAutocommit(s, stmt, S, N, err)
  PROVE  /\ cur[s] = NoTxn
         /\ AutocommitWrite(nextTx + 1, S, N)
         /\ Execute(nextTx + 1, stmt, S, N, err)
         /\ err # "nil" => committed' = committed
         /\ cur' = cur
         /\ last' = [who |-> s, stmt |-> stmt, err |-> err]
<1>1. Execute(nextTx + 1, stmt, S, N, err)
  BY DEF ExecAutocommit
<1>2. S \subseteq Writable(nextTx + 1)
  BY <1>1, StatementWrites
<1> QED
  BY <1>1, <1>2 DEF ExecAutocommit, AutocommitWrite, Reply

\* The id of a transaction that is about to begin is on no version, and a row
\* it sees has a committed creator and a deleter that is not committed: it can
\* meet no conflict.
LEMMA FreshSees ==
  ASSUME IInv, NEW t, t = nextTx + 1, NEW r \in Scan(t)
  PROVE  /\ r \in DOMAIN heap
         /\ heap[r].xmin \in committed
         /\ heap[r].xmax \notin committed
         /\ ~checkWriteConflict(t, heap[r])
<1>1. nextTx \in Nat /\ t \notin activeTxns /\ t \notin committed /\ 0 \notin committed
  BY MaxTxAssumption DEF IInv, TypeOK
<1>2. t \notin DOMAIN txnSnapshots
  BY <1>1 DEF IInv, TypeOK
<1>3. r \in DOMAIN heap
  BY DEF Scan
<1>4. heap[r].xmin # t
  BY <1>1, <1>3, VersionType DEF IInv
<1>5. heap[r].xmin \in committed
  BY <1>2, <1>4 DEF Scan, isVisible, createdVisible, Snapshot
<1>6. heap[r].xmax \notin committed
  BY <1>1, <1>2 DEF Scan, isVisible, deletedVisible, Snapshot
<1> QED
  BY <1>2, <1>3, <1>5, <1>6 DEF checkWriteConflict, deletedByCommitted, createdAfterSnapshot

\* The heap after an autocommit statement.
AutocommitMoves(t, S, N) ==
  /\ nextTx \in Nat /\ t = nextTx + 1
  /\ t \notin committed /\ t \notin activeTxns
  /\ DOMAIN heap' = DOMAIN heap \cup N
  /\ N \cap DOMAIN heap = {} /\ N \subseteq RowID
  /\ S \subseteq DOMAIN heap
  /\ \A r \in N : heap'[r].xmin = t /\ heap'[r].xmax = 0
  /\ \A r \in S : heap'[r].xmin = heap[r].xmin /\ heap'[r].xmax = t
  /\ \A r \in S : heap[r].xmin \in committed /\ heap[r].xmax \notin committed
  /\ \A r \in DOMAIN heap \ S : heap'[r] = heap[r]

LEMMA AutocommitHeap ==
  ASSUME IInv, NEW t, NEW S, NEW N, AutocommitWrite(t, S, N)
  PROVE  AutocommitMoves(t, S, N)
<1>1. nextTx \in Nat /\ t = nextTx + 1 /\ t \notin committed /\ t \notin activeTxns
  BY MaxTxAssumption DEF IInv, TypeOK, AutocommitWrite
<1>2. S \subseteq Scan(t) /\ S \subseteq DOMAIN heap
  BY DEF AutocommitWrite, Writable, Scan
<1>3. \A r \in S : heap[r].xmin \in committed /\ heap[r].xmax \notin committed
  BY <1>1, <1>2, FreshSees
<1>4. N \cap DOMAIN heap = {} /\ N \subseteq RowID
  BY DEF AutocommitWrite, FreeRowID
<1>5. heap' = Stored(heap, t, S, N)
  BY DEF AutocommitWrite
<1> QED
  BY <1>1, <1>2, <1>3, <1>4, <1>5 DEF Stored, IInv, TypeOK, AutocommitMoves

LEMMA AutocommitKeepsIInv ==
  ASSUME IInv, NEW t, NEW S, NEW N, AutocommitWrite(t, S, N)
  PROVE  IInv'
<1>0. AutocommitMoves(t, S, N)
  BY AutocommitHeap
<1>1. TypeOK
  BY DEF IInv
<1>2. /\ nextTx \in Nat /\ t = nextTx + 1 /\ nextTx' = t
      /\ t \in 1 .. nextTx' /\ nextTx' \in 0 .. MaxTx
      /\ t \notin committed /\ t \notin activeTxns
  BY <1>0, MaxTxAssumption DEF AutocommitMoves, AutocommitWrite
<1>3. /\ activeTxns' = activeTxns /\ txnSnapshots' = txnSnapshots
      /\ committed \subseteq committed' /\ committed' \subseteq committed \cup {t}
  BY DEF AutocommitWrite
<1>4. TypeOK'
  <2>1. activeTxns' \subseteq 1 .. nextTx' /\ committed' \subseteq 1 .. nextTx'
    BY <1>1, <1>2, <1>3 DEF TypeOK
  <2>2. txnSnapshots' \in [activeTxns' -> SUBSET committed']
    BY <1>1, <1>3 DEF TypeOK
  <2>3. DOMAIN heap' \subseteq RowID
    BY <1>1, <1>0 DEF AutocommitMoves, TypeOK
  <2>4. \A r \in DOMAIN heap' : heap'[r] \in [xmin : 1 .. nextTx', xmax : 0 .. nextTx']
    <3>1. /\ \A r \in N : heap'[r] = [xmin |-> t, xmax |-> 0]
          /\ \A r \in S \ N : heap'[r] = [xmin |-> heap[r].xmin, xmax |-> t]
          /\ \A r \in DOMAIN heap \ (S \cup N) : heap'[r] = heap[r]
      BY <1>0, <1>1 DEF AutocommitMoves, AutocommitWrite, Stored, TypeOK
    <3>2. \A r \in DOMAIN heap : /\ heap[r] \in [xmin : 1 .. nextTx, xmax : 0 .. nextTx]
                                 /\ heap[r].xmin \in 1 .. nextTx
      BY <1>1, VersionType
    <3>3. [xmin : 1 .. nextTx, xmax : 0 .. nextTx] \subseteq [xmin : 1 .. nextTx', xmax : 0 .. nextTx']
      BY <1>2
    <3>4. \A r \in N : heap'[r] \in [xmin : 1 .. nextTx', xmax : 0 .. nextTx']
      BY <1>2, <3>1
    <3>5. \A r \in S \ N : heap'[r] \in [xmin : 1 .. nextTx', xmax : 0 .. nextTx']
      <4>1. ASSUME NEW r \in S \ N PROVE heap'[r] \in [xmin : 1 .. nextTx', xmax : 0 .. nextTx']
        <5>1. heap[r].xmin \in 1 .. nextTx'
          BY <1>0, <1>2, <3>2 DEF AutocommitMoves
        <5>2. t \in 0 .. nextTx'
          BY <1>2
        <5>3. [xmin |-> heap[r].xmin, xmax |-> t] \in [xmin : 1 .. nextTx', xmax : 0 .. nextTx']
          BY <5>1, <5>2
        <5>4. heap'[r] = [xmin |-> heap[r].xmin, xmax |-> t]
          BY <3>1
        <5> QED
          BY <5>3, <5>4
      <4> QED
        BY <4>1
    <3>6. \A r \in DOMAIN heap \ (S \cup N) : heap'[r] \in [xmin : 1 .. nextTx', xmax : 0 .. nextTx']
      BY <3>1, <3>2, <3>3
    <3> QED
      BY <1>0, <3>4, <3>5, <3>6 DEF AutocommitMoves
  <2>5. heap' \in [DOMAIN heap' -> [xmin : 1 .. nextTx', xmax : 0 .. nextTx']]
    <3>1. heap' = [r \in DOMAIN heap' |-> heap'[r]]
      BY DEF AutocommitWrite, Stored
    <3> QED
      BY <2>4, <3>1
  <2> QED
    BY <1>2, <2>1, <2>2, <2>3, <2>5 DEF TypeOK
<1>5. (activeTxns \cap committed = {})'
  BY <1>2, <1>3 DEF IInv
<1>6. StampDiscipline'
  <2> SUFFICES ASSUME NEW r \in DOMAIN heap', heap'[r].xmax \notin {0, heap'[r].xmin}
               PROVE  /\ heap'[r].xmin \in committed'
                      /\ heap'[r].xmax \in activeTxns =>
                           heap'[r].xmin \in txnSnapshots[heap'[r].xmax]
    BY <1>3 DEF StampDiscipline
  <2>1. CASE r \in N
    BY <2>1, <1>0 DEF AutocommitMoves
  <2>2. CASE r \in S
    BY <2>2, <1>2, <1>3, <1>0 DEF AutocommitMoves
  <2>3. CASE r \in DOMAIN heap \ S
    <3>1. heap'[r] = heap[r]
      BY <2>3, <1>0 DEF AutocommitMoves
    <3> QED
      BY <2>3, <3>1, <1>3 DEF IInv, StampDiscipline
  <2> QED
    BY <2>1, <2>2, <2>3, <1>0 DEF AutocommitMoves
<1> QED
  BY <1>4, <1>5, <1>6 DEF IInv

\* A statement that is not committed leaves the committed database alone.
LEMMA AutocommitUnpublished ==
  ASSUME IInv, NEW t, NEW S, NEW N, AutocommitWrite(t, S, N), committed' = committed
  PROVE  LiveRows' = LiveRows
<1>0. AutocommitMoves(t, S, N)
  BY AutocommitHeap
<1>1. ASSUME NEW r \in N PROVE r \notin LiveRows' /\ r \notin LiveRows
  BY <1>0 DEF AutocommitMoves, LiveRows
<1>2. ASSUME NEW r \in S PROVE r \in LiveRows' /\ r \in LiveRows
  BY <1>0 DEF AutocommitMoves, LiveRows
<1>3. ASSUME NEW r \in DOMAIN heap \ S PROVE r \in LiveRows' <=> r \in LiveRows
  BY <1>0 DEF AutocommitMoves, LiveRows
<1>4. LiveRows' \subseteq DOMAIN heap \cup N /\ LiveRows \subseteq DOMAIN heap
  BY <1>0 DEF AutocommitMoves, LiveRows
<1> QED
  BY <1>1, <1>2, <1>3, <1>4

\* Nor does any autocommit statement, committed or not, change what the
\* snapshots of the running transactions hold.
LEMMA AutocommitKeepsSnapshots ==
  ASSUME IInv, NEW t, NEW S, NEW N, AutocommitWrite(t, S, N), NEW u \in activeTxns
  PROVE  SnapshotRows(u)' = SnapshotRows(u)
<1>0. AutocommitMoves(t, S, N)
  BY AutocommitHeap
<1>1. /\ txnSnapshots' = txnSnapshots
      /\ txnSnapshots[u] \subseteq committed
      /\ t \notin txnSnapshots[u]
  BY <1>0 DEF AutocommitMoves, AutocommitWrite, IInv, TypeOK
<1>2. ASSUME NEW r \in N PROVE r \notin SnapshotRows(u)' /\ r \notin SnapshotRows(u)
  BY <1>1, <1>0 DEF AutocommitMoves, SnapshotRows
<1>3. ASSUME NEW r \in S PROVE r \in SnapshotRows(u)' <=> r \in SnapshotRows(u)
  BY <1>1, <1>0 DEF AutocommitMoves, SnapshotRows
<1>4. ASSUME NEW r \in DOMAIN heap \ S PROVE r \in SnapshotRows(u)' <=> r \in SnapshotRows(u)
  BY <1>1, <1>0 DEF AutocommitMoves, SnapshotRows
<1>5. SnapshotRows(u)' \subseteq DOMAIN heap \cup N /\ SnapshotRows(u) \subseteq DOMAIN heap
  BY <1>0 DEF AutocommitMoves, SnapshotRows
<1> QED
  BY <1>2, <1>3, <1>4, <1>5

\* Session s takes the new transaction t, or with NoTxn lets its own end.
Takes(s, t) ==
  /\ nextTx \in Nat /\ nextTx' \in Nat /\ nextTx <= nextTx'
  /\ t \in 0 .. nextTx'
  /\ cur' = [cur EXCEPT ![s] = t]
  /\ \/ t \notin activeTxns \cup {NoTxn} /\ cur[s] = NoTxn /\ activeTxns' = activeTxns \cup {t}
     \/ t = NoTxn /\ cur[s] # NoTxn /\ activeTxns' = activeTxns \ {cur[s]}

\* Every running transaction still belongs to exactly one session.
LEMMA SessionMoves ==
  ASSUME SInv, NEW s \in Session, NEW t, Takes(s, t)
  PROVE  cur' \in [Session -> 0 .. nextTx'] /\ NoLeakedTxn'
<1> USE DEF Takes
<1>1. cur \in [Session -> 0 .. nextTx] /\ NoLeakedTxn
  BY DEF SInv
<1>2. cur' \in [Session -> 0 .. nextTx']
  BY <1>1
<1>3. cur'[s] = t /\ \A x \in Session \ {s} : cur'[x] = cur[x]
  BY <1>1
<1>4. \A x \in Session \ {s} : cur[x] # NoTxn => cur[x] \in activeTxns /\ cur[x] # cur[s]
  BY <1>1 DEF NoLeakedTxn
<1>5. \A a : a \in activeTxns <=> a # NoTxn /\ \E x \in Session : cur[x] = a
  BY <1>1 DEF NoLeakedTxn
<1>6. \A a : a \in activeTxns' <=> a # NoTxn /\ \E x \in Session : cur'[x] = a
  BY <1>3, <1>4, <1>5 DEF NoTxn
<1>7. activeTxns' = {cur'[x] : x \in Session} \ {NoTxn}
  BY <1>6
<1>8. \A x, y \in Session : cur'[x] = cur'[y] /\ x # y => cur'[x] = NoTxn
  BY <1>1, <1>3, <1>4 DEF NoLeakedTxn, NoTxn
<1> QED
  BY <1>2, <1>7, <1>8 DEF NoLeakedTxn

\* Every call of Session.Exec keeps the invariant.
LEMMA ExecKeepsSInv ==
  ASSUME SInv, [SessionNext]_svars
  PROVE  SInv'
<1>1. nextTx \in Nat /\ IInv
  BY MaxTxAssumption DEF SInv, IInv, TypeOK
<1>2. ASSUME NEW s \in Session, ExecBegin(s)
      PROVE  SInv'
  <2>1. Begin /\ IInv'
    BY <1>1, <1>2, BeginKeepsIInv DEF ExecBegin
  <2>2. nextTx' = nextTx + 1 /\ nextTx' \notin activeTxns \cup {NoTxn}
    BY <1>1, <2>1 DEF Begin, IInv, TypeOK, NoTxn
  <2>3. Takes(s, nextTx')
    BY <1>1, <1>2, <2>1, <2>2 DEF ExecBegin, Begin, Takes
  <2>4. cur' \in [Session -> 0 .. nextTx'] /\ NoLeakedTxn'
    BY <2>3, SessionMoves
  <2> QED
    BY <2>1, <2>4 DEF SInv
<1>3. ASSUME NEW s \in Session, ExecCommit(s) \/ ExecRollback(s)
      PROVE  SInv'
  <2>1. cur[s] # NoTxn /\ cur[s] \in activeTxns /\ (Commit(cur[s]) \/ Rollback(cur[s]))
    BY <1>3, CurRuns DEF ExecCommit, ExecRollback
  <2>2. IInv'
    BY <1>1, <2>1, EndKeepsIInv
  <2>3. activeTxns' = activeTxns \ {cur[s]} /\ nextTx' = nextTx /\ cur' = [cur EXCEPT ![s] = NoTxn]
    BY <1>3, <2>1 DEF ExecCommit, ExecRollback, Commit, Rollback, Leave
  <2>4. cur' \in [Session -> 0 .. nextTx'] /\ NoLeakedTxn'
    <3>1. Takes(s, NoTxn)
      BY <1>1, <2>1, <2>3 DEF Takes, NoTxn
    <3> QED
      BY <3>1, SessionMoves
  <2> QED
    BY <2>2, <2>4 DEF SInv
<1>4. ASSUME NEW s \in Session, NEW stmt, NEW S \in SUBSET DOMAIN heap,
             NEW N \in SUBSET FreeRowID, NEW err, ExecExplicit(s, stmt, S, N, err)
      PROVE  SInv'
  <2>1. cur[s] \in activeTxns /\ AcceptedWrite(cur[s], S, N) /\ cur' = cur
    BY <1>4, ExplicitWrites
  <2>2. IInv'
    BY <1>1, <2>1, WriteKeepsIInv
  <2> QED
    BY <2>1, <2>2 DEF SInv, NoLeakedTxn, AcceptedWrite
<1>5. ASSUME NEW s \in Session, NEW stmt, NEW S \in SUBSET DOMAIN heap,
             NEW N \in SUBSET FreeRowID, NEW err, ExecAutocommit(s, stmt, S, N, err)
      PROVE  SInv'
  <2>1. AutocommitWrite(nextTx + 1, S, N) /\ cur' = cur
    BY <1>5, AutocommitWrites
  <2>2. IInv'
    BY <1>1, <2>1, AutocommitKeepsIInv
  <2>3. nextTx' = nextTx + 1 /\ activeTxns' = activeTxns
    BY <2>1 DEF AutocommitWrite
  <2>4. cur' \in [Session -> 0 .. nextTx']
    BY <1>1, <2>1, <2>3 DEF SInv
  <2> QED
    BY <2>1, <2>2, <2>3, <2>4 DEF SInv, NoLeakedTxn
<1>6. ASSUME UNCHANGED <<vars, cur>>
      PROVE  SInv'
  <2>1. IInv'
    BY <1>1, <1>6, NextKeepsIInv
  <2> QED
    BY <1>6, <2>1 DEF SInv, NoLeakedTxn, vars
<1> QED
  BY <1>2, <1>3, <1>4, <1>5, <1>6 DEF SessionNext, ExecRefused, svars

LEMMA SessionInvariant == SessionSpec => []SInv
<1>1. SessionInit => SInv
  <2>1. SessionInit => IInv
    BY MaxTxAssumption DEF SessionInit, Init, IInv, TypeOK, StampDiscipline
  <2>2. SessionInit => cur \in [Session -> 0 .. nextTx] /\ NoLeakedTxn
    BY DEF SessionInit, Init, NoLeakedTxn, NoTxn
  <2> QED
    BY <2>1, <2>2 DEF SInv
<1> QED
  BY <1>1, ExecKeepsSInv, PTL DEF SessionSpec

\* No path through Session.Exec leaves a transaction running that no session
\* can end, and no two sessions share one.
THEOREM NoTxnLeaks == SessionSpec => []NoLeakedTxn
<1>1. SInv => NoLeakedTxn
  BY DEF SInv
<1> QED
  BY <1>1, SessionInvariant, PTL

\* The safety of the engine carries over to the sessions, whose autocommit
\* statements begin, write and end within one call: no dirty reads, stamps only
\* on versions of the stamper's snapshot, conflicts only with later commits.
THEOREM SessionsIsolated ==
  SessionSpec => [](NoDirtyRead /\ StampDiscipline /\ ConflictOnlyWithLaterCommit)
<1>1. SInv => NoDirtyRead /\ StampDiscipline /\ ConflictOnlyWithLaterCommit
  BY IInvNoDirtyRead, IInvConflict DEF SInv, IInv
<1> QED
  BY <1>1, SessionInvariant, PTL

\* What a running transaction's snapshot holds never changes, whatever the
\* sessions run around it.
THEOREM SessionSnapshotsStable == SessionSpec => SnapshotStable
<1>1. ASSUME SInv, [SessionNext]_svars, NEW u \in activeTxns \cap activeTxns'
      PROVE  SnapshotRows(u)' = SnapshotRows(u)
  <2>1. IInv
    BY <1>1 DEF SInv
  <2>2. ASSUME NEW s \in Session, ExecBegin(s)
        PROVE  SnapshotRows(u)' = SnapshotRows(u)
    BY <1>1, <2>1, <2>2, BeginEffect DEF ExecBegin
  <2>3. ASSUME NEW s \in Session, ExecCommit(s) \/ ExecRollback(s)
        PROVE  SnapshotRows(u)' = SnapshotRows(u)
    <3>1. cur[s] \in activeTxns /\ (Commit(cur[s]) \/ Rollback(cur[s]))
      BY <1>1, <2>3, CurRuns DEF ExecCommit, ExecRollback
    <3> QED
      BY <1>1, <2>1, <3>1, EndEffect
  <2>4. ASSUME NEW s \in Session, NEW stmt, NEW S \in SUBSET DOMAIN heap,
               NEW N \in SUBSET FreeRowID, NEW err, ExecExplicit(s, stmt, S, N, err)
        PROVE  SnapshotRows(u)' = SnapshotRows(u)
    <3>1. cur[s] \in activeTxns /\ AcceptedWrite(cur[s], S, N)
      BY <1>1, <2>4, ExplicitWrites
    <3>2. WriteMoves(cur[s], S, N)
      BY <2>1, <3>1, WriteEffect
    <3> QED
      BY <1>1, <3>2 DEF WriteMoves
  <2>5. ASSUME NEW s \in Session, NEW stmt, NEW S \in SUBSET DOMAIN heap,
               NEW N \in SUBSET FreeRowID, NEW err, ExecAutocommit(s, stmt, S, N, err)
        PROVE  SnapshotRows(u)' = SnapshotRows(u)
    <3>1. AutocommitWrite(nextTx + 1, S, N)
      BY <2>5, AutocommitWrites
    <3> QED
      BY <1>1, <2>1, <3>1, AutocommitKeepsSnapshots
  <2>6. ASSUME UNCHANGED vars
        PROVE  SnapshotRows(u)' = SnapshotRows(u)
    BY <2>6 DEF vars, SnapshotRows
  <2> QED
    BY <1>1, <2>2, <2>3, <2>4, <2>5, <2>6 DEF SessionNext, ExecRefused, svars
<1>2. SInv /\ [SessionNext]_svars =>
        [\A t \in activeTxns \cap activeTxns' : SnapshotRows(t)' = SnapshotRows(t)]_vars
  BY <1>1
<1> QED
  BY <1>2, SessionInvariant, PTL DEF SessionSpec, SnapshotStable

\* A call of Session.Exec that returns an error leaves the committed database as
\* it was, however far its statement got.
THEOREM FailedCallsPublishNothing == SessionSpec => FailedCallPublishesNothing
<1>1. ASSUME SInv, SessionNext, last'.err # "nil"
      PROVE  LiveRows' = LiveRows
  <2>1. IInv
    BY <1>1 DEF SInv
  <2>2. ASSUME NEW s \in Session, ExecBegin(s) \/ ExecCommit(s) \/ ExecRollback(s)
        PROVE  FALSE
    BY <1>1, <2>2 DEF ExecBegin, ExecCommit, ExecRollback, Reply
  <2>3. ASSUME NEW s \in Session, NEW stmt, NEW S \in SUBSET DOMAIN heap,
               NEW N \in SUBSET FreeRowID, NEW err, ExecExplicit(s, stmt, S, N, err)
        PROVE  LiveRows' = LiveRows
    <3>1. cur[s] \in activeTxns /\ AcceptedWrite(cur[s], S, N)
      BY <1>1, <2>3, ExplicitWrites
    <3>2. WriteMoves(cur[s], S, N)
      BY <2>1, <3>1, WriteEffect
    <3> QED
      BY <3>2 DEF WriteMoves
  <2>4. ASSUME NEW s \in Session, NEW stmt, NEW S \in SUBSET DOMAIN heap,
               NEW N \in SUBSET FreeRowID, NEW err, ExecAutocommit(s, stmt, S, N, err)
        PROVE  LiveRows' = LiveRows
    <3>1. /\ AutocommitWrite(nextTx + 1, S, N)
          /\ err # "nil" => committed' = committed
          /\ last' = [who |-> s, stmt |-> stmt, err |-> err]
      BY <2>4, AutocommitWrites
    <3>2. committed' = committed
      BY <1>1, <3>1
    <3> QED
      BY <2>1, <3>1, <3>2, AutocommitUnpublished
  <2>5. ASSUME NEW s \in Session, ExecRefused(s)
        PROVE  LiveRows' = LiveRows
    BY <2>5 DEF ExecRefused, vars, LiveRows
  <2> QED
    BY <1>1, <2>2, <2>3, <2>4, <2>5 DEF SessionNext
<1>2. SInv /\ [SessionNext]_svars => [last'.err # "nil" => LiveRows' = LiveRows]_svars
  BY <1>1
<1> QED
  BY <1>2, SessionInvariant, PTL DEF SessionSpec, FailedCallPublishesNothing

\* A statement in autocommit mode never meets a write conflict: it reads the
\* committed set of the moment, so no commit can be later than its snapshot.
THEOREM ConflictsAreExplicit == SessionSpec => ConflictsOnlyInExplicit
<1>1. ASSUME SInv, SessionNext, last'.err = "conflict"
      PROVE  cur[last'.who] # NoTxn
  <2>1. IInv
    BY <1>1 DEF SInv
  <2>2. ASSUME NEW s \in Session,
               ExecBegin(s) \/ ExecCommit(s) \/ ExecRollback(s) \/ ExecRefused(s)
        PROVE  FALSE
    BY <1>1, <2>2 DEF ExecBegin, ExecCommit, ExecRollback, ExecRefused, Reply
  <2>3. ASSUME NEW s \in Session, NEW stmt, NEW S \in SUBSET DOMAIN heap,
               NEW N \in SUBSET FreeRowID, NEW err, ExecExplicit(s, stmt, S, N, err)
        PROVE  cur[last'.who] # NoTxn
    BY <2>3 DEF ExecExplicit, Reply
  <2>4. ASSUME NEW s \in Session, NEW stmt, NEW S \in SUBSET DOMAIN heap,
               NEW N \in SUBSET FreeRowID, NEW err, ExecAutocommit(s, stmt, S, N, err)
        PROVE  FALSE
    <3>1. Execute(nextTx + 1, stmt, S, N, err) /\ last' = [who |-> s, stmt |-> stmt, err |-> err]
      BY <2>4, AutocommitWrites
    <3>2. err = "conflict"
      BY <1>1, <3>1
    <3>3. Contested(nextTx + 1) # {}
      BY <3>1, <3>2, ConflictNeedsContest
    <3>4. PICK r \in Scan(nextTx + 1) : checkWriteConflict(nextTx + 1, heap[r])
      BY <3>3 DEF Contested, Writable
    <3> QED
      BY <2>1, <3>4, FreshSees
  <2> QED
    BY <1>1, <2>2, <2>3, <2>4 DEF SessionNext
<1>2. SInv /\ [SessionNext]_svars => [last'.err = "conflict" => cur[last'.who] # NoTxn]_svars
  BY <1>1
<1> QED
  BY <1>2, SessionInvariant, PTL DEF SessionSpec, ConflictsOnlyInExplicit

\* A finite view V, some of its rows S, and rows N that are not in it.
Replaceable(V, S, N) ==
  IsFiniteSet(V) /\ S \in SUBSET V /\ IsFiniteSet(N) /\ N \cap V = {}

\* How many rows a view has after S has been replaced by N.
LEMMA UpdateCounts ==
  ASSUME NEW V, NEW S, NEW N, Replaceable(V, S, N)
  PROVE  /\ Cardinality(V) \in Nat /\ Cardinality(S) \in Nat /\ Cardinality(N) \in Nat
         /\ Cardinality((V \ S) \cup N) = Cardinality(V) - Cardinality(S) + Cardinality(N)
<1> USE DEF Replaceable
<1>1. IsFiniteSet(S) /\ IsFiniteSet(V \ S)
  BY FS_Subset, FS_Difference
<1>2. V \cap S = S /\ (V \ S) \cap N = {}
  OBVIOUS
<1>3. Cardinality(V \ S) = Cardinality(V) - Cardinality(S)
  BY <1>2, FS_Difference, Zenon
<1>4. Cardinality((V \ S) \cup N) = Cardinality(V \ S) + Cardinality(N) - Cardinality({})
  <2> DEFINE W == V \ S
  <2>1. IsFiniteSet(W) /\ W \cap N = {}
    BY <1>1, <1>2
  <2> HIDE DEF W
  <2>2. Cardinality(W \cup N) = Cardinality(W) + Cardinality(N) - Cardinality(W \cap N)
    BY <2>1, FS_Union
  <2>3. Cardinality(W \cup N) = Cardinality(W) + Cardinality(N) - Cardinality({})
    BY <2>1, <2>2
  <2> QED
    BY <2>3 DEF W
<1>5. Cardinality({}) = 0
  BY FS_EmptySet
<1>6. Cardinality(V) \in Nat /\ Cardinality(S) \in Nat /\ Cardinality(N) \in Nat
  BY <1>1, FS_CardinalityType
<1> QED
  BY <1>3, <1>4, <1>5, <1>6

\* An UPDATE inside a transaction leaves its reader as many rows as it found, or
\* one less when a new version could not be stored.
THEOREM UpdatesKeepRows == SessionSpec => UpdateKeepsRows
<1> DEFINE Keeps == \A t \in activeTxns :
      last'.stmt = "update" /\ cur[last'.who] = t =>
        /\ Cardinality(Scan(t)') <= Cardinality(Scan(t))
        /\ Cardinality(Scan(t)') >= Cardinality(Scan(t)) - (IF last'.err = "other" THEN 1 ELSE 0)
<1>1. ASSUME SInv, SessionNext, NEW t \in activeTxns, last'.stmt = "update", cur[last'.who] = t
      PROVE  /\ Cardinality(Scan(t)') <= Cardinality(Scan(t))
             /\ Cardinality(Scan(t)') >= Cardinality(Scan(t)) - (IF last'.err = "other" THEN 1 ELSE 0)
  <2>1. IInv /\ t # NoTxn
    BY <1>1 DEF SInv, IInv, TypeOK, NoTxn
  <2>2. ASSUME NEW s \in Session,
               ExecBegin(s) \/ ExecCommit(s) \/ ExecRollback(s) \/ ExecRefused(s)
        PROVE  FALSE
    BY <1>1, <2>2 DEF ExecBegin, ExecCommit, ExecRollback, ExecRefused, Reply
  <2>3. ASSUME NEW s \in Session, NEW stmt, NEW S \in SUBSET DOMAIN heap,
               NEW N \in SUBSET FreeRowID, NEW err, ExecAutocommit(s, stmt, S, N, err)
        PROVE  FALSE
    BY <1>1, <2>1, <2>3, AutocommitWrites
  <2>4. ASSUME NEW s \in Session, NEW stmt, NEW S \in SUBSET DOMAIN heap,
               NEW N \in SUBSET FreeRowID, NEW err, ExecExplicit(s, stmt, S, N, err)
        PROVE  /\ Cardinality(Scan(t)') <= Cardinality(Scan(t))
               /\ Cardinality(Scan(t)') >= Cardinality(Scan(t)) - (IF last'.err = "other" THEN 1 ELSE 0)
    <3>1. /\ AcceptedWrite(cur[s], S, N)
          /\ cur[s] \in activeTxns
          /\ Execute(cur[s], stmt, S, N, err)
          /\ last' = [who |-> s, stmt |-> stmt, err |-> err]
      BY <1>1, <2>4, ExplicitWrites
    <3>2. cur[s] = t /\ stmt = "update"
      BY <1>1, <3>1
    <3>3. executeUpdate(t, S, N, err)
      BY <3>1, <3>2 DEF Execute
    <3>4. WriteMoves(t, S, N)
      BY <2>1, <3>1, <3>2, WriteEffect
    <3>5. Scan(t)' = (Scan(t) \ S) \cup N
      BY <3>4 DEF WriteMoves
    <3>6. S \in SUBSET Scan(t) /\ N \cap Scan(t) = {}
      BY <3>1, <3>2 DEF AcceptedWrite, FreeRowID, Scan
    <3>7. IsFiniteSet(Scan(t)) /\ IsFiniteSet(N)
      <4>1. Scan(t) \in SUBSET RowID /\ N \in SUBSET RowID
        BY <2>1 DEF Scan, FreeRowID, IInv, TypeOK
      <4> QED
        BY <4>1, RowIDAssumption, FS_Subset
    <3>8. /\ Cardinality(Scan(t)) \in Nat /\ Cardinality(S) \in Nat /\ Cardinality(N) \in Nat
          /\ Cardinality(Scan(t)') = Cardinality(Scan(t)) - Cardinality(S) + Cardinality(N)
      <4>1. Replaceable(Scan(t), S, N)
        BY <3>6, <3>7 DEF Replaceable
      <4> QED
        BY <3>5, <4>1, UpdateCounts
    <3>9. \/ Cardinality(N) = Cardinality(S)
          \/ err = "other" /\ Cardinality(N) = Cardinality(S) - 1
      BY <3>3 DEF executeUpdate
    <3> QED
      BY <3>1, <3>8, <3>9
  <2> QED
    BY <1>1, <2>2, <2>3, <2>4 DEF SessionNext
<1>2. SInv /\ [SessionNext]_svars => [Keeps]_svars
  BY <1>1
<1> QED
  BY <1>2, SessionInvariant, PTL DEF SessionSpec, UpdateKeepsRows
=============================================================================
