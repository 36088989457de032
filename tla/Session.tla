------------------------------- MODULE Session -------------------------------
(***************************************************************************)
(* Sessions over one storage engine (src/executor/session.go) and the      *)
(* statements they run (src/executor/executor.go).  One call of            *)
(* Session.Exec is one step: the program runs its statements from a single *)
(* goroutine, so calls of different sessions interleave but do not         *)
(* overlap.                                                                *)
(*                                                                         *)
(* A statement is known by what it does to the heap: the versions S that   *)
(* it stamps, the versions N that it stores, and the error it returns.     *)
(* Which rows a WHERE clause selects is left open.                         *)
(***************************************************************************)
EXTENDS Mvcc, FiniteSets

CONSTANT Session   \* the sessions

\* A RowID is a page number and a slot number, each of fixed width.
ASSUME RowIDAssumption == IsFiniteSet(RowID)

NoTxn == 0

\* Errors a statement can end with.  "conflict" is the text error that the
\* storage engine's checkWriteConflict returns, wrapped by the executor;
\* "sentinel" is core.ErrWriteConflict, which that engine never returns.
Error == {"nil", "conflict", "sentinel", "other"}

Statement == {"insert", "update", "delete"}

VARIABLES cur,    \* per session: its open transaction, NoTxn in autocommit mode
          last    \* the last call of Session.Exec: whose, which statement, its error

svars == <<vars, cur, last>>

(***************************************************************************)
(* Statements                                                              *)
(***************************************************************************)

\* The rows t can write and those whose write is rejected.
Writable(t) == {r \in Scan(t) : ~checkWriteConflict(t, heap[r])}
Contested(t) == Scan(t) \ Writable(t)

\* One row; the error may come before the row is stored or after it (an index
\* that cannot take it).
executeInsert(t, S, N, err) ==
  /\ S = {}
  /\ \/ err = "nil" /\ Cardinality(N) = 1
     \/ err = "other" /\ Cardinality(N) \in {0, 1}

\* Mutant: the statement goes on after a version that cannot be stored.
UpdateGoesOn(t, S, N, err) ==
  /\ S \subseteq Writable(t)
  /\ \/ err = "nil" /\ Cardinality(N) = Cardinality(S)
     \/ err = "conflict" /\ Contested(t) # {} /\ Cardinality(N) = Cardinality(S)
     \/ err = "other" /\ Cardinality(N) <= Cardinality(S)

\* Row by row, until all are replaced, one is contested, an assignment cannot
\* be evaluated, or a new version is too large (its old one is stamped by
\* then).  The rows already replaced stay so.
executeUpdate(t, S, N, err) ==
  /\ S \subseteq Writable(t)
  /\ \/ err = "nil" /\ Cardinality(N) = Cardinality(S)
     \/ err = "conflict" /\ Contested(t) # {} /\ Cardinality(N) = Cardinality(S)
     \/ err = "other" /\ Cardinality(N) \in {Cardinality(S), Cardinality(S) - 1}

\* Row by row, until all are deleted or one is contested; WHERE is evaluated
\* for every row before the first deletion.
executeDelete(t, S, N, err) ==
  /\ N = {}
  /\ \/ err = "nil" /\ S \subseteq Writable(t)
     \/ err = "conflict" /\ Contested(t) # {} /\ S \subseteq Writable(t)
     \/ err = "other" /\ S = {}

Execute(t, stmt, S, N, err) ==
  \/ stmt = "insert" /\ executeInsert(t, S, N, err)
  \/ stmt = "update" /\ executeUpdate(t, S, N, err)
  \/ stmt = "delete" /\ executeDelete(t, S, N, err)

isWriteConflict(err) == err = "sentinel"

(***************************************************************************)
(* Session.Exec                                                            *)
(***************************************************************************)

SessionInit ==
  /\ Init
  /\ cur = [s \in Session |-> NoTxn]
  /\ last \in [who : Session, stmt : {"control"}, err : {"nil"}]

Reply(s, stmt, err) == last' = [who |-> s, stmt |-> stmt, err |-> err]

ExecBegin(s) ==
  /\ cur[s] = NoTxn
  /\ Begin
  /\ cur' = [cur EXCEPT ![s] = nextTx']
  /\ Reply(s, "control", "nil")

ExecCommit(s) ==
  /\ cur[s] # NoTxn
  /\ Commit(cur[s])
  /\ cur' = [cur EXCEPT ![s] = NoTxn]
  /\ Reply(s, "control", "nil")

ExecRollback(s) ==
  /\ cur[s] # NoTxn
  /\ Rollback(cur[s])
  /\ cur' = [cur EXCEPT ![s] = NoTxn]
  /\ Reply(s, "control", "nil")

\* BEGIN inside a transaction, COMMIT or ROLLBACK outside one; a statement that
\* Execute does not know.
ExecRefused(s) ==
  /\ Reply(s, "control", "other")
  /\ UNCHANGED <<vars, cur>>

\* A statement inside an explicit transaction.
ExecExplicit(s, stmt, S, N, err) ==
  LET t == cur[s]
  IN  /\ t # NoTxn
      /\ Execute(t, stmt, S, N, err)
      /\ heap' = Stored(heap, t, S, N)
      /\ Reply(s, stmt, err)
      /\ IF isWriteConflict(err)
         THEN Leave(t) /\ cur' = [cur EXCEPT ![s] = NoTxn]
         ELSE UNCHANGED <<activeTxns, txnSnapshots, cur>>
      /\ UNCHANGED <<nextTx, committed>>

\* Mutant: the transaction of a failed autocommit statement is not rolled back.
AutocommitLeak(s, stmt, S, N, err) ==
  LET t == nextTx + 1
  IN  /\ cur[s] = NoTxn
      /\ nextTx < MaxTx
      /\ Execute(t, stmt, S, N, err)
      /\ nextTx' = t
      /\ heap' = Stored(heap, t, S, N)
      /\ committed' = IF err = "nil" THEN committed \cup {t} ELSE committed
      /\ activeTxns' = IF err = "nil" THEN activeTxns ELSE activeTxns \cup {t}
      /\ Reply(s, stmt, err)
      /\ UNCHANGED <<txnSnapshots, cur>>

\* Mutant: an autocommit statement is committed whatever it returned.
AutocommitAlways(s, stmt, S, N, err) ==
  LET t == nextTx + 1
  IN  /\ cur[s] = NoTxn
      /\ nextTx < MaxTx
      /\ Execute(t, stmt, S, N, err)
      /\ nextTx' = t
      /\ heap' = Stored(heap, t, S, N)
      /\ committed' = committed \cup {t}
      /\ Reply(s, stmt, err)
      /\ UNCHANGED <<activeTxns, txnSnapshots, cur>>

\* A statement in autocommit mode: Begin, Execute, then Commit or Rollback.
\* The transaction runs inside the call, on the committed set of the moment
\* (Snapshot of an id not in the table).
ExecAutocommit(s, stmt, S, N, err) ==
  LET t == nextTx + 1
  IN  /\ cur[s] = NoTxn
      /\ nextTx < MaxTx
      /\ Execute(t, stmt, S, N, err)
      /\ nextTx' = t
      /\ heap' = Stored(heap, t, S, N)
      /\ committed' = IF err = "nil" THEN committed \cup {t} ELSE committed
      /\ Reply(s, stmt, err)
      /\ UNCHANGED <<activeTxns, txnSnapshots, cur>>

SessionNext ==
  \E s \in Session :
    \/ ExecBegin(s)
    \/ ExecCommit(s)
    \/ ExecRollback(s)
    \/ ExecRefused(s)
    \/ \E stmt \in Statement, S \in SUBSET DOMAIN heap, N \in SUBSET FreeRowID, err \in Error :
         \/ ExecExplicit(s, stmt, S, N, err)
         \/ ExecAutocommit(s, stmt, S, N, err)

SessionSpec == SessionInit /\ [][SessionNext]_svars

(***************************************************************************)
(* Properties                                                              *)
(***************************************************************************)

\* Every running transaction belongs to exactly one session: no path on which
\* Session.Exec returns, the failing ones included, leaves a transaction behind
\* that nobody can end.
NoLeakedTxn ==
  /\ activeTxns = {cur[s] : s \in Session} \ {NoTxn}
  /\ \A s1, s2 \in Session : cur[s1] = cur[s2] /\ s1 # s2 => cur[s1] = NoTxn

\* A call that returns an error leaves the committed database as it was: a
\* statement that fails half-way in autocommit mode publishes none of its rows,
\* although its versions and stamps stay in the heap.
FailedCallPublishesNothing ==
  [][last'.err # "nil" => LiveRows' = LiveRows]_svars

\* A statement in autocommit mode is never rejected with a write conflict,
\* however many transactions are open around it: only an explicit transaction
\* can meet a commit later than its snapshot.
ConflictsOnlyInExplicit ==
  [][last'.err = "conflict" => cur[last'.who] # NoTxn]_svars

\* DESIGN.md's "the transaction is automatically aborted": when a statement has
\* been refused with a write conflict, its session is in no transaction.
ConflictAborts == last.err = "conflict" => cur[last.who] = NoTxn

\* An UPDATE inside a transaction leaves its reader as many rows as it found,
\* also when a later row is contested: no row is seen twice, in its old and its
\* new version.  Only a new version that cannot be stored costs a row, one, as
\* the statement ends there; the old version is stamped by then.
UpdateKeepsRows ==
  [][\A t \in activeTxns :
       last'.stmt = "update" /\ cur[last'.who] = t =>
         /\ Cardinality(Scan(t)') <= Cardinality(Scan(t))
         /\ Cardinality(Scan(t)') >= Cardinality(Scan(t)) - (IF last'.err = "other" THEN 1 ELSE 0)]_svars
=============================================================================
