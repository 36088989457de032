------------------------------ MODULE Restart ------------------------------
(***************************************************************************)
(* The transaction table across a clean shutdown.  Engine.Close flushes    *)
(* every page, so all versions and their stamps come back; New starts with *)
(* an empty committed set and hands out transaction ids from 1 again.      *)
(***************************************************************************)
EXTENDS Mvcc

CONSTANT MaxReopen   \* bound: restarts

VARIABLES opens,    \* restarts so far
          atClose   \* history: the heap and the committed database at Close

rvars == <<vars, opens, atClose>>

RestartInit ==
  /\ Init
  /\ opens = 0
  /\ atClose = [heap |-> heap, live |-> {}]

\* Any step of the engine.
Run == Next /\ UNCHANGED <<opens, atClose>>

\* Close, then New on the same directory.
Reopen ==
  /\ opens < MaxReopen
  /\ opens' = opens + 1
  /\ atClose' = [heap |-> heap, live |-> LiveRows]
  /\ nextTx' = 0
  /\ activeTxns' = {}
  /\ committed' = {}
  /\ txnSnapshots' = [t \in {} |-> {}]
  /\ UNCHANGED heap

RestartSpec == RestartInit /\ [][Run \/ Reopen]_rvars

\* DESIGN.md's "a disk-backed storage layer ... handles persistence": until
\* somebody writes, every transaction of the new life reads all the rows that
\* were committed at Close.
CommittedPersist ==
  opens > 0 /\ heap = atClose.heap =>
    \A t \in activeTxns : atClose.live \subseteq Scan(t)

\* DESIGN.md's "persist only on COMMIT; ROLLBACK discards them": until somebody
\* writes, no transaction of the new life reads a row that was not in the
\* committed database at Close.
UncommittedGone ==
  opens > 0 /\ heap = atClose.heap =>
    \A t \in activeTxns : Scan(t) \subseteq atClose.live
=============================================================================
