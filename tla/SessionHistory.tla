--------------------------- MODULE SessionHistory ---------------------------
(***************************************************************************)
(* Session with a history variable: for every row version, the             *)
(* transactions that ever deleted or replaced it.  It records steps and    *)
(* restricts none.                                                         *)
(***************************************************************************)
EXTENDS Session

VARIABLE stampers

hvars == <<svars, stampers>>

HistoryInit == SessionInit /\ stampers = [r \in RowID |-> {}]

HistoryNext ==
  /\ SessionNext
  /\ stampers' = [r \in RowID |->
       IF r \in DOMAIN heap /\ heap'[r].xmax # heap[r].xmax
       THEN stampers[r] \cup {heap'[r].xmax}
       ELSE stampers[r]]

HistorySpec == HistoryInit /\ [][HistoryNext]_hvars

\* DESIGN.md's "First-committer-wins: second writer gets conflict error": at
\* most one transaction that deleted or replaced a version commits.
NoLostUpdate ==
  \A r \in RowID : Cardinality(stampers[r] \cap committed) <= 1

\* DESIGN.md's "Non-Repeatable Read: snapshot isolation prevents this within a
\* transaction": a version that a running transaction has deleted or replaced
\* stays out of its reads, whatever other transactions do meanwhile.
RepeatableRead ==
  \A t \in activeTxns : \A r \in Scan(t) : t \notin stampers[r]
=============================================================================
