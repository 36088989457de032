------------------------------ MODULE RowStore ------------------------------
(***************************************************************************)
(* What the heap file promises the engine: a map from RowIDs to rows in    *)
(* which a row keeps its RowID and its bytes until it is updated or        *)
(* deleted, whatever is cached, evicted, flushed or reopened meanwhile.    *)
(***************************************************************************)
CONSTANTS ID, Row

VARIABLE store   \* RowID -> row, for the rows stored

Init == store = [i \in {} |-> {}]

Insert(i, row) ==
  /\ i \notin DOMAIN store
  /\ store' = [j \in DOMAIN store \cup {i} |-> IF j = i THEN row ELSE store[j]]

Update(i, row) ==
  /\ i \in DOMAIN store
  /\ store' = [store EXCEPT ![i] = row]

Delete(i) ==
  /\ i \in DOMAIN store
  /\ store' = [j \in DOMAIN store \ {i} |-> store[j]]

Next ==
  \/ \E i \in ID, row \in Row : Insert(i, row) \/ Update(i, row)
  \/ \E i \in ID : Delete(i)

Spec == Init /\ [][Next]_store
=============================================================================
