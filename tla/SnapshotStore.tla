---------------------------- MODULE SnapshotStore ----------------------------
(***************************************************************************)
(* What the storage engine promises a transaction, with no stamps and no   *)
(* transaction table: every running transaction has a base (the committed  *)
(* database when it began) and a view (what it reads).  Commit publishes   *)
(* the difference of the two at once, and only if the rows it removes are  *)
(* still there (the first committer wins); a rollback publishes nothing,   *)
(* and a transaction's writes change its own view only.                    *)
(***************************************************************************)
CONSTANTS Row, Tx

VARIABLES rows,  \* rows ever stored
          db,    \* the committed database
          base,  \* per running transaction: the database it began on
          view   \* per running transaction: what it reads

svars == <<rows, db, base, view>>

Running == DOMAIN base

Init ==
  /\ rows = {}
  /\ db = {}
  /\ base = [t \in {} |-> {}]
  /\ view = [t \in {} |-> {}]

Begin(t) ==
  /\ t \notin Running
  /\ base' = [u \in Running \cup {t} |-> IF u = t THEN db ELSE base[u]]
  /\ view' = [u \in Running \cup {t} |-> IF u = t THEN db ELSE view[u]]
  /\ UNCHANGED <<rows, db>>

End(t) ==
  /\ base' = [u \in Running \ {t} |-> base[u]]
  /\ view' = [u \in Running \ {t} |-> view[u]]
  /\ UNCHANGED rows

Commit(t) ==
  /\ base[t] \ view[t] \subseteq db
  /\ End(t)
  /\ db' = (db \ (base[t] \ view[t])) \cup (view[t] \ base[t])

Rollback(t) ==
  /\ End(t)
  /\ UNCHANGED db

\* Replace the rows in gone (one that t reads, or none) by the rows in new.
Write(t, gone, new) ==
  /\ gone \subseteq view[t]
  /\ new \subseteq Row \ rows
  /\ rows' = rows \cup new
  /\ view' = [view EXCEPT ![t] = (view[t] \ gone) \cup new]
  /\ UNCHANGED <<db, base>>

Next ==
  \/ \E t \in Tx : Begin(t)
  \/ \E t \in Running :
       \/ Commit(t)
       \/ Rollback(t)
       \/ \E new \in Row : Write(t, {}, {new})
       \/ \E old \in view[t] : Write(t, {old}, {})
       \/ \E old \in view[t], new \in Row : Write(t, {old}, {new})

Spec == Init /\ [][Next]_svars
=============================================================================
