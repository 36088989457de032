------------------------------ MODULE MCSelect ------------------------------
(* Select on a small instance: every pair of tables of up to two rows.  What a *)
(* query does not look at is fixed: predicate and literal without WHERE, the   *)
(* literal's value where it is not sought, and old index entries where the     *)
(* tables have others.                                                         *)
EXTENDS Select

NoEntries(keys) == keys \ {Null} = {}

MCInit ==
  /\ Init
  /\ ~query.where => /\ ~query.leftIndex /\ query.litType = query.leftType
                     /\ \A i \in DOMAIN left : left[i].p = "true"
  /\ ~query.leftIndex => query.lit = zero
  /\ query.stale => \/ query.leftIndex /\ NoEntries(LeftKeys)
                    \/ query.rightIndex /\ NoEntries(RightKeys)

MCSpec == MCInit /\ [][Next]_qvars /\ WF_qvars(Next)
=============================================================================
