--------------------------- MODULE MemstoreProofs ---------------------------
(***************************************************************************)
(* Theorems about Memstore for every set of values and every number of     *)
(* rows, transactions, changes and drops.                                  *)
(***************************************************************************)
EXTENDS Memstore, TLAPS

Change == [id : RowIDs, val : Value, isDelete : BOOLEAN]

\* The types.
MTypeOK ==
  /\ table \in BOOLEAN /\ clean \in BOOLEAN
  /\ nextID \in 0 .. MaxRowID /\ nextTx \in 0 .. MaxTx
  /\ rows \subseteq 1 .. nextID /\ past \subseteq 1 .. nextID
  /\ rowTxns \in [RowIDs -> 0 .. nextTx]
  /\ activeTxns \subseteq 1 .. nextTx
  /\ pending \in [activeTxns -> Seq(Change)]
  /\ \A t \in activeTxns : Touched(pending[t]) \subseteq 1 .. nextID
  /\ vals \in [RowIDs -> Value] /\ told \in [RowIDs -> Value]

\* A row with a pending change is committed, or never was, or lost its table.
PendingLive ==
  \A t \in activeTxns : \A id \in Touched(pending[t]) :
    id \in rows \/ id \notin past \/ id \in orphans

\* Change i is the last one of row id.
IsLast(changes, id, i) ==
  /\ i \in DOMAIN changes
  /\ changes[i].id = id
  /\ \A j \in DOMAIN changes : changes[j].id = id => j <= i

\* Every changed row has a last change.  (In a finite list it has; that the
\* list grows from nothing is what shows it here.)
HasLast(changes) == \A id \in Touched(changes) : \E i : IsLast(changes, id, i)

LastVal(changes, id) == changes[LastChange(changes, id)].val

\* The slice of a row holds the last pending value of the row, and without a
\* pending change what the commits told.
SliceHolds ==
  clean =>
    /\ \A t \in activeTxns : \A id \in Touched(pending[t]) : LastVal(pending[t], id) = vals[id]
    /\ \A id \in rows : (\A t \in activeTxns : id \notin Touched(pending[t])) => vals[id] = told[id]

\* The inductive invariant.
MInv ==
  /\ MTypeOK
  /\ ~table => rows = {}
  /\ WritersExclusive
  /\ NoStaleLock
  /\ PendingLive
  /\ \A t \in activeTxns : HasLast(pending[t])
  /\ SliceHolds

(***************************************************************************)
(* Lists of changes                                                        *)
(***************************************************************************)

LEMMA TouchedEmpty == Touched(<<>>) = {}
BY DEF Touched

LEMMA TouchedAppend ==
  ASSUME NEW s \in Seq(Change), NEW c \in Change
  PROVE  /\ Append(s, c) \in Seq(Change)
         /\ Touched(Append(s, c)) = Touched(s) \cup {c.id}
<1>1. Append(s, c) \in Seq(Change) /\ Len(Append(s, c)) = Len(s) + 1 /\ Len(s) \in Nat
  OBVIOUS
<1>2. DOMAIN Append(s, c) = 1 .. Len(s) + 1 /\ DOMAIN s = 1 .. Len(s)
  BY <1>1
<1>3. Append(s, c)[Len(s) + 1] = c /\ \A i \in 1 .. Len(s) : Append(s, c)[i] = s[i]
  OBVIOUS
<1>4. DOMAIN Append(s, c) = DOMAIN s \cup {Len(s) + 1}
  BY <1>1, <1>2
<1> QED
  BY <1>1, <1>2, <1>3, <1>4 DEF Touched

LEMMA LastOfAppended ==
  ASSUME NEW s \in Seq(Change), NEW c \in Change
  PROVE  /\ IsLast(Append(s, c), c.id, Len(s) + 1)
         /\ Append(s, c)[Len(s) + 1] = c
BY DEF IsLast

LEMMA LastOfOthers ==
  ASSUME NEW s \in Seq(Change), NEW c \in Change, NEW id, id # c.id, NEW i, IsLast(s, id, i)
  PROVE  /\ IsLast(Append(s, c), id, i)
         /\ Append(s, c)[i] = s[i]
BY DEF IsLast

\* LastChange picks the last change.
LEMMA LastChangeIs ==
  ASSUME NEW s \in Seq(Change), NEW id, NEW i, IsLast(s, id, i)
  PROVE  LastChange(s, id) = i
<1>1. DOMAIN s \subseteq Int
  OBVIOUS
<1>2. /\ LastChange(s, id) \in DOMAIN s
      /\ s[LastChange(s, id)].id = id
      /\ \A j \in DOMAIN s : s[j].id = id => j <= LastChange(s, id)
  BY DEF LastChange, IsLast
<1> QED
  BY <1>1, <1>2 DEF IsLast

LEMMA LastValType ==
  ASSUME NEW s \in Seq(Change), HasLast(s), NEW id \in Touched(s)
  PROVE  LastVal(s, id) \in Value
<1>1. PICK i : IsLast(s, id, i)
  BY DEF HasLast
<1>2. LastVal(s, id) = s[i].val
  BY <1>1, LastChangeIs DEF LastVal
<1>3. s[i] \in Change
  BY <1>1 DEF IsLast
<1> QED
  BY <1>2, <1>3 DEF Change

LEMMA LastAppend ==
  ASSUME NEW s \in Seq(Change), NEW c \in Change, HasLast(s)
  PROVE  /\ HasLast(Append(s, c))
         /\ LastVal(Append(s, c), c.id) = c.val
         /\ \A id \in Touched(s) \ {c.id} : LastVal(Append(s, c), id) = LastVal(s, id)
<1>1. Append(s, c) \in Seq(Change) /\ Touched(Append(s, c)) = Touched(s) \cup {c.id}
  BY TouchedAppend
<1>2. IsLast(Append(s, c), c.id, Len(s) + 1) /\ Append(s, c)[Len(s) + 1] = c
  BY LastOfAppended
<1>3. LastVal(Append(s, c), c.id) = c.val
  BY <1>1, <1>2, LastChangeIs DEF LastVal
<1>4. ASSUME NEW id \in Touched(s) \ {c.id}
      PROVE  /\ \E i : IsLast(Append(s, c), id, i)
             /\ LastVal(Append(s, c), id) = LastVal(s, id)
  <2>1. PICK i : IsLast(s, id, i)
    BY DEF HasLast
  <2>2. IsLast(Append(s, c), id, i) /\ Append(s, c)[i] = s[i]
    BY <2>1, LastOfOthers
  <2>3. LastChange(s, id) = i /\ LastChange(Append(s, c), id) = i
    BY <1>1, <2>1, <2>2, LastChangeIs
  <2> QED
    BY <2>2, <2>3 DEF LastVal
<1>5. HasLast(Append(s, c))
  BY <1>1, <1>2, <1>4 DEF HasLast
<1> QED
  BY <1>3, <1>4, <1>5

(***************************************************************************)
(* The invariant is inductive: one lemma per kind of step                  *)
(***************************************************************************)

\* The end of a transaction leaves the pending changes of the others alone.
LEMMA Forgotten ==
  ASSUME MTypeOK, NEW t \in activeTxns, Forget(t)
  PROVE  /\ activeTxns' = activeTxns \ {t}
         /\ pending' \in [activeTxns' -> Seq(Change)]
         /\ \A u \in activeTxns' : pending'[u] = pending[u]
BY DEF Forget, MTypeOK

LEMMA BeginKeeps ==
  ASSUME MInv, Begin
  PROVE  MInv'
<1>1. /\ nextTx \in Nat /\ nextTx' = nextTx + 1 /\ nextTx' \in 0 .. MaxTx
      /\ nextTx' \notin activeTxns
      /\ activeTxns' = activeTxns \cup {nextTx'}
  BY MemAssumption DEF MInv, MTypeOK, Begin
<1>2. /\ pending' \in [activeTxns' -> Seq(Change)]
      /\ pending'[nextTx'] = <<>>
      /\ \A u \in activeTxns : pending'[u] = pending[u]
  BY <1>1 DEF MInv, MTypeOK, Begin
<1>3. Touched(pending'[nextTx']) = {}
  BY <1>2, TouchedEmpty
<1>4. UNCHANGED <<table, rows, rowTxns, nextID, vals, past, told, clean, orphans, drops>>
  BY DEF Begin, hist
<1>5. MTypeOK'
  <2>1. activeTxns' \subseteq 1 .. nextTx' /\ rowTxns' \in [RowIDs -> 0 .. nextTx']
    BY <1>1, <1>4 DEF MInv, MTypeOK
  <2>2. \A t \in activeTxns' : Touched(pending'[t]) \subseteq 1 .. nextID
    BY <1>1, <1>2, <1>3 DEF MInv, MTypeOK
  <2> QED
    BY <1>1, <1>2, <1>4, <2>1, <2>2 DEF MInv, MTypeOK
<1>6. WritersExclusive'
  <2>1. ASSUME NEW t \in activeTxns', NEW id \in Touched(pending'[t])
        PROVE  /\ id \in rows => rowTxns[id] = t
               /\ \A u \in activeTxns' \ {t} : id \notin Touched(pending'[u])
    <3>1. t \in activeTxns /\ pending'[t] = pending[t]
      BY <1>1, <1>2, <1>3, <2>1
    <3> QED
      BY <1>1, <1>2, <1>3, <2>1, <3>1 DEF MInv, WritersExclusive
  <2> QED
    BY <1>4, <2>1 DEF WritersExclusive
<1>7. NoStaleLock'
  BY <1>1, <1>2, <1>4 DEF MInv, NoStaleLock
<1>8. PendingLive'
  BY <1>1, <1>2, <1>3, <1>4 DEF MInv, PendingLive
<1>9. \A t \in activeTxns' : HasLast(pending'[t])
  BY <1>1, <1>2, <1>3 DEF MInv, HasLast
<1>10. SliceHolds'
  BY <1>1, <1>2, <1>3, <1>4 DEF MInv, SliceHolds
<1> QED
  BY <1>4, <1>5, <1>6, <1>7, <1>8, <1>9, <1>10 DEF MInv

LEMMA DropKeeps ==
  ASSUME MInv, DropTable
  PROVE  MInv'
<1>1. /\ rows' = {} /\ table' = FALSE
      /\ rowTxns' = [id \in RowIDs |-> 0]
      /\ UNCHANGED <<nextID, nextTx, activeTxns, pending, vals, past, told, clean>>
  BY DEF DropTable
<1>2. \A t \in activeTxns : Touched(pending[t]) \subseteq orphans'
  BY DEF DropTable
<1>3. MTypeOK'
  <2>1. rowTxns' \in [RowIDs -> 0 .. nextTx]
    BY <1>1, MemAssumption DEF MInv, MTypeOK
  <2> QED
    BY <1>1, <2>1 DEF MInv, MTypeOK
<1>4. WritersExclusive'
  BY <1>1 DEF MInv, WritersExclusive
<1>5. NoStaleLock'
  BY <1>1 DEF NoStaleLock
<1>6. PendingLive'
  BY <1>1, <1>2 DEF PendingLive
<1>7. SliceHolds'
  BY <1>1 DEF MInv, SliceHolds
<1> QED
  BY <1>1, <1>3, <1>4, <1>5, <1>6, <1>7 DEF MInv

\* The committed rows and locks after Commit(t), seen from the others.
LEMMA CommitKeeps ==
  ASSUME MInv, NEW t \in activeTxns, Commit(t)
  PROVE  MInv'
<1> DEFINE changed == IF table THEN Touched(pending[t]) ELSE {}
           gone == changed \cap Deleted(pending[t])
<1>1. /\ rows' = (rows \cup changed) \ gone
      /\ rowTxns' = [id \in RowIDs |-> IF id \in changed THEN 0 ELSE rowTxns[id]]
      /\ past' = past \cup rows'
      /\ told' = [id \in RowIDs |->
           IF id \in changed THEN pending[t][LastChange(pending[t], id)].val ELSE told[id]]
      /\ Forget(t)
      /\ UNCHANGED <<table, nextID, nextTx, vals, clean, orphans, drops>>
  BY DEF Commit
<1>2. /\ activeTxns' = activeTxns \ {t}
      /\ pending' \in [activeTxns' -> Seq(Change)]
      /\ \A u \in activeTxns' : pending'[u] = pending[u]
  BY <1>1, Forgotten DEF MInv
<1>3. gone \subseteq changed /\ changed \subseteq Touched(pending[t]) /\ (~table => rows = {} /\ changed = {})
      /\ (table => changed = Touched(pending[t]))
  BY DEF MInv
<1>4. \A u \in activeTxns' : Touched(pending[u]) \cap changed = {}
  BY <1>2, <1>3 DEF MInv, WritersExclusive
<1> HIDE DEF changed, gone
<1>5. changed \subseteq 1 .. nextID /\ 1 .. nextID \subseteq RowIDs
  BY <1>3, MemAssumption DEF MInv, MTypeOK, RowIDs
<1>6. MTypeOK'
  <2>1. rows' \subseteq 1 .. nextID /\ past' \subseteq 1 .. nextID
    BY <1>1, <1>5 DEF MInv, MTypeOK
  <2>2. rowTxns' \in [RowIDs -> 0 .. nextTx]
    BY <1>1, MemAssumption DEF MInv, MTypeOK
  <2>3. told' \in [RowIDs -> Value]
    <3>1. ASSUME NEW id \in changed PROVE pending[t][LastChange(pending[t], id)].val \in Value
      BY <1>3, LastValType DEF MInv, MTypeOK, LastVal
    <3> QED
      BY <1>1, <3>1 DEF MInv, MTypeOK
  <2> QED
    BY <1>1, <1>2, <2>1, <2>2, <2>3 DEF MInv, MTypeOK
<1>7. (~table => rows = {})'
  BY <1>1, <1>3
<1>8. WritersExclusive'
  BY <1>1, <1>2, <1>3, <1>4, <1>5 DEF MInv, MTypeOK, WritersExclusive
<1>9. NoStaleLock'
  BY <1>1, <1>2, <1>3, <1>4 DEF MInv, NoStaleLock
<1>10. PendingLive'
  BY <1>1, <1>2, <1>3, <1>4 DEF MInv, PendingLive
<1>11. \A u \in activeTxns' : HasLast(pending'[u])
  BY <1>2 DEF MInv
<1>12. SliceHolds'
  <2> SUFFICES ASSUME clean
               PROVE  /\ \A u \in activeTxns' : \A id \in Touched(pending'[u]) :
                           LastVal(pending'[u], id) = vals[id]
                      /\ \A id \in rows' :
                           (\A u \in activeTxns' : id \notin Touched(pending'[u])) => vals[id] = told'[id]
    BY <1>1 DEF SliceHolds
  <2>1. \A u \in activeTxns' : \A id \in Touched(pending'[u]) : LastVal(pending'[u], id) = vals[id]
    BY <1>2 DEF MInv, SliceHolds
  <2>2. ASSUME NEW id \in rows', \A u \in activeTxns' : id \notin Touched(pending'[u])
        PROVE  vals[id] = told'[id]
    <3>1. id \in RowIDs
      BY <1>1, <1>5 DEF MInv, MTypeOK
    <3>2. CASE id \in changed
      BY <1>1, <1>3, <3>1, <3>2 DEF MInv, SliceHolds, LastVal
    <3>3. CASE id \notin changed
      <4>1. id \in rows /\ table
        BY <1>1, <1>3, <3>3
      <4>2. \A u \in activeTxns : id \notin Touched(pending[u])
        BY <1>2, <1>3, <2>2, <3>3, <4>1
      <4> QED
        BY <1>1, <3>1, <3>3, <4>1, <4>2 DEF MInv, SliceHolds
    <3> QED
      BY <3>2, <3>3
  <2> QED
    BY <2>1, <2>2
<1> QED
  BY <1>6, <1>7, <1>8, <1>9, <1>10, <1>11, <1>12 DEF MInv

\* The end of a transaction that publishes nothing: Rollback, or a conflict,
\* which may have assigned to the slice of a row before.
Abandon(t) ==
  /\ rowTxns' = Release(t)
  /\ Forget(t)
  /\ \/ clean' = FALSE /\ vals' \in [RowIDs -> Value]
     \/ clean' = (clean /\ pending[t] = <<>>) /\ vals' = vals
  /\ UNCHANGED <<table, rows, nextID, nextTx, past, told, orphans, drops>>

LEMMA AbandonKeeps ==
  ASSUME MInv, NEW t \in activeTxns, Abandon(t)
  PROVE  MInv'
<1>1. /\ activeTxns' = activeTxns \ {t}
      /\ pending' \in [activeTxns' -> Seq(Change)]
      /\ \A u \in activeTxns' : pending'[u] = pending[u]
  BY Forgotten DEF MInv, Abandon
<1>2. /\ UNCHANGED <<table, rows, nextID, nextTx, past, told, orphans, drops>>
      /\ rowTxns' = [id \in RowIDs |->
                       IF id \in Touched(pending[t]) /\ rowTxns[id] = t THEN 0 ELSE rowTxns[id]]
  BY DEF Abandon, Release
<1>3. clean' => clean /\ Touched(pending[t]) = {} /\ vals' = vals
  BY TouchedEmpty DEF Abandon
<1>4. MTypeOK'
  <2>1. rowTxns' \in [RowIDs -> 0 .. nextTx]
    BY <1>2, MemAssumption DEF MInv, MTypeOK
  <2>2. vals' \in [RowIDs -> Value] /\ clean' \in BOOLEAN
    BY DEF MInv, MTypeOK, Abandon
  <2> QED
    BY <1>1, <1>2, <2>1, <2>2 DEF MInv, MTypeOK
<1>5. WritersExclusive'
  <2>1. ASSUME NEW u \in activeTxns', NEW id \in Touched(pending'[u])
        PROVE  /\ id \in rows => rowTxns'[id] = u
               /\ \A w \in activeTxns' \ {u} : id \notin Touched(pending'[w])
    <3>1. u \in activeTxns /\ id \in Touched(pending[u]) /\ u # t
      BY <1>1, <2>1
    <3>2. id \in RowIDs
      BY <3>1, MemAssumption DEF MInv, MTypeOK, RowIDs
    <3> QED
      BY <1>1, <1>2, <3>1, <3>2 DEF MInv, WritersExclusive
  <2> QED
    BY <1>2, <2>1 DEF WritersExclusive
<1>6. NoStaleLock'
  BY <1>1, <1>2 DEF MInv, NoStaleLock
<1>7. PendingLive'
  BY <1>1, <1>2 DEF MInv, PendingLive
<1>8. \A u \in activeTxns' : HasLast(pending'[u])
  BY <1>1 DEF MInv
<1>9. SliceHolds'
  BY <1>1, <1>2, <1>3 DEF MInv, SliceHolds
<1> QED
  BY <1>2, <1>4, <1>5, <1>6, <1>7, <1>8, <1>9 DEF MInv

\* A change that is recorded: of a new row, or of a committed row that no other
\* running transaction has locked.
Record(t, id, v, d) ==
  /\ pending' = [pending EXCEPT ![t] = Append(@, [id |-> id, val |-> v, isDelete |-> d])]
  /\ vals' = [vals EXCEPT ![id] = v]
  /\ \/ id = nextID + 1 /\ nextID' = id /\ rowTxns' = rowTxns
     \/ /\ id \in rows /\ ~OwnedByOther(t, id)
        /\ nextID' = nextID /\ rowTxns' = [rowTxns EXCEPT ![id] = t]
  /\ UNCHANGED <<table, rows, nextTx, activeTxns, past, told, clean, orphans, drops>>

\* Nobody else has a pending change of that row.
LEMMA RecordAlone ==
  ASSUME MInv, NEW t \in activeTxns, NEW id \in RowIDs, NEW v, NEW d, Record(t, id, v, d),
         NEW u \in activeTxns \ {t}
  PROVE  id \notin Touched(pending[u])
<1>1. CASE id = nextID + 1
  <2>1. nextID \in Nat /\ Touched(pending[u]) \subseteq 1 .. nextID
    BY MemAssumption DEF MInv, MTypeOK
  <2> QED
    BY <1>1, <2>1
<1>2. CASE id \in rows /\ ~OwnedByOther(t, id)
  <2>1. u # 0
    BY DEF MInv, MTypeOK
  <2> QED
    BY <1>2, <2>1 DEF MInv, WritersExclusive, OwnedByOther
<1> QED
  BY <1>1, <1>2 DEF Record

LEMMA RecordKeeps ==
  ASSUME MInv, NEW t \in activeTxns, NEW id \in RowIDs, NEW v \in Value, NEW d \in BOOLEAN,
         Record(t, id, v, d)
  PROVE  MInv'
<1> DEFINE c == [id |-> id, val |-> v, isDelete |-> d]
<1>1. c \in Change /\ c.id = id /\ c.val = v
  BY DEF Change
<1>2. /\ pending[t] \in Seq(Change) /\ HasLast(pending[t])
      /\ pending'[t] = Append(pending[t], c)
      /\ \A u \in activeTxns \ {t} : pending'[u] = pending[u]
      /\ DOMAIN pending' = activeTxns
  BY DEF MInv, MTypeOK, Record
<1> HIDE DEF c
<1>3. pending'[t] \in Seq(Change) /\ Touched(pending'[t]) = Touched(pending[t]) \cup {id}
  BY <1>1, <1>2, TouchedAppend
<1>4. /\ HasLast(pending'[t])
      /\ LastVal(pending'[t], id) = v
      /\ \A x \in Touched(pending[t]) \ {id} : LastVal(pending'[t], x) = LastVal(pending[t], x)
  BY <1>1, <1>2, LastAppend
<1>5. \A u \in activeTxns \ {t} : id \notin Touched(pending[u])
  BY RecordAlone
<1>6. /\ UNCHANGED <<table, rows, nextTx, activeTxns, past, told, clean, orphans, drops>>
      /\ vals' \in [RowIDs -> Value] /\ vals'[id] = v
      /\ \A x \in RowIDs \ {id} : vals'[x] = vals[x]
  BY DEF MInv, MTypeOK, Record
<1>7. /\ nextID \in Nat /\ nextID' \in 0 .. MaxRowID /\ nextID <= nextID' /\ id \in 1 .. nextID'
      /\ 1 .. nextID \subseteq 1 .. nextID' /\ 1 .. nextID \subseteq RowIDs
  BY MemAssumption DEF MInv, MTypeOK, Record, RowIDs
<1>8. /\ rowTxns' \in [RowIDs -> 0 .. nextTx]
      /\ id \in rows => rowTxns'[id] = t
      /\ id \notin rows => rowTxns'[id] = rowTxns[id]
      /\ \A x \in RowIDs \ {id} : rowTxns'[x] = rowTxns[x]
  <2>1. rows \subseteq 1 .. nextID /\ rowTxns \in [RowIDs -> 0 .. nextTx] /\ t \in 0 .. nextTx
    BY MemAssumption DEF MInv, MTypeOK
  <2>2. id = nextID + 1 => id \notin rows
    BY <1>7, <2>1
  <2> QED
    BY <2>1, <2>2 DEF Record
<1>9. MTypeOK'
  <2>1. pending' \in [activeTxns -> Seq(Change)]
    BY <1>2, <1>3 DEF MInv, MTypeOK, Record
  <2>2. \A u \in activeTxns : Touched(pending'[u]) \subseteq 1 .. nextID'
    BY <1>2, <1>3, <1>7 DEF MInv, MTypeOK
  <2>3. rows' \subseteq 1 .. nextID' /\ past' \subseteq 1 .. nextID'
    BY <1>6, <1>7 DEF MInv, MTypeOK
  <2> QED
    BY <1>6, <1>7, <1>8, <2>1, <2>2, <2>3 DEF MInv, MTypeOK
<1>10. WritersExclusive'
  <2>1. ASSUME NEW u \in activeTxns, NEW x \in Touched(pending'[u])
        PROVE  /\ x \in rows => rowTxns'[x] = u
               /\ \A w \in activeTxns \ {u} : x \notin Touched(pending'[w])
    <3>1. CASE x = id
      <4>1. u = t
        BY <1>2, <1>5, <2>1, <3>1
      <4> QED
        BY <1>2, <1>5, <1>8, <3>1, <4>1
    <3>2. CASE x # id
      <4>1. x \in Touched(pending[u]) /\ \A w \in activeTxns : x \in Touched(pending'[w]) => x \in Touched(pending[w])
        BY <1>2, <1>3, <2>1, <3>2
      <4>2. x \in RowIDs
        BY <1>7, <4>1 DEF MInv, MTypeOK
      <4> QED
        BY <1>8, <3>2, <4>1, <4>2 DEF MInv, WritersExclusive
    <3> QED
      BY <3>1, <3>2
  <2> QED
    BY <1>6, <2>1 DEF WritersExclusive
<1>11. NoStaleLock'
  <2>1. ASSUME NEW x \in RowIDs, rowTxns'[x] # 0
        PROVE  x \in rows /\ rowTxns'[x] \in activeTxns /\ x \in Touched(pending'[rowTxns'[x]])
    <3>1. CASE x = id /\ id \in rows
      BY <1>3, <1>8, <3>1
    <3>2. CASE x # id \/ id \notin rows
      <4>1. rowTxns'[x] = rowTxns[x]
        BY <1>8, <3>2
      <4>2. x \in rows /\ rowTxns[x] \in activeTxns /\ x \in Touched(pending[rowTxns[x]])
        BY <2>1, <4>1 DEF MInv, NoStaleLock
      <4>3. Touched(pending[rowTxns[x]]) \subseteq Touched(pending'[rowTxns[x]])
        BY <1>2, <1>3, <4>2
      <4> QED
        BY <4>1, <4>2, <4>3
    <3> QED
      BY <3>1, <3>2
  <2> QED
    BY <1>6, <2>1 DEF NoStaleLock
<1>12. PendingLive'
  <2>1. id \in rows \/ id \notin past
    BY <1>7 DEF MInv, MTypeOK, Record
  <2> QED
    BY <1>2, <1>3, <1>6, <2>1 DEF MInv, PendingLive
<1>13. \A u \in activeTxns' : HasLast(pending'[u])
  BY <1>2, <1>4, <1>6 DEF MInv
<1>14. SliceHolds'
  <2> SUFFICES ASSUME clean
               PROVE  /\ \A u \in activeTxns : \A x \in Touched(pending'[u]) :
                           LastVal(pending'[u], x) = vals'[x]
                      /\ \A x \in rows :
                           (\A u \in activeTxns : x \notin Touched(pending'[u])) => vals'[x] = told[x]
    BY <1>6 DEF SliceHolds
  <2>1. ASSUME NEW u \in activeTxns, NEW x \in Touched(pending'[u])
        PROVE  LastVal(pending'[u], x) = vals'[x]
    <3>1. CASE x = id
      BY <1>2, <1>4, <1>5, <1>6, <2>1, <3>1
    <3>2. CASE x # id
      <4>0. x \in Touched(pending[u])
        BY <1>2, <1>3, <2>1, <3>2
      <4>1. x \in Touched(pending[u]) /\ x \in RowIDs
        BY <1>7, <4>0 DEF MInv, MTypeOK
      <4>2. LastVal(pending'[u], x) = LastVal(pending[u], x)
        BY <1>2, <1>4, <3>2, <4>1
      <4> QED
        BY <1>6, <3>2, <4>1, <4>2 DEF MInv, SliceHolds
    <3> QED
      BY <3>1, <3>2
  <2>2. ASSUME NEW x \in rows, \A u \in activeTxns : x \notin Touched(pending'[u])
        PROVE  vals'[x] = told[x]
    <3>1. x # id /\ x \in RowIDs
      BY <1>3, <1>7, <2>2 DEF MInv, MTypeOK
    <3>2. \A u \in activeTxns : x \notin Touched(pending[u])
      BY <1>2, <1>3, <2>2
    <3> QED
      BY <1>6, <3>1, <3>2 DEF MInv, SliceHolds
  <2> QED
    BY <2>1, <2>2
<1> QED
  BY <1>6, <1>9, <1>10, <1>11, <1>12, <1>13, <1>14 DEF MInv

\* Each action is one of these kinds of step.
LEMMA Kinds ==
  ASSUME MInv, Next
  PROVE  \/ CreateTable \/ DropTable \/ Begin
         \/ \E t \in activeTxns : Commit(t)
         \/ \E t \in activeTxns : Abandon(t)
         \/ \E t \in activeTxns, id \in RowIDs, v \in Value, d \in BOOLEAN : Record(t, id, v, d)
         \/ \E t \in activeTxns, id \in RowIDs, v \in Value : UpdateNotFound(t, id, v)
<1>1. ASSUME NEW t \in activeTxns, NEW v \in Value, Insert(t, v)
      PROVE  nextID + 1 \in RowIDs /\ Record(t, nextID + 1, v, FALSE)
  BY <1>1, MemAssumption DEF Insert, Pend, Record, hist, MInv, MTypeOK, RowIDs
<1>2. ASSUME NEW t \in activeTxns, NEW id \in RowIDs, NEW v \in Value, Update(t, id, v)
      PROVE  Record(t, id, v, FALSE)
  BY <1>2 DEF Update, Claim, Pend, Assign, Record, hist
<1>3. ASSUME NEW t \in activeTxns, NEW id \in RowIDs, Delete(t, id)
      PROVE  vals[id] \in Value /\ Record(t, id, vals[id], TRUE)
  <2>1. vals[id] \in Value /\ vals' = [vals EXCEPT ![id] = vals[id]]
    BY <1>3 DEF Delete, MInv, MTypeOK
  <2> QED
    BY <1>3, <2>1 DEF Delete, Claim, Pend, Record, hist
<1>4. ASSUME NEW t \in activeTxns, NEW id \in RowIDs, NEW v \in Value, UpdateConflict(t, id, v)
      PROVE  Abandon(t)
  BY <1>4 DEF UpdateConflict, Abandon, Assign, MInv, MTypeOK
<1>5. ASSUME NEW t \in activeTxns, Rollback(t)
      PROVE  Abandon(t)
  BY <1>5 DEF Rollback, Abandon
<1> QED
  BY <1>1, <1>2, <1>3, <1>4, <1>5 DEF Next, DeleteConflict

LEMMA NextKeepsMInv ==
  ASSUME MInv, [Next]_mvars
  PROVE  MInv'
<1>1. CASE CreateTable
  <2>1. UNCHANGED <<rows, rowTxns, nextID, nextTx, activeTxns, pending, vals, past, told, clean, orphans>>
        /\ table' = TRUE
    BY <1>1 DEF CreateTable, hist
  <2> QED
    BY <2>1 DEF MInv, MTypeOK, WritersExclusive, NoStaleLock, PendingLive, SliceHolds
<1>2. CASE DropTable
  BY <1>2, DropKeeps
<1>3. CASE Begin
  BY <1>3, BeginKeeps
<1>4. ASSUME NEW t \in activeTxns, Commit(t) \/ Abandon(t)
      PROVE  MInv'
  BY <1>4, CommitKeeps, AbandonKeeps
<1>5. ASSUME NEW t \in activeTxns, NEW id \in RowIDs, NEW v \in Value, NEW d \in BOOLEAN,
             Record(t, id, v, d)
      PROVE  MInv'
  BY <1>5, RecordKeeps
<1>6. ASSUME NEW t \in activeTxns, NEW id \in RowIDs, NEW v \in Value, UpdateNotFound(t, id, v)
      PROVE  MInv'
  <2>1. /\ UNCHANGED <<table, rows, rowTxns, nextID, nextTx, activeTxns, pending, past, told, orphans>>
        /\ clean' = FALSE /\ vals' \in [RowIDs -> Value]
    BY <1>6 DEF UpdateNotFound, Assign, MInv, MTypeOK
  <2> QED
    BY <2>1 DEF MInv, MTypeOK, WritersExclusive, NoStaleLock, PendingLive, SliceHolds
<1>7. CASE UNCHANGED mvars
  BY <1>7 DEF mvars, hist, MInv, MTypeOK, WritersExclusive, NoStaleLock, PendingLive, SliceHolds
<1> QED
  BY <1>1, <1>2, <1>3, <1>4, <1>5, <1>6, <1>7, Kinds

LEMMA MemInvariant == Spec => []MInv
<1>1. Init => MInv
  <2> SUFFICES ASSUME Init PROVE MInv
    OBVIOUS
  <2>1. (CHOOSE v \in Value : TRUE) \in Value
    BY MemAssumption
  <2>2. vals \in [RowIDs -> Value]
    BY <2>1 DEF Init
  <2>3. MTypeOK
    <3>1. pending \in [activeTxns -> Seq(Change)] /\ rowTxns \in [RowIDs -> 0 .. nextTx]
      BY DEF Init
    <3>2. 0 \in 0 .. MaxRowID /\ 0 \in 0 .. MaxTx
      BY MemAssumption
    <3> QED
      BY <2>2, <3>1, <3>2 DEF Init, MTypeOK
  <2>4. WritersExclusive /\ NoStaleLock /\ PendingLive /\ SliceHolds
    BY DEF Init, WritersExclusive, NoStaleLock, PendingLive, SliceHolds
  <2> QED
    BY <2>3, <2>4 DEF Init, MInv
<1> QED
  BY <1>1, NextKeepsMInv, PTL DEF Spec

\* No two running transactions ever hold changes of the same row, and the locks
\* of the committed rows say whose they are.
THEOREM WritersAreExclusive == Spec => []WritersExclusive
<1>1. MInv => WritersExclusive
  BY DEF MInv
<1> QED
  BY <1>1, MemInvariant, PTL

\* No lock outlives its transaction or stands without a pending change.
THEOREM LocksAreReleased == Spec => []NoStaleLock
<1>1. MInv => NoStaleLock
  BY DEF MInv
<1> QED
  BY <1>1, MemInvariant, PTL

\* With nothing refused or rolled back, the rows at rest hold what the commits
\* made of them, although updates write through to the committed rows.
THEOREM RestIsCommitted == Spec => []ContentsAtRest
<1>1. MInv => ContentsAtRest
  BY DEF MInv, SliceHolds, ContentsAtRest
<1> QED
  BY <1>1, MemInvariant, PTL

\* A row that left the committed rows stays away, unless its table was dropped
\* while a change of it was pending.
THEOREM DeletionsAreFinal == Spec => NoResurrection
<1> DEFINE Final == \A id \in rows' : id \in rows \/ id \notin past \/ id \in orphans
<1>1. ASSUME MInv, [Next]_mvars
      PROVE  Final
  <2>1. CASE rows' \subseteq rows
    BY <2>1
  <2>2. ASSUME NEW t \in activeTxns, Commit(t)
        PROVE  Final
    <3>1. rows' \subseteq rows \cup Touched(pending[t])
      BY <2>2 DEF Commit
    <3> QED
      BY <1>1, <2>2, <3>1 DEF MInv, PendingLive
  <2>3. rows' \subseteq rows \/ \E t \in activeTxns : Commit(t)
    <3>1. CASE CreateTable \/ DropTable \/ Begin
      BY <3>1 DEF CreateTable, DropTable, Begin
    <3>2. CASE \E t \in activeTxns : Abandon(t)
      BY <3>2 DEF Abandon
    <3>3. ASSUME NEW t, NEW id, NEW v, NEW d, Record(t, id, v, d) \/ UpdateNotFound(t, id, v)
          PROVE  rows' = rows
      BY <3>3 DEF Record, UpdateNotFound
    <3>4. CASE UNCHANGED mvars
      BY <3>4 DEF mvars
    <3> QED
      BY <1>1, <3>1, <3>2, <3>3, <3>4, Kinds
  <2> QED
    BY <2>1, <2>2, <2>3
<1>2. MInv /\ [Next]_mvars => [Final]_mvars
  BY <1>1
<1> QED
  BY <1>2, MemInvariant, PTL DEF Spec, NoResurrection
=============================================================================
