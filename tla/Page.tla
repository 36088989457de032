-------------------------------- MODULE Page --------------------------------
(***************************************************************************)
(* The slotted page (src/storage/page.go): a slot directory that grows up  *)
(* from the header and row bytes that grow down from the end.  A page is   *)
(* its directory and its free-space pointer; the bytes a slot points at    *)
(* are the value kept with it.  Slots are numbered from 1 here, from 0 in  *)
(* the code.                                                               *)
(***************************************************************************)
EXTENDS Integers, Sequences

CONSTANTS PageSize,   \* bytes of a page (4096)
          Header,     \* bytes of the header (4)
          SlotEntry   \* bytes of a directory entry (4)

ASSUME PageAssumption ==
  /\ PageSize \in Nat /\ Header \in Nat /\ SlotEntry \in Nat \ {0}
  /\ Header <= PageSize

NoValue == "none"

NewPage == [slots |-> <<>>, free |-> PageSize]

slotOffset(p) == Header + Len(p.slots) * SlotEntry

\* Mutant: the new directory entry is not counted.
FitsNoEntry(p, len) == p.free - slotOffset(p) >= len

\* Room for the row and for its directory entry.
Fits(p, len) == p.free - slotOffset(p) >= len + SlotEntry

PageInsert(p, len, val) ==
  [slots |-> Append(p.slots, [off |-> p.free - len, len |-> len, val |-> val]),
   free  |-> p.free - len]

PageGet(p, s) == p.slots[s].val

\* A tombstone: offset and length zero.
PageDelete(p, s) ==
  [p EXCEPT !.slots[s] = [off |-> 0, len |-> 0, val |-> NoValue]]

\* In place only when the new row is no longer than the old one; a tombstone
\* has no room for any row.
UpdateFits(p, s, len) == len <= p.slots[s].len

PageUpdate(p, s, len, val) ==
  [p EXCEPT !.slots[s] = [off |-> p.slots[s].off, len |-> len, val |-> val]]

\* The page is sound: rows lie between the directory and the end of the page,
\* above the free-space pointer, and no two of them share a byte.
PageSound(p) ==
  /\ slotOffset(p) <= p.free /\ p.free <= PageSize
  /\ \A s \in DOMAIN p.slots : p.slots[s].len > 0 =>
       p.free <= p.slots[s].off /\ p.slots[s].off + p.slots[s].len <= PageSize
  /\ \A s, u \in DOMAIN p.slots : s < u /\ p.slots[s].len > 0 /\ p.slots[u].len > 0 =>
       p.slots[u].off + p.slots[u].len <= p.slots[s].off
=============================================================================
