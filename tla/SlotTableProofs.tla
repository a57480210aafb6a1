--------------------------- MODULE SlotTableProofs ---------------------------
(* Facts about the find-or-add scan that the proofs about its three users   *)
(* (map, tracker, cadence table) rest on.                                   *)
EXTENDS SlotTable, TLAPS, WellFoundedInduction

(* The slot the scan returns is a slot, and it is the MAC's own or a free  *)
(* one claimed because no slot is the MAC's.                               *)
LEMMA SlotForChosen ==
    ASSUME NEW tbl, NEW mac, HasSlot(tbl, mac)
    PROVE  /\ SlotFor(tbl, mac) \in Slot
           /\ FindOrAdd(tbl, mac, SlotFor(tbl, mac))
BY DEF HasSlot, SlotFor

(* A MAC that has a slot has a slot the scan finds, and it is that one.    *)
LEMMA TrackedHasSlot ==
    ASSUME NEW tbl, NEW mac, Tracked(tbl, mac)
    PROVE  HasSlot(tbl, mac) /\ Holds(tbl, SlotFor(tbl, mac), mac)
<1>1. HasSlot(tbl, mac)
  BY DEF Tracked, HasSlot, FindOrAdd
<1>2. QED
  BY <1>1, SlotForChosen DEF FindOrAdd

(* A scan over a table with a free slot remembers one: the lowest. *)
LEMMA FreeSlotFound ==
    ASSUME NEW tbl, NEW k \in Slot, ~tbl[k].in_use
    PROVE  \E i \in Slot : FirstFree(tbl, i)
<1> DEFINE F == {i \in Slot : ~tbl[i].in_use}
<1>1. F \subseteq Nat /\ F # {}
  BY MaxClientsAssumption DEF Slot
<1>2. PICK x \in F : \A y \in F : ~(<<y, x>> \in OpToRel(<, Nat))
  BY <1>1, NatLessThanWellFounded, WFMin
<1>3. \A y \in F : ~(y < x)
  BY <1>1, <1>2 DEF OpToRel
<1>4. QED
  BY <1>3 DEF FirstFree

(* The scan comes back without a slot only from a table full of others. *)
LEMMA NoSlotMeansFull ==
    ASSUME NEW tbl, NEW mac, ~HasSlot(tbl, mac), NEW i \in Slot
    PROVE  tbl[i].in_use /\ tbl[i].mac # mac
<1>1. \A j \in Slot : ~Holds(tbl, j, mac)
  BY DEF HasSlot, FindOrAdd
<1>2. ~\E j \in Slot : FirstFree(tbl, j)
  BY <1>1 DEF HasSlot, FindOrAdd, Tracked
<1>3. tbl[i].in_use
  BY <1>2, FreeSlotFound
<1>4. QED
  BY <1>1, <1>3 DEF Holds

(* Writing a live record of the MAC into the slot the scan returned keeps  *)
(* every MAC in one slot, and the record is then the MAC's only one.       *)
LEMMA StoreKeepsUnique ==
    ASSUME NEW tbl, NEW mac, NEW rec, HasSlot(tbl, mac),
           tbl = [i \in Slot |-> tbl[i]], UniqueMacs(tbl),
           rec.in_use, rec.mac = mac,
           NEW new, new = [tbl EXCEPT ![SlotFor(tbl, mac)] = rec]
    PROVE  /\ UniqueMacs(new)
           /\ \A i \in Slot : Holds(new, i, mac) <=> i = SlotFor(tbl, mac)
           /\ \A i \in Slot : i # SlotFor(tbl, mac) => new[i] = tbl[i]
           /\ new[SlotFor(tbl, mac)] = rec
<1> DEFINE k == SlotFor(tbl, mac)
<1>1. k \in Slot /\ FindOrAdd(tbl, mac, k)
  BY SlotForChosen
<1>2. \A i \in Slot : new[i] = IF i = k THEN rec ELSE tbl[i]
  BY <1>1
<1> HIDE DEF k
<1>3. \A i \in Slot : Holds(tbl, i, mac) => i = k
  BY <1>1 DEF FindOrAdd, UniqueMacs, Holds, Tracked
<1>4. \A i \in Slot : Holds(new, i, mac) <=> i = k
  BY <1>2, <1>3 DEF Holds
<1>5. UniqueMacs(new)
  <2> SUFFICES ASSUME NEW i \in Slot, NEW j \in Slot,
                      new[i].in_use, new[j].in_use, new[i].mac = new[j].mac
               PROVE  i = j
    BY DEF UniqueMacs
  <2>1. CASE i = k \/ j = k
    BY <2>1, <1>2, <1>4 DEF Holds
  <2>2. CASE i # k /\ j # k
    BY <2>2, <1>2 DEF UniqueMacs
  <2>3. QED
    BY <2>1, <2>2
<1>6. QED
  BY <1>1, <1>2, <1>4, <1>5 DEF k
=============================================================================
