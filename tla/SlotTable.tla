------------------------------ MODULE SlotTable ------------------------------
(***************************************************************************)
(* The fixed-capacity, MAC-keyed table that three units of the daemon keep *)
(* by hand: the engine's membership map (wei_infer.c), the excursion       *)
(* tracker (wei_track.c) and the report cadence table (wei_perfreport.c).  *)
(* A table is a function from Slot to records that have at least the       *)
(* fields mac and in_use; the mac of a free record is never compared.      *)
(***************************************************************************)
EXTENDS Integers

CONSTANTS MaxClients,   \* WEI_TRACK_MAX_CLIENTS, 64 in the code
          Mac,          \* station MAC addresses
          NoMac         \* the all-zero mac field of a zeroed record

ASSUME MaxClientsAssumption == MaxClients \in Nat \ {0}

ASSUME NoMacAssumption == NoMac \notin Mac

Slot == 0 .. MaxClients - 1

Holds(tbl, i, mac) == tbl[i].in_use /\ tbl[i].mac = mac

Tracked(tbl, mac) == \E i \in Slot : Holds(tbl, i, mac)

(* The slot the scan remembers as its candidate: the first free one. *)
FirstFree(tbl, i) ==
    /\ ~tbl[i].in_use
    /\ \A j \in Slot : j < i => tbl[j].in_use

(* A scan that stops at the first slot that is free or matches, instead of *)
(* finishing the search for the MAC before it claims a free slot.          *)
FindOrAddEarlyStop(tbl, mac, i) ==
    /\ ~tbl[i].in_use \/ Holds(tbl, i, mac)
    /\ \A j \in Slot : j < i => tbl[j].in_use /\ ~Holds(tbl, j, mac)

(* i is the slot the scan ends with for mac: the live slot of that MAC,    *)
(* else the first free slot. No i satisfies it when the MAC is absent and  *)
(* the table is full (the scan's NULL result).                             *)
FindOrAdd(tbl, mac, i) ==
    \/ Holds(tbl, i, mac)
    \/ ~Tracked(tbl, mac) /\ FirstFree(tbl, i)

HasSlot(tbl, mac) == \E i \in Slot : FindOrAdd(tbl, mac, i)

SlotFor(tbl, mac) == CHOOSE i \in Slot : FindOrAdd(tbl, mac, i)

(* No MAC occupies two slots. *)
UniqueMacs(tbl) ==
    \A i, j \in Slot :
        tbl[i].in_use /\ tbl[j].in_use /\ tbl[i].mac = tbl[j].mac => i = j
=============================================================================
