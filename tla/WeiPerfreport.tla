---------------------------- MODULE WeiPerfreport ----------------------------
(***************************************************************************)
(* The edge-triggered report publisher (wei_perfreport.c). For every       *)
(* scored client the inference tick calls wei_perfreport_publish_tick,     *)
(* which finds or admits the client's cadence slot, runs the emit gate     *)
(* (pillar enable, warm-up, verdict change) and fires at most one event on *)
(* the bus; the verdict becomes the new baseline only after the bus        *)
(* accepted the event. Slots are never released while the process lives.   *)
(*                                                                         *)
(* The JSON document is abstracted to the verdict class it carries; its    *)
(* construction can fail (allocation, size ceiling) and so can the publish *)
(* (no handle, no descriptor, bus error): all of them are PublishFails.    *)
(***************************************************************************)
EXTENDS SlotTable

CONSTANT WarmupIntervals  \* WEI_PERFREPORT_WARMUP_INTERVALS, 3 in the code

ASSUME WarmupAssumption == WarmupIntervals \in Nat

VARIABLES cadence,    \* wei_perfreport_state_tbl
          enabled,    \* weid_rfc_connperf_enabled(), the RFC cache
          reported    \* what a bus subscriber last heard about each client:
                      \* the class, and the parity of the events delivered

perfVars == <<cadence, enabled, reported>>

Class == {"smooth", "degraded"}

FreeCadence ==
    [mac |-> NoMac, in_use |-> FALSE,
     last_emitted_class |-> "smooth", warmup_ticks_seen |-> 0]

CadenceRecord ==
    [mac : Mac \cup {NoMac}, in_use : BOOLEAN,
     last_emitted_class : Class, warmup_ticks_seen : 0 .. WarmupIntervals]

(* Every cadence slot holds what its C declaration allows, and the warm-up *)
(* counter stops at the length of the ramp: it can never wrap, however     *)
(* long a client is reported on.                                           *)
PerfTypeOK ==
    /\ cadence \in [Slot -> CadenceRecord]
    /\ enabled \in BOOLEAN
    /\ reported \in [Mac -> [class : Class, parity : {0, 1}]]

(* The table lives in .bss; the RFC cache is seeded disabled and then      *)
(* loaded from nvram, so it can start either way.                          *)
PerfInit ==
    /\ cadence = [i \in Slot |-> FreeCadence]
    /\ enabled \in BOOLEAN
    /\ reported = [m \in Mac |-> [class |-> "smooth", parity |-> 0]]

(* The slot record the gate works on: the client's own, or a zero-seeded   *)
(* one claimed for it.                                                     *)
StateOf(mac) ==
    LET i == SlotFor(cadence, mac)
    IN  IF Holds(cadence, i, mac) THEN cadence[i]
        ELSE [FreeCadence EXCEPT !.mac = mac, !.in_use = TRUE]

Store(mac, s) == cadence' = [cadence EXCEPT ![SlotFor(cadence, mac)] = s]

Warm(s) == s.warmup_ticks_seen >= WarmupIntervals

(* A gate that publishes on every interval, not only on a verdict change.  *)
GateAdmitsLevel(mac, class) == enabled /\ Warm(StateOf(mac))

(* wei_perfreport_should_emit returns true. *)
GateAdmits(mac, class) ==
    /\ enabled
    /\ Warm(StateOf(mac))
    /\ class # StateOf(mac).last_emitted_class

(* The table is full and the client has no slot: the interval is skipped.  *)
SkipTableFull(mac, class) ==
    /\ ~HasSlot(cadence, mac)
    /\ UNCHANGED <<cadence, reported>>

(* The gate holds the report back. Warm-up advances only while the pillar  *)
(* is enabled; the slot stays admitted either way.                         *)
Suppress(mac, class) ==
    /\ HasSlot(cadence, mac)
    /\ ~GateAdmits(mac, class)
    /\ LET s == StateOf(mac)
       IN  Store(mac, IF enabled /\ ~Warm(s)
                      THEN [s EXCEPT !.warmup_ticks_seen = @ + 1]
                      ELSE s)
    /\ UNCHANGED reported

(* A publisher that commits the new baseline before it knows the outcome.  *)
PublishFailsCommitted(mac, class) ==
    /\ HasSlot(cadence, mac)
    /\ GateAdmits(mac, class)
    /\ Store(mac, [StateOf(mac) EXCEPT !.last_emitted_class = class])
    /\ UNCHANGED reported

(* Bus not ready, JSON not built, or the publish call failed: the baseline *)
(* stays, so the next interval retries.                                    *)
PublishFails(mac, class) ==
    /\ HasSlot(cadence, mac)
    /\ GateAdmits(mac, class)
    /\ Store(mac, StateOf(mac))
    /\ UNCHANGED reported

Publish(mac, class) ==
    /\ HasSlot(cadence, mac)
    /\ GateAdmits(mac, class)
    /\ Store(mac, [StateOf(mac) EXCEPT !.last_emitted_class = class])
    /\ reported' = [reported EXCEPT ![mac] =
                        [class |-> class, parity |-> 1 - @.parity]]

(* wei_perfreport_publish_tick, on the poll thread. *)
PublishTick(mac, class) ==
    /\ \/ SkipTableFull(mac, class)
       \/ Suppress(mac, class)
       \/ PublishFails(mac, class)
       \/ Publish(mac, class)
    /\ UNCHANGED enabled

(* wei_connperf_enable_set reaches the cache on the bus-callback thread.   *)
EnableSet(b) ==
    /\ enabled' = b
    /\ UNCHANGED <<cadence, reported>>

PerfNext ==
    \/ \E mac \in Mac, class \in Class : PublishTick(mac, class)
    \/ \E b \in BOOLEAN : EnableSet(b)

PerfSpec == PerfInit /\ [][PerfNext]_perfVars

-----------------------------------------------------------------------------
(* The events a subscriber receives about one client alternate strictly,   *)
(* degraded first: no verdict is announced twice in a row and none of a    *)
(* pair of opposite edges is lost, whatever publishes failed in between    *)
(* (the class-transition filter and the commit-after-publish of            *)
(* wei_perfreport_publish_tick).                                           *)
ReportsAlternate ==
    \A m \in Mac : reported[m].class = "degraded" <=> reported[m].parity = 1

(* The baseline the gate compares against is what the subscriber really    *)
(* heard: for a client with a cadence slot it equals the last delivered    *)
(* class, and a client without one was never announced. A failed publish   *)
(* must not move it.                                                       *)
BaselineIsWhatWasHeard ==
    \A m \in Mac :
        /\ \A i \in Slot : Holds(cadence, i, m) =>
                cadence[i].last_emitted_class = reported[m].class
        /\ ~Tracked(cadence, m) => reported[m].class = "smooth"
=============================================================================
