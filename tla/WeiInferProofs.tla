--------------------------- MODULE WeiInferProofs ---------------------------
(***************************************************************************)
(* What the engine and the publisher it calls keep true for every number   *)
(* of slots, stations, rates, every policy and every length of run.        *)
(***************************************************************************)
EXTENDS WeiInfer, SlotTableProofs, FiniteSetTheorems

-----------------------------------------------------------------------------
(* The publisher, on its own specification: whatever verdicts the scorer   *)
(* hands over and whichever publishes fail. The gate compares with the     *)
(* cadence slot, the subscriber remembers the event: the invariant ties    *)
(* the two tables together, which needs that a client has at most one      *)
(* cadence slot.                                                           *)

(* A client's gate state lives in one cadence slot only. *)
CadenceUnique == UniqueMacs(cadence)

PerfInv ==
    /\ PerfTypeOK
    /\ CadenceUnique
    /\ BaselineIsWhatWasHeard
    /\ ReportsAlternate

(* The record the gate works on is well typed, is the client's, and its    *)
(* baseline is what the subscriber last heard about the client.            *)
LEMMA StateOfFacts ==
    ASSUME PerfInv, NEW mac \in Mac, HasSlot(cadence, mac)
    PROVE  /\ StateOf(mac) \in CadenceRecord
           /\ StateOf(mac).in_use /\ StateOf(mac).mac = mac
           /\ StateOf(mac).last_emitted_class = reported[mac].class
<1> DEFINE k == SlotFor(cadence, mac)
<1>1. k \in Slot /\ FindOrAdd(cadence, mac, k)
  BY SlotForChosen
<1>2. CASE Holds(cadence, k, mac)
  <2>1. StateOf(mac) = cadence[k]
    BY <1>2 DEF StateOf
  <2>2. QED
    BY <1>1, <1>2, <2>1
    DEF PerfInv, PerfTypeOK, BaselineIsWhatWasHeard, Holds
<1>3. CASE ~Holds(cadence, k, mac)
  <2>1. StateOf(mac) = [FreeCadence EXCEPT !.mac = mac, !.in_use = TRUE]
    BY <1>3 DEF StateOf
  <2>2. StateOf(mac) =
          [mac |-> mac, in_use |-> TRUE,
           last_emitted_class |-> "smooth", warmup_ticks_seen |-> 0]
    BY <2>1 DEF FreeCadence
  <2>3. reported[mac].class = "smooth"
    BY <1>1, <1>3 DEF FindOrAdd, PerfInv, BaselineIsWhatWasHeard
  <2>4. QED
    BY <2>2, <2>3, WarmupAssumption DEF CadenceRecord, Class
<1>4. QED
  BY <1>2, <1>3

(* Storing a record of the client into its slot keeps the table part of    *)
(* the invariant; its baseline must be what the subscriber heard then.     *)
LEMMA StoreFacts ==
    ASSUME PerfInv, NEW mac \in Mac, HasSlot(cadence, mac),
           NEW s \in CadenceRecord, s.in_use, s.mac = mac, Store(mac, s),
           reported' \in [Mac -> [class : Class, parity : {0, 1}]],
           \A m \in Mac : m # mac => reported'[m] = reported[m],
           s.last_emitted_class = reported'[mac].class
    PROVE  /\ cadence' \in [Slot -> CadenceRecord]
           /\ CadenceUnique'
           /\ BaselineIsWhatWasHeard'
<1> DEFINE k == SlotFor(cadence, mac)
<1>1. k \in Slot /\ FindOrAdd(cadence, mac, k)
  BY SlotForChosen
<1>2. cadence \in [Slot -> CadenceRecord]
  BY DEF PerfInv, PerfTypeOK
<1>3. cadence' = [cadence EXCEPT ![k] = s]
  BY DEF Store
<1>4. cadence' \in [Slot -> CadenceRecord]
  BY <1>1, <1>2, <1>3
<1>5. cadence = [i \in Slot |-> cadence[i]]
  BY <1>2
<1>6. /\ UniqueMacs(cadence')
      /\ \A i \in Slot : Holds(cadence', i, mac) <=> i = k
      /\ \A i \in Slot : i # k => cadence'[i] = cadence[i]
      /\ cadence'[k] = s
  BY <1>3, <1>5, StoreKeepsUnique DEF PerfInv, CadenceUnique
<1>7. BaselineIsWhatWasHeard'
  <2> SUFFICES ASSUME NEW m \in Mac
      PROVE  /\ \A i \in Slot : Holds(cadence', i, m) =>
                    cadence'[i].last_emitted_class = reported'[m].class
             /\ ~Tracked(cadence', m) => reported'[m].class = "smooth"
    BY DEF BaselineIsWhatWasHeard, Holds, Tracked
  <2>1. CASE m = mac
    BY <2>1, <1>1, <1>6 DEF Tracked
  <2>2. CASE m # mac
    <3>1. \A i \in Slot : Holds(cadence', i, m) <=> Holds(cadence, i, m)
      BY <2>2, <1>1, <1>6 DEF Holds, FindOrAdd, FirstFree
    <3>2. \A i \in Slot : Holds(cadence', i, m) => cadence'[i] = cadence[i]
      BY <2>2, <1>6 DEF Holds
    <3>3. Tracked(cadence', m) <=> Tracked(cadence, m)
      BY <3>1 DEF Tracked
    <3>4. QED
      BY <2>2, <3>1, <3>2, <3>3 DEF PerfInv, BaselineIsWhatWasHeard
  <2>3. QED
    BY <2>1, <2>2
<1>8. QED
  BY <1>4, <1>6, <1>7 DEF CadenceUnique

(* One scored interval of one client, whatever its outcome. *)
LEMMA PublishTickKeepsInv ==
    ASSUME PerfInv, NEW mac \in Mac, NEW class \in Class,
           PublishTick(mac, class)
    PROVE  PerfInv'
<1> USE DEF PerfInv
<1>1. enabled' = enabled
  BY DEF PublishTick
<1>2. CASE SkipTableFull(mac, class)
  BY <1>1, <1>2 DEF SkipTableFull, PerfTypeOK, CadenceUnique, UniqueMacs,
     BaselineIsWhatWasHeard, ReportsAlternate, Holds, Tracked
<1>3. ASSUME HasSlot(cadence, mac), NEW s \in CadenceRecord, Store(mac, s),
             s.in_use, s.mac = mac,
             s.last_emitted_class = reported[mac].class,
             UNCHANGED reported
      PROVE  PerfInv'
  <2>1. reported \in [Mac -> [class : Class, parity : {0, 1}]]
    BY DEF PerfTypeOK
  <2>2. /\ cadence' \in [Slot -> CadenceRecord]
        /\ CadenceUnique'
        /\ BaselineIsWhatWasHeard'
    BY <1>3, <2>1, StoreFacts
  <2>3. QED
    BY <1>1, <1>3, <2>1, <2>2 DEF PerfTypeOK, ReportsAlternate
<1>4. CASE Suppress(mac, class)
  <2> DEFINE s == StateOf(mac)
             t == IF enabled /\ ~Warm(s)
                  THEN [s EXCEPT !.warmup_ticks_seen = @ + 1] ELSE s
  <2>1. /\ s \in CadenceRecord /\ s.in_use /\ s.mac = mac
        /\ s.last_emitted_class = reported[mac].class
    BY <1>4, StateOfFacts DEF Suppress
  <2>2. /\ t \in CadenceRecord /\ t.in_use /\ t.mac = mac
        /\ t.last_emitted_class = reported[mac].class
    BY <2>1, WarmupAssumption DEF Warm, CadenceRecord
  <2>3. HasSlot(cadence, mac) /\ Store(mac, t) /\ UNCHANGED reported
    BY <1>4 DEF Suppress
  <2>4. QED
    BY <1>3, <2>2, <2>3
<1>5. CASE PublishFails(mac, class)
  BY <1>3, <1>5, StateOfFacts DEF PublishFails
<1>6. CASE Publish(mac, class)
  <2> DEFINE s == StateOf(mac)
             t == [s EXCEPT !.last_emitted_class = class]
             rep == [reported EXCEPT ![mac] =
                        [class |-> class, parity |-> 1 - @.parity]]
  <2>1. HasSlot(cadence, mac) /\ Store(mac, t) /\ reported' = rep
    BY <1>6 DEF Publish
  <2>2. /\ s \in CadenceRecord /\ s.in_use /\ s.mac = mac
        /\ s.last_emitted_class = reported[mac].class
    BY <2>1, StateOfFacts
  <2>3. t \in CadenceRecord /\ t.in_use /\ t.mac = mac
    BY <2>2 DEF CadenceRecord
  <2>4. reported \in [Mac -> [class : Class, parity : {0, 1}]]
    BY DEF PerfTypeOK
  <2>5. /\ rep \in [Mac -> [class : Class, parity : {0, 1}]]
        /\ rep[mac] = [class |-> class, parity |-> 1 - reported[mac].parity]
        /\ \A m \in Mac : m # mac => rep[m] = reported[m]
    BY <2>4
  <2>6. t.last_emitted_class = rep[mac].class
    BY <2>2, <2>5 DEF CadenceRecord
  <2>7. /\ cadence' \in [Slot -> CadenceRecord]
        /\ CadenceUnique'
        /\ BaselineIsWhatWasHeard'
    BY <2>1, <2>3, <2>5, <2>6, StoreFacts
  <2>8. class # reported[mac].class
    BY <1>6, <2>2 DEF Publish, GateAdmits
  <2>9. ReportsAlternate'
    BY <2>1, <2>4, <2>5, <2>8 DEF ReportsAlternate, Class
  <2>10. QED
    BY <1>1, <2>1, <2>5, <2>7, <2>9 DEF PerfTypeOK
<1>7. QED
  BY <1>2, <1>4, <1>5, <1>6 DEF PublishTick

(* A flip of the enable touches neither table. *)
LEMMA EnableSetKeepsInv ==
    ASSUME PerfInv, NEW b \in BOOLEAN, EnableSet(b)
    PROVE  PerfInv'
BY DEF EnableSet, PerfInv, PerfTypeOK, CadenceUnique, UniqueMacs,
   BaselineIsWhatWasHeard, ReportsAlternate, Holds, Tracked

LEMMA PerfInitInv == PerfInit => PerfInv
BY WarmupAssumption DEF PerfInit, PerfInv, PerfTypeOK, CadenceUnique,
   UniqueMacs, BaselineIsWhatWasHeard, ReportsAlternate, Holds, Tracked,
   FreeCadence, CadenceRecord, Class

LEMMA PerfNextInv == PerfInv /\ [PerfNext]_perfVars => PerfInv'
<1> SUFFICES ASSUME PerfInv, [PerfNext]_perfVars PROVE PerfInv'
  OBVIOUS
<1>1. CASE PerfNext
  BY <1>1, PublishTickKeepsInv, EnableSetKeepsInv DEF PerfNext
<1>2. CASE UNCHANGED perfVars
  BY <1>2 DEF perfVars, PerfInv, PerfTypeOK, CadenceUnique, UniqueMacs,
     BaselineIsWhatWasHeard, ReportsAlternate, Holds, Tracked
<1>3. QED
  BY <1>1, <1>2

(* The cadence table, the enable and the subscriber's view stay well       *)
(* typed; in particular warm-up never counts past its limit.               *)
THEOREM PerfTypeCorrect == PerfSpec => []PerfTypeOK
<1>1. PerfInv => PerfTypeOK
  BY DEF PerfInv
<1>2. QED
  BY PerfInitInv, PerfNextInv, <1>1, PTL DEF PerfSpec

(* The gate's baseline is what the subscriber heard, through any mix of    *)
(* failed publishes, warm-up and enable flips.                             *)
THEOREM BaselineTruthful == PerfSpec => []BaselineIsWhatWasHeard
<1>1. PerfInv => BaselineIsWhatWasHeard
  BY DEF PerfInv
<1>2. QED
  BY PerfInitInv, PerfNextInv, <1>1, PTL DEF PerfSpec

(* The events delivered about one client alternate, degraded first. *)
THEOREM EventsAlternate == PerfSpec => []ReportsAlternate
<1>1. PerfInv => ReportsAlternate
  BY DEF PerfInv
<1>2. QED
  BY PerfInitInv, PerfNextInv, <1>1, PTL DEF PerfSpec

-----------------------------------------------------------------------------
(* The engine: arithmetic first. *)
LEMMA ModRange ==
    ASSUME NEW a \in Int, NEW b \in Nat \ {0}
    PROVE  a % b \in 0 .. b - 1
OBVIOUS

LEMMA SlotFinite == IsFiniteSet(Slot)
BY FS_Interval, MaxClientsAssumption DEF Slot

LEMMA ScaleNat == MaxScore \in Nat /\ PerMille \in Nat
BY Z3 DEF MaxScore, PerMille

(* Damping a score by at most PerMille and rounding stays on the scale. *)
LEMMA DampRange ==
    ASSUME NEW raw \in 0 .. MaxScore, NEW e \in 0 .. PerMille
    PROVE  (raw * e + PerMille \div 2) \div PerMille \in 0 .. MaxScore
<1>1. raw \in Nat /\ raw <= MaxScore /\ e \in Nat /\ e <= PerMille
  BY ScaleNat, Z3
<1>2. raw * e \in Nat /\ raw * e <= MaxScore * e
  BY <1>1, ScaleNat, Z3
<1>3. MaxScore * e <= 100000
  BY <1>1, Z3 DEF MaxScore, PerMille
<1> DEFINE y == raw * e + PerMille \div 2
<1>4. PerMille \div 2 = 500
  BY Z3 DEF PerMille
<1>5. y \in Nat /\ y <= 100500
  BY <1>1, <1>2, <1>3, <1>4, ScaleNat, Z3
<1> HIDE DEF y
<1>6. y \div 1000 \in Nat /\ y \div 1000 <= 100
  BY <1>5, Z3
<1>7. y \div PerMille \in 0 .. MaxScore
  BY <1>6, Z3 DEF PerMille, MaxScore
<1>8. QED
  BY <1>7 DEF y

-----------------------------------------------------------------------------
(* The operators keep the types of what they work on. *)
LEMMA PhyPushType ==
    ASSUME NEW st \in ClientState, NEW v \in PhyRates \cup {0}
    PROVE  PhyPush(st, v) \in ClientState
<1> DEFINE w == [st.phy_window EXCEPT ![st.phy_head] = v]
           h == (st.phy_head + 1) % PhyWindow
           f == IF st.phy_fill < PhyWindow THEN st.phy_fill + 1 ELSE st.phy_fill
<1>1. w \in [0 .. PhyWindow - 1 -> PhyRates \cup {0}]
  BY DEF ClientState
<1>2. h \in 0 .. PhyWindow - 1
  <2>1. st.phy_head + 1 \in Int /\ PhyWindow \in Nat \ {0}
    BY WindowAssumption DEF ClientState
  <2>2. QED
    BY <2>1, ModRange
<1>3. f \in 0 .. PhyWindow
  BY WindowAssumption DEF ClientState
<1>4. PhyPush(st, v) =
        [st EXCEPT !.phy_window = w, !.phy_head = h, !.phy_fill = f]
  BY DEF PhyPush, ClientState
<1> HIDE DEF w, h, f
<1>5. QED
  BY <1>1, <1>2, <1>3, <1>4 DEF ClientState

LEMMA RampType ==
    ASSUME NEW st \in ClientState
    PROVE  Ramp(st) \in 0 .. RampTicks
BY WindowAssumption DEF Ramp, ClientState

LEMMA ScoreClientType ==
    ASSUME NEW st \in ClientState, NEW rec \in Sample
    PROVE  ScoreClient(st, rec) \in ClientState
<1>1. PhyPush(st, rec.phy_rate) \in ClientState
  BY PhyPushType DEF Sample
<1>2. (IF Ramp(st) > 0 THEN Ramp(st) - 1 ELSE 0) \in 0 .. RampTicks
  BY RampType, WindowAssumption
<1>3. QED
  BY <1>1, <1>2 DEF ScoreClient, ClientState

LEMMA ScoreOfType ==
    ASSUME NEW st \in ClientState, NEW raw \in RawScores
    PROVE  ScoreOf(st, raw) \in 0 .. MaxScore
<1>1. raw \in 0 .. MaxScore
  BY ScoreAssumption
<1>2. CASE Ramp(st) > 0
  <2> DEFINE k == RampTicks - Ramp(st) + 1
  <2>1. k \in 1 .. RampTicks
    BY <1>2, RampType, WindowAssumption
  <2>2. ScoreOf(st, raw) = (raw * Ease[k] + PerMille \div 2) \div PerMille
    BY <1>2 DEF ScoreOf
  <2> HIDE DEF k
  <2>3. Ease[k] \in 0 .. PerMille
    BY <2>1, ScoreAssumption
  <2>4. QED
    BY <1>1, <2>2, <2>3, DampRange
<1>3. CASE ~(Ramp(st) > 0)
  BY <1>1, <1>3 DEF ScoreOf
<1>4. QED
  BY <1>2, <1>3

LEMMA FlagLatencyRiskType ==
    ASSUME NEW st \in ClientState, NEW score \in 0 .. MaxScore
    PROVE  FlagLatencyRisk(st, score) \in ClientState
<1>1. ASSUME NEW run \in 0 .. CrossMax, NEW alarm \in BOOLEAN
      PROVE  [st EXCEPT !.threshold_cross = run, !.alarm = alarm] \in ClientState
  BY Zenon DEF ClientState
<1>2. LowRun(st) \in 0 .. CrossMax /\ 0 \in 0 .. CrossMax
  BY SustainAssumption DEF LowRun, ClientState
<1>3. st.alarm \in BOOLEAN
  BY DEF ClientState
<1>4. (IF LowRun(st) >= LatencySustain THEN TRUE ELSE st.alarm) \in BOOLEAN
  BY <1>3, Zenon
<1>5. QED
  BY <1>1, <1>2, <1>4, Zenon DEF FlagLatencyRisk

LEMMA LedgerStartType ==
    ASSUME NEW log \in Ledger, NEW t \in Nat
    PROVE  LedgerStart(log, t) \in Ledger
<1>1. /\ log.ring \in [0 .. EpisodeCap - 1 -> [start_ms : Nat, stop_ms : Nat]]
      /\ log.head \in 0 .. EpisodeCap - 1 /\ log.fill \in 0 .. EpisodeCap
      /\ log.episodes \in 0 .. EpisodesMax
  BY DEF Ledger
<1> DEFINE next == (log.head + 1) % EpisodeCap
           head == IF log.fill > 0 THEN next ELSE 0
           fill == IF log.fill < EpisodeCap THEN log.fill + 1 ELSE log.fill
           episodes == IF log.episodes < EpisodesMax
                       THEN log.episodes + 1 ELSE log.episodes
           ring == [log.ring EXCEPT ![head] = [start_ms |-> t, stop_ms |-> 0]]
<1>2. LedgerStart(log, t) =
        [ring |-> ring, head |-> head, fill |-> fill, episodes |-> episodes]
  BY Zenon DEF LedgerStart
<1>3. next \in 0 .. EpisodeCap - 1
  <2>1. log.head + 1 \in Int /\ EpisodeCap \in Nat \ {0}
    BY <1>1, LedgerAssumption
  <2>2. QED
    BY <2>1, ModRange
<1> HIDE DEF next
<1>4. head \in 0 .. EpisodeCap - 1
  BY <1>3, LedgerAssumption
<1>5. fill \in 0 .. EpisodeCap
  <2>1. log.fill \in 0 .. EpisodeCap
    BY <1>1
  <2>2. QED
    BY <2>1, LedgerAssumption
<1>6. episodes \in 0 .. EpisodesMax
  <2>1. log.episodes \in 0 .. EpisodesMax
    BY <1>1
  <2>2. QED
    BY <2>1, LedgerAssumption
<1> HIDE DEF head, fill, episodes
<1>7. ring \in [0 .. EpisodeCap - 1 -> [start_ms : Nat, stop_ms : Nat]]
  BY <1>1, <1>4
<1> HIDE DEF ring
<1>8. QED
  BY <1>2, <1>4, <1>5, <1>6, <1>7, SMT DEF Ledger

LEMMA LedgerUpdateType ==
    ASSUME NEW log \in Ledger, NEW verdict \in Class, NEW t \in Nat
    PROVE  LedgerUpdate(log, verdict, t) \in Ledger
<1>1. LedgerStop(log, t) \in Ledger
  <2> DEFINE ring == [log.ring EXCEPT ![log.head] =
                 [start_ms |-> log.ring[log.head].start_ms, stop_ms |-> t]]
  <2>1. LedgerStop(log, t) = [log EXCEPT !.ring = ring]
    BY Zenon DEF LedgerStop
  <2>2. ring \in [0 .. EpisodeCap - 1 -> [start_ms : Nat, stop_ms : Nat]]
    BY DEF Ledger
  <2> HIDE DEF ring
  <2>3. QED
    BY <2>1, <2>2, Zenon DEF Ledger
<1>2. QED
  BY <1>1, LedgerStartType, Zenon DEF LedgerUpdate

LEMMA TrackTickType ==
    ASSUME NEW e \in LiveEntry, NEW metric, NEW t \in Nat, NEW band
    PROVE  /\ TrackTick(e, metric, t, band, TputFloorMs) \in LiveEntry
           /\ TrackTick(e, metric, t, band, TputFloorMs).mac = e.mac
<1>1. CASE metric < band /\ e.start_ts = 0
  <2>1. e.count + 1 \in Nat
    BY SMT DEF LiveEntry
  <2>2. TrackTick(e, metric, t, band, TputFloorMs) =
            [e EXCEPT !.start_ts = t, !.count = e.count + 1]
    BY <1>1, Zenon DEF TrackTick
  <2>3. QED
    BY <2>1, <2>2, Zenon DEF LiveEntry
<1>2. CASE ~(metric < band) /\ e.start_ts # 0
  <2> DEFINE a == IF t - e.start_ts >= TputFloorMs
                  THEN e.accumulated + (t - e.start_ts) ELSE e.accumulated
  <2>1. a \in Nat
    BY PolicyAssumption, SMT DEF LiveEntry
  <2>2. TrackTick(e, metric, t, band, TputFloorMs) =
            [e EXCEPT !.start_ts = 0, !.accumulated = a]
    BY <1>2, Zenon DEF TrackTick
  <2> HIDE DEF a
  <2>3. 0 \in Nat
    OBVIOUS
  <2>4. QED
    BY <2>1, <2>2, <2>3, Zenon DEF LiveEntry
<1>3. CASE (metric < band <=> e.start_ts # 0)
  BY <1>3, Zenon DEF TrackTick
<1>4. QED
  BY <1>1, <1>2, <1>3

LEMMA TrackCollectType ==
    ASSUME NEW e \in LiveEntry
    PROVE  /\ TrackCollect(e) \in LiveEntry
           /\ TrackCollect(e).mac = e.mac
           /\ TrackCollect(e).start_ts = e.start_ts
<1>1. 0 \in Nat
  OBVIOUS
<1>2. QED
  BY <1>1, Zenon DEF TrackCollect, LiveEntry

(* wei_track_get touches only the MAC's slot; a slot it claims is clean. *)
LEMMA TrackGetFacts ==
    ASSUME NEW tbl \in [Slot -> Entry], NEW mac \in Mac, NEW t \in Nat,
           HasSlot(tbl, mac)
    PROVE  LET k == SlotFor(tbl, mac)
               new == TrackGet(tbl, mac, t)
           IN  /\ new \in [Slot -> Entry]
               /\ new[k] \in LiveEntry
               /\ new[k].mac = mac
               /\ \A i \in Slot : i # k => new[i] = tbl[i]
<1> DEFINE k == SlotFor(tbl, mac)
           e == IF Holds(tbl, k, mac) THEN tbl[k]
                ELSE [FreeEntry EXCEPT !.mac = mac, !.in_use = TRUE]
           f == [e EXCEPT !.last_seen = t]
<1>1. k \in Slot /\ FindOrAdd(tbl, mac, k)
  BY SlotForChosen
<1>2. e \in LiveEntry /\ e.mac = mac
  <2>1. CASE Holds(tbl, k, mac)
    BY <2>1, <1>1 DEF Holds, Entry, FreeEntry
  <2>2. CASE ~Holds(tbl, k, mac)
    BY <2>2 DEF FreeEntry, LiveEntry
  <2>3. QED
    BY <2>1, <2>2
<1>3. TrackGet(tbl, mac, t) = [tbl EXCEPT ![k] = f]
  BY Zenon DEF TrackGet
<1> HIDE DEF e, k
<1>4. f \in LiveEntry /\ f.mac = mac
  BY <1>2, Zenon DEF LiveEntry
<1> HIDE DEF f
<1>5. f \in Entry
  BY <1>4 DEF Entry
<1>6. QED
  BY <1>1, <1>3, <1>4, <1>5 DEF k

LEMMA TrackInstabilityType ==
    ASSUME TypeOK, NEW mac \in Mac, NEW st
    PROVE  TrackInstability(mac, st) \in [Slot -> Entry]
<1>0. tracker \in [Slot -> Entry] /\ now_ms \in Nat
  BY DEF TypeOK
<1>1. CASE HasSlot(tracker, mac)
  <2> DEFINE k == SlotFor(tracker, mac)
             new == TrackGet(tracker, mac, now_ms)
             f == TrackCollect(TickedEntry(mac, st))
  <2>1. new \in [Slot -> Entry] /\ new[k] \in LiveEntry
    BY <1>0, <1>1, TrackGetFacts
  <2>2. TickedEntry(mac, st) \in LiveEntry
    BY <1>0, <2>1, TrackTickType DEF TickedEntry
  <2>3. f \in Entry
    BY <2>2, TrackCollectType DEF Entry
  <2>4. TrackInstability(mac, st) = [new EXCEPT ![k] = f]
    BY <1>1, Zenon DEF TrackInstability
  <2> HIDE DEF k, new, f
  <2>5. QED
    BY <2>1, <2>3, <2>4
<1>2. CASE ~HasSlot(tracker, mac)
  BY <1>0, <1>2 DEF TrackInstability
<1>3. QED
  BY <1>1, <1>2

LEMMA FreshTypes == FreshState \in ClientState /\ EmptyLedger \in Ledger
<1>1. FreshState \in ClientState
  BY WindowAssumption, SustainAssumption DEF FreshState, ClientState
<1>2. EmptyLedger \in Ledger
  BY LedgerAssumption DEF EmptyLedger, Ledger
<1>3. QED
  BY <1>1, <1>2

(* A live slot names a station. *)
LEMMA LiveSlotFacts ==
    ASSUME TypeOK, NEW i \in Slot, Live(i)
    PROVE  slots[i] \in LiveSlot /\ slots[i].mac \in Mac
<1>1. slots[i] \in LiveSlot \/ slots[i] = FreeSlot
  BY DEF TypeOK
<1>2. slots[i] # FreeSlot
  BY DEF Live, FreeSlot
<1>3. QED
  BY <1>1, <1>2, Zenon DEF LiveSlot

(* What one client's pass computes, typed. *)
LEMMA PassType ==
    ASSUME TypeOK, NEW i \in Slot, NEW raw \in RawScores, Live(i)
    PROVE  /\ slots[i].mac \in Mac
           /\ ScoredState(i) \in ClientState
           /\ ScoreOf(state[i], raw) \in 0 .. MaxScore
           /\ FlaggedState(i, raw) \in ClientState
           /\ Verdict(i, raw) \in Class
<1>1. slots[i].mac \in Mac
  BY LiveSlotFacts
<1>2. state[i] \in ClientState /\ snapshot[i] \in Sample
  BY DEF TypeOK
<1>3. ScoredState(i) \in ClientState
  BY <1>2, ScoreClientType DEF ScoredState
<1>4. ScoreOf(state[i], raw) \in 0 .. MaxScore
  BY <1>2, ScoreOfType
<1>5. FlaggedState(i, raw) \in ClientState
  BY <1>3, <1>4, FlagLatencyRiskType DEF FlaggedState
<1>6. Verdict(i, raw) \in Class
  BY DEF Verdict, Class
<1>7. QED
  BY <1>1, <1>3, <1>4, <1>5, <1>6

(* A step of the engine is a step of the publisher or leaves it alone. *)
LEMMA PerfStep == TypeOK /\ [Next]_vars => [PerfNext]_perfVars
<1> SUFFICES ASSUME TypeOK, [Next]_vars PROVE [PerfNext]_perfVars
  OBVIOUS
<1>1. ASSUME NEW i \in Slot, NEW raw \in RawScores, SweepScore(i, raw)
      PROVE  PerfNext
  <2>1. slots[i].mac \in Mac /\ Verdict(i, raw) \in Class
    BY <1>1, PassType DEF SweepScore, Live
  <2>2. PublishTick(slots[i].mac, Verdict(i, raw))
    BY <1>1 DEF SweepScore
  <2>3. QED
    BY <2>1, <2>2, Zenon DEF PerfNext
<1>2. ASSUME NEW b \in BOOLEAN, SetEnable(b) PROVE PerfNext
  BY <1>2 DEF SetEnable, PerfNext
<1>3. CASE \/ Elapse \/ TickBegin \/ SweepEnd
           \/ \E mac \in Mac, rec \in [active : BOOLEAN, phy_rate : PhyRates] :
                 StageRecord(mac, rec) \/ StageDrop(mac, rec)
           \/ \E i \in Slot : SweepSkip(i) \/ SweepGated(i)
           \/ UNCHANGED vars
  BY <1>3, Zenon DEF Elapse, TickBegin, SweepEnd, StageRecord, StageDrop,
     SweepSkip, SweepGated, vars
<1>4. QED
  BY <1>1, <1>2, <1>3, Zenon DEF Next

(* The engine keeps its types; the publisher's come from its own           *)
(* invariant.                                                              *)
LEMMA TypeStep ==
    ASSUME TypeOK, PerfTypeOK', [Next]_vars
    PROVE  TypeOK'
<1>1. CASE Elapse
  BY <1>1 DEF Elapse, TypeOK, loopVars, mapVars, clientVars
<1>2. ASSUME NEW mac \in Mac,
             NEW rec \in [active : BOOLEAN, phy_rate : PhyRates],
             StageRecord(mac, rec)
      PROVE  TypeOK'
  <2> DEFINE k == SlotFor(slots, mac)
             new == [mac |-> mac, in_use |-> TRUE, last_seen |-> now]
  <2>1. k \in Slot
    BY <1>2, SlotForChosen DEF StageRecord
  <2>2. new \in LiveSlot
    BY DEF TypeOK, LiveSlot
  <2>3. rec \in Sample
    BY DEF Sample
  <2>4. /\ slots' = [slots EXCEPT ![k] = new]
        /\ snapshot' = [snapshot EXCEPT ![k] = rec]
        /\ count' = IF ~slots[k].in_use /\ count < MaxClients
                    THEN count + 1 ELSE count
    BY <1>2 DEF StageRecord
  <2> HIDE DEF k, new
  <2>5. slots' \in [Slot -> LiveSlot \cup {FreeSlot}]
    BY <2>1, <2>2, <2>4 DEF TypeOK
  <2>6. snapshot' \in [Slot -> Sample]
    BY <2>1, <2>3, <2>4 DEF TypeOK
  <2>7. count' \in 0 .. MaxClients
    BY <2>4, MaxClientsAssumption DEF TypeOK
  <2>8. QED
    BY <1>2, <2>5, <2>6, <2>7
    DEF StageRecord, TypeOK, clockVars, loopVars, clientVars
<1>3. CASE TickBegin
  BY <1>3, ClockAssumption, MaxClientsAssumption
  DEF TickBegin, TypeOK, mapVars, clientVars
<1>4. ASSUME NEW i \in Slot, SweepSkip(i) \/ SweepGated(i) PROVE TypeOK'
  <2>1. cursor' \in 0 .. MaxClients
    BY <1>4, MaxClientsAssumption DEF SweepSkip, SweepGated, Sweeping, Slot
  <2>2. QED
    BY <1>4, <2>1 DEF SweepSkip, SweepGated, TypeOK, clockVars, mapVars, clientVars
<1>5. ASSUME NEW i \in Slot, NEW raw \in RawScores, SweepScore(i, raw)
      PROVE  TypeOK'
  <2>1. Live(i)
    BY <1>5 DEF SweepScore, Live
  <2>2. /\ slots[i].mac \in Mac
        /\ ScoreOf(state[i], raw) \in 0 .. MaxScore
        /\ FlaggedState(i, raw) \in ClientState
        /\ Verdict(i, raw) \in Class
    BY <2>1, PassType
  <2>3. cursor' \in 0 .. MaxClients
    BY <1>5, MaxClientsAssumption DEF SweepScore, Sweeping, Slot
  <2>4. state' \in [Slot -> ClientState]
    BY <1>5, <2>2 DEF SweepScore, TypeOK
  <2>5. tracker' \in [Slot -> Entry]
    BY <1>5, <2>2, TrackInstabilityType DEF SweepScore
  <2>6. result' \in [Slot -> Result]
    <3> DEFINE r == [score |-> ScoreOf(state[i], raw), verdict |-> Verdict(i, raw),
                     video_degrade |-> ScoreOf(state[i], raw) < VideoBand]
    <3>1. (ScoreOf(state[i], raw) < VideoBand) \in BOOLEAN
      BY <2>2, PolicyAssumption, ScaleNat, SMT
    <3>2. r \in Result
      BY <2>2, <3>1, Zenon DEF Result
    <3>3. result' = [result EXCEPT ![i] = r]
      BY <1>5 DEF SweepScore
    <3> HIDE DEF r
    <3>4. QED
      BY <3>2, <3>3 DEF TypeOK
  <2>7. ledger' \in [Slot -> Ledger]
    <3>1. now_ms \in Nat /\ ledger \in [Slot -> Ledger]
      BY DEF TypeOK
    <3>2. LedgerUpdate(ledger[i], Verdict(i, raw), now_ms) \in Ledger
      BY <3>1, <2>2, LedgerUpdateType
    <3>3. QED
      BY <1>5, <3>1, <3>2 DEF SweepScore
  <2>8. QED
    BY <1>5, <2>3, <2>4, <2>5, <2>6, <2>7
    DEF SweepScore, TypeOK, clockVars, mapVars
<1>6. CASE SweepEnd
  <2>1. FreshState \in ClientState
    BY FreshTypes
  <2>2. EmptyLedger \in Ledger
    BY FreshTypes
  <2>3. tracker' \in [Slot -> Entry]
    BY <1>6 DEF SweepEnd, TrackReap, TypeOK, Entry
  <2>4. count' \in 0 .. MaxClients
    <3>1. Cardinality(Departed) \in Nat
      <4>1. Departed \subseteq Slot
        BY DEF Departed
      <4>2. QED
        BY <4>1, SlotFinite, FS_Subset, FS_CardinalityType
    <3>2. count' = IF count > Cardinality(Departed)
                   THEN count - Cardinality(Departed) ELSE 0
      BY <1>6 DEF SweepEnd, MapReap
    <3>3. QED
      BY <3>1, <3>2, MaxClientsAssumption DEF TypeOK
  <2>5. /\ slots' \in [Slot -> LiveSlot \cup {FreeSlot}]
        /\ state' \in [Slot -> ClientState]
        /\ ledger' \in [Slot -> Ledger]
    BY <1>6, <2>1, <2>2 DEF SweepEnd, MapReap, TypeOK
  <2>6. QED
    BY <1>6, <2>3, <2>4, <2>5
    DEF SweepEnd, MapReap, TypeOK, clockVars
<1>7. CASE (\E b \in BOOLEAN : SetEnable(b)) \/ UNCHANGED vars
           \/ \E mac \in Mac, rec \in [active : BOOLEAN, phy_rate : PhyRates] :
                 StageDrop(mac, rec)
  BY <1>7 DEF SetEnable, StageDrop, vars, TypeOK, clockVars, loopVars,
     mapVars, clientVars
<1>8. QED
  BY <1>1, <1>2, <1>3, <1>4, <1>5, <1>6, <1>7, Zenon DEF Next

-----------------------------------------------------------------------------
(* The engine's inductive invariant. MembershipSound, the uniqueness of    *)
(* tracker entries and NoInheritedHistory carry the rest: a record admitted *)
(* into a reclaimed slot, or an excursion entry found again, must belong   *)
(* to that station and no other.                                           *)
TrackerUnique == UniqueMacs(tracker)

(* Where the clock stands relative to the loop's deadline, and how old the *)
(* members were when the last sweep let them live.                         *)
LoopTiming ==
    /\ next_tick - TickMs <= now /\ now <= next_tick + MaxLate
    /\ pc = "sweep" => next_tick - TickMs <= now_ms
    /\ pc = "poll" =>
          \A i \in Slot : Live(i) =>
              next_tick - TickMs - slots[i].last_seen <= AbsenceMs

(* Steps that leave the tables alone, and the three kinds that do not. *)
Quiet == UNCHANGED <<slots, count, snapshot, state, result, ledger, tracker>>

LEMMA StepKinds ==
    ASSUME [Next]_vars
    PROVE  \/ Quiet
           \/ \E mac \in Mac, rec \in [active : BOOLEAN, phy_rate : PhyRates] :
                 StageRecord(mac, rec)
           \/ \E i \in Slot, raw \in RawScores : SweepScore(i, raw)
           \/ SweepEnd
<1>1. CASE \/ Elapse \/ TickBegin \/ UNCHANGED vars
           \/ \E i \in Slot : SweepSkip(i) \/ SweepGated(i)
           \/ \E b \in BOOLEAN : SetEnable(b)
           \/ \E mac \in Mac, rec \in [active : BOOLEAN, phy_rate : PhyRates] :
                 StageDrop(mac, rec)
  BY <1>1, Zenon DEF Quiet, Elapse, TickBegin, vars, SweepSkip, SweepGated,
     SetEnable, StageDrop, mapVars, clientVars
<1>2. QED
  BY <1>1, Zenon DEF Next

LEMMA SlotCard == Cardinality(Slot) = MaxClients
BY FS_Interval, MaxClientsAssumption DEF Slot

LEMMA MembershipStep ==
    ASSUME TypeOK, MembershipSound, [Next]_vars
    PROVE  MembershipSound'
<1> DEFINE L == {i \in Slot : Live(i)}
<1>0. /\ L \subseteq Slot /\ IsFiniteSet(L) /\ Cardinality(L) \in Nat
      /\ Cardinality(L) <= MaxClients
      /\ Cardinality(L) = MaxClients => L = Slot
      /\ count = Cardinality(L)
  <2>1. L \subseteq Slot
    OBVIOUS
  <2>2. QED
    BY <2>1, SlotFinite, SlotCard, FS_Subset, FS_CardinalityType DEF MembershipSound
<1>1. CASE Quiet
  BY <1>1 DEF Quiet, MembershipSound, UniqueMacs, Live
<1>2. ASSUME NEW mac \in Mac,
             NEW rec \in [active : BOOLEAN, phy_rate : PhyRates],
             StageRecord(mac, rec)
      PROVE  MembershipSound'
  <2> DEFINE k == SlotFor(slots, mac)
             new == [mac |-> mac, in_use |-> TRUE, last_seen |-> now]
  <2>1. k \in Slot /\ HasSlot(slots, mac)
    BY <1>2, SlotForChosen DEF StageRecord
  <2>2. /\ slots' = [slots EXCEPT ![k] = new]
        /\ count' = IF ~slots[k].in_use /\ count < MaxClients
                    THEN count + 1 ELSE count
    BY <1>2 DEF StageRecord
  <2>3. new.in_use /\ new.mac = mac
    OBVIOUS
  <2>4. slots = [i \in Slot |-> slots[i]]
    BY DEF TypeOK
  <2> HIDE DEF new
  <2>5. /\ UniqueMacs(slots')
        /\ \A i \in Slot : i # k => slots'[i] = slots[i]
        /\ slots'[k] = new
    BY <2>1, <2>2, <2>3, <2>4, StoreKeepsUnique DEF MembershipSound
  <2> HIDE DEF k
  <2>6. {i \in Slot : Live(i)}' = L \cup {k}
    BY <2>1, <2>3, <2>5 DEF Live
  <2>7. slots[k].in_use <=> k \in L
    BY <2>1 DEF Live
  <2>8. Cardinality(L \cup {k}) = IF k \in L THEN Cardinality(L)
                                 ELSE Cardinality(L) + 1
    BY <1>0, FS_AddElement
  <2>9. k \notin L => count < MaxClients
    BY <1>0, <2>1, MaxClientsAssumption
  <2>10. count' = Cardinality(L \cup {k})
    BY <1>0, <2>2, <2>7, <2>8, <2>9
  <2>11. QED
    BY <2>5, <2>6, <2>10 DEF MembershipSound
<1>3. ASSUME NEW i \in Slot, NEW raw \in RawScores, SweepScore(i, raw)
      PROVE  MembershipSound'
  BY <1>3 DEF SweepScore, mapVars, MembershipSound, UniqueMacs, Live
<1>4. CASE SweepEnd
  <2>1. \A i \in Slot : slots'[i] = IF i \in Departed THEN FreeSlot ELSE slots[i]
    BY <1>4 DEF SweepEnd, MapReap
  <2>2. UniqueMacs(slots')
    BY <2>1 DEF MembershipSound, UniqueMacs, FreeSlot
  <2>3. Departed \subseteq L
    BY DEF Departed, Live
  <2>4. {i \in Slot : Live(i)}' = L \ Departed
    BY <2>1, <2>3 DEF Live, FreeSlot
  <2>5. /\ Cardinality(Departed) \in Nat
        /\ Cardinality(Departed) <= Cardinality(L)
        /\ Cardinality(L \ Departed) = Cardinality(L) - Cardinality(Departed)
    <3>1. L \cap Departed = Departed
      BY <2>3
    <3>2. Cardinality(Departed) \in Nat /\ Cardinality(Departed) <= Cardinality(L)
      BY <1>0, <2>3, FS_Subset, FS_CardinalityType
    <3>3. Cardinality(L \ Departed) = Cardinality(L) - Cardinality(L \cap Departed)
      BY <1>0, FS_Difference
    <3>4. QED
      BY <3>1, <3>2, <3>3
  <2>6. count' = IF count > Cardinality(Departed)
                 THEN count - Cardinality(Departed) ELSE 0
    BY <1>4 DEF SweepEnd, MapReap
  <2>7. count' = Cardinality(L \ Departed)
    BY <1>0, <2>5, <2>6
  <2>8. QED
    BY <2>2, <2>4, <2>7 DEF MembershipSound
<1>5. QED
  BY <1>1, <1>2, <1>3, <1>4, StepKinds, Zenon

-----------------------------------------------------------------------------
(* Field by field, what one pass leaves in the client state. *)
LEMMA ScoredFields ==
    ASSUME NEW st \in ClientState, NEW rec \in Sample
    PROVE  /\ ScoreClient(st, rec).phy_fill =
                  IF st.phy_fill < PhyWindow THEN st.phy_fill + 1 ELSE st.phy_fill
           /\ ScoreClient(st, rec).reconnect_ramp =
                  IF Ramp(st) > 0 THEN Ramp(st) - 1 ELSE 0
           /\ ScoreClient(st, rec).threshold_cross = st.threshold_cross
           /\ ScoreClient(st, rec).alarm = st.alarm
BY Zenon DEF ScoreClient, PhyPush, ClientState

LEMMA FlaggedFields ==
    ASSUME NEW st \in ClientState, NEW score
    PROVE  LET f == FlagLatencyRisk(st, score) IN
           /\ f.phy_fill = st.phy_fill
           /\ f.phy_window = st.phy_window
           /\ f.reconnect_ramp = st.reconnect_ramp
           /\ f.threshold_cross = IF score < LatencyBand THEN LowRun(st) ELSE 0
           /\ f.alarm = IF score < LatencyBand
                        THEN IF LowRun(st) >= LatencySustain THEN TRUE ELSE st.alarm
                        ELSE FALSE
<1>1. CASE score < LatencyBand
  BY <1>1, Zenon DEF FlagLatencyRisk, ClientState
<1>2. CASE ~(score < LatencyBand)
  BY <1>2, Zenon DEF FlagLatencyRisk, ClientState
<1>3. QED
  BY <1>1, <1>2

(* A pass leaves at least one sample in the window. *)
LEMMA PassFills ==
    ASSUME TypeOK, NEW i \in Slot, NEW raw \in RawScores, Live(i)
    PROVE  /\ FlaggedState(i, raw).phy_fill > 0
           /\ FlaggedState(i, raw).phy_fill =
                  IF state[i].phy_fill < PhyWindow THEN state[i].phy_fill + 1
                  ELSE state[i].phy_fill
           /\ FlaggedState(i, raw).phy_fill = ScoredState(i).phy_fill
           /\ FlaggedState(i, raw).phy_window = ScoredState(i).phy_window
<1>1. state[i] \in ClientState /\ snapshot[i] \in Sample
  BY DEF TypeOK
<1>2. ScoredState(i) \in ClientState
  BY PassType
<1>3. FlaggedState(i, raw).phy_fill = ScoredState(i).phy_fill
  BY <1>2, FlaggedFields DEF FlaggedState
<1>4. ScoredState(i).phy_fill =
          IF state[i].phy_fill < PhyWindow THEN state[i].phy_fill + 1
          ELSE state[i].phy_fill
  BY <1>1, ScoredFields DEF ScoredState
<1>5. state[i].phy_fill \in 0 .. PhyWindow
  BY <1>1 DEF ClientState
<1>6. FlaggedState(i, raw).phy_fill > 0
  BY <1>3, <1>4, <1>5, WindowAssumption
<1>7. FlaggedState(i, raw).phy_window = ScoredState(i).phy_window
  BY <1>2, FlaggedFields DEF FlaggedState
<1>8. QED
  BY <1>3, <1>4, <1>6, <1>7

(* An admission changes neither client state nor result nor ledger, and    *)
(* the slot it claims has not been scored for its new station.             *)
LEMMA StageScored ==
    ASSUME TypeOK, NoInheritedHistory, NEW mac \in Mac,
           NEW rec \in [active : BOOLEAN, phy_rate : PhyRates],
           StageRecord(mac, rec), NEW i \in Slot
    PROVE  /\ Scored(i)' <=> Scored(i)
           /\ Scored(i) => slots'[i].mac = slots[i].mac
           /\ UNCHANGED clientVars
<1> DEFINE k == SlotFor(slots, mac)
           new == [mac |-> mac, in_use |-> TRUE, last_seen |-> now]
<1>1. k \in Slot /\ FindOrAdd(slots, mac, k)
  BY SlotForChosen DEF StageRecord
<1>2. slots' = [slots EXCEPT ![k] = new]
  BY DEF StageRecord
<1>3. UNCHANGED <<state, result, ledger>>
  BY DEF StageRecord, clientVars
<1>4. new.in_use /\ new.mac = mac
  OBVIOUS
<1>5. slots \in [Slot -> LiveSlot \cup {FreeSlot}]
  BY DEF TypeOK
<1> HIDE DEF k, new
<1>6. CASE i # k
  <2>1. slots'[i] = slots[i]
    BY <1>2, <1>5, <1>6
  <2>2. QED
    BY <2>1, <1>3 DEF Scored, Live, clientVars
<1>7. CASE i = k
  <2>1. slots'[i] = new
    BY <1>1, <1>2, <1>5, <1>7
  <2>2. CASE slots[k].in_use
    <3>1. slots[k].mac = mac
      BY <1>1, <2>2 DEF FindOrAdd, Holds, FirstFree
    <3>2. QED
      BY <1>3, <1>4, <1>7, <2>1, <2>2, <3>1 DEF Scored, Live, clientVars
  <2>3. CASE ~slots[k].in_use
    <3>1. state[i].phy_fill = 0
      BY <1>7, <2>3 DEF NoInheritedHistory, Scored, Live, FreshState
    <3>2. QED
      BY <1>3, <1>7, <2>3, <3>1 DEF Scored, Live, clientVars
  <2>4. QED
    BY <2>2, <2>3
<1>8. QED
  BY <1>6, <1>7

(* What a pass and a reap do to the per-slot arrays. *)
LEMMA PassArrays ==
    ASSUME TypeOK, NEW i \in Slot, NEW raw \in RawScores, SweepScore(i, raw)
    PROVE  /\ Live(i) /\ slots' = slots
           /\ state'[i] = FlaggedState(i, raw)
           /\ result'[i].score = ScoreOf(state[i], raw)
           /\ result'[i].verdict = Verdict(i, raw)
           /\ ledger'[i] = LedgerUpdate(ledger[i], Verdict(i, raw), now_ms)
           /\ \A j \in Slot : j # i => /\ state'[j] = state[j]
                                      /\ result'[j] = result[j]
                                      /\ ledger'[j] = ledger[j]
           /\ now_ms \in Nat \ {0}
<1>1. /\ state \in [Slot -> ClientState] /\ result \in [Slot -> Result]
      /\ ledger \in [Slot -> Ledger]
  BY DEF TypeOK
<1>2. Live(i) /\ slots' = slots
  BY DEF SweepScore, Live, mapVars
<1>3. pc = "sweep"
  BY DEF SweepScore, Sweeping
<1>4. now_ms \in Nat \ {0}
  BY <1>3 DEF TypeOK
<1>5. /\ state'[i] = FlaggedState(i, raw)
      /\ \A j \in Slot : j # i => state'[j] = state[j]
  BY <1>1 DEF SweepScore
<1>6. /\ ledger'[i] = LedgerUpdate(ledger[i], Verdict(i, raw), now_ms)
      /\ \A j \in Slot : j # i => ledger'[j] = ledger[j]
  BY <1>1 DEF SweepScore
<1>7. /\ result'[i].score = ScoreOf(state[i], raw)
      /\ result'[i].verdict = Verdict(i, raw)
      /\ \A j \in Slot : j # i => result'[j] = result[j]
  BY <1>1, Zenon DEF SweepScore
<1>8. QED
  BY <1>2, <1>4, <1>5, <1>6, <1>7

LEMMA ReapArrays ==
    ASSUME SweepEnd, NEW i \in Slot
    PROVE  \/ /\ i \in Departed /\ slots'[i] = FreeSlot
              /\ state'[i] = FreshState /\ ledger'[i] = EmptyLedger
              /\ result'[i] = result[i]
           \/ /\ i \notin Departed /\ slots'[i] = slots[i]
              /\ state'[i] = state[i] /\ ledger'[i] = ledger[i]
              /\ result'[i] = result[i]
BY Zenon DEF SweepEnd, MapReap

LEMMA HistoryStep ==
    ASSUME TypeOK, NoInheritedHistory, [Next]_vars
    PROVE  NoInheritedHistory'
<1>1. CASE Quiet
  BY <1>1 DEF Quiet, NoInheritedHistory, Scored, Live
<1>2. ASSUME NEW mac \in Mac,
             NEW rec \in [active : BOOLEAN, phy_rate : PhyRates],
             StageRecord(mac, rec)
      PROVE  NoInheritedHistory'
  BY <1>2, StageScored DEF NoInheritedHistory, clientVars
<1>3. ASSUME NEW i \in Slot, NEW raw \in RawScores, SweepScore(i, raw)
      PROVE  NoInheritedHistory'
  <2>1. Scored(i)'
    BY <1>3, PassArrays, PassFills DEF Scored, Live
  <2>2. \A j \in Slot : j # i => /\ Scored(j)' <=> Scored(j)
                                 /\ state'[j] = state[j] /\ ledger'[j] = ledger[j]
    BY <1>3, PassArrays DEF Scored, Live
  <2>3. QED
    BY <2>1, <2>2 DEF NoInheritedHistory
<1>4. CASE SweepEnd
  <2>1. ASSUME NEW i \in Slot
        PROVE  ~Scored(i)' => state'[i] = FreshState /\ ledger'[i] = EmptyLedger
    BY <1>4, ReapArrays DEF NoInheritedHistory, Scored, Live
  <2>2. QED
    BY <2>1 DEF NoInheritedHistory
<1>5. QED
  BY <1>1, <1>2, <1>3, <1>4, StepKinds, Zenon

(* After an update the newest episode is open exactly for a degraded       *)
(* verdict, because no sweep runs at time zero.                            *)
LEMMA LedgerUpdateOpen ==
    ASSUME NEW log \in Ledger, NEW v \in Class, NEW t \in Nat \ {0}
    PROVE  LedgerOpen(LedgerUpdate(log, v, t)) <=> v = "degraded"
<1>1. /\ log.ring \in [0 .. EpisodeCap - 1 -> [start_ms : Nat, stop_ms : Nat]]
      /\ log.head \in 0 .. EpisodeCap - 1 /\ log.fill \in 0 .. EpisodeCap
  BY DEF Ledger
<1>2. LedgerOpen(LedgerStart(log, t))
  <2> DEFINE new == LedgerStart(log, t)
             head == IF log.fill > 0 THEN (log.head + 1) % EpisodeCap ELSE 0
  <2>1. /\ new.head = head
        /\ new.ring = [log.ring EXCEPT ![head] = [start_ms |-> t, stop_ms |-> 0]]
        /\ new.fill = IF log.fill < EpisodeCap THEN log.fill + 1 ELSE log.fill
    BY Zenon DEF LedgerStart
  <2>2. new \in Ledger
    BY LedgerStartType
  <2>3. new.head \in 0 .. EpisodeCap - 1
    BY <2>2 DEF Ledger
  <2>4. new.fill > 0
    <3> HIDE DEF new, head
    <3>1. log.fill \in Nat /\ EpisodeCap \in Nat /\ EpisodeCap > 0
      BY <1>1, LedgerAssumption
    <3>2. QED
      BY <2>1, <3>1
  <2> HIDE DEF new, head
  <2>5. head \in 0 .. EpisodeCap - 1
    BY <2>1, <2>3
  <2>6. new.ring[head] = [start_ms |-> t, stop_ms |-> 0]
    BY <1>1, <2>1, <2>5
  <2>7. new.ring[new.head].stop_ms = 0
    <3>1. new.ring[new.head] = [start_ms |-> t, stop_ms |-> 0]
      BY <2>1, <2>6, Zenon
    <3>2. QED
      BY <3>1
  <2>8. QED
    BY <2>4, <2>7 DEF LedgerOpen, new
<1>3. ~LedgerOpen(LedgerStop(log, t))
  <2>1. /\ LedgerStop(log, t).head = log.head
        /\ LedgerStop(log, t).ring = [log.ring EXCEPT ![log.head] =
               [start_ms |-> log.ring[log.head].start_ms, stop_ms |-> t]]
    BY Zenon DEF LedgerStop, Ledger
  <2>2. LedgerStop(log, t).ring[log.head] =
            [start_ms |-> log.ring[log.head].start_ms, stop_ms |-> t]
    BY <1>1, <2>1
  <2>3. QED
    BY <2>1, <2>2 DEF LedgerOpen
<1>4. QED
  BY <1>2, <1>3 DEF LedgerUpdate, Class

LEMMA LedgerMirrorStep ==
    ASSUME TypeOK, NoInheritedHistory, LedgerMirrorsVerdict, [Next]_vars
    PROVE  LedgerMirrorsVerdict'
<1>1. CASE Quiet
  BY <1>1 DEF Quiet, LedgerMirrorsVerdict, Scored, Live, LedgerOpen
<1>2. ASSUME NEW mac \in Mac,
             NEW rec \in [active : BOOLEAN, phy_rate : PhyRates],
             StageRecord(mac, rec)
      PROVE  LedgerMirrorsVerdict'
  <2>1. UNCHANGED <<result, ledger>>
    BY <1>2 DEF StageRecord, clientVars
  <2>2. \A i \in Slot : Scored(i)' <=> Scored(i)
    BY <1>2, StageScored
  <2>3. QED
    BY <2>1, <2>2 DEF LedgerMirrorsVerdict
<1>3. ASSUME NEW i \in Slot, NEW raw \in RawScores, SweepScore(i, raw)
      PROVE  LedgerMirrorsVerdict'
  <2>1. /\ ledger[i] \in Ledger /\ now_ms \in Nat \ {0}
        /\ Verdict(i, raw) \in Class
    BY <1>3, PassArrays DEF TypeOK, Verdict, Class
  <2>2. LedgerOpen(LedgerUpdate(ledger[i], Verdict(i, raw), now_ms))
            <=> Verdict(i, raw) = "degraded"
    BY <2>1, LedgerUpdateOpen
  <2>3. /\ ledger'[i] = LedgerUpdate(ledger[i], Verdict(i, raw), now_ms)
        /\ result'[i].verdict = Verdict(i, raw)
    BY <1>3, PassArrays
  <2>4. LedgerOpen(ledger'[i]) <=> result'[i].verdict = "degraded"
    BY <2>2, <2>3, Zenon
  <2>5. \A j \in Slot : j # i => /\ Scored(j)' <=> Scored(j)
                                 /\ result'[j] = result[j]
                                 /\ ledger'[j] = ledger[j]
    BY <1>3, PassArrays DEF Scored, Live
  <2>6. QED
    BY <2>4, <2>5, Zenon DEF LedgerMirrorsVerdict
<1>4. CASE SweepEnd
  <2>1. ASSUME NEW i \in Slot, Scored(i)'
        PROVE  Scored(i) /\ result'[i] = result[i] /\ ledger'[i] = ledger[i]
    BY <1>4, <2>1, ReapArrays DEF Scored, Live, FreeSlot
  <2>2. QED
    BY <2>1, Zenon DEF LedgerMirrorsVerdict
<1>5. QED
  BY <1>1, <1>2, <1>3, <1>4, StepKinds, Zenon

-----------------------------------------------------------------------------
(* The ledger's ring as a history. A history stays one only because no     *)
(* sweep's time is before a stamp it finds, which LedgerPast adds.         *)
LogSound(log) ==
    /\ log.fill <= log.episodes
    /\ \A k \in LiveEpisodes(log) :
          /\ log.ring[k].stop_ms = 0 => k = log.head
          /\ log.ring[k].stop_ms # 0 =>
                log.ring[k].start_ms <= log.ring[k].stop_ms
          /\ \A j \in LiveEpisodes(log) :
                Age(log, j) < Age(log, k) =>
                    log.ring[k].stop_ms <= log.ring[j].start_ms

LogPast(log, t) ==
    \A k \in LiveEpisodes(log) :
        log.ring[k].start_ms <= t /\ log.ring[k].stop_ms <= t

(* The stamps are those of this sweep and earlier ones. *)
LedgerPast == \A i \in Slot : LogPast(ledger[i], now_ms)

LEMMA ModSmall ==
    ASSUME NEW b \in Nat \ {0}, NEW a \in 0 .. b - 1
    PROVE  a % b = a
OBVIOUS

LEMMA ModBelow ==
    ASSUME NEW b \in Nat \ {0}, NEW a \in Int, a < 0, -b <= a
    PROVE  a % b = a + b
OBVIOUS

LEMMA ModSelf == ASSUME NEW b \in Nat \ {0} PROVE b % b = 0
OBVIOUS

(* Ages without the remainder. *)
LEMMA AgeIs ==
    ASSUME NEW h \in 0 .. EpisodeCap - 1, NEW k \in 0 .. EpisodeCap - 1
    PROVE  (h - k) % EpisodeCap = IF k <= h THEN h - k ELSE h - k + EpisodeCap
<1>0. EpisodeCap \in Nat \ {0}
  BY LedgerAssumption
<1>1. CASE k <= h
  <2>1. h - k \in 0 .. EpisodeCap - 1
    BY <1>0, <1>1
  <2>2. QED
    BY <1>0, <1>1, <2>1, ModSmall
<1>2. CASE ~(k <= h)
  <2>1. h - k \in Int /\ h - k < 0 /\ -EpisodeCap <= h - k
    BY <1>0, <1>2
  <2>2. QED
    BY <1>0, <1>2, <2>1, ModBelow
<1>3. QED
  BY <1>1, <1>2

(* Advancing the head ages every other place by one. *)
LEMMA AgeNext ==
    ASSUME NEW h \in 0 .. EpisodeCap - 1, NEW k \in 0 .. EpisodeCap - 1,
           NEW n, n = (h + 1) % EpisodeCap, k # n
    PROVE  (n - k) % EpisodeCap = ((h - k) % EpisodeCap) + 1
<1>0. EpisodeCap \in Nat \ {0}
  BY LedgerAssumption
<1>1. n = IF h = EpisodeCap - 1 THEN 0 ELSE h + 1
  <2>1. CASE h = EpisodeCap - 1
    <3>1. h + 1 = EpisodeCap
      BY <1>0, <2>1
    <3>2. QED
      BY <1>0, <2>1, <3>1, ModSelf
  <2>2. CASE h # EpisodeCap - 1
    <3>1. h + 1 \in 0 .. EpisodeCap - 1
      BY <1>0, <2>2
    <3>2. QED
      BY <1>0, <2>2, <3>1, ModSmall
  <2>3. QED
    BY <2>1, <2>2
<1>2. n \in 0 .. EpisodeCap - 1
  BY <1>0, <1>1
<1>3. /\ (n - k) % EpisodeCap = IF k <= n THEN n - k ELSE n - k + EpisodeCap
      /\ (h - k) % EpisodeCap = IF k <= h THEN h - k ELSE h - k + EpisodeCap
  BY <1>2, AgeIs
<1>4. QED
  BY <1>0, <1>1, <1>3

(* The head is the only place of age zero. *)
LEMMA AgeHead ==
    ASSUME NEW log \in Ledger
    PROVE  /\ log.head \in 0 .. EpisodeCap - 1 /\ Age(log, log.head) = 0
           /\ log.fill > 0 => log.head \in LiveEpisodes(log)
           /\ \A k \in 0 .. EpisodeCap - 1 :
                 /\ Age(log, k) \in Nat
                 /\ Age(log, k) = 0 => k = log.head
<1>0. EpisodeCap \in Nat \ {0}
  BY LedgerAssumption
<1>1. log.head \in 0 .. EpisodeCap - 1 /\ log.fill \in 0 .. EpisodeCap
  BY Zenon DEF Ledger
<1>2. \A k \in 0 .. EpisodeCap - 1 :
          Age(log, k) = IF k <= log.head THEN log.head - k
                        ELSE log.head - k + EpisodeCap
  BY <1>1, AgeIs DEF Age
<1>3. Age(log, log.head) = 0
  BY <1>0, <1>1, <1>2
<1>4. \A k \in 0 .. EpisodeCap - 1 :
          Age(log, k) \in Nat /\ (Age(log, k) = 0 => k = log.head)
  BY <1>0, <1>1, <1>2
<1>5. log.fill > 0 => log.head \in LiveEpisodes(log)
  BY <1>0, <1>1, <1>3 DEF LiveEpisodes
<1>6. QED
  BY <1>1, <1>3, <1>4, <1>5

LEMMA LedgerStampsNat ==
    ASSUME NEW log \in Ledger, NEW k \in 0 .. EpisodeCap - 1
    PROVE  log.ring[k].start_ms \in Nat /\ log.ring[k].stop_ms \in Nat
<1>1. log.ring \in [0 .. EpisodeCap - 1 -> [start_ms : Nat, stop_ms : Nat]]
  BY Zenon DEF Ledger
<1>2. log.ring[k] \in [start_ms : Nat, stop_ms : Nat]
  BY <1>1
<1>3. QED
  BY <1>2

LEMMA StartSound ==
    ASSUME NEW log \in Ledger, NEW t \in Nat, LogSound(log), LogPast(log, t),
           ~LedgerOpen(log)
    PROVE  LogSound(LedgerStart(log, t)) /\ LogPast(LedgerStart(log, t), t)
<1>0. EpisodeCap \in Nat \ {0} /\ EpisodesMax \in Nat /\ EpisodeCap <= EpisodesMax
  BY LedgerAssumption
<1>1. /\ log.ring \in [0 .. EpisodeCap - 1 -> [start_ms : Nat, stop_ms : Nat]]
      /\ log.head \in 0 .. EpisodeCap - 1 /\ log.fill \in 0 .. EpisodeCap
      /\ log.episodes \in 0 .. EpisodesMax
  BY Zenon DEF Ledger
<1> DEFINE new == LedgerStart(log, t)
           h == IF log.fill > 0 THEN (log.head + 1) % EpisodeCap ELSE 0
           x == [start_ms |-> t, stop_ms |-> 0]
<1>2. /\ new.head = h /\ new.ring = [log.ring EXCEPT ![h] = x]
      /\ new.fill = IF log.fill < EpisodeCap THEN log.fill + 1 ELSE log.fill
      /\ new.episodes = IF log.episodes < EpisodesMax
                        THEN log.episodes + 1 ELSE log.episodes
  BY Zenon DEF LedgerStart
<1>3. new \in Ledger
  BY LedgerStartType
<1>4. x.start_ms = t /\ x.stop_ms = 0
  BY Zenon
<1>5. log.fill > 0 => h = (log.head + 1) % EpisodeCap
  BY Zenon
<1> HIDE DEF new, h, x
<1>6. /\ h \in 0 .. EpisodeCap - 1 /\ Age(new, h) = 0
      /\ \A k \in 0 .. EpisodeCap - 1 :
            Age(new, k) \in Nat /\ (Age(new, k) = 0 => k = h)
  BY <1>2, <1>3, AgeHead
<1>7. \A k \in 0 .. EpisodeCap - 1 : new.ring[k] = IF k = h THEN x ELSE log.ring[k]
  BY <1>1, <1>2, <1>6
<1>8. ASSUME NEW k \in LiveEpisodes(new), k # h
      PROVE  k \in LiveEpisodes(log) /\ Age(new, k) = Age(log, k) + 1
  <2>1. k \in 0 .. EpisodeCap - 1 /\ Age(new, k) < new.fill
    BY <1>8 DEF LiveEpisodes
  <2>2. Age(new, k) \in Nat /\ Age(new, k) # 0
    BY <1>6, <1>8, <2>1
  <2>3. log.fill > 0
    BY <1>1, <1>2, <2>1, <2>2
  <2>4. Age(new, k) = Age(log, k) + 1
    BY <1>1, <1>2, <1>5, <1>8, <2>1, <2>3, AgeNext DEF Age
  <2>5. Age(log, k) \in Nat
    BY <2>1, AgeHead
  <2>6. Age(log, k) < log.fill
    BY <1>1, <1>2, <2>1, <2>4, <2>5
  <2>7. QED
    BY <2>1, <2>4, <2>6 DEF LiveEpisodes
<1>9. ASSUME NEW k \in LiveEpisodes(log)
      PROVE  /\ k \in 0 .. EpisodeCap - 1 /\ log.ring[k].stop_ms # 0
             /\ log.ring[k].start_ms \in Nat /\ log.ring[k].stop_ms \in Nat
             /\ log.ring[k].start_ms <= t /\ log.ring[k].stop_ms <= t
             /\ Age(log, k) \in Nat
  <2>1. k \in 0 .. EpisodeCap - 1 /\ Age(log, k) < log.fill /\ Age(log, k) \in Nat
    BY <1>9, AgeHead DEF LiveEpisodes
  <2>2. log.fill > 0
    BY <1>1, <2>1
  <2>3. log.ring[k].stop_ms # 0
    BY <1>9, <2>2 DEF LogSound, LedgerOpen
  <2>4. QED
    BY <1>9, <2>1, <2>3, LedgerStampsNat DEF LogPast
<1>10. new.fill <= new.episodes
  BY <1>0, <1>1, <1>2 DEF LogSound
<1>11. LogPast(new, t)
  <2> SUFFICES ASSUME NEW k \in LiveEpisodes(new)
               PROVE  new.ring[k].start_ms <= t /\ new.ring[k].stop_ms <= t
    BY DEF LogPast
  <2>0. k \in 0 .. EpisodeCap - 1
    BY DEF LiveEpisodes
  <2>1. CASE k = h
    BY <1>4, <1>7, <2>0, <2>1
  <2>2. CASE k # h
    <3>1. new.ring[k] = log.ring[k] /\ k \in LiveEpisodes(log)
      BY <1>7, <1>8, <2>0, <2>2
    <3>2. QED
      BY <1>9, <3>1
  <2>3. QED
    BY <2>1, <2>2
<1>12. ASSUME NEW k \in LiveEpisodes(new)
       PROVE  /\ new.ring[k].stop_ms = 0 => k = new.head
              /\ new.ring[k].stop_ms # 0 =>
                    new.ring[k].start_ms <= new.ring[k].stop_ms
              /\ \A j \in LiveEpisodes(new) : Age(new, j) < Age(new, k) =>
                    new.ring[k].stop_ms <= new.ring[j].start_ms
  <2>0. k \in 0 .. EpisodeCap - 1
    BY <1>12 DEF LiveEpisodes
  <2>1. CASE k = h
    <3>1. new.ring[k].stop_ms = 0 /\ k = new.head /\ Age(new, k) = 0
      BY <1>2, <1>4, <1>6, <1>7, <2>0, <2>1
    <3>2. \A j \in LiveEpisodes(new) : ~(Age(new, j) < Age(new, k))
      BY <1>6, <3>1 DEF LiveEpisodes
    <3>3. QED
      BY <3>1, <3>2
  <2>2. CASE k # h
    <3>1. /\ new.ring[k] = log.ring[k] /\ k \in LiveEpisodes(log)
          /\ Age(new, k) = Age(log, k) + 1
      BY <1>7, <1>8, <1>12, <2>0, <2>2
    <3>2. log.ring[k].stop_ms # 0 /\ log.ring[k].start_ms <= log.ring[k].stop_ms
      BY <1>9, <3>1 DEF LogSound
    <3>3. ASSUME NEW j \in LiveEpisodes(new), Age(new, j) < Age(new, k)
          PROVE  log.ring[k].stop_ms <= new.ring[j].start_ms
      <4>0. j \in 0 .. EpisodeCap - 1
        BY <3>3 DEF LiveEpisodes
      <4>1. CASE j = h
        BY <1>4, <1>7, <1>9, <3>1, <4>0, <4>1
      <4>2. CASE j # h
        <5>1. /\ new.ring[j] = log.ring[j] /\ j \in LiveEpisodes(log)
              /\ Age(new, j) = Age(log, j) + 1
          BY <1>7, <1>8, <3>3, <4>0, <4>2
        <5>2. Age(log, j) < Age(log, k)
          BY <1>9, <3>1, <3>3, <5>1
        <5>3. QED
          BY <3>1, <5>1, <5>2 DEF LogSound
      <4>3. QED
        BY <4>1, <4>2
    <3>4. QED
      BY <3>1, <3>2, <3>3
  <2>3. QED
    BY <2>1, <2>2
<1>13. QED
  BY <1>10, <1>11, <1>12 DEF LogSound, new

LEMMA StopSound ==
    ASSUME NEW log \in Ledger, NEW t \in Nat \ {0}, LogSound(log),
           LogPast(log, t), LedgerOpen(log)
    PROVE  LogSound(LedgerStop(log, t)) /\ LogPast(LedgerStop(log, t), t)
<1>1. log.ring \in [0 .. EpisodeCap - 1 -> [start_ms : Nat, stop_ms : Nat]]
  BY Zenon DEF Ledger
<1> DEFINE new == LedgerStop(log, t)
           h == log.head
           x == [start_ms |-> log.ring[h].start_ms, stop_ms |-> t]
<1>2. /\ new.head = h /\ new.ring = [log.ring EXCEPT ![h] = x]
      /\ new.fill = log.fill /\ new.episodes = log.episodes
  BY Zenon DEF LedgerStop, Ledger
<1>3. x.start_ms = log.ring[h].start_ms /\ x.stop_ms = t
  BY Zenon
<1>4. h \in 0 .. EpisodeCap - 1 /\ Age(log, h) = 0 /\ h \in LiveEpisodes(log)
  BY AgeHead DEF LedgerOpen
<1> HIDE DEF new, x
<1>5. \A k \in 0 .. EpisodeCap - 1 : new.ring[k] = IF k = h THEN x ELSE log.ring[k]
  BY <1>1, <1>2, <1>4
<1>6. \A k : Age(new, k) = Age(log, k)
  BY <1>2 DEF Age
<1>7. LiveEpisodes(new) = LiveEpisodes(log)
  BY <1>2, <1>6 DEF LiveEpisodes
<1>8. \A k \in LiveEpisodes(log) :
          /\ k \in 0 .. EpisodeCap - 1 /\ Age(log, k) \in Nat
          /\ log.ring[k].start_ms \in Nat /\ log.ring[k].stop_ms \in Nat
          /\ log.ring[k].start_ms <= t /\ log.ring[k].stop_ms <= t
  BY AgeHead, LedgerStampsNat DEF LiveEpisodes, LogPast
<1>9. \A k \in LiveEpisodes(log) : new.ring[k].start_ms = log.ring[k].start_ms
  BY <1>3, <1>5, <1>8
<1>10. LogPast(new, t)
  <2> SUFFICES ASSUME NEW k \in LiveEpisodes(log)
               PROVE  new.ring[k].start_ms <= t /\ new.ring[k].stop_ms <= t
    BY <1>7 DEF LogPast
  <2>1. new.ring[k].start_ms <= t
    BY <1>8, <1>9
  <2>2. new.ring[k].stop_ms <= t
    <3>1. CASE k = h
      BY <1>3, <1>5, <1>8, <3>1
    <3>2. CASE k # h
      BY <1>5, <1>8, <3>2
    <3>3. QED
      BY <3>1, <3>2
  <2>3. QED
    BY <2>1, <2>2
<1>11. ASSUME NEW k \in LiveEpisodes(log)
       PROVE  /\ new.ring[k].stop_ms # 0
              /\ new.ring[k].start_ms <= new.ring[k].stop_ms
              /\ \A j \in LiveEpisodes(log) : Age(log, j) < Age(log, k) =>
                    new.ring[k].stop_ms <= new.ring[j].start_ms
  <2>1. CASE k = h
    <3>1. new.ring[k].stop_ms = t
      BY <1>3, <1>4, <1>5, <2>1
    <3>2. new.ring[k].start_ms <= t
      BY <1>8, <1>9, <1>11
    <3>3. \A j \in LiveEpisodes(log) : ~(Age(log, j) < Age(log, k))
      BY <1>4, <1>8, <2>1
    <3>4. QED
      BY <3>1, <3>2, <3>3
  <2>2. CASE k # h
    <3>1. new.ring[k] = log.ring[k]
      BY <1>5, <1>8, <1>11, <2>2
    <3>2. log.ring[k].stop_ms # 0 /\ log.ring[k].start_ms <= log.ring[k].stop_ms
      BY <1>11, <2>2 DEF LogSound
    <3>3. \A j \in LiveEpisodes(log) : Age(log, j) < Age(log, k) =>
              log.ring[k].stop_ms <= log.ring[j].start_ms
      BY <1>11 DEF LogSound
    <3>4. QED
      BY <1>9, <3>1, <3>2, <3>3
  <2>3. QED
    BY <2>1, <2>2
<1>12. QED
  BY <1>2, <1>6, <1>7, <1>10, <1>11 DEF LogSound, new

LEMMA LedgerUpdateSound ==
    ASSUME NEW log \in Ledger, NEW v \in Class, NEW t \in Nat \ {0},
           LogSound(log), LogPast(log, t)
    PROVE  /\ LogSound(LedgerUpdate(log, v, t))
           /\ LogPast(LedgerUpdate(log, v, t), t)
<1>1. CASE LedgerUpdate(log, v, t) = log
  BY <1>1
<1>2. CASE LedgerUpdate(log, v, t) = LedgerStart(log, t) /\ ~LedgerOpen(log)
  <2>1. t \in Nat
    OBVIOUS
  <2>2. QED
    BY <1>2, <2>1, StartSound
<1>3. CASE LedgerUpdate(log, v, t) = LedgerStop(log, t) /\ LedgerOpen(log)
  BY <1>3, StopSound
<1>4. QED
  BY <1>1, <1>2, <1>3, Zenon DEF LedgerUpdate

LEMMA LogPastLater ==
    ASSUME NEW log \in Ledger, NEW s \in Nat, NEW t \in Nat, s <= t,
           LogPast(log, s)
    PROVE  LogPast(log, t)
BY LedgerStampsNat DEF LogPast, LiveEpisodes

LEMMA EmptyLedgerSound ==
    LogSound(EmptyLedger) /\ \A t : LogPast(EmptyLedger, t)
<1>1. EmptyLedger \in Ledger
  BY FreshTypes
<1>2. EmptyLedger.fill = 0 /\ EmptyLedger.episodes = 0
  BY Zenon DEF EmptyLedger
<1>3. \A k \in 0 .. EpisodeCap - 1 : Age(EmptyLedger, k) \in Nat
  BY <1>1, AgeHead
<1>4. LiveEpisodes(EmptyLedger) = {}
  BY <1>2, <1>3 DEF LiveEpisodes
<1>5. QED
  BY <1>2, <1>4 DEF LogSound, LogPast

LEMMA HistoryIsPerLog == LedgerIsHistory <=> \A i \in Slot : LogSound(ledger[i])
BY Zenon DEF LedgerIsHistory, LogSound

LEMMA LedgerHistoryStep ==
    ASSUME TypeOK, LedgerIsHistory, LedgerPast, [Next]_vars
    PROVE  LedgerIsHistory' /\ LedgerPast'
<1>0. /\ now_ms \in Nat /\ now \in Nat /\ now_ms <= now
      /\ \A i \in Slot : ledger[i] \in Ledger
  BY DEF TypeOK
<1>1. \A i \in Slot : LogSound(ledger[i]) /\ LogPast(ledger[i], now_ms)
  BY HistoryIsPerLog DEF LedgerPast
<1>2. CASE UNCHANGED <<now_ms, ledger>>
  BY <1>1, <1>2 DEF LedgerIsHistory, LedgerPast, LogSound, LogPast
<1>3. CASE TickBegin
  <2>1. now_ms' = now /\ ledger' = ledger
    BY <1>3 DEF TickBegin, clientVars
  <2>2. \A i \in Slot : LogPast(ledger[i], now)
    BY <1>0, <1>1, LogPastLater
  <2>3. QED
    BY <1>1, <2>1, <2>2 DEF LedgerIsHistory, LedgerPast, LogSound
<1>4. ASSUME NEW i \in Slot, NEW raw \in RawScores, SweepScore(i, raw)
      PROVE  LedgerIsHistory' /\ LedgerPast'
  <2>1. now_ms' = now_ms /\ pc = "sweep"
    BY <1>4 DEF SweepScore, Sweeping
  <2>2. \A j \in Slot : j # i => ledger'[j] = ledger[j]
    BY <1>4, PassArrays
  <2>3. /\ ledger'[i] = LedgerUpdate(ledger[i], Verdict(i, raw), now_ms)
        /\ now_ms \in Nat \ {0} /\ Verdict(i, raw) \in Class
    BY <1>4, <2>1, PassArrays DEF TypeOK, Verdict, Class
  <2>4. LogSound(ledger'[i]) /\ LogPast(ledger'[i], now_ms)
    BY <1>0, <1>1, <2>3, LedgerUpdateSound
  <2>5. \A j \in Slot : LogSound(ledger'[j]) /\ LogPast(ledger'[j], now_ms)
    BY <1>1, <2>2, <2>4
  <2>6. QED
    BY <2>1, <2>5 DEF LedgerIsHistory, LedgerPast, LogSound
<1>5. CASE SweepEnd
  <2>1. now_ms' = now_ms
    BY <1>5 DEF SweepEnd
  <2>2. \A i \in Slot : ledger'[i] = ledger[i] \/ ledger'[i] = EmptyLedger
    BY <1>5, ReapArrays
  <2>3. \A i \in Slot : LogSound(ledger'[i]) /\ LogPast(ledger'[i], now_ms)
    BY <1>1, <2>2, EmptyLedgerSound
  <2>4. QED
    BY <2>1, <2>3 DEF LedgerIsHistory, LedgerPast, LogSound
<1>6. CASE \/ Elapse
           \/ \E mac \in Mac, rec \in [active : BOOLEAN, phy_rate : PhyRates] :
                 StageRecord(mac, rec) \/ StageDrop(mac, rec)
           \/ \E i \in Slot : SweepSkip(i) \/ SweepGated(i)
           \/ \E b \in BOOLEAN : SetEnable(b)
           \/ UNCHANGED vars
  <2>1. UNCHANGED <<now_ms, ledger>>
    BY <1>6, Zenon DEF Elapse, StageRecord, StageDrop, SweepSkip, SweepGated,
       SetEnable, vars, loopVars, clientVars
  <2>2. QED
    BY <1>2, <2>1
<1>7. QED
  BY <1>3, <1>4, <1>5, <1>6, Zenon DEF Next

-----------------------------------------------------------------------------
LEMMA FreshFields ==
    /\ FreshState.alarm = FALSE /\ FreshState.threshold_cross = 0
    /\ FreshState.reconnect_ramp = 0 /\ FreshState.phy_fill = 0
BY Zenon DEF FreshState

(* The run counter saturates at or above the sustain count, so a saturated *)
(* run still holds the alarm.                                              *)
LEMMA AlarmPass ==
    ASSUME NEW st \in ClientState, NEW score \in Nat,
           st.alarm <=> st.threshold_cross >= LatencySustain
    PROVE  LET f == FlagLatencyRisk(st, score) IN
           /\ f.alarm <=> f.threshold_cross >= LatencySustain
           /\ f.threshold_cross > 0 <=> score < LatencyBand
<1> DEFINE f == FlagLatencyRisk(st, score)
<1>1. st.threshold_cross \in 0 .. CrossMax
  BY DEF ClientState
<1>2. /\ LowRun(st) \in Nat /\ LowRun(st) > 0
      /\ st.threshold_cross >= LatencySustain => LowRun(st) >= LatencySustain
  BY <1>1, SustainAssumption DEF LowRun
<1>3. /\ f.threshold_cross = IF score < LatencyBand THEN LowRun(st) ELSE 0
      /\ f.alarm = IF score < LatencyBand
                   THEN IF LowRun(st) >= LatencySustain THEN TRUE ELSE st.alarm
                   ELSE FALSE
  BY FlaggedFields
<1> HIDE DEF f
<1>4. CASE score < LatencyBand
  <2>1. f.threshold_cross = LowRun(st)
    BY <1>3, <1>4
  <2>2. f.alarm <=> LowRun(st) >= LatencySustain
    <3>1. CASE LowRun(st) >= LatencySustain
      BY <1>3, <1>4, <3>1, Zenon
    <3>2. CASE ~(LowRun(st) >= LatencySustain)
      <4>1. ~st.alarm
        BY <1>2, <3>2
      <4>2. QED
        BY <1>3, <1>4, <3>2, <4>1, Zenon
    <3>3. QED
      BY <3>1, <3>2
  <2>3. f.threshold_cross > 0
    BY <1>2, <2>1
  <2>4. QED
    BY <1>4, <2>1, <2>2, <2>3 DEF f
<1>5. CASE ~(score < LatencyBand)
  <2>1. f.threshold_cross = 0 /\ ~f.alarm
    BY <1>3, <1>5, Zenon
  <2>2. ~(0 >= LatencySustain)
    BY SustainAssumption
  <2>3. QED
    BY <1>5, <2>1, <2>2 DEF f
<1>6. QED
  BY <1>4, <1>5

LEMMA AlarmStep ==
    ASSUME TypeOK, NoInheritedHistory, AlarmTracksLowRun, [Next]_vars
    PROVE  AlarmTracksLowRun'
<1>1. CASE Quiet
  BY <1>1 DEF Quiet, AlarmTracksLowRun, Scored, Live
<1>2. ASSUME NEW mac \in Mac,
             NEW rec \in [active : BOOLEAN, phy_rate : PhyRates],
             StageRecord(mac, rec)
      PROVE  AlarmTracksLowRun'
  <2>1. UNCHANGED <<state, result>>
    BY <1>2 DEF StageRecord, clientVars
  <2>2. \A i \in Slot : Scored(i)' <=> Scored(i)
    BY <1>2, StageScored
  <2>3. QED
    BY <2>1, <2>2 DEF AlarmTracksLowRun
<1>3. ASSUME NEW i \in Slot, NEW raw \in RawScores, SweepScore(i, raw)
      PROVE  AlarmTracksLowRun'
  <2>1. /\ state[i] \in ClientState /\ snapshot[i] \in Sample
        /\ ScoredState(i) \in ClientState
    BY <1>3, PassArrays, PassType DEF TypeOK
  <2>2. ScoreOf(state[i], raw) \in Nat
    <3>1. ScoreOf(state[i], raw) \in 0 .. MaxScore
      BY <2>1, ScoreOfType
    <3>2. QED
      BY <3>1, ScaleNat, Z3
  <2>3. /\ ScoredState(i).threshold_cross = state[i].threshold_cross
        /\ ScoredState(i).alarm = state[i].alarm
    BY <2>1, ScoredFields DEF ScoredState
  <2>4. ScoredState(i).alarm
            <=> ScoredState(i).threshold_cross >= LatencySustain
    <3>1. state[i].alarm <=> state[i].threshold_cross >= LatencySustain
      BY DEF AlarmTracksLowRun
    <3>2. QED
      BY <2>3, <3>1, Zenon
  <2> DEFINE f == FlaggedState(i, raw)
  <2>5. /\ f.alarm <=> f.threshold_cross >= LatencySustain
        /\ f.threshold_cross > 0 <=> ScoreOf(state[i], raw) < LatencyBand
    BY <2>1, <2>2, <2>4, AlarmPass DEF FlaggedState
  <2>6. state'[i] = f /\ result'[i].score = ScoreOf(state[i], raw)
    BY <1>3, PassArrays
  <2> HIDE DEF f
  <2>7. /\ state'[i].alarm <=> state'[i].threshold_cross >= LatencySustain
        /\ state'[i].threshold_cross > 0 <=> result'[i].score < LatencyBand
    BY <2>5, <2>6, Zenon
  <2>8. \A j \in Slot : j # i => /\ Scored(j)' <=> Scored(j)
                                 /\ state'[j] = state[j]
                                 /\ result'[j] = result[j]
    BY <1>3, PassArrays DEF Scored, Live
  <2>9. QED
    BY <2>7, <2>8, Zenon DEF AlarmTracksLowRun
<1>4. CASE SweepEnd
  <2>1. ASSUME NEW i \in Slot
        PROVE  /\ state'[i].alarm <=> state'[i].threshold_cross >= LatencySustain
               /\ Scored(i)' => (state'[i].threshold_cross > 0
                                    <=> result'[i].score < LatencyBand)
    <3>1. CASE /\ slots'[i] = FreeSlot /\ state'[i] = FreshState
      <4>1. ~(0 >= LatencySustain)
        BY SustainAssumption
      <4>2. ~state'[i].alarm /\ state'[i].threshold_cross = 0
        BY <3>1, FreshFields, Zenon
      <4>3. ~Scored(i)'
        BY <3>1 DEF Scored, Live, FreeSlot
      <4>4. QED
        BY <4>1, <4>2, <4>3
    <3>2. CASE /\ slots'[i] = slots[i] /\ state'[i] = state[i]
               /\ result'[i] = result[i]
      BY <3>2, Zenon DEF AlarmTracksLowRun, Scored, Live
    <3>3. QED
      BY <1>4, <3>1, <3>2, ReapArrays
  <2>2. QED
    BY <2>1 DEF AlarmTracksLowRun
<1>5. QED
  BY <1>1, <1>2, <1>3, <1>4, StepKinds, Zenon

(* A pass after the first sample counts the ramp down with the fill; the   *)
(* first one starts it. The ring never empties again, so no other pass can *)
(* restart it.                                                             *)
LEMMA RampStep ==
    ASSUME TypeOK, NoInheritedHistory, RampRunsOnce, [Next]_vars
    PROVE  RampRunsOnce'
<1>1. CASE Quiet
  BY <1>1 DEF Quiet, RampRunsOnce, Scored, Live
<1>2. ASSUME NEW mac \in Mac,
             NEW rec \in [active : BOOLEAN, phy_rate : PhyRates],
             StageRecord(mac, rec)
      PROVE  RampRunsOnce'
  <2>1. UNCHANGED state
    BY <1>2 DEF StageRecord, clientVars
  <2>2. \A i \in Slot : Scored(i)' <=> Scored(i)
    BY <1>2, StageScored
  <2>3. QED
    BY <2>1, <2>2 DEF RampRunsOnce
<1>3. ASSUME NEW i \in Slot, NEW raw \in RawScores, SweepScore(i, raw)
      PROVE  RampRunsOnce'
  <2>1. Live(i) /\ state[i] \in ClientState /\ snapshot[i] \in Sample
    BY <1>3, PassArrays DEF TypeOK
  <2>2. ScoredState(i) \in ClientState
    BY <2>1, PassType
  <2> DEFINE old == state[i]
             new == state'[i]
  <2>3. /\ new.reconnect_ramp = IF Ramp(old) > 0 THEN Ramp(old) - 1 ELSE 0
        /\ new.phy_fill = IF old.phy_fill < PhyWindow THEN old.phy_fill + 1
                          ELSE old.phy_fill
    <3>1. new = FlaggedState(i, raw)
      BY <1>3, PassArrays
    <3>2. FlaggedState(i, raw).reconnect_ramp = ScoredState(i).reconnect_ramp
      BY <2>2, FlaggedFields DEF FlaggedState
    <3>3. ScoredState(i).reconnect_ramp =
              IF Ramp(old) > 0 THEN Ramp(old) - 1 ELSE 0
      BY <2>1, ScoredFields DEF ScoredState
    <3>4. QED
      BY <2>1, <3>1, <3>2, <3>3, PassFills
  <2>4. old.phy_fill \in 0 .. PhyWindow
    BY <2>1 DEF ClientState
  <2>5. Ramp(old) = IF old.phy_fill < RampTicks
                    THEN RampTicks - old.phy_fill ELSE 0
    <3>1. CASE old.phy_fill = 0
      BY <3>1, WindowAssumption DEF Ramp
    <3>2. CASE old.phy_fill # 0
      BY <2>1, <2>4, <3>2, WindowAssumption DEF Ramp, RampRunsOnce, Scored
    <3>3. QED
      BY <3>1, <3>2
  <2> HIDE DEF old, new
  <2>6. new.reconnect_ramp = IF new.phy_fill < RampTicks
                             THEN RampTicks - new.phy_fill ELSE 0
    BY <2>3, <2>4, <2>5, WindowAssumption
  <2>7. \A j \in Slot : j # i => /\ Scored(j)' <=> Scored(j)
                                 /\ state'[j] = state[j]
    BY <1>3, PassArrays DEF Scored, Live
  <2>8. QED
    BY <2>6, <2>7 DEF RampRunsOnce, new
<1>4. CASE SweepEnd
  <2>1. ASSUME NEW i \in Slot, Scored(i)'
        PROVE  Scored(i) /\ state'[i] = state[i]
    BY <1>4, <2>1, ReapArrays DEF Scored, Live, FreeSlot
  <2>2. QED
    BY <2>1 DEF RampRunsOnce
<1>5. QED
  BY <1>1, <1>2, <1>3, <1>4, StepKinds, Zenon

-----------------------------------------------------------------------------
LEMMA LastSeenNat ==
    ASSUME TypeOK
    PROVE  \A i \in Slot : slots[i].last_seen \in Nat
<1>1. \A s \in LiveSlot \cup {FreeSlot} : s.last_seen \in Nat
  <2>1. \A s \in LiveSlot : s.last_seen \in Nat
    BY Zenon DEF LiveSlot
  <2>2. FreeSlot.last_seen \in Nat
    BY DEF FreeSlot
  <2>3. QED
    BY <2>1, <2>2
<1>2. QED
  BY <1>1 DEF TypeOK

(* Only the loop moves its deadline, only time moves the clock, and only   *)
(* records and reaps move the last_seen stamps.                            *)
LEMMA TimingStep ==
    ASSUME TypeOK, LoopTiming, [Next]_vars
    PROVE  LoopTiming'
<1> USE ClockAssumption
<1>0. \A i \in Slot : slots[i].last_seen \in Nat
  BY LastSeenNat
<1>1. CASE Elapse
  BY <1>1 DEF Elapse, LoopTiming, TypeOK, loopVars, mapVars, Live
<1>2. ASSUME NEW mac \in Mac,
             NEW rec \in [active : BOOLEAN, phy_rate : PhyRates],
             StageRecord(mac, rec)
      PROVE  LoopTiming'
  <2>1. /\ UNCHANGED <<now, next_tick, pc, now_ms>>
        /\ slots \in [Slot -> LiveSlot \cup {FreeSlot}]
        /\ next_tick \in Nat /\ now \in Nat
    BY <1>2 DEF StageRecord, clockVars, loopVars, TypeOK
  <2>2. slots' = [slots EXCEPT ![SlotFor(slots, mac)] =
                     [mac |-> mac, in_use |-> TRUE, last_seen |-> now]]
    BY <1>2 DEF StageRecord
  <2>3. \A i \in Slot : slots'[i] = slots[i] \/ slots'[i].last_seen = now
    BY <2>1, <2>2
  <2>4. pc = "poll"
    BY <1>2 DEF StageRecord
  <2>5. \A i \in Slot : Live(i)' =>
            next_tick - TickMs - slots'[i].last_seen <= AbsenceMs
    BY <1>0, <2>1, <2>3, <2>4 DEF LoopTiming, Live
  <2>6. QED
    BY <2>1, <2>4, <2>5 DEF LoopTiming
<1>3. CASE TickBegin
  BY <1>3 DEF TickBegin, LoopTiming, TypeOK
<1>4. CASE SweepEnd
  <2>1. UNCHANGED <<now, next_tick>> /\ pc' = "poll" /\ pc = "sweep"
    BY <1>4 DEF SweepEnd, clockVars
  <2>2. ASSUME NEW i \in Slot, Live(i)'
        PROVE  next_tick - TickMs - slots'[i].last_seen <= AbsenceMs
    <3>1. i \notin Departed /\ slots'[i] = slots[i]
      BY <1>4, <2>2, ReapArrays DEF Live, FreeSlot
    <3>2. ~(now_ms - slots[i].last_seen > AbsenceMs)
      BY <2>2, <3>1 DEF Departed, Live
    <3>3. QED
      BY <1>0, <2>1, <3>1, <3>2 DEF LoopTiming, TypeOK
  <2>3. QED
    BY <2>1, <2>2 DEF LoopTiming
<1>5. CASE UNCHANGED <<now, next_tick, pc, now_ms, slots>>
  BY <1>5 DEF LoopTiming, Live
<1>6. CASE \/ \E i \in Slot : SweepSkip(i) \/ SweepGated(i)
           \/ \E i \in Slot, raw \in RawScores : SweepScore(i, raw)
           \/ \E b \in BOOLEAN : SetEnable(b)
           \/ \E mac \in Mac, rec \in [active : BOOLEAN, phy_rate : PhyRates] :
                 StageDrop(mac, rec)
           \/ UNCHANGED vars
  <2>1. UNCHANGED <<now, next_tick, pc, now_ms, slots>>
    BY <1>6, Zenon DEF SweepSkip, SweepGated, SweepScore, SetEnable, StageDrop,
       vars, clockVars, loopVars, mapVars
  <2>2. QED
    BY <1>5, <2>1
<1>7. QED
  BY <1>1, <1>2, <1>3, <1>4, <1>6, Zenon DEF Next

LEMMA StalenessStep ==
    ASSUME TypeOK, LoopTiming, StalenessBounded, [Next]_vars
    PROVE  StalenessBounded'
<1> USE ClockAssumption
<1>0. \A i \in Slot : slots[i].last_seen \in Nat
  BY LastSeenNat
<1>1. CASE TickBegin
  <2>1. pc = "poll" /\ now_ms' = now /\ slots' = slots
    BY <1>1 DEF TickBegin, mapVars
  <2>2. QED
    BY <1>0, <2>1 DEF StalenessBounded, LoopTiming, Live, TypeOK
<1>2. CASE pc' = "poll"
  BY <1>2 DEF StalenessBounded
<1>3. CASE UNCHANGED <<pc, now_ms, slots>>
  BY <1>3 DEF StalenessBounded, Live
<1>4. CASE \/ \E i \in Slot : SweepSkip(i) \/ SweepGated(i)
           \/ \E i \in Slot, raw \in RawScores : SweepScore(i, raw)
           \/ \E b \in BOOLEAN : SetEnable(b)
           \/ \E mac \in Mac, rec \in [active : BOOLEAN, phy_rate : PhyRates] :
                 StageDrop(mac, rec)
           \/ Elapse \/ UNCHANGED vars
  <2>1. UNCHANGED <<pc, now_ms, slots>>
    BY <1>4, Zenon DEF SweepSkip, SweepGated, SweepScore, SetEnable, StageDrop,
       Elapse, vars, loopVars, mapVars
  <2>2. QED
    BY <1>3, <2>1
<1>5. CASE SweepEnd \/ \E mac \in Mac,
                rec \in [active : BOOLEAN, phy_rate : PhyRates] :
                    StageRecord(mac, rec)
  <2>1. pc' = "poll"
    BY <1>5, Zenon DEF SweepEnd, StageRecord, loopVars
  <2>2. QED
    BY <1>2, <2>1
<1>6. QED
  BY <1>1, <1>4, <1>5, Zenon DEF Next

-----------------------------------------------------------------------------
(* After the tick the excursion clock runs exactly when the metric is      *)
(* below its band, because no sweep runs at time zero.                     *)
LEMMA TrackTickStarts ==
    ASSUME NEW e \in LiveEntry, NEW metric, NEW t \in Nat \ {0}, NEW band
    PROVE  TrackTick(e, metric, t, band, TputFloorMs).start_ts # 0
               <=> metric < band
<1>0. t # 0
  OBVIOUS
<1>1. CASE metric < band /\ e.start_ts = 0
  <2>1. TrackTick(e, metric, t, band, TputFloorMs) =
            [e EXCEPT !.start_ts = t, !.count = e.count + 1]
    BY <1>1, Zenon DEF TrackTick
  <2>2. TrackTick(e, metric, t, band, TputFloorMs).start_ts = t
    BY <2>1, Zenon DEF LiveEntry
  <2>3. QED
    BY <1>0, <1>1, <2>2, Zenon
<1>2. CASE ~(metric < band) /\ e.start_ts # 0
  <2> DEFINE a == IF t - e.start_ts >= TputFloorMs
                  THEN e.accumulated + (t - e.start_ts) ELSE e.accumulated
  <2>1. TrackTick(e, metric, t, band, TputFloorMs) =
            [e EXCEPT !.start_ts = 0, !.accumulated = a]
    BY <1>2, Zenon DEF TrackTick
  <2> HIDE DEF a
  <2>2. TrackTick(e, metric, t, band, TputFloorMs).start_ts = 0
    BY <2>1, Zenon DEF LiveEntry
  <2>3. QED
    BY <1>2, <2>2, Zenon
<1>3. CASE (metric < band <=> e.start_ts # 0)
  BY <1>3, Zenon DEF TrackTick
<1>4. QED
  BY <1>1, <1>2, <1>3

(* One pass on the tracker: the table stays one entry per station, only    *)
(* the station's own entry changes, and its clock runs exactly over a      *)
(* window that is out of band.                                             *)
LEMMA TrackerPass ==
    ASSUME TypeOK, TrackerUnique, NEW mac \in Mac, NEW st, now_ms \in Nat \ {0},
           NEW new, new = TrackInstability(mac, st)
    PROVE  /\ UniqueMacs(new)
           /\ \A e \in Slot : Holds(new, e, mac) =>
                 (new[e].start_ts # 0 <=> -Instability(st) < -TputVarBand)
           /\ \A e \in Slot : ~Holds(new, e, mac) => new[e] = tracker[e]
           /\ HasSlot(tracker, mac) => Tracked(new, mac)
           /\ \A e \in Slot : tracker[e].in_use =>
                 new[e].in_use /\ new[e].mac = tracker[e].mac
<1>0. tracker \in [Slot -> Entry]
  BY DEF TypeOK
<1>1. CASE HasSlot(tracker, mac)
  <2> DEFINE k == SlotFor(tracker, mac)
             got == TrackGet(tracker, mac, now_ms)
             f == TrackCollect(TickedEntry(mac, st))
  <2>1. /\ got \in [Slot -> Entry] /\ got[k] \in LiveEntry
        /\ got[k].mac = mac
        /\ \A i \in Slot : i # k => got[i] = tracker[i]
    BY <1>0, <1>1, TrackGetFacts
  <2>2. /\ TickedEntry(mac, st) \in LiveEntry
        /\ TickedEntry(mac, st).mac = mac
        /\ TickedEntry(mac, st).start_ts # 0
               <=> -Instability(st) < -TputVarBand
    BY <2>1, TrackTickType, TrackTickStarts DEF TickedEntry
  <2>3. /\ f \in LiveEntry /\ f.mac = mac
        /\ f.start_ts # 0 <=> -Instability(st) < -TputVarBand
    BY <2>2, TrackCollectType
  <2>4. f.in_use
    BY <2>3, Zenon DEF LiveEntry
  <2>5. new = [got EXCEPT ![k] = f]
    BY <1>1, Zenon DEF TrackInstability
  <2>6. k \in Slot
    BY <1>1, SlotForChosen
  <2> HIDE DEF got, f
  <2>7. new = [tracker EXCEPT ![k] = f]
    <3> HIDE DEF k
    <3>1. QED
      BY <1>0, <2>1, <2>5, <2>6
  <2>8. tracker = [i \in Slot |-> tracker[i]]
    BY <1>0
  <2>9. /\ UniqueMacs(new)
        /\ \A i \in Slot : Holds(new, i, mac) <=> i = k
        /\ \A i \in Slot : i # k => new[i] = tracker[i]
        /\ new[k] = f
    BY <1>1, <2>3, <2>4, <2>7, <2>8, StoreKeepsUnique DEF TrackerUnique
  <2>10. ~tracker[k].in_use \/ tracker[k].mac = mac
    BY <1>1, SlotForChosen DEF FindOrAdd, FirstFree, Holds
  <2> HIDE DEF k
  <2>11. Tracked(new, mac)
    BY <2>6, <2>9 DEF Tracked
  <2>12. \A e \in Slot : tracker[e].in_use =>
            new[e].in_use /\ new[e].mac = tracker[e].mac
    BY <2>3, <2>4, <2>9, <2>10, Zenon
  <2>13. QED
    BY <2>3, <2>9, <2>11, <2>12, Zenon
<1>2. CASE ~HasSlot(tracker, mac)
  <2>1. new = tracker
    BY <1>2 DEF TrackInstability
  <2>2. \A e \in Slot : ~Holds(tracker, e, mac)
    BY <1>2 DEF HasSlot, FindOrAdd
  <2>3. QED
    BY <1>2, <2>1, <2>2 DEF TrackerUnique
<1>3. QED
  BY <1>1, <1>2

LEMMA TrackerUniqueStep ==
    ASSUME TypeOK, TrackerUnique, [Next]_vars
    PROVE  TrackerUnique'
<1>1. CASE UNCHANGED tracker
  BY <1>1 DEF TrackerUnique, UniqueMacs
<1>2. ASSUME NEW i \in Slot, NEW raw \in RawScores, SweepScore(i, raw)
      PROVE  TrackerUnique'
  <2>1. slots[i].mac \in Mac /\ now_ms \in Nat \ {0}
    BY <1>2, PassArrays, PassType
  <2>2. tracker' = TrackInstability(slots[i].mac, ScoredState(i))
    BY <1>2 DEF SweepScore
  <2>3. QED
    BY <2>1, <2>2, TrackerPass DEF TrackerUnique
<1>3. CASE SweepEnd
  <2>1. \A e \in Slot : tracker'[e] = FreeEntry \/ tracker'[e] = tracker[e]
    BY <1>3 DEF SweepEnd, TrackReap
  <2>2. ~FreeEntry.in_use
    BY DEF FreeEntry
  <2>3. QED
    BY <2>1, <2>2, Zenon DEF TrackerUnique, UniqueMacs
<1>4. QED
  <2>1. Quiet => UNCHANGED tracker
    BY DEF Quiet
  <2>2. \A mac \in Mac, rec \in [active : BOOLEAN, phy_rate : PhyRates] :
            StageRecord(mac, rec) => UNCHANGED tracker
    BY DEF StageRecord
  <2>3. QED
    BY <1>1, <1>2, <1>3, <2>1, <2>2, StepKinds, Zenon

(* An excursion entry found again is this station's own, and the pass that *)
(* changed the window also ticked the entry: the two tables cannot drift.  *)
LEMMA ExcursionStep ==
    ASSUME TypeOK, MembershipSound, NoInheritedHistory, TrackerUnique,
           ExcursionMatchesWindow, [Next]_vars
    PROVE  ExcursionMatchesWindow'
<1>1. CASE Quiet
  BY <1>1 DEF Quiet, ExcursionMatchesWindow, Scored, Live, Holds, Instability
<1>2. ASSUME NEW mac \in Mac,
             NEW rec \in [active : BOOLEAN, phy_rate : PhyRates],
             StageRecord(mac, rec)
      PROVE  ExcursionMatchesWindow'
  <2>1. UNCHANGED <<state, tracker>>
    BY <1>2 DEF StageRecord, clientVars
  <2>2. \A i \in Slot : /\ Scored(i)' <=> Scored(i)
                        /\ Scored(i) => slots'[i].mac = slots[i].mac
    BY <1>2, StageScored
  <2>3. QED
    BY <2>1, <2>2, Zenon DEF ExcursionMatchesWindow, Holds, Instability
<1>3. ASSUME NEW i \in Slot, NEW raw \in RawScores, SweepScore(i, raw)
      PROVE  ExcursionMatchesWindow'
  <2>1. /\ Live(i) /\ slots' = slots /\ now_ms \in Nat \ {0}
        /\ state'[i] = FlaggedState(i, raw)
        /\ \A j \in Slot : j # i => state'[j] = state[j]
    BY <1>3, PassArrays
  <2> DEFINE mac == slots[i].mac
  <2>2. mac \in Mac
    BY <2>1, PassType
  <2>3. tracker' = TrackInstability(mac, ScoredState(i))
    BY <1>3 DEF SweepScore
  <2>4. /\ \A e \in Slot : Holds(tracker', e, mac) =>
              (tracker'[e].start_ts # 0
                  <=> -Instability(ScoredState(i)) < -TputVarBand)
        /\ \A e \in Slot : ~Holds(tracker', e, mac) => tracker'[e] = tracker[e]
    BY <2>1, <2>2, <2>3, TrackerPass
  <2>5. Instability(state[i])' = Instability(ScoredState(i))
    BY <2>1, PassFills DEF Instability
  <2> SUFFICES ASSUME NEW j \in Slot, NEW e \in Slot, Scored(j)',
                      Holds(tracker', e, slots[j].mac)
               PROVE  tracker'[e].start_ts # 0
                          <=> -Instability(state[j])' < -TputVarBand
    BY <2>1 DEF ExcursionMatchesWindow
  <2>6. CASE j = i
    BY <2>4, <2>5, <2>6, Zenon
  <2>7. CASE j # i
    <3>1. state'[j] = state[j] /\ Scored(j)
      BY <2>1, <2>7 DEF Scored, Live
    <3>2. slots[j].mac # mac
      BY <2>1, <2>7, <3>1 DEF MembershipSound, UniqueMacs, Scored, Live
    <3>3. ~Holds(tracker', e, mac)
      BY <3>2 DEF Holds
    <3>4. tracker'[e] = tracker[e]
      BY <2>4, <3>3
    <3>5. Holds(tracker, e, slots[j].mac)
      BY <3>4 DEF Holds
    <3>6. tracker[e].start_ts # 0 <=> -Instability(state[j]) < -TputVarBand
      BY <3>1, <3>5, Zenon DEF ExcursionMatchesWindow
    <3>7. Instability(state[j])' = Instability(state[j])
      BY <3>1 DEF Instability
    <3>8. QED
      BY <3>4, <3>6, <3>7, Zenon
  <2>8. QED
    BY <2>6, <2>7
<1>4. CASE SweepEnd
  <2>1. \A e \in Slot : tracker'[e] = FreeEntry \/ tracker'[e] = tracker[e]
    BY <1>4 DEF SweepEnd, TrackReap
  <2>2. ~FreeEntry.in_use
    BY DEF FreeEntry
  <2>3. \A i \in Slot : Scored(i)' =>
            Scored(i) /\ state'[i] = state[i] /\ slots'[i] = slots[i]
    BY <1>4, ReapArrays DEF Scored, Live, FreeSlot
  <2> SUFFICES ASSUME NEW j \in Slot, NEW e \in Slot, Scored(j)',
                      Holds(tracker', e, slots'[j].mac)
               PROVE  tracker'[e].start_ts # 0
                          <=> -Instability(state[j])' < -TputVarBand
    BY DEF ExcursionMatchesWindow
  <2>4. tracker'[e] = tracker[e]
    BY <2>1, <2>2 DEF Holds
  <2>5. Scored(j) /\ Holds(tracker, e, slots[j].mac)
    BY <2>3, <2>4 DEF Holds
  <2>6. Instability(state[j])' = Instability(state[j])
    BY <2>3 DEF Instability
  <2>7. tracker[e].start_ts # 0 <=> -Instability(state[j]) < -TputVarBand
    BY <2>5, Zenon DEF ExcursionMatchesWindow
  <2>8. QED
    BY <2>4, <2>6, <2>7, Zenon
<1>5. QED
  BY <1>1, <1>2, <1>3, <1>4, StepKinds, Zenon

-----------------------------------------------------------------------------
(* Map and tracker have the same number of slots, so members alone never   *)
(* keep a member out of the tracker: the pigeons are the tracker's         *)
(* entries, the holes the slots of the other members.                      *)
LEMMA MembersFit ==
    ASSUME TypeOK, MembershipSound, TrackerUnique, NEW i \in Slot, Live(i),
           ~HasSlot(tracker, slots[i].mac)
    PROVE  \E e \in Slot : tracker[e].in_use /\ ~Tracked(slots, tracker[e].mac)
<1> SUFFICES ASSUME \A e \in Slot : tracker[e].in_use => Tracked(slots, tracker[e].mac)
             PROVE  FALSE
  OBVIOUS
<1>1. \A e \in Slot : tracker[e].in_use /\ tracker[e].mac # slots[i].mac
  BY NoSlotMeansFull
<1> DEFINE f == [e \in Slot |-> SlotFor(slots, tracker[e].mac)]
<1>2. \A e \in Slot : f[e] \in Slot /\ Holds(slots, f[e], tracker[e].mac)
  BY <1>1, TrackedHasSlot, SlotForChosen
<1> HIDE DEF f
<1>3. \A e \in Slot : f[e] \in Slot \ {i}
  BY <1>1, <1>2 DEF Holds
<1>4. f \in [Slot -> Slot \ {i}]
  BY <1>3 DEF f
<1>5. /\ IsFiniteSet(Slot) /\ IsFiniteSet(Slot \ {i})
      /\ Cardinality(Slot \ {i}) < Cardinality(Slot)
  <2>1. Cardinality(Slot) \in Nat
    BY SlotFinite, FS_CardinalityType
  <2>2. IsFiniteSet(Slot \ {i}) /\ Cardinality(Slot \ {i}) = Cardinality(Slot) - 1
    BY SlotFinite, FS_RemoveElement
  <2>3. QED
    BY <2>1, <2>2, SlotFinite
<1>6. PICK x, y \in Slot : x # y /\ f[x] = f[y]
  BY <1>4, <1>5, FS_PigeonHole
<1>7. tracker[x].mac = tracker[y].mac
  BY <1>2, <1>6 DEF Holds
<1>8. QED
  BY <1>1, <1>6, <1>7 DEF TrackerUnique, UniqueMacs

(* Entries are only claimed while a sweep runs, and the map does not move, *)
(* so the departed station that kept a member out is there to the end.     *)
LEMMA UntimedStep ==
    ASSUME TypeOK, MembershipSound, TrackerUnique, UntimedOnlyBehindDeparted,
           [Next]_vars
    PROVE  UntimedOnlyBehindDeparted'
<1>0. cursor \in Nat
  BY MaxClientsAssumption DEF TypeOK
<1>1. ASSUME UNCHANGED <<pc, cursor, slots, snapshot, tracker>>
      PROVE  UntimedOnlyBehindDeparted'
  BY <1>1 DEF UntimedOnlyBehindDeparted, Live, Tracked, Holds
<1>2. CASE Elapse \/ (\E b \in BOOLEAN : SetEnable(b)) \/ UNCHANGED vars
  BY <1>1, <1>2 DEF Elapse, SetEnable, vars, loopVars, mapVars
<1>3. ASSUME NEW mac \in Mac,
             NEW rec \in [active : BOOLEAN, phy_rate : PhyRates],
             StageRecord(mac, rec) \/ StageDrop(mac, rec)
      PROVE  UntimedOnlyBehindDeparted'
  <2>1. pc' # "sweep"
    BY <1>3 DEF StageRecord, StageDrop, vars, loopVars
  <2>2. QED
    BY <2>1 DEF UntimedOnlyBehindDeparted
<1>4. CASE TickBegin
  <2>1. cursor' = 0
    BY <1>4 DEF TickBegin
  <2>2. \A i \in Slot : ~(i < cursor')
    BY <2>1 DEF Slot
  <2>3. QED
    BY <2>2 DEF UntimedOnlyBehindDeparted
<1>5. ASSUME NEW i \in Slot, SweepSkip(i) \/ SweepGated(i)
      PROVE  UntimedOnlyBehindDeparted'
  <2>1. /\ cursor = i /\ cursor' = i + 1 /\ ~(Live(i) /\ snapshot[i].active)
        /\ pc = "sweep" /\ UNCHANGED <<slots, snapshot, tracker>>
    BY <1>5 DEF SweepSkip, SweepGated, Sweeping, mapVars, Live
  <2>2. \A j \in Slot : j < cursor' => j < cursor \/ j = i
    BY <1>0, <2>1 DEF Slot
  <2>3. QED
    BY <2>1, <2>2 DEF UntimedOnlyBehindDeparted, Live, Tracked, Holds
<1>6. ASSUME NEW i \in Slot, NEW raw \in RawScores, SweepScore(i, raw)
      PROVE  UntimedOnlyBehindDeparted'
  <2> DEFINE mac == slots[i].mac
  <2>1. /\ cursor = i /\ cursor' = i + 1 /\ Live(i)
        /\ pc = "sweep" /\ UNCHANGED <<slots, snapshot>>
        /\ tracker' = TrackInstability(mac, ScoredState(i))
    BY <1>6 DEF SweepScore, Sweeping, mapVars, Live
  <2>2. mac \in Mac /\ now_ms \in Nat \ {0}
    BY <1>6, PassArrays, PassType
  <2>3. /\ HasSlot(tracker, mac) => Tracked(tracker', mac)
        /\ \A e \in Slot : tracker[e].in_use =>
              tracker'[e].in_use /\ tracker'[e].mac = tracker[e].mac
    BY <2>1, <2>2, TrackerPass
  <2>4. \A j \in Slot : j < cursor' => j < cursor \/ j = i
    BY <1>0, <2>1 DEF Slot
  <2> SUFFICES ASSUME NEW j \in Slot, pc' = "sweep", j < cursor', Live(j)',
                      snapshot'[j].active, ~Tracked(tracker', slots'[j].mac)
               PROVE  \E e \in Slot : tracker'[e].in_use
                                       /\ ~Tracked(slots', tracker'[e].mac)
    BY DEF UntimedOnlyBehindDeparted
  <2>5. Live(j) /\ snapshot[j].active /\ slots'[j].mac = slots[j].mac
    BY <2>1 DEF Live
  <2>6. PICK e \in Slot : tracker[e].in_use /\ ~Tracked(slots, tracker[e].mac)
    <3>1. CASE j = i
      <4>1. ~HasSlot(tracker, mac)
        BY <2>3, <2>5, <3>1
      <4>2. QED
        BY <2>1, <4>1, MembersFit
    <3>2. CASE j < cursor
      <4>1. ~Tracked(tracker, slots[j].mac)
        BY <2>3, <2>5 DEF Tracked, Holds
      <4>2. QED
        BY <2>1, <2>5, <3>2, <4>1 DEF UntimedOnlyBehindDeparted
    <3>3. QED
      BY <2>4, <3>1, <3>2
  <2>7. tracker'[e].in_use /\ tracker'[e].mac = tracker[e].mac
    BY <2>3, <2>6
  <2>8. ~Tracked(slots', tracker'[e].mac)
    BY <2>1, <2>6, <2>7 DEF Tracked, Holds
  <2>9. QED
    BY <2>7, <2>8
<1>7. CASE SweepEnd
  <2>1. pc' # "sweep"
    BY <1>7 DEF SweepEnd
  <2>2. QED
    BY <2>1 DEF UntimedOnlyBehindDeparted
<1>8. QED
  BY <1>2, <1>3, <1>4, <1>5, <1>6, <1>7 DEF Next

-----------------------------------------------------------------------------
(* The map as the bounded set of stations it implements. Zero is MemberSet's *)
(* "not a member", so every live slot must have been heard after zero.     *)
HeardSinceStart == \A i \in Slot : Live(i) => slots[i].last_seen # 0

SeenIn(tbl) ==
    [m \in Mac |-> IF Tracked(tbl, m) THEN tbl[SlotFor(tbl, m)].last_seen ELSE 0]

(* In a table that holds each station once, the scan finds that slot. *)
LEMMA SeenInSlot ==
    ASSUME NEW tbl, UniqueMacs(tbl), NEW m \in Mac
    PROVE  /\ \A i \in Slot : Holds(tbl, i, m) =>
                  SlotFor(tbl, m) = i /\ SeenIn(tbl)[m] = tbl[i].last_seen
           /\ ~Tracked(tbl, m) => SeenIn(tbl)[m] = 0
<1>1. ASSUME NEW i \in Slot, Holds(tbl, i, m)
      PROVE  SlotFor(tbl, m) = i /\ SeenIn(tbl)[m] = tbl[i].last_seen
  <2>1. Tracked(tbl, m)
    BY <1>1 DEF Tracked
  <2>2. SlotFor(tbl, m) \in Slot /\ Holds(tbl, SlotFor(tbl, m), m)
    BY <2>1, TrackedHasSlot, SlotForChosen
  <2>3. SlotFor(tbl, m) = i
    BY <1>1, <2>2 DEF UniqueMacs, Holds
  <2>4. QED
    BY <2>1, <2>3, Zenon DEF SeenIn
<1>2. QED
  BY <1>1, Zenon DEF SeenIn

LEMMA HeardStep ==
    ASSUME TypeOK, HeardSinceStart, [Next]_vars
    PROVE  HeardSinceStart'
<1>1. CASE Quiet
  BY <1>1 DEF Quiet, HeardSinceStart, Live
<1>2. ASSUME NEW mac \in Mac,
             NEW rec \in [active : BOOLEAN, phy_rate : PhyRates],
             StageRecord(mac, rec)
      PROVE  HeardSinceStart'
  <2>1. /\ slots \in [Slot -> LiveSlot \cup {FreeSlot}] /\ now # 0
        /\ slots' = [slots EXCEPT ![SlotFor(slots, mac)] =
                        [mac |-> mac, in_use |-> TRUE, last_seen |-> now]]
    BY <1>2 DEF StageRecord, TypeOK
  <2>2. \A i \in Slot : slots'[i] = slots[i] \/ slots'[i].last_seen = now
    BY <2>1
  <2>3. QED
    BY <2>1, <2>2 DEF HeardSinceStart, Live
<1>3. ASSUME NEW i \in Slot, NEW raw \in RawScores, SweepScore(i, raw)
      PROVE  HeardSinceStart'
  BY <1>3 DEF SweepScore, mapVars, HeardSinceStart, Live
<1>4. CASE SweepEnd
  BY <1>4, ReapArrays DEF HeardSinceStart, Live, FreeSlot
<1>5. QED
  BY <1>1, <1>2, <1>3, <1>4, StepKinds, Zenon

LEMMA MembersAreTracked ==
    ASSUME MembershipSound, HeardSinceStart
    PROVE  Members!Member = {m \in Mac : Tracked(slots, m)}
<1>1. \A m \in Mac : MemberSeen[m] = SeenIn(slots)[m]
  BY DEF MemberSeen, SeenIn
<1>2. \A m \in Mac : Tracked(slots, m) => SeenIn(slots)[m] # 0
  BY SeenInSlot DEF MembershipSound, Tracked, Holds, HeardSinceStart, Live
<1>3. \A m \in Mac : ~Tracked(slots, m) => SeenIn(slots)[m] = 0
  BY SeenInSlot DEF MembershipSound
<1>4. QED
  BY <1>1, <1>2, <1>3 DEF Members!Member

(* Members and slots in use are one to one, so a free slot means room. *)
LEMMA FreeSlotMeansRoom ==
    ASSUME MembershipSound, HeardSinceStart, NEW k \in Slot, ~slots[k].in_use
    PROVE  Cardinality(Members!Member) < MaxClients
<1> DEFINE M == {m \in Mac : Tracked(slots, m)}
           f == [m \in M |-> SlotFor(slots, m)]
<1>1. \A m \in M : f[m] \in Slot /\ Holds(slots, f[m], m)
  BY TrackedHasSlot, SlotForChosen
<1>2. f = [m \in M |-> f[m]]
  OBVIOUS
<1> HIDE DEF f
<1>3. \A m \in M : f[m] \in Slot \ {k}
  BY <1>1 DEF Holds
<1>4. f \in [M -> Slot \ {k}]
  BY <1>2, <1>3
<1>5. \A a, b \in M : f[a] = f[b] => a = b
  BY <1>1 DEF Holds
<1> HIDE DEF M
<1>6. f \in Injection(M, Slot \ {k})
  BY <1>4, <1>5 DEF Injection, IsInjective
<1>7. IsFiniteSet(Slot \ {k}) /\ Cardinality(Slot \ {k}) = MaxClients - 1
  BY SlotFinite, SlotCard, FS_RemoveElement
<1>8. /\ IsFiniteSet(M) /\ Cardinality(M) \in Nat
      /\ Cardinality(M) <= MaxClients - 1
  BY <1>6, <1>7, FS_Injection, FS_CardinalityType
<1>9. Members!Member = M
  BY MembersAreTracked DEF M
<1>10. QED
  BY <1>8, <1>9, MaxClientsAssumption

LEMMA StageTouches ==
    ASSUME TypeOK, MembershipSound, HeardSinceStart, NEW mac \in Mac,
           NEW rec \in [active : BOOLEAN, phy_rate : PhyRates],
           StageRecord(mac, rec)
    PROVE  Members!Touch(mac)
<1> DEFINE k == SlotFor(slots, mac)
           new == [mac |-> mac, in_use |-> TRUE, last_seen |-> now]
<1>1. k \in Slot /\ HasSlot(slots, mac) /\ FindOrAdd(slots, mac, k)
  BY SlotForChosen DEF StageRecord
<1>2. slots' = [slots EXCEPT ![k] = new] /\ now' = now
  BY DEF StageRecord, clockVars
<1>3. new.in_use /\ new.mac = mac /\ new.last_seen = now
  OBVIOUS
<1>4. slots = [i \in Slot |-> slots[i]]
  BY DEF TypeOK
<1> HIDE DEF new
<1>5. /\ UniqueMacs(slots')
      /\ \A i \in Slot : i # k => slots'[i] = slots[i]
      /\ slots'[k] = new
  BY <1>1, <1>2, <1>3, <1>4, StoreKeepsUnique DEF MembershipSound
<1> HIDE DEF k
<1>6. SeenIn(slots')[mac] = now
  BY <1>1, <1>3, <1>5, SeenInSlot DEF Holds
<1>7. ASSUME NEW m \in Mac, m # mac
      PROVE  SeenIn(slots')[m] = SeenIn(slots)[m]
  <2>1. ~Holds(slots', k, m) /\ ~Holds(slots, k, m)
    BY <1>1, <1>3, <1>5, <1>7 DEF Holds, FindOrAdd, FirstFree
  <2>2. \A i \in Slot : Holds(slots', i, m) => Holds(slots, i, m) /\ slots'[i] = slots[i]
    BY <1>5, <2>1 DEF Holds
  <2>3. \A i \in Slot : Holds(slots, i, m) => Holds(slots', i, m)
    BY <1>5, <2>1 DEF Holds
  <2>4. CASE Tracked(slots, m)
    <3>1. PICK i \in Slot : Holds(slots, i, m)
      BY <2>4 DEF Tracked
    <3>2. QED
      BY <1>5, <2>2, <2>3, <3>1, SeenInSlot DEF MembershipSound
  <2>5. CASE ~Tracked(slots, m)
    <3>1. ~Tracked(slots', m)
      BY <2>2, <2>5 DEF Tracked
    <3>2. QED
      BY <1>5, <2>5, <3>1, SeenInSlot DEF MembershipSound
  <2>6. QED
    BY <2>4, <2>5
<1>8. mac \in Members!Member \/ Cardinality(Members!Member) < MaxClients
  <2>1. CASE slots[k].in_use
    BY <1>1, <2>1, MembersAreTracked DEF FindOrAdd, FirstFree, Tracked
  <2>2. CASE ~slots[k].in_use
    BY <1>1, <2>2, FreeSlotMeansRoom
  <2>3. QED
    BY <2>1, <2>2
<1>9. MemberSeen = SeenIn(slots) /\ MemberSeen' = SeenIn(slots')
  BY Zenon DEF MemberSeen, SeenIn
<1>10. SeenIn(slots') = [SeenIn(slots) EXCEPT ![mac] = now]
  BY <1>6, <1>7 DEF SeenIn
<1>11. Cardinality(Members!Member) = Members!Cardinality(Members!Member)
  BY DEF Cardinality, Members!Cardinality
<1>12. QED
  BY <1>2, <1>8, <1>9, <1>10, <1>11 DEF Members!Touch

LEMMA ReapExpires ==
    ASSUME TypeOK, MembershipSound, SweepEnd
    PROVE  Members!Expire(now_ms) /\ now_ms \in 1 .. now
<1>1. /\ now_ms \in Nat /\ now_ms \in 1 .. now /\ now' = now
      /\ AbsenceMs \in Nat
  BY ClockAssumption DEF SweepEnd, TypeOK, clockVars
<1>2. \A i \in Slot : slots'[i] = IF i \in Departed THEN FreeSlot ELSE slots[i]
  BY DEF SweepEnd, MapReap
<1>3. UniqueMacs(slots')
  BY <1>2 DEF MembershipSound, UniqueMacs, FreeSlot
<1>4. ASSUME NEW m \in Mac
      PROVE  SeenIn(slots')[m] = IF now_ms - SeenIn(slots)[m] > AbsenceMs
                                 THEN 0 ELSE SeenIn(slots)[m]
  <2>1. CASE Tracked(slots, m)
    <3>1. PICK i \in Slot : Holds(slots, i, m)
      BY <2>1 DEF Tracked
    <3>2. SeenIn(slots)[m] = slots[i].last_seen
      BY <3>1, SeenInSlot DEF MembershipSound
    <3>3. CASE i \in Departed
      <4>1. now_ms - slots[i].last_seen > AbsenceMs
        BY <3>3 DEF Departed
      <4>2. \A j \in Slot : Holds(slots, j, m) => j = i
        BY <3>1 DEF MembershipSound, UniqueMacs, Holds
      <4>3. ~Tracked(slots', m)
        BY <1>2, <3>3, <4>2 DEF Tracked, Holds, FreeSlot
      <4>4. QED
        BY <1>3, <3>2, <4>1, <4>3, SeenInSlot
    <3>4. CASE i \notin Departed
      <4>1. ~(now_ms - slots[i].last_seen > AbsenceMs)
        BY <3>1, <3>4 DEF Departed, Holds
      <4>2. Holds(slots', i, m) /\ slots'[i] = slots[i]
        BY <1>2, <3>1, <3>4 DEF Holds
      <4>3. QED
        BY <1>3, <3>2, <4>1, <4>2, SeenInSlot
    <3>5. QED
      BY <3>3, <3>4
  <2>2. CASE ~Tracked(slots, m)
    <3>1. ~Tracked(slots', m)
      BY <1>2, <2>2 DEF Tracked, Holds, FreeSlot
    <3>2. SeenIn(slots)[m] = 0 /\ SeenIn(slots')[m] = 0
      BY <1>3, <2>2, <3>1, SeenInSlot DEF MembershipSound
    <3>3. QED
      BY <3>2
  <2>3. QED
    BY <2>1, <2>2
<1>5. MemberSeen = SeenIn(slots) /\ MemberSeen' = SeenIn(slots')
  BY Zenon DEF MemberSeen, SeenIn
<1>6. SeenIn(slots') = [m \in Mac |-> IF now_ms - SeenIn(slots)[m] > AbsenceMs
                                      THEN 0 ELSE SeenIn(slots)[m]]
  <2>1. SeenIn(slots') = [m \in Mac |-> SeenIn(slots')[m]]
    BY DEF SeenIn
  <2>2. QED
    BY <1>4, <2>1
<1>7. QED
  BY <1>1, <1>5, <1>6 DEF Members!Expire

LEMMA MemberStep ==
    ASSUME TypeOK, MembershipSound, HeardSinceStart, [Next]_vars
    PROVE  [Members!MemberNext]_<<MemberSeen, now>>
<1>0. MemberSeen = SeenIn(slots) /\ MemberSeen' = SeenIn(slots')
  BY Zenon DEF MemberSeen, SeenIn
<1>1. CASE Elapse
  <2>1. now' = now + 1 /\ slots' = slots
    BY <1>1 DEF Elapse, mapVars
  <2>2. MemberSeen' = MemberSeen
    BY <1>0, <2>1
  <2>3. QED
    BY <2>1, <2>2 DEF Members!MemberNext, Members!Advance
<1>2. ASSUME NEW mac \in Mac,
             NEW rec \in [active : BOOLEAN, phy_rate : PhyRates],
             StageRecord(mac, rec)
      PROVE  Members!MemberNext
  BY <1>2, StageTouches DEF Members!MemberNext
<1>3. CASE SweepEnd
  BY <1>3, ReapExpires DEF Members!MemberNext
<1>4. CASE \/ TickBegin
           \/ \E i \in Slot : SweepSkip(i) \/ SweepGated(i)
           \/ \E i \in Slot, raw \in RawScores : SweepScore(i, raw)
           \/ \E b \in BOOLEAN : SetEnable(b)
           \/ \E mac \in Mac, rec \in [active : BOOLEAN, phy_rate : PhyRates] :
                 StageDrop(mac, rec)
           \/ UNCHANGED vars
  <2>1. UNCHANGED <<now, slots>>
    BY <1>4, Zenon DEF TickBegin, SweepSkip, SweepGated, SweepScore, SetEnable,
       StageDrop, vars, clockVars, mapVars
  <2>2. MemberSeen' = MemberSeen
    BY <1>0, <2>1
  <2>3. QED
    BY <2>1, <2>2
<1>5. QED
  BY <1>1, <1>2, <1>3, <1>4, Zenon DEF Next

-----------------------------------------------------------------------------
EngineInv ==
    /\ TypeOK
    /\ PerfInv
    /\ MembershipSound
    /\ TrackerUnique
    /\ NoInheritedHistory
    /\ LedgerMirrorsVerdict
    /\ AlarmTracksLowRun
    /\ RampRunsOnce
    /\ ExcursionMatchesWindow
    /\ LoopTiming
    /\ StalenessBounded
    /\ LedgerIsHistory /\ LedgerPast
    /\ UntimedOnlyBehindDeparted
    /\ HeardSinceStart

LEMMA InitType == Init => TypeOK
<1> SUFFICES ASSUME Init PROVE TypeOK
  OBVIOUS
<1>1. PerfTypeOK
  BY PerfInitInv DEF Init, PerfInv
<1>2. /\ now \in Nat \ {0} /\ next_tick \in Nat
      /\ pc = "poll" /\ cursor \in 0 .. MaxClients /\ now_ms \in 0 .. now
      /\ count \in 0 .. MaxClients
  BY ClockAssumption, MaxClientsAssumption DEF Init
<1>3. slots \in [Slot -> LiveSlot \cup {FreeSlot}]
  BY DEF Init
<1>4. snapshot \in [Slot -> Sample]
  <2>1. ZeroSample \in Sample
    BY Zenon DEF ZeroSample, Sample
  <2>2. QED
    BY <2>1 DEF Init
<1>5. state \in [Slot -> ClientState]
  <2>1. FreshState \in ClientState
    BY FreshTypes
  <2>2. QED
    BY <2>1 DEF Init
<1>6. result \in [Slot -> Result]
  <2>1. 0 \in 0 .. MaxScore
    BY ScaleNat, Z3
  <2>2. [score |-> 0, verdict |-> "smooth", video_degrade |-> FALSE] \in Result
    BY <2>1, Zenon DEF Result, Class
  <2>3. QED
    BY <2>2 DEF Init
<1>7. ledger \in [Slot -> Ledger]
  <2>1. EmptyLedger \in Ledger
    BY FreshTypes
  <2>2. QED
    BY <2>1 DEF Init
<1>8. tracker \in [Slot -> Entry]
  BY DEF Init, TrackInit, Entry
<1>9. QED
  BY <1>1, <1>2, <1>3, <1>4, <1>5, <1>6, <1>7, <1>8 DEF TypeOK

LEMMA InitInv == Init => EngineInv
<1> SUFFICES ASSUME Init PROVE EngineInv
  OBVIOUS
<1>1. TypeOK /\ PerfInv
  BY InitType, PerfInitInv DEF Init
<1>2. \A i \in Slot : /\ ~Live(i) /\ ~Scored(i) /\ ~tracker[i].in_use
                      /\ state[i] = FreshState /\ ledger[i] = EmptyLedger
  BY DEF Init, Live, Scored, FreeSlot, TrackInit, FreeEntry
<1>3. MembershipSound
  <2>1. {i \in Slot : Live(i)} = {}
    BY <1>2
  <2>2. count = Cardinality({})
    BY FS_EmptySet DEF Init
  <2>3. QED
    BY <1>2, <2>1, <2>2 DEF MembershipSound, UniqueMacs, Live
<1>4. TrackerUnique
  BY <1>2 DEF TrackerUnique, UniqueMacs
<1>5. NoInheritedHistory /\ LedgerMirrorsVerdict /\ RampRunsOnce
  BY <1>2 DEF NoInheritedHistory, LedgerMirrorsVerdict, RampRunsOnce
<1>6. AlarmTracksLowRun
  <2>1. ~(0 >= LatencySustain)
    BY SustainAssumption
  <2>2. ~FreshState.alarm /\ FreshState.threshold_cross = 0
    BY FreshFields, Zenon
  <2>3. \A i \in Slot : state[i].alarm <=> state[i].threshold_cross >= LatencySustain
    BY <1>2, <2>1, <2>2
  <2>4. QED
    BY <1>2, <2>3 DEF AlarmTracksLowRun
<1>7. ExcursionMatchesWindow
  BY <1>2 DEF ExcursionMatchesWindow
<1>8. LoopTiming
  BY <1>2, ClockAssumption DEF LoopTiming, Init
<1>9. StalenessBounded
  BY DEF StalenessBounded, Init
<1>10. LedgerIsHistory
  BY <1>2, EmptyLedgerSound, HistoryIsPerLog
<1>11. LedgerPast
  BY <1>2, EmptyLedgerSound DEF LedgerPast
<1>12. UntimedOnlyBehindDeparted
  BY DEF UntimedOnlyBehindDeparted, Init
<1>13. HeardSinceStart
  BY <1>2 DEF HeardSinceStart
<1>14. QED
  BY <1>1, <1>3, <1>4, <1>5, <1>6, <1>7, <1>8, <1>9, <1>10, <1>11, <1>12,
     <1>13 DEF EngineInv

LEMMA NextInv == EngineInv /\ [Next]_vars => EngineInv'
<1> SUFFICES ASSUME EngineInv, [Next]_vars PROVE EngineInv'
  OBVIOUS
<1>1. PerfInv'
  BY PerfStep, PerfNextInv DEF EngineInv
<1>2. TypeOK'
  BY <1>1, TypeStep DEF EngineInv, PerfInv
<1>3. QED
  BY <1>1, <1>2, MembershipStep, TrackerUniqueStep, HistoryStep,
     LedgerMirrorStep, AlarmStep, RampStep, ExcursionStep, TimingStep,
     StalenessStep, LedgerHistoryStep, UntimedStep, HeardStep DEF EngineInv

LEMMA EngineInvariant == Spec => []EngineInv
BY InitInv, NextInv, PTL DEF Spec

(* The engine's arrays keep their declared types and its counters stay at  *)
(* or below their saturation values, whatever the sizes and the policy.    *)
THEOREM TypeCorrect == Spec => []TypeOK
<1>1. EngineInv => TypeOK
  BY DEF EngineInv
<1>2. QED
  BY EngineInvariant, <1>1, PTL

(* Staging and reaping keep one slot per station and an exact count.       *)
THEOREM MembershipIsSound == Spec => []MembershipSound
<1>1. EngineInv => MembershipSound
  BY DEF EngineInv
<1>2. QED
  BY EngineInvariant, <1>1, PTL

(* A reclaimed slot inherits no client state and no episodes.              *)
THEOREM HistoryNotInherited == Spec => []NoInheritedHistory
<1>1. EngineInv => NoInheritedHistory
  BY DEF EngineInv
<1>2. QED
  BY EngineInvariant, <1>1, PTL

(* The ledger's newest episode is open exactly while the latest verdict of *)
(* the slot's station is degraded.                                         *)
THEOREM LedgerMirrors == Spec => []LedgerMirrorsVerdict
<1>1. EngineInv => LedgerMirrorsVerdict
  BY DEF EngineInv
<1>2. QED
  BY EngineInvariant, <1>1, PTL

(* The alarm is set exactly when the sub-band run reached the sustain      *)
(* count, through saturation of the counter.                               *)
THEOREM AlarmIsTheRun == Spec => []AlarmTracksLowRun
<1>1. EngineInv => AlarmTracksLowRun
  BY DEF EngineInv
<1>2. QED
  BY EngineInvariant, <1>1, PTL

(* A client's score is damped on its first RampTicks samples and on no     *)
(* other.                                                                  *)
THEOREM RampOncePerAdmission == Spec => []RampRunsOnce
<1>1. EngineInv => RampRunsOnce
  BY DEF EngineInv
<1>2. QED
  BY EngineInvariant, <1>1, PTL

(* The tracker's clock for a scored client runs exactly while the client's *)
(* window is out of band, although map and tracker reap separately.        *)
THEOREM ExcursionsMatch == Spec => []ExcursionMatchesWindow
<1>1. EngineInv => ExcursionMatchesWindow
  BY DEF EngineInv
<1>2. QED
  BY EngineInvariant, <1>1, PTL

(* A client silent for longer than the absence window, one period and the  *)
(* loop's lateness is not in the map when a sweep runs.                    *)
THEOREM StaleClientsLeave == Spec => []StalenessBounded
<1>1. EngineInv => StalenessBounded
  BY DEF EngineInv
<1>2. QED
  BY EngineInvariant, <1>1, PTL

(* Through ring wrap, idle gaps and reuse of the slot, the episode ring is *)
(* a history: closed episodes in order, at most the newest one open, and   *)
(* never more of them than the frequency count says.                       *)
THEOREM LedgerKeepsHistory == Spec => []LedgerIsHistory
<1>1. EngineInv => LedgerIsHistory
  BY DEF EngineInv
<1>2. QED
  BY EngineInvariant, <1>1, PTL

(* wei_track_get refuses a member only while a station that has left the   *)
(* map still holds an entry, for any capacity.                             *)
THEOREM MembersAlwaysTimed == Spec => []UntimedOnlyBehindDeparted
<1>1. EngineInv => UntimedOnlyBehindDeparted
  BY DEF EngineInv
<1>2. QED
  BY EngineInvariant, <1>1, PTL

(* Slots, first-free reuse and the reap at the end of a sweep implement a   *)
(* bounded set of stations: staging a record touches its station, and only *)
(* the reap takes stations away, exactly the ones unheard for too long.    *)
THEOREM EngineImplementsMemberSet == Spec => ImplementsMemberSet
<1>1. Init => Members!MemberInit
  <2>1. ASSUME Init, NEW m \in Mac PROVE ~Tracked(slots, m)
    BY <2>1 DEF Init, Tracked, Holds, FreeSlot
  <2>2. QED
    BY <2>1 DEF Members!MemberInit, MemberSeen, Init
<1>2. EngineInv /\ [Next]_vars => [Members!MemberNext]_<<MemberSeen, now>>
  BY MemberStep DEF EngineInv
<1>3. QED
  BY EngineInvariant, <1>1, <1>2, PTL
     DEF Spec, ImplementsMemberSet, Members!MemberSpec

(* The engine uses the publisher only the way its own specification        *)
(* allows: everything proved of PerfSpec holds inside the engine.          *)
THEOREM EngineImplementsPublisher == Spec => PerfSpec
<1>1. Init => PerfInit
  BY DEF Init
<1>2. EngineInv /\ [Next]_vars => [PerfNext]_perfVars
  BY PerfStep DEF EngineInv
<1>3. QED
  BY EngineInvariant, <1>1, <1>2, PTL DEF Spec, PerfSpec

(* So the events the engine's sweeps deliver about one client alternate.   *)
THEOREM EngineEventsAlternate == Spec => []ReportsAlternate
BY EngineImplementsPublisher, EventsAlternate, PTL
=============================================================================
