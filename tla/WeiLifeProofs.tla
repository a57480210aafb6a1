--------------------------- MODULE WeiLifeProofs ----------------------------
(***************************************************************************)
(* Proofs about the lifecycle roster. The event thread and the walk meet   *)
(* at single slots, so the invariant has a part per context (its clocks    *)
(* and its history), a part for the table, and a part for the walk: what   *)
(* it has passed is evaluated, and what it still has to deliver is about   *)
(* the association it was taken from.                                      *)
(***************************************************************************)
EXTENDS WeiLife, SlotTableProofs, FiniteSetTheorems

Record == Samples \cup {ZeroRecord}

(* The trackers of a context between two evaluations: collected, and not   *)
(* keyed by a MAC.                                                         *)
Clock == [mac : {NoMac}, in_use : {FALSE}, last_seen : {0},
          start_ts : 0 .. MaxTime, accumulated : {0}, count : {0}]

Context ==
    [mac : Mac, in_use : {TRUE}, sample : Record, track : [Metric -> Clock],
     attached_at : 1 .. MaxTime, first_at : 0 .. MaxTime,
     evaluated_at : 0 .. MaxTime, evaluated : Record]

(* Reports of an evaluation at t of an association first evaluated at o. *)
Due(t, o) ==
    {r \in [mac : Mac, metric : Metric, onset_count : Nat, duration_ms : Int] :
        r.duration_ms > 0 =>
            r.duration_ms >= Dwell[r.metric] /\ r.duration_ms <= t - o}

LifeTypeOK ==
    /\ now \in 1 .. MaxTime
    /\ roster \in [Slot -> Context \cup {NoCtx}]
    /\ pc \in {"idle", "walk", "report"}
    /\ cursor \in 0 .. MaxClients
    /\ now_ms \in 0 .. MaxTime /\ now_ms <= now
    /\ pc # "idle" => now_ms > 0

(* A clock started in this association, and runs as the record last        *)
(* evaluated says.                                                         *)
CtxSound(c, t) ==
    /\ c.first_at <= t
    /\ \A m \in Metric : c.track[m].start_ts # 0 =>
          c.first_at # 0 /\ c.first_at <= c.track[m].start_ts
    /\ c.evaluated_at > 0 =>
          \A m \in Metric : c.evaluated[m] < Half =>
              (c.track[m].start_ts # 0 <=> OutOfBand(c.evaluated, m))

ContextsSound == \A i \in Slot : roster[i].in_use => CtxSound(roster[i], now_ms)

(* The private copy that is being delivered. *)
BatchSound ==
    /\ batch \in Seq(Due(now_ms, origin))
    /\ pc = "report" => batch # <<>> /\ cursor \in Slot
    /\ pc # "report" => batch = <<>>

(* The slots this walk, or the last one, is done with. *)
Passed(i) == pc = "idle" \/ i < cursor \/ (pc = "report" /\ i = cursor)

PassedEvaluated ==
    \A i \in Slot : Passed(i) /\ roster[i].in_use /\ roster[i].attached_at < now_ms =>
        roster[i].evaluated_at = now_ms

LifeInv == LifeTypeOK /\ RosterSound /\ ContextsSound /\ BatchSound /\ PassedEvaluated

-----------------------------------------------------------------------------
(* The detectors. *)
LEMMA RecordValues ==
    ASSUME NEW rec \in Record, NEW m \in Metric
    PROVE  rec[m] \in 0 .. 2 * Half - 1
BY SamplesAssumption DEF Record, ZeroRecord

(* What a detector hands to the tracker is below its band exactly when the *)
(* metric is out of the policy's, for values that the conversion keeps.    *)
LEMMA ReadingMeans ==
    ASSUME NEW rec \in Record, NEW m \in Metric
    PROVE  /\ Reading(rec, m) \in Int /\ TrackBand(m) \in Int
           /\ rec[m] < Half =>
                 (Reading(rec, m) < TrackBand(m) <=> OutOfBand(rec, m))
<1>1. rec[m] \in 0 .. 2 * Half - 1
  BY RecordValues
<1>2. Band[m] \in 0 .. Half - 1 /\ Half \in Nat \ {0}
  BY LifePolicyAssumption, SamplesAssumption
<1> DEFINE v == rec[m]
           b == Band[m]
<1>3. v \in 0 .. 2 * Half - 1 /\ b \in 0 .. Half - 1
  BY <1>1, <1>2
<1> HIDE DEF v, b
<1>4. /\ Int32(v) \in Int /\ Negated(Int32(v)) \in Int
      /\ v < Half => Int32(v) = v /\ Negated(Int32(v)) = -v
  BY <1>2, <1>3 DEF Int32, Negated
<1>5. CASE m \in Inverted
  <2>1. Reading(rec, m) = Negated(Int32(v)) /\ TrackBand(m) = -b
        /\ (OutOfBand(rec, m) <=> v > b)
    BY <1>5 DEF Reading, TrackBand, OutOfBand, v, b
  <2>2. QED
    BY <2>1, <1>3, <1>4 DEF v
<1>6. CASE m \notin Inverted
  <2>1. Reading(rec, m) = Int32(v) /\ TrackBand(m) = b
        /\ (OutOfBand(rec, m) <=> v < b)
    BY <1>6 DEF Reading, TrackBand, OutOfBand, v, b
  <2>2. QED
    BY <2>1, <1>3, <1>4 DEF v
<1>7. QED
  BY <1>5, <1>6

(* The same after a tick, before the interval is collected. *)
Ticking == [mac : {NoMac}, in_use : {FALSE}, last_seen : {0},
            start_ts : 0 .. MaxTime, accumulated : Int, count : Nat]

LEMMA CollectMeans ==
    ASSUME NEW r \in Ticking
    PROVE  TrackCollect(r) \in Clock /\ TrackCollect(r).start_ts = r.start_ts
<1>1. 0 \in {0}
  OBVIOUS
<1>2. QED
  BY <1>1, Zenon DEF TrackCollect, Ticking, Clock

(* One tick of a tracker: the clock runs exactly below the band, keeps its *)
(* start, and hands out a dwell only when it closes.                       *)
LEMMA TickMeans ==
    ASSUME NEW e \in Clock, NEW v \in Int, NEW t \in 1 .. MaxTime,
           NEW b \in Int, NEW f \in Nat,
           NEW r, r = TrackTick(e, v, t, b, f)
    PROVE  /\ r \in Ticking
           /\ r.start_ts # 0 <=> v < b
           /\ r.start_ts # 0 => r.start_ts = t \/ r.start_ts = e.start_ts
           /\ \/ r.accumulated = 0
              \/ /\ e.start_ts # 0 /\ r.accumulated = t - e.start_ts
                 /\ r.accumulated >= f
<1>0. /\ MaxTime \in Nat /\ t \in 0 .. MaxTime /\ 0 \in 0 .. MaxTime /\ t # 0
      /\ 0 \in Int /\ 0 \in Nat /\ 1 \in Nat
  BY LifePolicyAssumption
<1>1. e.start_ts \in 0 .. MaxTime /\ e.accumulated = 0 /\ e.count = 0
  BY DEF Clock
<1>2. e \in Ticking
  BY <1>0, Zenon DEF Clock, Ticking
<1>3. CASE v < b /\ e.start_ts = 0
  <2>1. e.count + 1 = 1
    BY <1>1
  <2>2. r = [e EXCEPT !.start_ts = t, !.count = 1]
    BY <1>3, <2>1, Zenon DEF TrackTick
  <2>3. r \in Ticking /\ r.start_ts = t /\ r.accumulated = e.accumulated
    BY <1>0, <1>2, <2>2, Zenon DEF Ticking
  <2>4. QED
    BY <1>0, <1>1, <1>3, <2>3
<1>4. CASE ~(v < b) /\ e.start_ts # 0
  <2> DEFINE d == t - e.start_ts
             a == IF d >= f THEN e.accumulated + d ELSE e.accumulated
  <2>1. d \in Int /\ 0 + d = d
    BY <1>0, <1>1
  <2>2. r = [e EXCEPT !.start_ts = 0, !.accumulated = a]
    BY <1>4, Zenon DEF TrackTick
  <2>3. e.accumulated + d = d
    BY <1>1, <2>1, Zenon
  <2>4. (d >= f /\ a = d) \/ a = 0
    BY <1>1, <2>3, Zenon
  <2> HIDE DEF a, d
  <2>5. a \in Int /\ (a = 0 \/ (a = d /\ a >= f))
    <3>1. CASE d >= f /\ a = d
      BY <2>1, <3>1
    <3>2. CASE a = 0
      BY <1>0, <3>2, Zenon
    <3>3. QED
      BY <2>4, <3>1, <3>2
  <2>6. r \in Ticking /\ r.start_ts = 0 /\ r.accumulated = a
    BY <1>0, <1>2, <2>5, <2>2, Zenon DEF Ticking
  <2>7. QED
    BY <1>4, <2>5, <2>6 DEF d
<1>5. CASE v < b <=> e.start_ts # 0
  <2>1. r = e
    BY <1>5, Zenon DEF TrackTick
  <2>2. QED
    BY <1>1, <1>2, <1>5, <2>1
<1>6. QED
  BY <1>3, <1>4, <1>5

LEMMA ClockOfContext ==
    ASSUME NEW c \in Context, NEW m \in Metric
    PROVE  c.track[m] \in Clock /\ c.track[m].start_ts \in Nat
<1>1. c.track[m] \in Clock
  BY DEF Context
<1>2. c.track[m].start_ts \in 0 .. MaxTime
  BY <1>1, Zenon DEF Clock
<1>3. QED
  BY <1>1, <1>2, LifePolicyAssumption

LEMMA TickedMeans ==
    ASSUME NEW c \in Context, NEW m \in Metric, now_ms \in 1 .. MaxTime
    PROVE  LET r == Ticked(c, m) IN
           /\ r \in Ticking
           /\ c.sample[m] < Half => (r.start_ts # 0 <=> OutOfBand(c.sample, m))
           /\ r.start_ts # 0 => r.start_ts = now_ms \/ r.start_ts = c.track[m].start_ts
           /\ \/ r.accumulated = 0
              \/ /\ c.track[m].start_ts # 0
                 /\ r.accumulated = now_ms - c.track[m].start_ts
                 /\ r.accumulated >= Dwell[m]
<1>1. c.track[m] \in Clock /\ c.sample \in Record
  BY ClockOfContext DEF Context
<1>2. Dwell[m] \in Nat
  BY LifePolicyAssumption
<1>3. Reading(c.sample, m) \in Int /\ TrackBand(m) \in Int
  BY <1>1, ReadingMeans
<1>4. Ticked(c, m) = TrackTick(c.track[m], Reading(c.sample, m), now_ms,
                               TrackBand(m), Dwell[m])
  BY DEF Ticked
<1>5. QED
  BY <1>1, <1>2, <1>3, <1>4, TickMeans, ReadingMeans

(* A detector's report, and with it the batch, is about the association it *)
(* was evaluated in.                                                       *)
LEMMA ReportDue ==
    ASSUME NEW c \in Context, CtxSound(c, now_ms), NEW m \in Metric,
           now_ms \in 1 .. MaxTime
    PROVE  Report(c, m) \in Seq(Due(now_ms, Evaluated(c).first_at))
<1> DEFINE r == Ticked(c, m)
           o == Evaluated(c).first_at
           x == [mac |-> c.mac, metric |-> m, onset_count |-> r.count,
                 duration_ms |-> r.accumulated]
<1>1. /\ r \in Ticking
      /\ \/ r.accumulated = 0
         \/ /\ c.track[m].start_ts # 0
            /\ r.accumulated = now_ms - c.track[m].start_ts
            /\ r.accumulated >= Dwell[m]
  BY TickedMeans
<1>2. o = IF c.first_at = 0 THEN now_ms ELSE c.first_at
  BY DEF Evaluated, Context
<1>3. c.first_at \in Nat /\ c.mac \in Mac /\ c.track[m].start_ts \in Nat
  <2>1. c.first_at \in 0 .. MaxTime /\ c.mac \in Mac
    BY Zenon DEF Context
  <2>2. QED
    BY <2>1, ClockOfContext, LifePolicyAssumption
<1> HIDE DEF o
<1>4. r.accumulated > 0 => r.accumulated >= Dwell[m] /\ r.accumulated <= now_ms - o
  BY <1>1, <1>2, <1>3 DEF CtxSound
<1>5. r.count \in Nat /\ r.accumulated \in Int
  BY <1>1 DEF Ticking
<1>6. x \in Due(now_ms, o)
  <2> HIDE DEF r
  <2>1. x \in [mac : Mac, metric : Metric, onset_count : Nat, duration_ms : Int]
    BY <1>3, <1>5, Zenon
  <2>2. x.duration_ms = r.accumulated /\ x.metric = m
    BY Zenon
  <2>3. QED
    BY <1>4, <2>1, <2>2, Zenon DEF Due
<1>7. Report(c, m) = IF Produced(c, m) THEN <<x>> ELSE <<>>
  BY Zenon DEF Report
<1> DEFINE D == Due(now_ms, o)
<1>8. x \in D
  BY <1>6
<1> HIDE DEF x, D
<1>9. Report(c, m) \in Seq(D)
  BY <1>7, <1>8
<1>10. QED
  BY <1>9, Zenon DEF D, o

LEMMA ExcursionsDue ==
    ASSUME NEW c \in Context, CtxSound(c, now_ms), now_ms \in 1 .. MaxTime
    PROVE  Excursions(c) \in Seq(Due(now_ms, Evaluated(c).first_at))
<1> DEFINE D == Due(now_ms, Evaluated(c).first_at)
<1>1. /\ Report(c, "snr") \in Seq(D) /\ Report(c, "loss") \in Seq(D)
      /\ Report(c, "phy") \in Seq(D) /\ Report(c, "chanutil") \in Seq(D)
  BY ReportDue DEF Metric
<1> HIDE DEF D
<1>2. Report(c, "snr") \o Report(c, "loss") \in Seq(D)
  BY <1>1
<1>3. Report(c, "snr") \o Report(c, "loss") \o Report(c, "phy") \in Seq(D)
  BY <1>1, <1>2
<1>4. QED
  BY <1>1, <1>3 DEF Excursions, D

(* A context after its detectors ran is a context, and its clocks are      *)
(* right for the record they ran on.                                       *)
LEMMA EvaluatedSound ==
    ASSUME NEW c \in Context, CtxSound(c, now_ms), now_ms \in 1 .. MaxTime
    PROVE  /\ Evaluated(c) \in Context
           /\ CtxSound(Evaluated(c), now_ms)
           /\ Evaluated(c).mac = c.mac
           /\ Evaluated(c).attached_at = c.attached_at
           /\ Evaluated(c).evaluated_at = now_ms
<1> DEFINE tr == [m \in Metric |-> TrackCollect(Ticked(c, m))]
           fa == IF c.first_at = 0 THEN now_ms ELSE c.first_at
<1>1. tr \in [Metric -> Clock]
  BY TickedMeans, CollectMeans
<1>2. /\ MaxTime \in Nat /\ c.first_at \in 0 .. MaxTime /\ c.first_at <= now_ms
      /\ c.sample \in Record
  BY LifePolicyAssumption DEF Context, CtxSound
<1>3. fa \in 0 .. MaxTime /\ fa # 0 /\ fa <= now_ms /\ now_ms \in 0 .. MaxTime
  BY <1>2
<1>4. Evaluated(c) = [c EXCEPT !.track = tr, !.first_at = fa,
                               !.evaluated_at = now_ms, !.evaluated = c.sample]
  BY Zenon DEF Evaluated
<1>5. \A m \in Metric : tr[m].start_ts = Ticked(c, m).start_ts
  BY TickedMeans, CollectMeans
<1>6. \A m \in Metric : c.track[m].start_ts \in Nat
  BY ClockOfContext
<1>7. \A m \in Metric : tr[m].start_ts # 0 => fa <= tr[m].start_ts
  <2> SUFFICES ASSUME NEW m \in Metric, tr[m].start_ts # 0
               PROVE  fa <= tr[m].start_ts
    OBVIOUS
  <2>1. tr[m].start_ts = now_ms \/ tr[m].start_ts = c.track[m].start_ts
    BY <1>5, TickedMeans
  <2> HIDE DEF tr
  <2>2. CASE tr[m].start_ts = now_ms
    BY <1>3, <2>2
  <2>3. CASE tr[m].start_ts = c.track[m].start_ts
    BY <1>2, <2>3 DEF CtxSound
  <2>4. QED
    BY <2>1, <2>2, <2>3
<1>8. \A m \in Metric : c.sample[m] < Half =>
          (tr[m].start_ts # 0 <=> OutOfBand(c.sample, m))
  BY <1>5, TickedMeans
<1> HIDE DEF tr, fa
<1>9. /\ Evaluated(c) \in Context /\ Evaluated(c).mac = c.mac
      /\ Evaluated(c).attached_at = c.attached_at
      /\ Evaluated(c).track = tr /\ Evaluated(c).first_at = fa
      /\ Evaluated(c).evaluated = c.sample /\ Evaluated(c).evaluated_at = now_ms
  BY <1>1, <1>2, <1>3, <1>4, Zenon DEF Context
<1>10. CtxSound(Evaluated(c), now_ms)
  BY <1>3, <1>7, <1>8, <1>9 DEF CtxSound
<1>11. QED
  BY <1>9, <1>10

-----------------------------------------------------------------------------
(* The table. *)
LEMMA SlotsFinite == ASSUME NEW S \in SUBSET Slot PROVE IsFiniteSet(S)
<1>1. IsFiniteSet(Slot)
  BY FS_Interval, MaxClientsAssumption DEF Slot
<1>2. QED
  BY <1>1, FS_Subset

LEMMA InUseIsContext ==
    ASSUME LifeTypeOK, NEW i \in Slot
    PROVE  /\ roster[i].in_use => roster[i] \in Context
           /\ roster[i] = NoCtx \/ roster[i] \in Context
<1>1. roster[i] = NoCtx \/ roster[i] \in Context
  BY DEF LifeTypeOK
<1>2. ~NoCtx.in_use
  BY DEF NoCtx
<1>3. QED
  BY <1>1, <1>2, Zenon

LEMMA NewCtxSound ==
    ASSUME LifeTypeOK, NEW mac \in Mac, NEW t \in Nat
    PROVE  /\ NewCtx(mac) \in Context /\ CtxSound(NewCtx(mac), t)
           /\ NewCtx(mac).in_use /\ NewCtx(mac).mac = mac
           /\ NewCtx(mac).attached_at = now
<1>1. now \in 1 .. MaxTime /\ 0 \in 0 .. MaxTime
  BY LifePolicyAssumption DEF LifeTypeOK
<1>2. ZeroRecord \in Record
  BY DEF Record
<1>3. FreeEntry \in Clock
  BY <1>1, Zenon DEF FreeEntry, Clock
<1>4. [m \in Metric |-> FreeEntry] \in [Metric -> Clock]
  BY <1>3
<1>5. NewCtx(mac) \in Context
  BY <1>1, <1>2, <1>4, Zenon DEF NewCtx, Context
<1>6. /\ NewCtx(mac).in_use /\ NewCtx(mac).mac = mac
      /\ NewCtx(mac).attached_at = now /\ NewCtx(mac).first_at = 0
      /\ NewCtx(mac).evaluated_at = 0
      /\ NewCtx(mac).track = [m \in Metric |-> FreeEntry]
  BY Zenon DEF NewCtx
<1>7. FreeEntry.start_ts = 0
  BY Zenon DEF FreeEntry
<1>8. \A m \in Metric : NewCtx(mac).track[m].start_ts = 0
  BY <1>6, <1>7, Zenon
<1>9. CtxSound(NewCtx(mac), t)
  BY <1>6, <1>8 DEF CtxSound
<1>10. QED
  BY <1>5, <1>6, <1>9

(* What every part of the invariant needs of a step that only writes one   *)
(* slot: that slot is sound again and, if the walk has passed it,          *)
(* evaluated or newer than the walk.                                       *)
LEMMA WriteSlot ==
    ASSUME LifeInv, NEW k \in Slot, NEW c \in Context \cup {NoCtx},
           roster' = [roster EXCEPT ![k] = c],
           c.in_use => CtxSound(c, now_ms),
           c.in_use /\ Passed(k) /\ c.attached_at < now_ms =>
               c.evaluated_at = now_ms,
           UNCHANGED <<now, pc, cursor, now_ms>>
    PROVE  LifeTypeOK' /\ ContextsSound' /\ PassedEvaluated'
<1> USE DEF LifeInv
<1>1. \A i \in Slot : roster'[i] = IF i = k THEN c ELSE roster[i]
  BY DEF LifeTypeOK
<1>2. LifeTypeOK'
  BY DEF LifeTypeOK
<1>3. ContextsSound'
  BY <1>1 DEF ContextsSound
<1>4. PassedEvaluated'
  BY <1>1 DEF PassedEvaluated, Passed
<1>5. QED
  BY <1>2, <1>3, <1>4

LEMMA BatchLeftAlone ==
    ASSUME BatchSound, UNCHANGED <<pc, cursor, now_ms, batch, origin>>
    PROVE  BatchSound'
BY DEF BatchSound

LEMMA AttachInv == ASSUME LifeInv, NEW mac \in Mac, Attach(mac) PROVE LifeInv'
<1> DEFINE k == SlotFor(roster, mac)
           c == NewCtx(mac)
<1>1. LifeTypeOK /\ RosterSound /\ BatchSound /\ ContextsSound
  BY DEF LifeInv
<1>2. /\ ~Tracked(roster, mac) /\ HasSlot(roster, mac)
      /\ roster' = [roster EXCEPT ![k] = c] /\ active' = active + 1
      /\ UNCHANGED <<now, pc, cursor, now_ms, batch, origin>>
  BY DEF Attach, Attached, walkVars
<1>3. k \in Slot /\ ~roster[k].in_use
  BY <1>2, SlotForChosen DEF FindOrAdd, FirstFree, Tracked
<1>4. now_ms \in Nat /\ now \in Nat /\ now_ms <= now
  BY <1>1, LifePolicyAssumption DEF LifeTypeOK
<1>5. /\ c \in Context /\ CtxSound(c, now_ms) /\ c.in_use /\ c.mac = mac
      /\ c.attached_at = now
  BY <1>1, <1>4, NewCtxSound
<1> HIDE DEF k, c
<1>6. LifeTypeOK' /\ ContextsSound' /\ PassedEvaluated'
  <2>1. ~(c.attached_at < now_ms)
    BY <1>4, <1>5
  <2>2. c \in Context \cup {NoCtx}
    BY <1>5
  <2>3. QED
    BY <1>2, <1>3, <1>5, <2>1, <2>2, WriteSlot
<1>7. BatchSound'
  BY <1>1, <1>2, BatchLeftAlone
<1>8. UniqueMacs(roster')
  <2>1. roster = [i \in Slot |-> roster[i]]
    BY <1>1 DEF LifeTypeOK
  <2>2. QED
    BY <1>1, <1>2, <1>5, <2>1, StoreKeepsUnique DEF RosterSound, k
<1>9. active' = Cardinality({i \in Slot : roster'[i].in_use})
  <2> DEFINE S == {i \in Slot : roster[i].in_use}
  <2>1. {i \in Slot : roster'[i].in_use} = S \cup {k}
    BY <1>1, <1>2, <1>3, <1>5 DEF LifeTypeOK
  <2>2. IsFiniteSet(S) /\ k \notin S
    BY <1>3, SlotsFinite
  <2>3. active = Cardinality(S)
    BY <1>1 DEF RosterSound
  <2> HIDE DEF S
  <2>4. Cardinality(S \cup {k}) = Cardinality(S) + 1
    BY <2>2, FS_AddElement
  <2>5. QED
    BY <1>2, <2>1, <2>3, <2>4
<1>10. QED
  BY <1>6, <1>7, <1>8, <1>9 DEF LifeInv, RosterSound

LEMMA DetachInv == ASSUME LifeInv, NEW mac \in Mac, Detach(mac) PROVE LifeInv'
<1> DEFINE k == SlotFor(roster, mac)
<1>1. LifeTypeOK /\ RosterSound /\ BatchSound
  BY DEF LifeInv
<1>2. /\ Tracked(roster, mac)
      /\ roster' = [roster EXCEPT ![k] = NoCtx] /\ active' = active - 1
      /\ UNCHANGED <<now, pc, cursor, now_ms, batch, origin>>
  BY DEF Detach, Attached, walkVars
<1>3. k \in Slot /\ roster[k].in_use
  BY <1>2, TrackedHasSlot, SlotForChosen DEF Holds
<1>4. ~NoCtx.in_use
  BY DEF NoCtx
<1> HIDE DEF k
<1>5. LifeTypeOK' /\ ContextsSound' /\ PassedEvaluated'
  BY <1>2, <1>3, <1>4, WriteSlot
<1>6. BatchSound'
  BY <1>1, <1>2, BatchLeftAlone
<1>7. \A i \in Slot : roster'[i] = IF i = k THEN NoCtx ELSE roster[i]
  BY <1>1, <1>2 DEF LifeTypeOK
<1>8. UniqueMacs(roster')
  BY <1>1, <1>4, <1>7 DEF UniqueMacs, RosterSound
<1>9. active' = Cardinality({i \in Slot : roster'[i].in_use})
  <2> DEFINE S == {i \in Slot : roster[i].in_use}
  <2>1. {i \in Slot : roster'[i].in_use} = S \ {k}
    BY <1>3, <1>4, <1>7
  <2>2. IsFiniteSet(S) /\ k \in S
    BY <1>3, SlotsFinite
  <2>3. active = Cardinality(S)
    BY <1>1 DEF RosterSound
  <2> HIDE DEF S
  <2>4. Cardinality(S \ {k}) = Cardinality(S) - 1
    BY <2>2, FS_RemoveElement
  <2>5. QED
    BY <1>2, <2>1, <2>3, <2>4
<1>10. QED
  BY <1>5, <1>6, <1>8, <1>9 DEF LifeInv, RosterSound

(* Rewriting a context in place changes neither its key nor the count. *)
LEMMA KeepsRoster ==
    ASSUME RosterSound, NEW k \in Slot, NEW c, DOMAIN roster = Slot,
           roster' = [roster EXCEPT ![k] = c], active' = active,
           roster[k].in_use, c.in_use, c.mac = roster[k].mac
    PROVE  RosterSound'
<1>1. \A i \in Slot : roster'[i] = IF i = k THEN c ELSE roster[i]
  OBVIOUS
<1>2. \A i \in Slot : (roster'[i].in_use <=> roster[i].in_use)
                      /\ roster'[i].mac = roster[i].mac
  BY <1>1
<1>3. {i \in Slot : roster'[i].in_use} = {i \in Slot : roster[i].in_use}
  BY <1>2
<1>4. UniqueMacs(roster')
  BY <1>2 DEF UniqueMacs, RosterSound
<1>5. QED
  BY <1>3, <1>4 DEF RosterSound

LEMMA IngestInv ==
    ASSUME LifeInv, NEW mac \in Mac, NEW rec \in Samples, Ingest(mac, rec)
    PROVE  LifeInv'
<1> DEFINE k == SlotFor(roster, mac)
           c == [roster[k] EXCEPT !.sample = rec]
<1>1. LifeTypeOK /\ RosterSound /\ BatchSound /\ ContextsSound /\ PassedEvaluated
  BY DEF LifeInv
<1>2. /\ Tracked(roster, mac)
      /\ roster' = [roster EXCEPT ![k] = c] /\ active' = active
      /\ UNCHANGED <<now, pc, cursor, now_ms, batch, origin>>
  BY DEF Ingest, Attached, walkVars
<1>3. k \in Slot /\ roster[k].in_use
  BY <1>2, TrackedHasSlot, SlotForChosen DEF Holds
<1>4. roster[k] \in Context
  BY <1>1, <1>3, InUseIsContext
<1>5. rec \in Record
  BY DEF Record
<1>6. /\ c \in Context /\ c.in_use = roster[k].in_use /\ c.mac = roster[k].mac
      /\ c.attached_at = roster[k].attached_at /\ c.first_at = roster[k].first_at
      /\ c.evaluated_at = roster[k].evaluated_at
      /\ c.evaluated = roster[k].evaluated /\ c.track = roster[k].track
  BY <1>4, <1>5, Zenon DEF Context
<1> HIDE DEF k, c
<1>7. CtxSound(c, now_ms)
  BY <1>1, <1>3, <1>6 DEF ContextsSound, CtxSound
<1>8. c \in Context \cup {NoCtx}
  BY <1>6
<1>9. Passed(k) /\ c.attached_at < now_ms => c.evaluated_at = now_ms
  BY <1>1, <1>3, <1>6 DEF PassedEvaluated
<1>10. LifeTypeOK' /\ ContextsSound' /\ PassedEvaluated'
  BY <1>2, <1>3, <1>7, <1>8, <1>9, WriteSlot
<1>11. BatchSound'
  BY <1>1, <1>2, BatchLeftAlone
<1>12. RosterSound'
  BY <1>1, <1>2, <1>3, <1>6, KeepsRoster DEF LifeTypeOK
<1>13. QED
  BY <1>10, <1>11, <1>12 DEF LifeInv

LEMMA WalkEvalInv == ASSUME LifeInv, NEW i \in Slot, WalkEval(i) PROVE LifeInv'
<1> DEFINE c == Evaluated(roster[i])
           ex == Excursions(roster[i])
<1>1. LifeTypeOK /\ RosterSound /\ BatchSound /\ ContextsSound /\ PassedEvaluated
  BY DEF LifeInv
<1>2. /\ pc = "walk" /\ cursor = i /\ roster[i].in_use
      /\ roster' = [roster EXCEPT ![i] = c] /\ batch' = ex
      /\ UNCHANGED <<now, active, now_ms>>
  BY DEF WalkEval
<1>3. \/ batch' = <<>> /\ cursor' = i + 1 /\ pc' = pc /\ origin' = origin
      \/ batch' # <<>> /\ pc' = "report" /\ origin' = c.first_at /\ cursor' = cursor
  BY DEF WalkEval
<1>4. roster[i] \in Context
  BY <1>1, <1>2, InUseIsContext
<1>5. now_ms \in 1 .. MaxTime /\ CtxSound(roster[i], now_ms)
  BY <1>1, <1>2, LifePolicyAssumption DEF LifeTypeOK, ContextsSound
<1>6. /\ c \in Context /\ CtxSound(c, now_ms) /\ c.mac = roster[i].mac
      /\ c.evaluated_at = now_ms
  BY <1>4, <1>5, EvaluatedSound
<1>7. ex \in Seq(Due(now_ms, c.first_at))
  BY <1>4, <1>5, ExcursionsDue
<1>8. c.in_use
  BY <1>6, Zenon DEF Context
<1> HIDE DEF c, ex
<1>9. \A j \in Slot : roster'[j] = IF j = i THEN c ELSE roster[j]
  BY <1>1, <1>2 DEF LifeTypeOK
<1>10. RosterSound'
  BY <1>1, <1>2, <1>6, <1>8, KeepsRoster DEF LifeTypeOK
<1>11. ContextsSound'
  BY <1>1, <1>2, <1>6, <1>9 DEF ContextsSound
<1>12. LifeTypeOK'
  <2>1. roster' \in [Slot -> Context \cup {NoCtx}]
    BY <1>1, <1>2, <1>6 DEF LifeTypeOK
  <2>2. i \in 0 .. MaxClients /\ i + 1 \in 0 .. MaxClients
    BY MaxClientsAssumption DEF Slot
  <2>3. pc' \in {"walk", "report"} /\ cursor' \in 0 .. MaxClients
    BY <1>2, <1>3, <2>2
  <2>4. QED
    BY <1>1, <1>2, <2>1, <2>3 DEF LifeTypeOK
<1>13. BatchSound'
  <2>1. CASE batch' = <<>> /\ cursor' = i + 1 /\ pc' = pc
    BY <1>2, <2>1 DEF BatchSound
  <2>2. CASE batch' # <<>> /\ pc' = "report" /\ origin' = c.first_at /\ cursor' = cursor
    BY <1>2, <1>7, <2>2 DEF BatchSound
  <2>3. QED
    BY <1>3, <2>1, <2>2
<1>14. PassedEvaluated'
  <2> SUFFICES ASSUME NEW j \in Slot, Passed(j)', roster'[j].in_use,
                      roster'[j].attached_at < now_ms
               PROVE  roster'[j].evaluated_at = now_ms
    BY <1>2 DEF PassedEvaluated
  <2>1. CASE j = i
    BY <1>6, <1>9, <2>1
  <2>2. CASE j # i
    <3>1. j < i
      BY <1>2, <1>3, <2>2 DEF Passed, Slot
    <3>2. QED
      BY <1>1, <1>2, <1>9, <2>2, <3>1 DEF PassedEvaluated, Passed
  <2>3. QED
    BY <2>1, <2>2
<1>15. QED
  BY <1>10, <1>11, <1>12, <1>13, <1>14 DEF LifeInv

-----------------------------------------------------------------------------
(* The walk. *)
LEMMA WalkBeginInv == ASSUME LifeInv, WalkBegin PROVE LifeInv'
<1>1. LifeTypeOK /\ RosterSound /\ BatchSound /\ ContextsSound
  BY DEF LifeInv
<1>2. /\ pc = "idle" /\ now > now_ms /\ pc' = "walk" /\ cursor' = 0
      /\ now_ms' = now /\ UNCHANGED <<now, roster, active, batch, origin>>
  BY DEF WalkBegin
<1>3. LifeTypeOK'
  BY <1>1, <1>2, MaxClientsAssumption, LifePolicyAssumption DEF LifeTypeOK
<1>4. \A j \in Slot : roster[j].in_use => roster[j].first_at \in Nat
  <2> SUFFICES ASSUME NEW j \in Slot, roster[j].in_use
               PROVE  roster[j].first_at \in Nat
    OBVIOUS
  <2>1. roster[j] \in Context
    BY <1>1, InUseIsContext
  <2>2. roster[j].first_at \in 0 .. MaxTime
    BY <2>1, Zenon DEF Context
  <2>3. QED
    BY <2>2, LifePolicyAssumption
<1>5. ContextsSound'
  <2> SUFFICES ASSUME NEW j \in Slot, roster[j].in_use
               PROVE  CtxSound(roster[j], now)
    BY <1>2 DEF ContextsSound
  <2>1. CtxSound(roster[j], now_ms)
    BY <1>1 DEF ContextsSound
  <2>2. roster[j].first_at <= now
    BY <1>1, <1>2, <1>4, <2>1, LifePolicyAssumption DEF LifeTypeOK, CtxSound
  <2>3. QED
    BY <2>1, <2>2 DEF CtxSound
<1>6. BatchSound'
  BY <1>1, <1>2 DEF BatchSound
<1>7. PassedEvaluated'
  BY <1>2 DEF PassedEvaluated, Passed, Slot
<1>8. RosterSound'
  BY <1>1, <1>2 DEF RosterSound
<1>9. QED
  BY <1>3, <1>5, <1>6, <1>7, <1>8 DEF LifeInv

LEMMA WalkEmptyInv == ASSUME LifeInv, NEW i \in Slot, WalkEmpty(i) PROVE LifeInv'
<1>1. LifeTypeOK /\ RosterSound /\ BatchSound /\ ContextsSound /\ PassedEvaluated
  BY DEF LifeInv
<1>2. /\ pc = "walk" /\ cursor = i /\ ~roster[i].in_use /\ cursor' = i + 1
      /\ UNCHANGED <<now, roster, active, pc, now_ms, batch, origin>>
  BY DEF WalkEmpty
<1>3. LifeTypeOK'
  BY <1>1, <1>2, MaxClientsAssumption DEF LifeTypeOK, Slot
<1>4. BatchSound'
  BY <1>1, <1>2 DEF BatchSound
<1>5. PassedEvaluated'
  <2> SUFFICES ASSUME NEW j \in Slot, Passed(j)', roster[j].in_use,
                      roster[j].attached_at < now_ms
               PROVE  roster[j].evaluated_at = now_ms
    BY <1>2 DEF PassedEvaluated
  <2>1. j < i
    BY <1>2 DEF Passed, Slot
  <2>2. QED
    BY <1>1, <1>2, <2>1 DEF PassedEvaluated, Passed
<1>6. RosterSound' /\ ContextsSound'
  BY <1>1, <1>2 DEF RosterSound, ContextsSound
<1>7. QED
  BY <1>3, <1>4, <1>5, <1>6 DEF LifeInv

LEMMA DeliverInv == ASSUME LifeInv, Deliver PROVE LifeInv'
<1>1. LifeTypeOK /\ RosterSound /\ BatchSound /\ ContextsSound /\ PassedEvaluated
  BY DEF LifeInv
<1>2. /\ pc = "report" /\ batch' = Tail(batch)
      /\ UNCHANGED <<now, roster, active, now_ms>>
  BY DEF Deliver
<1>3. \/ batch' = <<>> /\ pc' = "walk" /\ cursor' = cursor + 1
      \/ batch' # <<>> /\ UNCHANGED <<pc, cursor, origin>>
  BY DEF Deliver
<1>4. cursor \in Slot /\ batch # <<>> /\ batch \in Seq(Due(now_ms, origin))
  BY <1>1, <1>2 DEF BatchSound
<1>5. cursor' \in 0 .. MaxClients /\ pc' \in {"walk", "report"}
  BY <1>2, <1>3, <1>4, MaxClientsAssumption DEF Slot
<1>6. LifeTypeOK'
  BY <1>1, <1>2, <1>5 DEF LifeTypeOK
<1>7. BatchSound'
  <2>1. CASE batch' = <<>> /\ pc' = "walk" /\ cursor' = cursor + 1
    BY <2>1 DEF BatchSound
  <2>2. CASE batch' # <<>> /\ UNCHANGED <<pc, cursor, origin>>
    <3> DEFINE D == Due(now_ms, origin)
    <3>1. batch \in Seq(D) /\ batch # <<>>
      BY <1>4
    <3> HIDE DEF D
    <3>2. Tail(batch) \in Seq(D)
      BY <3>1
    <3>3. QED
      BY <1>2, <1>4, <2>2, <3>2 DEF BatchSound, D
  <2>3. QED
    BY <1>3, <2>1, <2>2
<1>8. PassedEvaluated'
  <2> SUFFICES ASSUME NEW j \in Slot, Passed(j)', roster[j].in_use,
                      roster[j].attached_at < now_ms
               PROVE  roster[j].evaluated_at = now_ms
    BY <1>2 DEF PassedEvaluated
  <2>1. j < cursor \/ j = cursor
    BY <1>2, <1>3, <1>4 DEF Passed, Slot
  <2>2. QED
    BY <1>1, <1>2, <2>1 DEF PassedEvaluated, Passed
<1>9. RosterSound' /\ ContextsSound'
  BY <1>1, <1>2 DEF RosterSound, ContextsSound
<1>10. QED
  BY <1>6, <1>7, <1>8, <1>9 DEF LifeInv

LEMMA WalkEndInv == ASSUME LifeInv, WalkEnd PROVE LifeInv'
<1>1. LifeTypeOK /\ RosterSound /\ BatchSound /\ ContextsSound /\ PassedEvaluated
  BY DEF LifeInv
<1>2. /\ pc = "walk" /\ cursor = MaxClients /\ pc' = "idle"
      /\ UNCHANGED <<now, roster, active, cursor, now_ms, batch, origin>>
  BY DEF WalkEnd
<1>3. \A j \in Slot : j < cursor
  BY <1>2, MaxClientsAssumption DEF Slot
<1>4. PassedEvaluated'
  BY <1>1, <1>2, <1>3 DEF PassedEvaluated, Passed
<1>5. LifeTypeOK' /\ BatchSound'
  BY <1>1, <1>2 DEF LifeTypeOK, BatchSound
<1>6. RosterSound' /\ ContextsSound'
  BY <1>1, <1>2 DEF RosterSound, ContextsSound
<1>7. QED
  BY <1>4, <1>5, <1>6 DEF LifeInv

LEMMA LifeInitInv == LifeInit => LifeInv
<1> SUFFICES ASSUME LifeInit PROVE LifeInv
  OBVIOUS
<1>1. ~NoCtx.in_use
  BY DEF NoCtx
<1>2. \A i \in Slot : ~roster[i].in_use
  BY <1>1 DEF LifeInit
<1>3. LifeTypeOK
  BY MaxClientsAssumption, LifePolicyAssumption DEF LifeInit, LifeTypeOK
<1>4. {i \in Slot : roster[i].in_use} = {}
  BY <1>2
<1>5. RosterSound
  BY <1>2, <1>4, FS_EmptySet DEF LifeInit, RosterSound, UniqueMacs
<1>6. BatchSound
  BY DEF LifeInit, BatchSound
<1>7. ContextsSound /\ PassedEvaluated
  BY <1>2 DEF ContextsSound, PassedEvaluated
<1>8. QED
  BY <1>3, <1>5, <1>6, <1>7 DEF LifeInv

LEMMA LifeNextInv == LifeInv /\ [LifeNext]_lifeVars => LifeInv'
<1> SUFFICES ASSUME LifeInv, [LifeNext]_lifeVars PROVE LifeInv'
  OBVIOUS
<1>1. CASE Elapse
  <2>1. now' = now + 1 /\ now < MaxTime
        /\ UNCHANGED <<roster, active, pc, cursor, now_ms, batch, origin>>
    BY <1>1 DEF Elapse, walkVars
  <2>2. LifeTypeOK'
    BY <2>1, LifePolicyAssumption DEF LifeInv, LifeTypeOK
  <2>3. QED
    BY <2>1, <2>2
       DEF LifeInv, RosterSound, ContextsSound, BatchSound, PassedEvaluated, Passed
<1>2. CASE UNCHANGED lifeVars
  BY <1>2 DEF lifeVars, walkVars, LifeInv, LifeTypeOK, RosterSound,
              ContextsSound, BatchSound, PassedEvaluated, Passed
<1>3. QED
  BY <1>1, <1>2, AttachInv, DetachInv, IngestInv, WalkBeginInv, WalkEmptyInv,
     WalkEvalInv, DeliverInv, WalkEndInv DEF LifeNext, NoEffect

LEMMA LifeAlways == LifeSpec => []LifeInv
BY LifeInitInv, LifeNextInv, PTL DEF LifeSpec

-----------------------------------------------------------------------------
(* wei_life_attach_station and wei_life_detach_station keep one context    *)
(* per station and count them, for every capacity and every order of       *)
(* events, the walk's steps in between included.                           *)
THEOREM OneContextPerStation == LifeSpec => []RosterSound
<1>1. LifeInv => RosterSound
  BY DEF LifeInv
<1>2. QED
  BY <1>1, LifeAlways, PTL

(* The four detectors' clocks run exactly while the record they last       *)
(* evaluated is out of the policy's band, for every policy, every record   *)
(* and every width of the signed conversion.                               *)
THEOREM ClocksFollowRecords == LifeSpec => []ClockRunsWhileOut
<1>1. LifeInv => ClockRunsWhileOut
  BY DEF LifeInv, ContextsSound, CtxSound, ClockRunsWhileOut
<1>2. QED
  BY <1>1, LifeAlways, PTL

(* A dwell delivered after roster->guard was dropped happened within the   *)
(* association it was measured in, whoever attached or left since.         *)
THEOREM DwellIsTheStations == LifeSpec => []DwellWithinAssociation
<1>1. LifeInv => DwellWithinAssociation
  <2> SUFFICES ASSUME LifeInv, NEW k \in 1 .. Len(batch), batch[k].duration_ms > 0
               PROVE  /\ batch[k].duration_ms >= Dwell[batch[k].metric]
                      /\ batch[k].duration_ms <= now_ms - origin
    BY DEF DwellWithinAssociation
  <2> DEFINE D == Due(now_ms, origin)
  <2>1. batch \in Seq(D)
    BY DEF LifeInv, BatchSound
  <2> HIDE DEF D
  <2>2. batch[k] \in D
    BY <2>1
  <2>3. QED
    BY <2>2 DEF D, Due
<1>2. QED
  BY <1>1, LifeAlways, PTL

(* A walk of wei_life_eval_station that takes the guard slot by slot       *)
(* misses no station that was attached before it began and stayed.         *)
THEOREM WalkMissesNobody == LifeSpec => []WalkCovers
<1>1. LifeInv => WalkCovers
  BY DEF LifeInv, PassedEvaluated, Passed, WalkCovers
<1>2. QED
  BY <1>1, LifeAlways, PTL
=============================================================================
