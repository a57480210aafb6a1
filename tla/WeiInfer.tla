------------------------------ MODULE WeiInfer ------------------------------
(***************************************************************************)
(* The connected-performance inference engine (wei_infer.c) on the poll    *)
(* thread of wei_poll.c, with the tracker and the report publisher it      *)
(* calls. Datagram callbacks stage records into the membership map; every  *)
(* TickMs the loop sweeps the map slot by slot, scores each live client,   *)
(* times its instability, folds the verdict into its episode ledger and    *)
(* hands it to the publisher, then reaps tracker and map. The bus thread   *)
(* may flip the pillar enable between any two of those steps, and the      *)
(* clock advances between any two of them.                                 *)
(*                                                                         *)
(* Data: a record keeps its activity flag and its uplink PHY rate in Mbps  *)
(* (status is always OK on this path, weid_wire.c:60). The 0-100 figure    *)
(* the C5 kernel computes before the reconnect damping is any member of    *)
(* RawScores: bands, packet-error window and kernel are over-approximated  *)
(* by that choice. dominant and pkt_err_pct are report text only.          *)
(***************************************************************************)
EXTENDS WeiTrack, WeiPerfreport, FiniteSets

LOCAL INSTANCE FiniteSetsExt

CONSTANTS PhyRates,       \* uplink rates a record can carry, Mbps
          RawScores,      \* scores the C5 kernel can return
          TickMs,         \* WEI_TICK_DEFAULT_MS
          AbsenceMs,      \* WEI_TRACK_ABSENCE_DEFAULT_MS
          PhyWindow,      \* WEI_INFER_PHY_WINDOW
          RampTicks,      \* WEI_INFER_RECONNECT_RAMP
          Ease,           \* per-mille (1-e^-4p)/(1-e^-4) for p = k/RampTicks
          EpisodeCap,     \* WEI_INFER_EPISODE_CAP
          TputVarBand, TputFloorMs, LatencyBand, LatencySustain, VideoBand,
                          \* weid_wire_default_policy
          CrossMax,       \* UINT16_MAX, where threshold_cross saturates
          EpisodesMax,    \* UINT32_MAX, where episodes saturates
          MaxTime,        \* bound: the model's clock stops here
          MaxLate         \* bound: how late the loop may reach a tick

ASSUME RateAssumption == PhyRates \subseteq Nat

MaxScore == 100     \* CSCORE_SCALE_MAX
PerMille == 1000

ASSUME ScoreAssumption ==
    /\ RawScores \subseteq 0 .. MaxScore
    /\ Ease \in [1 .. RampTicks -> 0 .. PerMille]

ASSUME WindowAssumption ==
    PhyWindow \in Nat \ {0} /\ RampTicks \in 1 .. PhyWindow

ASSUME LedgerAssumption ==
    /\ EpisodeCap \in Nat \ {0}
    /\ EpisodesMax \in Nat /\ EpisodeCap <= EpisodesMax

ASSUME PolicyAssumption ==
    /\ TputVarBand \in Nat /\ TputFloorMs \in Nat
    /\ LatencyBand \in Nat /\ VideoBand \in Nat

ASSUME SustainAssumption == CrossMax \in Nat /\ LatencySustain \in 1 .. CrossMax

ASSUME ClockAssumption ==
    /\ TickMs \in Nat \ {0} /\ AbsenceMs \in Nat
    /\ MaxTime \in Nat /\ MaxLate \in Nat

VARIABLES now,        \* CLOCK_MONOTONIC
          next_tick,  \* wei_poll_run's next_tick
          pc,         \* the poll thread: "poll" or "sweep"
          cursor,     \* the sweep's i
          now_ms,     \* wei_infer_tick's now_ms
          slots,      \* eng->map.slots: mac, in_use, last_seen
          state,      \* eng->map.slots[i].state
          count,      \* eng->map.count
          snapshot,   \* eng->snapshot
          result,     \* eng->result
          ledger,     \* eng->ledger
          tracker     \* eng->tracker

clockVars == <<now, next_tick>>
loopVars == <<pc, cursor, now_ms>>
mapVars == <<slots, count, snapshot>>
clientVars == <<state, result, ledger>>
vars == <<clockVars, loopVars, mapVars, clientVars, tracker, perfVars>>

FreeSlot == [mac |-> NoMac, in_use |-> FALSE, last_seen |-> 0]

FreshState ==
    [phy_window |-> [k \in 0 .. PhyWindow - 1 |-> 0], phy_head |-> 0,
     phy_fill |-> 0, threshold_cross |-> 0, alarm |-> FALSE,
     reconnect_ramp |-> 0]

EmptyLedger ==
    [ring |-> [k \in 0 .. EpisodeCap - 1 |-> [start_ms |-> 0, stop_ms |-> 0]],
     head |-> 0, fill |-> 0, episodes |-> 0]

LiveSlot == [mac : Mac, in_use : {TRUE}, last_seen : Nat]

Sample == [active : BOOLEAN, phy_rate : PhyRates \cup {0}]

ZeroSample == [active |-> TRUE, phy_rate |-> 0]  \* STATE_ACTIVE is 0

ClientState ==
    [phy_window : [0 .. PhyWindow - 1 -> PhyRates \cup {0}],
     phy_head : 0 .. PhyWindow - 1, phy_fill : 0 .. PhyWindow,
     threshold_cross : 0 .. CrossMax, alarm : BOOLEAN,
     reconnect_ramp : 0 .. RampTicks]

Result == [score : 0 .. MaxScore, verdict : Class, video_degrade : BOOLEAN]

Ledger ==
    [ring : [0 .. EpisodeCap - 1 -> [start_ms : Nat, stop_ms : Nat]],
     head : 0 .. EpisodeCap - 1, fill : 0 .. EpisodeCap,
     episodes : 0 .. EpisodesMax]

-----------------------------------------------------------------------------
(* wei_infer_create (calloc) and the loop's first deadline. The clock has  *)
(* left zero when a daemon runs: zero is the "not open" stamp everywhere.  *)
Init ==
    /\ now = 1 /\ next_tick = 1 + TickMs
    /\ pc = "poll" /\ cursor = 0 /\ now_ms = 0
    /\ slots = [i \in Slot |-> FreeSlot]
    /\ count = 0
    /\ snapshot = [i \in Slot |-> ZeroSample]
    /\ state = [i \in Slot |-> FreshState]
    /\ result = [i \in Slot |-> [score |-> 0, verdict |-> "smooth",
                                 video_degrade |-> FALSE]]
    /\ ledger = [i \in Slot |-> EmptyLedger]
    /\ tracker = TrackInit
    /\ PerfInit

Elapse ==
    /\ now < MaxTime /\ now < next_tick + MaxLate
    /\ now' = now + 1
    /\ UNCHANGED <<next_tick, loopVars, mapVars, clientVars, tracker, perfVars>>

(* wei_infer_stage_record: refresh the MAC's slot, or admit it into the    *)
(* first free one. The slot's inference state is not touched.              *)
StageRecord(mac, rec) ==
    /\ pc = "poll"
    /\ HasSlot(slots, mac)
    /\ LET i == SlotFor(slots, mac)
       IN  /\ slots' = [slots EXCEPT ![i] =
                 [mac |-> mac, in_use |-> TRUE, last_seen |-> now]]
           /\ snapshot' = [snapshot EXCEPT ![i] = rec]
           /\ count' = IF ~slots[i].in_use /\ count < MaxClients
                       THEN count + 1 ELSE count
    /\ UNCHANGED <<clockVars, loopVars, clientVars, tracker, perfVars>>

(* The map is full of other stations: the record is dropped. *)
StageDrop(mac, rec) ==
    /\ pc = "poll"
    /\ ~HasSlot(slots, mac)
    /\ UNCHANGED vars

(* wei_poll_run finds its deadline passed and calls wei_infer_tick, which  *)
(* reads a clock of its own. The loop's reading, from which it counts the  *)
(* next deadline, comes first, after the last record was staged.           *)
TickBegin ==
    /\ pc = "poll"
    /\ \E read \in next_tick .. now :
          /\ \A i \in Slot : slots[i].last_seen <= read
          /\ next_tick' = read + TickMs
    /\ pc' = "sweep" /\ cursor' = 0 /\ now_ms' = now
    /\ UNCHANGED <<now, mapVars, clientVars, tracker, perfVars>>

-----------------------------------------------------------------------------
(* wei_infer_phy_push: the ring's oldest sample is overwritten. *)
PhyPush(st, v) ==
    [st EXCEPT !.phy_window = [st.phy_window EXCEPT ![st.phy_head] = v],
               !.phy_head = (@ + 1) % PhyWindow,
               !.phy_fill = IF @ < PhyWindow THEN @ + 1 ELSE @]

(* wei_infer_phy_instability: the population variance of the window's live *)
(* samples, truncated to (Mbps)^2; 0 while there is no spread to measure.  *)
Variance(window, n) ==
    LET sum == MapThenSumSet(LAMBDA k : window[k], 0 .. n - 1)
        squares == MapThenSumSet(LAMBDA k : window[k] * window[k], 0 .. n - 1)
    IN  IF n < 2 THEN 0 ELSE (n * squares - sum * sum) \div (n * n)

Instability(st) == Variance(st.phy_window, st.phy_fill)

(* A ramp that takes every wrap of the ring for a new admission.           *)
RampOnWrap(st) == IF st.phy_head = 0 THEN RampTicks ELSE st.reconnect_ramp

(* The ramp the score is damped with: restarted by the first sample after  *)
(* an admission (phy_fill = 0 marks a warming client).                     *)
Ramp(st) == IF st.phy_fill = 0 THEN RampTicks ELSE st.reconnect_ramp

(* wei_infer_score_client, the client state it leaves... *)
ScoreClient(st, rec) ==
    [PhyPush(st, rec.phy_rate) EXCEPT
        !.reconnect_ramp = IF Ramp(st) > 0 THEN Ramp(st) - 1 ELSE 0]

(* ...and the score it writes: eased in while the ramp runs, then rounded. *)
ScoreOf(st, raw) ==
    IF Ramp(st) > 0
    THEN (raw * Ease[RampTicks - Ramp(st) + 1] + PerMille \div 2) \div PerMille
    ELSE raw

(* The entry wei_infer_flag_instability ticks, before it is collected.     *)
(* Instability and band are negated: the tracker opens below its band.     *)
TickedEntry(mac, st) ==
    TrackTick(TrackGet(tracker, mac, now_ms)[SlotFor(tracker, mac)],
              -Instability(st), now_ms, -TputVarBand, TputFloorMs)

(* A spike now, or a sustained excursion that closed on this tick; with no *)
(* entry to be had only the spike counts.                                  *)
Unstable(mac, st) ==
    \/ Instability(st) > TputVarBand
    \/ HasSlot(tracker, mac) /\ TickedEntry(mac, st).accumulated > 0

(* A tracker entry claimed only once the client is unstable. *)
TrackInstabilityLazy(mac, st) ==
    IF HasSlot(tracker, mac) /\ Unstable(mac, st)
    THEN [TrackGet(tracker, mac, now_ms) EXCEPT
             ![SlotFor(tracker, mac)] = TrackCollect(TickedEntry(mac, st))]
    ELSE tracker

(* wei_track_get, wei_track_tick and wei_track_collect on the engine's     *)
(* table.                                                                  *)
TrackInstability(mac, st) ==
    IF HasSlot(tracker, mac)
    THEN [TrackGet(tracker, mac, now_ms) EXCEPT
             ![SlotFor(tracker, mac)] = TrackCollect(TickedEntry(mac, st))]
    ELSE tracker

(* A run counter without its saturation test. *)
LowRunUnsaturated(st) == st.threshold_cross + 1

(* The length of the sub-band run with this tick in it. *)
LowRun(st) ==
    IF st.threshold_cross < CrossMax THEN st.threshold_cross + 1
    ELSE st.threshold_cross

(* A recovery that resets the run and leaves the alarm latched. *)
FlagLatencyRiskSticky(st, score) ==
    IF score < LatencyBand
    THEN [st EXCEPT !.threshold_cross = LowRun(st),
                    !.alarm = IF LowRun(st) >= LatencySustain THEN TRUE ELSE @]
    ELSE [st EXCEPT !.threshold_cross = 0]

(* wei_infer_flag_latency_risk: the sub-band run and the alarm it latches. *)
FlagLatencyRisk(st, score) ==
    IF score < LatencyBand
    THEN [st EXCEPT !.threshold_cross = LowRun(st),
                    !.alarm = IF LowRun(st) >= LatencySustain THEN TRUE ELSE @]
    ELSE [st EXCEPT !.threshold_cross = 0, !.alarm = FALSE]

LedgerOpen(log) == log.fill > 0 /\ log.ring[log.head].stop_ms = 0

(* The degradation opens an episode in the ring's next place. *)
LedgerStart(log, t) ==
    LET head == IF log.fill > 0 THEN (log.head + 1) % EpisodeCap ELSE 0
    IN  [ring |-> [log.ring EXCEPT ![head] = [start_ms |-> t, stop_ms |-> 0]],
         head |-> head,
         fill |-> IF log.fill < EpisodeCap THEN log.fill + 1 ELSE log.fill,
         episodes |-> IF log.episodes < EpisodesMax
                      THEN log.episodes + 1 ELSE log.episodes]

(* A recovery stamped on the place the next episode will take. *)
LedgerStopNextPlace(log, t) ==
    LET head == (log.head + 1) % EpisodeCap
    IN  [log EXCEPT !.ring = [log.ring EXCEPT ![head] =
            [start_ms |-> log.ring[head].start_ms, stop_ms |-> t]]]

(* The recovery closes the open episode. *)
LedgerStop(log, t) ==
    [log EXCEPT !.ring = [log.ring EXCEPT ![log.head] =
        [start_ms |-> log.ring[log.head].start_ms, stop_ms |-> t]]]

(* A new episode for every degraded tick, open episode or not. *)
LedgerUpdateReopens(log, verdict, t) ==
    IF verdict = "degraded" THEN LedgerStart(log, t)
    ELSE IF LedgerOpen(log) THEN LedgerStop(log, t) ELSE log

(* wei_infer_ledger_update *)
LedgerUpdate(log, verdict, t) ==
    IF verdict = "degraded"
    THEN IF LedgerOpen(log) THEN log ELSE LedgerStart(log, t)
    ELSE IF LedgerOpen(log) THEN LedgerStop(log, t) ELSE log

-----------------------------------------------------------------------------
Sweeping(i) == pc = "sweep" /\ cursor = i /\ cursor' = i + 1

(* The slot holds no station. *)
SweepSkip(i) ==
    /\ Sweeping(i)
    /\ ~slots[i].in_use
    /\ UNCHANGED <<clockVars, pc, now_ms, mapVars, clientVars, tracker, perfVars>>

(* The latest record says idle: no score, and nothing else, this tick. *)
SweepGated(i) ==
    /\ Sweeping(i)
    /\ slots[i].in_use /\ ~snapshot[i].active
    /\ UNCHANGED <<clockVars, pc, now_ms, mapVars, clientVars, tracker, perfVars>>

(* One client's pass over the record last staged for its slot: the client  *)
(* state after scoring, after the latency flag, and the verdict both give. *)
ScoredState(i) == ScoreClient(state[i], snapshot[i])

FlaggedState(i, raw) ==
    FlagLatencyRisk(ScoredState(i), ScoreOf(state[i], raw))

Verdict(i, raw) ==
    IF Unstable(slots[i].mac, ScoredState(i)) \/ FlaggedState(i, raw).alarm
    THEN "degraded" ELSE "smooth"

(* The pass: score, instability, latency risk, video label, ledger and     *)
(* report.                                                                 *)
SweepScore(i, raw) ==
    /\ Sweeping(i)
    /\ slots[i].in_use /\ snapshot[i].active
    /\ state' = [state EXCEPT ![i] = FlaggedState(i, raw)]
    /\ tracker' = TrackInstability(slots[i].mac, ScoredState(i))
    /\ result' = [result EXCEPT ![i] =
          [score |-> ScoreOf(state[i], raw), verdict |-> Verdict(i, raw),
           video_degrade |-> ScoreOf(state[i], raw) < VideoBand]]
    /\ ledger' = [ledger EXCEPT ![i] =
          LedgerUpdate(ledger[i], Verdict(i, raw), now_ms)]
    /\ PublishTick(slots[i].mac, Verdict(i, raw))
    /\ UNCHANGED <<clockVars, pc, now_ms, mapVars>>

(* A reap that spares a station whose last record says it is active. *)
DepartedIdleOnly == {i \in Slot : slots[i].in_use /\ ~snapshot[i].active
                            /\ now_ms - slots[i].last_seen > AbsenceMs}

(* A reap at the edge of the absence window instead of past it. *)
DepartedAtEdge == {i \in Slot : slots[i].in_use
                            /\ now_ms - slots[i].last_seen >= AbsenceMs}

(* The stations unheard past the absence window. *)
Departed == {i \in Slot : slots[i].in_use
                            /\ now_ms - slots[i].last_seen > AbsenceMs}

(* A reap that forgets the ledger. *)
MapReapKeepsLedger ==
    /\ slots' = [i \in Slot |-> IF i \in Departed THEN FreeSlot ELSE slots[i]]
    /\ state' = [i \in Slot |-> IF i \in Departed THEN FreshState ELSE state[i]]
    /\ count' = IF count > Cardinality(Departed)
                THEN count - Cardinality(Departed) ELSE 0
    /\ UNCHANGED <<ledger, snapshot, result>>

(* wei_infer_map_reap: slot, state and ledger of a departed station are    *)
(* zeroed; its last snapshot and result stay behind in their arrays.       *)
MapReap ==
    /\ slots' = [i \in Slot |-> IF i \in Departed THEN FreeSlot ELSE slots[i]]
    /\ state' = [i \in Slot |-> IF i \in Departed THEN FreshState ELSE state[i]]
    /\ ledger' = [i \in Slot |-> IF i \in Departed THEN EmptyLedger ELSE ledger[i]]
    /\ count' = IF count > Cardinality(Departed)
                THEN count - Cardinality(Departed) ELSE 0
    /\ UNCHANGED <<snapshot, result>>

(* The tail of wei_infer_tick: both tables are reaped, back to poll(). *)
SweepEnd ==
    /\ pc = "sweep" /\ cursor = MaxClients
    /\ tracker' = TrackReap(tracker, now_ms, AbsenceMs)
    /\ MapReap
    /\ pc' = "poll"
    /\ UNCHANGED <<clockVars, cursor, now_ms, perfVars>>

(* The bus thread writes the RFC cache the emit gate reads. *)
SetEnable(b) ==
    /\ EnableSet(b)
    /\ UNCHANGED <<clockVars, loopVars, mapVars, clientVars, tracker>>

Next ==
    \/ Elapse
    \/ \E mac \in Mac, rec \in [active : BOOLEAN, phy_rate : PhyRates] :
            StageRecord(mac, rec) \/ StageDrop(mac, rec)
    \/ TickBegin
    \/ \E i \in Slot : SweepSkip(i) \/ SweepGated(i)
    \/ \E i \in Slot, raw \in RawScores : SweepScore(i, raw)
    \/ SweepEnd
    \/ \E b \in BOOLEAN : SetEnable(b)

Spec == Init /\ [][Next]_vars

-----------------------------------------------------------------------------
(* Every array holds what its C declaration allows, with the counters at   *)
(* most at their saturation values.                                        *)
TypeOK ==
    /\ now \in Nat \ {0} /\ next_tick \in Nat
    /\ pc \in {"poll", "sweep"} /\ cursor \in 0 .. MaxClients
    /\ now_ms \in 0 .. now /\ (pc = "sweep" => now_ms > 0)
    /\ slots \in [Slot -> LiveSlot \cup {FreeSlot}] /\ count \in 0 .. MaxClients
    /\ snapshot \in [Slot -> Sample]
    /\ state \in [Slot -> ClientState]
    /\ result \in [Slot -> Result]
    /\ ledger \in [Slot -> Ledger]
    /\ tracker \in [Slot -> Entry]
    /\ PerfTypeOK

Live(i) == slots[i].in_use

(* Scored since its admission. *)
Scored(i) == Live(i) /\ state[i].phy_fill > 0

(* The map is a set of stations and count is its size: no station is       *)
(* admitted twice, whatever slots were reaped and reclaimed in between.    *)
MembershipSound ==
    /\ UniqueMacs(slots)
    /\ count = Cardinality({i \in Slot : Live(i)})

(* A slot that changed hands starts without the previous station's         *)
(* history: until its first score the client state and the episode ledger  *)
(* are the zeroed ones ("a reused slot starts with no inherited recurrence *)
(* history", wei_infer_map_reap).                                          *)
NoInheritedHistory ==
    \A i \in Slot :
        ~Scored(i) => state[i] = FreshState /\ ledger[i] = EmptyLedger

(* The ledger, which keeps no open flag of its own, still tells the truth: *)
(* a scored client has an open episode exactly while its latest verdict is *)
(* degraded, across ring wrap, idle gaps and slot reuse.                   *)
LedgerMirrorsVerdict ==
    \A i \in Slot :
        Scored(i) => (LedgerOpen(ledger[i]) <=> result[i].verdict = "degraded")

(* Position k of the ring, counted back from the head, is live. *)
Age(log, k) == (log.head - k) % EpisodeCap
LiveEpisodes(log) == {k \in 0 .. EpisodeCap - 1 : Age(log, k) < log.fill}

(* The ring is a history: only its newest episode can be open, every other *)
(* one stopped no earlier than it started and no later than the next newer *)
(* one began, and the frequency count is never below the number of         *)
(* episodes kept. (Stamps can be equal: when a period goes by between the  *)
(* loop's reading of the clock and the sweep's own, the next sweep follows *)
(* at once.)                                                               *)
LedgerIsHistory ==
    \A i \in Slot :
        LET log == ledger[i] IN
        /\ log.fill <= log.episodes
        /\ \A k \in LiveEpisodes(log) :
              /\ log.ring[k].stop_ms = 0 => k = log.head
              /\ log.ring[k].stop_ms # 0 =>
                    log.ring[k].start_ms <= log.ring[k].stop_ms
              /\ \A j \in LiveEpisodes(log) :
                    Age(log, j) < Age(log, k) =>
                        log.ring[k].stop_ms <= log.ring[j].start_ms

(* The excursion clock of a scored client runs exactly while its current   *)
(* PHY window is over the variance band, although the entry lives in       *)
(* another table with its own reap and can be lost and reclaimed.          *)
ExcursionMatchesWindow ==
    \A i, e \in Slot :
        Scored(i) /\ Holds(tracker, e, slots[i].mac) =>
            (tracker[e].start_ts # 0 <=> -Instability(state[i]) < -TputVarBand)

(* The latched alarm is a function of the sub-band run: it is set exactly  *)
(* when the run has reached the sustain count, and a run in progress means *)
(* that the latest score is below the band.                                *)
AlarmTracksLowRun ==
    \A i \in Slot :
        /\ state[i].alarm <=> state[i].threshold_cross >= LatencySustain
        /\ Scored(i) => (state[i].threshold_cross > 0
                            <=> result[i].score < LatencyBand)

(* The reconnect ramp runs once per admission: what is left of it is the   *)
(* number of samples the client is short of RampTicks, so no later refill, *)
(* idle gap or wrap of the window damps the score again.                   *)
RampRunsOnce ==
    \A i \in Slot :
        Scored(i) =>
            state[i].reconnect_ramp =
                IF state[i].phy_fill < RampTicks
                THEN RampTicks - state[i].phy_fill ELSE 0

(* A departed station's last record is rescored only until the absence     *)
(* window plus one period of the loop, lateness included, has passed.      *)
StalenessBounded ==
    \A i \in Slot :
        pc = "sweep" /\ Live(i) =>
            now_ms - slots[i].last_seen <= AbsenceMs + TickMs + MaxLate

(* A scored client is left untimed in a sweep only when stations that are  *)
(* no longer members still occupy the tracker (wei_track_get returned      *)
(* NULL): members alone never exhaust it.                                  *)
UntimedOnlyBehindDeparted ==
    \A i \in Slot :
        /\ pc = "sweep" /\ i < cursor /\ Live(i) /\ snapshot[i].active
        /\ ~Tracked(tracker, slots[i].mac)
        => \E e \in Slot :
              tracker[e].in_use /\ ~Tracked(slots, tracker[e].mac)

(* When the map last heard each member. *)
MemberSeen ==
    [m \in Mac |-> IF Tracked(slots, m) THEN slots[SlotFor(slots, m)].last_seen
                   ELSE 0]

Members == INSTANCE MemberSet WITH
    Capacity <- MaxClients, seen <- MemberSeen, clock <- now

(* Slots, first-free reuse and per-slot reaping implement a bounded set of *)
(* stations: no admission exceeds the capacity, and a sweep's reap forgets *)
(* exactly the stations unheard within the absence window, or forgets      *)
(* nobody. That every sweep does reap is not said here: StalenessBounded   *)
(* bounds how long a departed station can stay.                            *)
ImplementsMemberSet == Members!MemberSpec

(* "Slots freed by the tick reap are already zeroed, so a reclaimed slot   *)
(* starts scoring from a clean warm-up" (wei_infer.c:541): the first score *)
(* after an admission has one sample, hence no spread and, with a sustain  *)
(* count of two or more, no alarm; nothing of its own can degrade it.      *)
CleanWarmup ==
    \A i \in Slot :
        Scored(i) /\ state[i].phy_fill = 1 => result[i].verdict = "smooth"
=============================================================================
