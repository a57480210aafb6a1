------------------------------ MODULE WeiLife ------------------------------
(***************************************************************************)
(* The lifecycle roster and its four excursion detectors (wei_life.c). An  *)
(* event thread attaches and detaches stations and deposits their latest   *)
(* metric record; the tick thread walks the roster, runs the detectors of  *)
(* each context on C3 tracker entries of its own, and delivers what they   *)
(* produced. roster->guard is held for one operation of the event thread   *)
(* and for one slot of the walk, so each of those is one step; delivery    *)
(* runs on a private copy after the guard is dropped.                      *)
(*                                                                         *)
(* Data: a record keeps the four metrics the detectors read. loss is the   *)
(* cumulative send-error counter of the client (wei_conn_metric.h:79),     *)
(* which may restart. The score delivered along is left out. The report    *)
(* sink is registered before the first tick.                               *)
(***************************************************************************)
EXTENDS WeiTrack, Sequences, FiniteSets

CONSTANTS Samples,      \* metric records that can be deposited
          Band,         \* wei_life_policy_t: floor or ceiling per metric
          Dwell,        \* wei_life_policy_t: dwell floor per metric, ms
          Half,         \* 2^31: where a uint32_t turns negative as int32_t
          MaxTime       \* bound: the model's clock stops here

Metric == {"snr", "loss", "phy", "chanutil"}

ASSUME SamplesAssumption ==
    /\ Half \in Nat \ {0}
    /\ Samples \subseteq [Metric -> 0 .. 2 * Half - 1]

ASSUME LifePolicyAssumption ==
    /\ Band \in [Metric -> 0 .. Half - 1]
    /\ Dwell \in [Metric -> Nat]
    /\ MaxTime \in Nat \ {0}

VARIABLES now,      \* CLOCK_MONOTONIC
          roster,   \* roster->slots: NoCtx where the pointer is NULL
          active,   \* roster->active
          pc,       \* the tick thread: "idle", "walk" or "report"
          cursor,   \* the walk's i
          now_ms,   \* the walk's now_ms
          batch,    \* the walk's batch: excursions not yet delivered
          origin    \* history: first evaluation of the batch's context

walkVars == <<pc, cursor, now_ms, batch, origin>>
lifeVars == <<now, roster, active, walkVars>>

NoCtx == [mac |-> NoMac, in_use |-> FALSE]

ZeroRecord == [m \in Metric |-> 0]

(* The fields after track are history: when the context was opened, and    *)
(* when it was first and last evaluated and on what.                       *)
NewCtx(mac) ==
    [mac |-> mac, in_use |-> TRUE, sample |-> ZeroRecord,
     track |-> [m \in Metric |-> FreeEntry],
     attached_at |-> now, first_at |-> 0, evaluated_at |-> 0,
     evaluated |-> ZeroRecord]

LifeInit ==
    /\ now = 1
    /\ roster = [i \in Slot |-> NoCtx] /\ active = 0
    /\ pc = "idle" /\ cursor = 0 /\ now_ms = 0
    /\ batch = <<>> /\ origin = 0

Elapse ==
    /\ now < MaxTime
    /\ now' = now + 1
    /\ UNCHANGED <<roster, active, walkVars>>

-----------------------------------------------------------------------------
(* wei_life_slot_of finds the station's slot. *)
Attached(mac) == Tracked(roster, mac)

(* A context taken from malloc, with whatever the tracks held before. *)
AttachUnzeroed(mac) ==
    /\ ~Attached(mac) /\ HasSlot(roster, mac)
    /\ \E t \in {0, 1} :
          roster' = [roster EXCEPT ![SlotFor(roster, mac)] =
                        [NewCtx(mac) EXCEPT !.track =
                            [m \in Metric |-> [FreeEntry EXCEPT !.start_ts = t]]]]
    /\ active' = active + 1
    /\ UNCHANGED <<now, walkVars>>

(* Association: a zeroed context in the first free slot. *)
Attach(mac) ==
    /\ ~Attached(mac) /\ HasSlot(roster, mac)
    /\ roster' = [roster EXCEPT ![SlotFor(roster, mac)] = NewCtx(mac)]
    /\ active' = active + 1
    /\ UNCHANGED <<now, walkVars>>

(* Association of an attached station, into a full roster, or without      *)
(* memory for a context; a connection change, which only looks the station *)
(* up; a disassociation or a record of a station that is not attached.     *)
NoEffect == UNCHANGED lifeVars

(* A disassociation counted whether or not the station was attached. *)
DetachAlwaysCounts(mac) ==
    /\ active > 0
    /\ active' = active - 1
    /\ roster' = [i \in Slot |-> IF Holds(roster, i, mac) THEN NoCtx ELSE roster[i]]
    /\ UNCHANGED <<now, walkVars>>

(* A disassociation that closes the gap with the last context. *)
DetachCompacts(mac) ==
    LET last == CHOOSE i \in Slot : /\ roster[i].in_use
                                    /\ \A j \in Slot : j > i => ~roster[j].in_use
        gap == SlotFor(roster, mac)
    IN  /\ Attached(mac)
        /\ roster' = [[roster EXCEPT ![gap] = roster[last]] EXCEPT ![last] = NoCtx]
        /\ active' = active - 1
        /\ UNCHANGED <<now, walkVars>>

(* Disassociation: the context is freed. *)
Detach(mac) ==
    /\ Attached(mac)
    /\ roster' = [roster EXCEPT ![SlotFor(roster, mac)] = NoCtx]
    /\ active' = active - 1
    /\ UNCHANGED <<now, walkVars>>

(* wei_life_ingest_metric for an attached station. *)
Ingest(mac, rec) ==
    /\ Attached(mac)
    /\ roster' = [roster EXCEPT ![SlotFor(roster, mac)].sample = rec]
    /\ UNCHANGED <<now, active, walkVars>>

-----------------------------------------------------------------------------
(* The (int32_t) conversion, and the negation of what it gave: INT32_MIN   *)
(* has no negative, and comes back unchanged from the machine's NEG.       *)
Int32(v) == IF v >= Half THEN v - 2 * Half ELSE v
Negated(v) == IF v = -Half THEN v ELSE -v

Inverted == {"loss", "chanutil"}

(* Detectors that pass every metric the way the floors need it. *)
ReadingUnnegated(rec, m) == Int32(rec[m])

(* What each detector hands to the tracker: metrics with a ceiling are     *)
(* negated, since the tracker opens below its band.                        *)
Reading(rec, m) ==
    IF m \in Inverted THEN Negated(Int32(rec[m])) ELSE Int32(rec[m])

TrackBand(m) == IF m \in Inverted THEN -Band[m] ELSE Band[m]

Ticked(ctx, m) ==
    TrackTick(ctx.track[m], Reading(ctx.sample, m), now_ms, TrackBand(m), Dwell[m])

(* An interval that carries an onset or a finalized dwell is an excursion. *)
Produced(ctx, m) == Ticked(ctx, m).count > 0 \/ Ticked(ctx, m).accumulated > 0

(* What a detector reports of its interval, if anything. *)
Report(ctx, m) ==
    IF Produced(ctx, m)
    THEN << [mac |-> ctx.mac, metric |-> m,
             onset_count |-> Ticked(ctx, m).count,
             duration_ms |-> Ticked(ctx, m).accumulated] >>
    ELSE <<>>

(* wei_life_eval_ctx: the excursions of one context in detector order. *)
Excursions(ctx) ==
    Report(ctx, "snr") \o Report(ctx, "loss") \o Report(ctx, "phy")
        \o Report(ctx, "chanutil")

(* The context after its four detectors ticked and collected their entries. *)
Evaluated(ctx) ==
    [ctx EXCEPT !.track = [m \in Metric |-> TrackCollect(Ticked(ctx, m))],
                !.first_at = IF ctx.first_at = 0 THEN now_ms ELSE ctx.first_at,
                !.evaluated_at = now_ms, !.evaluated = ctx.sample]

(* wei_life_eval_station starts its walk. *)
WalkBegin ==
    /\ pc = "idle" /\ now > now_ms
    /\ pc' = "walk" /\ cursor' = 0 /\ now_ms' = now
    /\ UNCHANGED <<now, roster, active, batch, origin>>

WalkEmpty(i) ==
    /\ pc = "walk" /\ cursor = i /\ ~roster[i].in_use
    /\ cursor' = i + 1
    /\ UNCHANGED <<now, roster, active, pc, now_ms, batch, origin>>

(* The slot's detectors, under the guard. *)
WalkEval(i) ==
    /\ pc = "walk" /\ cursor = i /\ roster[i].in_use
    /\ roster' = [roster EXCEPT ![i] = Evaluated(roster[i])]
    /\ batch' = Excursions(roster[i])
    /\ IF batch' = <<>>
       THEN /\ cursor' = i + 1
            /\ UNCHANGED <<pc, origin>>
       ELSE /\ pc' = "report"
            /\ origin' = Evaluated(roster[i]).first_at
            /\ UNCHANGED cursor
    /\ UNCHANGED <<now, active, now_ms>>

(* One excursion of the batch is delivered, without the guard. *)
Deliver ==
    /\ pc = "report"
    /\ batch' = Tail(batch)
    /\ IF batch' = <<>>
       THEN pc' = "walk" /\ cursor' = cursor + 1 /\ origin' = 0
       ELSE UNCHANGED <<pc, cursor, origin>>
    /\ UNCHANGED <<now, roster, active, now_ms>>

WalkEnd ==
    /\ pc = "walk" /\ cursor = MaxClients
    /\ pc' = "idle"
    /\ UNCHANGED <<now, roster, active, cursor, now_ms, batch, origin>>

LifeNext ==
    \/ Elapse
    \/ \E mac \in Mac : Attach(mac) \/ Detach(mac)
    \/ \E mac \in Mac, rec \in Samples : Ingest(mac, rec)
    \/ NoEffect
    \/ WalkBegin
    \/ \E i \in Slot : WalkEmpty(i) \/ WalkEval(i)
    \/ Deliver
    \/ WalkEnd

LifeSpec == LifeInit /\ [][LifeNext]_lifeVars

-----------------------------------------------------------------------------
(* Exactly one context per attached station, and active counts them, over  *)
(* every order of associations and disassociations.                        *)
RosterSound ==
    /\ UniqueMacs(roster)
    /\ active = Cardinality({i \in Slot : roster[i].in_use})

(* The policy's meaning: below a floor, above a ceiling. *)
OutOfBand(rec, m) ==
    IF m \in Inverted THEN rec[m] > Band[m] ELSE rec[m] < Band[m]

(* Each excursion clock runs exactly while the record last evaluated was   *)
(* out of that metric's band, for every value the signed conversion keeps. *)
(* A station without a record yet is evaluated on the zeroed one, which is *)
(* below both floors, and an error counter above its ceiling stays there   *)
(* until it restarts: both clocks run, without a reading and without a new *)
(* error.                                                                  *)
ClockRunsWhileOut ==
    \A i \in Slot : roster[i].in_use /\ roster[i].evaluated_at > 0 =>
        \A m \in Metric : roster[i].evaluated[m] < Half =>
            (roster[i].track[m].start_ts # 0
                <=> OutOfBand(roster[i].evaluated, m))

(* A delivered dwell happened to the station in the association the report *)
(* is about: it is at least the dwell floor and fits between the first     *)
(* evaluation of that association and the one that produced the report,    *)
(* even when the station has left or come back by the time it is delivered.*)
(* (Its first evaluation, not its attach: the walk's now_ms is read once,  *)
(* so a station attached during a walk is stamped with an earlier time.)   *)
DwellWithinAssociation ==
    \A k \in 1 .. Len(batch) :
        batch[k].duration_ms > 0 =>
            /\ batch[k].duration_ms >= Dwell[batch[k].metric]
            /\ batch[k].duration_ms <= now_ms - origin

(* A walk misses nobody: a station attached before it began and still      *)
(* attached when it ends was evaluated by it, whatever came and went       *)
(* between its steps.                                                      *)
WalkCovers ==
    pc = "idle" =>
        \A i \in Slot : roster[i].in_use /\ roster[i].attached_at < now_ms =>
            roster[i].evaluated_at = now_ms
=============================================================================
