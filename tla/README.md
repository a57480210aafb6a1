# WEI daemon: a TLA+ verification project

WEI is a gateway daemon. A receive/tick thread takes per-station link-quality
records from a datagram socket, scores every station once per tick (5 s), and
publishes an event on the bus when a station's verdict changes between *smooth*
and *degraded*. A bus client can switch the feature on and off; the switch is
kept in nvram. A second unit, the lifecycle roster, times excursions of four
metrics for associated stations. The modules here model that control logic, TLC
checks it on small instances, and TLAPS proves the main safety properties for
every value of the constants.

## Inventory of the system

| component | state | operations | used by / shares |
|---|---|---|---|
| `wei_infer.c` engine | membership map, snapshot, per-client windows and counters, result, episode ledger, tracker | stage a record, tick (sweep, reap) | called by `weid_wire.c` on the receive thread; calls tracker, scorer, publisher |
| `wei_track.c` tracker | none of its own: entries owned by its callers | get, tick, collect, reap | engine and roster |
| `wei_perfreport.c` publisher | cadence table: last published class, warm-up | publish_tick | called by the sweep; reads the enable; sends on the bus handle |
| `weid_rfc.c` enable of record | cached flag, nvram file | load, set | main loads, bus thread sets, sweep reads |
| `wei_connperf_dml.c` data model | registered flag, config flags | get, set, register | callbacks on the bus thread |
| `weid_bus.c` handle | opened flag | open, close, handle | main opens and closes, sweep publishes |
| `weid_wire.c` wiring | engine and loop pointers | init, deinit, datagram and tick callbacks | main; receive thread |
| `wei_poll.c` loop | socket, deadline | create, run (drain, revive, tick), stop | receive thread |
| `weid_daemon.c` main | the thread | start, wait for a signal, cancel, join, tear down | everything |
| `wei_util.c` log | mutex, log file, byte counter | print | every thread |
| `wei_life.c` roster | contexts with four tracker entries each, a guard | attach, detach, ingest, walk, deliver | event thread and tick thread |
| `wei_conn_scorer.c` | none | normalise, reduce, weight, standardise | engine, roster |
| `wei_report_publish.c` | none | publish one report | no caller in the daemon |
| `tools/wei_sockdump.c` | stop flag, the daemon's socket path | take the path, print, give it back | a process of its own |
| `wei_platform_cap.c` | none | look up a constant | no caller in the daemon |

What is hard here: three MAC-keyed tables of the same capacity that are filled,
aged and emptied by different rules (map: last record; tracker: last score;
cadence table: never); a sweep whose steps interleave with the bus thread's
enable; publishes that fail between gate and commit; a write-back that can be
cut at any step; a thread stopped by cancellation while it shares a mutex; a
drain loop that looks at no clock; a wire format checked field by field; rings
of cumulative counters that restart; a socket path two processes unlink and
bind; a roster walk that drops its lock between slots and before delivery. Every
such place is listed in `PROJECT.json` under `hazards`, with its line and the
properties about it, or, where none can catch it, with a note saying why.

## Modules

| module | models |
|---|---|
| `SlotTable` | the find-or-claim scan all MAC-keyed tables share |
| `WeiTrack` | `wei_track.c`, as operators on an entry or a table |
| `WeiPerfreport` | `wei_perfreport.c` as a specification of its own (`PerfSpec`) |
| `WeiInfer` | `wei_infer.c` on the loop of `wei_poll.c`, composed with the tracker and the publisher (`Spec`) |
| `MemberSet` | abstract specification: a bounded set of stations with an expiry |
| `WeiConnScorer` | `wei_conn_scorer.c`, as operators on fixed-point integers |
| `WeiScore` | what a client's score and contributor tag are computed from: packet-error and PHY rings, bands, pipeline (`ScoreSpec`) |
| `WeiReportBuf` | the publisher's serialisation buffer (`BufSpec`) |
| `WeiLog` | the log file, its counter and its restart (`LogSpec`) |
| `WeiOutput` | composes `WeiReportBuf` and `WeiLog`: the two writers of text within fixed bounds (`OutSpec`) |
| `WeidWire` | a datagram on its way through `weid_on_datagram` into the engine's slots (`WireSpec`) |
| `WeiPollTick` | the steps of `wei_poll_run` around its deadline, and `wei_poll_retune` |
| `WeiSockdump` | the steps of daemon and diagnostic tool at one socket path |
| `WeiLoop` | composes the two: the daemon's clock on the path it shares with the tool (`LoopSpec`) |
| `WeidRfc` | `weid_rfc.c` and the setters of `wei_connperf_dml.c`, with crashes (`RfcSpec`) |
| `WeidBus` | composes `WeidRfc` with the bus handle, registration and `wei_report_publish.c`, in any order of calls (`BusSpec`) |
| `WeidDaemon` | threads, start-up and teardown, socket revival, log mutex (`DaemonFairSpec`) |
| `WeiLife` | `wei_life.c` over `WeiTrack` (`LifeSpec`) |
| `MCWeiPerfreport`, `MCWeiInfer`, `MCWeiLife`, `MCWeidWire`, `MCWeiScore` | constants, symmetry and, for the publisher, an environment |
| `SlotTableProofs` | lemmas about the scan |
| `WeiInferProofs` | theorems about publisher and engine |
| `WeidBusProofs` | theorems about the enable of record, the bus handle and the report writer |
| `WeidDaemonProofs` | theorems about threads, start and teardown |
| `WeiLifeProofs` | theorems about the roster |
| `WeiReceiveProofs` | theorems about the way in: tick clock, socket path, frames |
| `WeiScoreProofs` | theorems about what a score is computed from, and about the kernel |
| `WeiOutputProofs` | theorems about report buffer and log file |

Variables and fields carry the names of the code. One action stands for one
handler, or for one stretch of it that no other thread can divide:

* **Engine.** `StageRecord`/`StageDrop` are `wei_infer_stage_record`.
  `TickBegin`, then one of `SweepSkip`, `SweepGated`, `SweepScore` per slot, then
  `SweepEnd` are `wei_infer_tick`; the sweep is cut into slots because the clock
  and the bus thread's `SetEnable` can move between any two publishes. `TickBegin`
  reads the clock twice, as the code does: the loop for the next deadline, then the
  sweep for everything it stamps.
  `SweepScore` is the whole pass over a client: score, instability, alarm, video
  label, ledger, publish. Only the receive thread stages and sweeps, so both
  exclude each other through `pc`.
* **Publisher.** `PublishTick` is one of `SkipTableFull`, `Suppress`,
  `PublishFails`, `Publish`. `reported` is history: what a subscriber heard.
* **Enable.** `EnableSet`, `Open`, `Write` and the failures between them are the
  steps of `weid_rfc_connperf_set`; `Crash` and `Load` come between any two.
* **Daemon.** `pc` has a place per thread; a log call is two steps, `LogLock` and
  `LogUnlock`, and the places named `log_...` are the calls. `BodyCancelled` is
  the deferred cancellation taking effect at a cancellation point.
* **Roster.** One event-thread operation, and one slot of the walk, per step,
  since that is what `roster->guard` covers; `Deliver` runs without the guard.
* **Wire.** `OnDatagram` is receive and validation, `StageEntry` one round of the
  entry loop. A payload is a sequence of cells that know which byte of which
  reading of which build they are, so that an entry read with the wrong size or
  past the end is recognisable (`Junk`).
* **Score.** `ScoreClient` is one scored tick of one client, `Readmit` the reap
  and the next admission. A verdict degraded by a long excursion or a latency alarm
  instead of the spread is a choice (`sustained`). `hist` is history: the samples
  since the admission, each with the totals of all that came up to it.
* **Buffer.** `Build` is `wei_perfreport_build_json`; `Malloc`, `PrintFits`,
  `TooLarge`, `Realloc` and the failures are the branches of the serialise loop.
* **Clock and socket path.** `Wait` reads the clock, `Poll` calls `poll()` with
  what it computed; with the three ways `poll()` returns, `Drain`/`DrainEnds`,
  `NotDue`/`TickDue` and `Rearm` they are one round of the loop. `Retune` and
  `Elapse` come between any two. `slip` is history: the time that went by between
  `Wait` and `Poll`. In `WeiLoop` a due tick is a
  `HealthyTick` or a `ReopeningTick`, the two outcomes of
  `wei_poll_revive_socket`, and only the socket at the path receives. Unlink and
  bind are separate steps of both processes. `orderly` chooses an operator who runs
  the tool instead of the daemon, as its header asks, or one who does not.
* **Bus.** Calls on the daemon's thread follow each other in any order; the steps
  of a property write on the library's thread, and the end of the process, come
  between any two steps of them.
* **Log.** One line per step: the mutex makes it one (`WeidDaemon` models the mutex).

Abstractions of data: a record keeps what the checked control depends on
(activity and uplink rate for the engine, activity and channel utilisation for
the wire, the four metrics for the roster). In `WeiInfer` the 0-100 figure of
the scoring kernel is any member of `RawScores`, so it holds for every kernel;
`WeiScore` models the kernel's inputs and stages for one client in fixed-point
integers: 1.0 is 1000, for a normalised metric as for a rate or a weight, and the
logistic weight is a table. Rounding down is monotone, as the
floating-point operations are; properties compare values of the same rounding.
The ease-in of a reconnected client is the per-mille table `Ease`. The PHY
variance is computed exactly, in (Mbps)^2. The JSON report is the verdict it
carries, and for the buffer its size. The nvram file is what a load can tell
apart. Log text is its length.

Mutated definitions (`...EarlyStop`, `...Committed`, `...Sticky` and so on) stand
before the definition they vary. Nothing uses them; they are what `PROJECT.json`
substitutes to show that a property notices a plausible bug.

## Runs

| run | module, cfg | checks |
|---|---|---|
| Publisher | `MCWeiPerfreport` | `ReportsAlternate`, `BaselineIsWhatWasHeard`, `SettledVerdictIsHeard` |
| EngineClient | `MCWeiInfer`, `EngineClient.cfg` | `TypeOK`, `LedgerMirrorsVerdict`, `LedgerIsHistory`, `AlarmTracksLowRun`, `RampRunsOnce`, `StalenessBounded` |
| EngineMembers | `MCWeiInfer`, `EngineMembers.cfg` | `MembershipSound`, `NoInheritedHistory`, `ExcursionMatchesWindow`, `UntimedOnlyBehindDeparted`, `ImplementsMemberSet` |
| EnableAndBus | `WeidBus` | `AckedSurvives`, `EnabledOnlyIfAsked`, `HandleTracksConnection`, `TickReportsOrIsOff` |
| Daemon | `WeidDaemon` | `TeardownExclusive`, `FailedStartLeavesNothing`, `TeardownCompletes`, `HearsAgain` |
| LifeRoster | `MCWeiLife`, `LifeRoster.cfg` | `RosterSound`, `ClockRunsWhileOut`, `DwellWithinAssociation`, `WalkCovers` |
| Wire | `MCWeidWire`, `WeidWire.cfg` | `StagedIsLatest`, `LegalFramesLand` |
| Score | `MCWeiScore`, `WeiScore.cfg` | `RateIsWindowLoss`, `BandsAreHistory`, `HigherIsBetter`, `BlamedMetricIsLow` |
| Outputs | `WeiOutput` | `LostOnlyForCause`, `SteadyStateIsFree`, `LogBounded` |
| LoopAndPath | `WeiLoop` | `DeadlineStands`, `InsteadKeepsPath`, `TicksForever`, `WeiRegainsPath`, `InterruptEndsTool` |
| EngineReadmission | `MCWeiInfer`, `EngineReadmission.cfg` | `CleanWarmup`, violated: see below |
| DaemonStop | `WeidDaemon`, `WeidDaemonStop.cfg` | `ShutdownCompletes`, violated: see below |

What the passing runs show:

* *Publisher*: a subscriber hears strictly alternating edges and, in the end,
  every verdict that settles, whatever publishes failed and whenever the enable
  was flipped, for every station that got a cadence slot.
* *EngineClient*, *EngineMembers*: verdict, ledger, alarm, ramp and tracker of a
  client agree through idle gaps, silence, reaping and readmission; the map is a
  bounded set of stations whatever the other two tables still hold.
* *EnableAndBus*: an acknowledged enable survives every crash and nothing else
  turns the pillar on; a handle is offered exactly while the library holds one,
  and carries the elements after a successful open; a report call that succeeds
  fired one event or met the pillar disabled.
* *Daemon*: no thread meets what main has torn down, a failed start leaves
  nothing, a signal always takes the pipeline down, a lost socket is reopened.
* *LifeRoster*: the walk covers every context that stays attached, whatever
  happens between its slots, and no reported dwell is longer than the
  association.
* *Wire*: a slot holds exactly the latest legal reading of its station, whatever
  drifted, mislabelled or short frames come in between; no legal frame, up to the
  largest a 16-bit length describes, is lost for want of buffer.
* *Score*: the loss rate is that of the frames sent since the oldest sample in
  the ring, the bands are the range of the client's history, the kernel never
  scores a better record lower, and a metric is blamed for a reason.
* *Outputs*: a report is lost only to a failed allocation or its size, a report
  no larger than one already served costs no allocation, and short writes and
  failing restarts never let the log outgrow its cap by a whole line.
* *LoopAndPath*: the deadline stands a period after the last due moment;
  datagrams, interrupted waits, slow ticks and retunes do not move it, `poll()`
  oversleeps it only by what passed before the call, and ticks recur. Tool and daemon used instead of each other, as the tool's header asks,
  never lose the path; used otherwise, a running daemon gets it back, unless a
  tool was killed: its dead socket passes for a healthy one at every tick.

Bounds, and why they are enough for the cases in question:

* *Publisher*: 3 stations, 2 cadence slots, so one finds the table full; the
  code's own warm-up of 3.
* *EngineClient*: one station; window 3, ramp 2, ring of 2 episodes, run counter
  saturating at 3, episode count at 2. Six ticks reach every saturation, a wrap
  of both rings, a silence past the absence window and a readmission. Scores 30,
  42 and 100 lie on both sides of the bands, also after damping (42 eases to 37).
* *EngineMembers*: 3 stations for 2 slots of all three tables, symmetric
  stations, four time units: members leave, newcomers take over slots while the
  tracker still holds departed ones.
* One clock unit is a tick period. The order of the code's durations that
  matters is kept: the floor is longer than a tick, and a silence can outlast the
  absence window. `MaxLate` bounds how late the loop reaches a tick (the drain
  ends); `MaxTime` stops the clock.
* *Daemon*: up to 2 queued datagrams, so that a drain takes several rounds. Main
  may stop, so the run does not check for deadlock.
* *LifeRoster*: 3 stations, 2 slots, 3 time units, a dwell of 2; `Half` = 128
  stands for 2^31, and one record's counter is past it.
* *Wire*: an element of 2 bytes and a length field up to 5 stand for 3776 and
  65535: senders pack up to three entries, of which two fit the length field, so
  that the largest legal frame and a wrapped length both occur. Other builds have
  an element of 1 byte, whose payload may still be a multiple of ours, or another
  version. Three stations for two slots.
* *Score*: rings of 3 for packet error and PHY rate and five samples, so both
  wrap; samples on both sides of each metric, idle intervals, lossy ones and a
  counter restart; counters that start at zero or short of their width of 16.
  `CounterAssumption` says that a window never carries 2^32 frames.
* *Outputs*: a ceiling that is not a power-of-two multiple of the first size,
  documents at and around every size; a line buffer of 5 bytes and a cap of 11,
  prefixes and texts that fail, fit and overflow the buffer.
* *LoopAndPath*: `INT_MAX` is 2; the periods are the default of 2, 1, 0 (refused)
  and 3, one above `INT_MAX`; one datagram queued for each process; at most one
  unit of time between the reading of the clock and the call of `poll()` (`MaxSlip`).
* *EnableAndBus*: finite as it is.

## Fairness

* *Publisher*: every client is handed over again and again (the loop ticks, weak
  fairness of `Interval`), and a bus that is tried infinitely often accepts
  eventually (strong fairness of `Delivered`). The second is an assumption on
  the bus. Without it the retry has nothing to achieve.
* *Daemon*: main and the receive thread take their next step (weak fairness),
  a pending cancellation takes effect, the deadline passes, a log write ends.
  A thread waiting for a mutex that is released again and again gets it, and
  reopening a socket, retried every tick, succeeds in the end (strong fairness).
  Signals, senders, bus callbacks, other processes and `PollFails` owe nothing.
* *LoopAndPath*: both processes run and time passes (weak fairness of `LoopStep`,
  `ToolRuns`, `TimePasses`); a `poll()` that could return again and again is not
  interrupted every time, and a `recv()` that would find the socket empty again
  and again does so (strong fairness of `ReturnsFromPoll`, `DrainsToTheEnd`).
  `TicksForever` is stated for senders that let the socket run empty now and then.
  Operators, signals, senders and failing `recv()`s owe nothing.

The other runs check safety only and assume no fairness.

## What disagrees with the code's comments

* **EngineReadmission** (`CleanWarmup`): "a reclaimed slot starts scoring from a
  clean warm-up" (`wei_infer.c:541`). The tracker entry of a reaped station can
  survive its slot; the first sample after readmission closes the old excursion
  and the first verdict is degraded.
* **DaemonStop** (`ShutdownCompletes`): "cancelled at its poll() cancellation
  point" (`weid_daemon.c:34`). The log write is a cancellation point too, with
  `wei_log_lock` held; main then hangs in its last log call. `TeardownCompletes`
  holds: pipeline and bus are already down.

Elsewhere the code's comments say a little more than a property can; the
property states the condition under which they are right:

* The sweep is "invoked once per poll interval" (`wei_infer.c:464`): `TicksForever`
  asks for senders that let the socket run empty, since the drain loop has no
  bound, and for periods within `INT_MAX`, since a larger one, which "period_ms
  must be > 0" (`wei_poll.h:40`) admits, turns into a `poll()` without timeout.
* Cancellation is "the only stop the committed C3 loop offers"
  (`weid_daemon.c:36`). An error on the socket ends the loop as well;
  `TeardownCompletes` holds from there too.
* "A counter reset [...] yields 0.0" (`wei_infer.c:110`). The deltas of the two
  counters are held at zero one by one; `RateIsWindowLoss` leaves windows with a
  restart out, except for the range of the rate.
* "Higher = better" (`wei_conn_scorer.h:37`). The kernel divides by the sum of two
  cumulative counters, an unsigned sum of their own width
  (`wei_conn_scorer.c:147`), which wraps before either of them does. `HigherIsBetter`
  asks that it has not.
* "Low for the reward metrics" (`wei_infer.c:391`). A metric that never changed has
  an empty band, normalises to 0 and counts as the worst there is;
  `BlamedMetricIsLow` allows for that.
* "Never faked with a fabricated metric" (`wei_conn_metric.h:50`), "the client's
  normalized PER" (`wei_life.c:280`). A tick before the first record evaluates the
  zeroed one, and the loss detector reads the cumulative error counter;
  `ClockRunsWhileOut` is about whatever record and reading was evaluated.
* "The daemon acts only on PERIODIC_STATS, DISCONNECT, ..." (`weid_receiver.h:46`).
  It acts on PERIODIC_STATS only; `StagedIsLatest` says so.
* "Ctrl-C to stop" (`wei_sockdump.c:13`). `signal()` handlers restart `recv()`;
  `InterruptEndsTool` asks for a datagram to return from it.
* Success "once the handle is open and registered" (`weid_bus.h:35`). The registered
  flag outlives the handle; `HandleTracksConnection` promises registration for the
  first handle, and the daemon opens one per process.

## Proofs

All theorems hold for every number of slots, set of stations, window, ring and
ramp length, buffer and element size, policy and saturation value that satisfies
the named `ASSUME`s of the modules. TLC evaluates those assumptions on every run
that uses them; they say what the types, the constants and the sender of the code
already guarantee (sizes are positive, a ramp fits its window, a policy's bands
fit an `int32_t`, a foreign build has an element of at least one byte and a
document is not empty, a counter counts modulo its width and a window carries
fewer frames than that). Every theorem of the form `Spec => []P` rests on an
inductive invariant; what each adds to the properties themselves:

* **`SlotTableProofs`**: the scan returns the slot of the MAC or the first free
  one, storing under that slot keeps MACs unique, and a scan that finds nothing
  means that every slot is taken. All other tables cite it.
* **`WeiInferProofs`, publisher**: `PerfTypeCorrect`, `BaselineTruthful`,
  `EventsAlternate`. `PerfInv` adds uniqueness of MACs to type correctness and the
  baseline: with two slots for a station the gate could compare with the wrong
  one.
* **`WeiInferProofs`, engine**: `EngineInv` is the conjunction of all the engine's
  invariants with `PerfInv`, uniqueness in the tracker, `LoopTiming`, `LedgerPast`
  and `HeardSinceStart`. None of the client properties is inductive alone: a
  readmitted slot is only right because the reap left it fresh
  (`NoInheritedHistory`), which is only right because no other slot holds the MAC
  (`MembershipSound`), and staleness needs the loop's timing (`LoopTiming`: how far
  `now`, `now_ms` and `next_tick` can be apart). `LedgerKeepsHistory` shows that the
  ring holds the newest episodes in order through its wraps and its saturating
  count; it needs `LedgerPast`, that nothing in a ledger is stamped later than the
  sweep in progress. Two sweeps may read the same time, when the first of them was
  late, so an episode may start at the moment it or the one before it stops.
  `MembersAlwaysTimed` is a pigeonhole argument (`MembersFit`): map and tracker
  have the same number of slots, so a member that finds the tracker full finds a
  departed station in it.
* **`WeiInferProofs`, refinements**: `EngineImplementsMemberSet` maps the slot map
  to the function from stations to the time they were last heard. Admission is an
  arrival because members inject into the slots other than the free one, so the
  set is not full; a sweep's reap is the abstract expiry; zero is the abstract "not a
  member", hence `HeardSinceStart`. `EngineImplementsPublisher` shows
  `Spec => PerfSpec`, and `EngineEventsAlternate` transfers `EventsAlternate`.
* **`WeidBusProofs`**: `AckedValueSurvives` and `NeverEnabledByAccident` from
  `RfcInv`: while a set is in progress nothing is acknowledged and its value was
  asked for, and the file never holds an enable nobody asked for.
  `BusImplementsRfc` carries both over to the composition (`EnableHoldsOnTheBus`).
  `HandleIsTheConnection` and `ReturnCodeTells` rest on `HandleInv`: where the
  thread is in a call says what it has established, registration happened on the
  present handle unless an earlier one was closed, and a report call has seen the
  enable on before it fires.
* **`WeidDaemonProofs`**: `DaemonInv` says, place by place of main, whether the
  thread exists, what has been built and what has been taken down; from it
  `TeardownWaitsForThread` and `FailedStartUndone`. `OnlyCancellationStrandsLog`
  accounts for the holder of the log mutex: a thread inside a log call, or a
  receive thread cancelled in one. This is the positive half of the finding about
  `ShutdownCompletes`: there is no other way for the mutex to be lost.
* **`WeiLifeProofs`**: `LifeInv` has a part per context (a clock that runs was
  started at or after the association's first evaluation, and runs as the record
  last evaluated says), one for the table, one for the reports in hand (they fit
  the association they were taken from, whoever has the slot now) and one for
  the walk (what it has passed is evaluated). The four theorems of the roster
  follow.
* **`WeiReceiveProofs`**: `DeadlineNeverDrifts` from `DeadlineStands` with the types
  of the clock (`slip` is zero until the loop is about to call `poll()`), over the
  conversion of a wait to `int`; `InsteadIsSafe` from
  `OneAtATime`: an operator who is orderly never has both processes at the path. For
  frames, `Progress` says what the entry loop has done after any number of
  entries: each station named so far has the last reading named so far, or no slot
  was left. The lemmas before it show that the bytes of a frame of our own build
  are cut into exactly the entries that were sent, and that of a foreign one
  nothing passes the checks. `StagedRecordIsTheLatest` and `NoLegalFrameIsLost` hold
  for every element size, every width of the length field and every set of foreign
  builds.
* **`WeiScoreProofs`**: `RateIsTheWindows`, `BandsKeepHistory`, `BlameIsDeserved` and
  `KernelIsMonotone`, from `ScoreInv`, the conjunction of five parts.
  * `CounterInv`: the counters stand where the last sample left them.
  * `WindowInv`: the packet-error ring holds the last counters of the history, each
    at its place modulo the ring's size (`RingOf`), and `Gains` relates them to what
    was sent. Between any two samples no counter gains more than was sent, gains
    exactly that if it did not go back, and a window's worth of frames stays below
    the counters' width. So the difference of the ring's two ends is the sum of
    the samples between them, although no sum is taken (`RateOf`).
  * `MeanInv`: the sum over the PHY ring is the difference of two totals of the
    history (`PhyOf`). A push replaces one place, and once the ring is full the value
    it displaces is the oldest of the window.
  * `BandInv`: every band covers what its metric has shown so far. The mean's part
    needs that the mean at an earlier sample is what it was (`MeanFacts`).
  * `ResultInv`: the reported percentage and the blame, from the bands of the same
    sample: the facts about `Normalize` at the ends of a band (`NormalizeFacts`), and
    that the first of the worst exists (`AttributeFacts`).

  What the loop over a ring computes (`SumFirst`) is induction over data. The
  library's induction theorems cannot be instantiated here, so `SumExists` and
  `SumReplaced` look at the least number for which they would fail (`Least`, from the
  well-foundedness of `<`). Sums over the history need no induction of their own:
  the running totals in `hist` leave it to the state machine. `KernelIsMonotone` is a
  lemma per stage of the kernel (normalisation, the loss rate, square and root,
  reduction, weight, clamp), each monotone, rounding included.
* **`WeiOutputProofs`**: the buffer never shrinks and holds every report it served
  (`BufferHoldsServed`); the log's counter accounts for every byte on file or held
  back by stdio (`CounterCoversFile`), starting from whatever file an earlier run
  left.

Only model-checked is liveness (`SettledVerdictIsHeard`, `TeardownCompletes`,
`HearsAgain`, `TicksForever`, `WeiRegainsPath`, `InterruptEndsTool`), which is out of
the prover's reach. Every invariant and the refinement that the runs check is also a
theorem.

## Not modelled

`wei_platform_cap.c` is a constant lookup and `wei_poll_dispatch` a stateless call
through a table; neither has a caller. `wei_life_deinit` and a change of the report
sink during a walk: nothing calls them, and the header does not say when they may
be called. What log lines, reports and the diagnostic tool's output say. Floating
point is modelled in fixed point. A crash is one of the process: `fclose` does not
sync (`weid_rfc.c:137`), and what a power loss leaves of an acknowledged value on
the medium is not modelled.

## Plan

Done, in this order: publisher, engine with tracker, enable of record, daemon
threads, roster; proofs of the first three; then wire, score and kernel, report
buffer with log file, tick clock with socket path and tool, bus handle and report
writer with the enable of record; then the safety properties of all of them
as theorems, last those about the values a score is computed from.

What could follow, all of it proofs:

1. What an engine step may never do, as action properties: reports of a client
   only from its own slot's pass, a ledger that only grows within an admission.
2. The daemon's start and teardown as a refinement of an abstract service that is
   up, down or failing.
