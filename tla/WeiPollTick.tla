----------------------------- MODULE WeiPollTick -----------------------------
(***************************************************************************)
(* The clock of wei_poll_run (wei_poll.c): one thread waits in poll() for  *)
(* datagrams no longer than until next_tick, drains what came, and calls   *)
(* on_tick when the deadline has passed; wei_poll_retune changes the       *)
(* period at any moment, from on_tick or from another thread.              *)
(*                                                                         *)
(* Data: a millisecond is a unit of a small clock, and the clock is        *)
(* relative: "left" is next_tick - now, "since" the time since the         *)
(* deadline was last computed from. Every int and unsigned int keeps its   *)
(* width. WeiLoop puts the loop on the daemon's socket. WeidDaemon models  *)
(* the loop's other exits and what its callbacks share with other threads, *)
(* and knows of time only that a deadline comes.                           *)
(***************************************************************************)
EXTENDS Integers

CONSTANTS INT_MAX,              \* int: -(INT_MAX + 1) .. INT_MAX
          WEI_TICK_DEFAULT_MS,  \* the period wei_poll_create sets
          Periods,              \* what wei_poll_retune is called with
          MaxQueue,             \* bound: datagrams queued in the socket
          MaxSlip               \* bound: time from the clock read to poll()

UINT_MAX == 2 * INT_MAX + 1

ASSUME TickAssumption ==
    /\ INT_MAX \in Nat /\ MaxQueue \in Nat \ {0}
    /\ WEI_TICK_DEFAULT_MS \in 1 .. INT_MAX
    /\ Periods \subseteq 0 .. UINT_MAX
    /\ MaxSlip \in 0 .. INT_MAX

VARIABLES at,           \* where the loop is
          tick_ms,      \* ctx->tick_ms
          left,         \* next_tick - now, 0 once the deadline has passed
          since,        \* now - the now next_tick was computed from
          armed,        \* the period next_tick was computed with
          timer,        \* what is left of poll()'s timeout; negative: none
          slip,         \* history: how late poll() was called with it
          inbox         \* datagrams waiting in the socket

tickVars == <<at, tick_ms, left, since, armed, timer, slip, inbox>>

NonNegative(n) == IF n < 0 THEN 0 ELSE n

(* The conversion (int)wait. *)
AsInt(n) == IF n > INT_MAX THEN n - (UINT_MAX + 1) ELSE n

TickInit ==
    /\ at = "wait"
    /\ tick_ms = WEI_TICK_DEFAULT_MS
    /\ left = tick_ms /\ armed = tick_ms /\ since = 0
    /\ timer = 0 /\ slip = 0 /\ inbox = 0

-----------------------------------------------------------------------------
(* A loop that hands poll() the whole period. *)
WaitWholePeriod ==
    /\ at = "wait"
    /\ timer' = AsInt(tick_ms) /\ at' = "call"
    /\ UNCHANGED <<tick_ms, left, since, armed, slip, inbox>>

(* The wait is computed from the clock, and only then poll() is called.    *)
Wait ==
    /\ at = "wait"
    /\ timer' = AsInt(left) /\ at' = "call"
    /\ UNCHANGED <<tick_ms, left, since, armed, slip, inbox>>

Poll ==
    /\ at = "call"
    /\ at' = "poll"
    /\ UNCHANGED <<tick_ms, left, since, armed, timer, slip, inbox>>

(* poll() returns 0, finds datagrams, or fails with EINTR. *)
PollTimeout ==
    /\ at = "poll" /\ timer = 0 /\ inbox = 0
    /\ at' = "check" /\ slip' = 0
    /\ UNCHANGED <<tick_ms, left, since, armed, timer, inbox>>

PollIn ==
    /\ at = "poll" /\ inbox > 0
    /\ at' = "drain" /\ slip' = 0
    /\ UNCHANGED <<tick_ms, left, since, armed, timer, inbox>>

PollInterrupted ==
    /\ at = "poll"
    /\ at' = "wait" /\ slip' = 0
    /\ UNCHANGED <<tick_ms, left, since, armed, timer, inbox>>

(* wei_sock_drain, a datagram at a time. *)
Drain ==
    /\ at = "drain" /\ inbox > 0
    /\ inbox' = inbox - 1
    /\ UNCHANGED <<at, tick_ms, left, since, armed, timer, slip>>

DrainEnds ==
    /\ at = "drain" /\ inbox = 0
    /\ at' = "check"
    /\ UNCHANGED <<tick_ms, left, since, armed, timer, slip, inbox>>

NotDue ==
    /\ at = "check" /\ left > 0
    /\ at' = "wait"
    /\ UNCHANGED <<tick_ms, left, since, armed, timer, slip, inbox>>

(* now >= next_tick: "now" is kept for the next deadline. *)
TickDue ==
    /\ at = "check" /\ left = 0
    /\ at' = "revive" /\ since' = 0
    /\ UNCHANGED <<tick_ms, left, armed, timer, slip, inbox>>

(* wei_poll_revive_socket leaves the socket alone, or closes it with what  *)
(* is queued in it and opens another; on_tick follows.                     *)
PathHealthy ==
    /\ at = "revive"
    /\ at' = "on_tick"
    /\ UNCHANGED <<tick_ms, left, since, armed, timer, slip, inbox>>

Reopen ==
    /\ at = "revive"
    /\ at' = "on_tick" /\ inbox' = 0
    /\ UNCHANGED <<tick_ms, left, since, armed, timer, slip>>

(* A deadline counted from the end of on_tick. *)
RearmFromEnd ==
    /\ at = "on_tick"
    /\ left' = tick_ms
    /\ armed' = tick_ms /\ at' = "wait"
    /\ UNCHANGED <<tick_ms, since, timer, slip, inbox>>

(* next_tick = now + ctx->tick_ms, after on_tick took its time. *)
Rearm ==
    /\ at = "on_tick"
    /\ left' = NonNegative(tick_ms - since)
    /\ armed' = tick_ms /\ at' = "wait"
    /\ UNCHANGED <<tick_ms, since, timer, slip, inbox>>

Returns == PollTimeout \/ PollIn

ClockStep == Wait \/ Poll \/ Returns \/ Drain \/ DrainEnds \/ NotDue \/ TickDue \/ Rearm

(* wei_poll_retune; a period of 0 is refused. *)
Retune(period_ms) ==
    /\ period_ms > 0
    /\ tick_ms' = period_ms
    /\ UNCHANGED <<at, left, since, armed, timer, slip, inbox>>

Elapse ==
    /\ left > 0 \/ since < UINT_MAX
    /\ at = "call" => slip < MaxSlip
    /\ slip' = IF at = "call" THEN slip + 1 ELSE slip
    /\ left' = NonNegative(left - 1)
    /\ since' = IF since < UINT_MAX THEN since + 1 ELSE since
    /\ timer' = IF at = "poll" /\ timer > 0 THEN timer - 1 ELSE timer
    /\ UNCHANGED <<at, tick_ms, armed, inbox>>

Datagram ==
    /\ inbox < MaxQueue
    /\ inbox' = inbox + 1
    /\ UNCHANGED <<at, tick_ms, left, since, armed, timer, slip>>

-----------------------------------------------------------------------------
(* Between two ticks the deadline stands a period after the moment the     *)
(* previous tick was found due: neither datagrams, interrupted waits, a    *)
(* slow on_tick nor a retune in the meantime move it, and poll() sleeps    *)
(* until then, and past it by exactly the time that went by between the    *)
(* reading of the clock and the call.                                      *)
DeadlineStands ==
    at \notin {"revive", "on_tick"} =>
        /\ left = NonNegative(armed - since)
        /\ at \in {"call", "poll"} /\ armed <= INT_MAX =>
               timer = NonNegative(armed - since + slip)
=============================================================================
