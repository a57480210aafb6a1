------------------------------- MODULE WeiLoop -------------------------------
(***************************************************************************)
(* The daemon's loop on its socket: the clock of wei_poll_run              *)
(* (WeiPollTick) runs while the daemon is at the path that it shares with  *)
(* the diagnostic tool (WeiSockdump). A tick is when the daemon looks at   *)
(* the path, and only the socket at the path receives.                     *)
(***************************************************************************)
EXTENDS WeiPollTick, WeiSockdump

loopVars == <<tickVars, dumpVars>>

LoopInit == TickInit /\ DumpInit

(* The thread is in the loop, and not in wei_sock_open on a tick. *)
Polling == running /\ wei = "poll"

ReturnsFromPoll == Polling /\ Returns /\ UNCHANGED dumpVars

DrainsToTheEnd == Polling /\ DrainEnds /\ UNCHANGED dumpVars

(* A tick that takes any file, or none, for its socket. *)
HealthyTickBlind == Polling /\ PathHealthy /\ UNCHANGED dumpVars

HealthyTick == Polling /\ PathHealthy /\ path # "none" /\ UNCHANGED dumpVars

ReopeningTick == Reopen /\ WeiTick

LoopStep ==
    \/ Polling /\ ClockStep /\ UNCHANGED dumpVars
    \/ HealthyTick \/ ReopeningTick
    \/ WeiOpens /\ UNCHANGED tickVars

(* Time in a loop that runs; the context of one that is stopped is freed,  *)
(* and the next one starts anew.                                           *)
TimePasses == running /\ Elapse /\ UNCHANGED dumpVars

Stopped ==
    /\ WeiStop
    /\ at' = "wait" /\ tick_ms' = WEI_TICK_DEFAULT_MS
    /\ left' = WEI_TICK_DEFAULT_MS /\ armed' = WEI_TICK_DEFAULT_MS
    /\ since' = 0 /\ timer' = 0 /\ slip' = 0 /\ inbox' = 0

ToolRuns == ToolStep /\ UNCHANGED tickVars

LoopNext ==
    \/ LoopStep \/ TimePasses
    \/ Polling /\ PollInterrupted /\ UNCHANGED dumpVars
    \/ \E p \in Periods : running /\ Retune(p) /\ UNCHANGED dumpVars
    \/ path = "wei" /\ Datagram /\ UNCHANGED dumpVars
    \/ WeiStart /\ UNCHANGED tickVars
    \/ Stopped
    \/ ToolRuns
    \/ (ToolStart \/ ToolRecvFails \/ ToolKilled \/ Interrupt \/ Send) /\ UNCHANGED tickVars

(* Both processes run and time passes; not every poll() is interrupted,    *)
(* and a recv() that would find the socket empty again and again does so   *)
(* once. Operators, signals and senders owe nothing.                       *)
LoopSpec ==
    /\ LoopInit /\ [][LoopNext]_loopVars
    /\ WF_loopVars(LoopStep) /\ WF_loopVars(TimePasses) /\ WF_loopVars(ToolRuns)
    /\ SF_loopVars(ReturnsFromPoll) /\ SF_loopVars(DrainsToTheEnd)

-----------------------------------------------------------------------------
(* poll() takes its timeout as an int: a period above INT_MAX becomes a    *)
(* wait without end, which "period_ms must be > 0" (wei_poll.h:40) does    *)
(* not exclude. The properties below are about the others.                 *)
PeriodsFitInt == [](armed <= INT_MAX)

(* Ticks keep coming while the daemon runs, however many datagrams and     *)
(* interrupts wake the loop and whatever happens to its path, as long as   *)
(* senders let the socket run empty now and then: the sweep is "invoked    *)
(* once per poll interval" (wei_infer.c:464), but the drain loop looks at  *)
(* no clock while the socket is refilled.                                  *)
TicksForever ==
    PeriodsFitInt /\ []<>(inbox = 0) => []<>(at = "on_tick" \/ ~running)

(* However the two were started over each other, a daemon that is left     *)
(* running gets its path back from a tool that exits, at its next tick at  *)
(* the latest, unless a tool was killed: its socket file looks healthy to  *)
(* every tick.                                                             *)
WeiRegainsPath ==
    PeriodsFitInt =>
        (running /\ tool = "off" ~> path = "wei" \/ tool # "off" \/ ~running \/ killed)

(* "Ctrl-C to stop (unlinks the socket)" (wei_sockdump.c:13): an           *)
(* interrupted tool exits once there is a datagram to receive. Without one *)
(* it may stay in recv(), which the handler's return restarts.             *)
InterruptEndsTool == g_stop /\ queued > 0 ~> tool = "off"
=============================================================================
