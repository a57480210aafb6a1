----------------------------- MODULE WeidDaemon -----------------------------
(***************************************************************************)
(* The daemon's threads and what they share: main (weid_daemon.c) starts   *)
(* bus and pipeline, waits for a signal, cancels and joins the receive and *)
(* tick thread and tears everything down; that thread runs wei_poll_run    *)
(* (wei_poll.c) with the callbacks of weid_wire.c; the bus library's       *)
(* thread runs property callbacks. Every thread logs through the mutex of  *)
(* wei_util.c, and the receive thread's socket lives at a path that other  *)
(* processes can remove or take.                                           *)
(*                                                                         *)
(* Data: the engine is only allocated or freed here (WeiInfer models what  *)
(* it does), datagrams are counted, and time is the single question        *)
(* whether the tick deadline has passed. Consecutive log calls of a thread *)
(* are one. Logging before the bus opens has no other thread to meet and   *)
(* is left out.                                                            *)
(***************************************************************************)
EXTENDS Naturals

CONSTANT MaxQueue       \* bound: datagrams queued in the socket

ASSUME MaxQueueAssumption == MaxQueue \in Nat \ {0}

VARIABLES pc,           \* where each thread is
          log_lock,     \* the holder of wei_log_lock, or "free"
          signalled,    \* SIGINT or SIGTERM is pending or was taken
          cancel,       \* pthread_cancel(body) was called
          opened,       \* g_weid_bus.opened
          registered,   \* g_wei_connperf_dml.registered
          engine, poll, \* ctx.engine, ctx.poll: allocated or NULL
          fd,           \* ctx->fd >= 0
          path,         \* what is at the socket path: ours, a regular file,
                        \* another socket (live or dead), or nothing
          inbox,        \* datagrams waiting in the socket
          due           \* now >= next_tick

busVars == <<opened, registered>>
pipeVars == <<engine, poll>>
sockVars == <<fd, path, inbox>>
daemonVars == <<pc, log_lock, signalled, cancel, busVars, pipeVars, sockVars, due>>

Thread == {"main", "body", "bus"}

Ended == {"exited", "failed"}

Running == pc["main"] \notin Ended

Goto(t, l) == pc' = [pc EXCEPT ![t] = l]

(* The log calls and where each of them continues. *)
AfterLog ==
    [log_opened |-> "wire_init", log_bound |-> "create",
     log_started |-> "sigwait", log_signal |-> "cancel",
     log_stopped |-> "exited", log_wire_failed |-> "close",
     log_create_failed |-> "deinit",
     log_recv |-> "stage", log_tick |-> "sweep", log_report |-> "poll",
     log_bus |-> "idle"]

Logging(t) == pc[t] \in DOMAIN AfterLog

DaemonInit ==
    /\ pc = [main |-> "bus_open", body |-> "unborn", bus |-> "idle"]
    /\ log_lock = "free"
    /\ signalled = FALSE /\ cancel = FALSE
    /\ opened = FALSE /\ registered = FALSE
    /\ engine = FALSE /\ poll = FALSE
    /\ fd = FALSE /\ path \in {"gone", "foreign"} /\ inbox = 0
    /\ due = FALSE

-----------------------------------------------------------------------------
(* wei_util_file_write: lock, write, unlock. *)
LogLock(t) ==
    /\ Running /\ Logging(t) /\ log_lock = "free"
    /\ log_lock' = t
    /\ UNCHANGED <<pc, signalled, cancel, busVars, pipeVars, sockVars, due>>

LogUnlock(t) ==
    /\ Running /\ log_lock = t /\ Logging(t)
    /\ log_lock' = "free"
    /\ Goto(t, AfterLog[pc[t]])
    /\ UNCHANGED <<signalled, cancel, busVars, pipeVars, sockVars, due>>

(* A callback on the bus thread whose write-back fails and is logged. *)
BusCallback ==
    /\ Running /\ opened /\ pc["bus"] = "idle"
    /\ Goto("bus", "log_bus")
    /\ UNCHANGED <<log_lock, signalled, cancel, busVars, pipeVars, sockVars, due>>

-----------------------------------------------------------------------------
(* weid_bus_open, with the elements registered on the handle it opened. *)
BusOpen ==
    /\ pc["main"] = "bus_open"
    /\ opened' = TRUE /\ registered' = TRUE
    /\ Goto("main", "log_opened")
    /\ UNCHANGED <<log_lock, signalled, cancel, pipeVars, sockVars, due>>

(* No descriptor, no handle, or no registration: a handle that was opened  *)
(* is closed again and main gives up.                                      *)
BusOpenFails ==
    /\ pc["main"] = "bus_open"
    /\ Goto("main", "failed")
    /\ UNCHANGED <<log_lock, signalled, cancel, busVars, pipeVars, sockVars, due>>

(* wei_sock_open: whatever is at the path is unlinked, then bound anew. *)
SockOpen == fd' = TRUE /\ path' = "ours" /\ inbox' = 0

SockOpenFails == fd' = FALSE /\ path' \in {path, "gone"} /\ inbox' = 0

(* weid_wire_init: the engine, then the poll loop on its socket. *)
WireInit ==
    /\ pc["main"] = "wire_init"
    /\ engine' = TRUE /\ poll' = TRUE
    /\ SockOpen
    /\ Goto("main", "log_bound")
    /\ UNCHANGED <<log_lock, signalled, cancel, busVars, due>>

(* An initialisation that leaves the engine behind when the loop cannot be *)
(* created.                                                                *)
WireInitFailsLeaks ==
    /\ pc["main"] = "wire_init"
    /\ SockOpenFails
    /\ engine' \in BOOLEAN
    /\ Goto("main", "log_wire_failed")
    /\ UNCHANGED <<log_lock, signalled, cancel, busVars, poll, due>>

(* No engine, no socket, or no memory for the loop once its socket was     *)
(* bound, which leaves a dead socket at the path.                          *)
WireInitFails ==
    /\ pc["main"] = "wire_init"
    /\ SockOpenFails \/ (fd' = FALSE /\ path' = "foreign" /\ inbox' = 0)
    /\ Goto("main", "log_wire_failed")
    /\ UNCHANGED <<log_lock, signalled, cancel, busVars, pipeVars, due>>

Create ==
    /\ pc["main"] = "create"
    /\ pc' = [pc EXCEPT !["main"] = "log_started", !["body"] = "poll"]
    /\ UNCHANGED <<log_lock, signalled, cancel, busVars, pipeVars, sockVars, due>>

CreateFails ==
    /\ pc["main"] = "create"
    /\ Goto("main", "log_create_failed")
    /\ UNCHANGED <<log_lock, signalled, cancel, busVars, pipeVars, sockVars, due>>

SigWait ==
    /\ pc["main"] = "sigwait" /\ signalled
    /\ Goto("main", "log_signal")
    /\ UNCHANGED <<log_lock, signalled, cancel, busVars, pipeVars, sockVars, due>>

(* A shutdown that waits for the thread without cancelling it. *)
CancelForgotten ==
    /\ pc["main"] = "cancel"
    /\ Goto("main", "join")
    /\ UNCHANGED <<log_lock, signalled, cancel, busVars, pipeVars, sockVars, due>>

Cancel ==
    /\ pc["main"] = "cancel"
    /\ cancel' = TRUE
    /\ Goto("main", "join")
    /\ UNCHANGED <<log_lock, signalled, busVars, pipeVars, sockVars, due>>

(* A shutdown that does not wait for the thread. *)
JoinSkipped ==
    /\ pc["main"] = "join"
    /\ Goto("main", "deinit")
    /\ UNCHANGED <<log_lock, signalled, cancel, busVars, pipeVars, sockVars, due>>

Join ==
    /\ pc["main"] = "join" /\ pc["body"] = "dead"
    /\ Goto("main", "deinit")
    /\ UNCHANGED <<log_lock, signalled, cancel, busVars, pipeVars, sockVars, due>>

(* weid_wire_deinit: wei_poll_stop closes the socket (its path stays), and *)
(* wei_infer_destroy frees the engine.                                     *)
WireDeinit ==
    /\ pc["main"] = "deinit"
    /\ engine' = FALSE /\ poll' = FALSE
    /\ fd' = FALSE /\ inbox' = 0
    /\ Goto("main", "close")
    /\ UNCHANGED <<log_lock, signalled, cancel, busVars, path, due>>

(* weid_bus_close, the last teardown step of a start that failed and of a  *)
(* shutdown.                                                               *)
BusClose ==
    /\ pc["main"] = "close"
    /\ opened' = FALSE
    /\ Goto("main", IF pc["body"] = "unborn" THEN "failed" ELSE "log_stopped")
    /\ UNCHANGED <<log_lock, signalled, cancel, registered, pipeVars, sockVars, due>>

MainStep ==
    \/ BusOpen \/ BusOpenFails \/ WireInit \/ WireInitFails
    \/ Create \/ CreateFails \/ SigWait \/ Cancel \/ Join
    \/ WireDeinit \/ BusClose

-----------------------------------------------------------------------------
(* The receive/tick thread. A pending cancellation is acted on at poll()   *)
(* and recv(), so neither returns once it is pending.                      *)
PollReturns ==
    /\ Running /\ pc["body"] = "poll" /\ ~cancel
    /\ inbox > 0 \/ due
    /\ Goto("body", IF inbox > 0 THEN "recv" ELSE "check")
    /\ UNCHANGED <<log_lock, signalled, cancel, busVars, pipeVars, sockVars, due>>

(* poll() fails or reports an error on the socket: wei_poll_run returns    *)
(* and the thread ends, while main keeps waiting for a signal.             *)
PollFails ==
    /\ Running /\ pc["body"] = "poll" /\ ~cancel
    /\ Goto("body", "dead")
    /\ UNCHANGED <<log_lock, signalled, cancel, busVars, pipeVars, sockVars, due>>

(* wei_sock_drain receives until the socket is empty; every datagram is    *)
(* logged and handed to weid_on_datagram.                                  *)
Recv ==
    /\ Running /\ pc["body"] = "recv" /\ ~cancel
    /\ IF inbox > 0
       THEN inbox' = inbox - 1 /\ Goto("body", "log_recv")
       ELSE inbox' = inbox /\ Goto("body", "check")
    /\ UNCHANGED <<log_lock, signalled, cancel, busVars, pipeVars, fd, path, due>>

Stage ==
    /\ Running /\ pc["body"] = "stage"
    /\ Goto("body", "recv")
    /\ UNCHANGED <<log_lock, signalled, cancel, busVars, pipeVars, sockVars, due>>

CheckDeadline ==
    /\ Running /\ pc["body"] = "check"
    /\ Goto("body", IF due THEN "revive" ELSE "poll")
    /\ UNCHANGED <<log_lock, signalled, cancel, busVars, pipeVars, sockVars, due>>

(* Anything at the path is taken for the socket. *)
IsSocketAnyFile == path # "gone"

IsSocket == path \in {"ours", "foreign"}

(* wei_poll_revive_socket, by what stat() finds and how reopening ends. *)
ReviveHealthy ==
    /\ Running /\ pc["body"] = "revive" /\ IsSocket
    /\ Goto("body", "log_tick")
    /\ UNCHANGED <<log_lock, signalled, cancel, busVars, pipeVars, sockVars, due>>

ReviveOpens ==
    /\ Running /\ pc["body"] = "revive" /\ ~IsSocket
    /\ SockOpen
    /\ Goto("body", "log_tick")
    /\ UNCHANGED <<log_lock, signalled, cancel, busVars, pipeVars, due>>

ReviveFails ==
    /\ Running /\ pc["body"] = "revive" /\ ~IsSocket
    /\ SockOpenFails
    /\ Goto("body", "log_tick")
    /\ UNCHANGED <<log_lock, signalled, cancel, busVars, pipeVars, due>>

(* The engine's sweep, with its publishes through the bus handle and its   *)
(* logging; the next deadline is a period away.                            *)
Sweep ==
    /\ Running /\ pc["body"] = "sweep"
    /\ due' = FALSE
    /\ Goto("body", "log_report")
    /\ UNCHANGED <<log_lock, signalled, cancel, busVars, pipeVars, sockVars>>

BodyStep ==
    \/ PollReturns \/ Recv \/ Stage \/ CheckDeadline
    \/ ReviveHealthy \/ ReviveOpens \/ ReviveFails \/ Sweep

(* The thread dies of a pending cancellation at a call that is a           *)
(* cancellation point: poll(), recv(), close() while the socket is         *)
(* reopened, the bus library's sends, and stdio output. No cleanup handler *)
(* is installed, so a mutex it holds stays locked.                         *)
BodyCancelled ==
    /\ Running /\ cancel
    /\ pc["body"] \in {"poll", "recv", "revive", "sweep"} \/ Logging("body")
    /\ Goto("body", "dead")
    /\ UNCHANGED <<log_lock, signalled, cancel, busVars, pipeVars, sockVars, due>>

-----------------------------------------------------------------------------
(* The environment: signals, time, senders, and other processes at the     *)
(* socket path.                                                            *)
Signal ==
    /\ Running /\ ~signalled
    /\ signalled' = TRUE
    /\ UNCHANGED <<pc, log_lock, cancel, busVars, pipeVars, sockVars, due>>

Deadline ==
    /\ Running /\ pc["body"] \notin {"unborn", "dead"} /\ ~due
    /\ due' = TRUE
    /\ UNCHANGED <<pc, log_lock, signalled, cancel, busVars, pipeVars, sockVars>>

Send ==
    /\ Running /\ path = "ours" /\ fd /\ inbox < MaxQueue
    /\ inbox' = inbox + 1
    /\ UNCHANGED <<pc, log_lock, signalled, cancel, busVars, pipeVars, fd, path, due>>

(* What is at the path goes, or another process puts something there.      *)
PathChanges ==
    /\ Running
    /\ path' \in {"gone", "file", "foreign"} \ {path}
    /\ UNCHANGED <<pc, log_lock, signalled, cancel, busVars, pipeVars, fd, inbox, due>>

DaemonNext ==
    \/ MainStep
    \/ BodyStep \/ PollFails
    \/ BodyCancelled
    \/ BusCallback
    \/ \E t \in Thread : LogLock(t) \/ LogUnlock(t)
    \/ Signal \/ Deadline \/ Send \/ PathChanges

(* Threads run, time passes, a waiter of the log mutex gets it if it is    *)
(* released again and again, and reopening the socket, retried every tick, *)
(* succeeds in the end. Signals, senders and other processes owe nothing.  *)
DaemonFairness ==
    /\ WF_daemonVars(MainStep)
    /\ WF_daemonVars(BodyStep) /\ WF_daemonVars(BodyCancelled)
    /\ WF_daemonVars(Deadline)
    /\ \A t \in Thread : SF_daemonVars(LogLock(t)) /\ WF_daemonVars(LogUnlock(t))
    /\ SF_daemonVars(ReviveOpens)

DaemonSpec == DaemonInit /\ [][DaemonNext]_daemonVars

DaemonFairSpec == DaemonSpec /\ DaemonFairness

-----------------------------------------------------------------------------
(* No thread touches what main has torn down: while the receive thread can *)
(* still run, its context, its engine and the handle it publishes through, *)
(* with the event registered on it, are there.                             *)
TeardownExclusive ==
    pc["body"] \notin {"unborn", "dead"} => engine /\ poll /\ opened /\ registered

(* A start that fails leaves no engine, loop, socket or bus handle behind. *)
FailedStartLeavesNothing ==
    pc["main"] = "failed" => ~engine /\ ~poll /\ ~fd /\ ~opened

(* Pipeline and handle are gone, whether or not main has returned yet. *)
TornDown ==
    /\ ~engine /\ ~poll /\ ~fd /\ ~opened
    /\ pc["main"] \in {"log_stopped"} \cup Ended

(* After a signal the thread stops, wherever it is and whatever it waits   *)
(* for, and main takes the pipeline down; also when an error on the socket *)
(* had ended the thread long before.                                       *)
TeardownCompletes == signalled ~> TornDown

(* A socket path that vanished or was replaced by something else is bound  *)
(* again by a running loop, however often reopening fails first; only      *)
(* another process's socket at the path keeps it deaf.                     *)
HearsAgain ==
    path \in {"gone", "file"} /\ pc["body"] \notin {"unborn", "dead"}
        ~> path \in {"ours", "foreign"} \/ pc["body"] = "dead"

(* After a signal main tears the pipeline down, logs "WEI daemon stopped"  *)
(* and returns.                                                            *)
ShutdownCompletes == signalled ~> pc["main"] \in Ended
=============================================================================
