-------------------------- MODULE WeidDaemonProofs --------------------------
(***************************************************************************)
(* Proofs about the daemon's threads. Where main stands in its start or in *)
(* its shutdown decides what exists and whether the receive thread can     *)
(* run; the invariant says so label by label.                              *)
(***************************************************************************)
EXTENDS WeidDaemon, TLAPS

(* Main between the bus handle and the pipeline, between the pipeline and  *)
(* the thread, with the thread running, and taking everything down.        *)
Wiring == {"log_opened", "wire_init", "log_wire_failed"}
Piped == {"log_bound", "create", "log_create_failed"}
Serving == {"log_started", "sigwait", "log_signal", "cancel", "join"}
Leaving == {"deinit", "close"}
Stopped == {"log_stopped", "exited"}

MainLabel == {"bus_open", "failed"} \cup Wiring \cup Piped \cup Serving
                 \cup Leaving \cup Stopped

BodyLabel == {"unborn", "dead", "poll", "recv", "log_recv", "stage", "check",
              "revive", "log_tick", "sweep", "log_report"}

BusLabel == {"idle", "log_bus"}

Labels == /\ DOMAIN pc = Thread
          /\ pc["main"] \in MainLabel
          /\ pc["body"] \in BodyLabel
          /\ pc["bus"] \in BusLabel

(* The thread exists from its creation on and is gone before the teardown. *)
ThreadByMain ==
    /\ pc["main"] \in {"bus_open", "failed"} \cup Wiring \cup Piped
           => pc["body"] = "unborn"
    /\ pc["main"] \in Serving => pc["body"] # "unborn"
    /\ pc["main"] \in Leaving => pc["body"] \in {"unborn", "dead"}
    /\ pc["main"] \in Stopped => pc["body"] = "dead"

PipelineByMain ==
    /\ pc["main"] \in Piped \cup Serving => engine /\ poll
    /\ pc["main"] \in {"bus_open", "failed", "close"} \cup Wiring
           => ~engine /\ ~poll /\ ~fd

HandleByMain ==
    /\ pc["main"] \in Wiring \cup Piped \cup Serving => opened /\ registered
    /\ pc["main"] \in {"bus_open", "failed"} => ~opened

DaemonInv == Labels /\ ThreadByMain /\ PipelineByMain /\ HandleByMain

(* The continuation of every log call stays with the thread that made it. *)
LEMMA LogReturns ==
    /\ AfterLog["log_opened"] = "wire_init" /\ AfterLog["log_bound"] = "create"
    /\ AfterLog["log_started"] = "sigwait" /\ AfterLog["log_signal"] = "cancel"
    /\ AfterLog["log_stopped"] = "exited"
    /\ AfterLog["log_wire_failed"] = "close"
    /\ AfterLog["log_create_failed"] = "deinit"
    /\ AfterLog["log_recv"] = "stage" /\ AfterLog["log_tick"] = "sweep"
    /\ AfterLog["log_report"] = "poll" /\ AfterLog["log_bus"] = "idle"
    /\ DOMAIN AfterLog =
           {"log_opened", "log_bound", "log_started", "log_signal",
            "log_stopped", "log_wire_failed", "log_create_failed",
            "log_recv", "log_tick", "log_report", "log_bus"}
BY DEF AfterLog

(* A jump of one thread leaves the others where they are. *)
LEMMA Moves ==
    ASSUME Labels, NEW t \in Thread, NEW l, Goto(t, l)
    PROVE  /\ DOMAIN pc' = Thread
           /\ pc'[t] = l
           /\ \A u \in Thread \ {t} : pc'[u] = pc[u]
BY DEF Labels, Goto

(* A step of the receive thread takes no label of main and frees nothing. *)
LEMMA BodyMoves ==
    ASSUME DaemonInv, pc["body"] \notin {"unborn", "dead"},
           NEW l \in BodyLabel \ {"unborn"}, Goto("body", l),
           UNCHANGED <<busVars, pipeVars>>
    PROVE  DaemonInv'
<1> USE DEF DaemonInv, Labels, Thread, BodyLabel, Goto
<1>1. pc'["main"] = pc["main"] /\ pc'["bus"] = pc["bus"] /\ pc'["body"] = l
  OBVIOUS
<1>2. Labels'
  BY <1>1
<1>3. pc["main"] \in Serving
  BY DEF ThreadByMain, MainLabel, Wiring, Piped, Leaving, Stopped
<1>4. ThreadByMain'
  BY <1>1, <1>3 DEF ThreadByMain, Wiring, Piped, Serving, Leaving, Stopped
<1>5. PipelineByMain'
  BY <1>1, <1>3 DEF PipelineByMain, Wiring, Piped, Serving, pipeVars
<1>6. HandleByMain'
  BY <1>1, <1>3 DEF HandleByMain, Wiring, Piped, Serving, busVars
<1>7. QED
  BY <1>2, <1>4, <1>5, <1>6

LEMMA DaemonInitInv == DaemonInit => DaemonInv
<1> SUFFICES ASSUME DaemonInit PROVE DaemonInv
  OBVIOUS
<1>1. pc["main"] = "bus_open" /\ pc["body"] = "unborn" /\ pc["bus"] = "idle"
  BY DEF DaemonInit
<1>2. DOMAIN pc = Thread
  BY DEF DaemonInit, Thread
<1>3. Labels
  BY <1>1, <1>2 DEF Labels, MainLabel, BodyLabel, BusLabel
<1>4. ThreadByMain
  BY <1>1 DEF ThreadByMain, Serving, Leaving, Stopped
<1>5. PipelineByMain
  BY <1>1 DEF DaemonInit, PipelineByMain, Piped, Serving
<1>6. HandleByMain
  BY <1>1 DEF DaemonInit, HandleByMain, Wiring, Piped, Serving
<1>7. QED
  BY <1>3, <1>4, <1>5, <1>6 DEF DaemonInv

(* Main's own steps. *)
LEMMA MainMoves ==
    ASSUME Labels, NEW l \in MainLabel, Goto("main", l)
    PROVE  /\ Labels'
           /\ pc'["main"] = l /\ pc'["body"] = pc["body"]
<1>1. /\ DOMAIN pc' = Thread /\ pc'["main"] = l
      /\ pc'["body"] = pc["body"] /\ pc'["bus"] = pc["bus"]
  BY Moves DEF Thread
<1>2. QED
  BY <1>1 DEF Labels

LEMMA MainStepInv == DaemonInv /\ MainStep => DaemonInv'
<1> SUFFICES ASSUME DaemonInv, MainStep PROVE DaemonInv'
  OBVIOUS
<1> USE DEF DaemonInv, ThreadByMain, PipelineByMain,
            HandleByMain, Wiring, Piped,
            Serving, Leaving, Stopped, busVars, pipeVars, sockVars
<1>1. CASE BusOpen
  <2>1. Labels' /\ pc'["main"] = "log_opened" /\ pc'["body"] = pc["body"]
    BY <1>1, MainMoves DEF BusOpen, MainLabel
  <2>2. QED
    BY <1>1, <2>1 DEF BusOpen
<1>2. CASE BusOpenFails
  <2>1. Labels' /\ pc'["main"] = "failed" /\ pc'["body"] = pc["body"]
    BY <1>2, MainMoves DEF BusOpenFails, MainLabel
  <2>2. QED
    BY <1>2, <2>1 DEF BusOpenFails
<1>3. CASE WireInit
  <2>1. Labels' /\ pc'["main"] = "log_bound" /\ pc'["body"] = pc["body"]
    BY <1>3, MainMoves DEF WireInit, MainLabel
  <2>2. QED
    BY <1>3, <2>1 DEF WireInit, SockOpen
<1>4. CASE WireInitFails
  <2>1. Labels' /\ pc'["main"] = "log_wire_failed" /\ pc'["body"] = pc["body"]
    BY <1>4, MainMoves DEF WireInitFails, MainLabel
  <2>2. QED
    BY <1>4, <2>1 DEF WireInitFails, SockOpenFails
<1>5. CASE Create
  <2>1. pc["main"] = "create" /\ UNCHANGED <<busVars, pipeVars, sockVars>>
    BY <1>5 DEF Create
  <2>2. /\ DOMAIN pc' = Thread /\ pc'["main"] = "log_started"
        /\ pc'["body"] = "poll" /\ pc'["bus"] = pc["bus"]
    BY <1>5 DEF Create, Labels, Thread
  <2>3. Labels'
    BY <2>2 DEF Labels, MainLabel, BodyLabel
  <2>4. QED
    BY <2>1, <2>2, <2>3
<1>6. CASE CreateFails
  <2>1. Labels' /\ pc'["main"] = "log_create_failed" /\ pc'["body"] = pc["body"]
    BY <1>6, MainMoves DEF CreateFails, MainLabel
  <2>2. QED
    BY <1>6, <2>1 DEF CreateFails
<1>7. CASE SigWait
  <2>1. Labels' /\ pc'["main"] = "log_signal" /\ pc'["body"] = pc["body"]
    BY <1>7, MainMoves DEF SigWait, MainLabel
  <2>2. QED
    BY <1>7, <2>1 DEF SigWait
<1>8. CASE Cancel
  <2>1. Labels' /\ pc'["main"] = "join" /\ pc'["body"] = pc["body"]
    BY <1>8, MainMoves DEF Cancel, MainLabel
  <2>2. QED
    BY <1>8, <2>1 DEF Cancel
<1>9. CASE Join
  <2>1. Labels' /\ pc'["main"] = "deinit" /\ pc'["body"] = pc["body"]
    BY <1>9, MainMoves DEF Join, MainLabel
  <2>2. QED
    BY <1>9, <2>1 DEF Join
<1>10. CASE WireDeinit
  <2>1. Labels' /\ pc'["main"] = "close" /\ pc'["body"] = pc["body"]
    BY <1>10, MainMoves DEF WireDeinit, MainLabel
  <2>2. QED
    BY <1>10, <2>1 DEF WireDeinit
<1>11. CASE BusClose
  <2>1. pc["main"] = "close" /\ opened' = FALSE /\ UNCHANGED <<pipeVars, sockVars>>
    BY <1>11 DEF BusClose
  <2>2. CASE pc["body"] = "unborn"
    <3>1. Labels' /\ pc'["main"] = "failed" /\ pc'["body"] = pc["body"]
      BY <1>11, <2>2, MainMoves DEF BusClose, MainLabel
    <3>2. QED
      BY <2>1, <2>2, <3>1
  <2>3. CASE pc["body"] # "unborn"
    <3>1. Labels' /\ pc'["main"] = "log_stopped" /\ pc'["body"] = pc["body"]
      BY <1>11, <2>3, MainMoves DEF BusClose, MainLabel
    <3>2. QED
      BY <2>1, <2>3, <3>1
  <2>4. QED
    BY <2>2, <2>3
<1>12. QED
  BY <1>1, <1>2, <1>3, <1>4, <1>5, <1>6, <1>7, <1>8, <1>9, <1>10, <1>11
     DEF MainStep

(* The receive thread's steps, and its end by an error or a cancellation. *)
LEMMA BodyStepInv ==
    DaemonInv /\ (BodyStep \/ PollFails \/ BodyCancelled) => DaemonInv'
<1> SUFFICES ASSUME DaemonInv, BodyStep \/ PollFails \/ BodyCancelled
             PROVE  DaemonInv'
  OBVIOUS
<1> USE DEF BodyLabel
<1>1. CASE PollReturns
  BY <1>1, BodyMoves DEF PollReturns
<1>2. CASE Recv
  BY <1>2, BodyMoves DEF Recv
<1>3. CASE Stage
  BY <1>3, BodyMoves DEF Stage
<1>4. CASE CheckDeadline
  BY <1>4, BodyMoves DEF CheckDeadline
<1>5. CASE ReviveHealthy
  BY <1>5, BodyMoves DEF ReviveHealthy
<1>6. CASE ReviveOpens
  BY <1>6, BodyMoves DEF ReviveOpens
<1>7. CASE ReviveFails
  BY <1>7, BodyMoves DEF ReviveFails
<1>8. CASE Sweep
  BY <1>8, BodyMoves DEF Sweep
<1>9. CASE PollFails
  BY <1>9, BodyMoves DEF PollFails
<1>10. CASE BodyCancelled
  <2>1. pc["body"] \notin {"unborn", "dead"}
    BY <1>10, LogReturns DEF BodyCancelled, Logging
  <2>2. QED
    BY <1>10, <2>1, BodyMoves DEF BodyCancelled
<1>11. QED
  BY <1>1, <1>2, <1>3, <1>4, <1>5, <1>6, <1>7, <1>8, <1>9, <1>10 DEF BodyStep

(* A step that moves neither main nor the receive thread, nor the pipeline *)
(* and the handle.                                                         *)
LEMMA OthersMove ==
    ASSUME DaemonInv, DOMAIN pc' = Thread, pc'["main"] = pc["main"],
           pc'["body"] = pc["body"], pc'["bus"] \in BusLabel,
           UNCHANGED <<busVars, pipeVars, fd>>
    PROVE  DaemonInv'
<1> USE DEF DaemonInv
<1>1. Labels'
  BY DEF Labels
<1>2. ThreadByMain'
  BY DEF ThreadByMain
<1>3. PipelineByMain'
  BY DEF PipelineByMain, pipeVars
<1>4. HandleByMain'
  BY DEF HandleByMain, busVars
<1>5. QED
  BY <1>1, <1>2, <1>3, <1>4

LEMMA LogInv == DaemonInv /\ (\E t \in Thread : LogLock(t) \/ LogUnlock(t)) => DaemonInv'
<1> SUFFICES ASSUME DaemonInv, NEW t \in Thread, LogLock(t) \/ LogUnlock(t)
             PROVE  DaemonInv'
  OBVIOUS
<1>1. CASE LogLock(t)
  BY <1>1, OthersMove DEF LogLock, DaemonInv, Labels, sockVars
<1>2. CASE LogUnlock(t) /\ t = "main"
  <2>1. /\ UNCHANGED <<busVars, pipeVars, sockVars>>
        /\ Goto("main", AfterLog[pc["main"]]) /\ pc["main"] \in DOMAIN AfterLog
    BY <1>2 DEF LogUnlock, Logging
  <2>2. pc["main"] \in MainLabel
    BY DEF DaemonInv, Labels
  <2>3. AfterLog[pc["main"]] \in MainLabel
    BY <2>1, <2>2, LogReturns DEF MainLabel, Wiring, Piped, Serving, Leaving, Stopped
  <2>4. /\ Labels' /\ pc'["main"] = AfterLog[pc["main"]]
        /\ pc'["body"] = pc["body"]
    BY <2>1, <2>3, MainMoves DEF DaemonInv
  <2>5. ThreadByMain'
    BY <2>1, <2>2, <2>4, LogReturns
       DEF DaemonInv, ThreadByMain, MainLabel, Wiring, Piped, Serving, Leaving, Stopped
  <2>6. PipelineByMain'
    BY <2>1, <2>2, <2>4, LogReturns
       DEF DaemonInv, PipelineByMain, MainLabel, Wiring, Piped, Serving, Leaving,
           Stopped, pipeVars, sockVars
  <2>7. HandleByMain'
    BY <2>1, <2>2, <2>4, LogReturns
       DEF DaemonInv, HandleByMain, MainLabel, Wiring, Piped, Serving, Leaving,
           Stopped, busVars
  <2>8. QED
    BY <2>4, <2>5, <2>6, <2>7 DEF DaemonInv
<1>3. CASE LogUnlock(t) /\ t = "body"
  <2>1. /\ UNCHANGED <<busVars, pipeVars, sockVars>>
        /\ Goto("body", AfterLog[pc["body"]]) /\ pc["body"] \in DOMAIN AfterLog
    BY <1>3 DEF LogUnlock, Logging
  <2>2. pc["body"] \in {"log_recv", "log_tick", "log_report"}
    BY <2>1, LogReturns DEF DaemonInv, Labels, BodyLabel
  <2>3. AfterLog[pc["body"]] \in {"stage", "sweep", "poll"}
    BY <2>2, LogReturns
  <2>4. QED
    BY <2>1, <2>2, <2>3, BodyMoves DEF BodyLabel
<1>4. CASE LogUnlock(t) /\ t = "bus"
  <2>1. /\ UNCHANGED <<busVars, pipeVars, sockVars>>
        /\ Goto("bus", AfterLog[pc["bus"]]) /\ pc["bus"] \in DOMAIN AfterLog
    BY <1>4 DEF LogUnlock, Logging
  <2>2. AfterLog[pc["bus"]] = "idle"
    BY <2>1, LogReturns DEF DaemonInv, Labels, BusLabel
  <2>3. /\ DOMAIN pc' = Thread /\ pc'["bus"] = "idle"
        /\ pc'["main"] = pc["main"] /\ pc'["body"] = pc["body"]
    BY <2>1, <2>2, Moves DEF DaemonInv, Thread
  <2>4. QED
    BY <2>1, <2>3, OthersMove DEF BusLabel, sockVars
<1>5. QED
  BY <1>1, <1>2, <1>3, <1>4 DEF Thread

LEMMA DaemonNextInv == DaemonInv /\ [DaemonNext]_daemonVars => DaemonInv'
<1> SUFFICES ASSUME DaemonInv, [DaemonNext]_daemonVars PROVE DaemonInv'
  OBVIOUS
<1>1. CASE BusCallback
  <2>1. /\ DOMAIN pc' = Thread /\ pc'["bus"] = "log_bus"
        /\ pc'["main"] = pc["main"] /\ pc'["body"] = pc["body"]
    BY <1>1, Moves DEF BusCallback, DaemonInv, Thread
  <2>2. QED
    BY <1>1, <2>1, OthersMove DEF BusCallback, BusLabel, sockVars
<1>2. CASE UNCHANGED <<pc, busVars, pipeVars, fd>>
  BY <1>2, OthersMove DEF DaemonInv, Labels
<1>3. CASE Signal \/ Deadline \/ Send \/ PathChanges \/ UNCHANGED daemonVars
  BY <1>2, <1>3 DEF Signal, Deadline, Send, PathChanges, daemonVars, sockVars
<1>4. QED
  BY <1>1, <1>3, MainStepInv, BodyStepInv, LogInv DEF DaemonNext

(* While the receive thread can run, the engine, the loop, the bus handle  *)
(* and the event registered on it exist: main frees none of them before    *)
(* pthread_join has returned, whichever way its start or shutdown went.    *)
THEOREM TeardownWaitsForThread == DaemonSpec => []TeardownExclusive
<1>1. DaemonInv => TeardownExclusive
  BY DEF DaemonInv, Labels, ThreadByMain, PipelineByMain, HandleByMain,
         TeardownExclusive, MainLabel, Wiring, Piped, Serving, Leaving, Stopped
<1>2. QED
  BY <1>1, DaemonInitInv, DaemonNextInv, PTL DEF DaemonSpec

(* Every failing exit of main has released the engine, the loop, its       *)
(* socket and the bus handle: the error paths undo what the start did.     *)
THEOREM FailedStartUndone == DaemonSpec => []FailedStartLeavesNothing
<1>1. DaemonInv => FailedStartLeavesNothing
  BY DEF DaemonInv, PipelineByMain, HandleByMain, FailedStartLeavesNothing
<1>2. QED
  BY <1>1, DaemonInitInv, DaemonNextInv, PTL DEF DaemonSpec

(* The log mutex is held by a thread inside a log call, or by a receive    *)
(* thread that was cancelled there.                                        *)
LockAccountedFor ==
    log_lock = "free"
    \/ /\ log_lock \in Thread
       /\ \/ Logging(log_lock)
          \/ log_lock = "body" /\ pc["body"] = "dead" /\ cancel

(* A jump of a thread that is not logging cannot lose the mutex. *)
LEMMA LockSurvivesMove ==
    ASSUME Labels, LockAccountedFor, NEW t \in Thread, NEW l, Goto(t, l),
           ~Logging(t), t = "body" => pc["body"] # "dead",
           log_lock' = log_lock, cancel => cancel'
    PROVE  LockAccountedFor'
<1>1. CASE log_lock = "free"
  BY <1>1 DEF LockAccountedFor
<1>2. CASE log_lock # "free"
  <2>1. log_lock \in Thread \ {t}
    BY <1>2 DEF LockAccountedFor
  <2>2. pc'[log_lock] = pc[log_lock]
    BY <2>1, Moves
  <2>3. CASE Logging(log_lock)
    BY <2>1, <2>2, <2>3 DEF LockAccountedFor, Logging
  <2>4. CASE log_lock = "body" /\ pc["body"] = "dead" /\ cancel
    BY <2>1, <2>2, <2>4 DEF LockAccountedFor
  <2>5. QED
    BY <1>2, <2>3, <2>4 DEF LockAccountedFor
<1>3. QED
  BY <1>1, <1>2

(* The log mutex stays locked only behind a thread that is still inside    *)
(* wei_util_file_write, or behind the receive thread cancelled there: no   *)
(* other end of a thread (an error on the socket, a failed start) strands  *)
(* it, so cancellation inside stdio is the only way to lose a shutdown.    *)
THEOREM OnlyCancellationStrandsLog == DaemonSpec => []LockAccountedFor
<1>1. DaemonInit => LockAccountedFor
  BY DEF DaemonInit, LockAccountedFor
<1>2. ASSUME DaemonInv, LockAccountedFor, [DaemonNext]_daemonVars
      PROVE  LockAccountedFor'
  <2> USE <1>2, LogReturns, LockSurvivesMove DEF Logging, DaemonInv, Thread
  <2>1. CASE MainStep
    <3>1. CASE BusOpen \/ BusOpenFails \/ WireInit \/ WireInitFails
      BY <3>1 DEF BusOpen, BusOpenFails, WireInit, WireInitFails
    <3>2. CASE CreateFails \/ SigWait \/ Join
      BY <3>2 DEF CreateFails, SigWait, Join
    <3>3. CASE WireDeinit \/ BusClose
      BY <3>3 DEF WireDeinit, BusClose
    <3>4. CASE Cancel
      BY <3>4 DEF Cancel
    <3>5. CASE Create
      <4>1. /\ pc["main"] = "create" /\ pc["body"] = "unborn"
            /\ UNCHANGED <<log_lock, cancel>> /\ pc'["bus"] = pc["bus"]
        BY <3>5 DEF Create, ThreadByMain, Piped, Labels
      <4>2. QED
        BY <4>1 DEF LockAccountedFor
    <3>6. QED
      BY <2>1, <3>1, <3>2, <3>3, <3>4, <3>5 DEF MainStep
  <2>2. CASE BodyStep \/ PollFails
    <3>1. CASE PollReturns \/ Recv \/ Stage \/ CheckDeadline \/ PollFails
      BY <3>1 DEF PollReturns, Recv, Stage, CheckDeadline, PollFails
    <3>2. CASE ReviveHealthy \/ ReviveOpens \/ ReviveFails \/ Sweep
      BY <3>2 DEF ReviveHealthy, ReviveOpens, ReviveFails, Sweep
    <3>3. QED
      BY <2>2, <3>1, <3>2 DEF BodyStep
  <2>3. CASE BodyCancelled
    <3>1. /\ pc'["body"] = "dead" /\ cancel' /\ log_lock' = log_lock
          /\ \A u \in Thread \ {"body"} : pc'[u] = pc[u]
      BY <2>3, Moves DEF BodyCancelled
    <3>2. QED
      BY <3>1 DEF LockAccountedFor
  <2>4. CASE BusCallback
    BY <2>4 DEF BusCallback
  <2>5. ASSUME NEW t \in Thread, LogLock(t) \/ LogUnlock(t)
        PROVE  LockAccountedFor'
    BY <2>5 DEF LogLock, LogUnlock, LockAccountedFor
  <2>6. CASE Signal \/ Deadline \/ Send \/ PathChanges \/ UNCHANGED daemonVars
    BY <2>6 DEF Signal, Deadline, Send, PathChanges, daemonVars, LockAccountedFor
  <2>7. QED
    BY <2>1, <2>2, <2>3, <2>4, <2>5, <2>6 DEF DaemonNext
<1>3. QED
  BY <1>1, <1>2, DaemonInitInv, DaemonNextInv, PTL DEF DaemonSpec
=============================================================================
