----------------------------- MODULE WeiSockdump -----------------------------
(***************************************************************************)
(* The socket path that the daemon (wei_poll.c) and the diagnostic tool    *)
(* (wei_sockdump.c) both bind. Each of them unlinks whatever is there and  *)
(* binds its own socket, in two calls the other can come between; the      *)
(* daemon looks at the path again on every tick, the tool unlinks it on    *)
(* its way out. The tool is meant to run "INSTEAD of wei": "orderly" is an *)
(* operator who keeps to that, and the other operator starts both at will. *)
(*                                                                         *)
(* Data: what the path names, and how many datagrams wait for the tool,    *)
(* which only prints them. The committed tool is linked against signal()   *)
(* of the C library's BSD form: a handler restarts the recv() it           *)
(* interrupted.                                                            *)
(***************************************************************************)
EXTENDS Naturals

CONSTANT ToolQueue      \* bound: datagrams queued in the tool's socket

ASSUME ToolQueueAssumption == ToolQueue \in Nat \ {0}

VARIABLES path,         \* the socket the path names: wei's, the tool's, one
                        \* whose owner closed it, or none
          wei,          \* where the daemon is
          running,      \* it has entered wei_poll_run
          tool,         \* where the tool is
          g_stop,       \* the tool's stop flag
          queued,       \* datagrams waiting in the tool's socket
          orderly,      \* the operator runs the tool instead of the daemon
          killed        \* a tool was killed: it could not unlink the path

weiVars == <<wei, running>>
toolVars == <<tool, g_stop, queued>>
dumpVars == <<path, weiVars, toolVars, orderly, killed>>

(* The owner's close() leaves its name behind. *)
Closed(owner) == IF path = owner THEN "dead" ELSE path

DumpInit ==
    /\ path \in {"none", "dead"}
    /\ wei = "down" /\ running = FALSE
    /\ tool = "off" /\ g_stop = FALSE /\ queued = 0
    /\ orderly \in BOOLEAN /\ killed = FALSE

-----------------------------------------------------------------------------
(* The daemon. wei_sock_open unlinks and binds, first for wei_poll_create, *)
(* later for wei_poll_revive_socket.                                       *)
WeiStart ==
    /\ wei = "down" /\ (orderly => tool = "off")
    /\ wei' = "unlink"
    /\ UNCHANGED <<path, running, toolVars, orderly, killed>>

WeiUnlink ==
    /\ wei = "unlink"
    /\ path' = "none" /\ wei' = "bind"
    /\ UNCHANGED <<running, toolVars, orderly, killed>>

WeiBind ==
    /\ wei = "bind" /\ path = "none"
    /\ path' = "wei" /\ wei' = "poll" /\ running' = TRUE
    /\ UNCHANGED <<toolVars, orderly, killed>>

(* The path was taken in between: a start fails, a running loop goes on    *)
(* without a socket until a later tick.                                    *)
WeiBindFails ==
    /\ wei = "bind" /\ path # "none"
    /\ wei' = IF running THEN "poll" ELSE "down"
    /\ UNCHANGED <<path, running, toolVars, orderly, killed>>

(* A tick that finds a socket, whoever's, leaves it; one that finds none   *)
(* closes its own and opens another.                                       *)
WeiTick ==
    /\ wei = "poll" /\ path = "none"
    /\ wei' = "unlink"
    /\ UNCHANGED <<path, running, toolVars, orderly, killed>>

WeiStop ==
    /\ wei # "down"
    /\ path' = Closed("wei") /\ wei' = "down" /\ running' = FALSE
    /\ UNCHANGED <<toolVars, orderly, killed>>

WeiOpens == WeiUnlink \/ WeiBind \/ WeiBindFails

-----------------------------------------------------------------------------
(* The tool: main of wei_sockdump.c. *)
ToolStart ==
    /\ tool = "off" /\ (orderly => wei = "down")
    /\ tool' = "unlink" /\ g_stop' = FALSE /\ queued' = 0
    /\ UNCHANGED <<path, weiVars, orderly, killed>>

(* A tool that expects the path to be free. *)
ToolUnlinkSkipped ==
    /\ tool = "unlink"
    /\ tool' = "bind"
    /\ UNCHANGED <<path, weiVars, g_stop, queued, orderly, killed>>

ToolUnlink ==
    /\ tool = "unlink"
    /\ path' = "none" /\ tool' = "bind"
    /\ UNCHANGED <<weiVars, g_stop, queued, orderly, killed>>

ToolBind ==
    /\ tool = "bind" /\ path = "none"
    /\ path' = "tool" /\ tool' = "loop"
    /\ UNCHANGED <<weiVars, g_stop, queued, orderly, killed>>

(* "is wei still running?" *)
ToolBindFails ==
    /\ tool = "bind" /\ path # "none"
    /\ tool' = "off"
    /\ UNCHANGED <<path, weiVars, g_stop, queued, orderly, killed>>

(* A loop that does not look at the flag. *)
ToolLoopEndless ==
    /\ tool = "loop"
    /\ tool' = "recv"
    /\ UNCHANGED <<path, weiVars, g_stop, queued, orderly, killed>>

ToolLoop ==
    /\ tool = "loop"
    /\ tool' = IF g_stop THEN "close" ELSE "recv"
    /\ UNCHANGED <<path, weiVars, g_stop, queued, orderly, killed>>

(* A datagram, runt or frame, is printed. *)
ToolRecv ==
    /\ tool = "recv" /\ queued > 0
    /\ queued' = queued - 1 /\ tool' = "loop"
    /\ UNCHANGED <<path, weiVars, g_stop, orderly, killed>>

ToolRecvFails ==
    /\ tool = "recv"
    /\ tool' = "close"
    /\ UNCHANGED <<path, weiVars, g_stop, queued, orderly, killed>>

ToolClose ==
    /\ tool = "close"
    /\ path' = Closed("tool") /\ queued' = 0 /\ tool' = "leave"
    /\ UNCHANGED <<weiVars, g_stop, orderly, killed>>

(* A tool that leaves its closed socket at the path. *)
ToolLeavesPath ==
    /\ tool = "leave"
    /\ tool' = "off"
    /\ UNCHANGED <<path, weiVars, g_stop, queued, orderly, killed>>

ToolLeave ==
    /\ tool = "leave"
    /\ path' = "none" /\ tool' = "off"
    /\ UNCHANGED <<weiVars, g_stop, queued, orderly, killed>>

ToolStep ==
    \/ ToolUnlink \/ ToolBind \/ ToolBindFails
    \/ ToolLoop \/ ToolRecv \/ ToolClose \/ ToolLeave

(* on_signal, for SIGINT and SIGTERM. *)
Interrupt ==
    /\ tool # "off" /\ ~g_stop
    /\ g_stop' = TRUE
    /\ UNCHANGED <<path, weiVars, tool, queued, orderly, killed>>

(* SIGKILL, or a crash. *)
ToolKilled ==
    /\ tool # "off"
    /\ path' = Closed("tool") /\ tool' = "off" /\ queued' = 0 /\ killed' = TRUE
    /\ UNCHANGED <<weiVars, g_stop, orderly>>

Send ==
    /\ path = "tool" /\ queued < ToolQueue
    /\ queued' = queued + 1
    /\ UNCHANGED <<path, weiVars, tool, g_stop, orderly, killed>>

-----------------------------------------------------------------------------
(* Run instead of each other, neither loses the path to the other or to    *)
(* what an earlier one, killed ones included, left there: each binds a     *)
(* free path, and a daemon that polls and a tool that receives own it.     *)
InsteadKeepsPath ==
    orderly => /\ "bind" \in {wei, tool} => path = "none"
               /\ wei = "poll" => path = "wei"
               /\ tool \in {"loop", "recv"} => path = "tool"
=============================================================================
