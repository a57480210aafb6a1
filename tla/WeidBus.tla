------------------------------- MODULE WeidBus -------------------------------
(***************************************************************************)
(* The daemon's bus handle (weid_bus.c), the registration of the data      *)
(* model on it (wei_connperf_dml_register) and the unfiltered report       *)
(* writer that fires through it (wei_report_publish.c), composed with the  *)
(* enable of record (WeidRfc) that is set through the handle and gates the *)
(* writer. The units' functions are called one after the other on the      *)
(* daemon's thread, in any order; the bus library's thread runs property   *)
(* callbacks between any two of their steps, and the process may die at    *)
(* any point. WeidDaemon models the one order of calls the daemon makes.   *)
(*                                                                         *)
(* Data: a return code is a success or an error, and a report only whether *)
(* it was fired. That the library delivers an event only on the handle its *)
(* element was registered on is what wei_connperf_dml.c says of it.        *)
(***************************************************************************)
EXTENDS WeidRfc

VARIABLES pc,           \* where the daemon's thread is
          opened,       \* g_weid_bus.opened
          connected,    \* the library holds an open handle for the daemon
          elements,     \* the data model's elements live on that handle
          registered,   \* g_wei_connperf_dml.registered
          closed,       \* history: an open handle was closed since the start
          returned,     \* the latest call and what it returned
          fired,        \* history: reports fired by the latest tick
          seen          \* history: values of the enable during that call

handleVars == <<opened, connected, elements, registered, closed>>
busVars == <<pc, handleVars, returned, fired, seen>>

Return(call, rc) == pc' = "idle" /\ returned' = [call |-> call, rc |-> rc]

(* What the statics of the process hold when it starts. *)
BusInit ==
    /\ RfcInit
    /\ pc = "idle"
    /\ opened = FALSE /\ connected = FALSE
    /\ elements = FALSE /\ registered = FALSE /\ closed = FALSE
    /\ returned = [call |-> "none", rc |-> "success"]
    /\ fired = 0 /\ seen = {}

-----------------------------------------------------------------------------
(* weid_bus_open. *)
BusOpenAgain ==
    /\ pc = "idle" /\ opened
    /\ Return("open", "success")
    /\ UNCHANGED <<handleVars, fired, seen>>

(* No descriptor, or bus_open_fn fails. *)
BusOpenFails ==
    /\ pc = "idle" /\ ~opened
    /\ Return("open", "error")
    /\ UNCHANGED <<handleVars, fired, seen>>

BusOpen ==
    /\ pc = "idle" /\ ~opened
    /\ opened' = TRUE /\ connected' = TRUE /\ elements' = FALSE
    /\ pc' = "register"
    /\ UNCHANGED <<registered, closed, returned, fired, seen>>

(* wei_connperf_dml_register: once per process. *)
RegisteredBefore ==
    /\ pc = "register" /\ registered
    /\ Return("open", "success")
    /\ UNCHANGED <<handleVars, fired, seen>>

Register ==
    /\ pc = "register" /\ ~registered
    /\ elements' = TRUE /\ registered' = TRUE
    /\ Return("open", "success")
    /\ UNCHANGED <<opened, connected, closed, fired, seen>>

(* A failed registration that forgets the handle without closing it. *)
RegisterFailsLeaks ==
    /\ pc = "register" /\ ~registered
    /\ opened' = FALSE
    /\ Return("open", "error")
    /\ UNCHANGED <<connected, elements, registered, closed, fired, seen>>

(* No descriptor, or the library refuses: weid_bus_open closes again. *)
RegisterFails ==
    /\ pc = "register" /\ ~registered
    /\ connected' = FALSE /\ opened' = FALSE
    /\ Return("open", "error")
    /\ UNCHANGED <<elements, registered, closed, fired, seen>>

(* weid_bus_close; the elements go with the handle. *)
BusClose ==
    /\ pc = "idle"
    /\ connected' = (connected /\ ~opened)
    /\ elements' = (elements /\ ~opened)
    /\ opened' = FALSE /\ closed' = (closed \/ opened)
    /\ Return("close", "success")
    /\ UNCHANGED <<registered, fired, seen>>

-----------------------------------------------------------------------------
(* wei_report_publish_tick; without a MAC or a result it is refused. *)
TickRefused ==
    /\ pc = "idle"
    /\ Return("tick", "error")
    /\ fired' = 0 /\ seen' = {cache}
    /\ UNCHANGED handleVars

TickBegins ==
    /\ pc = "idle"
    /\ pc' = "gate" /\ fired' = 0 /\ seen' = {cache}
    /\ UNCHANGED <<handleVars, returned>>

(* wei_report_enabled, and wei_report_should_emit, which admits all. *)
Gate ==
    /\ pc = "gate"
    /\ IF cache THEN pc' = "handle" /\ UNCHANGED returned
                ELSE Return("tick", "success")
    /\ UNCHANGED <<handleVars, fired, seen>>

(* weid_bus_handle, and wei_report_marshal, which cannot fail here. *)
TakeHandle ==
    /\ pc = "handle"
    /\ IF opened THEN pc' = "fire" /\ UNCHANGED returned
                 ELSE Return("tick", "error")
    /\ UNCHANGED <<handleVars, fired, seen>>

(* wei_report_fire. *)
Fire ==
    /\ pc = "fire" /\ connected /\ elements
    /\ fired' = fired + 1
    /\ Return("tick", "success")
    /\ UNCHANGED <<handleVars, seen>>

(* A failed publish reported as a success. *)
FireFailsSilently ==
    /\ pc = "fire"
    /\ Return("tick", "success")
    /\ UNCHANGED <<handleVars, fired, seen>>

(* No publish function, or the library's error. *)
FireFails ==
    /\ pc = "fire"
    /\ Return("tick", "error")
    /\ UNCHANGED <<handleVars, fired, seen>>

(* The daemon's thread is in one of these calls, or between two. *)
BusCall ==
    \/ BusOpenAgain \/ BusOpenFails \/ BusOpen
    \/ RegisteredBefore \/ Register \/ RegisterFails
    \/ BusClose
    \/ TickRefused \/ TickBegins \/ Gate \/ TakeHandle \/ Fire \/ FireFails

-----------------------------------------------------------------------------
(* The library's thread: a write to the enable, which a call in progress   *)
(* on the other thread may see at once...                                  *)
WriteEnable ==
    /\ elements
    /\ \E b \in BOOLEAN : EnableSet(b)
    /\ seen' = IF pc = "idle" THEN seen ELSE seen \cup {cache'}
    /\ UNCHANGED <<pc, handleVars, returned, fired>>

(* ...or to the other property, or one that is refused. *)
WriteOther ==
    /\ elements
    /\ SetRefused \/ \E f \in ConfigFlags : ConfigSet(f)
    /\ UNCHANGED busVars

(* A set that has begun runs on, also while the handle is being closed. *)
SetGoesOn ==
    /\ EncodeOrOpenFails \/ Open \/ WriteFails \/ Write
    /\ UNCHANGED busVars

ProcessStarts == Load /\ UNCHANGED busVars

(* Statics and handle go with the process. *)
ProcessDies ==
    /\ Crash
    /\ pc' = "idle" /\ returned' = [call |-> "none", rc |-> "success"]
    /\ opened' = FALSE /\ connected' = FALSE
    /\ elements' = FALSE /\ registered' = FALSE /\ closed' = FALSE
    /\ fired' = 0 /\ seen' = {}

BusNext ==
    \/ up /\ BusCall /\ UNCHANGED rfcVars
    \/ WriteEnable \/ WriteOther \/ SetGoesOn
    \/ ProcessStarts \/ ProcessDies

BusSpec == BusInit /\ [][BusNext]_<<rfcVars, busVars>>

-----------------------------------------------------------------------------
(* Whatever calls failed on the way, weid_bus_handle offers a handle       *)
(* exactly while the library holds one: a failed open leaves none behind,  *)
(* none is closed twice, and elements live on no other. "Returns           *)
(* bus_error_success once the handle is open and registered"               *)
(* (weid_bus.h:34): however many opens and registrations failed before it, *)
(* a successful open has put the elements on the handle. The registered    *)
(* flag outlives the handle, so that is about the first handle a process   *)
(* keeps; the daemon opens no second one.                                  *)
HandleTracksConnection ==
    /\ opened <=> connected
    /\ elements => connected
    /\ pc = "idle" /\ returned = [call |-> "open", rc |-> "success"] /\ ~closed => elements

(* A tick that returned success fired exactly one report while the pillar  *)
(* was enabled, or fired none and met the pillar disabled; one that        *)
(* returned an error fired nothing. The enable may change during the call. *)
TickReportsOrIsOff ==
    pc = "idle" /\ returned.call = "tick" =>
        \/ returned.rc = "success" /\ fired = 1 /\ TRUE \in seen
        \/ returned.rc = "success" /\ fired = 0 /\ FALSE \in seen
        \/ returned.rc = "error" /\ fired = 0

=============================================================================
