---------------------------- MODULE WeidBusProofs ----------------------------
(***************************************************************************)
(* The enable of record keeps its promises for every sequence of sets,     *)
(* failures, crashes and restarts; so does the composition with the bus    *)
(* handle and the report writer, which keep theirs for every order of      *)
(* calls and every property write between their steps.                     *)
(***************************************************************************)
EXTENDS WeidBus, TLAPS

(* The file on its own already bounds what a later load can enable; this   *)
(* is what a crash needs, when the cache is gone.                          *)
FileOnlyIfAsked == file = "on" => TRUE \in asked

(* While a set is in progress its value is one that was asked for, and the *)
(* file may be half written: nothing is acknowledged.                      *)
SetInProgress ==
    step # "idle" => ~acked /\ value \in asked /\ cache = value

RfcInv ==
    /\ RfcTypeOK
    /\ SetInProgress
    /\ FileOnlyIfAsked
    /\ AckedSurvives
    /\ EnabledOnlyIfAsked

LEMMA RfcInitInv == RfcInit => RfcInv
BY Zenon DEF RfcInit, RfcInv, RfcTypeOK, SetInProgress, FileOnlyIfAsked,
   AckedSurvives, EnabledOnlyIfAsked, FileText

LEMMA TextOn == \A b \in BOOLEAN : Text(b) = "on" <=> b
BY DEF Text

LEMMA RfcNextInv == RfcInv /\ [RfcNext]_rfcVars => RfcInv'
<1> SUFFICES ASSUME RfcInv, [RfcNext]_rfcVars PROVE RfcInv'
  OBVIOUS
<1> USE DEF RfcInv, RfcTypeOK, SetInProgress, FileOnlyIfAsked, AckedSurvives,
        EnabledOnlyIfAsked
<1>1. CASE Load
  BY <1>1, TextOn DEF Load, Loaded
<1>2. CASE Crash
  BY <1>2 DEF Crash
<1>3. ASSUME NEW b \in BOOLEAN, EnableSet(b) PROVE RfcInv'
  BY <1>3 DEF EnableSet
<1>4. CASE EncodeOrOpenFails
  BY <1>4 DEF EncodeOrOpenFails
<1>5. CASE Open
  BY <1>5 DEF Open, FileText
<1>6. CASE WriteFails
  BY <1>6, TextOn DEF WriteFails, FileText, Text
<1>7. CASE Write
  BY <1>7, TextOn DEF Write, FileText, Text
<1>8. ASSUME NEW f \in ConfigFlags, ConfigSet(f) PROVE RfcInv'
  BY <1>8 DEF ConfigSet
<1>9. CASE SetRefused \/ UNCHANGED rfcVars
  <2>1. UNCHANGED <<file, up, cache, config_flags, step, value, acked, asked>>
    BY <1>9, Zenon DEF SetRefused, rfcVars
  <2>2. QED
    BY <2>1
<1>10. QED
  BY <1>1, <1>2, <1>3, <1>4, <1>5, <1>6, <1>7, <1>8, <1>9 DEF RfcNext

(* A value the bus client was told is stored is stored and in force, after *)
(* every crash and restart, until the next set.                            *)
THEOREM AckedValueSurvives == RfcSpec => []AckedSurvives
<1>1. RfcInv => AckedSurvives
  BY DEF RfcInv
<1>2. QED
  BY RfcInitInv, RfcNextInv, <1>1, PTL DEF RfcSpec

(* The pillar is never enabled by an accident of storage.                  *)
THEOREM NeverEnabledByAccident == RfcSpec => []EnabledOnlyIfAsked
<1>1. RfcInv => EnabledOnlyIfAsked
  BY DEF RfcInv
<1>2. QED
  BY RfcInitInv, RfcNextInv, <1>1, PTL DEF RfcSpec

-----------------------------------------------------------------------------
(* Every step of the composition is a step of the enable of record, or     *)
(* none of its business.                                                   *)
LEMMA BusStepIsRfcStep == [BusNext]_<<rfcVars, busVars>> => [RfcNext]_rfcVars
<1> SUFFICES ASSUME [BusNext]_<<rfcVars, busVars>> PROVE [RfcNext]_rfcVars
  OBVIOUS
<1>1. CASE up /\ BusCall /\ UNCHANGED rfcVars
  BY <1>1
<1>2. CASE WriteEnable
  BY <1>2 DEF WriteEnable, RfcNext
<1>3. CASE WriteOther
  BY <1>3 DEF WriteOther, RfcNext
<1>4. CASE SetGoesOn
  BY <1>4 DEF SetGoesOn, RfcNext
<1>5. CASE ProcessStarts \/ ProcessDies
  BY <1>5 DEF ProcessStarts, ProcessDies, RfcNext
<1>6. CASE UNCHANGED <<rfcVars, busVars>>
  BY <1>6
<1>7. QED
  BY <1>1, <1>2, <1>3, <1>4, <1>5, <1>6 DEF BusNext

(* The composition implements the enable of record on its own: whatever    *)
(* the bus library and the callers of the handle do, the flag sees only    *)
(* steps that weid_rfc.c takes.                                            *)
THEOREM BusImplementsRfc == BusSpec => RfcSpec
<1>1. BusInit => RfcInit
  BY DEF BusInit
<1>2. QED
  BY <1>1, BusStepIsRfcStep, PTL DEF BusSpec, RfcSpec

(* Both promises of the enable carry over to the composition.              *)
THEOREM EnableHoldsOnTheBus == BusSpec => [](AckedSurvives /\ EnabledOnlyIfAsked)
BY BusImplementsRfc, AckedValueSurvives, NeverEnabledByAccident, PTL

-----------------------------------------------------------------------------
Booleans ==
    /\ opened \in BOOLEAN /\ connected \in BOOLEAN /\ elements \in BOOLEAN
    /\ registered \in BOOLEAN /\ closed \in BOOLEAN

(* The thread is in a call only while the process runs, and where it is    *)
(* says what it has established.                                           *)
CallInProgress ==
    /\ pc \in {"idle", "register", "gate", "handle", "fire"}
    /\ pc # "idle" => up
    /\ pc = "register" => opened /\ ~elements

(* Registration happened on the present handle, unless that is a second    *)
(* one: then the first was closed.                                         *)
RegisteredOnHandle ==
    /\ registered /\ ~closed => elements
    /\ opened /\ ~closed /\ pc # "register" => elements

(* What a report call has seen of the enable, and what it has fired.       *)
ReportInProgress ==
    pc \in {"gate", "handle", "fire"} =>
        /\ fired = 0 /\ cache \in seen
        /\ pc # "gate" => TRUE \in seen

HandleInv ==
    /\ Booleans
    /\ CallInProgress
    /\ RegisteredOnHandle
    /\ HandleTracksConnection
    /\ ReportInProgress
    /\ TickReportsOrIsOff

LEMMA HandleInitInv == BusInit => HandleInv
<1> SUFFICES ASSUME BusInit PROVE HandleInv
  OBVIOUS
<1>1. Booleans /\ CallInProgress /\ RegisteredOnHandle
  BY DEF BusInit, Booleans, CallInProgress, RegisteredOnHandle
<1>2. HandleTracksConnection
  BY DEF BusInit, HandleTracksConnection
<1>3. ReportInProgress /\ TickReportsOrIsOff
  BY DEF BusInit, ReportInProgress, TickReportsOrIsOff
<1>4. QED
  BY <1>1, <1>2, <1>3 DEF HandleInv

(* Each call keeps the handle and its registration in order...             *)
LEMMA CallKeepsHandle ==
    ASSUME HandleInv, up, BusCall, UNCHANGED rfcVars
    PROVE  (Booleans /\ CallInProgress /\ RegisteredOnHandle /\ HandleTracksConnection)'
<1> USE DEF HandleInv, Booleans, CallInProgress, RegisteredOnHandle,
        HandleTracksConnection, Return, handleVars, rfcVars
<1>1. CASE BusOpenAgain
  BY <1>1 DEF BusOpenAgain
<1>2. CASE BusOpenFails
  BY <1>2 DEF BusOpenFails
<1>3. CASE BusOpen
  BY <1>3 DEF BusOpen
<1>4. CASE RegisteredBefore
  BY <1>4 DEF RegisteredBefore
<1>5. CASE Register
  BY <1>5 DEF Register
<1>6. CASE RegisterFails
  BY <1>6 DEF RegisterFails
<1>7. CASE BusClose
  BY <1>7 DEF BusClose
<1>8. CASE TickRefused
  BY <1>8 DEF TickRefused
<1>9. CASE TickBegins
  BY <1>9 DEF TickBegins
<1>10. CASE Gate
  BY <1>10 DEF Gate
<1>11. CASE TakeHandle
  BY <1>11 DEF TakeHandle
<1>12. CASE Fire
  BY <1>12 DEF Fire
<1>13. CASE FireFails
  BY <1>13 DEF FireFails
<1>14. QED
  BY <1>1, <1>2, <1>3, <1>4, <1>5, <1>6, <1>7, <1>8, <1>9, <1>10, <1>11, <1>12, <1>13
  DEF BusCall

(* ...and returns what it did.                                             *)
LEMMA CallTells ==
    ASSUME HandleInv, RfcTypeOK, up, BusCall, UNCHANGED rfcVars
    PROVE  (ReportInProgress /\ TickReportsOrIsOff)'
<1> USE DEF HandleInv, ReportInProgress, TickReportsOrIsOff, Return, rfcVars, RfcTypeOK
<1>1. CASE BusOpenAgain \/ BusOpenFails
  <2>1. pc' = "idle" /\ returned'.call = "open"
    BY <1>1 DEF BusOpenAgain, BusOpenFails
  <2>2. QED
    BY <2>1
<1>2. CASE BusOpen
  BY <1>2 DEF BusOpen
<1>3. CASE RegisteredBefore \/ Register
  <2>1. pc' = "idle" /\ returned'.call = "open"
    BY <1>3 DEF RegisteredBefore, Register
  <2>2. QED
    BY <2>1
<1>4. CASE RegisterFails
  BY <1>4 DEF RegisterFails
<1>5. CASE BusClose
  BY <1>5 DEF BusClose
<1>6. CASE TickRefused
  BY <1>6 DEF TickRefused
<1>7. CASE TickBegins
  BY <1>7 DEF TickBegins
<1>8. CASE Gate
  <2>1. cache \in seen /\ fired = 0 /\ cache' = cache /\ seen' = seen /\ fired' = fired
    BY <1>8 DEF Gate
  <2>2. CASE cache
    <3>1. TRUE \in seen
      BY <2>1, <2>2, Zenon
    <3>2. pc' = "handle"
      BY <1>8, <2>2 DEF Gate
    <3>3. QED
      BY <2>1, <3>1, <3>2
  <2>3. CASE ~cache
    <3>1. FALSE \in seen
      BY <2>1, <2>3, Zenon
    <3>2. pc' = "idle" /\ returned' = [call |-> "tick", rc |-> "success"]
      BY <1>8, <2>3 DEF Gate
    <3>3. QED
      BY <2>1, <3>1, <3>2
  <2>4. QED
    BY <2>2, <2>3
<1>9. CASE TakeHandle
  <2>1. /\ fired = 0 /\ cache \in seen /\ TRUE \in seen
        /\ cache' = cache /\ seen' = seen /\ fired' = fired
    BY <1>9 DEF TakeHandle
  <2>2. CASE opened
    BY <1>9, <2>1, <2>2 DEF TakeHandle
  <2>3. CASE ~opened
    <3>1. pc' = "idle" /\ returned' = [call |-> "tick", rc |-> "error"]
      BY <1>9, <2>3 DEF TakeHandle
    <3>2. QED
      BY <2>1, <3>1
  <2>4. QED
    BY <2>2, <2>3
<1>10. CASE Fire
  <2>1. fired = 0 /\ TRUE \in seen /\ fired' = fired + 1 /\ seen' = seen
    BY <1>10 DEF Fire
  <2>2. pc' = "idle" /\ returned' = [call |-> "tick", rc |-> "success"]
    BY <1>10 DEF Fire
  <2>3. fired' = 1
    BY <2>1
  <2>4. QED
    BY <2>1, <2>2, <2>3, Zenon
<1>11. CASE FireFails
  BY <1>11 DEF FireFails
<1>12. QED
  BY <1>1, <1>2, <1>3, <1>4, <1>5, <1>6, <1>7, <1>8, <1>9, <1>10, <1>11 DEF BusCall

LEMMA HandleNextInv ==
    HandleInv /\ RfcTypeOK /\ RfcTypeOK' /\ [BusNext]_<<rfcVars, busVars>> => HandleInv'
<1> SUFFICES ASSUME HandleInv, RfcTypeOK, RfcTypeOK', [BusNext]_<<rfcVars, busVars>>
             PROVE  HandleInv'
  OBVIOUS
<1> USE DEF HandleInv, Booleans, CallInProgress, RegisteredOnHandle,
        HandleTracksConnection, ReportInProgress, TickReportsOrIsOff,
        busVars, handleVars, rfcVars
<1>1. CASE up /\ BusCall /\ UNCHANGED rfcVars
  BY <1>1, CallKeepsHandle, CallTells
<1>2. CASE WriteEnable
  <2>1. /\ UNCHANGED <<pc, opened, connected, elements, registered, closed, returned, fired>>
        /\ up' = up /\ seen \subseteq seen' /\ (pc = "idle" => seen' = seen)
    BY <1>2 DEF WriteEnable, EnableSet
  <2>2. pc # "idle" => cache' \in seen'
    BY <1>2 DEF WriteEnable
  <2>3. QED
    BY <2>1, <2>2
<1>3. CASE WriteOther
  <2>1. UNCHANGED <<up, cache>> /\ UNCHANGED busVars
    BY <1>3 DEF WriteOther, SetRefused, ConfigSet
  <2>2. QED
    BY <2>1
<1>4. CASE SetGoesOn
  BY <1>4 DEF SetGoesOn, EncodeOrOpenFails, Open, WriteFails, Write
<1>5. CASE ProcessStarts
  BY <1>5 DEF ProcessStarts, Load
<1>6. CASE ProcessDies
  BY <1>6 DEF ProcessDies, Crash
<1>7. CASE UNCHANGED <<rfcVars, busVars>>
  BY <1>7
<1>8. QED
  BY <1>1, <1>2, <1>3, <1>4, <1>5, <1>6, <1>7 DEF BusNext

LEMMA HandleInvariant == BusSpec => []HandleInv
<1>1. BusSpec => []RfcTypeOK
  <2>1. RfcInv => RfcTypeOK
    BY DEF RfcInv
  <2>2. QED
    BY <2>1, BusImplementsRfc, RfcInitInv, RfcNextInv, PTL DEF RfcSpec
<1>2. QED
  BY <1>1, HandleInitInv, HandleNextInv, PTL DEF BusSpec

(* weid_bus_handle never offers a handle that the library does not hold,   *)
(* nor hides one, and a first open that succeeds has registered.           *)
THEOREM HandleIsTheConnection == BusSpec => []HandleTracksConnection
<1>1. HandleInv => HandleTracksConnection
  BY DEF HandleInv
<1>2. QED
  BY <1>1, HandleInvariant, PTL

(* A report call's return code tells what was fired, whatever the bus      *)
(* thread does to the enable meanwhile.                                    *)
THEOREM ReturnCodeTells == BusSpec => []TickReportsOrIsOff
<1>1. HandleInv => TickReportsOrIsOff
  BY DEF HandleInv
<1>2. QED
  BY <1>1, HandleInvariant, PTL
=============================================================================
