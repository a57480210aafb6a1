------------------------------ MODULE WeidRfc ------------------------------
(***************************************************************************)
(* The daemon's enable-of-record (weid_rfc.c) behind its two data-model    *)
(* properties (wei_connperf_dml.c): a cached flag, loaded from an nvram    *)
(* JSON file when the process starts and written back on every set. The    *)
(* process may die at any point and be started again; the file survives    *)
(* it, the cache and the opaque config flags do not.                       *)
(*                                                                         *)
(* Data: the file is what a load can tell apart. "empty" is also what      *)
(* fopen(.., "w") leaves before the text is flushed, "corrupt" any text    *)
(* that does not parse or has no boolean under RFC.WhenConnected.          *)
(***************************************************************************)
EXTENDS Naturals

CONSTANT ConfigFlags    \* values a bus client may write to ConfigFlags

ASSUME FlagsAssumption == ConfigFlags \subseteq Nat

VARIABLES file,          \* /nvram/wei.json
          up,            \* the process runs and has loaded its RFC
          cache,         \* g_weid_rfc.connperf_enabled
          config_flags,  \* g_wei_connperf_dml.config_flags
          step,          \* where a set in progress stands
          value,         \* the value of the latest set
          acked,         \* history: the latest set returned success
          asked          \* history: values whose effect a reader may expect

rfcVars == <<file, up, cache, config_flags, step, value, acked, asked>>

FileText == {"absent", "empty", "corrupt", "on", "off"}

Text(b) == IF b THEN "on" ELSE "off"

RfcInit ==
    /\ file \in FileText \ {"empty"}
    /\ up = FALSE /\ cache = FALSE /\ config_flags = 0
    /\ step = "idle" /\ value = FALSE
    /\ acked = FALSE /\ asked = {file = "on"}

(* A loader that takes anything but an explicit "off" for enabled. *)
LoadedDefaultOn == file # "off"

(* What weid_rfc_load makes of the file: every failure means DISABLED. *)
Loaded == file = "on"

(* The process starts: statics are initialised, main loads the RFC. *)
Load ==
    /\ ~up
    /\ up' = TRUE /\ cache' = Loaded /\ config_flags' = 0
    /\ UNCHANGED <<file, step, value, acked, asked>>

(* The process dies; a set it was in the middle of never returns, and text *)
(* still in the stdio buffer is lost.                                      *)
Crash ==
    /\ up
    /\ up' = FALSE /\ cache' = FALSE /\ config_flags' = 0 /\ step' = "idle"
    /\ UNCHANGED <<file, value, acked, asked>>

(* wei_connperf_enable_set hands a boolean to weid_rfc_connperf_set, which *)
(* updates the cache before anything else.                                 *)
EnableSet(b) ==
    /\ up /\ step = "idle"
    /\ cache' = b /\ step' = "encode" /\ value' = b
    /\ acked' = FALSE /\ asked' = asked \cup {b}
    /\ UNCHANGED <<file, up, config_flags>>

(* A property write of another data type, or without a name or value, is   *)
(* refused before it reaches the store.                                    *)
SetRefused ==
    /\ up /\ step = "idle"
    /\ UNCHANGED rfcVars

(* The JSON cannot be built or the file cannot be opened: -1, the cache    *)
(* keeps the new value and the file the old one.                           *)
EncodeOrOpenFails ==
    /\ step = "encode"
    /\ step' = "idle"
    /\ UNCHANGED <<file, up, cache, config_flags, value, acked, asked>>

(* fopen(.., "w") truncates what was there. *)
Open ==
    /\ step = "encode"
    /\ step' = "write" /\ file' = "empty"
    /\ UNCHANGED <<up, cache, config_flags, value, acked, asked>>

(* A set that reports success without looking at fputs and fclose. *)
WriteFailsUnnoticed ==
    /\ step = "write"
    /\ file' \in {"empty", "corrupt", Text(value)}
    /\ step' = "idle" /\ acked' = TRUE /\ asked' = {value}
    /\ UNCHANGED <<up, cache, config_flags, value>>

(* fputs or fclose fails with any part of the text written: -1. *)
WriteFails ==
    /\ step = "write"
    /\ file' \in {"empty", "corrupt", Text(value)}
    /\ step' = "idle"
    /\ UNCHANGED <<up, cache, config_flags, value, acked, asked>>

Write ==
    /\ step = "write"
    /\ file' = Text(value)
    /\ step' = "idle" /\ acked' = TRUE /\ asked' = {value}
    /\ UNCHANGED <<up, cache, config_flags, value>>

ConfigSet(f) ==
    /\ up /\ step = "idle"
    /\ config_flags' = f
    /\ UNCHANGED <<file, up, cache, step, value, acked, asked>>

RfcNext ==
    \/ Load
    \/ Crash
    \/ \E b \in BOOLEAN : EnableSet(b)
    \/ SetRefused
    \/ EncodeOrOpenFails
    \/ Open
    \/ WriteFails
    \/ Write
    \/ \E f \in ConfigFlags : ConfigSet(f)

RfcSpec == RfcInit /\ [][RfcNext]_rfcVars

-----------------------------------------------------------------------------
(* The flags, the file's readings and the place of a set in progress.      *)
(* Only a running process is in the middle of a set.                       *)
RfcTypeOK ==
    /\ file \in FileText
    /\ up \in BOOLEAN /\ cache \in BOOLEAN /\ value \in BOOLEAN
    /\ config_flags \in ConfigFlags \cup {0}
    /\ step \in {"idle", "encode", "write"} /\ (step # "idle" => up)
    /\ acked \in BOOLEAN /\ asked \in SUBSET BOOLEAN

(* A set that returned 0 is the enable of record: the file holds it and    *)
(* the running daemon uses it, through any number of crashes and restarts, *)
(* until another set is begun.                                             *)
AckedSurvives ==
    acked => file = Text(value) /\ (up => cache = value)

(* No crash, truncated file or failed write turns the pillar on: it is     *)
(* enabled only if the last acknowledged value, or one asked for since, is *)
(* TRUE ("absent, corrupt, or truncated file ... safe default", weid_rfc.h)*)
EnabledOnlyIfAsked ==
    up /\ cache => TRUE \in asked
=============================================================================
