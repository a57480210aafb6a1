------------------------------- MODULE WeiLog -------------------------------
(***************************************************************************)
(* The debug log on tmpfs (wei_util.c): wei_util_print assembles a line in *)
(* a fixed buffer, and wei_util_file_write appends it to a file that is    *)
(* opened on first use and restarted when its byte counter has reached the *)
(* cap. Opening, reopening and writing can fail. One mutex makes a write   *)
(* one step (WeidDaemon models the mutex and who can die holding it).      *)
(***************************************************************************)
EXTENDS Integers

CONSTANTS LineSize,   \* sizeof(line)
          FileMax,    \* WEI_LOG_FILE_MAX_BYTES
          Prefixes,   \* what snprintf returns for the stamp and the tags
          Texts       \* what vsnprintf returns for the message, -1 on an error

ASSUME LogAssumption ==
    /\ LineSize \in Nat \ {0} /\ FileMax \in Nat \ {0}
    /\ Prefixes \subseteq Int /\ Texts \subseteq Int

VARIABLES fp,         \* wei_log_fp # NULL
          bytes,      \* wei_log_bytes
          pending,    \* what stdio holds back after a flush that failed
          size        \* the file's size

logVars == <<fp, bytes, pending, size>>

(* An earlier run of the daemon may have left its file. *)
LogInit ==
    /\ fp = FALSE /\ bytes = 0 /\ pending = 0
    /\ size \in 0 .. FileMax + LineSize - 1

Within(lo, v, hi) == IF v < lo THEN lo ELSE IF v > hi THEN hi ELSE v

(* The length of a line taken from vsnprintf, which reports what it would  *)
(* have written.                                                           *)
LineLenUnclamped(p, n) ==
    Within(0, p, LineSize - 1) + (IF n > 0 THEN n ELSE 0)

(* wei_util_print: the prefix and the message, each held to the buffer. *)
LineLen(p, n) ==
    LET off == Within(0, p, LineSize - 1)
        avail == LineSize - off
    IN  IF n > 0 THEN off + (IF n < avail THEN n ELSE avail - 1) ELSE off

(* fwrite and fflush, for a line that is not empty: stdio takes k of len   *)
(* bytes, and flushes all it holds or, out of space, nothing.              *)
Append(counted, held, onFile, len) ==
    \E k \in 0 .. len :
        /\ bytes' = counted + k
        /\ \/ len > 0 /\ size' = onFile + held + k /\ pending' = 0
           \/ size' = onFile /\ pending' = held + k

(* The file is opened by the first line, and by the first one after a      *)
(* restart failed. "w" empties it.                                         *)
OpenAndWrite(len) ==
    /\ ~fp
    /\ fp' = TRUE
    /\ Append(0, 0, 0, len)

OpenFails(len) ==
    /\ ~fp
    /\ bytes' = 0
    /\ UNCHANGED <<fp, pending, size>>

(* At the cap the file is restarted; a reopening that fails has closed the *)
(* old stream, which may flush what it held.                               *)
Full == bytes >= FileMax

Restart(len) ==
    /\ fp /\ Full
    /\ fp' = TRUE
    /\ Append(0, 0, 0, len)

RestartFails(len) ==
    /\ fp /\ Full
    /\ fp' = FALSE /\ bytes' = 0 /\ pending' = 0
    /\ size' \in {size, size + pending}

Write(len) ==
    /\ fp /\ ~Full
    /\ UNCHANGED fp
    /\ Append(bytes, pending, size, len)

WritesLine(len) ==
    OpenAndWrite(len) \/ OpenFails(len) \/ Restart(len) \/ RestartFails(len) \/ Write(len)

LogNext == \E p \in Prefixes, n \in Texts : WritesLine(LineLen(p, n))

LogSpec == LogInit /\ [][LogNext]_logVars

-----------------------------------------------------------------------------
(* "Extensive logging can never exhaust RAM": the file never outgrows the  *)
(* cap by a whole line, whatever fails. (A file found at start is emptied  *)
(* by the first line.)                                                     *)
LogBounded == size + pending < FileMax + LineSize
=============================================================================
