------------------------------ MODULE WeiOutput ------------------------------
(***************************************************************************)
(* The two places where the process writes text of any length within fixed *)
(* bounds: the report publisher's buffer (WeiReportBuf), on the receive    *)
(* thread, and the log file (WeiLog), which that thread writes whenever a  *)
(* report is built, sent or lost, and every other thread at any time.      *)
(***************************************************************************)
EXTENDS WeiReportBuf, WeiLog

outVars == <<bufVars, logVars>>

OutInit == BufInitState /\ LogInit

OutNext ==
    \/ BufNext /\ UNCHANGED logVars
    \/ LogNext /\ UNCHANGED bufVars

OutSpec == OutInit /\ [][OutNext]_outVars

-----------------------------------------------------------------------------
(* Prefixes that fail, fit and overflow the line, messages likewise.       *)
MCPrefixes == {-1, 2, 7}

MCTexts == {-1, 0, 2, 3, 9}
=============================================================================
