----------------------------- MODULE MCWeidWire -----------------------------
(* Two readings of one station and one each of two others, with            *)
(* utilisations on both sides of the percent range, two of which fit a     *)
(* full frame; senders of this build, of one with a smaller stats_arg_t    *)
(* and of one with another wire version.                                   *)
EXTENDS WeidWire

CONSTANTS m1, m2, m3

MCReading ==
    {[mac |-> m1, cli_Active |-> TRUE, channel_utilization |-> 40],
     [mac |-> m1, cli_Active |-> FALSE, channel_utilization |-> 200],
     [mac |-> m2, cli_Active |-> TRUE, channel_utilization |-> -1],
     [mac |-> m3, cli_Active |-> TRUE, channel_utilization |-> 40]}

MCJunk == [mac |-> m1, cli_Active |-> FALSE, channel_utilization |-> 77]

MCTypes == {"DISCONNECT", "REGISTER_STA"}

MCBuilds ==
    {Ours, [version |-> Version, size |-> 1], [version |-> Version + 1, size |-> ElemSize]}
=============================================================================
