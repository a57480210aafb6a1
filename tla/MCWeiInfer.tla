----------------------------- MODULE MCWeiInfer -----------------------------
(* Constants of the engine's model-checking runs. One clock unit is one    *)
(* tick period (5 s in the code), so TickMs = 1 and the durations below    *)
(* keep the order the code's have: floor > tick, window > absence.         *)
EXTENDS WeiInfer, TLC

MCEase == <<881, 1000>>     \* RampTicks = 2: p = 1/2 and 1

Symmetry == Permutations(Mac)
=============================================================================
