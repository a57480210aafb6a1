------------------------------ MODULE MCWeiLife ------------------------------
(* Records on both sides of the ceilings of a small policy (the zeroed      *)
(* record is below both floors), and a send-error counter that has passed   *)
(* the int32_t range.                                                       *)
EXTENDS WeiLife, TLC

MCRecord(snr, phy, loss, chanutil) ==
    [snr |-> snr, phy |-> phy, loss |-> loss, chanutil |-> chanutil]

Clean == MCRecord(30, 50, 0, 10)
Congested == MCRecord(30, 50, 20, 90)
WornCounter == MCRecord(30, 50, 200, 10)

MCSamples == {Clean, Congested, WornCounter}

MCBand == [snr |-> 15, phy |-> 6, loss |-> 10, chanutil |-> 70]

MCDwell == [m \in Metric |-> 2]

Symmetry == Permutations(Mac)
=============================================================================
