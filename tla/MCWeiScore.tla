----------------------------- MODULE MCWeiScore -----------------------------
(* Samples that move every metric both ways, among them a counter restart  *)
(* with and without errors; counters that start at zero or short of their  *)
(* width. The rates divide evenly into the means of a window of three.     *)
EXTENDS WeiScore

MCSample(snr, rate, df, de, util, restart) ==
    [snr |-> snr, phy |-> rate, df |-> df, de |-> de, util |-> util,
     restart |-> restart]

MCSamples ==
    {MCSample(30, 12, 3, 0, 20, FALSE), MCSample(30, 24, 2, 1, 20, FALSE),
     MCSample(10, 12, 0, 2, 80, FALSE), MCSample(30, 60, 0, 0, 0, FALSE),
     MCSample(20, 24, 1, 1, 20, TRUE), MCSample(30, 6, 2, 0, 20, TRUE)}

MCChanWeight == [u \in {0, 20, 80} |-> CASE u = 0 -> 500 [] u = 20 -> 600 [] u = 80 -> 950]

MCStartCounts == {NoCount, [frames |-> Wrap - 4, errs |-> 1]}
=============================================================================
