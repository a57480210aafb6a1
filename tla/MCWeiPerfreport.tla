-------------------------- MODULE MCWeiPerfreport --------------------------
(***************************************************************************)
(* The report publisher driven by a scorer whose verdicts are arbitrary:   *)
(* verdict[m] is the class the sweep would hand over for client m now, and *)
(* it changes whenever the environment likes. More clients than slots, so  *)
(* that one of them finds the cadence table full.                          *)
(***************************************************************************)
EXTENDS WeiPerfreport

VARIABLE verdict

mcVars == <<cadence, enabled, reported, verdict>>

Init == PerfInit /\ verdict = [m \in Mac |-> "smooth"]

(* The scorer changes its mind about one client. *)
Rescore(m, c) ==
    /\ verdict' = [verdict EXCEPT ![m] = c]
    /\ UNCHANGED perfVars

(* The sweep hands the client's verdict to the publisher. *)
Interval(m) == PublishTick(m, verdict[m]) /\ UNCHANGED verdict

(* The interval on which the bus accepts the event. *)
Delivered(m) ==
    Publish(m, verdict[m]) /\ UNCHANGED <<enabled, verdict>>

Next ==
    \/ \E m \in Mac, c \in Class : Rescore(m, c)
    \/ \E m \in Mac : Interval(m)
    \/ \E b \in BOOLEAN : EnableSet(b) /\ UNCHANGED verdict

(* The poll loop keeps ticking, so every scored client is handed over again *)
(* and again; and a bus that is tried infinitely often accepts eventually.  *)
Fairness ==
    /\ \A m \in Mac : WF_mcVars(Interval(m))
    /\ \A m \in Mac : SF_mcVars(Delivered(m))

FairSpec == Init /\ [][Next]_mcVars /\ Fairness

(* A verdict that settles reaches the subscriber: once the pillar stays     *)
(* enabled and a client with a cadence slot keeps one verdict, the last     *)
(* class delivered about it is that verdict for ever after. This is what    *)
(* "leaves the per-client state intact for the next interval to retry"      *)
(* (wei_perfreport.c:262) has to achieve across warm-up, failed publishes   *)
(* and enable flips.                                                        *)
SettledVerdictIsHeard ==
    \A m \in Mac, c \in Class :
        <>[](enabled /\ verdict[m] = c /\ Tracked(cadence, m))
            => <>[](reported[m].class = c)
=============================================================================
