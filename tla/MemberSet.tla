----------------------------- MODULE MemberSet -----------------------------
(***************************************************************************)
(* What the engine's bounded membership map promises, without slots: a set *)
(* of at most Capacity stations, each with the time it was last heard. A   *)
(* station joins or is refreshed when one of its records arrives, joins    *)
(* only while there is room, and leaves only by expiry, which takes        *)
(* exactly the stations unheard for more than AbsenceMs at the instant of  *)
(* the expiry. Expiry may run late, with an instant t already past.        *)
(***************************************************************************)
EXTENDS Integers, FiniteSets

CONSTANTS Mac, Capacity, AbsenceMs

VARIABLES seen,    \* when each station was last heard; 0 = not a member
          clock

Member == {m \in Mac : seen[m] # 0}

MemberInit == seen = [m \in Mac |-> 0] /\ clock = 1

Advance == clock' = clock + 1 /\ UNCHANGED seen

Touch(m) ==
    /\ m \in Member \/ Cardinality(Member) < Capacity
    /\ seen' = [seen EXCEPT ![m] = clock]
    /\ UNCHANGED clock

Expire(t) ==
    /\ seen' = [m \in Mac |-> IF t - seen[m] > AbsenceMs THEN 0 ELSE seen[m]]
    /\ UNCHANGED clock

MemberNext ==
    \/ Advance
    \/ \E m \in Mac : Touch(m)
    \/ \E t \in 1 .. clock : Expire(t)

MemberSpec == MemberInit /\ [][MemberNext]_<<seen, clock>>
=============================================================================
