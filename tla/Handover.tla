------------------------------ MODULE Handover ------------------------------
(***************************************************************************)
(* What a graceful switch promises its users, whatever drains meanwhile:   *)
(* the picker in use only ever changes to the newest one offered, and the  *)
(* newest one is taken into use in the end.                                *)
(***************************************************************************)
CONSTANTS Picker, None

VARIABLES
    offered,   \* the newest picker handed over by the balancer
    active     \* the picker requests use

hvars == <<offered, active>>

HInit == offered = None /\ active = None

\* A new picker, put to use at once or later; the first one is used at once.
Offer(p) ==
    /\ offered' = p
    /\ active' \in {active, p}
    /\ active = None => active' = p

Adopt ==
    /\ active # offered
    /\ active' = offered
    /\ UNCHANGED offered

HNext == Adopt \/ \E p \in Picker : Offer(p)

HSafe == HInit /\ [][HNext]_hvars

HSpec == HSafe /\ WF_hvars(Adopt)
=============================================================================
