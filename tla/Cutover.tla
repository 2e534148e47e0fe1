------------------------------- MODULE Cutover -------------------------------
(***************************************************************************)
(* What DevicePlan.apply promises to someone who moves a device from old   *)
(* log writers to new ones, with no word of plans, phases or commands: an  *)
(* old writer is retired only while everything that is to stay or replace  *)
(* it is in place.  Until then, and whatever fails, the old ones stay.     *)
(***************************************************************************)
CONSTANT Writers

VARIABLES
    ready,          \* every writer and setting the task wants is in place
    standing        \* writers the task wants gone that the device still holds

Init ==
    /\ ready \in BOOLEAN
    /\ standing \subseteq Writers

\* Configuring the device makes it ready, or disturbs it.
Configure ==
    /\ ready' \in BOOLEAN
    /\ UNCHANGED standing

Retire(w) ==
    /\ ready
    /\ w \in standing
    /\ standing' = standing \ {w}
    /\ UNCHANGED ready

Next == Configure \/ \E w \in Writers : Retire(w)

Spec == Init /\ [][Next]_<<ready, standing>>

===============================================================================
