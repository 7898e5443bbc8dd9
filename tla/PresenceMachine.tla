-------------------------- MODULE PresenceMachine --------------------------
(***************************************************************************)
(* What package presence promises: the state machine that the comment of   *)
(* PresenceDetector draws for the dead-man switch.  Away belongs to the    *)
(* screen lock, which the daemon reports separately.                       *)
(***************************************************************************)

VARIABLE state

States == {"TRACKING", "CHECKING", "PAUSED"}

Init == state = "TRACKING"

DeadmanFires == state = "TRACKING" /\ state' = "CHECKING"
Acknowledged == state = "CHECKING" /\ state' = "TRACKING"
TimesOut     == state = "CHECKING" /\ state' = "PAUSED"
FocusChanges == state = "PAUSED"   /\ state' = "TRACKING"

Next == DeadmanFires \/ Acknowledged \/ TimesOut \/ FocusChanges

Spec == Init /\ [][Next]_state
=============================================================================
