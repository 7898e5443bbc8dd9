------------------------- MODULE MCDaemonLifecycle -------------------------
(***************************************************************************)
(* A small instance of DaemonLifecycle.                                    *)
(***************************************************************************)
EXTENDS DaemonLifecycle, TLC

CONSTANTS p1, p2

TwoProcesses == {p1, p2}
=============================================================================
