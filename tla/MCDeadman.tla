----------------------------- MODULE MCDeadman -----------------------------
(***************************************************************************)
(* The dead-man switch on its own, called and read by anyone.              *)
(***************************************************************************)
EXTENDS Deadman
=============================================================================
