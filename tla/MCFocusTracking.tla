-------------------------- MODULE MCFocusTracking --------------------------
(***************************************************************************)
(* Small instances of FocusTracking.                                       *)
(***************************************************************************)
EXTENDS FocusTracking

LockAndUnlock == {"AWAY", "TRACKING"}
NoLock        == {}
=============================================================================
