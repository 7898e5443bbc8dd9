---------------------------- MODULE MCAutoSubmit ----------------------------
(***************************************************************************)
(* Small instances of AutoSubmit.                                          *)
(***************************************************************************)
EXTENDS AutoSubmit

TwoEvents == {1, 2}
Cadences  == {0, 1, 2}
=============================================================================
