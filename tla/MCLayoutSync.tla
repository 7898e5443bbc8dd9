---------------------------- MODULE MCLayoutSync ----------------------------
(***************************************************************************)
(* A small instance of LayoutSync: two snapshots of one hour, in different *)
(* ten minutes, so that the first can be pruned before the second is       *)
(* captured.                                                               *)
(***************************************************************************)
EXTENDS LayoutSync

TwoBuckets == <<1, 2>>
OneHour    == <<1, 1>>
=============================================================================
