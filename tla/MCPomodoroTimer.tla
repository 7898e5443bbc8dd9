-------------------------- MODULE MCPomodoroTimer --------------------------
(***************************************************************************)
(* Small instances of PomodoroTimer.                                       *)
(***************************************************************************)
EXTENDS PomodoroTimer

FourChannels == 1 .. 4
=============================================================================
