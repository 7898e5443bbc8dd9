------------------------------ MODULE Deadman ------------------------------
(***************************************************************************)
(* presence.Deadman: one goroutine, loop, that waits for an interval       *)
(* without focus change, announces CHECKING, waits for the countdown and   *)
(* announces PAUSED.  Reset and Acknowledge signal it through channels of  *)
(* one token, from any goroutine, whatever the loop is doing; it announces *)
(* through the channel `states`, and blocks while that is full.            *)
(*                                                                         *)
(* Time is left out: a timer may fire whenever it is armed and no signal   *)
(* waits in its select.  (A signal that was there when the timer was armed *)
(* wins; for one that becomes ready together with the timer the order in   *)
(* which the two steps are taken is the choice that select makes.)         *)
(***************************************************************************)
EXTENDS Naturals, Sequences

CONSTANTS
    MaxTier,    \* len(intervals) - 1
    StatesCap   \* capacity of the states channel

ASSUME DeadmanAssumption == MaxTier \in Nat /\ StatesCap \in Nat \ {0}

VARIABLES
    at,         \* the select in which loop waits, after sending what is in out
    out,        \* the announcement that emit is sending, or "none"
    tier,       \* index of the current interval
    ackCh, resetCh,  \* is there a token in the channel?
    states,     \* the channel of announcements
    shown,      \* the announcement its reader received last
    cancelled   \* the context

dmVars == <<at, out, tier, ackCh, resetCh, states, shown, cancelled>>

dmInit ==
    /\ at = "interval" /\ out = "none" /\ tier = 0
    /\ ackCh = FALSE /\ resetCh = FALSE
    /\ states = <<>> /\ shown = "TRACKING"
    /\ cancelled = FALSE

(***************************************************************************)
(* Called by others.                                                       *)
(***************************************************************************)

Stop == cancelled' = TRUE /\ UNCHANGED <<at, out, tier, ackCh, resetCh, states, shown>>

Acknowledge ==
    /\ ackCh' = TRUE
    /\ UNCHANGED <<at, out, tier, resetCh, states, shown, cancelled>>

\* Mutant of Reset: an unbuffered channel, so that the token is dropped unless
\* loop is waiting.
ResetUnbuffered ==
    /\ resetCh' = (out = "none" /\ at # "stopped")
    /\ UNCHANGED <<at, out, tier, ackCh, states, shown, cancelled>>

Reset ==
    /\ resetCh' = TRUE
    /\ UNCHANGED <<at, out, tier, ackCh, states, shown, cancelled>>

\* The reader of States() takes the next announcement.
Receive ==
    /\ states # <<>>
    /\ shown' = Head(states) /\ states' = Tail(states)
    /\ UNCHANGED <<at, out, tier, ackCh, resetCh, cancelled>>

(***************************************************************************)
(* The loop.                                                               *)
(***************************************************************************)

Waiting == out = "none" /\ at # "stopped"
Signalled == resetCh \/ cancelled

\* emit: a send that may block, and that the context does not interrupt.
emit ==
    /\ out # "none" /\ Len(states) < StatesCap
    /\ states' = Append(states, out) /\ out' = "none"
    /\ UNCHANGED <<at, tier, ackCh, resetCh, shown, cancelled>>

\* The interval has passed: announce the check, then count down.
TimerFires ==
    /\ Waiting /\ at = "interval" /\ ~Signalled
    /\ out' = "CHECKING" /\ at' = "countdown"
    /\ UNCHANGED <<tier, ackCh, resetCh, states, shown, cancelled>>

\* A focus change is received in any of the three selects.
HandleReset ==
    /\ Waiting /\ resetCh
    /\ resetCh' = FALSE /\ tier' = 0 /\ out' = "TRACKING" /\ at' = "interval"
    /\ UNCHANGED <<ackCh, states, shown, cancelled>>

\* Mutant of HandleAck: a pause is not ended.
HandleAckInCountdown ==
    /\ Waiting /\ ackCh /\ at = "countdown"
    /\ ackCh' = FALSE /\ out' = "TRACKING" /\ at' = "interval"
    /\ tier' = IF tier < MaxTier THEN tier + 1 ELSE tier
    /\ UNCHANGED <<resetCh, states, shown, cancelled>>

\* An acknowledgement escalates a check, and resumes from a pause.
HandleAck ==
    /\ Waiting /\ ackCh /\ at \in {"countdown", "resume"}
    /\ ackCh' = FALSE
    /\ tier' = IF at = "resume" THEN 0 ELSE IF tier < MaxTier THEN tier + 1 ELSE tier
    /\ out' = "TRACKING" /\ at' = "interval"
    /\ UNCHANGED <<resetCh, states, shown, cancelled>>

\* Mutant of CountdownExpires: the loop goes on without waiting to be resumed.
PausesAndGoesOn ==
    /\ Waiting /\ at = "countdown" /\ ~Signalled /\ ~ackCh
    /\ out' = "PAUSED" /\ at' = "interval"
    /\ UNCHANGED <<tier, ackCh, resetCh, states, shown, cancelled>>

\* Nobody answered: announce the pause, then waitForResume.
CountdownExpires ==
    /\ Waiting /\ at = "countdown" /\ ~Signalled /\ ~ackCh
    /\ out' = "PAUSED" /\ at' = "resume"
    /\ UNCHANGED <<tier, ackCh, resetCh, states, shown, cancelled>>

\* The cancelled context is seen: waitForResume returns into the loop, the
\* other two selects end it.
Done ==
    /\ Waiting /\ cancelled
    /\ at' = IF at = "resume" THEN "interval" ELSE "stopped"
    /\ UNCHANGED <<out, tier, ackCh, resetCh, states, shown, cancelled>>

loop == emit \/ TimerFires \/ HandleReset \/ HandleAck \/ CountdownExpires \/ Done

dmNext == Stop \/ Acknowledge \/ Reset \/ Receive \/ loop

\* The goroutine is scheduled, its timers fire, and the reader keeps reading.
dmFairness == WF_dmVars(loop) /\ WF_dmVars(Receive)

dmSpec == dmInit /\ [][dmNext]_dmVars /\ dmFairness

-----------------------------------------------------------------------------

dmTypeOK ==
    /\ at \in {"interval", "countdown", "resume", "stopped"}
    /\ out \in {"none", "TRACKING", "CHECKING", "PAUSED"}
    /\ tier \in 0 .. MaxTier
    /\ {ackCh, resetCh, cancelled} \subseteq BOOLEAN
    /\ states \in Seq({"TRACKING", "CHECKING", "PAUSED"}) /\ Len(states) <= StatesCap
    /\ shown \in {"TRACKING", "CHECKING", "PAUSED"}

\* What the reader is told follows the documented state machine, although it
\* reads behind a queue and signals arrive at any moment: CHECKING only after
\* TRACKING, PAUSED only after CHECKING, and no check while paused.
Presence == INSTANCE PresenceMachine WITH state <- shown
PresenceSpec == Presence!Spec

\* A focus change or an acknowledgement that finds tracking paused ends the
\* pause, even one that comes before the reader has been told of it.
SignalEndsPause ==
    (shown = "PAUSED" /\ (resetCh \/ ackCh) /\ ~cancelled) ~> (shown = "TRACKING" \/ cancelled)
=============================================================================
