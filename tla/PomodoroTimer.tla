--------------------------- MODULE PomodoroTimer ---------------------------
(***************************************************************************)
(* pomodoro.Timer: Start and Cancel are called by the tray; every work or  *)
(* break phase has a goroutine of its own, runPhase, with a stop channel   *)
(* of its own.  A goroutine whose timer has fired still has to take the    *)
(* mutex, and Cancel and Start can come first.                             *)
(*                                                                         *)
(* A goroutine is named by its stop channel.  A name is used again once    *)
(* its goroutine has returned and the timer has let go of the channel.     *)
(* emitChange never blocks and its channel is only logged: left out.       *)
(***************************************************************************)
EXTENDS Naturals, FiniteSets

CONSTANTS
    Channels,    \* names of stop channels; bound: live goroutines
    WorkTicks,   \* config.WorkMins
    BreakTicks   \* config.BreakMins

ASSUME TimerAssumption ==
    /\ Channels \subseteq Nat \ {0}
    /\ WorkTicks \in Nat \ {0} /\ BreakTicks \in Nat

VARIABLES
    state,    \* Timer.state
    endAt,    \* ticks until Timer.endAt, 0 when it has passed
    stopCh,   \* Timer.stopCh, Nil or a channel
    closed,   \* the channels that have been closed
    phase,    \* runPhase's parameter
    at,       \* where runPhase is
    wake      \* ticks until its timer fires

vars == <<state, endAt, stopCh, closed, phase, at, wake>>

Nil == 0
Live(c) == at[c] \in {"started", "select", "fired"}
Free == {c \in Channels : ~Live(c) /\ c # stopCh}

Init ==
    /\ state = "idle" /\ endAt = 0 /\ stopCh = Nil /\ closed = {}
    /\ phase = [c \in Channels |-> "none"]
    /\ at    = [c \in Channels |-> "returned"]
    /\ wake  = [c \in Channels |-> 0]

(***************************************************************************)
(* Under the mutex.                                                        *)
(***************************************************************************)

Duration(p) == IF p = "work" THEN WorkTicks ELSE BreakTicks

\* close(t.stopCh), if there is one.
CloseStopCh == closed \cup ({stopCh} \ {Nil})

\* Mutant of transitionTo: the old channel is left open.
transitionToOpen(p, ended) ==
    \E c \in Free :
        /\ state' = p /\ endAt' = Duration(p)
        /\ stopCh' = c /\ closed' = closed \ {c}
        /\ phase' = [phase EXCEPT ![c] = p]
        /\ at' = [d \in Channels |-> IF d = c THEN "started"
                                     ELSE IF d \in ended THEN "returned" ELSE at[d]]
        /\ UNCHANGED wake

\* transitionTo a work or a break phase; the goroutines in `ended` return.
transitionTo(p, ended) ==
    \E c \in Free :
        /\ state' = p /\ endAt' = Duration(p)
        /\ stopCh' = c /\ closed' = CloseStopCh \ {c}
        /\ phase' = [phase EXCEPT ![c] = p]
        /\ at' = [d \in Channels |-> IF d = c THEN "started"
                                     ELSE IF d \in ended THEN "returned" ELSE at[d]]
        /\ UNCHANGED wake

\* Two names are needed for a whole session, the work phase and the break.
Start ==
    /\ state \in {"idle", "done"} /\ Cardinality(Free) >= 2
    /\ transitionTo("work", {})

\* Mutant of Cancel: stopCh is closed and kept.
CancelKeepsChannel ==
    /\ state' = "idle" /\ closed' = CloseStopCh
    /\ UNCHANGED <<endAt, stopCh, phase, at, wake>>

\* Mutant of Cancel: the phase is stopped and stays on display.
CancelKeepsPhase ==
    /\ closed' = CloseStopCh /\ stopCh' = Nil
    /\ UNCHANGED <<state, endAt, phase, at, wake>>

Cancel ==
    /\ state' = "idle" /\ closed' = CloseStopCh /\ stopCh' = Nil
    /\ UNCHANGED <<endAt, phase, at, wake>>

(***************************************************************************)
(* runPhase.                                                               *)
(***************************************************************************)

\* The goroutine reads endAt, without the mutex, and enters its select.
Arm(c) ==
    /\ at[c] = "started"
    /\ at' = [at EXCEPT ![c] = "select"] /\ wake' = [wake EXCEPT ![c] = endAt]
    /\ UNCHANGED <<state, endAt, stopCh, closed, phase>>

Stopped(c) ==
    /\ at[c] = "select" /\ c \in closed
    /\ at' = [at EXCEPT ![c] = "returned"]
    /\ UNCHANGED <<state, endAt, stopCh, closed, phase, wake>>

\* The timer's case is chosen, also when the channel is closed at the same time.
Fire(c) ==
    /\ at[c] = "select" /\ wake[c] = 0
    /\ at' = [at EXCEPT ![c] = "fired"]
    /\ UNCHANGED <<state, endAt, stopCh, closed, phase, wake>>

\* Mutant of EndPhase: the end of the break is not handled.
EndPhaseKeepsBreak(c) ==
    /\ at[c] = "fired"
    /\ \/ state = "work" /\ phase[c] = "work" /\ transitionTo("break", {c})
       \/ /\ state # "work" \/ phase[c] # "work"
          /\ at' = [at EXCEPT ![c] = "returned"]
          /\ UNCHANGED <<state, endAt, stopCh, closed, phase, wake>>

\* The mutex is taken; the goroutine acts if the timer is in its phase.
EndPhase(c) ==
    /\ at[c] = "fired"
    /\ \/ state = phase[c] /\ phase[c] = "work" /\ transitionTo("break", {c})
       \/ /\ state = phase[c] /\ phase[c] = "break"
          /\ state' = "done" /\ at' = [at EXCEPT ![c] = "returned"]
          /\ UNCHANGED <<endAt, stopCh, closed, phase, wake>>
       \/ /\ state # phase[c]
          /\ at' = [at EXCEPT ![c] = "returned"]
          /\ UNCHANGED <<state, endAt, stopCh, closed, phase, wake>>

Less(n) == IF n > 0 THEN n - 1 ELSE 0

\* A minute passes; a goroutine that can run does not wait that long.
Tick ==
    /\ \A c \in Channels : Live(c) => at[c] = "select" /\ c \notin closed /\ wake[c] > 0
    /\ endAt' = Less(endAt)
    /\ wake' = [c \in Channels |-> IF at[c] = "select" THEN Less(wake[c]) ELSE wake[c]]
    /\ UNCHANGED <<state, stopCh, closed, phase, at>>

-----------------------------------------------------------------------------

runPhase(c) == Arm(c) \/ Stopped(c) \/ Fire(c) \/ EndPhase(c)

Next == Start \/ Cancel \/ Tick \/ \E c \in Channels : runPhase(c)

\* Time passes and goroutines are scheduled; nobody has to press a button.
Fairness == WF_vars(Tick) /\ \A c \in Channels : WF_vars(runPhase(c))

Spec == Init /\ [][Next]_vars
FairSpec == Spec /\ Fairness

-----------------------------------------------------------------------------

TypeOK ==
    /\ state \in {"idle", "work", "break", "done"}
    /\ endAt \in Nat /\ stopCh \in Channels \cup {Nil} /\ closed \subseteq Channels
    /\ phase \in [Channels -> {"none", "work", "break"}]
    /\ at \in [Channels -> {"started", "select", "fired", "returned"}]
    /\ wake \in [Channels -> Nat]

\* No channel is closed twice, which would end the daemon: the channel that the
\* next Cancel or transition will close is always an open one.
StopChOpen == stopCh \notin closed

\* A phase that is shown has a goroutine that will end it, whatever goroutines
\* of earlier sessions are still about to take the mutex.
PhaseHasGoroutine ==
    state \in {"work", "break"} => stopCh # Nil /\ Live(stopCh) /\ phase[stopCh] = state

\* Goroutines of phases that are over return: at most the current channel's and
\* those told to stop, or already past their select, are left.
NoOrphan == \A c \in Channels : Live(c) => c = stopCh \/ c \in closed \/ at[c] = "fired"

\* Every session ends, by itself or by Cancel.
SessionEnds == (state \in {"work", "break"}) ~> (state \in {"idle", "done"})
=============================================================================
