--------------------------- MODULE FocusTracking ---------------------------
(***************************************************************************)
(* How the daemon turns focus changes, screen locks and the dead-man       *)
(* switch into rows of focus_events.  main starts three goroutines that    *)
(* share nothing but the database: the focus recorder, the screen-lock     *)
(* listener and the dead-man listener.  Each one ends "the most recent     *)
(* open event" whenever its turn comes, so an order of arrival that nobody *)
(* chose decides which event is ended.                                     *)
(***************************************************************************)
EXTENDS Deadman, FiniteSets

CONSTANTS
    MaxEvents,    \* bound: focus changes
    QueueCap,     \* capacity of the tracker's and the lock listener's channels
    LockStates,   \* what the screen lock may report: a subset of AWAY, TRACKING
    MaxFailures,  \* bound: database operations that fail
    MaxRestarts   \* bound: ends of the process

ASSUME FocusAssumption ==
    /\ {MaxEvents, MaxFailures, MaxRestarts} \subseteq Nat
    /\ QueueCap \in Nat \ {0}
    /\ LockStates \subseteq {"AWAY", "TRACKING"}

VARIABLES
    row,          \* focus_events: "none" (no such row), "open" or "ended"
    running,      \* the process
    focusQ,       \* the tracker's channel: focus changes not recorded yet
    polled,       \* focus changes the tracker has sent
    recorder,     \* where the recorder is: waiting, before its UPDATE, its INSERT
    event,        \* the focus change it is recording
    lockQ,        \* the screen-lock listener's channel
    lockPc,       \* the lock goroutine: waiting, or before its UPDATE
    screenLock,   \* the status snapshot's lock state
    pausePc,      \* the dead-man listener: waiting, or before its UPDATE
    failed,       \* history: database operations that failed
    restarts      \* history: ends of the process

taskVars  == <<focusQ, polled, recorder, event, lockQ, lockPc, screenLock, pausePc>>
ghostVars == <<failed, restarts>>
vars      == <<dmVars, row, running, taskVars, ghostVars>>

Events == 1 .. MaxEvents
Open   == {e \in Events : row[e] = "open"}
Newest(e) == row[e] # "none" /\ \A f \in Events : row[f] # "none" => f <= e

Init ==
    /\ dmInit
    /\ row = [e \in Events |-> "none"] /\ running = TRUE
    /\ focusQ = <<>> /\ polled = 0 /\ recorder = "wait" /\ event = 0
    /\ lockQ = <<>> /\ lockPc = "wait" /\ screenLock = "UNLOCKED" /\ pausePc = "wait"
    /\ failed = 0 /\ restarts = 0

\* CloseLatestOpenFocusEvent as it is called from main: the open event with the
\* greatest id, if there is one, ends; or the UPDATE fails and is only logged.
closeCurrentFocusEvent ==
    \/ /\ row' = [e \in Events |->
                     IF e \in Open /\ \A f \in Open : f <= e THEN "ended" ELSE row[e]]
       /\ UNCHANGED failed
    \/ /\ failed < MaxFailures
       /\ failed' = failed + 1 /\ UNCHANGED row

(***************************************************************************)
(* The focus tracker and the recorder.                                     *)
(***************************************************************************)

\* poll: another window has the focus.  The send blocks while the channel is full.
poll ==
    /\ running /\ polled < MaxEvents /\ Len(focusQ) < QueueCap
    /\ polled' = polled + 1 /\ focusQ' = Append(focusQ, polled + 1)
    /\ UNCHANGED <<dmVars, row, running, recorder, event, lockQ, lockPc, screenLock,
                   pausePc, ghostVars>>

\* Mutant of ReceiveFocus: while paused, the dead-man listener is trusted to have
\* ended the last event.
ReceiveFocusTrusting ==
    /\ running /\ recorder = "wait" /\ focusQ # <<>>
    /\ Reset
    /\ event' = Head(focusQ) /\ focusQ' = Tail(focusQ)
    /\ recorder' = IF shown = "PAUSED" THEN "insert" ELSE "close"
    /\ UNCHANGED <<row, running, polled, lockQ, lockPc, screenLock, pausePc, ghostVars>>

\* The recorder receives a focus change and resets the dead-man switch.
ReceiveFocus ==
    /\ running /\ recorder = "wait" /\ focusQ # <<>>
    /\ Reset
    /\ event' = Head(focusQ) /\ focusQ' = Tail(focusQ) /\ recorder' = "close"
    /\ UNCHANGED <<row, running, polled, lockQ, lockPc, screenLock, pausePc, ghostVars>>

\* Mutant of CloseBeforeInsert: the recorder relies on the other goroutines.
InsertWithoutClose ==
    /\ running /\ recorder = "close" /\ recorder' = "insert"
    /\ UNCHANGED <<dmVars, row, running, focusQ, polled, event, lockQ, lockPc, screenLock,
                   pausePc, ghostVars>>

CloseBeforeInsert ==
    /\ running /\ recorder = "close"
    /\ closeCurrentFocusEvent /\ recorder' = "insert"
    /\ UNCHANGED <<dmVars, running, focusQ, polled, event, lockQ, lockPc, screenLock,
                   pausePc, restarts>>

\* The INSERT, or its failure: then the focus change is not recorded.
InsertFocusEvent ==
    /\ running /\ recorder = "insert"
    /\ \/ row' = [row EXCEPT ![event] = "open"] /\ UNCHANGED failed
       \/ /\ failed < MaxFailures
          /\ failed' = failed + 1 /\ UNCHANGED row
    /\ recorder' = "wait" /\ event' = 0
    /\ UNCHANGED <<dmVars, running, focusQ, polled, lockQ, lockPc, screenLock,
                   pausePc, restarts>>

(***************************************************************************)
(* The screen-lock goroutine.                                              *)
(***************************************************************************)

\* A signal of the desktop's screen saver, locked or unlocked.
listenDBus(s) ==
    /\ running /\ Len(lockQ) < QueueCap
    /\ lockQ' = Append(lockQ, s)
    /\ UNCHANGED <<dmVars, row, running, focusQ, polled, recorder, event, lockPc, screenLock,
                   pausePc, ghostVars>>

\* The goroutine mirrors the state; what it forwards to the layout capturer is
\* left to that component.
ReceiveLock ==
    /\ running /\ lockPc = "wait" /\ lockQ # <<>>
    /\ lockQ' = Tail(lockQ)
    /\ screenLock' = IF Head(lockQ) = "AWAY" THEN "LOCKED" ELSE "UNLOCKED"
    /\ lockPc' = IF Head(lockQ) = "AWAY" THEN "close" ELSE "wait"
    /\ UNCHANGED <<dmVars, row, running, focusQ, polled, recorder, event, pausePc, ghostVars>>

CloseOnLock ==
    /\ running /\ lockPc = "close" /\ lockPc' = "wait"
    /\ closeCurrentFocusEvent
    /\ UNCHANGED <<dmVars, running, focusQ, polled, recorder, event, lockQ, screenLock,
                   pausePc, restarts>>

(***************************************************************************)
(* The dead-man switch and its listener.  No goroutine of the daemon calls *)
(* Acknowledge.  An interval is half an hour or more, so it does not pass  *)
(* between the two statements that record a focus change.                  *)
(***************************************************************************)

Deadman ==
    /\ running /\ (emit \/ (TimerFires /\ recorder = "wait") \/ HandleReset \/ CountdownExpires \/ Done)
    /\ UNCHANGED <<row, running, taskVars, ghostVars>>

ReceivePresence ==
    /\ running /\ pausePc = "wait"
    /\ Receive
    /\ pausePc' = IF Head(states) = "PAUSED" THEN "close" ELSE "wait"
    /\ UNCHANGED <<row, running, focusQ, polled, recorder, event, lockQ, lockPc, screenLock,
                   ghostVars>>

CloseOnPause ==
    /\ running /\ pausePc = "close" /\ pausePc' = "wait"
    /\ closeCurrentFocusEvent
    /\ UNCHANGED <<dmVars, running, focusQ, polled, recorder, event, lockQ, lockPc, screenLock,
                   restarts>>

(***************************************************************************)
(* The process.                                                            *)
(***************************************************************************)

\* Shutdown begins: main cancels the context and waits for nobody.
Shutdown ==
    /\ running /\ ~cancelled /\ restarts < MaxRestarts
    /\ Stop
    /\ UNCHANGED <<row, running, taskVars, ghostVars>>

\* The process ends, after a shutdown or by a crash: only the rows survive.
Exit ==
    /\ running /\ restarts < MaxRestarts
    /\ running' = FALSE /\ restarts' = restarts + 1
    /\ UNCHANGED <<dmVars, row, taskVars, failed>>

Start ==
    /\ ~running /\ running' = TRUE
    /\ at' = "interval" /\ out' = "none" /\ tier' = 0
    /\ ackCh' = FALSE /\ resetCh' = FALSE /\ states' = <<>> /\ shown' = "TRACKING"
    /\ cancelled' = FALSE
    /\ focusQ' = <<>> /\ recorder' = "wait" /\ event' = 0
    /\ lockQ' = <<>> /\ lockPc' = "wait" /\ screenLock' = "UNLOCKED" /\ pausePc' = "wait"
    /\ UNCHANGED <<row, polled, ghostVars>>

-----------------------------------------------------------------------------

Recorder == ReceiveFocus \/ CloseBeforeInsert \/ InsertFocusEvent
LockTask == ReceiveLock \/ CloseOnLock
PauseTask == ReceivePresence \/ CloseOnPause

Next ==
    \/ poll \/ Recorder
    \/ \E s \in LockStates : listenDBus(s)
    \/ LockTask
    \/ Deadman \/ PauseTask
    \/ Shutdown \/ Exit \/ Start

\* Every goroutine of a running daemon is scheduled and its timers fire.  Users
\* need not change focus, lock, or unlock.
Fairness ==
    /\ WF_vars(Recorder) /\ WF_vars(LockTask) /\ WF_vars(Deadman) /\ WF_vars(PauseTask)

Spec == Init /\ [][Next]_vars
FairSpec == Spec /\ Fairness

-----------------------------------------------------------------------------

TypeOK ==
    /\ dmTypeOK
    /\ row \in [Events -> {"none", "open", "ended"}] /\ running \in BOOLEAN
    /\ focusQ \in Seq(Events) /\ Len(focusQ) <= QueueCap /\ polled \in 0 .. MaxEvents
    /\ recorder \in {"wait", "close", "insert"} /\ event \in 0 .. MaxEvents
    /\ lockQ \in Seq(LockStates) /\ Len(lockQ) <= QueueCap
    /\ lockPc \in {"wait", "close"} /\ pausePc \in {"wait", "close"}
    /\ screenLock \in {"LOCKED", "UNLOCKED"}
    /\ failed \in 0 .. MaxFailures /\ restarts \in 0 .. MaxRestarts

\* No time is counted twice: two events are open at the same time only if an
\* UPDATE failed.  In particular neither the other two goroutines nor a restart
\* that finds an open event of the last process can add one.
OpenPaidByFailures == Cardinality(Open) <= 1 + failed

\* As long as no UPDATE failed, the event that is ended is the newest one
\* recorded: none is left open behind it, to be ended hours later with all that
\* time as its duration.
EndsNewest ==
    [][\A e \in Events : row[e] = "open" /\ row'[e] = "ended" /\ failed = 0 => Newest(e)]_vars

\* A focus change ends a dead-man pause, even one announced after it was
\* received: the token that Reset left is there when waitForResume looks.
FocusChangeResumes ==
    (recorder = "close" /\ shown = "PAUSED") ~> (shown = "TRACKING" \/ cancelled \/ ~running)

(***************************************************************************)
(* What a comment says, and the code does not do.                          *)
(***************************************************************************)

Drained ==
    /\ running /\ out = "none" /\ states = <<>> /\ ~resetCh /\ at = "interval"
    /\ focusQ = <<>> /\ recorder = "wait" /\ lockQ = <<>> /\ lockPc = "wait" /\ pausePc = "wait"

\* presence.go: "Tracking means the user is actively present and focus events
\* are being recorded": when all goroutines have caught up and the state shown
\* is TRACKING, the window that has the focus has an open event.
TrackingRecords ==
    Drained /\ shown = "TRACKING" /\ polled > 0 => row[polled] = "open"
=============================================================================
