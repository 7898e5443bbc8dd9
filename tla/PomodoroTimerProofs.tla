------------------------ MODULE PomodoroTimerProofs ------------------------
(***************************************************************************)
(* Proofs about PomodoroTimer, for any number of goroutines alive at once  *)
(* and any length of the phases.                                           *)
(***************************************************************************)
EXTENDS TLAPS, PomodoroTimer

\* The three promises need each other: a goroutine told to stop is not the one
\* of the phase shown because the current channel is open.
IInv == TypeOK /\ StopChOpen /\ PhaseHasGoroutine /\ NoOrphan

LEMMA InitIInv == Init => IInv
    BY TimerAssumption DEF Init, IInv, TypeOK, StopChOpen, PhaseHasGoroutine, NoOrphan, Live, Nil

\* What transitionTo leaves behind, whoever calls it and whichever goroutines
\* return: the new phase's channel is open, all others have been closed.
LEMMA TransitionIInv ==
    ASSUME IInv, NEW p \in {"work", "break"}, NEW ended \in SUBSET Channels,
           transitionTo(p, ended)
    PROVE  IInv'
  <1> USE TimerAssumption DEF IInv, TypeOK, Nil
  <1>1. PICK c \in Free :
            /\ state' = p /\ endAt' = Duration(p)
            /\ stopCh' = c /\ closed' = CloseStopCh \ {c}
            /\ phase' = [phase EXCEPT ![c] = p]
            /\ at' = [d \in Channels |-> IF d = c THEN "started"
                                         ELSE IF d \in ended THEN "returned" ELSE at[d]]
            /\ UNCHANGED wake
    BY DEF transitionTo
  <1>2. c \in Channels /\ c # stopCh
    BY <1>1 DEF Free
  <1>3. TypeOK'
    BY <1>1, <1>2 DEF Duration, CloseStopCh
  <1>4. StopChOpen'
    BY <1>1 DEF StopChOpen
  <1>5. PhaseHasGoroutine'
    BY <1>1, <1>2 DEF PhaseHasGoroutine, Live
  <1>6. NoOrphan'
    <2> SUFFICES ASSUME NEW d \in Channels, Live(d)', d # c
                 PROVE  d \in closed' \/ at'[d] = "fired"
      BY <1>1 DEF NoOrphan
    <2>1. at'[d] = at[d] /\ Live(d)
      BY <1>1 DEF Live
    <2>2. d = stopCh \/ d \in closed \/ at[d] = "fired"
      BY <2>1 DEF NoOrphan
    <2> QED
      BY <1>1, <2>1, <2>2 DEF CloseStopCh
  <1> QED
    BY <1>3, <1>4, <1>5, <1>6

\* Every step keeps the invariant.
LEMMA NextIInv == ASSUME IInv, [Next]_vars PROVE IInv'
  <1> USE TimerAssumption DEF IInv, TypeOK, StopChOpen, PhaseHasGoroutine, NoOrphan, Live, Nil
  <1>1. CASE Start
    BY <1>1, TransitionIInv DEF Start
  <1>2. CASE Cancel
    BY <1>2 DEF Cancel, CloseStopCh
  <1>3. CASE Tick
    <2>1. \A n \in Nat : Less(n) \in Nat
      BY DEF Less
    <2> QED
      BY <1>3, <2>1 DEF Tick
  <1>4. ASSUME NEW c \in Channels, Arm(c) PROVE IInv'
    BY <1>4 DEF Arm
  <1>5. ASSUME NEW c \in Channels, Stopped(c) PROVE IInv'
    BY <1>5 DEF Stopped
  <1>6. ASSUME NEW c \in Channels, Fire(c) PROVE IInv'
    BY <1>6 DEF Fire
  <1>7. ASSUME NEW c \in Channels, EndPhase(c) PROVE IInv'
    <2>1. CASE transitionTo("break", {c})
      BY <2>1, TransitionIInv
    <2>2. CASE /\ state = phase[c] /\ phase[c] = "break"
               /\ state' = "done" /\ at' = [at EXCEPT ![c] = "returned"]
               /\ UNCHANGED <<endAt, stopCh, closed, phase, wake>>
      BY <2>2
    <2>3. CASE /\ state # phase[c]
               /\ at' = [at EXCEPT ![c] = "returned"]
               /\ UNCHANGED <<state, endAt, stopCh, closed, phase, wake>>
      BY <2>3
    <2> QED
      BY <1>7, <2>1, <2>2, <2>3 DEF EndPhase
  <1>8. CASE UNCHANGED vars
    BY <1>8 DEF vars
  <1> QED
    BY <1>1, <1>2, <1>3, <1>4, <1>5, <1>6, <1>7, <1>8 DEF Next, runPhase

\* The types and the three promises hold in every reachable state.
THEOREM InductiveInvariant == Spec => []IInv
  <1>1. IInv /\ [Next]_vars => IInv'
    BY NextIInv
  <1> QED
    BY InitIInv, <1>1, PTL DEF Spec

\* Type correctness of the timer.
THEOREM TypeCorrect == Spec => []TypeOK
  <1>1. IInv => TypeOK
    BY DEF IInv
  <1> QED
    BY InductiveInvariant, <1>1, PTL

\* Cancel and transitionTo never close a channel twice, which would panic,
\* however many goroutines of cancelled sessions are still under way.
THEOREM NoDoubleClose == Spec => []StopChOpen
  <1>1. IInv => StopChOpen
    BY DEF IInv
  <1> QED
    BY InductiveInvariant, <1>1, PTL

\* A phase on display always has the live goroutine that will end it.
THEOREM PhaseServed == Spec => []PhaseHasGoroutine
  <1>1. IInv => PhaseHasGoroutine
    BY DEF IInv
  <1> QED
    BY InductiveInvariant, <1>1, PTL

\* No goroutine of an earlier phase is left waiting without having been told to
\* stop.
THEOREM OrphansStopped == Spec => []NoOrphan
  <1>1. IInv => NoOrphan
    BY DEF IInv
  <1> QED
    BY InductiveInvariant, <1>1, PTL
=============================================================================
