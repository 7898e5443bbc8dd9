------------------------ MODULE FocusTrackingProofs ------------------------
(***************************************************************************)
(* Proofs about the dead-man switch and about FocusTracking, which         *)
(* composes it with the recorder, for any number of tiers, focus changes,  *)
(* failures and restarts and any capacity of the channels.                 *)
(***************************************************************************)
EXTENDS TLAPS, SequenceTheorems, FiniteSetTheorems, WellFoundedInduction, FocusTracking

(***************************************************************************)
(* Deadman implements PresenceMachine.  The reader is behind by what is in *)
(* the channel, so the proof follows the announcements on their way: each  *)
(* is a legal successor of the one before it, and the youngest fits the    *)
(* select the loop is waiting in.                                          *)
(***************************************************************************)

Follows(a, b) == a = b \/ <<a, b>> \in {<<"TRACKING", "CHECKING">>, <<"CHECKING", "TRACKING">>,
                                        <<"CHECKING", "PAUSED">>, <<"PAUSED", "TRACKING">>}

Sent      == IF states = <<>> THEN shown ELSE states[Len(states)]
Announced == IF out = "none" THEN Sent ELSE out

InOrder ==
    /\ states # <<>> => Follows(shown, states[1])
    /\ \A i \in 1 .. Len(states) - 1 : Follows(states[i], states[i + 1])
    /\ out # "none" => Follows(Sent, out)

\* A cancelled context takes waitForResume back to the loop without a TRACKING.
MatchesSelect ==
    /\ at = "interval"  => Announced = "TRACKING" \/ (cancelled /\ Announced = "PAUSED")
    /\ at = "countdown" => Announced = "CHECKING"
    /\ at = "resume"    => Announced = "PAUSED"

DeadmanInv == dmTypeOK /\ InOrder /\ MatchesSelect

LEMMA DeadmanInit == dmInit => DeadmanInv
  <1> SUFFICES ASSUME dmInit PROVE DeadmanInv
    OBVIOUS
  <1>1. {ackCh, resetCh, cancelled} \subseteq BOOLEAN
    BY Zenon DEF dmInit
  <1>2. dmTypeOK
    BY <1>1, DeadmanAssumption DEF dmInit, dmTypeOK
  <1> QED
    BY <1>2 DEF dmInit, DeadmanInv, InOrder, MatchesSelect, Announced, Sent

\* What the reader and the loop do to the announcements.
LEMMA ReceiveKeepsOrder ==
    ASSUME DeadmanInv, Receive
    PROVE  InOrder' /\ Announced' = Announced /\ Follows(shown, shown')
  <1> DEFINE n == Len(states)
  <1>1. states \in Seq({"TRACKING", "CHECKING", "PAUSED"}) /\ states # <<>> /\ n \in Nat /\ n > 0
    BY DEF DeadmanInv, dmTypeOK, Receive
  <1>2. shown' = states[1] /\ states' = Tail(states) /\ out' = out
    BY <1>1 DEF Receive
  <1>3. Len(states') = n - 1 /\ \A i \in 1 .. n - 1 : states'[i] = states[i + 1]
    BY <1>1, <1>2
  <1>4. states' = <<>> <=> n = 1
    <2>1. states' \in Seq({"TRACKING", "CHECKING", "PAUSED"})
      BY <1>1, <1>2
    <2> QED
      BY <1>1, <1>3, <2>1, EmptySeq
  <1>5. Sent' = Sent
    <2>1. CASE n = 1
      BY <1>2, <1>4, <2>1, <1>1 DEF Sent
    <2>2. CASE n # 1
      <3>1. states' # <<>>
        BY <1>4, <2>2, Zenon
      <3>2. states'[n - 1] = states[n]
        BY <1>1, <1>3, <2>2
      <3> QED
        BY <1>1, <1>3, <3>1, <3>2 DEF Sent
    <2> QED
      BY <2>1, <2>2, Zenon
  <1>6. InOrder'
    <2>1. states' # <<>> => Follows(shown', states'[1])
      BY <1>1, <1>2, <1>3, <1>4 DEF DeadmanInv, InOrder
    <2>2. \A i \in 1 .. Len(states') - 1 : Follows(states'[i], states'[i + 1])
      BY <1>1, <1>3 DEF DeadmanInv, InOrder
    <2>3. out' # "none" => Follows(Sent', out')
      BY <1>2, <1>5 DEF DeadmanInv, InOrder
    <2> QED
      BY <2>1, <2>2, <2>3 DEF InOrder, Follows
  <1>7. Announced' = Announced
    BY <1>2, <1>5 DEF Announced
  <1> QED
    BY <1>1, <1>2, <1>6, <1>7 DEF DeadmanInv, InOrder

LEMMA EmitKeepsOrder ==
    ASSUME DeadmanInv, emit
    PROVE  InOrder' /\ Announced' = Announced
  <1> DEFINE n == Len(states)
  <1>1. /\ states \in Seq({"TRACKING", "CHECKING", "PAUSED"}) /\ n \in Nat
        /\ out \in {"TRACKING", "CHECKING", "PAUSED"}
    BY DEF DeadmanInv, dmTypeOK, emit
  <1>2. states' = Append(states, out) /\ out' = "none" /\ shown' = shown
    BY DEF emit
  <1>3. /\ Len(states') = n + 1 /\ states' # <<>> /\ states'[n + 1] = out
        /\ \A i \in 1 .. n : states'[i] = states[i]
    BY <1>1, <1>2
  <1>4. Follows(Sent, out)
    BY <1>1 DEF DeadmanInv, InOrder
  <1>5. Follows(shown', states'[1])
    <2>1. CASE n = 0
      <3>1. states = <<>>
        BY <1>1, <2>1
      <3> QED
        BY <1>2, <1>3, <1>4, <2>1, <3>1 DEF Sent
    <2>2. CASE n > 0
      <3>1. states # <<>>
        BY <1>1, <2>2
      <3> QED
        BY <1>1, <1>2, <1>3, <2>2, <3>1 DEF DeadmanInv, InOrder
    <2> QED
      BY <1>1, <2>1, <2>2
  <1>6. ASSUME NEW i \in 1 .. n PROVE Follows(states'[i], states'[i + 1])
    <2>1. CASE i = n
      <3>1. states # <<>>
        BY <1>1, <2>1
      <3> QED
        BY <1>1, <1>3, <1>4, <2>1, <3>1 DEF Sent
    <2>2. CASE i < n
      BY <1>1, <1>3, <2>2 DEF DeadmanInv, InOrder
    <2> QED
      BY <1>1, <2>1, <2>2
  <1>7. InOrder'
    BY <1>1, <1>2, <1>3, <1>5, <1>6 DEF InOrder, Follows
  <1>8. Announced' = Announced
    BY <1>1, <1>2, <1>3 DEF Announced, Sent
  <1> QED
    BY <1>7, <1>8

\* Every step keeps the types.
LEMMA DeadmanTypes == ASSUME dmTypeOK, [dmNext]_dmVars PROVE dmTypeOK'
  <1> USE DeadmanAssumption DEF dmTypeOK
  <1>1. CASE Stop \/ Acknowledge \/ Reset
    <2>1. {ackCh', resetCh', cancelled'} \subseteq BOOLEAN
      BY <1>1, Zenon DEF Stop, Acknowledge, Reset
    <2> QED
      BY <1>1, <2>1 DEF Stop, Acknowledge, Reset
  <1>2. CASE Receive
    BY <1>2 DEF Receive
  <1>3. CASE emit
    BY <1>3 DEF emit
  <1>4. CASE TimerFires \/ CountdownExpires \/ Done
    BY <1>4 DEF TimerFires, CountdownExpires, Done, Waiting
  <1>5. CASE HandleReset \/ HandleAck
    <2>1. {ackCh', resetCh', cancelled'} \subseteq BOOLEAN
      BY <1>5, Zenon DEF HandleReset, HandleAck
    <2>2. tier' \in 0 .. MaxTier
      BY <1>5 DEF HandleReset, HandleAck
    <2> QED
      BY <1>5, <2>1, <2>2 DEF HandleReset, HandleAck
  <1>6. CASE UNCHANGED dmVars
    BY <1>6 DEF dmVars
  <1> QED
    BY <1>1, <1>2, <1>3, <1>4, <1>5, <1>6 DEF dmNext, loop

\* Every step keeps the announcements in order and fitting the loop's select.
LEMMA DeadmanOrder == ASSUME DeadmanInv, [dmNext]_dmVars PROVE InOrder' /\ MatchesSelect'
  <1> USE DEF DeadmanInv
  <1>1. CASE Receive
    BY <1>1, ReceiveKeepsOrder DEF MatchesSelect, Receive
  <1>2. CASE emit
    BY <1>2, EmitKeepsOrder DEF MatchesSelect, emit
  <1>3. CASE TimerFires \/ HandleReset \/ HandleAck \/ CountdownExpires
    BY <1>3 DEF TimerFires, HandleReset, HandleAck, CountdownExpires, Waiting, Signalled,
       InOrder, MatchesSelect, Announced, Sent, Follows, dmTypeOK
  <1>4. CASE Done
    BY <1>4 DEF Done, Waiting, InOrder, MatchesSelect, Announced, Sent, Follows
  <1>5. CASE Stop \/ Acknowledge \/ Reset \/ UNCHANGED dmVars
    BY <1>5 DEF Stop, Acknowledge, Reset, dmVars, InOrder, MatchesSelect, Announced, Sent, Follows
  <1> QED
    BY <1>1, <1>2, <1>3, <1>4, <1>5 DEF dmNext, loop

\* The types, and the order of the announcements, in every reachable state.
THEOREM DeadmanInvariant == dmSpec => []DeadmanInv
  <1>1. DeadmanInv /\ [dmNext]_dmVars => DeadmanInv'
    BY DeadmanTypes, DeadmanOrder DEF DeadmanInv
  <1> QED
    BY DeadmanInit, <1>1, PTL DEF dmSpec

\* Type correctness of the dead-man switch.
THEOREM DeadmanTypesHold == dmSpec => []dmTypeOK
  <1>1. DeadmanInv => dmTypeOK
    BY DEF DeadmanInv
  <1> QED
    BY DeadmanInvariant, <1>1, PTL

\* What the reader of States() is told follows the state machine in the comment
\* of PresenceDetector, however far it reads behind the loop: Deadman implements
\* PresenceMachine.
THEOREM Refinement == dmSpec => PresenceSpec
  <1>1. dmInit => Presence!Init
    BY DEF dmInit, Presence!Init
  <1>2. ASSUME DeadmanInv, [dmNext]_dmVars PROVE [Presence!Next]_shown
    <2>1. CASE Receive
      <3>1. Follows(shown, shown')
        BY <1>2, <2>1, ReceiveKeepsOrder
      <3> QED
        BY <3>1 DEF Follows, Presence!Next, Presence!DeadmanFires, Presence!Acknowledged,
           Presence!TimesOut, Presence!FocusChanges
    <2>2. CASE UNCHANGED shown
      BY <2>2
    <2> QED
      BY <1>2, <2>1, <2>2 DEF dmNext, loop, Stop, Acknowledge, Reset, emit, TimerFires,
         HandleReset, HandleAck, CountdownExpires, Done, dmVars
  <1> QED
    BY DeadmanInvariant, <1>1, <1>2, PTL DEF dmSpec, PresenceSpec, Presence!Spec

(***************************************************************************)
(* The recorder, the screen lock and the dead-man listener.                *)
(***************************************************************************)

\* Focus changes are recorded in the order in which they were polled: the one
\* being recorded is younger than every row, those in the channel younger still.
OrderKept ==
    /\ \A f \in Events : row[f] # "none" => f <= polled
    /\ \A i \in 1 .. Len(focusQ) :
         /\ focusQ[i] <= polled
         /\ \A f \in Events : row[f] # "none" => f < focusQ[i]
         /\ \A j \in 1 .. Len(focusQ) : i < j => focusQ[i] < focusQ[j]
    /\ recorder # "wait" =>
         /\ event \in Events /\ event <= polled
         /\ \A f \in Events : row[f] # "none" => f < event
         /\ \A i \in 1 .. Len(focusQ) : event < focusQ[i]

\* Between the recorder's UPDATE and its INSERT one event less may be open.
OpenAccounted == recorder = "insert" => Cardinality(Open) <= failed

OpenIsNewest == failed = 0 => \A e \in Open : Newest(e)

FocusInv == TypeOK /\ OrderKept /\ OpenPaidByFailures /\ OpenAccounted /\ OpenIsNewest

LEMMA InitTypes == Init => TypeOK
  <1> SUFFICES ASSUME Init PROVE TypeOK
    OBVIOUS
  <1>1. dmTypeOK
    BY DeadmanInit DEF Init, DeadmanInv
  <1>2. running \in BOOLEAN
    BY Zenon DEF Init
  <1> QED
    BY <1>1, <1>2, FocusAssumption DEF Init, TypeOK, Events

\* Every step of the daemon's goroutines, and every restart, keeps the types.
LEMMA StepTypes == ASSUME TypeOK, [Next]_vars PROVE TypeOK'
  <1> USE FocusAssumption DEF Events
  <1>1. dmTypeOK'
    <2>1. CASE [dmNext]_dmVars
      BY <2>1, DeadmanTypes DEF TypeOK
    <2>2. CASE Start
      <3>1. {ackCh', resetCh', cancelled'} \subseteq BOOLEAN
        BY <2>2, Zenon DEF Start
      <3> QED
        BY <2>2, <3>1, DeadmanAssumption DEF Start, dmTypeOK
    <2> QED
      BY <2>1, <2>2 DEF Next, poll, Recorder, ReceiveFocus, CloseBeforeInsert, InsertFocusEvent,
         listenDBus, LockTask, ReceiveLock, CloseOnLock, Deadman, PauseTask, ReceivePresence,
         CloseOnPause, Shutdown, Exit, vars, dmNext, loop
  <1> USE DEF TypeOK
  <1>2. ASSUME closeCurrentFocusEvent
        PROVE  row' \in [Events -> {"none", "open", "ended"}] /\ failed' \in 0 .. MaxFailures
    BY <1>2 DEF closeCurrentFocusEvent
  <1>3. CASE poll
    BY <1>1, <1>3 DEF poll, ghostVars
  <1>4. CASE ReceiveFocus
    BY <1>1, <1>4 DEF ReceiveFocus, ghostVars
  <1>5. CASE CloseBeforeInsert \/ CloseOnLock \/ CloseOnPause
    BY <1>1, <1>2, <1>5 DEF CloseBeforeInsert, CloseOnLock, CloseOnPause
  <1>6. CASE InsertFocusEvent
    BY <1>1, <1>6 DEF InsertFocusEvent
  <1>7. ASSUME NEW s \in LockStates, listenDBus(s) PROVE TypeOK'
    BY <1>1, <1>7 DEF listenDBus, ghostVars
  <1>8. CASE ReceiveLock
    BY <1>1, <1>8 DEF ReceiveLock, ghostVars
  <1>9. CASE ReceivePresence
    BY <1>1, <1>9 DEF ReceivePresence, ghostVars
  <1>10. CASE Deadman \/ Shutdown \/ UNCHANGED vars
    BY <1>1, <1>10 DEF Deadman, Shutdown, vars, taskVars, ghostVars
  <1>11. CASE Exit \/ Start
    <2>1. running' \in BOOLEAN
      BY <1>11, Zenon DEF Exit, Start
    <2>2. CASE Exit
      BY <1>1, <2>1, <2>2 DEF Exit, taskVars, ghostVars
    <2>3. CASE Start
      BY <1>1, <2>1, <2>3 DEF Start, ghostVars
    <2> QED
      BY <1>11, <2>2, <2>3
  <1> QED
    BY <1>3, <1>4, <1>5, <1>6, <1>7, <1>8, <1>9, <1>10, <1>11
    DEF Next, Recorder, LockTask, PauseTask

\* The set of open events is finite, and has a greatest member if it has any.
LEMMA OpenFinite ==
    ASSUME TypeOK
    PROVE  /\ Open \subseteq Events /\ Events \subseteq Nat
           /\ IsFiniteSet(Open) /\ Cardinality(Open) \in Nat
           /\ Cardinality(Open) = 0 <=> Open = {}
  <1>1. Open \subseteq Events /\ Events \subseteq Nat /\ MaxEvents \in Int
    BY FocusAssumption DEF Open, Events
  <1>2. IsFiniteSet(Events)
    BY <1>1, FS_Interval DEF Events
  <1>3. IsFiniteSet(Open)
    BY <1>1, <1>2, FS_Subset
  <1> QED
    BY <1>1, <1>3, FS_CardinalityType, FS_EmptySet

LEMMA Greatest ==
    ASSUME TypeOK, Open # {}
    PROVE  \E m \in Open : \A e \in Open : e <= m
  <1> DEFINE T == {MaxEvents - e : e \in Open}
  <1>1. T \in SUBSET Nat /\ T # {}
    BY OpenFinite, FocusAssumption DEF Events
  <1>2. PICK x \in T : \A y \in T : ~ (<<y, x>> \in OpToRel(<, Nat))
    <2> HIDE DEF T
    <2> QED
      BY <1>1, NatLessThanWellFounded, WFMin, Zenon
  <1>3. \A y \in T : ~ (y < x)
    BY <1>1, <1>2 DEF OpToRel
  <1>4. PICK m \in Open : x = MaxEvents - m
    BY <1>2, Zenon
  <1>5. \A e \in Open : ~ (MaxEvents - e < MaxEvents - m)
    BY <1>3, <1>4
  <1> QED
    BY <1>4, <1>5, OpenFinite, FocusAssumption

\* CloseLatestOpenFocusEvent: it fails, or there was nothing to end, or the
\* greatest open event ends; no row comes or goes.
LEMMA CloseEffect ==
    ASSUME TypeOK, closeCurrentFocusEvent
    PROVE  \/ failed' = failed + 1 /\ row' = row
           \/ failed' = failed /\ row' = row /\ Open = {}
           \/ /\ failed' = failed
              /\ \E m \in Open : /\ row' = [row EXCEPT ![m] = "ended"]
                                 /\ Open' = Open \ {m} /\ \A e \in Open : e <= m
  <1>0. row \in [Events -> {"none", "open", "ended"}]
    BY DEF TypeOK
  <1>1. CASE failed' = failed + 1 /\ UNCHANGED row
    BY <1>1
  <1>2. CASE /\ row' = [e \in Events |->
                           IF e \in Open /\ \A f \in Open : f <= e THEN "ended" ELSE row[e]]
             /\ UNCHANGED failed
    <2>1. CASE Open = {}
      <3>1. row' = row
        BY <1>0, <1>2, <2>1
      <3> QED
        BY <1>2, <2>1, <3>1
    <2>2. CASE Open # {}
      <3>1. PICK m \in Open : \A e \in Open : e <= m
        BY <2>2, Greatest
      <3>2. \A e \in Events : (e \in Open /\ \A f \in Open : f <= e) <=> e = m
        BY <3>1, OpenFinite
      <3>3. row' = [row EXCEPT ![m] = "ended"]
        BY <1>0, <1>2, <3>2
      <3>4. Open' = Open \ {m}
        BY <1>0, <3>1, <3>3 DEF Open
      <3> QED
        BY <1>2, <3>1, <3>3, <3>4
    <2> QED
      BY <2>1, <2>2
  <1> QED
    BY <1>1, <1>2 DEF closeCurrentFocusEvent

\* Ending an event, whoever does it, breaks none of the promises; the recorder,
\* which inserts next, has room for one more.
LEMMA CloseKeeps ==
    ASSUME FocusInv, closeCurrentFocusEvent
    PROVE  /\ OpenPaidByFailures' /\ OpenIsNewest'
           /\ Cardinality(Open') <= failed'
           /\ \A e \in Events : row'[e] # "none" => row[e] # "none"
  <1> USE DEF FocusInv, OpenPaidByFailures, OpenIsNewest, Newest
  <1>0. /\ row \in [Events -> {"none", "open", "ended"}] /\ failed \in Nat
        /\ Cardinality(Open) \in Nat /\ Cardinality(Open) <= 1 + failed
    BY OpenFinite, FocusAssumption DEF TypeOK
  <1>1. CASE failed' = failed + 1 /\ row' = row
    <2>1. Open' = Open
      BY <1>1 DEF Open
    <2> QED
      BY <1>0, <1>1, <2>1
  <1>2. CASE failed' = failed /\ row' = row /\ Open = {}
    <2>1. Open' = {}
      BY <1>2 DEF Open
    <2> QED
      BY <1>0, <1>2, <2>1, FS_EmptySet
  <1>3. CASE /\ failed' = failed
             /\ \E m \in Open : /\ row' = [row EXCEPT ![m] = "ended"]
                                /\ Open' = Open \ {m} /\ \A e \in Open : e <= m
    <2>1. PICK m \in Open : row' = [row EXCEPT ![m] = "ended"] /\ Open' = Open \ {m}
      BY <1>3
    <2>2. Cardinality(Open') = Cardinality(Open) - 1
      BY <2>1, OpenFinite, FS_RemoveElement
    <2>3. m \in Events /\ row[m] # "none"
      BY <2>1 DEF Open
    <2>4. \A e \in Events : row'[e] # "none" <=> row[e] # "none"
      BY <1>0, <2>1, <2>3
    <2>5. OpenIsNewest'
      BY <1>3, <2>1, <2>4, OpenFinite
    <2> QED
      BY <1>0, <1>3, <2>2, <2>4, <2>5
  <1> QED
    BY <1>1, <1>2, <1>3, CloseEffect

\* Every step keeps the order of the focus changes.
LEMMA StepOrder == ASSUME FocusInv, [Next]_vars PROVE OrderKept'
  <1> DEFINE n == Len(focusQ)
  <1>0. /\ row \in [Events -> {"none", "open", "ended"}] /\ recorder \in {"wait", "close", "insert"}
        /\ focusQ \in Seq(Events) /\ n \in Nat /\ polled \in Nat /\ Events \subseteq Nat
    BY FocusAssumption DEF FocusInv, TypeOK, Events
  <1>1. CASE poll
    <2>1. /\ Len(focusQ') = n + 1 /\ focusQ'[n + 1] = polled + 1
          /\ \A i \in 1 .. n : focusQ'[i] = focusQ[i]
          /\ polled' = polled + 1 /\ UNCHANGED <<row, recorder, event>>
      BY <1>0, <1>1 DEF poll
    <2>2. ASSUME NEW i \in 1 .. n
          PROVE  /\ focusQ[i] \in Nat /\ focusQ[i] <= polled
                 /\ \A f \in Events : row[f] # "none" => f < focusQ[i]
                 /\ \A j \in 1 .. n : i < j => focusQ[i] < focusQ[j]
                 /\ recorder # "wait" => event < focusQ[i]
      <3>1. focusQ[i] \in Events
        BY <1>0
      <3> QED
        BY <1>0, <3>1 DEF FocusInv, OrderKept
    <2>3. \A f \in Events : row[f] # "none" => f <= polled
      BY DEF FocusInv, OrderKept
    <2>4. ASSUME NEW i \in 1 .. n + 1
          PROVE  /\ focusQ'[i] <= polled + 1
                 /\ \A f \in Events : row[f] # "none" => f < focusQ'[i]
                 /\ \A j \in 1 .. n + 1 : i < j => focusQ'[i] < focusQ'[j]
                 /\ recorder # "wait" => event < focusQ'[i]
      <3>1. CASE i = n + 1
        BY <1>0, <2>1, <2>3, <3>1 DEF FocusInv, OrderKept
      <3>2. CASE i \in 1 .. n
        BY <1>0, <2>1, <2>2, <3>2
      <3> QED
        BY <1>0, <3>1, <3>2
    <2>5. recorder # "wait" => /\ event \in Events /\ event <= polled + 1
                               /\ \A f \in Events : row[f] # "none" => f < event
      BY <1>0 DEF FocusInv, OrderKept
    <2>6. \A f \in Events : row[f] # "none" => f <= polled + 1
      BY <1>0, <2>3
    <2> QED
      BY <2>1, <2>4, <2>5, <2>6 DEF OrderKept
  <1>2. CASE ReceiveFocus
    <2>1. /\ focusQ # <<>> /\ event' = focusQ[1] /\ UNCHANGED <<row, polled>>
          /\ focusQ' = Tail(focusQ) /\ n > 0
      BY <1>0, <1>2 DEF ReceiveFocus
    <2>2. Len(focusQ') = n - 1 /\ \A i \in 1 .. n - 1 : focusQ'[i] = focusQ[i + 1]
      BY <1>0, <2>1
    <2>3. 1 \in 1 .. n /\ event' \in Events
      BY <1>0, <2>1
    <2> QED
      BY <1>0, <2>1, <2>2, <2>3 DEF FocusInv, OrderKept
  <1>3. CASE InsertFocusEvent
    BY <1>0, <1>3 DEF FocusInv, OrderKept, InsertFocusEvent
  <1>4. ASSUME closeCurrentFocusEvent, recorder' = "insert" => recorder # "wait",
               recorder' = "close" => recorder = "close", UNCHANGED <<focusQ, polled, event>>,
               recorder' \in {"wait", "close", "insert"}
        PROVE  OrderKept'
    BY <1>0, <1>4, CloseKeeps DEF FocusInv, OrderKept
  <1>5. CASE CloseBeforeInsert \/ CloseOnLock \/ CloseOnPause
    BY <1>0, <1>4, <1>5 DEF CloseBeforeInsert, CloseOnLock, CloseOnPause
  <1>6. ASSUME UNCHANGED <<row, focusQ, polled, recorder, event>> PROVE OrderKept'
    BY <1>6 DEF FocusInv, OrderKept
  <1>7. CASE Start
    <2>1. Len(focusQ') = 0 /\ recorder' = "wait" /\ UNCHANGED <<row, polled>>
      BY <1>7 DEF Start
    <2> QED
      BY <2>1 DEF FocusInv, OrderKept
  <1> QED
    BY <1>1, <1>2, <1>3, <1>5, <1>6, <1>7 DEF Next, Recorder, LockTask, PauseTask, listenDBus,
       ReceiveLock, Deadman, ReceivePresence, Shutdown, Exit, vars, taskVars

\* Every step keeps the account of the open events.
LEMMA StepOpen ==
    ASSUME FocusInv, [Next]_vars PROVE OpenPaidByFailures' /\ OpenAccounted' /\ OpenIsNewest'
  <1> DEFINE Goal == OpenPaidByFailures' /\ OpenAccounted' /\ OpenIsNewest'
  <1>0. /\ row \in [Events -> {"none", "open", "ended"}] /\ failed \in Nat
        /\ IsFiniteSet(Open) /\ Cardinality(Open) \in Nat /\ Events \subseteq Nat
    BY OpenFinite, FocusAssumption DEF FocusInv, TypeOK, Events
  <1>1. ASSUME closeCurrentFocusEvent PROVE Goal
    BY <1>1, CloseKeeps DEF OpenAccounted
  <1>2. ASSUME UNCHANGED <<row, failed>>, recorder' = "insert" => recorder = "insert" PROVE Goal
    <2>1. Open' = Open /\ \A e \in Events : Newest(e)' <=> Newest(e)
      BY <1>2 DEF Open, Newest
    <2> QED
      BY <1>2, <2>1 DEF FocusInv, OpenPaidByFailures, OpenAccounted, OpenIsNewest, Open
  <1>3. CASE InsertFocusEvent
    <2>0. event \in Events /\ recorder' = "wait" /\ Cardinality(Open) <= failed
          /\ \A f \in Events : row[f] # "none" => f < event
      BY <1>3 DEF InsertFocusEvent, FocusInv, OrderKept, OpenAccounted
    <2>1. CASE row' = [row EXCEPT ![event] = "open"] /\ UNCHANGED failed
      <3>1. Open' = Open \cup {event}
        BY <1>0, <2>0, <2>1 DEF Open
      <3>2. Cardinality(Open') <= Cardinality(Open) + 1
        <4>1. Cardinality(Open \cup {event}) =
                IF event \in Open THEN Cardinality(Open) ELSE Cardinality(Open) + 1
          BY <1>0, FS_AddElement
        <4> QED
          BY <1>0, <3>1, <4>1
      <3>3. ASSUME failed = 0 PROVE \A e \in Open' : Newest(e)'
        <4>1. Open = {}
          BY <1>0, <2>0, <3>3, FS_EmptySet
        <4> QED
          BY <1>0, <2>0, <2>1, <3>1, <4>1 DEF Newest
      <3>4. OpenPaidByFailures'
        BY <1>0, <2>0, <2>1, <3>1, <3>2, OpenFinite, FS_AddElement DEF OpenPaidByFailures
      <3> QED
        BY <2>0, <2>1, <3>3, <3>4 DEF OpenAccounted, OpenIsNewest
    <2>2. CASE failed' = failed + 1 /\ UNCHANGED row
      <3>1. Open' = Open
        BY <2>2 DEF Open
      <3> QED
        BY <1>0, <2>0, <2>2, <3>1
        DEF FocusInv, OpenPaidByFailures, OpenAccounted, OpenIsNewest
    <2> QED
      BY <1>3, <2>1, <2>2 DEF InsertFocusEvent
  <1>4. CASE CloseBeforeInsert \/ CloseOnLock \/ CloseOnPause
    BY <1>1, <1>4 DEF CloseBeforeInsert, CloseOnLock, CloseOnPause
  <1> QED
    BY <1>2, <1>3, <1>4 DEF Next, poll, Recorder, ReceiveFocus, LockTask, PauseTask, listenDBus,
       ReceiveLock, Deadman, ReceivePresence, Shutdown, Exit, Start, vars, taskVars, ghostVars

\* The types, the order of the focus changes and the account of the open events.
THEOREM FocusInvariant == Spec => []FocusInv
  <1>1. Init => FocusInv
    <2> SUFFICES ASSUME Init PROVE FocusInv
      OBVIOUS
    <2>1. TypeOK /\ Open = {}
      BY InitTypes DEF Init, Open
    <2>2. Cardinality(Open) = 0
      BY <2>1, FS_EmptySet
    <2>3. /\ \A f \in Events : row[f] = "none"
          /\ Len(focusQ) = 0 /\ recorder = "wait" /\ failed = 0
      BY DEF Init
    <2> QED
      BY <2>1, <2>2, <2>3
      DEF FocusInv, OrderKept, OpenPaidByFailures, OpenAccounted, OpenIsNewest
  <1>2. FocusInv /\ [Next]_vars => FocusInv'
    BY StepTypes, StepOrder, StepOpen DEF FocusInv
  <1> QED
    BY <1>1, <1>2, PTL DEF Spec

\* Type correctness of the recorder, the listeners and the dead-man switch.
THEOREM TypesHold == Spec => []TypeOK
  <1>1. FocusInv => TypeOK
    BY DEF FocusInv
  <1> QED
    BY FocusInvariant, <1>1, PTL

\* Three goroutines that end the most recent open event without a transaction,
\* and restarts that find one open, never lead to overlapping events unless a
\* statement failed.
THEOREM OverlapsPaidByFailures == Spec => []OpenPaidByFailures
  <1>1. FocusInv => OpenPaidByFailures
    BY DEF FocusInv
  <1> QED
    BY FocusInvariant, <1>1, PTL

\* Until an UPDATE fails, the event that CloseLatestOpenFocusEvent ends is the
\* newest one recorded, whichever goroutine calls it.
THEOREM NewestEnds == Spec => EndsNewest
  <1>1. ASSUME FocusInv, [Next]_vars
        PROVE  [\A e \in Events :
                    row[e] = "open" /\ row'[e] = "ended" /\ failed = 0 => Newest(e)]_vars
    BY <1>1 DEF FocusInv, OpenIsNewest, Open
  <1> QED
    BY FocusInvariant, <1>1, PTL DEF Spec, EndsNewest
=============================================================================
