-------------------------- MODULE AutoSubmitProofs --------------------------
(***************************************************************************)
(* Proofs about AutoSubmit, for any events, tags and cadences and any      *)
(* number of manual submissions.                                           *)
(***************************************************************************)
EXTENDS TLAPS, AutoSubmit

\* What eligibleEvents found out about the events it selected holds until they
\* are linked, whatever the dashboard and the recorder do in between.
SelectionHolds ==
    pc = "create" =>
        \A e \in ids : auto[e] = 0 /\ state[e] = "ended" /\ tags[e] # {}

IInv == TypeOK /\ AutoNeverRepeats /\ SelectionHolds

LEMMA InitIInv == Init => IInv
  <1> SUFFICES ASSUME Init PROVE IInv
    OBVIOUS
  <1>1. TypeOK
    <2>2. since_on \in Never .. MaxInterval /\ since_run \in Never .. MaxInterval /\ interval \in Intervals /\ run_age \in 0 .. MaxInterval
      BY IntervalsAssumption DEF Init, Never
    <2>3. manual \in [Events -> 0 .. MaxManual] /\ auto \in [Events -> Nat]
      BY MaxManualAssumption DEF Init
    <2> QED
      BY <2>2, <2>3 DEF Init, TypeOK
  <1>2. AutoNeverRepeats /\ SelectionHolds
    BY DEF Init, AutoNeverRepeats, SelectionHolds
  <1> QED
    BY <1>1, <1>2 DEF IInv

\* Ages stay within the longest cadence.
LEMMA OlderType ==
    ASSUME NEW age \in Never .. MaxInterval
    PROVE  /\ Older(age) \in Never .. MaxInterval
           /\ age # Never => Older(age) # Never
           /\ age \in 0 .. MaxInterval => Older(age) \in 0 .. MaxInterval
    BY IntervalsAssumption DEF Older, Never

\* Every step of the scheduler, the dashboard, the recorder and the clock keeps
\* the types.
LEMMA NextTypeOK == ASSUME TypeOK, [Next]_vars PROVE TypeOK'
  <1> USE IntervalsAssumption, MaxManualAssumption DEF TypeOK
  <1>1. ASSUME NEW e \in Events, FocusChange(e) PROVE TypeOK'
    BY <1>1 DEF FocusChange, linkVars, settingsVars, runVars
  <1>2. ASSUME NEW e \in Events, CloseLatestOpenFocusEvent(e) PROVE TypeOK'
    BY <1>2 DEF CloseLatestOpenFocusEvent, linkVars, settingsVars, runVars
  <1>3. ASSUME NEW e \in Events, NEW t \in Tags, handleTagEvent(e, t) PROVE TypeOK'
    BY <1>3 DEF handleTagEvent, linkVars, settingsVars, runVars
  <1>4. ASSUME NEW S \in SUBSET Events, handleSubmit(S) PROVE TypeOK'
    BY <1>4 DEF handleSubmit, eventVars, settingsVars, runVars
  <1>5. ASSUME NEW hours \in Intervals, NEW T \in SUBSET Tags, Save(hours, T) PROVE TypeOK'
    BY <1>5 DEF Save, Recorded, Never, eventVars, linkVars, runVars
  <1>6. CASE Load \/ LoadTags
    BY <1>6 DEF Load, LoadTags, EndRun, eventVars, linkVars, settingsVars
  <1>7. CASE eligibleEvents
    BY <1>7 DEF eligibleEvents, eventVars, linkVars, settingsVars
  <1>8. CASE CreateSubmission
    BY <1>8 DEF CreateSubmission, eventVars, settingsVars
  <1>9. CASE RecordRun
    BY <1>9 DEF RecordRun, EndRun, Never, eventVars, linkVars
  <1>10. CASE AbortRun
    BY <1>10 DEF AbortRun, EndRun, eventVars, linkVars, settingsVars
  <1>11. CASE Tick
    <2>1. since_on' \in Never .. MaxInterval /\ since_run' \in Never .. MaxInterval
      BY <1>11, OlderType DEF Tick
    <2>2. run_age' \in 0 .. MaxInterval
      BY <1>11, OlderType DEF Tick, Never
    <2> QED
      BY <1>11, <2>1, <2>2 DEF Tick, eventVars, linkVars
  <1>12. CASE UNCHANGED vars
    BY <1>12 DEF vars, eventVars, linkVars, settingsVars, runVars
  <1> QED
    BY <1>1, <1>2, <1>3, <1>4, <1>5, <1>6, <1>7, <1>8, <1>9, <1>10, <1>11, <1>12
    DEF Next, RunOnce

\* Every step keeps the selection valid, and therefore the links single.
LEMMA NextLinks ==
    ASSUME IInv, [Next]_vars PROVE AutoNeverRepeats' /\ SelectionHolds'
  <1> USE DEF IInv, AutoNeverRepeats, SelectionHolds
  <1>1. ASSUME NEW e \in Events, FocusChange(e) PROVE AutoNeverRepeats' /\ SelectionHolds'
    BY <1>1 DEF FocusChange, linkVars, runVars, TypeOK
  <1>2. ASSUME NEW e \in Events, CloseLatestOpenFocusEvent(e)
        PROVE  AutoNeverRepeats' /\ SelectionHolds'
    BY <1>2 DEF CloseLatestOpenFocusEvent, linkVars, runVars, TypeOK
  <1>3. ASSUME NEW e \in Events, NEW t \in Tags, handleTagEvent(e, t)
        PROVE  AutoNeverRepeats' /\ SelectionHolds'
    BY <1>3 DEF handleTagEvent, linkVars, runVars, TypeOK
  <1>4. CASE eligibleEvents
    <2>1. \A e \in Events : Eligible(e) => auto[e] = 0 /\ state[e] = "ended" /\ tags[e] # {}
      BY DEF Eligible, Submitted, TypeOK
    <2> QED
      BY <1>4, <2>1 DEF eligibleEvents, eventVars, linkVars
  <1>5. CASE CreateSubmission
    BY <1>5 DEF CreateSubmission, TypeOK
  <1>6. ASSUME UNCHANGED <<auto, state, tags, ids>>, pc' \in {pc, "idle", "loaded"}
        PROVE  AutoNeverRepeats' /\ SelectionHolds'
    BY <1>6
  <1>7. ASSUME NEW S \in SUBSET Events, handleSubmit(S)
        PROVE  AutoNeverRepeats' /\ SelectionHolds'
    BY <1>6, <1>7 DEF handleSubmit, eventVars, runVars
  <1>8. CASE LoadTags \/ RecordRun \/ AbortRun
    BY <1>8 DEF LoadTags, RecordRun, AbortRun, EndRun, eventVars, linkVars
  <1>9. CASE Load \/ Tick \/ UNCHANGED vars
    BY <1>6, <1>9 DEF Load, Tick, vars, eventVars, linkVars, runVars
  <1>10. ASSUME NEW hours \in Intervals, NEW T \in SUBSET Tags, Save(hours, T)
         PROVE  AutoNeverRepeats' /\ SelectionHolds'
    BY <1>6, <1>10 DEF Save, eventVars, linkVars, runVars
  <1> QED
    BY <1>1, <1>2, <1>3, <1>4, <1>5, <1>7, <1>8, <1>9, <1>10 DEF Next, RunOnce

\* The invariant the results below follow from.
THEOREM InductiveInvariant == Spec => []IInv
  <1>1. IInv /\ [Next]_vars => IInv'
    BY NextTypeOK, NextLinks DEF IInv
  <1> QED
    BY InitIInv, <1>1, PTL DEF Spec

\* Type correctness of the settings, the links and the scheduler.
THEOREM TypeCorrect == Spec => []TypeOK
  <1>1. IInv => TypeOK
    BY DEF IInv
  <1> QED
    BY InductiveInvariant, <1>1, PTL

\* RunOnce never links an event twice, wherever a crash or a failing statement
\* cuts a run off and however often the settings change.
THEOREM NeverRepeats == Spec => []AutoNeverRepeats
  <1>1. IInv => AutoNeverRepeats
    BY DEF IInv
  <1> QED
    BY InductiveInvariant, <1>1, PTL

\* Ages of which one is not less than the other stay so.
LEMMA OlderKeepsOrder ==
    ASSUME NEW a \in 0 .. MaxInterval, NEW b \in 0 .. MaxInterval, a <= b
    PROVE  Older(a) \in 0 .. Older(b)
    BY IntervalsAssumption DEF Older

\* The stored last run belongs to the stored cycle: turning auto-submit off or on puts
\* it right, and only a run that outlived its cycle puts it wrong (Save and the
\* unconditional UPDATE of RunOnce), for every cadence and any number of changes.
THEOREM LastRunBelongs == Spec => LastRunInCycle
  <1> DEFINE Kept == /\ InCycle => InCycle' \/ (RecordRun /\ (enabled => run_age > since_on))
                     /\ enabled' # enabled => InCycle'
  <1>1. ASSUME IInv, [Next]_vars PROVE [Kept]_vars
    <2> USE <1>1, IntervalsAssumption DEF IInv, TypeOK
    <2>1. ASSUME NEW hours \in Intervals, NEW T \in SUBSET Tags, Save(hours, T)
          PROVE  Kept
      <3>1. CASE hours = 0
        <4>1. since_on' = Never /\ since_run' = Never
          BY <2>1, <3>1 DEF Save
        <4> QED
          BY <4>1 DEF InCycle, enabled
      <3>2. CASE hours > 0 /\ ~enabled
        <4>1. since_on' = 0 /\ since_run' = 0
          BY <2>1, <3>2 DEF Save
        <4> QED
          BY <4>1 DEF InCycle, enabled, Never
      <3>3. CASE hours > 0 /\ enabled
        <4>1. UNCHANGED <<since_on, since_run>>
          BY <2>1, <3>3 DEF Save
        <4> QED
          BY <4>1 DEF InCycle, enabled
      <3> QED
        BY <2>1, <3>1, <3>2, <3>3 DEF Save
    <2>2. CASE RecordRun
      <3>1. UNCHANGED since_on /\ since_run' = run_age
        BY <2>2 DEF RecordRun
      <3>2. enabled /\ ~(run_age > since_on) => InCycle'
        BY <3>1 DEF InCycle, enabled, Never
      <3>3. enabled' = enabled
        BY <3>1 DEF enabled
      <3> QED
        BY <2>2, <3>2, <3>3
    <2>3. CASE Tick
      <3>1. since_on' = Older(since_on) /\ since_run' = Older(since_run)
        BY <2>3 DEF Tick
      <3>2. Older(Never) = Never /\ (since_on # Never => Older(since_on) # Never)
        BY OlderType DEF Older, Never
      <3>3. enabled' <=> enabled
        BY <3>1, <3>2 DEF enabled
      <3>4. since_on # Never /\ since_run \in 0 .. since_on => since_run' \in 0 .. since_on'
        BY <3>1, OlderKeepsOrder DEF Never
      <3> QED
        BY <3>1, <3>2, <3>3, <3>4 DEF InCycle, enabled
    <2>4. CASE UNCHANGED <<since_on, since_run>>
      BY <2>4 DEF InCycle, enabled
    <2> QED
      BY <2>1, <2>2, <2>3, <2>4 DEF Next, RunOnce, FocusChange, CloseLatestOpenFocusEvent,
         handleTagEvent, handleSubmit, Load, LoadTags, eligibleEvents, CreateSubmission, AbortRun,
         vars, settingsVars
  <1> QED
    BY InductiveInvariant, <1>1, PTL DEF Spec, LastRunInCycle

\* CreateSubmission links finished, tagged events only, although it does not look
\* again at what eligibleEvents read.
THEOREM FinishedTagged == Spec => OnlyFinishedTagged
  <1>1. ASSUME IInv, [Next]_vars
        PROVE  [\A e \in Events :
                    auto'[e] > auto[e] => state[e] = "ended" /\ tags[e] # {}]_vars
    <2>1. CASE CreateSubmission
      BY <1>1, <2>1 DEF CreateSubmission, IInv, SelectionHolds, TypeOK
    <2>2. CASE auto' = auto
      BY <1>1, <2>2 DEF IInv, TypeOK
    <2> QED
      BY <1>1, <2>1, <2>2 DEF Next, RunOnce, FocusChange, CloseLatestOpenFocusEvent,
         handleTagEvent, handleSubmit, Save, Load, LoadTags, eligibleEvents, RecordRun, AbortRun, Tick,
         vars, linkVars
  <1> QED
    BY InductiveInvariant, <1>1, PTL DEF Spec, OnlyFinishedTagged
=============================================================================
