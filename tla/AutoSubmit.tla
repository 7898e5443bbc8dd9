----------------------------- MODULE AutoSubmit -----------------------------
(***************************************************************************)
(* Auto-submit: the scheduler goroutine autosubmit.Run, the settings the   *)
(* dashboard saves, and the other writers of the same SQLite tables (focus *)
(* recorder, manual tagging, manual submission).                           *)
(*                                                                         *)
(* RunOnce is five separate database operations, so every handler of the   *)
(* web server can come between two of them, and so can a crash.            *)
(*                                                                         *)
(* Times appear only in comparisons.  A cutoff is represented by the set   *)
(* of events that started before it and the ticks since then, last_run by  *)
(* the ticks since then.                                                   *)
(* is_idle is left out: no code of the daemon ever sets it.                *)
(***************************************************************************)
EXTENDS Integers, FiniteSets

CONSTANTS
    Events,      \* ids of the focus events that may be recorded, in order
    Tags,        \* the tags table
    Intervals,   \* the cadences offered, in ticks; 0 is off
    MaxInterval, \* the longest cadence
    MaxManual    \* bound: manual submissions per event

ASSUME EventsAssumption == Events \subseteq Nat \ {0}
ASSUME IntervalsAssumption ==
    /\ MaxInterval \in Nat
    /\ Intervals \subseteq 0 .. MaxInterval
    /\ 0 \in Intervals
ASSUME MaxManualAssumption == MaxManual \in Nat

VARIABLES
    state,        \* focus_events: not recorded yet, open, or ended
    tags,         \* event_tags: the tags of each event
    manual,       \* submissions created by handleSubmit that link the event
    auto,         \* submissions created by auto-submit that link the event
    interval,     \* auto_submit_config.interval_hours
    since_on,     \* ticks since auto_submit_config.enabled_at, or Never (NULL)
    before,       \* the events that started before enabled_at
    since_run,    \* ticks since auto_submit_config.last_run, or Never (NULL)
    ticked,       \* auto_submit_tags
    pc,           \* the scheduler: between runs, or after which query of RunOnce
    cutoff,       \* its copy of enabled_at, as `before`
    ids,          \* the event ids it selected
    run_age       \* ticks since the `now` of the run

eventVars    == <<state, tags>>
linkVars     == <<manual, auto>>
settingsVars == <<interval, since_on, before, since_run, ticked>>
runVars      == <<pc, cutoff, ids, run_age>>
vars         == <<eventVars, linkVars, settingsVars, runVars>>

Never == -1
enabled == since_on # Never
Recorded == {e \in Events : state[e] # "none"}
Submitted(e) == manual[e] + auto[e] > 0

Init ==
    /\ state  = [e \in Events |-> "none"]
    /\ tags   = [e \in Events |-> {}]
    /\ manual = [e \in Events |-> 0]
    /\ auto   = [e \in Events |-> 0]
    /\ interval = 0 /\ since_on = Never /\ before = {} /\ since_run = Never /\ ticked = {}
    /\ pc = "idle" /\ cutoff = {} /\ ids = {} /\ run_age = 0

(***************************************************************************)
(* Focus events and their tags.                                            *)
(***************************************************************************)

\* The recorder closes the open event, stores the next one and tags it by at
\* most one rule.
FocusChange(e) ==
    /\ state[e] = "none" /\ \A f \in Events : f < e => state[f] # "none"
    /\ state' = [f \in Events |-> IF f = e THEN "open"
                                  ELSE IF state[f] = "open" THEN "ended" ELSE state[f]]
    /\ \E t \in {{}} \cup {{t} : t \in Tags} : tags' = [tags EXCEPT ![e] = t]
    /\ UNCHANGED <<linkVars, settingsVars, runVars>>

\* Screen lock or dead-man switch: the open event ends.
CloseLatestOpenFocusEvent(e) ==
    /\ state[e] = "open"
    /\ state' = [state EXCEPT ![e] = "ended"]
    /\ UNCHANGED <<tags, linkVars, settingsVars, runVars>>

\* POST /api/events/{id}/tag adds a tag, whatever the event's state.
handleTagEvent(e, t) ==
    /\ state[e] # "none" /\ t \notin tags[e]
    /\ tags' = [tags EXCEPT ![e] = @ \cup {t}]
    /\ UNCHANGED <<state, linkVars, settingsVars, runVars>>

\* POST /api/submit links whatever events the user selected.
handleSubmit(S) ==
    /\ S # {} /\ S \subseteq Recorded
    /\ \A e \in S : manual[e] < MaxManual
    /\ manual' = [e \in Events |-> IF e \in S THEN manual[e] + 1 ELSE manual[e]]
    /\ UNCHANGED <<eventVars, auto, settingsVars, runVars>>

(***************************************************************************)
(* The settings.                                                           *)
(***************************************************************************)

\* Mutants of Save: turning on keeps a last_run that is there; every save restarts
\* the cycle.
SaveKeepsLastRun(hours, T) ==
    /\ interval' = hours /\ ticked' = T
    /\ since_on' = IF hours = 0 THEN Never ELSE IF enabled THEN since_on ELSE 0
    /\ before' = IF hours = 0 THEN {} ELSE IF enabled THEN before ELSE Recorded
    /\ since_run' = IF hours = 0 THEN Never ELSE IF since_run = Never THEN 0 ELSE since_run
    /\ UNCHANGED <<eventVars, linkVars, runVars>>

SaveRestartsCycle(hours, T) ==
    /\ interval' = hours /\ ticked' = T
    /\ since_on' = IF hours = 0 THEN Never ELSE IF enabled THEN since_on ELSE 0
    /\ before' = IF hours = 0 THEN {} ELSE IF enabled THEN before ELSE Recorded
    /\ since_run' = IF hours = 0 THEN Never ELSE 0
    /\ UNCHANGED <<eventVars, linkVars, runVars>>

\* Save, one transaction.  Timestamps have seconds: the newest event may have
\* started in the second in which auto-submit is turned on.
Save(hours, T) ==
    /\ interval' = hours /\ ticked' = T
    /\ \/ /\ hours = 0
          /\ since_on' = Never /\ before' = {} /\ since_run' = Never
       \/ /\ hours > 0 /\ ~enabled
          /\ \E tie \in {{}} \cup {{e} : e \in Recorded} :
                /\ \A e \in tie, f \in Recorded : f <= e
                /\ before' = Recorded \ tie
          /\ since_on' = 0 /\ since_run' = 0
       \/ /\ hours > 0 /\ enabled
          /\ UNCHANGED <<since_on, before, since_run>>
    /\ UNCHANGED <<eventVars, linkVars, runVars>>

\* Time passes.  Ages matter up to the longest cadence only.
Older(age) == IF age \in 0 .. MaxInterval - 1 THEN age + 1 ELSE age

Tick ==
    /\ since_on' = Older(since_on) /\ since_run' = Older(since_run)
    /\ run_age' = IF pc = "idle" THEN run_age ELSE Older(run_age)
    /\ <<since_on, since_run, run_age>>' # <<since_on, since_run, run_age>>
    /\ UNCHANGED <<eventVars, linkVars, interval, before, ticked, pc, cutoff, ids>>

(***************************************************************************)
(* RunOnce.                                                                *)
(***************************************************************************)

\* Settings.NextRun has not come yet.
NotYetDue == since_run # Never /\ since_run < interval

EndRun == pc' = "idle" /\ cutoff' = {} /\ ids' = {} /\ run_age' = 0

\* The first query of Load, and the early returns of RunOnce that depend on it.
Load ==
    /\ pc = "idle"
    /\ enabled /\ interval > 0 /\ ~NotYetDue
    /\ pc' = "config" /\ cutoff' = before /\ run_age' = 0
    /\ UNCHANGED <<eventVars, linkVars, settingsVars, ids>>

\* The second one: without a ticked tag RunOnce returns.
LoadTags ==
    /\ pc = "config"
    /\ \/ ticked = {} /\ EndRun
       \/ ticked # {} /\ pc' = "loaded" /\ UNCHANGED <<cutoff, ids, run_age>>
    /\ UNCHANGED <<eventVars, linkVars, settingsVars>>

\* Mutants of Eligible: without the test of the links, of ended_at.
EligibleAgain(e) == state[e] = "ended" /\ tags[e] \cap ticked # {} /\ e \notin cutoff
EligibleOpen(e)  == tags[e] \cap ticked # {} /\ e \notin cutoff /\ ~Submitted(e)

\* The query of eligibleEvents: tags and links are read now, the cutoff is the
\* one Load returned.
Eligible(e) ==
    /\ state[e] = "ended"
    /\ tags[e] \cap ticked # {}
    /\ e \notin cutoff
    /\ ~Submitted(e)

eligibleEvents ==
    /\ pc = "loaded"
    /\ ids' = {e \in Events : Eligible(e)}
    /\ pc' = IF ids' = {} THEN "record" ELSE "create"
    /\ UNCHANGED <<eventVars, linkVars, settingsVars, cutoff, run_age>>

\* CreateSubmission links the selected events in one transaction.
CreateSubmission ==
    /\ pc = "create"
    /\ auto' = [e \in Events |-> IF e \in ids THEN auto[e] + 1 ELSE auto[e]]
    /\ pc' = "record"
    /\ UNCHANGED <<eventVars, manual, settingsVars, cutoff, ids, run_age>>

\* The UPDATE of last_run, with the time at which the run began.
RecordRun ==
    /\ pc = "record"
    /\ since_run' = run_age
    /\ EndRun
    /\ UNCHANGED <<eventVars, linkVars, interval, since_on, before, ticked>>

\* A query fails and RunOnce returns its error, or the daemon dies.
AbortRun ==
    /\ pc # "idle"
    /\ EndRun
    /\ UNCHANGED <<eventVars, linkVars, settingsVars>>

-----------------------------------------------------------------------------

RunOnce == Load \/ LoadTags \/ eligibleEvents \/ CreateSubmission \/ RecordRun \/ AbortRun

Next ==
    \/ \E e \in Events : FocusChange(e) \/ CloseLatestOpenFocusEvent(e)
    \/ \E e \in Events, t \in Tags : handleTagEvent(e, t)
    \/ \E S \in SUBSET Events : handleSubmit(S)
    \/ \E hours \in Intervals, T \in SUBSET Tags : Save(hours, T)
    \/ RunOnce
    \/ Tick

\* The ticker of Run fires every minute, and database operations do not fail
\* every single time.
Fairness ==
    /\ WF_vars(Tick) /\ WF_vars(Load)
    /\ SF_vars(LoadTags) /\ SF_vars(eligibleEvents) /\ SF_vars(CreateSubmission) /\ SF_vars(RecordRun)

Spec == Init /\ [][Next]_vars
FairSpec == Spec /\ Fairness

-----------------------------------------------------------------------------

TypeOK ==
    /\ state \in [Events -> {"none", "open", "ended"}]
    /\ tags \in [Events -> SUBSET Tags]
    /\ manual \in [Events -> 0 .. MaxManual]
    /\ auto \in [Events -> Nat]
    /\ interval \in Intervals /\ before \subseteq Events /\ ticked \subseteq Tags
    /\ since_on \in Never .. MaxInterval /\ since_run \in Never .. MaxInterval
    /\ pc \in {"idle", "config", "loaded", "create", "record"}
    /\ cutoff \subseteq Events /\ ids \subseteq Events /\ run_age \in 0 .. MaxInterval

\* Auto-submit never submits an event twice, even when the daemon dies after
\* CreateSubmission and before the run is recorded: the links themselves, not
\* last_run, keep the next pass from selecting the events again.
AutoNeverRepeats == \A e \in Events : auto[e] <= 1

\* The stored last run belongs to the stored cycle: there is none while auto-submit
\* is off, and none before the cutoff while it is on.
InCycle == IF enabled THEN since_run \in 0 .. since_on ELSE since_run = Never

\* The first run comes one interval after auto-submit is turned on, never at once:
\* turning it off or on puts last_run right again whatever was stored, and only a run
\* that began before the change, and records itself after it, puts it wrong.
LastRunInCycle ==
    [][/\ InCycle => InCycle' \/ (RecordRun /\ (enabled => run_age > since_on))
       /\ enabled' # enabled => InCycle']_vars

\* Only tagged, finished events are auto-submitted: what eligibleEvents read
\* still holds when CreateSubmission links the events.
OnlyFinishedTagged ==
    [][\A e \in Events : auto'[e] > auto[e] => state[e] = "ended" /\ tags[e] # {}]_vars

\* A finished event on a ticked tag is eventually submitted, if from some time
\* on auto-submit stays enabled with that tag and the event after the cutoff.
EventuallySubmitted ==
    \A e \in Events, t \in Tags :
        <>[](/\ enabled /\ t \in ticked /\ e \notin before
             /\ state[e] = "ended" /\ t \in tags[e])
        => <>Submitted(e)

(***************************************************************************)
(* What a comment says, and the code does not do.                          *)
(***************************************************************************)

\* autosubmit.go: "submit every tagged, finished, not-yet-submitted focus
\* event": no event that is part of a submission is auto-submitted.
AutoOnlyUnsubmitted ==
    [][\A e \in Events : auto'[e] > auto[e] => ~Submitted(e)]_vars
=============================================================================
