------------------------------ MODULE Tagging ------------------------------
(***************************************************************************)
(* Tag rules, automatic and manual tags, and what the tags make of a       *)
(* submission.  The recorder hands every event to the tagger, which works  *)
(* on the rule list it read when the daemon started; the dashboard edits   *)
(* the table of rules and tags events at the same time; the queue reads    *)
(* the tags of a submission again for every attempt to post it.            *)
(*                                                                         *)
(* One application stands for all of them: a rule for another one matches  *)
(* nothing here.  A title is the set of its significant words, a title     *)
(* pattern one word.  Rule ids are rowids: the largest one is used again   *)
(* after its rule is deleted.                                              *)
(*                                                                         *)
(* ObserveManualTag is offered by package tagger and driven by its tests;  *)
(* no handler of the daemon calls it yet.                                  *)
(***************************************************************************)
EXTENDS Integers, FiniteSets, FiniteSetsExt

CONSTANTS
    N,            \* events, recorded in the order 1 .. N
    WordsOf,      \* WordsOf[e]: the significant words of its window title
    Start, Length, \* Start[e], Length[e]: when it starts, and its duration
    Tags, Untagged,
    Words, AnyTitle,
    Priorities,
    Threshold,    \* observations that make the learner propose a rule
    None,
    MaxRuleId,    \* bound: ids of rules
    MaxEdits,     \* bound: edits of rules in the dashboard
    MaxObserved,  \* bound: observations per run of the daemon
    MaxManual,    \* bound: events tagged by hand, counting repetitions
    MaxNotes      \* bound: notes

Events   == 1 .. N
RuleIds  == 1 .. MaxRuleId
Patterns == Words \cup {AnyTitle}
Keys     == Tags \X Patterns

\* A row of tag_rules.  The learner gives priority 0.
RuleBody == [tag : Tags, word : Patterns, prio : Priorities \cup {0},
             suggested : BOOLEAN, hits : Nat]

ASSUME TaggingAssumption ==
    /\ {N, MaxRuleId, MaxEdits, MaxObserved, MaxManual, MaxNotes} \subseteq Nat
    /\ WordsOf \in [Events -> SUBSET Words]
    /\ Start \in [Events -> Nat] /\ Length \in [Events -> Nat]
    /\ \A e \in 1 .. N - 1 : Start[e] + Length[e] <= Start[e + 1]  \* see FocusTracking
    /\ AnyTitle \notin Words /\ Untagged \notin Tags /\ Priorities \subseteq Int
    /\ Threshold \in Nat \ {0}
    /\ None \notin RuleBody /\ None \notin Keys /\ None \notin {"manual", "auto_rule"}

VARIABLES
    rules,      \* tag_rules
    edits,      \* history: edits in the dashboard
    edited,     \* history: has the table changed since the daemon started?
    up,         \* the daemon runs
    cache,      \* the tagger's rule list, with ids
    work,       \* the event the recorder is tagging, and the rule it found
    counts,     \* the learner's counts
    proposing,  \* patterns ObserveManualTag has yet to propose; it holds the mutex
    checked,    \* the one that has passed the search for similar rules
    proposed,   \* history: patterns proposed since the daemon started
    tagged,     \* history: tags given by hand
    next,       \* the next event to be recorded
    rows,       \* event_tags: rows[e][t] is the source, or None
    notes       \* notes: how many are anchored at each event

ruleVars  == <<rules, edits, edited>>
learner   == <<counts, proposing, checked, proposed>>
eventVars == <<tagged, next, rows, notes>>
vars      == <<ruleVars, up, cache, work, learner, eventVars>>

Idle == [event |-> None, rule |-> None, step |-> "idle"]
IdsInUse == {i \in RuleIds : rules[i] # None}
NextId == IF IdsInUse = {} THEN 1 ELSE Max(IdsInUse) + 1

Init ==
    /\ rules = [i \in RuleIds |-> None] /\ edits = 0 /\ edited = FALSE
    /\ up = FALSE /\ cache = {} /\ work = Idle
    /\ counts = [k \in Keys |-> 0] /\ proposing = {} /\ checked = None /\ proposed = {}
    /\ tagged = 0 /\ next = 1 /\ rows = [e \in Events |-> [t \in Tags |-> None]]
    /\ notes = [e \in Events |-> 0]

(***************************************************************************)
(* The daemon starts and ends.                                             *)
(***************************************************************************)

ListAll == {[id |-> i, body |-> rules[i]] : i \in IdsInUse}

\* The only call of RefreshRules.
NewTagger ==
    /\ ~up /\ up' = TRUE /\ cache' = ListAll
    /\ UNCHANGED <<ruleVars, work, learner, eventVars>>

\* The process ends anywhere, and all it had in memory is gone.
Down ==
    /\ up /\ up' = FALSE
    /\ cache' = {} /\ work' = Idle
    /\ counts' = [k \in Keys |-> 0] /\ proposing' = {} /\ checked' = None
    /\ edited' = FALSE /\ proposed' = {}
    /\ UNCHANGED <<rules, edits, eventVars>>

(***************************************************************************)
(* The recorder and ProcessFocusEvent.                                     *)
(***************************************************************************)

Record ==
    /\ up /\ work.step = "idle" /\ next <= N
    /\ work' = [event |-> next, rule |-> None, step |-> "evaluate"]
    /\ next' = next + 1
    /\ UNCHANGED <<ruleVars, up, cache, learner, tagged, rows, notes>>

matchesRule(e, r) == r.body.word = AnyTitle \/ r.body.word \in WordsOf[e]

Tier(suggested, titled) ==
    {r \in cache : r.body.suggested = suggested /\ (r.body.word # AnyTitle) = titled}

\* The first match of a tier.  The order among equal priorities is SQLite's.
evaluateTier(e, tier) ==
    LET matching == {r \in tier : matchesRule(e, r)}
    IN  {r \in matching : \A q \in matching : q.body.prio <= r.body.prio}

FirstNonEmpty(A, B, C, D) ==
    IF A # {} THEN A ELSE IF B # {} THEN B ELSE IF C # {} THEN C ELSE D

\* Mutant of Evaluate: two tiers change places.
EvaluateAppsFirst(e) ==
    FirstNonEmpty(evaluateTier(e, Tier(FALSE, FALSE)), evaluateTier(e, Tier(FALSE, TRUE)),
                  evaluateTier(e, Tier(TRUE, TRUE)), evaluateTier(e, Tier(TRUE, FALSE)))

\* The rules Evaluate may return.
Evaluate(e) ==
    FirstNonEmpty(evaluateTier(e, Tier(FALSE, TRUE)), evaluateTier(e, Tier(FALSE, FALSE)),
                  evaluateTier(e, Tier(TRUE, TRUE)), evaluateTier(e, Tier(TRUE, FALSE)))

ProcessFocusEvent ==
    /\ work.step = "evaluate"
    /\ \/ Evaluate(work.event) = {} /\ work' = Idle
       \/ \E r \in Evaluate(work.event) : work' = [work EXCEPT !.rule = r, !.step = "apply"]
    /\ UNCHANGED <<ruleVars, up, cache, learner, eventVars>>

\* Mutants of tagApplier: INSERT OR REPLACE; the row of another rule's tag is added
\* as well when the statement has to be repeated.
tagApplierReplaces ==
    /\ work.step = "apply"
    /\ rows' = [rows EXCEPT ![work.event][work.rule.body.tag] = "auto_rule"]
    /\ work' = [work EXCEPT !.step = "count"]
    /\ UNCHANGED <<ruleVars, up, cache, learner, tagged, next, notes>>

tagApplierRepeats ==
    /\ work.step = "apply"
    /\ rows' = [rows EXCEPT ![work.event][work.rule.body.tag] =
                    IF @ = None THEN "auto_rule" ELSE @]
    /\ \/ work' = [work EXCEPT !.step = "count"]
       \/ work' = [work EXCEPT !.step = "evaluate", !.rule = None]
    /\ UNCHANGED <<ruleVars, up, cache, learner, tagged, next, notes>>

\* INSERT OR IGNORE; a failure is only logged.
tagApplier ==
    /\ work.step = "apply"
    /\ \/ /\ rows' = [rows EXCEPT ![work.event][work.rule.body.tag] =
                          IF @ = None THEN "auto_rule" ELSE @]
          /\ work' = [work EXCEPT !.step = "count"]
       \/ work' = Idle /\ UNCHANGED rows
    /\ UNCHANGED <<ruleVars, up, cache, learner, tagged, next, notes>>

\* The UPDATE finds the rule that has the id by now, or none.
IncrementHitCount ==
    /\ work.step = "count" /\ work' = Idle
    /\ \/ /\ work.rule.id \in IdsInUse
          /\ rules' = [rules EXCEPT ![work.rule.id].hits = @ + 1]
       \/ UNCHANGED rules
    /\ UNCHANGED <<edits, edited, up, cache, learner, eventVars>>

(***************************************************************************)
(* The dashboard's handlers for rules.                                     *)
(***************************************************************************)

Edit ==
    /\ up /\ edits < MaxEdits /\ edits' = edits + 1 /\ edited' = TRUE
    /\ UNCHANGED <<up, cache, work, learner, eventVars>>

handleCreateTagRule(t, w, p) ==
    /\ Edit /\ NextId \in RuleIds
    /\ rules' = [rules EXCEPT ![NextId] =
                     [tag |-> t, word |-> w, prio |-> p, suggested |-> FALSE, hits |-> 0]]

\* Priority, suggested and the hit count stay.
handleUpdateTagRule(i, t, w) ==
    /\ Edit /\ i \in IdsInUse
    /\ rules' = [rules EXCEPT ![i].tag = t, ![i].word = w]

handleDeleteTagRule(i) ==
    /\ Edit /\ i \in IdsInUse
    /\ rules' = [rules EXCEPT ![i] = None]

handleAcceptTagRule(i) ==
    /\ Edit /\ i \in IdsInUse /\ rules[i].suggested
    /\ rules' = [rules EXCEPT ![i].suggested = FALSE]

(***************************************************************************)
(* The learner.                                                            *)
(***************************************************************************)

\* The patterns an observation of e with tag t counts for.
KeysOf(e, t) == {t} \X (WordsOf[e] \cup {AnyTitle})

\* How often an event of this application has been observed.
Observed == MapThenSumSet(LAMBDA u : counts[<<u, AnyTitle>>], Tags)

\* Mutant of ObserveManualTag: a pattern is proposed from the threshold on.
ObserveManualTagOften(e, t) ==
    /\ up /\ e < next /\ rows[e][t] = "manual"
    /\ proposing = {} /\ checked = None /\ Observed < MaxObserved
    /\ counts' = [k \in Keys |-> IF k \in KeysOf(e, t) THEN counts[k] + 1 ELSE counts[k]]
    /\ proposing' = {k \in KeysOf(e, t) : counts'[k] >= Threshold}
    /\ UNCHANGED <<ruleVars, up, cache, work, checked, proposed, eventVars>>

\* A pattern is due exactly when its count reaches the threshold.
ObserveManualTag(e, t) ==
    /\ up /\ e < next /\ rows[e][t] = "manual"
    /\ proposing = {} /\ checked = None /\ Observed < MaxObserved
    /\ counts' = [k \in Keys |-> IF k \in KeysOf(e, t) THEN counts[k] + 1 ELSE counts[k]]
    /\ proposing' = {k \in KeysOf(e, t) : counts'[k] = Threshold}
    /\ UNCHANGED <<ruleVars, up, cache, work, checked, proposed, eventVars>>

\* Any title pattern contains the empty string, which is what the pattern of the
\* application alone is compared as.
Similar(r, k) ==
    r.tag = k[1] /\ (r.word = k[2] \/ k[2] = AnyTitle)

\* proposeSuggestion reads the rules, title patterns first...
FindSimilar(k) ==
    /\ checked = None /\ k \in proposing
    /\ k[2] = AnyTitle => proposing = {k}
    /\ proposing' = proposing \ {k}
    /\ checked' = IF \E i \in IdsInUse : Similar(rules[i], k) THEN None ELSE k
    /\ UNCHANGED <<ruleVars, up, cache, work, counts, proposed, eventVars>>

\* ... and inserts one in a second statement, which may fail and is not tried again.
\* The tagger's list does not get the new rule either.
CreateSuggested ==
    /\ checked # None /\ checked' = None
    /\ \/ /\ NextId \in RuleIds /\ edited' = TRUE /\ proposed' = proposed \cup {checked}
          /\ rules' = [rules EXCEPT ![NextId] =
                           [tag |-> checked[1], word |-> checked[2], prio |-> 0,
                            suggested |-> TRUE, hits |-> 0]]
       \/ UNCHANGED <<rules, edited, proposed>>
    /\ UNCHANGED <<edits, up, cache, work, counts, proposing, eventVars>>

(***************************************************************************)
(* Manual tags and notes, and what a submission of some events consists of. *)
(***************************************************************************)

\* INSERT OR REPLACE: a row of this tag becomes manual, rows of other tags stay.
handleTagEvent(e, t) ==
    /\ up /\ e < next /\ tagged < MaxManual /\ tagged' = tagged + 1
    /\ rows' = [rows EXCEPT ![e][t] = "manual"]
    /\ UNCHANGED <<ruleVars, up, cache, work, learner, next, notes>>

AllNotes == MapThenSumSet(LAMBDA f : notes[f], Events)

handleAddNote(e) ==
    /\ up /\ e < next /\ AllNotes < MaxNotes
    /\ notes' = [notes EXCEPT ![e] = @ + 1]
    /\ UNCHANGED <<ruleVars, up, cache, work, learner, tagged, next, rows>>

TagsOf(e) == {t \in Tags : rows[e][t] # None}

\* The query of an attempt joins tags and notes: an event yields a row for each pair
\* of a tag and a note it has.
loadSubmissionEntries(S) ==
    UNION {{[event |-> e, tag |-> t, note |-> n] :
                t \in IF TagsOf(e) = {} THEN {Untagged} ELSE TagsOf(e),
                n \in 1 .. IF notes[e] = 0 THEN 1 ELSE notes[e]} : e \in S}

\* Mutant of mergeTimesheetEntries: the duration of an entry is its span.
mergeBySpan(tag, group) ==
    LET first == Min({r.event : r \in group})
        last  == Max({r.event : r \in group})
    IN  [tag |-> tag, began |-> Start[first], ended |-> Start[last] + Length[last],
         duration |-> Start[last] + Length[last] - Start[first]]

\* Start of the first row, end of the last one, durations added up.
mergeTimesheetEntries(tag, group) ==
    LET first == Min({r.event : r \in group})
        last  == Max({r.event : r \in group})
    IN  [tag |-> tag, began |-> Start[first], ended |-> Start[last] + Length[last],
         duration |-> MapThenSumSet(LAMBDA r : Length[r.event], group)]

\* What an attempt to post the submission of the events S posts.
Aggregate(S) ==
    LET all == loadSubmissionEntries(S)
    IN  {mergeTimesheetEntries(t, {r \in all : r.tag = t}) : t \in {r.tag : r \in all}}

-----------------------------------------------------------------------------

Dashboard ==
    \/ \E t \in Tags, w \in Patterns, p \in Priorities : handleCreateTagRule(t, w, p)
    \/ \E i \in RuleIds, t \in Tags, w \in Patterns : handleUpdateTagRule(i, t, w)
    \/ \E i \in RuleIds : handleDeleteTagRule(i) \/ handleAcceptTagRule(i)
    \/ \E e \in Events, t \in Tags : handleTagEvent(e, t)
    \/ \E e \in Events : handleAddNote(e)

Learner ==
    \/ \E e \in Events, t \in Tags : ObserveManualTag(e, t)
    \/ \E k \in Keys : FindSimilar(k)
    \/ CreateSuggested

Next ==
    \/ NewTagger \/ Down
    \/ Record \/ ProcessFocusEvent \/ tagApplier \/ IncrementHitCount
    \/ Dashboard
    \/ Learner

Spec == Init /\ [][Next]_vars

-----------------------------------------------------------------------------

Rule == [id : RuleIds, body : RuleBody]

TypeOK ==
    /\ rules \in [RuleIds -> RuleBody \cup {None}]
    /\ edits \in 0 .. MaxEdits /\ {edited, up} \subseteq BOOLEAN
    /\ cache \subseteq Rule
    /\ \/ work = Idle
       \/ work \in [event : Events, rule : {None}, step : {"evaluate"}]
       \/ work \in [event : Events, rule : Rule, step : {"apply", "count"}]
    /\ counts \in [Keys -> Nat]
    /\ proposing \subseteq Keys /\ checked \in Keys \cup {None} /\ proposed \subseteq Keys
    /\ tagged \in 0 .. MaxManual /\ next \in 1 .. N + 1
    /\ rows \in [Events -> [Tags -> {"manual", "auto_rule", None}]]
    /\ notes \in [Events -> Nat]

\* A tag the user has given stays a manual tag, also when the recorder applies the
\* same tag by a rule it had found before.
ManualStays ==
    [][\A e \in Events, t \in Tags :
           rows[e][t] = "manual" => rows'[e][t] = "manual"]_vars

\* No event ever has two tags by rules, although rules with different tags match it,
\* the table changes meanwhile and the daemon restarts.
OneAutoTag ==
    \A e \in Events : Cardinality({t \in Tags : rows[e][t] = "auto_rule"}) <= 1

\* Is q, confirmed before suggested and titled before untitled, ahead of r?
Precedes(q, r) ==
    \/ ~q.suggested /\ r.suggested
    \/ q.suggested = r.suggested /\ q.word # AnyTitle /\ r.word = AnyTitle
    \/ q.suggested = r.suggested /\ (q.word = AnyTitle) = (r.word = AnyTitle) /\ q.prio > r.prio

\* As long as the rules have not changed since the daemon started, an event gets the
\* tag of a rule of the table that matches it and that no other one precedes: what
\* was edited before the last start holds, and what was deleted is forgotten.
TableDecides ==
    [][\A e \in Events, t \in Tags :
           rows[e][t] = None /\ rows'[e][t] = "auto_rule" /\ ~edited =>
               LET matching == {i \in IdsInUse : rules[i].word \in WordsOf[e] \cup {AnyTitle}}
               IN  \E i \in matching : /\ rules[i].tag = t
                                       /\ \A j \in matching : ~Precedes(rules[j], rules[i])]_vars

\* A pattern is proposed once in a run of the daemon: a suggestion the user deleted
\* does not come back with the next observation.
ProposedOnce ==
    [][\A i \in RuleIds :
           rules[i] = None /\ checked # None /\ rules'[i] # None /\ rules'[i].suggested =>
               checked \notin proposed]_vars

\* If no event of a submission has two tags or two notes, its entries add up to the
\* time of its events, no entry is longer than its span, and no two have the same tag.
PostedTime ==
    \A S \in SUBSET (1 .. next - 1) :
        (\A e \in S : Cardinality(TagsOf(e)) <= 1 /\ notes[e] <= 1) =>
            /\ MapThenSumSet(LAMBDA a : a.duration, Aggregate(S)) =
                   MapThenSumSet(LAMBDA e : Length[e], S)
            /\ \A a, b \in Aggregate(S) : /\ a.duration <= a.ended - a.began
                                          /\ a.tag = b.tag => a = b
=============================================================================
