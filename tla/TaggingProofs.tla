--------------------------- MODULE TaggingProofs ---------------------------
(***************************************************************************)
(* Proofs about Tagging, for any number of events, rules, tags and words,  *)
(* any priorities, any threshold and any bounds.                           *)
(***************************************************************************)
EXTENDS Tagging, FiniteSetTheorems, WellFoundedInduction, TLAPS

\* Rules stop changing their meaning once the daemon starts, as long as nobody
\* edits them: the tagger's list and the table differ in the hit counts only.
SameRule(a, b) ==
    a.tag = b.tag /\ a.word = b.word /\ a.prio = b.prio /\ a.suggested = b.suggested

CacheCurrent ==
    up /\ ~edited =>
        /\ \A r \in cache : r.id \in IdsInUse /\ SameRule(r.body, rules[r.id])
        /\ \A i \in IdsInUse : \E r \in cache : r.id = i

\* The recorder works on an event while the daemon runs, and with a rule that the
\* tagger's list, which does not change meanwhile, gives for it.
WorkInProgress ==
    /\ ~up => work = Idle
    /\ work.step # "idle" => work.event < next
    /\ work.step = "apply" => work.rule \in Evaluate(work.event)

\* An event that is not recorded yet has no tag, one that is not tagged yet has
\* none by a rule, and nothing adds a second one.
AutoTagged(e) == {t \in Tags : rows[e][t] = "auto_rule"}
TaggedOnce ==
    /\ \A e \in Events : e >= next => \A t \in Tags : rows[e][t] = None
    /\ work.step \in {"evaluate", "apply"} => AutoTagged(work.event) = {}
    /\ \A e \in Events : \A t, u \in AutoTagged(e) : t = u

\* A pattern on its way through proposeSuggestion has been counted often enough,
\* and is in one place.
Due(k) == counts[k] >= Threshold
Proposals ==
    /\ \A k \in proposed : Due(k)
    /\ \A k \in proposing : Due(k) /\ k \notin proposed
    /\ checked # None => Due(checked) /\ checked \notin proposed \cup proposing

\* Tags are given one at a time, so that an event has finitely many of them.
FewTags == \A e \in Events : IsFiniteSet(TagsOf(e))

TaggingInv ==
    /\ TypeOK /\ IsFiniteSet(cache)
    /\ CacheCurrent /\ WorkInProgress /\ TaggedOnce /\ Proposals /\ FewTags

(***************************************************************************)
(* What the four tiers of Evaluate come to.                                *)
(***************************************************************************)

\* A finite set of rules that is not empty has one of greatest priority.
LEMMA GreatestPriority ==
    ASSUME NEW S, IsFiniteSet(S), S # {}, \A r \in S : r.body.prio \in Int
    PROVE  \E r \in S : \A q \in S : q.body.prio <= r.body.prio
  <1> DEFINE Above(r) == {q \in S : q.body.prio > r.body.prio}
             Heights == {Cardinality(Above(r)) : r \in S}
  <1>1. ASSUME NEW r \in S PROVE IsFiniteSet(Above(r)) /\ Cardinality(Above(r)) \in Nat
    <2>1. Above(r) \in SUBSET S
      OBVIOUS
    <2> HIDE DEF Above
    <2> QED
      BY <2>1, FS_Subset, FS_CardinalityType
  <1>2. Heights \in SUBSET Nat /\ Heights # {}
    <2> HIDE DEF Above
    <2> QED
      BY <1>1
  <1>3. PICK n \in Heights : \A m \in Heights : ~ (<<m, n>> \in OpToRel(<, Nat))
    <2> HIDE DEF Heights
    <2> QED
      BY <1>2, NatLessThanWellFounded, WFMin, Zenon
  <1>4. PICK r \in S : n = Cardinality(Above(r))
    OBVIOUS
  <1>5. ASSUME NEW q \in S, q.body.prio > r.body.prio PROVE FALSE
    <2>1. Above(q) \in SUBSET Above(r) /\ q \in Above(r) /\ q \notin Above(q)
      BY <1>5
    <2>2. Cardinality(Above(q)) < Cardinality(Above(r))
      <3> HIDE DEF Above
      <3>1. Cardinality(Above(q)) <= Cardinality(Above(r))
        BY <1>1, <2>1, FS_Subset
      <3>2. Cardinality(Above(q)) # Cardinality(Above(r))
        BY <1>1, <2>1, FS_Subset
      <3> QED
        BY <1>1, <3>1, <3>2
    <2>3. Cardinality(Above(q)) \in Heights /\ Cardinality(Above(q)) \in Nat /\ n \in Nat
      BY <1>1, <1>2
    <2> QED
      BY <1>3, <1>4, <2>2, <2>3 DEF OpToRel
  <1> QED
    BY <1>5

\* What the types say of a rule in the tagger's list.
LEMMA RuleTypes ==
    ASSUME NEW r \in Rule
    PROVE  /\ r.id \in RuleIds /\ r.body \in RuleBody
           /\ r.body.prio \in Int /\ r.body.suggested \in BOOLEAN
           /\ r.body.tag \in Tags /\ r.body.word \in Patterns
  <1>1. r.id \in RuleIds /\ r.body \in RuleBody
    BY DEF Rule
  <1>2. r.body.suggested \in BOOLEAN
    BY <1>1, Zenon DEF RuleBody
  <1>3. Priorities \cup {0} \subseteq Int
    BY TaggingAssumption
  <1> QED
    BY <1>1, <1>2, <1>3 DEF RuleBody

\* A tier yields nothing only if none of its rules matches.
LEMMA TierMatches ==
    ASSUME TypeOK, IsFiniteSet(cache), NEW e \in Events, NEW tier \in SUBSET cache,
           evaluateTier(e, tier) = {}
    PROVE  \A r \in tier : ~ matchesRule(e, r)
  <1> DEFINE matching == {r \in tier : matchesRule(e, r)}
  <1>0. matching \in SUBSET cache
    OBVIOUS
  <1>1. matching \in SUBSET cache /\ \A r \in matching : r.body.prio \in Int
    BY <1>0, RuleTypes DEF TypeOK
  <1>2. IsFiniteSet(matching)
    BY <1>1, FS_Subset
  <1>3. matching = {}
    <2> SUFFICES ASSUME matching # {} PROVE FALSE
      OBVIOUS
    <2>1. \E r \in matching : \A q \in matching : q.body.prio <= r.body.prio
      <3> HIDE DEF matching
      <3> QED
        BY <1>1, <1>2, GreatestPriority
    <2> QED
      BY <2>1 DEF evaluateTier
  <1> QED
    BY <1>3

\* Evaluate gives a rule that matches and that no matching one precedes.
LEMMA EvaluateDecides ==
    ASSUME TypeOK, IsFiniteSet(cache), NEW e \in Events, NEW r \in Evaluate(e)
    PROVE  /\ r \in cache /\ matchesRule(e, r)
           /\ \A q \in cache : matchesRule(e, q) => ~ Precedes(q.body, r.body)
  <1> DEFINE A == Tier(FALSE, TRUE)   B == Tier(FALSE, FALSE)
             C == Tier(TRUE, TRUE)    D == Tier(TRUE, FALSE)
  <1>1. /\ A \in SUBSET cache /\ B \in SUBSET cache
        /\ C \in SUBSET cache /\ D \in SUBSET cache
    BY DEF Tier
  <1>2. \A q \in cache : q.body.prio \in Int /\ q.body.suggested \in BOOLEAN
    BY RuleTypes DEF TypeOK
  <1>3. \A q \in cache : q \in A \cup B \cup C \cup D
    BY <1>2 DEF Tier
  <1>4. \/ r \in evaluateTier(e, A)
        \/ r \in evaluateTier(e, B) /\ evaluateTier(e, A) = {}
        \/ r \in evaluateTier(e, C) /\ evaluateTier(e, A) = {} /\ evaluateTier(e, B) = {}
        \/ /\ r \in evaluateTier(e, D)
           /\ evaluateTier(e, A) = {} /\ evaluateTier(e, B) = {} /\ evaluateTier(e, C) = {}
    BY DEF Evaluate, FirstNonEmpty
  <1>5. /\ evaluateTier(e, A) = {} => \A q \in A : ~ matchesRule(e, q)
        /\ evaluateTier(e, B) = {} => \A q \in B : ~ matchesRule(e, q)
        /\ evaluateTier(e, C) = {} => \A q \in C : ~ matchesRule(e, q)
    BY <1>1, TierMatches
  <1>6. r \in cache /\ matchesRule(e, r)
    BY <1>1, <1>4 DEF evaluateTier
  <1>7. ASSUME NEW q \in cache, matchesRule(e, q), Precedes(q.body, r.body) PROVE FALSE
    <2>1. CASE r \in evaluateTier(e, A)
      BY <1>2, <1>7, <2>1 DEF evaluateTier, Tier, Precedes
    <2>2. CASE r \in evaluateTier(e, B) /\ evaluateTier(e, A) = {}
      BY <1>2, <1>3, <1>5, <1>7, <2>2 DEF evaluateTier, Tier, Precedes
    <2>3. CASE r \in evaluateTier(e, C) /\ evaluateTier(e, A) = {} /\ evaluateTier(e, B) = {}
      BY <1>2, <1>3, <1>5, <1>7, <2>3 DEF evaluateTier, Tier, Precedes
    <2>4. CASE /\ r \in evaluateTier(e, D)
               /\ evaluateTier(e, A) = {} /\ evaluateTier(e, B) = {} /\ evaluateTier(e, C) = {}
      BY <1>2, <1>3, <1>5, <1>7, <2>4 DEF evaluateTier, Tier, Precedes
    <2> QED
      BY <1>4, <2>1, <2>2, <2>3, <2>4
  <1> QED
    BY <1>6, <1>7

(***************************************************************************)
(* The invariant.                                                          *)
(***************************************************************************)

LEMMA InitTagging == Init => TaggingInv
  <1> SUFFICES ASSUME Init PROVE TaggingInv
    OBVIOUS
  <1>1. {edited, up} \subseteq BOOLEAN /\ ~up
    BY Zenon DEF Init
  <1>2. TypeOK
    BY <1>1, TaggingAssumption DEF Init, TypeOK
  <1>3. IsFiniteSet(cache)
    BY FS_EmptySet DEF Init
  <1>4. CacheCurrent /\ WorkInProgress
    BY <1>1 DEF Init, CacheCurrent, WorkInProgress, Idle
  <1>5. TaggedOnce
    BY TaggingAssumption DEF Init, TaggedOnce, AutoTagged, Idle
  <1>6. Proposals
    BY DEF Init, Proposals
  <1>7. FewTags
    <2>1. \A e \in Events : TagsOf(e) = {}
      BY DEF Init, TagsOf
    <2> QED
      BY <2>1, FS_EmptySet DEF FewTags
  <1> QED
    BY <1>2, <1>3, <1>4, <1>5, <1>6, <1>7 DEF TaggingInv

\* The list of the tagger at the start of the daemon.
LEMMA ListAllTypes ==
    ASSUME TypeOK
    PROVE  ListAll \subseteq Rule /\ IsFiniteSet(ListAll)
  <1>1. ASSUME NEW i \in IdsInUse PROVE i \in RuleIds /\ rules[i] \in RuleBody
    BY DEF IdsInUse, TypeOK
  <1>2. ListAll \subseteq Rule
    BY <1>1 DEF ListAll, Rule
  <1>3. IsFiniteSet(IdsInUse)
    <2>1. IsFiniteSet(RuleIds)
      BY TaggingAssumption, FS_Interval DEF RuleIds
    <2> QED
      BY <2>1, FS_Subset DEF IdsInUse
  <1> DEFINE f == [i \in IdsInUse |-> [id |-> i, body |-> rules[i]]]
  <1>4. f \in Surjection(IdsInUse, ListAll)
    BY DEF Surjection, ListAll
  <1> QED
    BY <1>2, <1>3, <1>4, FS_Surjection

\* Every step keeps the types.
LEMMA TaggingTypes == ASSUME TypeOK, [Next]_vars PROVE TypeOK'
  <1> USE DEF TypeOK
  <1> DEFINE Bodies == RuleBody \cup {None}
  <1>1. CASE NewTagger
    <2>1. {edited', up'} \subseteq BOOLEAN
      BY <1>1, Zenon DEF NewTagger, ruleVars
    <2> QED
      BY <1>1, <2>1, ListAllTypes DEF NewTagger, ruleVars, learner, eventVars
  <1>2. CASE Down
    <2>1. {edited', up'} \subseteq BOOLEAN
      BY <1>2, Zenon DEF Down
    <2> QED
      BY <1>2, <2>1 DEF Down, eventVars
  <1>3. CASE Record
    <2>1. next \in Events /\ next' \in 1 .. N + 1
      BY <1>3, TaggingAssumption DEF Record, Events
    <2> QED
      BY <1>3, <2>1 DEF Record, ruleVars, learner
  <1>4. CASE ProcessFocusEvent
    <2>1. \/ work' = Idle
          \/ work' \in [event : Events, rule : Rule, step : {"apply", "count"}]
      <3>1. CASE work' = Idle
        BY <3>1
      <3>2. ASSUME NEW r \in Evaluate(work.event),
                   work' = [work EXCEPT !.rule = r, !.step = "apply"]
            PROVE  work' \in [event : Events, rule : Rule, step : {"apply", "count"}]
        <4>1. r \in Rule
          BY DEF Evaluate, FirstNonEmpty, evaluateTier, Tier
        <4>2. work \in [event : Events, rule : {None}, step : {"evaluate"}]
          <5>1. work.step = "evaluate"
            BY <1>4 DEF ProcessFocusEvent
          <5>2. work # Idle /\ work \notin [event : Events, rule : Rule, step : {"apply", "count"}]
            BY <5>1 DEF Idle
          <5> QED
            BY <5>2
        <4> QED
          BY <3>2, <4>1, <4>2
      <3> QED
        BY <1>4, <3>1, <3>2 DEF ProcessFocusEvent
    <2> QED
      BY <1>4, <2>1 DEF ProcessFocusEvent, ruleVars, learner, eventVars
  <1>5. CASE tagApplier
    <2>1. work \in [event : Events, rule : Rule, step : {"apply", "count"}]
      BY <1>5 DEF tagApplier, Idle
    <2>2. work.rule.body.tag \in Tags /\ work.event \in Events
      BY <2>1, RuleTypes
    <2>3. rows' \in [Events -> [Tags -> {"manual", "auto_rule", None}]]
      BY <1>5, <2>2 DEF tagApplier
    <2>4. \/ work' = Idle
          \/ work' \in [event : Events, rule : Rule, step : {"apply", "count"}]
      BY <1>5, <2>1 DEF tagApplier
    <2> QED
      BY <1>5, <2>3, <2>4 DEF tagApplier, ruleVars, learner
  <1>6. CASE IncrementHitCount
    <2>1. rules' \in [RuleIds -> Bodies]
      <3>1. ASSUME NEW i \in IdsInUse, rules' = [rules EXCEPT ![i].hits = @ + 1]
            PROVE  rules' \in [RuleIds -> Bodies]
        <4>1. i \in RuleIds /\ rules[i] \in RuleBody
          BY DEF IdsInUse
        <4>2. [rules[i] EXCEPT !.hits = @ + 1] \in RuleBody
          BY <4>1 DEF RuleBody
        <4> QED
          BY <3>1, <4>1, <4>2
      <3> QED
        BY <1>6, <3>1 DEF IncrementHitCount
    <2> QED
      BY <1>6, <2>1 DEF IncrementHitCount, learner, eventVars
  <1>7. ASSUME Edit, rules' \in [RuleIds -> Bodies] PROVE TypeOK'
    <2>1. {edited', up'} \subseteq BOOLEAN
      BY <1>7, Zenon DEF Edit
    <2>2. edits' \in 0 .. MaxEdits
      BY <1>7, TaggingAssumption DEF Edit
    <2> QED
      BY <1>7, <2>1, <2>2 DEF Edit, learner, eventVars
  <1>8. ASSUME NEW t \in Tags, NEW w \in Patterns, NEW p \in Priorities,
               handleCreateTagRule(t, w, p)
        PROVE  TypeOK'
    <2>1. [tag |-> t, word |-> w, prio |-> p, suggested |-> FALSE, hits |-> 0] \in RuleBody
      BY DEF RuleBody
    <2>2. rules' \in [RuleIds -> Bodies]
      BY <1>8, <2>1 DEF handleCreateTagRule
    <2> QED
      BY <1>7, <1>8, <2>2 DEF handleCreateTagRule
  <1>9. ASSUME NEW i \in IdsInUse
        PROVE  /\ [rules EXCEPT ![i] = None] \in [RuleIds -> Bodies]
               /\ [rules EXCEPT ![i].suggested = FALSE] \in [RuleIds -> Bodies]
    <2>1. i \in RuleIds /\ rules[i] \in RuleBody
      BY DEF IdsInUse
    <2>2. [rules[i] EXCEPT !.suggested = FALSE] \in RuleBody
      BY <2>1 DEF RuleBody
    <2> QED
      BY <2>1, <2>2
  <1>10. ASSUME NEW i \in RuleIds, handleDeleteTagRule(i) \/ handleAcceptTagRule(i)
         PROVE  TypeOK'
    <2>1. rules' \in [RuleIds -> Bodies]
      <3>1. CASE handleDeleteTagRule(i)
        BY <1>9, <3>1 DEF handleDeleteTagRule
      <3>2. CASE handleAcceptTagRule(i)
        BY <1>9, <3>2 DEF handleAcceptTagRule
      <3> QED
        BY <1>10, <3>1, <3>2
    <2> QED
      BY <1>7, <1>10, <2>1 DEF handleDeleteTagRule, handleAcceptTagRule
  <1>11. ASSUME NEW i \in RuleIds, NEW t \in Tags, NEW w \in Patterns,
                handleUpdateTagRule(i, t, w)
         PROVE  TypeOK'
    <2>1. rules' \in [RuleIds -> Bodies]
      <3>1. i \in RuleIds /\ rules[i] \in RuleBody
        BY <1>11 DEF handleUpdateTagRule, IdsInUse
      <3>2. [rules[i] EXCEPT !.tag = t, !.word = w] \in RuleBody
        BY <3>1 DEF RuleBody
      <3>3. rules' = [rules EXCEPT ![i] = [rules[i] EXCEPT !.tag = t, !.word = w]]
        BY <1>11, <3>1 DEF handleUpdateTagRule
      <3> QED
        BY <3>1, <3>2, <3>3
    <2> QED
      BY <1>7, <1>11, <2>1 DEF handleUpdateTagRule
  <1>12. ASSUME NEW e \in Events, NEW t \in Tags, handleTagEvent(e, t) PROVE TypeOK'
    BY <1>12, TaggingAssumption DEF handleTagEvent, ruleVars, learner
  <1>13. ASSUME NEW e \in Events, handleAddNote(e) PROVE TypeOK'
    BY <1>13 DEF handleAddNote, ruleVars, learner
  <1>14. ASSUME NEW e \in Events, NEW t \in Tags, ObserveManualTag(e, t) PROVE TypeOK'
    <2>1. KeysOf(e, t) \subseteq Keys
      BY TaggingAssumption DEF KeysOf, Keys, Patterns
    <2>2. counts' \in [Keys -> Nat] /\ proposing' \subseteq Keys
      BY <1>14, <2>1 DEF ObserveManualTag
    <2> QED
      BY <1>14, <2>2 DEF ObserveManualTag, ruleVars, eventVars
  <1>15. ASSUME NEW k \in Keys, FindSimilar(k) PROVE TypeOK'
    BY <1>15 DEF FindSimilar, ruleVars, eventVars
  <1>16. CASE CreateSuggested
    <2>1. checked \in Keys
      BY <1>16 DEF CreateSuggested
    <2>2. [tag |-> checked[1], word |-> checked[2], prio |-> 0, suggested |-> TRUE, hits |-> 0]
              \in RuleBody
      BY <2>1 DEF RuleBody, Keys
    <2>3. rules' \in [RuleIds -> Bodies] /\ proposed' \subseteq Keys
      BY <1>16, <2>1, <2>2 DEF CreateSuggested
    <2>4. {edited', up'} \subseteq BOOLEAN
      BY <1>16, Zenon DEF CreateSuggested
    <2>5. checked' = None /\ UNCHANGED <<edits, cache, work, counts, proposing, eventVars>>
      BY <1>16 DEF CreateSuggested
    <2> QED
      BY <2>3, <2>4, <2>5 DEF eventVars
  <1>17. CASE UNCHANGED vars
    BY <1>17 DEF vars, ruleVars, learner, eventVars
  <1> HIDE DEF TypeOK
  <1>18. CASE Dashboard
    BY <1>8, <1>10, <1>12, <1>13, <1>11, <1>18 DEF Dashboard
  <1>19. CASE Learner
    BY <1>14, <1>15, <1>16, <1>19 DEF Learner
  <1> QED
    BY <1>1, <1>2, <1>3, <1>4, <1>5, <1>6, <1>17, <1>18, <1>19 DEF Next

\* Starting the daemon makes the list current; from then on only edits part the two.
LEMMA CacheStep ==
    ASSUME TaggingInv, [Next]_vars PROVE IsFiniteSet(cache') /\ CacheCurrent'
  <1> USE DEF TaggingInv
  <1>1. CASE NewTagger
    <2>1. cache' = ListAll /\ rules' = rules /\ IdsInUse' = IdsInUse
      BY <1>1 DEF NewTagger, ruleVars, IdsInUse
    <2>2. \A r \in ListAll : r.id \in IdsInUse /\ r.body = rules[r.id]
      BY DEF ListAll
    <2>3. ASSUME NEW i \in IdsInUse PROVE \E r \in ListAll : r.id = i
      <3>1. [id |-> i, body |-> rules[i]] \in ListAll
        BY DEF ListAll
      <3> QED
        BY <3>1
    <2> QED
      BY <2>1, <2>2, <2>3, ListAllTypes DEF CacheCurrent, SameRule
  <1>2. CASE Down
    BY <1>2, FS_EmptySet DEF Down, CacheCurrent
  <1>3. CASE IncrementHitCount
    <2>1. /\ cache' = cache /\ up' = up /\ edited' = edited
          /\ \/ rules' = rules
             \/ /\ work.rule.id \in IdsInUse
                /\ rules' = [rules EXCEPT ![work.rule.id].hits = @ + 1]
      BY <1>3 DEF IncrementHitCount
    <2>2. CASE rules' = rules
      BY <2>1, <2>2 DEF CacheCurrent, IdsInUse, SameRule
    <2>3. ASSUME NEW i \in IdsInUse, rules' = [rules EXCEPT ![i].hits = @ + 1]
          PROVE  IdsInUse' = IdsInUse /\ \A j \in IdsInUse : SameRule(rules[j], rules'[j])
      <3>1. i \in RuleIds /\ rules[i] \in RuleBody /\ DOMAIN rules = RuleIds
        BY DEF IdsInUse, TypeOK
      <3>2. [rules[i] EXCEPT !.hits = @ + 1] \in RuleBody
        BY <3>1 DEF RuleBody
      <3>3. rules'[i] = [rules[i] EXCEPT !.hits = @ + 1] /\ \A j \in RuleIds \ {i} : rules'[j] = rules[j]
        BY <2>3, <3>1
      <3>4. IdsInUse' = IdsInUse
        BY <3>1, <3>2, <3>3, TaggingAssumption DEF IdsInUse
      <3>5. SameRule(rules[i], rules'[i])
        BY <3>1, <3>3 DEF SameRule, RuleBody
      <3> QED
        BY <3>3, <3>4, <3>5 DEF SameRule, IdsInUse
    <2> QED
      BY <2>1, <2>2, <2>3 DEF CacheCurrent, SameRule
  <1>4. CASE Edit
    BY <1>4 DEF Edit, CacheCurrent
  <1>5. CASE CreateSuggested
    <2>1. cache' = cache /\ up' = up /\ (edited' \/ UNCHANGED <<rules, edited>>)
      BY <1>5 DEF CreateSuggested
    <2> QED
      BY <2>1 DEF CacheCurrent, IdsInUse, SameRule
  <1>6. CASE UNCHANGED <<rules, edited, up, cache>>
    BY <1>6 DEF CacheCurrent, IdsInUse, SameRule
  <1> QED
    BY <1>1, <1>2, <1>3, <1>4, <1>5, <1>6 DEF Next, Record, ProcessFocusEvent, tagApplier,
       Dashboard, handleCreateTagRule, handleUpdateTagRule, handleDeleteTagRule,
       handleAcceptTagRule, handleTagEvent, handleAddNote, Learner, ObserveManualTag,
       FindSimilar, vars, ruleVars

\* The recorder goes through its steps with one event and one rule.
LEMMA WorkStep == ASSUME TaggingInv, [Next]_vars PROVE WorkInProgress'
  <1> USE DEF TaggingInv
  <1>1. ASSUME cache' = cache PROVE \A e : Evaluate(e)' = Evaluate(e)
    BY <1>1 DEF Evaluate, FirstNonEmpty, evaluateTier, Tier, matchesRule
  <1>2. CASE NewTagger
    BY <1>2 DEF NewTagger, WorkInProgress, Idle
  <1>3. CASE Down
    BY <1>3 DEF Down, WorkInProgress, Idle
  <1>4. CASE Record
    BY <1>4, TaggingAssumption DEF Record, WorkInProgress, TypeOK, Idle
  <1>5. CASE ProcessFocusEvent
    <2>1. /\ cache' = cache /\ up' = up /\ next' = next /\ work.step = "evaluate"
          /\ \/ work' = Idle
             \/ \E r \in Evaluate(work.event) : work' = [work EXCEPT !.rule = r, !.step = "apply"]
      BY <1>5 DEF ProcessFocusEvent, eventVars
    <2>2. up /\ work.event < next
      <3>0. work.step = "evaluate"
        BY <2>1, Zenon
      <3>1. work # Idle /\ work.step # "idle"
        BY <3>0 DEF Idle
      <3>2. up
        BY <3>1, Zenon DEF WorkInProgress
      <3> QED
        BY <3>1, <3>2 DEF WorkInProgress
    <2>3. CASE work' = Idle
      BY <2>1, <2>2, <2>3 DEF WorkInProgress, Idle
    <2>4. ASSUME NEW r \in Evaluate(work.event), work' = [work EXCEPT !.rule = r, !.step = "apply"]
          PROVE  WorkInProgress'
      <3>1. DOMAIN work = {"event", "rule", "step"}
        BY DEF TypeOK, Idle
      <3>2. work'.event = work.event /\ work'.rule = r
        BY <2>4, <3>1
      <3> QED
        BY <1>1, <2>1, <2>2, <3>2 DEF WorkInProgress
    <2> QED
      BY <2>1, <2>3, <2>4
  <1>6. CASE tagApplier \/ IncrementHitCount
    <2>1. work' = Idle \/ (work.step = "apply" /\ work' = [work EXCEPT !.step = "count"])
      BY <1>6 DEF tagApplier, IncrementHitCount
    <2>2. up' = up /\ next' = next /\ work.step # "idle"
      BY <1>6 DEF tagApplier, IncrementHitCount, eventVars
    <2>3. DOMAIN work = {"event", "rule", "step"}
      BY DEF TypeOK, Idle
    <2> QED
      BY <2>1, <2>2, <2>3 DEF WorkInProgress, Idle
  <1>7. CASE UNCHANGED <<up, cache, work, next>>
    <2>1. Evaluate(work.event)' = Evaluate(work.event)
      BY <1>1, <1>7
    <2> QED
      BY <1>7, <2>1 DEF WorkInProgress, Idle
  <1> QED
    BY <1>2, <1>3, <1>4, <1>5, <1>6, <1>7 DEF Next, Dashboard, Edit, handleCreateTagRule,
       handleUpdateTagRule, handleDeleteTagRule, handleAcceptTagRule, handleTagEvent,
       handleAddNote, Learner, ObserveManualTag, FindSimilar, CreateSuggested, vars, eventVars

\* Only tagApplier adds a tag by a rule, to the event in progress, which has none.
LEMMA TaggedStep == ASSUME TaggingInv, [Next]_vars PROVE TaggedOnce'
  <1> USE DEF TaggingInv
  <1>0. rows \in [Events -> [Tags -> {"manual", "auto_rule", None}]] /\ next \in 1 .. N + 1
    BY DEF TypeOK
  <1>1. CASE Record
    <2>1. PICK w \in Events : w = next /\ next' = w + 1 /\ rows' = rows /\ work'.event = w
      BY <1>0, <1>1, TaggingAssumption DEF Record, Events
    <2>2. \A e : AutoTagged(e)' = AutoTagged(e)
      BY <2>1 DEF AutoTagged
    <2>3. \A t \in Tags : rows[w][t] = None
      BY <2>1, TaggingAssumption DEF TaggedOnce, Events
    <2>4. AutoTagged(w) = {}
      BY <2>3, TaggingAssumption DEF AutoTagged
    <2>5. AutoTagged(work.event)' = {}
      BY <2>1, <2>2, <2>4
    <2>6. \A e \in Events : e >= next' => e >= next
      BY <1>0, <2>1, TaggingAssumption DEF Events
    <2> QED
      BY <2>1, <2>2, <2>5, <2>6 DEF TaggedOnce
  <1>2. CASE tagApplier
    <2>1. /\ work \in [event : Events, rule : Rule, step : {"apply", "count"}]
          /\ work.step = "apply" /\ work.event < next /\ next' = next
      BY <1>2 DEF tagApplier, TypeOK, Idle, WorkInProgress
    <2>2. work'.step \notin {"evaluate", "apply"}
      BY <1>2, <2>1 DEF tagApplier, Idle
    <2>3. CASE rows' = rows
      BY <2>1, <2>2, <2>3 DEF TaggedOnce, AutoTagged
    <2>4. CASE rows' = [rows EXCEPT ![work.event][work.rule.body.tag] =
                            IF @ = None THEN "auto_rule" ELSE @]
      <3>1. PICK w \in Events, tag \in Tags :
                w = work.event /\ tag = work.rule.body.tag /\ AutoTagged(w) = {}
        BY <2>1, RuleTypes DEF TaggedOnce
      <3>2. /\ \A e \in Events \ {w} : rows'[e] = rows[e]
            /\ \A t \in Tags \ {tag} : rows'[w][t] = rows[w][t]
        BY <1>0, <2>4, <3>1
      <3>3. /\ \A e \in Events \ {w} : AutoTagged(e)' = AutoTagged(e)
            /\ \A t \in AutoTagged(w)' : t = tag
        BY <3>1, <3>2 DEF AutoTagged
      <3>4. \A e \in Events : e >= next' => e # w
        BY <1>0, <2>1, <3>1, TaggingAssumption DEF Events
      <3>5. \A e \in Events : e >= next' => \A t \in Tags : rows'[e][t] = None
        BY <2>1, <3>2, <3>4 DEF TaggedOnce
      <3>6. ASSUME NEW e \in Events PROVE \A t, u \in AutoTagged(e)' : t = u
        BY <3>3 DEF TaggedOnce
      <3> QED
        BY <2>2, <3>5, <3>6 DEF TaggedOnce
    <2> QED
      BY <1>2, <2>3, <2>4 DEF tagApplier
  <1>3. ASSUME NEW e \in Events, NEW t \in Tags, handleTagEvent(e, t) PROVE TaggedOnce'
    <2>1. e < next /\ rows' = [rows EXCEPT ![e][t] = "manual"] /\ next' = next /\ work' = work
      BY <1>3 DEF handleTagEvent
    <2>2. \A f \in Events : AutoTagged(f)' \subseteq AutoTagged(f)
      BY <1>0, <2>1 DEF AutoTagged
    <2>3. ASSUME NEW f \in Events, f >= next', NEW u \in Tags PROVE rows'[f][u] = None
      <3>1. f # e
        BY <1>0, <2>1, <2>3, TaggingAssumption DEF Events
      <3> QED
        BY <1>0, <2>1, <2>3, <3>1 DEF TaggedOnce
    <2>4. work.step \in {"evaluate", "apply"} => work.event \in Events
      BY DEF TypeOK, Idle
    <2> QED
      BY <2>1, <2>2, <2>3, <2>4 DEF TaggedOnce
  <1>4. ASSUME UNCHANGED <<rows, next>>,
               \/ work'.step \notin {"evaluate", "apply"}
               \/ work.step \in {"evaluate", "apply"} /\ work'.event = work.event
        PROVE  TaggedOnce'
    BY <1>4 DEF TaggedOnce, AutoTagged
  <1>5. CASE ProcessFocusEvent
    <2>1. DOMAIN work = {"event", "rule", "step"}
      BY DEF TypeOK, Idle
    <2>2. /\ work.step = "evaluate" /\ rows' = rows /\ next' = next
          /\ work' = Idle \/ \E r : work' = [work EXCEPT !.rule = r, !.step = "apply"]
      BY <1>5 DEF ProcessFocusEvent, eventVars
    <2>3. CASE work' = Idle
      BY <1>4, <2>2, <2>3 DEF Idle
    <2>4. ASSUME NEW r, work' = [work EXCEPT !.rule = r, !.step = "apply"] PROVE TaggedOnce'
      BY <1>4, <2>1, <2>2, <2>4
    <2> QED
      BY <2>2, <2>3, <2>4
  <1>6. CASE UNCHANGED <<rows, next, work>>
    BY <1>6 DEF TaggedOnce, AutoTagged
  <1>7. CASE Down \/ IncrementHitCount
    BY <1>4, <1>7 DEF Down, IncrementHitCount, eventVars, Idle
  <1> QED
    BY <1>1, <1>2, <1>3, <1>5, <1>6, <1>7 DEF Next, NewTagger, Dashboard, Edit,
       handleCreateTagRule, handleUpdateTagRule, handleDeleteTagRule, handleAcceptTagRule,
       handleAddNote, Learner, ObserveManualTag, FindSimilar, CreateSuggested, vars, eventVars

\* A pattern becomes due once, because counts only grow while the daemon runs, and
\* is proposed by the observation that makes it due.
LEMMA ProposalsStep == ASSUME TaggingInv, [Next]_vars PROVE Proposals'
  <1> USE DEF TaggingInv
  <1>0. /\ counts \in [Keys -> Nat] /\ proposing \subseteq Keys /\ proposed \subseteq Keys
        /\ checked \in Keys \cup {None} /\ Threshold \in Nat
    BY TaggingAssumption DEF TypeOK
  <1>1. CASE Down
    BY <1>1 DEF Down, Proposals
  <1>2. ASSUME NEW e \in Events, NEW t \in Tags, ObserveManualTag(e, t) PROVE Proposals'
    <2>1. /\ counts' = [k \in Keys |-> IF k \in KeysOf(e, t) THEN counts[k] + 1 ELSE counts[k]]
          /\ proposing' = {k \in KeysOf(e, t) : counts'[k] = Threshold}
          /\ checked' = None /\ proposed' = proposed
      BY <1>2 DEF ObserveManualTag
    <2>2. KeysOf(e, t) \subseteq Keys
      BY TaggingAssumption DEF KeysOf, Keys, Patterns
    <2>3. ASSUME NEW k \in proposed PROVE Due(k)'
      BY <1>0, <2>1 DEF Proposals, Due
    <2>4. ASSUME NEW k \in proposing' PROVE Due(k)' /\ k \notin proposed'
      BY <1>0, <2>1, <2>2 DEF Proposals, Due
    <2> QED
      BY <2>1, <2>3, <2>4 DEF Proposals
  <1>3. ASSUME NEW k \in Keys, FindSimilar(k) PROVE Proposals'
    BY <1>0, <1>3 DEF FindSimilar, Proposals, Due
  <1>4. CASE CreateSuggested
    BY <1>0, <1>4 DEF CreateSuggested, Proposals, Due
  <1>5. CASE UNCHANGED learner
    BY <1>5 DEF learner, Proposals, Due
  <1> QED
    BY <1>1, <1>2, <1>3, <1>4, <1>5 DEF Next, NewTagger, Record, ProcessFocusEvent, tagApplier,
       IncrementHitCount, Dashboard, Edit, handleCreateTagRule, handleUpdateTagRule,
       handleDeleteTagRule, handleAcceptTagRule, handleTagEvent, handleAddNote, Learner, vars

\* tagApplier and handleTagEvent give one tag to one event.
LEMMA FewTagsStep == ASSUME TaggingInv, [Next]_vars PROVE FewTags'
  <1> USE DEF TaggingInv
  <1>0. rows \in [Events -> [Tags -> {"manual", "auto_rule", None}]]
    BY DEF TypeOK
  <1>1. ASSUME NEW t, \A e \in Events : TagsOf(e)' \subseteq TagsOf(e) \cup {t} PROVE FewTags'
    <2>1. ASSUME NEW e \in Events PROVE IsFiniteSet(TagsOf(e)')
      <3>1. IsFiniteSet(TagsOf(e) \cup {t})
        BY FS_AddElement DEF FewTags
      <3>2. TagsOf(e)' \in SUBSET (TagsOf(e) \cup {t})
        BY <1>1, <2>1
      <3> QED
        BY <3>1, <3>2, FS_Subset
    <2> QED
      BY <2>1 DEF FewTags
  <1>2. CASE rows' = rows
    BY <1>1, <1>2 DEF TagsOf
  <1>3. CASE tagApplier /\ rows' # rows
    <2>1. work \in [event : Events, rule : Rule, step : {"apply", "count"}]
      BY <1>3 DEF tagApplier, TypeOK, Idle
    <2>2. PICK w \in Events, tag \in Tags : w = work.event /\ tag = work.rule.body.tag
      BY <2>1, RuleTypes
    <2>3. \A e \in Events : \A t \in Tags \ {tag} : rows'[e][t] = rows[e][t]
      BY <1>0, <1>3, <2>2 DEF tagApplier
    <2>4. \A e \in Events : TagsOf(e)' \subseteq TagsOf(e) \cup {tag}
      BY <2>3 DEF TagsOf
    <2> QED
      BY <1>1, <2>4
  <1>4. ASSUME NEW w \in Events, NEW tag \in Tags, handleTagEvent(w, tag) PROVE FewTags'
    <2>1. \A e \in Events : \A t \in Tags \ {tag} : rows'[e][t] = rows[e][t]
      BY <1>0, <1>4 DEF handleTagEvent
    <2>2. \A e \in Events : TagsOf(e)' \subseteq TagsOf(e) \cup {tag}
      BY <2>1 DEF TagsOf
    <2> QED
      BY <1>1, <2>2
  <1> QED
    BY <1>2, <1>3, <1>4 DEF Next, NewTagger, Down, Record, ProcessFocusEvent,
       IncrementHitCount, Dashboard, Edit, handleCreateTagRule, handleUpdateTagRule,
       handleDeleteTagRule, handleAcceptTagRule, handleAddNote, Learner, ObserveManualTag,
       FindSimilar, CreateSuggested, vars, eventVars

\* The types, the tagger's list, the recorder's work, the tags and the proposals.
THEOREM TaggingInvariant == Spec => []TaggingInv
  <1>1. TaggingInv /\ [Next]_vars => TaggingInv'
    BY TaggingTypes, CacheStep, WorkStep, TaggedStep, ProposalsStep,
       FewTagsStep DEF TaggingInv
  <1> QED
    BY InitTagging, <1>1, PTL DEF Spec

\* Type correctness of rules, tags and learner.
THEOREM TypeCorrect == Spec => []TypeOK
  <1>1. TaggingInv => TypeOK
    BY DEF TaggingInv
  <1> QED
    BY TaggingInvariant, <1>1, PTL

\* No event has two tags by rules, whatever the tables, the edits and the restarts.
THEOREM TaggedByOneRule == Spec => []OneAutoTag
  <1>1. ASSUME TaggingInv, NEW e \in Events PROVE Cardinality(AutoTagged(e)) <= 1
    <2>1. CASE AutoTagged(e) = {}
      BY <2>1, FS_EmptySet
    <2>2. CASE AutoTagged(e) # {}
      <3>1. PICK t \in AutoTagged(e) : AutoTagged(e) = {t}
        BY <1>1, <2>2 DEF TaggingInv, TaggedOnce
      <3> QED
        BY <3>1, FS_Singleton
    <2> QED
      BY <2>1, <2>2
  <1>2. TaggingInv => OneAutoTag
    BY <1>1 DEF OneAutoTag, AutoTagged
  <1> QED
    BY TaggingInvariant, <1>2, PTL

\* A tag given by hand stays one.
THEOREM ManualTagsStay == Spec => ManualStays
  <1>1. ASSUME TaggingInv, [Next]_vars
        PROVE  [\A e \in Events, t \in Tags :
                    rows[e][t] = "manual" => rows'[e][t] = "manual"]_vars
    <2>1. rows \in [Events -> [Tags -> {"manual", "auto_rule", None}]] /\ None # "manual"
      BY <1>1, TaggingAssumption DEF TaggingInv, TypeOK
    <2>2. CASE tagApplier
      BY <2>1, <2>2 DEF tagApplier
    <2>3. ASSUME NEW e \in Events, NEW t \in Tags, handleTagEvent(e, t)
          PROVE  rows' = [rows EXCEPT ![e][t] = "manual"]
      BY <2>3 DEF handleTagEvent
    <2>4. CASE rows' = rows
      BY <2>4
    <2>5. \/ tagApplier \/ rows' = rows
          \/ \E e \in Events, t \in Tags : handleTagEvent(e, t)
      BY <1>1 DEF Next, NewTagger, Down, Record, ProcessFocusEvent,
         IncrementHitCount, Dashboard, Edit, handleCreateTagRule, handleUpdateTagRule,
         handleDeleteTagRule, handleAcceptTagRule, handleAddNote, Learner, ObserveManualTag,
         FindSimilar, CreateSuggested, vars, eventVars
    <2> QED
      BY <2>1, <2>2, <2>3, <2>4, <2>5
  <1> QED
    BY TaggingInvariant, <1>1, PTL DEF Spec, ManualStays

\* The four tiers of the tagger's list come to the documented order of the table.
THEOREM RulesDecide == Spec => TableDecides
  <1> DEFINE Decided(e, t) ==
               LET matching == {i \in IdsInUse : rules[i].word \in WordsOf[e] \cup {AnyTitle}}
               IN  \E i \in matching : /\ rules[i].tag = t
                                       /\ \A j \in matching : ~Precedes(rules[j], rules[i])
  <1>1. ASSUME TaggingInv, work.step = "apply", ~edited
        PROVE  Decided(work.event, work.rule.body.tag)
    <2>1. work \in [event : Events, rule : Rule, step : {"apply", "count"}]
      BY <1>1 DEF TaggingInv, TypeOK, Idle
    <2>2. up
      <3>1. work # Idle
        BY <1>1 DEF Idle
      <3> QED
        BY <1>1, <3>1, Zenon DEF TaggingInv, WorkInProgress
    <2> DEFINE e == work.event  r == work.rule
               matching == {i \in IdsInUse : rules[i].word \in WordsOf[e] \cup {AnyTitle}}
    <2>3. r \in Evaluate(e) /\ e \in Events
      BY <1>1, <2>1 DEF TaggingInv, WorkInProgress
    <2>4. /\ r \in cache /\ matchesRule(e, r)
          /\ \A q \in cache : matchesRule(e, q) => ~ Precedes(q.body, r.body)
      BY <1>1, <2>3, EvaluateDecides DEF TaggingInv
    <2>5. /\ \A q \in cache : q.id \in IdsInUse /\ SameRule(q.body, rules[q.id])
          /\ \A i \in IdsInUse : \E q \in cache : q.id = i
      BY <1>1, <2>2 DEF TaggingInv, CacheCurrent
    <2>6. r.id \in matching /\ rules[r.id].tag = r.body.tag
      BY <2>4, <2>5 DEF SameRule, matchesRule
    <2>7. ASSUME NEW j \in matching PROVE ~Precedes(rules[j], rules[r.id])
      <3>1. PICK q \in cache : q.id = j
        BY <2>5
      <3>2. SameRule(q.body, rules[j]) /\ matchesRule(e, q) /\ SameRule(r.body, rules[r.id])
        BY <2>4, <2>5, <3>1 DEF SameRule, matchesRule
      <3>3. ~Precedes(q.body, r.body)
        BY <2>4, <3>2
      <3> QED
        BY <3>2, <3>3 DEF SameRule, Precedes
    <2> QED
      BY <2>6, <2>7
  <1>2. ASSUME TaggingInv, [Next]_vars, NEW e \in Events, NEW t \in Tags,
               rows[e][t] = None, rows'[e][t] = "auto_rule", ~edited
        PROVE  Decided(e, t)
    <2>1. rows \in [Events -> [Tags -> {"manual", "auto_rule", None}]] /\ None # "auto_rule"
      BY <1>2, TaggingAssumption DEF TaggingInv, TypeOK
    <2>2. rows' # rows
      BY <1>2, <2>1
    <2>3. ASSUME NEW f \in Events, NEW u \in Tags, handleTagEvent(f, u) PROVE FALSE
      BY <1>2, <2>1, <2>3 DEF handleTagEvent
    <2>4. tagApplier
      BY <1>2, <2>2, <2>3 DEF Next, NewTagger, Down, Record, ProcessFocusEvent,
         IncrementHitCount, Dashboard, Edit, handleCreateTagRule, handleUpdateTagRule,
         handleDeleteTagRule, handleAcceptTagRule, handleAddNote, Learner, ObserveManualTag,
         FindSimilar, CreateSuggested, vars, eventVars
    <2>5. e = work.event /\ t = work.rule.body.tag /\ work.step = "apply"
      BY <1>2, <2>1, <2>2, <2>4 DEF tagApplier
    <2> QED
      BY <1>1, <1>2, <2>5
  <1>3. ASSUME TaggingInv, [Next]_vars
        PROVE  [\A e \in Events, t \in Tags :
                   rows[e][t] = None /\ rows'[e][t] = "auto_rule" /\ ~edited => Decided(e, t)]_vars
    BY <1>2, <1>3
  <1> QED
    BY TaggingInvariant, <1>3, PTL DEF Spec, TableDecides

\* A pattern is proposed once in a run of the daemon.
THEOREM ProposedOnlyOnce == Spec => ProposedOnce
  <1>1. ASSUME TaggingInv
        PROVE  checked # None => checked \notin proposed
    BY <1>1 DEF TaggingInv, Proposals
  <1>2. ASSUME TaggingInv, [Next]_vars
        PROVE  [\A i \in RuleIds :
                   rules[i] = None /\ checked # None /\ rules'[i] # None /\ rules'[i].suggested =>
                       checked \notin proposed]_vars
    BY <1>1, <1>2
  <1> QED
    BY TaggingInvariant, <1>2, PTL DEF Spec, ProposedOnce

(***************************************************************************)
(* What an attempt posts.  MapThenSumSet is a recursive function on the    *)
(* subsets of the set it adds up; that there is one, that it is the only   *)
(* one and that the order does not matter is shown by induction over those *)
(* subsets.                                                                *)
(***************************************************************************)

\* Induction over the subsets of a finite set, for sets and not for predicates.
LEMMA SubsetInduction ==
    ASSUME NEW D, IsFiniteSet(D), NEW C,
           \A S \in SUBSET D : (\A R \in SUBSET S : R # S => R \in C) => S \in C
    PROVE  \A S \in SUBSET D : S \in C
  <1> DEFINE bad == {S \in SUBSET D : S \notin C}
  <1> SUFFICES ASSUME bad # {} PROVE FALSE
    OBVIOUS
  <1>1. bad \subseteq FiniteSubsetsOf(D)
    <2>1. \A S \in SUBSET D : IsFiniteSet(S)
      BY FS_Subset
    <2> QED
      BY <2>1 DEF FiniteSubsetsOf
  <1>2. PICK S \in bad : \A R \in bad : ~ (<<R, S>> \in StrictSubsetOrdering(D))
    <2>1. IsWellFoundedOn(StrictSubsetOrdering(D), FiniteSubsetsOf(D))
      BY FS_StrictSubsetOrderingWellFounded, Zenon
    <2>2. bad # {}
      OBVIOUS
    <2> HIDE DEF bad
    <2> QED
      BY <1>1, <2>1, <2>2, WFMin
  <1>3. ASSUME NEW R \in SUBSET S, R # S PROVE R \in C
    <2>1. <<R, S>> \in StrictSubsetOrdering(D)
      BY <1>3 DEF StrictSubsetOrdering
    <2> QED
      BY <1>2, <2>1
  <1> QED
    BY <1>2, <1>3

\* g adds up w over the subsets of S, in the order MapThenSumSet takes.
Adds(w, S, g) ==
    g = [s \in SUBSET S |-> IF s = {} THEN 0
                            ELSE LET x == CHOOSE x \in s : TRUE IN w[x] + g[s \ {x}]]
Sum(w, S) == (CHOOSE g : Adds(w, S, g))[S]

LEMMA AddsUnique ==
    ASSUME NEW D, IsFiniteSet(D), NEW w, NEW A \in SUBSET D, NEW B \in SUBSET D,
           NEW g, NEW h, Adds(w, A, g), Adds(w, B, h)
    PROVE  \A S \in SUBSET A : S \in SUBSET B => g[S] = h[S]
  <1> DEFINE C == {S \in SUBSET D : S \in SUBSET A /\ S \in SUBSET B => g[S] = h[S]}
  <1>1. ASSUME NEW S \in SUBSET D, \A R \in SUBSET S : R # S => R \in C PROVE S \in C
    <2> SUFFICES ASSUME S \in SUBSET A, S \in SUBSET B PROVE g[S] = h[S]
      OBVIOUS
    <2>1. CASE S = {}
      BY <2>1 DEF Adds
    <2>2. CASE S # {}
      <3>1. PICK x \in S : x = CHOOSE y \in S : TRUE
        BY <2>2
      <3>2. g[S \ {x}] = h[S \ {x}]
        BY <1>1, <3>1
      <3>3. g[S] = w[x] + g[S \ {x}]
        BY <2>2, <3>1 DEF Adds
      <3>4. h[S] = w[x] + h[S \ {x}]
        BY <2>2, <3>1 DEF Adds
      <3> QED
        BY <3>2, <3>3, <3>4
    <2> QED
      BY <2>1, <2>2
  <1>2. \A S \in SUBSET D : S \in C
    <2> HIDE DEF C
    <2> QED
      BY <1>1, SubsetInduction
  <1> QED
    BY <1>2

LEMMA AddsExists ==
    ASSUME NEW D, IsFiniteSet(D), NEW w
    PROVE  \E g : Adds(w, D, g)
  <1> DEFINE C == {S \in SUBSET D : \E g : Adds(w, S, g)}
  <1>1. ASSUME NEW S \in SUBSET D, \A R \in SUBSET S : R # S => R \in C
        PROVE  \E g : Adds(w, S, g)
    <2> DEFINE G(R) == CHOOSE g : Adds(w, R, g)
               first(s) == CHOOSE x \in s : TRUE
               h == [s \in SUBSET S |-> IF s = {} THEN 0
                                        ELSE w[first(s)] + G(s \ {first(s)})[s \ {first(s)}]]
    <2>1. ASSUME NEW R \in SUBSET S, R # S PROVE Adds(w, R, G(R))
      <3>1. \E g : Adds(w, R, g)
        BY <1>1, <2>1
      <3> QED
        BY <3>1
    <2>2. ASSUME NEW R \in SUBSET S, R # S PROVE h[R] = G(R)[R]
      <3>1. CASE R = {}
        <4>1. Adds(w, R, G(R))
          BY <2>2, <2>1
        <4>2. G(R)[R] = 0
          <5> HIDE DEF G
          <5> QED BY <3>1, <4>1 DEF Adds
        <4> QED
          BY <3>1, <4>2
      <3>2. CASE R # {}
        <4>1. PICK x \in R : x = first(R)
          BY <3>2
        <4>2. R \ {x} \in SUBSET S /\ R \ {x} # S /\ R \ {x} \in SUBSET R
          BY <2>2, <4>1
        <4>3. Adds(w, R, G(R)) /\ Adds(w, R \ {x}, G(R \ {x}))
          BY <2>1, <2>2, <4>2
        <4>4. G(R)[R \ {x}] = G(R \ {x})[R \ {x}]
          <5> HIDE DEF G
          <5> DEFINE r == R \ {x}
          <5>1. R \in SUBSET D /\ r \in SUBSET D /\ r \in SUBSET R
            BY <4>2
          <5>2. Adds(w, R, G(R)) /\ Adds(w, r, G(r))
            BY <4>3
          <5> HIDE DEF r
          <5>3. G(R)[r] = G(r)[r]
            BY <5>1, <5>2, AddsUnique
          <5> QED BY <5>3 DEF r
        <4>5. G(R)[R] = w[x] + G(R)[R \ {x}]
          <5> HIDE DEF G
          <5> QED BY <3>2, <4>1, <4>3 DEF Adds
        <4>6. h[R] = w[x] + G(R \ {x})[R \ {x}]
          <5> HIDE DEF G
          <5> QED BY <3>2, <4>1
        <4> QED
          BY <4>4, <4>5, <4>6
      <3> QED
        BY <3>1, <3>2
    <2>3. ASSUME NEW s \in SUBSET S, s # {}
          PROVE  h[s] = w[first(s)] + h[s \ {first(s)}]
      <3>1. PICK x \in s : x = first(s)
        BY <2>3
      <3>2. s \ {x} \in SUBSET S /\ s \ {x} # S
        BY <3>1
      <3>3. h[s \ {x}] = G(s \ {x})[s \ {x}]
        BY <2>2, <3>2
      <3>4. h[s] = w[x] + G(s \ {x})[s \ {x}]
        <4> HIDE DEF G
        <4> QED BY <2>3, <3>1
      <3> QED
        BY <3>1, <3>3, <3>4
    <2>4. h = [s \in SUBSET S |-> IF s = {} THEN 0 ELSE w[first(s)] + h[s \ {first(s)}]]
      <3>1. h[{}] = 0
        OBVIOUS
      <3>2. h = [s \in SUBSET S |-> h[s]]
        <4> HIDE DEF G, first
        <4> QED OBVIOUS
      <3> HIDE DEF h, first
      <3> QED BY <2>3, <3>1, <3>2
    <2>5. Adds(w, S, h)
      <3> HIDE DEF h
      <3> QED BY <2>4 DEF Adds
    <2> QED
      BY <2>5
  <1>2. \A S \in SUBSET D : S \in C
    <2>1. ASSUME NEW S \in SUBSET D, \A R \in SUBSET S : R # S => R \in C PROVE S \in C
      BY <1>1, <2>1
    <2> HIDE DEF C
    <2> QED
      BY <2>1, SubsetInduction
  <1> QED
    BY <1>2

LEMMA SumStep ==
    ASSUME NEW S, IsFiniteSet(S), NEW w
    PROVE  /\ S = {} => Sum(w, S) = 0
           /\ S # {} => \E x \in S : Sum(w, S) = w[x] + Sum(w, S \ {x})
  <1> DEFINE G(R) == CHOOSE g : Adds(w, R, g)
  <1>1. ASSUME NEW R \in SUBSET S PROVE Adds(w, R, G(R))
    <2>1. \E g : Adds(w, R, g)
      BY FS_Subset, AddsExists
    <2> QED
      BY <2>1
  <1>2. ASSUME NEW R \in SUBSET S PROVE Sum(w, R) = G(R)[R]
    BY DEF Sum
  <1>3. CASE S = {}
    <2>1. Adds(w, S, G(S))
      BY <1>1
    <2>2. G(S)[S] = 0
      <3> HIDE DEF G
      <3> QED BY <1>3, <2>1 DEF Adds
    <2> QED
      BY <1>2, <1>3, <2>2
  <1>4. CASE S # {}
    <2>1. PICK x \in S : x = CHOOSE y \in S : TRUE
      BY <1>4
    <2> DEFINE R == S \ {x}
    <2>2. Adds(w, S, G(S)) /\ Adds(w, R, G(R)) /\ R \in SUBSET S
      BY <1>1
    <2>3. G(S)[S] = w[x] + G(S)[R]
      <3> HIDE DEF G
      <3> QED BY <1>4, <2>1, <2>2 DEF Adds
    <2>4. G(S)[R] = G(R)[R]
      <3> HIDE DEF G, R
      <3> QED BY <2>2, AddsUnique
    <2>5. Sum(w, S) = G(S)[S] /\ Sum(w, R) = G(R)[R]
      BY <1>2
    <2> QED
      <3> HIDE DEF G
      <3> QED BY <1>4, <2>3, <2>4, <2>5
  <1> QED
    BY <1>3, <1>4

LEMMA SumType ==
    ASSUME NEW S, IsFiniteSet(S), NEW w, \A x \in S : w[x] \in Nat
    PROVE  Sum(w, S) \in Nat
  <1> DEFINE C == {T \in SUBSET S : Sum(w, T) \in Nat}
  <1>1. ASSUME NEW T \in SUBSET S, \A R \in SUBSET T : R # T => R \in C PROVE T \in C
    <2>1. IsFiniteSet(T)
      BY FS_Subset
    <2>2. CASE T = {}
      BY <2>1, <2>2, SumStep
    <2>3. CASE T # {}
      <3>1. PICK x \in T : Sum(w, T) = w[x] + Sum(w, T \ {x})
        BY <2>1, <2>3, SumStep
      <3>2. Sum(w, T \ {x}) \in Nat
        BY <1>1, <3>1
      <3> QED
        BY <3>1, <3>2
    <2> QED
      BY <2>2, <2>3
  <1>2. \A T \in SUBSET S : T \in C
    <2> HIDE DEF C
    <2> QED
      BY <1>1, SubsetInduction
  <1> QED
    BY <1>2

\* Any element may be taken out first.
LEMMA SumRemove ==
    ASSUME NEW S, IsFiniteSet(S), NEW w, \A x \in S : w[x] \in Nat, NEW y \in S
    PROVE  Sum(w, S) = w[y] + Sum(w, S \ {y})
  <1> DEFINE C == {T \in SUBSET S : \A z \in T : Sum(w, T) = w[z] + Sum(w, T \ {z})}
  <1>1. ASSUME NEW T \in SUBSET S, \A R \in SUBSET T : R # T => R \in C PROVE T \in C
    <2> SUFFICES ASSUME NEW z \in T PROVE Sum(w, T) = w[z] + Sum(w, T \ {z})
      OBVIOUS
    <2>1. IsFiniteSet(T)
      BY FS_Subset
    <2>2. PICK x \in T : Sum(w, T) = w[x] + Sum(w, T \ {x})
      BY <2>1, SumStep
    <2>3. CASE x # z
      <3>1. T \ {x} \in C /\ z \in T \ {x} /\ T \ {z} \in C /\ x \in T \ {z}
        BY <1>1, <2>3
      <3>2. /\ Sum(w, T \ {x}) = w[z] + Sum(w, (T \ {x}) \ {z})
            /\ Sum(w, T \ {z}) = w[x] + Sum(w, (T \ {z}) \ {x})
        BY <3>1
      <3>3. (T \ {x}) \ {z} = (T \ {z}) \ {x}
        OBVIOUS
      <3>4. Sum(w, (T \ {z}) \ {x}) \in Nat /\ w[x] \in Nat /\ w[z] \in Nat
        <4>1. (T \ {z}) \ {x} \in SUBSET S
          OBVIOUS
        <4> QED
          BY <4>1, FS_Subset, SumType
      <3> QED
        BY <2>2, <3>2, <3>3, <3>4
    <2> QED
      BY <2>2, <2>3
  <1>2. \A T \in SUBSET S : T \in C
    <2> HIDE DEF C
    <2> QED
      BY <1>1, SubsetInduction
  <1> QED
    BY <1>2

LEMMA SumUnion ==
    ASSUME NEW P, NEW Q, IsFiniteSet(P), IsFiniteSet(Q), P \cap Q = {},
           NEW w, \A x \in P \cup Q : w[x] \in Nat
    PROVE  Sum(w, P \cup Q) = Sum(w, P) + Sum(w, Q)
  <1> DEFINE C == {T \in SUBSET P : Sum(w, T \cup Q) = Sum(w, T) + Sum(w, Q)}
  <1>1. ASSUME NEW T \in SUBSET P, \A R \in SUBSET T : R # T => R \in C PROVE T \in C
    <2>1. IsFiniteSet(T) /\ IsFiniteSet(T \cup Q)
      <3>1. IsFiniteSet(T)
        BY FS_Subset
      <3> QED
        BY <3>1, FS_Union
    <2>2. CASE T = {}
      <3>1. Sum(w, T) = 0 /\ Sum(w, Q) \in Nat /\ T \cup Q = Q
        BY <2>1, <2>2, SumStep, SumType
      <3> QED
        BY <3>1
    <2>3. CASE T # {}
      <3>1. PICK x \in T : TRUE
        BY <2>3
      <3>2. Sum(w, T) = w[x] + Sum(w, T \ {x})
        BY <2>1, SumRemove
      <3>3. Sum(w, T \cup Q) = w[x] + Sum(w, (T \cup Q) \ {x})
        BY <2>1, SumRemove
      <3>4. (T \cup Q) \ {x} = (T \ {x}) \cup Q
        OBVIOUS
      <3>5. Sum(w, (T \ {x}) \cup Q) = Sum(w, T \ {x}) + Sum(w, Q)
        BY <1>1
      <3>6. w[x] \in Nat /\ Sum(w, T \ {x}) \in Nat /\ Sum(w, Q) \in Nat
        <4>1. T \ {x} \in SUBSET P
          OBVIOUS
        <4> QED
          BY <4>1, FS_Subset, SumType
      <3>7. PICK i \in Nat, j \in Nat, k \in Nat :
                i = w[x] /\ j = Sum(w, T \ {x}) /\ k = Sum(w, Q)
        BY <3>6
      <3>8. Sum(w, T) = i + j /\ Sum(w, T \cup Q) = i + (j + k)
        BY <3>2, <3>3, <3>4, <3>5, <3>7, Zenon
      <3>9. Sum(w, T \cup Q) = Sum(w, T) + Sum(w, Q)
        BY <3>7, <3>8
      <3> QED
        BY <3>9
    <2> QED
      BY <2>2, <2>3
  <1>2. \A T \in SUBSET P : T \in C
    <2> HIDE DEF C
    <2> QED
      BY <1>1, SubsetInduction
  <1> QED
    BY <1>2

\* A sum by groups.
Group(S, g, a) == {e \in S : g[e] = a}

LEMMA SumByGroup ==
    ASSUME NEW S, IsFiniteSet(S), NEW A, IsFiniteSet(A), NEW g, NEW v, NEW w,
           \A e \in S : w[e] \in Nat /\ g[e] \in A,
           \A a \in A : v[a] = Sum(w, Group(S, g, a))
    PROVE  Sum(v, A) = Sum(w, S)
  <1> DEFINE In(B) == {e \in S : g[e] \in B}
             C == {B \in SUBSET A : Sum(v, B) = Sum(w, In(B))}
  <1>0. ASSUME NEW a \in A PROVE v[a] \in Nat
    <2> DEFINE P == Group(S, g, a)
    <2>1. P \in SUBSET S /\ v[a] = Sum(w, P)
      BY DEF Group
    <2> HIDE DEF P
    <2>2. IsFiniteSet(P) /\ \A e \in P : w[e] \in Nat
      BY <2>1, FS_Subset
    <2> QED
      BY <2>1, <2>2, SumType
  <1>1. ASSUME NEW B \in SUBSET A, \A R \in SUBSET B : R # B => R \in C PROVE B \in C
    <2>1. IsFiniteSet(B)
      BY FS_Subset
    <2>2. CASE B = {}
      <3>1. In(B) = {}
        BY <2>2
      <3>2. Sum(v, B) = 0 /\ Sum(w, In(B)) = 0
        <4> HIDE DEF In
        <4> QED
          BY <2>1, <2>2, <3>1, SumStep
      <3> QED
        BY <3>2
    <2>3. CASE B # {}
      <3>1. PICK a \in B : TRUE
        BY <2>3
      <3>2. Sum(v, B) = v[a] + Sum(v, B \ {a})
        BY <1>0, <2>1, SumRemove
      <3>3. Sum(v, B \ {a}) = Sum(w, In(B \ {a}))
        BY <1>1
      <3> DEFINE P == Group(S, g, a)  Q == In(B \ {a})
      <3>4. P \in SUBSET S /\ Q \in SUBSET S /\ P \cap Q = {} /\ P \cup Q = In(B)
        BY DEF Group
      <3>5. Sum(w, P \cup Q) = Sum(w, P) + Sum(w, Q)
        <4>1. P \in SUBSET S /\ Q \in SUBSET S /\ P \cap Q = {}
          BY DEF Group
        <4> HIDE DEF P, Q
        <4>2. IsFiniteSet(P) /\ IsFiniteSet(Q) /\ \A x \in P \cup Q : w[x] \in Nat
          BY <4>1, FS_Subset
        <4> QED
          BY <4>1, <4>2, SumUnion
      <3>6. v[a] = Sum(w, P)
        OBVIOUS
      <3>7. Sum(v, B) = Sum(w, In(B))
        <4> HIDE DEF P, Q
        <4> QED
          BY <3>2, <3>3, <3>4, <3>5, <3>6 DEF Q
      <3> QED
        BY <3>7
    <2> QED
      BY <2>2, <2>3
  <1>2. \A B \in SUBSET A : B \in C
    <2> HIDE DEF C
    <2> QED
      BY <1>1, SubsetInduction
  <1>3. In(A) = S
    OBVIOUS
  <1>4. Sum(v, A) = Sum(w, In(A))
    BY <1>2
  <1> QED
    BY <1>3, <1>4

LEMMA AddsTo ==
    ASSUME NEW S, IsFiniteSet(S), NEW w, NEW g, Adds(w, S, g)
    PROVE  g[S] = Sum(w, S)
  <1> DEFINE h == CHOOSE f : Adds(w, S, f)
  <1>1. Adds(w, S, h)
    OBVIOUS
  <1>2. Sum(w, S) = h[S]
    BY DEF Sum
  <1> HIDE DEF h
  <1>3. g[S] = h[S]
    BY <1>1, AddsUnique
  <1> QED
    BY <1>2, <1>3

\* The three sums of the model.
LEMMA LengthSum ==
    ASSUME NEW S
    PROVE  MapThenSumSet(LAMBDA e : Length[e], S) = Sum(Length, S)
  BY DEF MapThenSumSet, MapThenFoldSet, Sum, Adds

LEMMA DurationSum ==
    ASSUME NEW S, IsFiniteSet(S), NEW v, \A a \in S : v[a] = a.duration
    PROVE  MapThenSumSet(LAMBDA a : a.duration, S) = Sum(v, S)
  <1> DEFINE P(g) == g = [s \in SUBSET S |->
                             IF s = {} THEN 0
                             ELSE LET x == CHOOSE x \in s : TRUE IN x.duration + g[s \ {x}]]
             h == CHOOSE g : P(g)
  <1>1. ASSUME NEW g PROVE P(g) <=> Adds(v, S, g)
    <2> DEFINE first(s) == CHOOSE x \in s : TRUE
    <2>1. \A s \in SUBSET S : s # {} => v[first(s)] = first(s).duration
      OBVIOUS
    <2>2. P(g) <=> g = [s \in SUBSET S |-> IF s = {} THEN 0
                                           ELSE first(s).duration + g[s \ {first(s)}]]
      OBVIOUS
    <2>3. Adds(v, S, g) <=> g = [s \in SUBSET S |-> IF s = {} THEN 0
                                           ELSE v[first(s)] + g[s \ {first(s)}]]
      BY DEF Adds
    <2> HIDE DEF first, P
    <2>4. [s \in SUBSET S |-> IF s = {} THEN 0 ELSE first(s).duration + g[s \ {first(s)}]] =
          [s \in SUBSET S |-> IF s = {} THEN 0 ELSE v[first(s)] + g[s \ {first(s)}]]
      BY <2>1
    <2> QED
      BY <2>2, <2>3, <2>4
  <1>2. MapThenSumSet(LAMBDA a : a.duration, S) = h[S]
    BY DEF MapThenSumSet, MapThenFoldSet
  <1> HIDE DEF P
  <1>3. P(h)
    BY <1>1, AddsExists
  <1> HIDE DEF h
  <1> QED
    BY <1>1, <1>2, <1>3, AddsTo

LEMMA RowSum ==
    ASSUME NEW S, IsFiniteSet(S), NEW v, \A r \in S : v[r] = Length[r.event]
    PROVE  MapThenSumSet(LAMBDA r : Length[r.event], S) = Sum(v, S)
  <1> DEFINE P(g) == g = [s \in SUBSET S |->
                             IF s = {} THEN 0
                             ELSE LET x == CHOOSE x \in s : TRUE IN Length[x.event] + g[s \ {x}]]
             h == CHOOSE g : P(g)
  <1>1. ASSUME NEW g PROVE P(g) <=> Adds(v, S, g)
    <2> DEFINE first(s) == CHOOSE x \in s : TRUE
    <2>1. \A s \in SUBSET S : s # {} => v[first(s)] = Length[first(s).event]
      OBVIOUS
    <2>2. P(g) <=> g = [s \in SUBSET S |-> IF s = {} THEN 0
                                           ELSE Length[first(s).event] + g[s \ {first(s)}]]
      OBVIOUS
    <2>3. Adds(v, S, g) <=> g = [s \in SUBSET S |-> IF s = {} THEN 0
                                           ELSE v[first(s)] + g[s \ {first(s)}]]
      BY DEF Adds
    <2> HIDE DEF first, P
    <2>4. [s \in SUBSET S |-> IF s = {} THEN 0 ELSE Length[first(s).event] + g[s \ {first(s)}]] =
          [s \in SUBSET S |-> IF s = {} THEN 0 ELSE v[first(s)] + g[s \ {first(s)}]]
      BY <2>1
    <2> QED
      BY <2>2, <2>3, <2>4
  <1>2. MapThenSumSet(LAMBDA r : Length[r.event], S) = h[S]
    BY DEF MapThenSumSet, MapThenFoldSet
  <1> HIDE DEF P
  <1>3. P(h)
    BY <1>1, AddsExists
  <1> HIDE DEF h
  <1> QED
    BY <1>1, <1>2, <1>3, AddsTo

(***************************************************************************)
(* Events follow each other.                                               *)
(***************************************************************************)

LEMMA LeastNumber ==
    ASSUME NEW S \in SUBSET Nat, S # {}
    PROVE  \E n \in S : \A m \in S : n <= m
  <1>1. PICK n \in S : \A m \in S : ~ (<<m, n>> \in OpToRel(<, Nat))
    BY NatLessThanWellFounded, WFMin, Zenon
  <1>2. ASSUME NEW m \in S PROVE n <= m
    <2>1. m \in Nat /\ n \in Nat /\ ~ (<<m, n>> \in OpToRel(<, Nat))
      BY <1>1
    <2> QED
      BY <2>1 DEF OpToRel
  <1> QED
    BY <1>2

LEMMA LeastAndGreatest ==
    ASSUME NEW S \in SUBSET Events, S # {}
    PROVE  /\ Min(S) \in S /\ \A e \in S : Min(S) <= e
           /\ Max(S) \in S /\ \A e \in S : e <= Max(S)
  <1>1. S \subseteq Nat /\ N \in Nat /\ \A e \in S : e <= N
    BY TaggingAssumption DEF Events
  <1>2. \E e \in S : \A f \in S : e <= f
    BY <1>1, LeastNumber
  <1>3. \E e \in S : \A f \in S : e >= f
    <2> DEFINE D == {N - e : e \in S}
    <2>1. D \in SUBSET Nat /\ D # {}
      BY <1>1
    <2>2. PICK d \in D : \A c \in D : d <= c
      <3> HIDE DEF D
      <3> QED
        BY <2>1, LeastNumber
    <2>3. PICK e \in S : d = N - e
      OBVIOUS
    <2>4. ASSUME NEW f \in S PROVE e >= f
      <3>1. N - f \in D
        OBVIOUS
      <3> QED
        BY <1>1, <2>2, <2>3, <3>1
    <2> QED
      BY <2>4
  <1>4. Min(S) \in S /\ \A f \in S : Min(S) <= f
    BY <1>2, Zenon DEF Min
  <1>5. Max(S) \in S /\ \A f \in S : Max(S) >= f
    BY <1>3, Zenon DEF Max
  <1>6. \A f \in S : f <= Max(S)
    BY <1>1, <1>5
  <1> QED
    BY <1>4, <1>5, <1>6

\* An event ends before a later one begins.
LEMMA EventsInOrder ==
    ASSUME NEW e \in Events, NEW f \in Events, e < f
    PROVE  Start[e] + Length[e] <= Start[f]
  <1> DEFINE Wrong == {h \in Events : e < h /\ Start[e] + Length[e] > Start[h]}
  <1>1. /\ N \in Nat /\ Events = 1 .. N
        /\ \A h \in Events : Start[h] \in Nat /\ Length[h] \in Nat
        /\ \A h \in 1 .. N - 1 : Start[h] + Length[h] <= Start[h + 1]
    BY TaggingAssumption DEF Events
  <1>2. Wrong = {}
    <2> SUFFICES ASSUME Wrong # {} PROVE FALSE
      OBVIOUS
    <2>1. Wrong \in SUBSET Nat /\ Wrong # {}
      BY <1>1
    <2>2. PICK h \in Wrong : \A k \in Wrong : h <= k
      <3> HIDE DEF Wrong
      <3> QED
        BY <2>1, LeastNumber
    <2>3. h - 1 \in Events /\ h - 1 \in 1 .. N - 1 /\ h = (h - 1) + 1 /\ e <= h - 1
      BY <1>1
    <2>4. h - 1 \notin Wrong
      BY <1>1, <2>2
    <2>5. PICK k \in Events : k = h - 1 /\ h = k + 1 /\ k \notin Wrong /\ k \in 1 .. N - 1
      BY <2>3, <2>4
    <2>6. Start[k] + Length[k] <= Start[h]
      BY <1>1, <2>5
    <2>7. CASE k = e
      BY <1>1, <2>6, <2>7
    <2>8. CASE k # e
      <3>1. Start[e] + Length[e] <= Start[k]
        BY <1>1, <2>3, <2>5, <2>8
      <3> QED
        BY <1>1, <2>6, <3>1
    <2> QED
      BY <2>7, <2>8
  <1>3. ~ (Start[e] + Length[e] > Start[f])
    BY <1>2
  <1>4. Start[e] \in Nat /\ Length[e] \in Nat /\ Start[f] \in Nat
    BY <1>1
  <1> QED
    BY <1>3, <1>4

\* So some events between two others last no longer than the time from one to the other.
LEMMA SumInSpan ==
    ASSUME NEW S \in SUBSET Events, NEW first \in Events, NEW last \in Events,
           first <= last, \A e \in S : first <= e /\ e <= last
    PROVE  Sum(Length, S) <= Start[last] + Length[last] - Start[first]
  <1> DEFINE C == {P \in SUBSET Events :
                     \A f, l \in Events :
                       f <= l /\ (\A e \in P : f <= e /\ e <= l) =>
                         Sum(Length, P) <= Start[l] + Length[l] - Start[f]}
  <1>0. IsFiniteSet(Events)
    BY TaggingAssumption, FS_Interval DEF Events
  <1>1. /\ N \in Nat /\ Events = 1 .. N
        /\ \A h \in Events : Start[h] \in Nat /\ Length[h] \in Nat
    BY TaggingAssumption DEF Events
  <1>2. ASSUME NEW P \in SUBSET Events, \A R \in SUBSET P : R # P => R \in C PROVE P \in C
    <2> SUFFICES ASSUME NEW f \in Events, NEW l \in Events, f <= l,
                        \A e \in P : f <= e /\ e <= l
                 PROVE  Sum(Length, P) <= Start[l] + Length[l] - Start[f]
      OBVIOUS
    <2>1. IsFiniteSet(P) /\ \A e \in P : Length[e] \in Nat
      BY <1>0, <1>1, FS_Subset
    <2>2. CASE P = {}
      <3>1. Sum(Length, P) = 0
        BY <2>1, <2>2, SumStep
      <3>2. Start[f] <= Start[l] + Length[l]
        BY <1>1, EventsInOrder
      <3> QED
        BY <1>1, <3>1, <3>2
    <2>3. CASE P # {}
      <3>1. PICK y \in P : \A e \in P : e <= y
        BY <2>3, LeastAndGreatest
      <3>2. Sum(Length, P) = Length[y] + Sum(Length, P \ {y})
        BY <2>1, SumRemove
      <3>3. Sum(Length, P \ {y}) <= Start[y] - Start[f]
        <4>1. CASE y = f
          <5>1. P \ {y} = {}
            BY <1>1, <3>1, <4>1
          <5>2. Sum(Length, P \ {y}) = 0
            BY <5>1, FS_EmptySet, SumStep
          <5> QED
            BY <1>1, <4>1, <5>2
        <4>2. CASE y # f
          <5>1. PICK k \in Events : k = y - 1 /\ f <= k /\ k < y
            BY <1>1, <4>2
          <5>2. \A e \in P \ {y} : f <= e /\ e <= k
            BY <1>1, <3>1, <5>1
          <5>3. Sum(Length, P \ {y}) <= Start[k] + Length[k] - Start[f]
            <6>1. P \ {y} \in C
              BY <1>2
            <6> QED
              BY <5>1, <5>2, <6>1
          <5>4. Start[k] + Length[k] <= Start[y]
            BY <5>1, EventsInOrder
          <5>5. Sum(Length, P \ {y}) \in Nat
            <6>1. P \ {y} \in SUBSET P
              OBVIOUS
            <6> QED
              BY <2>1, <6>1, FS_Subset, SumType
          <5> QED
            BY <1>1, <5>3, <5>4, <5>5
        <4> QED
          BY <4>1, <4>2
      <3>4. Start[y] + Length[y] <= Start[l] + Length[l]
        BY <1>1, EventsInOrder
      <3>5. Sum(Length, P \ {y}) \in Nat
        <4>1. P \ {y} \in SUBSET P
          OBVIOUS
        <4> QED
          BY <2>1, <4>1, FS_Subset, SumType
      <3>6. /\ Length[y] \in Nat /\ Start[y] \in Nat
            /\ Start[f] \in Nat /\ Start[l] \in Nat /\ Length[l] \in Nat
        BY <1>1
      <3> QED
        BY <3>2, <3>3, <3>4, <3>5, <3>6
    <2> QED
      BY <2>2, <2>3
  <1>3. \A P \in SUBSET Events : P \in C
    <2> HIDE DEF C
    <2> QED
      BY <1>0, <1>2, SubsetInduction
  <1> QED
    BY <1>3

(***************************************************************************)
(* The entries of an attempt.                                              *)
(***************************************************************************)

LEMMA SumOfOne ==
    ASSUME NEW x, NEW w, w[x] \in Nat
    PROVE  Sum(w, {x}) = w[x]
  <1>1. IsFiniteSet({x}) /\ {x} \ {x} = {}
    BY FS_Singleton
  <1>2. Sum(w, {x}) = w[x] + Sum(w, {x} \ {x})
    BY <1>1, SumRemove
  <1>3. Sum(w, {}) = 0
    BY FS_EmptySet, SumStep
  <1> QED
    BY <1>1, <1>2, <1>3

Entry(t, E) ==
    [tag |-> t, began |-> Start[Min(E)], ended |-> Start[Max(E)] + Length[Max(E)],
     duration |-> Sum(Length, E)]

\* What becomes of the rows of one tag, when no event has two of them.
LEMMA MergedEntry ==
    ASSUME NEW E \in SUBSET Events, NEW t
    PROVE  mergeTimesheetEntries(t, {[event |-> e, tag |-> t, note |-> 1] : e \in E}) = Entry(t, E)
  <1> DEFINE row(e) == [event |-> e, tag |-> t, note |-> 1]
             group == {row(e) : e \in E}
             v == [r \in group |-> Length[r.event]]
             g == [e \in E |-> row(e)]
  <1>1. {r.event : r \in group} = E
    <2>1. \A r \in group : r.event \in E
      OBVIOUS
    <2>2. ASSUME NEW e \in E PROVE \E r \in group : r.event = e
      <3>1. row(e) \in group /\ row(e).event = e
        OBVIOUS
      <3> QED
        BY <3>1
    <2> HIDE DEF group
    <2> QED
      BY <2>1, <2>2
  <1>2. IsFiniteSet(E) /\ \A e \in E : Length[e] \in Nat
    <2>1. IsFiniteSet(Events)
      BY TaggingAssumption, FS_Interval DEF Events
    <2> QED
      BY <2>1, FS_Subset, TaggingAssumption
  <1>3. IsFiniteSet(group)
    <2>1. g \in Surjection(E, group)
      BY DEF Surjection
    <2> QED
      BY <1>2, <2>1, FS_Surjection
  <1>4. MapThenSumSet(LAMBDA r : Length[r.event], group) = Sum(v, group)
    <2>1. \A r \in group : v[r] = Length[r.event]
      OBVIOUS
    <2> HIDE DEF group, v
    <2> QED
      BY <1>3, <2>1, RowSum
  <1>5. Sum(v, group) = Sum(Length, E)
    <2>1. \A e \in E : Length[e] \in Nat /\ g[e] \in group
      BY <1>2
    <2>2. ASSUME NEW r \in group PROVE v[r] = Sum(Length, Group(E, g, r))
      <3>1. PICK e \in E : r = row(e)
        OBVIOUS
      <3>2. Group(E, g, r) = {e}
        BY <3>1 DEF Group
      <3>3. v[r] = Length[e]
        BY <3>1
      <3> QED
        BY <1>2, <3>2, <3>3, SumOfOne
    <2> HIDE DEF group, v, g
    <2> QED
      BY <1>2, <1>3, <2>1, <2>2, SumByGroup
  <1>6. mergeTimesheetEntries(t, group) =
          [tag |-> t, began |-> Start[Min(E)], ended |-> Start[Max(E)] + Length[Max(E)],
           duration |-> MapThenSumSet(LAMBDA r : Length[r.event], group)]
    <2> HIDE DEF group
    <2> QED
      BY <1>1 DEF mergeTimesheetEntries
  <1> QED
    BY <1>4, <1>5, <1>6 DEF Entry

LEMMA PostedEntries ==
    ASSUME NEW S \in SUBSET Events, NEW tag,
           loadSubmissionEntries(S) = {[event |-> e, tag |-> tag[e], note |-> 1] : e \in S}
    PROVE  /\ MapThenSumSet(LAMBDA a : a.duration, Aggregate(S)) = Sum(Length, S)
           /\ \A a, b \in Aggregate(S) : /\ a.duration <= a.ended - a.began
                                         /\ a.tag = b.tag => a = b
  <1> DEFINE all == {[event |-> e, tag |-> tag[e], note |-> 1] : e \in S}
             EventsOf(t) == {e \in S : tag[e] = t}
             entries == {Entry(t, EventsOf(t)) : t \in {tag[e] : e \in S}}
             v == [a \in entries |-> a.duration]
             g == [e \in S |-> Entry(tag[e], EventsOf(tag[e]))]
  <1>1. IsFiniteSet(S) /\ \A e \in S : Length[e] \in Nat
    <2>1. IsFiniteSet(Events)
      BY TaggingAssumption, FS_Interval DEF Events
    <2> QED
      BY <2>1, FS_Subset, TaggingAssumption
  <1>2. ASSUME NEW t PROVE mergeTimesheetEntries(t, {r \in all : r.tag = t}) = Entry(t, EventsOf(t))
    <2>1. {r \in all : r.tag = t} = {[event |-> e, tag |-> t, note |-> 1] : e \in EventsOf(t)}
      OBVIOUS
    <2>2. EventsOf(t) \in SUBSET Events
      OBVIOUS
    <2> HIDE DEF all, EventsOf
    <2> QED
      BY <2>1, <2>2, MergedEntry
  <1>3. Aggregate(S) = entries
    <2>1. {r.tag : r \in all} = {tag[e] : e \in S}
      <3>1. \A r \in all : r.tag \in {tag[e] : e \in S}
        OBVIOUS
      <3>2. ASSUME NEW e \in S PROVE \E r \in all : r.tag = tag[e]
        <4>1. [event |-> e, tag |-> tag[e], note |-> 1] \in all
          OBVIOUS
        <4> QED
          BY <4>1
      <3> HIDE DEF all
      <3> QED
        BY <3>1, <3>2
    <2>2. Aggregate(S) = {mergeTimesheetEntries(t, {r \in all : r.tag = t}) : t \in {r.tag : r \in all}}
      BY DEF Aggregate
    <2> HIDE DEF all, EventsOf
    <2> QED
      BY <1>2, <2>1, <2>2
  <1>4. IsFiniteSet(entries)
    <2>1. g \in Surjection(S, entries)
      <3> HIDE DEF EventsOf
      <3> QED
        BY DEF Surjection
    <2> QED
      BY <1>1, <2>1, FS_Surjection
  <1>5. MapThenSumSet(LAMBDA a : a.duration, entries) = Sum(v, entries)
    <2>1. \A a \in entries : v[a] = a.duration
      OBVIOUS
    <2> HIDE DEF entries, v
    <2> QED
      BY <1>4, <2>1, DurationSum
  <1>6. Sum(v, entries) = Sum(Length, S)
    <2>1. \A e \in S : Length[e] \in Nat /\ g[e] \in entries
      BY <1>1
    <2>2. ASSUME NEW a \in entries PROVE v[a] = Sum(Length, Group(S, g, a))
      <3>1. PICK d \in S : a = Entry(tag[d], EventsOf(tag[d]))
        <4> HIDE DEF EventsOf
        <4> QED
          OBVIOUS
      <3>2. Group(S, g, a) = EventsOf(tag[d])
        <4>1. ASSUME NEW e \in S PROVE g[e] = a <=> tag[e] = tag[d]
          <5>1. g[e] = Entry(tag[e], EventsOf(tag[e]))
            <6> HIDE DEF EventsOf
            <6> QED
              OBVIOUS
          <5>2. g[e].tag = tag[e] /\ a.tag = tag[d]
            <6> HIDE DEF EventsOf, g
            <6> QED
              BY <3>1, <5>1 DEF Entry
          <5> HIDE DEF EventsOf, g
          <5> QED
            BY <3>1, <5>1, <5>2
        <4> HIDE DEF g
        <4> QED
          BY <4>1 DEF Group
      <3>3. v[a] = a.duration
        OBVIOUS
      <3>4. a.duration = Sum(Length, EventsOf(tag[d]))
        <4> HIDE DEF EventsOf
        <4> QED
          BY <3>1 DEF Entry
      <3> HIDE DEF EventsOf, v, g
      <3> QED
        BY <3>2, <3>3, <3>4
    <2> HIDE DEF entries, v, g
    <2> QED
      BY <1>1, <1>4, <2>1, <2>2, SumByGroup
  <1>7. ASSUME NEW a \in entries PROVE a.duration <= a.ended - a.began
    <2>1. PICK d \in S : a = Entry(tag[d], EventsOf(tag[d]))
      <3> HIDE DEF EventsOf
      <3> QED
        OBVIOUS
    <2> DEFINE E == EventsOf(tag[d])
    <2>2. E \in SUBSET Events /\ E # {}
      OBVIOUS
    <2> HIDE DEF EventsOf, E
    <2>3. /\ Min(E) \in Events /\ Max(E) \in Events /\ Min(E) <= Max(E)
          /\ \A e \in E : Min(E) <= e /\ e <= Max(E)
      BY <2>2, LeastAndGreatest
    <2>4. Sum(Length, E) <= Start[Max(E)] + Length[Max(E)] - Start[Min(E)]
      BY <2>2, <2>3, SumInSpan
    <2>5. a = Entry(tag[d], E)
      BY <2>1 DEF E
    <2>6. /\ a.duration = Sum(Length, E) /\ a.began = Start[Min(E)]
          /\ a.ended = Start[Max(E)] + Length[Max(E)]
      BY <2>5 DEF Entry
    <2>7. /\ Sum(Length, E) \in Nat /\ Start[Min(E)] \in Nat
          /\ Start[Max(E)] \in Nat /\ Length[Max(E)] \in Nat
      <3>1. E \in SUBSET S
        BY DEF E, EventsOf
      <3>2. IsFiniteSet(E) /\ \A e \in E : Length[e] \in Nat
        BY <1>1, <3>1, FS_Subset
      <3> QED
        BY <2>3, <3>2, SumType, TaggingAssumption
    <2> QED
      BY <2>4, <2>6, <2>7
  <1>8. ASSUME NEW a \in entries, NEW b \in entries, a.tag = b.tag PROVE a = b
    <2> HIDE DEF EventsOf
    <2>1. PICK t : a = Entry(t, EventsOf(t))
      OBVIOUS
    <2>2. PICK u : b = Entry(u, EventsOf(u))
      OBVIOUS
    <2>3. t = u
      BY <1>8, <2>1, <2>2 DEF Entry
    <2> QED
      BY <2>1, <2>2, <2>3
  <1> HIDE DEF entries, v
  <1> QED
    BY <1>3, <1>5, <1>6, <1>7, <1>8

\* Whatever tags and notes have been given, every attempt posts all of the time of a
\* submission and none twice, if no event has two tags or two notes.
THEOREM PostedTimeHolds == Spec => []PostedTime
  <1>1. ASSUME TaggingInv, NEW S \in SUBSET (1 .. next - 1),
               \A e \in S : Cardinality(TagsOf(e)) <= 1 /\ notes[e] <= 1
        PROVE  /\ MapThenSumSet(LAMBDA a : a.duration, Aggregate(S)) =
                      MapThenSumSet(LAMBDA e : Length[e], S)
               /\ \A a, b \in Aggregate(S) : /\ a.duration <= a.ended - a.began
                                             /\ a.tag = b.tag => a = b
    <2> DEFINE only(e) == IF TagsOf(e) = {} THEN Untagged ELSE CHOOSE t : t \in TagsOf(e)
               tag == [e \in S |-> only(e)]
    <2>1. S \in SUBSET Events /\ notes \in [Events -> Nat]
      BY <1>1, TaggingAssumption DEF TaggingInv, TypeOK, Events
    <2>2. ASSUME NEW e \in S
          PROVE  (IF TagsOf(e) = {} THEN {Untagged} ELSE TagsOf(e)) = {tag[e]}
      <3>1. CASE TagsOf(e) = {}
        BY <3>1
      <3>2. CASE TagsOf(e) # {}
        <4>1. IsFiniteSet(TagsOf(e)) /\ Cardinality(TagsOf(e)) <= 1
          BY <1>1, <2>1 DEF TaggingInv, FewTags
        <4>2. Cardinality(TagsOf(e)) = 1
          BY <3>2, <4>1, FS_CardinalityType, FS_EmptySet
        <4>3. PICK t : TagsOf(e) = {t}
          BY <4>1, <4>2, FS_Singleton
        <4> QED
          BY <4>3
      <3> QED
        BY <3>1, <3>2
    <2>3. ASSUME NEW e \in S PROVE 1 .. (IF notes[e] = 0 THEN 1 ELSE notes[e]) = {1}
      <3>1. notes[e] \in Nat /\ notes[e] <= 1
        BY <1>1, <2>1
      <3>2. (IF notes[e] = 0 THEN 1 ELSE notes[e]) = 1 /\ 1 .. 1 = {1}
        BY <3>1
      <3> QED
        BY <3>2
    <2>4. loadSubmissionEntries(S) = {[event |-> e, tag |-> tag[e], note |-> 1] : e \in S}
      <3> DEFINE Joined(e) ==
                   {[event |-> e, tag |-> t, note |-> n] :
                       t \in IF TagsOf(e) = {} THEN {Untagged} ELSE TagsOf(e),
                       n \in 1 .. IF notes[e] = 0 THEN 1 ELSE notes[e]}
                 row(e) == [event |-> e, tag |-> tag[e], note |-> 1]
      <3>1. ASSUME NEW e \in S PROVE Joined(e) = {row(e)}
        <4> DEFINE T == IF TagsOf(e) = {} THEN {Untagged} ELSE TagsOf(e)
                   K == 1 .. IF notes[e] = 0 THEN 1 ELSE notes[e]
        <4>1. T = {tag[e]} /\ K = {1}
          BY <2>2, <2>3
        <4>2. Joined(e) = {[event |-> e, tag |-> t, note |-> n] : t \in T, n \in K}
          OBVIOUS
        <4> HIDE DEF T, K, Joined, tag
        <4>3. {[event |-> e, tag |-> t, note |-> n] : t \in {tag[e]}, n \in {1}} = {row(e)}
          OBVIOUS
        <4> QED
          BY <4>1, <4>2, <4>3
      <3>2. loadSubmissionEntries(S) = UNION {Joined(e) : e \in S}
        BY DEF loadSubmissionEntries
      <3> HIDE DEF Joined, row
      <3>3. UNION {Joined(e) : e \in S} = {row(e) : e \in S}
        BY <3>1
      <3> QED
        BY <3>2, <3>3 DEF row
    <2> HIDE DEF tag
    <2>5. /\ MapThenSumSet(LAMBDA a : a.duration, Aggregate(S)) = Sum(Length, S)
          /\ \A a, b \in Aggregate(S) : /\ a.duration <= a.ended - a.began
                                        /\ a.tag = b.tag => a = b
      BY <2>1, <2>4, PostedEntries
    <2> QED
      BY <2>5, LengthSum
  <1>2. TaggingInv => PostedTime
    BY <1>1 DEF PostedTime
  <1> QED
    BY TaggingInvariant, <1>2, PTL
=============================================================================
