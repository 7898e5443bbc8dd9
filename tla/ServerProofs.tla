---------------------------- MODULE ServerProofs ----------------------------
(***************************************************************************)
(* Proofs about the server: its start (ServerStart), for any number of     *)
(* servers, migrations and faults, and what its administrators do          *)
(* (Administration), for any number of requests, any fields and values,    *)
(* any settings and any number of targets and restarts.                    *)
(***************************************************************************)
EXTENDS ServerStart, Administration, TLAPS

(***************************************************************************)
(* The start, in every deployment.  The invariant follows the rows of      *)
(* schema_migrations: they are the versions applied, or all of them after  *)
(* a takeover, or there are none yet and the schema was there before; only *)
(* then, or when another server applies the first version, is the takeover *)
(* branch entered.                                                         *)
(***************************************************************************)

\* Only deployed servers run, and each knows only what is recorded.
Processes ==
    \A s \in Servers :
        /\ pc[s] # "down" => s \in deployment.servers
        /\ applied[s] \subseteq recorded

\* Some server may take the schema for one of deploy/initdb.
Legacy == deployment.recorded = {} /\ (deployment.schema # {} \/ ~Alone(deployment))

\* What is recorded and what is there.
Tracking ==
    /\ deployment.schema \subseteq schema /\ (deployment.recorded # {} => recorded # {})
    /\ schema = {} \/ 1 \in schema
    /\ \/ recorded = schema
       \/ Legacy /\ recorded = Versions /\ schema # {}
       \/ /\ Legacy /\ recorded = {} /\ deployment.schema # {}
          /\ \A s \in Servers : pc[s] # "apply"
    /\ \A s \in Servers :
         /\ pc[s] = "legacy" => Legacy \/ (schema = {} /\ recorded = {} /\ Alone(deployment))
         /\ pc[s] = "backfill" => Legacy /\ schema # {}

\* How far a server is says what it has found or done.
Progress ==
    \A s \in Servers :
        /\ pc[s] \in {"count", "create", "listen", "up"} => recorded = Versions
        /\ pc[s] \in {"listen", "up"} /\ deployment.credentials => accounts = 1

\* A server past the secret uses the one in the file unless another replaced that,
\* and nobody replaces one that could be read.
SecretInFile ==
    /\ \A s \in Servers :
         /\ pc[s] \in {"truncate", "write"} => s \in makers
         /\ pc[s] \notin {"down", "secret", "truncate", "write"} =>
                jwtSecret[s] = secretFile \/ makers \ {s} # {}
    /\ deployment.secret = 1 /\ ~misread =>
           /\ makers = {} /\ secretFile = 1
           /\ \A s \in Servers : pc[s] \notin {"down", "secret", "truncate", "write"} => jwtSecret[s] = 1

StartInv == TypeOK /\ Processes /\ Tracking /\ Progress /\ SecretInFile

LEMMA StartInit == Init => StartInv
<1> SUFFICES ASSUME Init PROVE StartInv
  OBVIOUS
<1> deployment \in Deployment
  BY StartAssumption DEF Init
<1>0. /\ deployment.recorded \in {{}, deployment.schema} /\ deployment.schema \in {1 .. k : k \in 0 .. Latest}
      /\ deployment.recorded \subseteq Versions /\ deployment.secret \in {0, 1}
      /\ deployment.accounts \in {0, 1}
  BY DEF Deployment
<1>1. PICK k \in 0 .. Latest : deployment.schema = 1 .. k
  BY <1>0
<1>2. deployment.schema \subseteq Versions /\ (deployment.schema = {} \/ 1 \in deployment.schema)
  BY <1>1, StartAssumption DEF Versions
<1>3. TypeOK
  <2>1. secretFile \in 0 .. generated /\ generated \in Nat /\ jwtSecret \in [Servers -> 0 .. generated]
    BY <1>0 DEF Init
  <2>2. misread \in BOOLEAN
    BY Zenon DEF Init
  <2> QED
    BY <1>0, <1>2, <2>1, <2>2, StartAssumption DEF Init, TypeOK, Steps
<1>4. Processes /\ Progress
  BY DEF Init, Processes, Progress
<1>5. Tracking
  BY <1>0, <1>2 DEF Init, Tracking, Legacy
<1>6. SecretInFile
  BY DEF Init, SecretInFile
<1> QED
  BY <1>3, <1>4, <1>5, <1>6 DEF StartInv

LEMMA StartTypes == ASSUME TypeOK, [Next]_vars PROVE TypeOK'
<1> USE StartAssumption DEF TypeOK, Goto, Down, Steps, dbVars, secretVars, madeVars
<1>0. ASSUME NEW s \in Servers, ReadSecret(s) PROVE TypeOK'
  <2>1. misread' \in BOOLEAN
    BY <1>0, Zenon DEF ReadSecret
  <2> QED
    BY <1>0, <2>1 DEF ReadSecret
<1>1. ASSUME NEW s \in Servers, main(s) \/ TruncateSecret(s) PROVE TypeOK'
  BY <1>1 DEF main, TruncateSecret
<1>2. ASSUME NEW s \in Servers, WriteSecret(s) PROVE TypeOK'
  BY <1>2 DEF WriteSecret
<1>3. ASSUME NEW s \in Servers, loadAppliedVersions(s) \/ hasLegacySchema(s) \/ backfillVersions(s)
      PROVE TypeOK'
  BY <1>3 DEF loadAppliedVersions, hasLegacySchema, backfillVersions
<1>4. ASSUME NEW s \in Servers, applyOne(s) PROVE TypeOK'
  BY <1>4 DEF applyOne, NextVersion, Unapplied
<1>5. ASSUME NEW s \in Servers, ApplyReturns(s) \/ CountUsers(s) \/ Listen(s) PROVE TypeOK'
  BY <1>5 DEF ApplyReturns, CountUsers, Listen
<1>6. ASSUME NEW s \in Servers, CreateLocalUser(s) PROVE TypeOK'
  BY <1>6 DEF CreateLocalUser
<1>7. ASSUME NEW s \in Servers, Fault(s) PROVE TypeOK'
  BY <1>7 DEF Fault
<1>8. CASE UNCHANGED vars
  BY <1>8 DEF vars
<1> QED
  BY <1>0, <1>1, <1>2, <1>3, <1>4, <1>5, <1>6, <1>7, <1>8 DEF Next, run

\* In a deployment of one server no other runs.
LEMMA NoOther ==
  ASSUME Processes, Alone(deployment), NEW s \in Servers, NEW t \in Servers,
         s # t, s \in deployment.servers
  PROVE  pc[t] = "down"
BY DEF Processes, Alone

LEMMA StartStep == ASSUME StartInv, [Next]_vars PROVE StartInv'
<1>1. TypeOK /\ Processes /\ Tracking /\ Progress /\ SecretInFile /\ TypeOK'
  BY StartTypes DEF StartInv
<1> USE <1>1 DEF Goto, Down, dbVars, secretVars, madeVars, Legacy
<1>2. ASSUME NEW s \in Servers, main(s) PROVE StartInv'
  BY <1>2 DEF main, StartInv, Processes, Tracking, Progress, SecretInFile, TypeOK
<1>3. ASSUME NEW s \in Servers, ReadSecret(s) PROVE StartInv'
  <2>1. Processes' /\ Tracking' /\ Progress'
    BY <1>3 DEF ReadSecret, Processes, Tracking, Progress, TypeOK
  <2>2. SecretInFile'
    BY <1>3 DEF ReadSecret, SecretInFile, TypeOK
  <2> QED BY <2>1, <2>2 DEF StartInv
<1>4. ASSUME NEW s \in Servers, TruncateSecret(s) \/ WriteSecret(s) PROVE StartInv'
  <2>1. Processes' /\ Tracking' /\ Progress'
    BY <1>4 DEF TruncateSecret, WriteSecret, Processes, Tracking, Progress, TypeOK
  <2>2. s \in makers
    BY <1>4 DEF TruncateSecret, WriteSecret, SecretInFile
  <2>3. SecretInFile'
    BY <1>4, <2>2 DEF TruncateSecret, WriteSecret, SecretInFile, TypeOK
  <2> QED BY <2>1, <2>3 DEF StartInv
<1>6. ASSUME NEW s \in Servers, loadAppliedVersions(s) PROVE StartInv'
  <2>1. Processes' /\ Progress' /\ SecretInFile'
    BY <1>6 DEF loadAppliedVersions, Processes, Progress, SecretInFile, TypeOK
  <2>2. recorded = {} => Legacy \/ (schema = {} /\ Alone(deployment))
    BY DEF Tracking
  <2>3. Tracking'
    BY <1>6, <2>2 DEF loadAppliedVersions, Tracking, TypeOK
  <2> QED BY <2>1, <2>3 DEF StartInv
<1>7. ASSUME NEW s \in Servers, hasLegacySchema(s) PROVE StartInv'
  <2>1. Processes' /\ Progress' /\ SecretInFile'
    BY <1>7 DEF hasLegacySchema, Processes, Progress, SecretInFile, TypeOK
  <2>2. Tracking'
    BY <1>7 DEF hasLegacySchema, Tracking, TypeOK
  <2> QED BY <2>1, <2>2 DEF StartInv
<1>8. ASSUME NEW s \in Servers, backfillVersions(s) PROVE StartInv'
  BY <1>8 DEF backfillVersions, StartInv, Processes, Tracking, Progress, SecretInFile, TypeOK
<1>9. ASSUME NEW s \in Servers, applyOne(s) PROVE StartInv'
  <2>1. CASE UNCHANGED <<schema, recorded>>
    BY <1>9, <2>1 DEF applyOne, StartInv, Processes, Tracking, Progress, SecretInFile, TypeOK
  <2>2. CASE ~UNCHANGED <<schema, recorded>>
    <3>1. PICK v \in Versions :
            /\ v \notin schema /\ v \notin recorded /\ (v = 1 \/ 1 \in schema)
            /\ schema' = schema \cup {v} /\ recorded' = recorded \cup {v}
            /\ applied' = [applied EXCEPT ![s] = @ \cup {v}]
            /\ UNCHANGED <<pc, jwtSecret>>
      BY <1>9, <2>2 DEF applyOne, SQLSucceeds
    <3>2. pc[s] = "apply" /\ UNCHANGED <<deployment, accounts, secretFile, generated, madeVars>>
      BY <1>9 DEF applyOne
    <3>3. Processes' /\ SecretInFile'
      BY <3>1, <3>2 DEF Processes, SecretInFile, TypeOK
    <3>4. Progress'
      BY <3>1, <3>2 DEF Progress, TypeOK
    <3>5. recorded = schema /\ recorded' = schema' /\ schema' # {} /\ 1 \in schema'
      BY <3>1, <3>2 DEF Tracking, TypeOK
    <3>6. \A t \in Servers : pc[t] = "legacy" => Legacy
      BY <3>2, NoOther DEF Tracking, Processes
    <3>7. Tracking'
      BY <3>1, <3>2, <3>5, <3>6 DEF Tracking
    <3> QED BY <3>3, <3>4, <3>7 DEF StartInv
  <2> QED BY <2>1, <2>2
<1>10. ASSUME NEW s \in Servers, ApplyReturns(s) PROVE StartInv'
  BY <1>10 DEF ApplyReturns, Unapplied, StartInv, Processes, Tracking, Progress, SecretInFile, TypeOK
<1>11. ASSUME NEW s \in Servers, CountUsers(s) PROVE StartInv'
  BY <1>11 DEF CountUsers, StartInv, Processes, Tracking, Progress, SecretInFile, TypeOK
<1>12. ASSUME NEW s \in Servers, CreateLocalUser(s) PROVE StartInv'
  BY <1>12 DEF CreateLocalUser, StartInv, Processes, Tracking, Progress, SecretInFile, TypeOK
<1>13. ASSUME NEW s \in Servers, Listen(s) PROVE StartInv'
  BY <1>13 DEF Listen, StartInv, Processes, Tracking, Progress, SecretInFile, TypeOK
<1>14. ASSUME NEW s \in Servers, Fault(s) PROVE StartInv'
  BY <1>14 DEF Fault, StartInv, Processes, Tracking, Progress, SecretInFile, TypeOK
<1>15. CASE UNCHANGED vars
  BY <1>15 DEF vars, StartInv, Processes, Tracking, Progress, SecretInFile
<1> QED
  BY <1>2, <1>3, <1>4, <1>6, <1>7, <1>8, <1>9, <1>10, <1>11, <1>12, <1>13,
     <1>14, <1>15 DEF Next, run

\* The inductive invariant of the start.
THEOREM StartInvariant == Spec => []StartInv
<1>1. Init => StartInv
  BY StartInit
<1>2. StartInv /\ [Next]_vars => StartInv'
  BY StartStep
<1> QED
  BY <1>1, <1>2, PTL DEF Spec

\* Type correctness of the start.
THEOREM StartTypesHold == Spec => []TypeOK
<1>1. StartInv => TypeOK
  BY DEF StartInv
<1> QED
  BY <1>1, StartInvariant, PTL

\* The runner's bookkeeping is exact: a version is recorded exactly if its SQL
\* has been committed, through crashes, failures and servers that start together,
\* except that a takeover that hasLegacySchema misjudges records every version.
THEOREM RecordedApplied == Spec => []RecordedIsApplied
<1>1. StartInv => RecordedIsApplied
  BY DEF StartInv, Tracking, Legacy, MayMisjudge, RecordedIsApplied, TypeOK
<1> QED
  BY <1>1, StartInvariant, PTL

\* A server that serves has an account and, unless it or another one took over a
\* schema that was not complete, the whole schema.
THEOREM UpComplete == Spec => []UpIsComplete
<1>1. StartInv => UpIsComplete
  BY DEF StartInv, Progress, Tracking, Legacy, MayMisjudge, UpIsComplete, TypeOK
<1> QED
  BY <1>1, StartInvariant, PTL

\* The secret in use is the one that the next start will find, unless another
\* server generated one, and one that could be read is never replaced.
THEOREM SecretKept == Spec => []SecretIsKept
<1>1. StartInv => SecretIsKept
  BY DEF StartInv, SecretInFile, SecretIsKept
<1> QED
  BY <1>1, StartInvariant, PTL

\* A version is applied after all earlier ones, although servers work from what each
\* read at its start.
THEOREM InOrder == Spec => MigratedInOrder
<1> DEFINE Ordered == \A v \in schema' \ schema : 1 .. (v - 1) \subseteq recorded /\ v \notin recorded
<1>1. StartInv /\ [Next]_vars => [Ordered]_vars
  <2> SUFFICES ASSUME StartInv, [Next]_vars, NEW v \in schema' \ schema
               PROVE  1 .. (v - 1) \subseteq recorded /\ v \notin recorded
    BY DEF StartInv
  <2>1. PICK s \in Servers : applyOne(s)
    BY DEF Next, run, Fault, main, ReadSecret, TruncateSecret, WriteSecret, loadAppliedVersions,
       hasLegacySchema, backfillVersions, ApplyReturns, CountUsers, CreateLocalUser, Listen, vars, dbVars
  <2>2. NextVersion(s, v) /\ v \notin recorded
    BY <2>1 DEF applyOne
  <2>3. v \in Versions /\ \A w \in Versions : w < v => w \in applied[s]
    BY <2>2, StartAssumption DEF NextVersion, Unapplied, Versions
  <2>4. applied[s] \subseteq recorded
    BY DEF StartInv, Processes
  <2> QED
    BY <2>2, <2>3, <2>4, StartAssumption DEF Versions
<1> QED
  BY <1>1, StartInvariant, PTL DEF Spec, MigratedInOrder

(***************************************************************************)
(* Administration.                                                         *)
(***************************************************************************)

\* What a request that is under way holds is still so when it uses it: contents the
\* entry has had, the change that is to be logged, a binary that is there, a key.
RequestKnows(r) ==
    LET q == req[r]
    IN  /\ q.step = "write" => q.old \in had \ {Gone} /\ (q.kind = "edit" => q.new \in Corrections)
        /\ q.step = "log" => /\ [by |-> r, kind |-> q.kind, new |-> q.new] \in changed
                             /\ q.kind # "revoke" => q.old \in had \ {Gone}
        /\ q.step = "upsert" => q.old \in Settings /\ q.new \in Given
        /\ q.step = "store" => q.old \in Settings
        /\ q.step \in {"key", "patch"} => q.new \in cached
        /\ q.step = "patch" => keys[r] # "none"

\* What sign-on uses of the settings is what every request holds that has read them.
HeldIsCurrent ==
    disturbed \/ \A r \in Requests : HoldsSettings(r) => Provider(req[r].old) = Provider(settings)

AdminInv ==
    /\ admTypeOK /\ entry \in had /\ HeldIsCurrent /\ \A r \in Requests : RequestKnows(r)
    /\ AuditMatches /\ OIDCFollowsSettings /\ KeysAccountedFor

LEMMA AdminInit == admInit => AdminInv
  <1> SUFFICES ASSUME admInit PROVE AdminInv
    OBVIOUS
  <1>1. {building, disturbed} \subseteq BOOLEAN /\ ~disturbed
    BY Zenon DEF admInit
  <1>2. \A r \in Requests : req[r] = NewRequest
    BY DEF admInit
  <1>3. admTypeOK
    BY <1>1, <1>2, AdministrationAssumption DEF admInit, admTypeOK, IsRequest
  <1>4. \A r \in Requests : RequestKnows(r)
    BY <1>2 DEF RequestKnows, NewRequest
  <1>5. HeldIsCurrent
    BY <1>2 DEF HeldIsCurrent, HoldsSettings, At, NewRequest
  <1>6. AuditMatches /\ OIDCFollowsSettings /\ KeysAccountedFor
    BY DEF admInit, AuditMatches, OIDCFollowsSettings, KeysAccountedFor
  <1> QED
    BY <1>3, <1>4, <1>5, <1>6 DEF AdminInv, admInit

\* A step of one request leaves the others alone.
LEMMA OneRequest ==
    ASSUME admTypeOK, NEW r \in Requests, NEW q, req' = [req EXCEPT ![r] = q]
    PROVE  /\ req' = [x \in Requests |-> req'[x]] /\ req'[r] = q
           /\ \A x \in Requests : x # r => req'[x] = req[x]
           /\ IsRequest(q) => \A x \in Requests : IsRequest(req'[x])
  <1>1. req = [x \in Requests |-> req[x]] /\ \A x \in Requests : IsRequest(req[x])
    BY DEF admTypeOK
  <1>2. /\ req' = [x \in Requests |-> req'[x]] /\ req'[r] = q
        /\ \A x \in Requests : x # r => req'[x] = req[x]
    BY <1>1
  <1> QED
    BY <1>1, <1>2

\* What the step of a request says of its kind and what it holds.
LEMMA RequestAt ==
    ASSUME admTypeOK, NEW r \in Requests
    PROVE  /\ DOMAIN req[r] = {"kind", "step", "old", "new"}
           /\ req[r].step = "write" =>
                  \/ req[r] \in [kind : {"edit"}, step : {"write", "log", "done"},
                                old : Entries \cup {None}, new : Corrections \cup Entries]
                  \/ req[r] \in [kind : {"delete"}, step : {"write", "log", "done"},
                                old : Entries \cup {None}, new : {None, Gone}]
           /\ req[r].step = "log" => req[r].kind \in {"edit", "delete", "revoke"}
           /\ req[r].step \in {"upsert", "clear"} =>
                  req[r] \in [kind : {"settings"}, step : {"upsert", "clear", "done"},
                             old : Settings \cup {None}, new : Given \cup {None}]
           /\ req[r].step = "store" =>
                  req[r] \in [kind : {"login"}, step : {"store", "done"},
                             old : Settings \cup {None}, new : {None}]
           /\ req[r].step \in {"key", "patch"} =>
                  req[r] \in [kind : {"download"}, step : {"key", "patch", "done"},
                             old : {None}, new : Targets]
  <1>1. IsRequest(req[r])
    BY DEF admTypeOK
  <1> QED
    BY <1>1 DEF IsRequest, NewRequest

\* A request may always end.
LEMMA MayEnd ==
    ASSUME admTypeOK, NEW r \in Requests, req[r].step # "new"
    PROVE  IsRequest([req[r] EXCEPT !.step = "done"])
  <1>1. IsRequest(req[r])
    BY DEF admTypeOK
  <1> QED
    BY <1>1 DEF IsRequest, NewRequest

\* The contents that a correction makes.
LEMMA PatchedIsEntry ==
    ASSUME NEW e \in Entries, NEW p \in Corrections PROVE Patched(e, p) \in Entries
  <1>1. PICK F \in SUBSET Fields : p \in [F -> Values]
    BY AdministrationAssumption
  <1> QED
    BY <1>1 DEF Patched, Entries

\* What is saved of the settings, the mask taken out.
LEMMA GivenWithoutMask ==
    ASSUME NEW p \in Saves PROVE [p EXCEPT !.secret = GivenSecret(@)] \in Given
  <1>1. p \in [tenant : Tenants \cup {Unset, None}, name : Names \cup {Unset, None},
              secret : Secrets \cup {Masked, Unset, None}]
    BY AdministrationAssumption
  <1> QED
    BY <1>1 DEF Given, GivenSecret

\* Every step keeps the types.
LEMMA AdminTypes ==
    ASSUME admTypeOK, \A r \in Requests : RequestKnows(r), [admNext]_admVars PROVE admTypeOK'
  <1> DEFINE Types == /\ entry \in Entries \cup {Gone} /\ had \subseteq Entries \cup {Gone}
                      /\ \A c \in audit \cup changed :
                             c.by \in Requests /\ c.kind \in {"edit", "delete", "revoke"}
                      /\ settings \in Settings
                      /\ keys \in [Requests -> {"none", "active", "revoked"}]
                      /\ cached \subseteq Targets /\ crashes \in 0 .. MaxCrashes
                      /\ failed \subseteq Requests /\ delivered \subseteq Requests
             Requested == /\ req' = [x \in Requests |-> req'[x]]
                          /\ \A x \in Requests : IsRequest(req'[x])
             SignOnTypes == /\ oidc' \in {Unset, FromEnv}
                               \cup [tenant : Tenants \cup {Unset}, secret : Secrets \cup {Unset}]
                            /\ {building', disturbed'} \subseteq BOOLEAN
  <1>0. Types
    BY DEF admTypeOK
  <1>1. ASSUME Requested, Types', UNCHANGED <<oidc, building, disturbed>> PROVE admTypeOK'
    <2>1. {building', disturbed'} \subseteq BOOLEAN
      BY <1>1, Zenon DEF admTypeOK
    <2> QED
      BY <1>1, <2>1 DEF admTypeOK
  <1>2. ASSUME NEW r \in Requests, NEW q, req' = [req EXCEPT ![r] = q], IsRequest(q) PROVE Requested
    BY <1>2, OneRequest
  <1>3. ASSUME NEW r \in Requests, req[r].step # "new", Proceed(r, "done") PROVE Requested
    <2>1. req' = [req EXCEPT ![r] = [req[r] EXCEPT !.step = "done"]]
      BY <1>3 DEF Proceed
    <2> QED
      BY <1>2, <1>3, <2>1, MayEnd
  <1>4. ASSUME NEW r \in Requests, NEW p \in Corrections, GetTimesheetEntry(r, "edit", p)
        PROVE  admTypeOK'
    <2>1. PICK q : req' = [req EXCEPT ![r] = q] /\ IsRequest(q)
      BY <1>0, <1>4 DEF GetTimesheetEntry, Arrive, IsRequest
    <2>2. Types' /\ UNCHANGED <<oidc, building, disturbed>>
      BY <1>0, <1>4 DEF GetTimesheetEntry, ledger, signOn, downloads
    <2> QED
      BY <1>1, <1>2, <2>1, <2>2
  <1>5. ASSUME NEW r \in Requests, GetTimesheetEntry(r, "delete", None) PROVE admTypeOK'
    <2>1. PICK q : req' = [req EXCEPT ![r] = q] /\ IsRequest(q)
      BY <1>0, <1>5 DEF GetTimesheetEntry, Arrive, IsRequest
    <2>2. Types' /\ UNCHANGED <<oidc, building, disturbed>>
      BY <1>0, <1>5 DEF GetTimesheetEntry, ledger, signOn, downloads
    <2> QED
      BY <1>1, <1>2, <2>1, <2>2
  <1>6. ASSUME NEW r \in Requests, UpdateTimesheetEntry(r) PROVE admTypeOK'
    <2>1. req[r].step = "write" /\ req[r].kind = "edit"
          /\ UNCHANGED <<audit, settings, keys, cached, crashes, delivered, oidc, building, disturbed>>
      BY <1>6 DEF UpdateTimesheetEntry, At, signOn, downloads
    <2>2. CASE entry # Gone /\ Change(r, Patched(entry, req[r].new))
      <3> DEFINE v == Patched(entry, req[r].new)
      <3>1. v \in Entries
        BY <1>0, <2>1, <2>2, PatchedIsEntry DEF RequestKnows
      <3>2. \/ req' = [req EXCEPT ![r] = [req[r] EXCEPT !.step = "log", !.new = v]]
            \/ Proceed(r, "done")
        BY <2>2 DEF Change, Fails, admTypeOK
      <3>3. IsRequest([req[r] EXCEPT !.step = "log", !.new = v])
        BY <2>1, <3>1, RequestAt DEF IsRequest
      <3>4. Types'
        BY <1>0, <2>1, <2>2, <3>1 DEF Change, Fails
      <3>5. Requested
        BY <1>2, <1>3, <2>1, <3>2, <3>3
      <3> QED
        BY <1>1, <2>1, <3>4, <3>5
    <2>3. CASE entry = Gone /\ Proceed(r, "done") /\ UNCHANGED <<entry, had, changed, failed>>
      BY <1>0, <1>1, <1>3, <2>1, <2>3
    <2>4. CASE WriteFails(r)
      BY <1>0, <1>1, <1>3, <2>1, <2>4 DEF WriteFails, Fails
    <2> QED
      BY <1>6, <2>2, <2>3, <2>4 DEF UpdateTimesheetEntry
  <1>7. ASSUME NEW r \in Requests, DeleteTimesheetEntry(r) PROVE admTypeOK'
    <2>1. req[r].step = "write" /\ req[r].kind = "delete"
          /\ UNCHANGED <<audit, settings, keys, cached, crashes, delivered, oidc, building, disturbed>>
      BY <1>7 DEF DeleteTimesheetEntry, At, signOn, downloads
    <2>2. CASE entry # Gone /\ Change(r, Gone)
      <3>1. \/ req' = [req EXCEPT ![r] = [req[r] EXCEPT !.step = "log", !.new = Gone]]
            \/ Proceed(r, "done")
        BY <2>2 DEF Change, Fails, admTypeOK
      <3>2. IsRequest([req[r] EXCEPT !.step = "log", !.new = Gone])
        BY <2>1, RequestAt DEF IsRequest
      <3>3. Types'
        BY <1>0, <2>1, <2>2 DEF Change, Fails
      <3>4. Requested
        BY <1>2, <1>3, <2>1, <3>1, <3>2
      <3> QED
        BY <1>1, <2>1, <3>3, <3>4
    <2>3. CASE entry = Gone /\ Proceed(r, "done") /\ UNCHANGED <<entry, had, changed, failed>>
      BY <1>0, <1>1, <1>3, <2>1, <2>3
    <2>4. CASE WriteFails(r)
      BY <1>0, <1>1, <1>3, <2>1, <2>4 DEF WriteFails, Fails
    <2> QED
      BY <1>7, <2>2, <2>3, <2>4 DEF DeleteTimesheetEntry
  <1>8. ASSUME NEW r \in Requests, NEW k \in Requests, RevokeAPIKey(r, k) PROVE admTypeOK'
    <2> DEFINE q(step) == [kind |-> "revoke", step |-> step, old |-> None, new |-> k]
    <2>1. \E step \in {"log", "done"} : req' = [req EXCEPT ![r] = q(step)] /\ IsRequest(q(step))
      <3>1. \E step \in {"log", "done"} : req' = [req EXCEPT ![r] = q(step)]
        BY <1>8 DEF RevokeAPIKey, Arrive
      <3>2. \A step \in {"log", "done"} : IsRequest(q(step))
        BY DEF IsRequest
      <3> QED
        BY <3>1, <3>2
    <2>2. /\ keys' = [keys EXCEPT ![k] = "revoked"]
          /\ changed' = changed \cup {[by |-> r, kind |-> "revoke", new |-> k]}
          /\ failed' \subseteq failed \cup {r}
          /\ UNCHANGED <<entry, audit, had, signOn, cached, building, delivered, crashes>>
      BY <1>8 DEF RevokeAPIKey
    <2>3. Types' /\ UNCHANGED <<oidc, building, disturbed>>
      BY <1>0, <2>2 DEF signOn
    <2> QED
      BY <1>1, <1>2, <2>1, <2>3
  <1>9. ASSUME NEW r \in Requests, CreateAuditLog(r) PROVE admTypeOK'
    <2>1. Requested
      BY <1>3, <1>9 DEF CreateAuditLog, Fails
    <2>2. req[r].kind \in {"edit", "delete", "revoke"}
      BY <1>9, RequestAt DEF CreateAuditLog
    <2>3. Types' /\ UNCHANGED <<oidc, building, disturbed>>
      BY <1>0, <1>9, <2>2 DEF CreateAuditLog, Fails, signOn, downloads
    <2> QED
      BY <1>1, <2>1, <2>3
  <1>10. ASSUME NEW r \in Requests, NEW p \in Saves, GetOrgSettings(r, p) PROVE admTypeOK'
    <2>1. PICK q : req' = [req EXCEPT ![r] = q] /\ IsRequest(q)
      BY <1>0, <1>10, GivenWithoutMask DEF GetOrgSettings, Arrive, IsRequest
    <2>2. Types' /\ UNCHANGED <<oidc, building, disturbed>>
      BY <1>0, <1>10 DEF GetOrgSettings, ledger, signOn, downloads
    <2> QED
      BY <1>1, <1>2, <2>1, <2>2
  <1>11. ASSUME Requested, Types', SignOnTypes PROVE admTypeOK'
    BY <1>11 DEF admTypeOK
  <1>12. ASSUME NEW r \in Requests, UpsertOrgSettings(r) PROVE admTypeOK'
    <2>1. At(r, "settings", "upsert") /\ UNCHANGED <<ledger, oidc, downloads, crashes>>
      BY <1>12 DEF UpsertOrgSettings
    <2>2. {building', disturbed'} \subseteq BOOLEAN
      BY <1>12, Zenon DEF UpsertOrgSettings, SaveSettings, downloads, admTypeOK
    <2>3. SignOnTypes
      BY <2>1, <2>2 DEF admTypeOK
    <2>4. ASSUME NEW heard, SaveSettings(r, heard) PROVE settings' \in Settings
      <3>1. req[r].old \in Settings /\ req[r].new \in Given
        BY <2>1 DEF RequestKnows, At
      <3> QED
        BY <2>4, <3>1 DEF SaveSettings, Updated, Settings, Given
    <2>5. settings' \in Settings /\ failed' \subseteq Requests
      BY <1>0, <1>12, <2>4 DEF UpsertOrgSettings, Fails
    <2>6. \E step \in {"done", "clear"} : Proceed(r, step)
      BY <1>12 DEF UpsertOrgSettings, Fails
    <2>7. \A step \in {"done", "clear"} : IsRequest([req[r] EXCEPT !.step = step])
      BY <2>1, RequestAt DEF At, IsRequest
    <2>8. Requested
      BY <1>2, <2>6, <2>7 DEF Proceed
    <2>9. Types'
      BY <1>0, <2>1, <2>5 DEF ledger, downloads
    <2> QED
      BY <1>11, <2>3, <2>8, <2>9
  <1>13. ASSUME NEW r \in Requests, ClearOIDCConfig(r) PROVE admTypeOK'
    <2>1. Requested
      BY <1>3, <1>13 DEF ClearOIDCConfig, At
    <2>2. {building', disturbed'} \subseteq BOOLEAN
      BY <1>13, Zenon DEF ClearOIDCConfig, downloads, admTypeOK
    <2>3. Types' /\ SignOnTypes
      BY <1>0, <1>13, <2>2 DEF ClearOIDCConfig, ledger, downloads
    <2> QED
      BY <1>11, <2>1, <2>3
  <1>14. ASSUME NEW r \in Requests, Login(r) PROVE admTypeOK'
    <2>1. PICK q : req' = [req EXCEPT ![r] = q] /\ IsRequest(q)
      BY <1>0, <1>14 DEF Login, Arrive, IsRequest
    <2>2. Types' /\ UNCHANGED <<oidc, building, disturbed>>
      BY <1>0, <1>14 DEF Login, ledger, signOn, downloads
    <2> QED
      BY <1>1, <1>2, <2>1, <2>2
  <1>15. ASSUME NEW r \in Requests, InitProvider(r) PROVE admTypeOK'
    <2>1. At(r, "login", "store") /\ UNCHANGED <<ledger, settings, downloads, crashes>>
      BY <1>15 DEF InitProvider
    <2>2. Requested /\ failed' \subseteq Requests
      BY <1>0, <1>3, <1>15, <2>1 DEF InitProvider, Fails, At
    <2>3. oidc' = Provider(req[r].old) \/ oidc' = oidc
      BY <1>15 DEF InitProvider
    <2>4. Provider(req[r].old) \in [tenant : Tenants \cup {Unset}, secret : Secrets \cup {Unset}]
      BY <2>1 DEF At, RequestKnows, Provider, Settings
    <2>5. {building', disturbed'} \subseteq BOOLEAN
      BY <1>15, Zenon DEF InitProvider, downloads, admTypeOK
    <2>6. SignOnTypes
      BY <2>3, <2>4, <2>5 DEF admTypeOK
    <2>7. Types'
      BY <1>0, <2>1, <2>2 DEF ledger, downloads
    <2> QED
      BY <1>11, <2>2, <2>6, <2>7
  <1>16. ASSUME NEW r \in Requests, NEW t \in Targets, Download(r, t) PROVE admTypeOK'
    <2> DEFINE q(step) == [kind |-> "download", step |-> step, old |-> None, new |-> t]
    <2>1. \E step \in {"key", "done"} : req' = [req EXCEPT ![r] = q(step)] /\ IsRequest(q(step))
      <3>1. \E step \in {"key", "done"} : req' = [req EXCEPT ![r] = q(step)]
        BY <1>16 DEF Download, Arrive
      <3>2. \A step \in {"key", "done"} : IsRequest(q(step))
        BY DEF IsRequest
      <3> QED
        BY <3>1, <3>2
    <2>2. Types' /\ UNCHANGED <<oidc, building, disturbed>>
      BY <1>0, <1>16 DEF Download, ledger, signOn, downloads
    <2> QED
      BY <1>1, <1>2, <2>1, <2>2
  <1>17. ASSUME NEW r \in Requests, CreateAPIKey(r) PROVE admTypeOK'
    <2>1. /\ At(r, "download", "key")
          /\ UNCHANGED <<ledger, signOn, cached, building, delivered, crashes>>
      BY <1>17 DEF CreateAPIKey
    <2>2. CASE keys' = [keys EXCEPT ![r] = "active"] /\ Proceed(r, "patch") /\ UNCHANGED failed
      <3>1. req' = [req EXCEPT ![r] = [req[r] EXCEPT !.step = "patch"]]
        BY <2>2 DEF Proceed
      <3>2. IsRequest([req[r] EXCEPT !.step = "patch"])
        BY <2>1, RequestAt DEF At, IsRequest
      <3>3. Types' /\ UNCHANGED <<oidc, building, disturbed>>
        BY <1>0, <2>1, <2>2 DEF ledger, signOn
      <3> QED
        BY <1>1, <1>2, <3>1, <3>2, <3>3
    <2>3. CASE Fails(r) /\ keys' \in {keys, [keys EXCEPT ![r] = "active"]}
      BY <1>0, <1>1, <1>3, <2>1, <2>3 DEF Fails, At, ledger, signOn
    <2> QED
      BY <1>17, <2>2, <2>3 DEF CreateAPIKey
  <1>18. ASSUME NEW r \in Requests, Patch(r) PROVE admTypeOK'
    <2>1. Requested
      BY <1>3, <1>18 DEF Patch, Fails, At
    <2>2. Types' /\ UNCHANGED <<oidc, building, disturbed>>
      BY <1>0, <1>18 DEF Patch, Fails, ledger, signOn
    <2> QED
      BY <1>1, <2>1, <2>2
  <1>19. CASE PreBuild
    <2>1. {building', disturbed'} \subseteq BOOLEAN
      BY <1>19, Zenon DEF PreBuild, signOn, admTypeOK
    <2>2. Types' /\ SignOnTypes
      BY <1>0, <1>19, <2>1 DEF PreBuild, ledger, signOn, admTypeOK
    <2>3. Requested
      BY <1>19 DEF PreBuild, admTypeOK
    <2> QED
      BY <1>11, <2>2, <2>3
  <1>20. CASE Restart
    <2>1. {building', disturbed'} \subseteq BOOLEAN
      BY <1>20, Zenon DEF Restart, admTypeOK
    <2>2. Types' /\ SignOnTypes
      BY <1>0, <1>20, <2>1, AdministrationAssumption DEF Restart, ledger, InProgress
    <2>3. Requested
      <3>1. req' = [r \in Requests |-> IF r \in InProgress THEN [req[r] EXCEPT !.step = "done"]
                                       ELSE req[r]]
        BY <1>20 DEF Restart
      <3>2. \A r \in Requests : IsRequest(IF r \in InProgress THEN [req[r] EXCEPT !.step = "done"]
                                          ELSE req[r])
        BY MayEnd DEF InProgress, admTypeOK
      <3> QED
        BY <3>1, <3>2
    <2> QED
      BY <1>11, <2>2, <2>3
  <1>21. CASE UNCHANGED admVars
    <2>1. Requested /\ Types' /\ UNCHANGED <<oidc, building, disturbed>>
      BY <1>0, <1>21 DEF admVars, ledger, signOn, downloads, admTypeOK
    <2> QED
      BY <1>1, <2>1
  <1> QED
    BY <1>4, <1>5, <1>6, <1>7, <1>8, <1>9, <1>10, <1>12, <1>13, <1>14, <1>15, <1>16, <1>17,
       <1>18, <1>19, <1>20, <1>21 DEF admNext, Handle

\* The histories, the log and the keys only grow.
LEMMA NothingForgotten ==
    ASSUME admTypeOK, entry \in had, [admNext]_admVars
    PROVE  /\ entry' \in had' /\ had \subseteq had' /\ changed \subseteq changed'
           /\ audit \subseteq audit' /\ failed \subseteq failed' /\ delivered \subseteq delivered'
           /\ \A x \in Requests : keys[x] # "none" => keys'[x] # "none"
           /\ cached \subseteq cached' \/ Restart
  <1> DEFINE Grows == /\ entry' \in had' /\ had \subseteq had' /\ changed \subseteq changed'
                      /\ audit \subseteq audit' /\ failed \subseteq failed'
                      /\ delivered \subseteq delivered'
                      /\ \A x \in Requests : keys[x] # "none" => keys'[x] # "none"
                      /\ cached \subseteq cached' \/ Restart
  <1>0. keys \in [Requests -> {"none", "active", "revoked"}]
    BY DEF admTypeOK
  <1>1. ASSUME NEW r \in Requests, UpdateTimesheetEntry(r) \/ DeleteTimesheetEntry(r) PROVE Grows
    BY <1>1 DEF UpdateTimesheetEntry, DeleteTimesheetEntry, Change, WriteFails, Fails, downloads
  <1>2. ASSUME NEW r \in Requests, NEW k \in Requests, RevokeAPIKey(r, k) PROVE Grows
    BY <1>0, <1>2 DEF RevokeAPIKey
  <1>3. ASSUME NEW r \in Requests,
               \/ CreateAuditLog(r) \/ UpsertOrgSettings(r) \/ ClearOIDCConfig(r)
               \/ Login(r) \/ InitProvider(r) \/ CreateAPIKey(r) \/ Patch(r)
        PROVE  Grows
    BY <1>0, <1>3 DEF CreateAuditLog, UpsertOrgSettings, ClearOIDCConfig, Login, InitProvider,
       CreateAPIKey, Patch, Fails, ledger, downloads
  <1>4. ASSUME UNCHANGED <<ledger, downloads>>, failed \subseteq failed' PROVE Grows
    BY <1>4 DEF ledger, downloads
  <1>5. ASSUME NEW r \in Requests,
               \/ \E p \in Corrections : GetTimesheetEntry(r, "edit", p)
               \/ GetTimesheetEntry(r, "delete", None)
               \/ \E p \in Saves : GetOrgSettings(r, p)
               \/ \E t \in Targets : Download(r, t)
        PROVE  Grows
    BY <1>4, <1>5 DEF GetTimesheetEntry, GetOrgSettings, Download
  <1>6. ASSUME PreBuild \/ Restart \/ UNCHANGED admVars PROVE Grows
    BY <1>6 DEF PreBuild, Restart, admVars, ledger, downloads
  <1> HIDE DEF Grows
  <1>7. ASSUME NEW r \in Requests, Handle(r) PROVE Grows
    BY <1>1, <1>2, <1>3, <1>5, <1>7 DEF Handle
  <1> QED
    BY <1>6, <1>7 DEF admNext, Grows

\* What a request knows while others take steps.
LEMMA StillKnows ==
    ASSUME AdminInv, [admNext]_admVars, NEW x \in Requests, req'[x] = req[x], cached \subseteq cached'
    PROVE  RequestKnows(x)'
  <1>1. RequestKnows(x)
    BY DEF AdminInv
  <1>2. had \subseteq had' /\ changed \subseteq changed' /\ (keys[x] # "none" => keys'[x] # "none")
    BY NothingForgotten DEF AdminInv
  <1> QED
    BY <1>1, <1>2 DEF RequestKnows

\* Every step keeps what the requests know.
LEMMA KnowledgeStep ==
    ASSUME AdminInv, [admNext]_admVars PROVE \A x \in Requests : RequestKnows(x)'
  <1> USE DEF AdminInv
  <1>1. ASSUME NEW r \in Requests, NEW q, req' = [req EXCEPT ![r] = q], cached \subseteq cached',
               RequestKnows(r)'
        PROVE  \A x \in Requests : RequestKnows(x)'
    BY <1>1, OneRequest, StillKnows
  <1>2. ASSUME NEW r \in Requests, req'[r].step \in {"clear", "done"} PROVE RequestKnows(r)'
    BY <1>2 DEF RequestKnows
  <1>3. ASSUME NEW r \in Requests, NEW step \in {"clear", "done"}, Proceed(r, step),
               cached \subseteq cached'
        PROVE  \A x \in Requests : RequestKnows(x)'
    <2>1. req' = [req EXCEPT ![r] = [req[r] EXCEPT !.step = step]]
      BY <1>3 DEF Proceed
    <2>2. req'[r].step = step
      BY <2>1, OneRequest, RequestAt
    <2> QED
      BY <1>1, <1>2, <1>3, <2>1, <2>2
  <1>4. ASSUME NEW r \in Requests, NEW kind \in {"edit", "delete"}, NEW p,
               kind = "edit" => p \in Corrections, GetTimesheetEntry(r, kind, p)
        PROVE  \A x \in Requests : RequestKnows(x)'
    <2>1. /\ \/ req' = [req EXCEPT ![r] = [kind |-> kind, step |-> "done", old |-> None, new |-> p]]
             \/ /\ req' = [req EXCEPT ![r] = [kind |-> kind, step |-> "write", old |-> entry, new |-> p]]
                /\ entry # Gone
          /\ cached' = cached /\ had' = had
      BY <1>4 DEF GetTimesheetEntry, Arrive, ledger, downloads
    <2>2. RequestKnows(r)'
      BY <1>4, <2>1, OneRequest DEF RequestKnows
    <2> QED
      BY <1>1, <2>1, <2>2
  <1>5. ASSUME NEW r \in Requests, NEW v, req[r].step = "write", Change(r, v), cached' = cached
        PROVE  \A x \in Requests : RequestKnows(x)'
    <2>0. CASE Fails(r)
      BY <1>3, <1>5, <2>0 DEF Fails
    <2> SUFFICES ASSUME ~Fails(r) PROVE \A x \in Requests : RequestKnows(x)'
      BY <2>0
    <2>1. req' = [req EXCEPT ![r] = [req[r] EXCEPT !.step = "log", !.new = v]]
      BY <1>5 DEF Change, admTypeOK
    <2>2. req'[r] = [req[r] EXCEPT !.step = "log", !.new = v]
      BY <2>1, OneRequest
    <2>3. req'[r].kind = req[r].kind /\ req'[r].old = req[r].old /\ req'[r].step = "log"
          /\ req'[r].new = v
      BY <2>2, RequestAt
    <2>4. req[r].old \in had' \ {Gone}
      BY <1>5 DEF RequestKnows, Change
    <2>5. [by |-> r, kind |-> req[r].kind, new |-> v] \in changed'
      BY <1>5 DEF Change
    <2>6. RequestKnows(r)'
      BY <2>3, <2>4, <2>5 DEF RequestKnows
    <2> QED
      BY <1>1, <1>5, <2>1, <2>6
  <1>6. ASSUME NEW r \in Requests, UpdateTimesheetEntry(r) \/ DeleteTimesheetEntry(r)
        PROVE  \A x \in Requests : RequestKnows(x)'
    BY <1>3, <1>5, <1>6 DEF UpdateTimesheetEntry, DeleteTimesheetEntry, At, WriteFails, Fails, downloads
  <1>7. ASSUME NEW r \in Requests, NEW k \in Requests, RevokeAPIKey(r, k)
        PROVE  \A x \in Requests : RequestKnows(x)'
    <2>1. /\ \/ req' = [req EXCEPT ![r] = [kind |-> "revoke", step |-> "log", old |-> None, new |-> k]]
             \/ req' = [req EXCEPT ![r] = [kind |-> "revoke", step |-> "done", old |-> None, new |-> k]]
          /\ cached' = cached
          /\ changed' = changed \cup {[by |-> r, kind |-> "revoke", new |-> k]}
      BY <1>7 DEF RevokeAPIKey, Arrive
    <2>2. RequestKnows(r)'
      BY <2>1, OneRequest DEF RequestKnows
    <2> QED
      BY <1>1, <2>1, <2>2
  <1>8. ASSUME NEW r \in Requests, CreateAuditLog(r) \/ ClearOIDCConfig(r)
        PROVE  \A x \in Requests : RequestKnows(x)'
    BY <1>3, <1>8 DEF CreateAuditLog, ClearOIDCConfig, Fails, downloads
  <1>9. ASSUME NEW r \in Requests, NEW p \in Saves, GetOrgSettings(r, p)
        PROVE  \A x \in Requests : RequestKnows(x)'
    <2> DEFINE given == [p EXCEPT !.secret = GivenSecret(@)]
    <2>1. /\ \/ req' = [req EXCEPT ![r] = [kind |-> "settings", step |-> "upsert", old |-> settings,
                                          new |-> given]]
             \/ req' = [req EXCEPT ![r] = [kind |-> "settings", step |-> "done", old |-> None,
                                          new |-> None]]
          /\ cached' = cached
      BY <1>9 DEF GetOrgSettings, Arrive, downloads
    <2>2. given \in Given /\ settings \in Settings
      BY GivenWithoutMask DEF admTypeOK
    <2> HIDE DEF given
    <2>3. RequestKnows(r)'
      BY <2>1, <2>2, OneRequest DEF RequestKnows
    <2> QED
      BY <1>1, <2>1, <2>3
  <1>10. ASSUME NEW r \in Requests, UpsertOrgSettings(r) \/ InitProvider(r) \/ Patch(r)
         PROVE  \A x \in Requests : RequestKnows(x)'
    BY <1>3, <1>10 DEF UpsertOrgSettings, InitProvider, Patch, Fails, downloads
  <1>11. ASSUME NEW r \in Requests, Login(r) PROVE \A x \in Requests : RequestKnows(x)'
    <2>1. /\ \/ req' = [req EXCEPT ![r] = [kind |-> "login", step |-> "done", old |-> None, new |-> None]]
             \/ req' = [req EXCEPT ![r] = [kind |-> "login", step |-> "store", old |-> settings,
                                          new |-> None]]
          /\ cached' = cached
      BY <1>11 DEF Login, Arrive, downloads
    <2>2. RequestKnows(r)'
      BY <2>1, OneRequest DEF RequestKnows, admTypeOK
    <2> QED
      BY <1>1, <2>1, <2>2
  <1>12. ASSUME NEW r \in Requests, NEW t \in Targets, Download(r, t)
         PROVE  \A x \in Requests : RequestKnows(x)'
    <2>1. /\ \/ req' = [req EXCEPT ![r] = [kind |-> "download", step |-> "done", old |-> None, new |-> t]]
             \/ /\ req' = [req EXCEPT ![r] = [kind |-> "download", step |-> "key", old |-> None,
                                             new |-> t]]
                /\ t \in cached
          /\ cached' = cached
      BY <1>12 DEF Download, IsCached, Arrive, downloads
    <2>2. RequestKnows(r)'
      BY <2>1, OneRequest DEF RequestKnows
    <2> QED
      BY <1>1, <2>1, <2>2
  <1>13. ASSUME NEW r \in Requests, CreateAPIKey(r) PROVE \A x \in Requests : RequestKnows(x)'
    <2>1. CASE Fails(r)
      BY <1>3, <1>13, <2>1 DEF CreateAPIKey, Fails
    <2>2. CASE keys' = [keys EXCEPT ![r] = "active"] /\ Proceed(r, "patch")
      <3>1. req' = [req EXCEPT ![r] = [req[r] EXCEPT !.step = "patch"]] /\ cached' = cached
        BY <1>13, <2>2 DEF CreateAPIKey, Proceed
      <3>2. req'[r].step = "patch" /\ req'[r].new = req[r].new
        <4>1. req'[r] = [req[r] EXCEPT !.step = "patch"]
          BY <3>1, OneRequest
        <4> QED
          BY <4>1, RequestAt
      <3>3. req[r].new \in cached
        BY <1>13 DEF CreateAPIKey, At, RequestKnows
      <3>4. keys'[r] # "none"
        BY <2>2 DEF admTypeOK
      <3>5. RequestKnows(r)'
        BY <3>1, <3>2, <3>3, <3>4 DEF RequestKnows
      <3> QED
        BY <1>1, <3>1, <3>5
    <2> QED
      BY <1>13, <2>1, <2>2 DEF CreateAPIKey
  <1>14. CASE PreBuild \/ UNCHANGED admVars
    BY <1>14, StillKnows DEF PreBuild, admVars, downloads
  <1>15. CASE Restart
    <2>1. \A x \in Requests : req'[x].step \in {"new", "done"}
      BY <1>15, RequestAt DEF Restart, InProgress
    <2> QED
      BY <2>1 DEF RequestKnows
  <1> QED
    BY <1>4, <1>6, <1>7, <1>8, <1>9, <1>10, <1>11, <1>12, <1>13, <1>14, <1>15 DEF admNext, Handle

\* The step of one request changes no other.
LEMMA OnlyOne ==
    ASSUME admTypeOK, NEW r \in Requests, Handle(r)
    PROVE  \A x \in Requests : x # r => req'[x] = req[x]
  <1> DEFINE Others == \A x \in Requests : x # r => req'[x] = req[x]
  <1>1. ASSUME NEW q, req' = [req EXCEPT ![r] = q] PROVE Others
    BY <1>1, OneRequest
  <1>2. ASSUME NEW kind, NEW step, NEW old, NEW new, Arrive(r, kind, step, old, new) PROVE Others
    BY <1>1, <1>2 DEF Arrive
  <1>3. ASSUME NEW step, Proceed(r, step) PROVE Others
    BY <1>1, <1>3 DEF Proceed
  <1>4. ASSUME NEW v, Change(r, v) PROVE Others
    <2>1. \/ req' = [req EXCEPT ![r] = [req[r] EXCEPT !.step = "log", !.new = v]]
          \/ Proceed(r, "done")
      BY <1>4 DEF Change, Fails, admTypeOK
    <2> QED
      BY <1>1, <1>3, <2>1
  <1> HIDE DEF Others
  <1>5. ASSUME NEW kind, NEW p, GetTimesheetEntry(r, kind, p) PROVE Others
    BY <1>2, <1>5 DEF GetTimesheetEntry
  <1>6. ASSUME \/ UpdateTimesheetEntry(r) \/ DeleteTimesheetEntry(r) \/ CreateAuditLog(r)
               \/ UpsertOrgSettings(r) \/ ClearOIDCConfig(r) \/ InitProvider(r)
               \/ CreateAPIKey(r) \/ Patch(r)
        PROVE  Others
    BY <1>3, <1>4, <1>6 DEF UpdateTimesheetEntry, DeleteTimesheetEntry, CreateAuditLog,
       UpsertOrgSettings, ClearOIDCConfig, InitProvider, CreateAPIKey, Patch, WriteFails, Fails
  <1>7. ASSUME \/ \E k \in Requests : RevokeAPIKey(r, k)
               \/ \E p \in Saves : GetOrgSettings(r, p)
               \/ Login(r) \/ \E t \in Targets : Download(r, t)
        PROVE  Others
    BY <1>2, <1>7 DEF RevokeAPIKey, GetOrgSettings, Login, Download
  <1>8. Others
    BY <1>5, <1>6, <1>7 DEF Handle
  <1> QED
    BY <1>8 DEF Others

\* Only one handler continues a request, which its step tells.
LEMMA WhoContinues ==
    ASSUME admTypeOK, NEW r \in Requests, Handle(r)
    PROVE  /\ req[r].step = "log" => CreateAuditLog(r)
           /\ req[r].step = "clear" => ClearOIDCConfig(r)
           /\ req[r].step = "patch" => Patch(r)
  <1>1. ASSUME \/ \E p \in Corrections : GetTimesheetEntry(r, "edit", p)
               \/ GetTimesheetEntry(r, "delete", None)
               \/ \E k \in Requests : RevokeAPIKey(r, k)
               \/ \E p \in Saves : GetOrgSettings(r, p)
               \/ Login(r) \/ \E t \in Targets : Download(r, t)
        PROVE  req[r].step = "new"
    BY <1>1 DEF GetTimesheetEntry, RevokeAPIKey, GetOrgSettings, Login, Download, Arrive
  <1>2. ASSUME UpdateTimesheetEntry(r) \/ DeleteTimesheetEntry(r) PROVE req[r].step = "write"
    BY <1>2 DEF UpdateTimesheetEntry, DeleteTimesheetEntry, At
  <1>3. CreateAuditLog(r) => req[r].step = "log"
    BY DEF CreateAuditLog
  <1>4. UpsertOrgSettings(r) => req[r].step = "upsert"
    BY DEF UpsertOrgSettings, At
  <1>5. ClearOIDCConfig(r) => req[r].step = "clear"
    BY DEF ClearOIDCConfig, At
  <1>6. InitProvider(r) => req[r].step = "store"
    BY DEF InitProvider, At
  <1>7. CreateAPIKey(r) => req[r].step = "key"
    BY DEF CreateAPIKey, At
  <1>8. Patch(r) => req[r].step = "patch"
    BY DEF Patch, At
  <1> QED
    BY <1>1, <1>2, <1>3, <1>4, <1>5, <1>6, <1>7, <1>8 DEF Handle

\* What a step adds to the changes: one, by the request that is to log it now or has
\* failed.
LEMMA ChangesAre ==
    ASSUME admTypeOK, NEW r \in Requests, Handle(r), NEW c \in changed', c \notin changed
    PROVE  c.by = r /\ (req'[r].step = "log" \/ r \in failed')
  <1>1. ASSUME NEW v, Change(r, v) PROVE c.by = r /\ (req'[r].step = "log" \/ r \in failed')
    <2>1. \/ req' = [req EXCEPT ![r] = [req[r] EXCEPT !.step = "log", !.new = v]]
          \/ r \in failed'
      BY <1>1 DEF Change, Fails, admTypeOK
    <2>2. req'[r] = [req[r] EXCEPT !.step = "log", !.new = v] \/ r \in failed'
      BY <2>1, OneRequest
    <2>3. c = [by |-> r, kind |-> req[r].kind, new |-> v]
      BY <1>1 DEF Change
    <2> QED
      BY <2>2, <2>3, RequestAt
  <1>2. ASSUME NEW k \in Requests, RevokeAPIKey(r, k)
        PROVE  c.by = r /\ (req'[r].step = "log" \/ r \in failed')
    <2>1. /\ \/ req' = [req EXCEPT ![r] = [kind |-> "revoke", step |-> "log", old |-> None, new |-> k]]
             \/ r \in failed'
          /\ changed' = changed \cup {[by |-> r, kind |-> "revoke", new |-> k]}
      BY <1>2 DEF RevokeAPIKey, Arrive
    <2>2. c.by = r
      BY <2>1
    <2>3. \/ req'[r] = [kind |-> "revoke", step |-> "log", old |-> None, new |-> k]
          \/ r \in failed'
      BY <2>1, OneRequest
    <2> QED
      BY <2>2, <2>3
  <1>3. ASSUME UpdateTimesheetEntry(r) \/ DeleteTimesheetEntry(r)
        PROVE  c.by = r /\ (req'[r].step = "log" \/ r \in failed')
    BY <1>1, <1>3 DEF UpdateTimesheetEntry, DeleteTimesheetEntry, WriteFails
  <1>4. \/ UpdateTimesheetEntry(r) \/ DeleteTimesheetEntry(r)
        \/ \E k \in Requests : RevokeAPIKey(r, k)
        \/ changed' = changed
    BY DEF Handle, GetTimesheetEntry, CreateAuditLog, GetOrgSettings, UpsertOrgSettings,
       ClearOIDCConfig, Login, InitProvider, Download, CreateAPIKey, Patch, ledger
  <1> QED
    BY <1>2, <1>3, <1>4

\* What a step adds to the log is the change its request has made.
LEMMA RecordsAre ==
    ASSUME admTypeOK, NEW r \in Requests, RequestKnows(r), Handle(r), NEW a \in audit', a \notin audit
    PROVE  /\ [by |-> a.by, kind |-> a.kind, new |-> a.new] \in changed
           /\ a.kind # "revoke" => a.old \in had \ {Gone}
  <1>1. CreateAuditLog(r) \/ audit' = audit
    BY DEF Handle, GetTimesheetEntry, UpdateTimesheetEntry, DeleteTimesheetEntry, RevokeAPIKey,
       GetOrgSettings, UpsertOrgSettings, ClearOIDCConfig, Login, InitProvider, Download,
       CreateAPIKey, Patch, ledger
  <1>2. req[r].step = "log"
        /\ a = [by |-> r, kind |-> req[r].kind, old |-> req[r].old, new |-> req[r].new]
    BY <1>1 DEF CreateAuditLog
  <1> QED
    BY <1>2 DEF RequestKnows

\* The log and the changes stay in step.
LEMMA AuditStep == ASSUME AdminInv, [admNext]_admVars PROVE AuditMatches'
  <1> USE DEF AdminInv
  <1>0. /\ had \subseteq had' /\ changed \subseteq changed' /\ audit \subseteq audit'
        /\ failed \subseteq failed'
    BY NothingForgotten
  <1>1. ASSUME NEW a \in audit'
        PROVE  /\ [by |-> a.by, kind |-> a.kind, new |-> a.new] \in changed'
               /\ a.kind # "revoke" => a.old \in had' \ {Gone}
    <2>1. CASE a \in audit
      BY <1>0, <2>1 DEF AuditMatches
    <2>2. CASE a \notin audit
      <3>1. PICK r \in Requests : Handle(r)
        BY <2>2 DEF admNext, PreBuild, Restart, admVars, ledger
      <3> QED
        BY <1>0, <1>1, <2>2, <3>1, RecordsAre
    <2> QED
      BY <2>1, <2>2
  <1>2. ASSUME NEW c \in changed'
        PROVE  \/ \E a \in audit' : a.by = c.by
               \/ req'[c.by].step = "log"
               \/ c.by \in failed'
    <2>1. CASE c \notin changed
      <3>1. PICK r \in Requests : Handle(r)
        BY <1>2, <2>1 DEF admNext, PreBuild, Restart, admVars, ledger
      <3> QED
        BY <1>2, <2>1, <3>1, ChangesAre
    <2>2. CASE c \in changed /\ req[c.by].step = "log"
      <3>0. c.by \in Requests
        BY <2>2 DEF admTypeOK
      <3>1. CASE UNCHANGED req
        BY <2>2, <3>1
      <3>2. CASE Restart
        BY <2>2, <3>0, <3>2 DEF Restart, InProgress
      <3>3. ASSUME NEW r \in Requests, Handle(r), r # c.by PROVE req'[c.by].step = "log"
        BY <2>2, <3>0, <3>3, OnlyOne
      <3>4. CASE CreateAuditLog(c.by)
        <4> DEFINE record == [by |-> c.by, kind |-> req[c.by].kind, old |-> req[c.by].old,
                              new |-> req[c.by].new]
        <4>1. record \in audit' \/ c.by \in failed'
          BY <3>4 DEF CreateAuditLog, Fails
        <4>2. record.by = c.by
          OBVIOUS
        <4> QED
          BY <4>1, <4>2
      <3>5. ASSUME Handle(c.by) PROVE CreateAuditLog(c.by)
        BY <2>2, <3>0, <3>5, WhoContinues
      <3> QED
        BY <3>1, <3>2, <3>3, <3>4, <3>5 DEF admNext, PreBuild, admVars
    <2>3. CASE c \in changed /\ ((\E a \in audit : a.by = c.by) \/ c.by \in failed)
      BY <1>0, <2>3
    <2> QED
      BY <2>1, <2>2, <2>3 DEF AuditMatches
  <1> QED
    BY <1>1, <1>2 DEF AuditMatches

\* A configuration that is to be cleared stays so until it is.
LEMMA StillPending ==
    ASSUME admTypeOK, NEW r \in Requests, Handle(r), ClearPending, ~ClearOIDCConfig(r)
    PROVE  ClearPending'
  <1>1. PICK x \in Requests : req[x].kind = "settings" /\ req[x].step = "clear"
    BY DEF ClearPending, At
  <1>2. x # r
    BY <1>1, WhoContinues
  <1>3. req'[x] = req[x]
    BY <1>2, OnlyOne
  <1> QED
    BY <1>1, <1>3 DEF ClearPending, At

\* A save keeps what others hold current, or disturbs sign-on; one without a tenant
\* and a secret leaves what the configuration is made from.
LEMMA SaveEffect ==
    ASSUME NEW r \in Requests, NEW heard \in BOOLEAN, SaveSettings(r, heard), ~disturbed'
    PROVE  /\ ~disturbed
           /\ Provider(settings') # Provider(settings) =>
                  heard /\ \A x \in Requests \ {r} : ~HoldsSettings(x)
           /\ Provider(req[r].old) = Provider(settings) /\ req[r].new.tenant = None
                  /\ req[r].new.secret = None => Provider(settings') = Provider(settings)
  <1>1. /\ ~disturbed
        /\ Provider(settings') # Provider(settings) =>
               heard /\ \A x \in Requests \ {r} : ~HoldsSettings(x)
    BY Zenon DEF SaveSettings
  <1>2. /\ settings'.tenant = Updated(req[r].old.tenant, req[r].new.tenant)
        /\ settings'.secret = Updated(req[r].old.secret, req[r].new.secret)
    BY DEF SaveSettings
  <1>3. ASSUME Provider(req[r].old) = Provider(settings), req[r].new.tenant = None,
               req[r].new.secret = None
        PROVE  Provider(settings') = Provider(settings)
    <2>1. settings'.tenant = req[r].old.tenant /\ settings'.secret = req[r].old.secret
      BY <1>2, <1>3 DEF Updated
    <2> QED
      BY <1>3, <2>1 DEF Provider
  <1> QED
    BY <1>1, <1>3

\* Undisturbed, the configuration follows the settings and so does what requests hold.
LEMMA SignOnStep == ASSUME AdminInv, [admNext]_admVars PROVE HeldIsCurrent' /\ OIDCFollowsSettings'
  <1> USE DEF AdminInv
  <1> DEFINE Follows == oidc \in {Unset, FromEnv} \/ oidc = Provider(settings) \/ ClearPending
             Held(x) == HoldsSettings(x) => Provider(req[x].old) = Provider(settings)
  <1>0. ASSUME disturbed' PROVE HeldIsCurrent' /\ OIDCFollowsSettings'
    BY <1>0, Zenon DEF HeldIsCurrent, OIDCFollowsSettings
  <1>1. ASSUME Follows', \A x \in Requests : Held(x)' PROVE HeldIsCurrent' /\ OIDCFollowsSettings'
    <2>1. HeldIsCurrent'
      BY <1>1, Zenon DEF HeldIsCurrent
    <2>2. OIDCFollowsSettings'
      BY <1>1 DEF OIDCFollowsSettings
    <2> QED
      BY <2>1, <2>2
  <1> SUFFICES ASSUME ~disturbed' PROVE Follows' /\ \A x \in Requests : Held(x)'
    BY <1>0, <1>1, Zenon
  <1>2. ASSUME ~disturbed PROVE Follows /\ \A x \in Requests : Held(x)
    <2>1. \A x \in Requests : Held(x)
      BY <1>2, Zenon DEF HeldIsCurrent
    <2>2. Follows
      BY <1>2 DEF OIDCFollowsSettings
    <2> QED
      BY <2>1, <2>2
  <1>3. ASSUME NEW r \in Requests, Handle(r), Provider(settings') = Provider(settings), ~disturbed
        PROVE  \A x \in Requests : x # r => Held(x)'
    <2> SUFFICES ASSUME NEW x \in Requests, x # r PROVE Held(x)'
      OBVIOUS
    <2>1. req'[x] = req[x] /\ Held(x)
      BY <1>2, <1>3, OnlyOne
    <2> QED
      BY <1>3, <2>1 DEF HoldsSettings, At
  <1>4. ASSUME NEW r \in Requests, req'[r].step = "done" \/ req'[r].step = "clear" PROVE Held(r)'
    BY <1>4 DEF HoldsSettings, At
  <1>5. ASSUME NEW r \in Requests, UpsertOrgSettings(r) PROVE Follows' /\ \A x \in Requests : Held(x)'
    <2>0. /\ At(r, "settings", "upsert") /\ oidc' = oidc /\ Handle(r) /\ ~ClearOIDCConfig(r)
          /\ \E step \in {"done", "clear"} : Proceed(r, step)
      BY <1>5 DEF UpsertOrgSettings, Handle, ClearOIDCConfig, At, Fails
    <2>1. ASSUME NEW step \in {"done", "clear"}, Proceed(r, step)
          PROVE  req'[r].step = step /\ req'[r].kind = "settings"
      <3>1. req' = [req EXCEPT ![r] = [req[r] EXCEPT !.step = step]]
        BY <2>1 DEF Proceed
      <3>2. req'[r] = [req[r] EXCEPT !.step = step]
        BY <3>1, OneRequest
      <3> QED
        BY <2>0, <3>2, RequestAt DEF At
    <2>2. Held(r)'
      BY <1>4, <2>0, <2>1
    <2>3. ASSUME ~disturbed, Provider(settings') = Provider(settings)
          PROVE  Follows' /\ \A x \in Requests : Held(x)'
      <3>1. Follows /\ (ClearPending => ClearPending')
        BY <1>2, <2>0, <2>3, StillPending
      <3>2. Follows'
        BY <2>0, <2>3, <3>1
      <3> QED
        BY <1>3, <2>0, <2>2, <2>3, <3>2
    <2>4. CASE UNCHANGED <<settings, disturbed>>
      <3>1. ~disturbed
        BY <2>4, Zenon
      <3> QED
        BY <2>3, <2>4, <3>1
    <2>5. CASE SaveSettings(r, FALSE)
      BY <2>3, <2>5, SaveEffect
    <2>6. ASSUME SaveSettings(r, TRUE),
                 Proceed(r, IF req[r].new.tenant = None /\ req[r].new.secret = None THEN "done" ELSE "clear")
          PROVE  Follows' /\ \A x \in Requests : Held(x)'
      <3>1. /\ ~disturbed
            /\ Provider(settings') # Provider(settings) => \A x \in Requests \ {r} : ~HoldsSettings(x)
            /\ Provider(req[r].old) = Provider(settings) /\ req[r].new.tenant = None
                  /\ req[r].new.secret = None => Provider(settings') = Provider(settings)
        BY <2>6, SaveEffect
      <3>2. CASE Provider(settings') = Provider(settings)
        BY <2>3, <3>1, <3>2
      <3>3. CASE Provider(settings') # Provider(settings)
        <4>1. Provider(req[r].old) = Provider(settings)
          BY <1>2, <2>0, <3>1 DEF HoldsSettings
        <4>2. Proceed(r, "clear")
          BY <2>6, <3>1, <3>3, <4>1
        <4>3. ClearPending'
          BY <2>1, <4>2 DEF ClearPending, At
        <4>4. ASSUME NEW x \in Requests, x # r PROVE Held(x)'
          <5>1. req'[x] = req[x] /\ ~HoldsSettings(x)
            BY <2>0, <3>1, <3>3, <4>4, OnlyOne
          <5> QED
            BY <5>1 DEF HoldsSettings, At
        <4> QED
          BY <2>2, <4>3, <4>4
      <3> QED
        BY <3>2, <3>3
    <2>7. \/ UNCHANGED <<settings, disturbed>> \/ SaveSettings(r, FALSE)
          \/ SaveSettings(r, TRUE) /\
             Proceed(r, IF req[r].new.tenant = None /\ req[r].new.secret = None THEN "done" ELSE "clear")
      BY <1>5 DEF UpsertOrgSettings
    <2> QED
      BY <2>4, <2>5, <2>6, <2>7
  <1>6. ASSUME NEW r \in Requests, InitProvider(r) PROVE Follows' /\ \A x \in Requests : Held(x)'
    <2>0. /\ At(r, "login", "store") /\ settings' = settings /\ Handle(r) /\ ~ClearOIDCConfig(r)
          /\ Proceed(r, "done") /\ (oidc' = oidc \/ oidc' = Provider(req[r].old))
      BY <1>6 DEF InitProvider, Handle, ClearOIDCConfig, At, Fails
    <2>1. ~disturbed
      BY <1>6, Zenon DEF InitProvider
    <2>2. Provider(req[r].old) = Provider(settings) /\ Follows
      BY <1>2, <2>0, <2>1 DEF HoldsSettings
    <2>3. ClearPending => ClearPending'
      BY <2>0, StillPending
    <2>4. Follows'
      BY <2>0, <2>2, <2>3
    <2>5. req'[r].step = "done"
      <3>1. req'[r] = [req[r] EXCEPT !.step = "done"]
        BY <2>0, OneRequest DEF Proceed
      <3> QED
        BY <3>1, RequestAt
    <2> QED
      BY <1>3, <1>4, <2>0, <2>1, <2>4, <2>5
  <1>7. ASSUME NEW r \in Requests, ClearOIDCConfig(r) PROVE Follows' /\ \A x \in Requests : Held(x)'
    <2>0. /\ At(r, "settings", "clear") /\ settings' = settings /\ oidc' = Unset /\ Handle(r)
          /\ Proceed(r, "done")
      BY <1>7 DEF ClearOIDCConfig, Handle
    <2>1. ~disturbed \/ \A x \in Requests : ~HoldsSettings(x)
      BY <1>7, Zenon DEF ClearOIDCConfig
    <2>2. req'[r].step = "done"
      <3>1. req'[r] = [req[r] EXCEPT !.step = "done"]
        BY <2>0, OneRequest DEF Proceed
      <3> QED
        BY <3>1, RequestAt
    <2>3. ASSUME NEW x \in Requests, x # r, ~HoldsSettings(x) PROVE Held(x)'
      <3>1. req'[x] = req[x]
        BY <2>0, <2>3, OnlyOne
      <3> QED
        BY <2>3, <3>1 DEF HoldsSettings, At
    <2> QED
      BY <1>3, <1>4, <2>0, <2>1, <2>2, <2>3
  <1>8. ASSUME Restart PROVE Follows' /\ \A x \in Requests : Held(x)'
    <2>1. \A x \in Requests : req'[x].step \in {"new", "done"}
      BY <1>8, RequestAt DEF Restart, InProgress
    <2>2. oidc' \in {Unset, FromEnv}
      BY <1>8 DEF Restart
    <2> QED
      BY <2>1, <2>2 DEF HoldsSettings, At
  <1>9. ASSUME UNCHANGED <<req, signOn>> PROVE Follows' /\ \A x \in Requests : Held(x)'
    <2>1. ~disturbed /\ oidc' = oidc /\ settings' = settings /\ req' = req
      BY <1>9, Zenon DEF signOn
    <2> QED
      BY <1>2, <2>1 DEF ClearPending, HoldsSettings, At
  <1>10. ASSUME NEW r \in Requests, Handle(r), UNCHANGED signOn, ~ClearOIDCConfig(r),
                Held(r)'
         PROVE  Follows' /\ \A x \in Requests : Held(x)'
    <2>1. ~disturbed /\ oidc' = oidc /\ settings' = settings
      BY <1>10, Zenon DEF signOn
    <2>2. ClearPending => ClearPending'
      BY <1>10, StillPending
    <2>3. Follows'
      BY <1>2, <2>1, <2>2
    <2> QED
      BY <1>3, <1>10, <2>1, <2>3
  <1>11. ASSUME NEW r \in Requests, NEW kind, NEW step, NEW old, NEW new,
                Arrive(r, kind, step, old, new), old = settings \/ step \notin {"upsert", "store"},
                settings' = settings
         PROVE  Held(r)'
    <2>1. req'[r] = [kind |-> kind, step |-> step, old |-> old, new |-> new]
      BY <1>11, OneRequest DEF Arrive
    <2> QED
      BY <1>11, <2>1 DEF HoldsSettings, At
  <1>12. ASSUME NEW r \in Requests, NEW step \in {"log", "done", "patch"}, Proceed(r, step) PROVE Held(r)'
    <2>1. req'[r] = [req[r] EXCEPT !.step = step]
      BY <1>12, OneRequest DEF Proceed
    <2>2. req'[r].step = step
      BY <2>1, RequestAt
    <2> QED
      BY <2>2 DEF HoldsSettings, At
  <1>13. ASSUME NEW r \in Requests, NEW v, Change(r, v) PROVE Held(r)'
    <2>1. CASE Fails(r)
      BY <1>12, <2>1 DEF Fails
    <2>2. CASE ~Fails(r)
      <3>1. req' = [req EXCEPT ![r] = [req[r] EXCEPT !.step = "log", !.new = v]]
        BY <1>13, <2>2 DEF Change, admTypeOK
      <3>2. req'[r] = [req[r] EXCEPT !.step = "log", !.new = v]
        BY <3>1, OneRequest
      <3>3. req'[r].step = "log"
        BY <3>2, RequestAt
      <3> QED
        BY <3>3 DEF HoldsSettings, At
    <2> QED
      BY <2>1, <2>2
  <1> HIDE DEF Follows, Held
  <1>14. ASSUME NEW r \in Requests, Handle(r), ~UpsertOrgSettings(r), ~InitProvider(r), ~ClearOIDCConfig(r)
         PROVE  UNCHANGED signOn /\ Held(r)'
    <2>1. UNCHANGED signOn
      BY <1>14 DEF Handle, GetTimesheetEntry, UpdateTimesheetEntry, DeleteTimesheetEntry,
         CreateAuditLog, RevokeAPIKey, GetOrgSettings, Login, Download, CreateAPIKey, Patch
    <2>2. settings' = settings
      BY <2>1 DEF signOn
    <2>3. ASSUME UpdateTimesheetEntry(r) \/ DeleteTimesheetEntry(r) PROVE Held(r)'
      BY <1>12, <1>13, <2>3 DEF UpdateTimesheetEntry, DeleteTimesheetEntry, WriteFails, Fails
    <2>4. ASSUME CreateAuditLog(r) \/ CreateAPIKey(r) \/ Patch(r) PROVE Held(r)'
      BY <1>12, <2>4 DEF CreateAuditLog, CreateAPIKey, Patch, Fails
    <2>5. ASSUME \/ \E p \in Corrections : GetTimesheetEntry(r, "edit", p)
                 \/ GetTimesheetEntry(r, "delete", None)
          PROVE  Held(r)'
      BY <1>11, <2>2, <2>5 DEF GetTimesheetEntry
    <2>6. ASSUME \/ \E k \in Requests : RevokeAPIKey(r, k) \/ \E p \in Saves : GetOrgSettings(r, p)
          PROVE  Held(r)'
      BY <1>11, <2>2, <2>6 DEF RevokeAPIKey, GetOrgSettings
    <2>7. ASSUME Login(r) \/ \E t \in Targets : Download(r, t) PROVE Held(r)'
      BY <1>11, <2>2, <2>7 DEF Login, Download
    <2> QED
      BY <1>14, <2>1, <2>3, <2>4, <2>5, <2>6, <2>7 DEF Handle
  <1>15. ASSUME NEW r \in Requests, Handle(r) PROVE Follows' /\ \A x \in Requests : Held(x)'
    BY <1>5, <1>6, <1>7, <1>10, <1>14, <1>15
  <1> QED
    BY <1>8, <1>9, <1>15 DEF admNext, PreBuild, admVars

\* Every stored key stays accounted for.
LEMMA KeysStep == ASSUME AdminInv, [admNext]_admVars PROVE KeysAccountedFor'
  <1> USE DEF AdminInv
  <1>0. /\ failed \subseteq failed' /\ delivered \subseteq delivered'
        /\ \A x \in Requests : keys[x] # "none" => keys'[x] # "none"
    BY NothingForgotten
  <1>1. ASSUME NEW r \in delivered' PROVE keys'[r] # "none"
    <2>1. CASE r \in delivered
      BY <1>0, <2>1 DEF KeysAccountedFor, admTypeOK
    <2>2. ASSUME r \notin delivered PROVE Patch(r)
      <3>1. PICK x \in Requests : Patch(x)
        BY <1>1, <2>2 DEF admNext, Handle, GetTimesheetEntry, UpdateTimesheetEntry,
           DeleteTimesheetEntry, CreateAuditLog, RevokeAPIKey, GetOrgSettings, UpsertOrgSettings,
           ClearOIDCConfig, Login, InitProvider, Download, CreateAPIKey, PreBuild, Restart,
           admVars, downloads
      <3> QED
        BY <1>1, <2>2, <3>1 DEF Patch
    <2>3. ASSUME Patch(r), r \in Requests PROVE keys'[r] # "none"
      BY <1>0, <2>3 DEF Patch, At, RequestKnows
    <2>4. r \in Requests
      BY AdminTypes DEF admTypeOK
    <2> QED
      BY <2>1, <2>2, <2>3, <2>4
  <1>2. ASSUME NEW r \in Requests, keys'[r] # "none"
        PROVE  r \in delivered' \cup failed' \/ (req'[r].kind = "download" /\ req'[r].step = "patch")
    <2>1. CASE keys[r] = "none"
      <3>0. keys \in [Requests -> {"none", "active", "revoked"}]
        BY DEF admTypeOK
      <3>1. PICK x \in Requests : CreateAPIKey(x) \/ \E k \in Requests : RevokeAPIKey(x, k)
        BY <1>2, <2>1 DEF admNext, Handle, GetTimesheetEntry, UpdateTimesheetEntry,
           DeleteTimesheetEntry, CreateAuditLog, GetOrgSettings, UpsertOrgSettings,
           ClearOIDCConfig, Login, InitProvider, Download, Patch, PreBuild, Restart,
           admVars, downloads
      <3>2. ASSUME NEW k \in Requests, RevokeAPIKey(x, k) PROVE FALSE
        BY <1>2, <2>1, <3>0, <3>2 DEF RevokeAPIKey
      <3>3. /\ At(x, "download", "key") /\ keys' = [keys EXCEPT ![x] = "active"]
            /\ Proceed(x, "patch") \/ x \in failed'
        BY <1>2, <2>1, <3>1, <3>2 DEF CreateAPIKey, Fails
      <3>4. x = r
        BY <1>2, <2>1, <3>0, <3>3
      <3> SUFFICES ASSUME Proceed(x, "patch") PROVE req'[r].kind = "download" /\ req'[r].step = "patch"
        BY <3>3, <3>4
      <3>5. req' = [req EXCEPT ![r] = [req[r] EXCEPT !.step = "patch"]]
        BY <3>4 DEF Proceed
      <3>6. req'[r] = [req[r] EXCEPT !.step = "patch"]
        BY <3>5, OneRequest
      <3> QED
        BY <3>3, <3>4, <3>6, RequestAt DEF At
    <2>2. CASE r \in delivered \cup failed
      BY <1>0, <2>2
    <2>3. CASE At(r, "download", "patch")
      <3>1. CASE Restart
        BY <2>3, <3>1 DEF Restart, InProgress, At
      <3>2. CASE UNCHANGED req
        BY <2>3, <3>2 DEF At
      <3>3. ASSUME NEW x \in Requests, Handle(x), x # r PROVE req'[r] = req[r]
        BY <3>3, OnlyOne
      <3>4. ASSUME Handle(r) PROVE r \in delivered' \cup failed'
        <4>1. Patch(r) /\ req[r].new \in cached
          BY <2>3, <3>4, WhoContinues DEF At, RequestKnows
        <4> QED
          BY <4>1 DEF Patch, Fails
      <3> QED
        BY <2>3, <3>1, <3>2, <3>3, <3>4 DEF admNext, PreBuild, admVars, At
    <2> QED
      BY <2>1, <2>2, <2>3 DEF KeysAccountedFor
  <1> QED
    BY <1>1, <1>2 DEF KeysAccountedFor, At

\* What the handlers of the administration keep between them.
THEOREM AdminInvariant == admSpec => []AdminInv
<1>1. AdminInv /\ [admNext]_admVars => AdminInv'
  <2> SUFFICES ASSUME AdminInv, [admNext]_admVars PROVE AdminInv'
    OBVIOUS
  <2>1. admTypeOK'
    BY AdminTypes DEF AdminInv
  <2>2. entry' \in had'
    BY NothingForgotten DEF AdminInv
  <2>3. \A r \in Requests : RequestKnows(r)'
    BY KnowledgeStep
  <2>4. AuditMatches' /\ HeldIsCurrent' /\ OIDCFollowsSettings' /\ KeysAccountedFor'
    BY AuditStep, SignOnStep, KeysStep
  <2> QED
    BY <2>1, <2>2, <2>3, <2>4 DEF AdminInv
<1> QED
  BY <1>1, AdminInit, PTL DEF admSpec

\* What the administration keeps, and what each request under way holds.
THEOREM AdminTypesHold == admSpec => []admTypeOK
<1>1. AdminInv => admTypeOK
  BY DEF AdminInv
<1> QED
  BY <1>1, AdminInvariant, PTL

\* Every audit record tells of a change that was made; every correction, deletion and
\* revocation is in the log, is about to be, or its request failed: for any number of
\* overlapping ones.
THEOREM AuditLogMatches == admSpec => []AuditMatches
<1>1. AdminInv => AuditMatches
  BY DEF AdminInv
<1> QED
  BY <1>1, AdminInvariant, PTL

\* The mask of the settings page is never stored.
THEOREM SecretIsReal == admSpec => []StoredSecretIsReal
<1>1. AdminInv => StoredSecretIsReal
  BY AdministrationAssumption DEF AdminInv, admTypeOK, Settings, StoredSecretIsReal
<1> QED
  BY <1>1, AdminInvariant, PTL

\* Sign-on follows the settings for any number of saves, logins and failures, except
\* after a save that changed them under a request that had read them or whose answer
\* was lost, until the next clear.
THEOREM SignOnFollows == admSpec => []OIDCFollowsSettings
<1>1. AdminInv => OIDCFollowsSettings
  BY DEF AdminInv
<1> QED
  BY <1>1, AdminInvariant, PTL

\* No key is stored for a download that was refused, and none is missing.
THEOREM KeysAccounted == admSpec => []KeysAccountedFor
<1>1. AdminInv => KeysAccountedFor
  BY DEF AdminInv
<1> QED
  BY <1>1, AdminInvariant, PTL

\* No correction revives a deleted entry, whatever it had read.
THEOREM DeletedStays == admSpec => DeletedIsFinal
<1>1. [admNext]_admVars => [entry = Gone => entry' = Gone]_admVars
  <2> SUFFICES ASSUME [admNext]_admVars, entry = Gone PROVE entry' = Gone
    OBVIOUS
  <2>1. ASSUME NEW r \in Requests, UpdateTimesheetEntry(r) \/ DeleteTimesheetEntry(r)
        PROVE  entry' = Gone
    BY <2>1 DEF UpdateTimesheetEntry, DeleteTimesheetEntry, WriteFails
  <2> QED
    BY <2>1 DEF admNext, Handle, GetTimesheetEntry, CreateAuditLog, RevokeAPIKey, GetOrgSettings,
       UpsertOrgSettings, ClearOIDCConfig, Login, InitProvider, Download, CreateAPIKey, Patch,
       PreBuild, Restart, admVars, ledger
<1> QED
  BY <1>1, PTL DEF admSpec, DeletedIsFinal
=============================================================================
