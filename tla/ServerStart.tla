---------------------------- MODULE ServerStart ----------------------------
(***************************************************************************)
(* What a trasker-server does from its start until it serves: run loads or *)
(* generates the JWT secret, migrations.Apply brings the schema up to      *)
(* date, bootstrapAdmin creates the first account, and the listeners open. *)
(* Every statement may fail and the process may end between any two; the   *)
(* container's restart policy then starts it again.  Servers that are      *)
(* deployed together share the database and the file /data/jwt-secret.     *)
(*                                                                         *)
(* A version stands for the SQL of its file.  A secret is the number of    *)
(* its generation; 0 is a file that is missing or empty, which             *)
(* LoadOrGenerateJWTSecret does not tell apart.                            *)
(***************************************************************************)
EXTENDS Integers

CONSTANTS
    Servers,      \* processes of trasker-server
    Latest,       \* number of embedded migrations
    Deployments,  \* the situations in which servers are started
    MaxFaults,    \* bound: failed statements, crashes and stops
    MaxSecrets    \* bound: secrets generated by servers that keep restarting

Versions == 1 .. Latest

\* What is there at the first start: the schema, up to some version; the versions
\* recorded in schema_migrations, all of them if an earlier server applied them and
\* none if deploy/initdb did, in this release or an older one; the secret, whether
\* users has rows, the servers deployed, and whether the two TRASKER_ADMIN_*
\* variables are both set or both missing.
Deployment ==
    {d \in [schema : {1 .. k : k \in 0 .. Latest}, recorded : SUBSET Versions, secret : {0, 1},
             accounts : {0, 1}, servers : SUBSET Servers, credentials : BOOLEAN] :
        d.recorded \in {{}, d.schema} /\ (d.schema = {} => d.accounts = 0)}

Alone(d) == \A s, t \in d.servers : s = t

\* hasLegacySchema takes the table users for a whole schema.  It is wrong if the
\* tables were made by an older release's deploy/initdb, or by another server that
\* is still applying the versions after the first.
MayMisjudge(d) ==
    d.recorded = {} /\ d.schema # Versions /\ (d.schema # {} \/ ~Alone(d))

ASSUME StartAssumption ==
    /\ Latest \in Nat \ {0} /\ MaxFaults \in Nat /\ MaxSecrets \in Nat
    /\ Deployments \subseteq Deployment

VARIABLES
    deployment,  \* the one of Deployments this behaviour is about
    schema,      \* versions whose SQL has been committed
    recorded,    \* the rows of schema_migrations
    accounts,    \* the rows of users
    secretFile,  \* /data/jwt-secret
    generated,   \* secrets generated so far
    pc,          \* pc[s]: what server s does next
    jwtSecret,   \* jwtSecret[s]: the secret it uses, 0 before it has one
    applied,     \* applied[s]: the versions it knows to be applied
    faults,      \* history: failures and ends of a process
    makers,      \* history: servers that went on to generate a secret
    misread      \* history: one of them had failed to read a secret that was there

dbVars     == <<schema, recorded, accounts>>
secretVars == <<secretFile, generated>>
madeVars   == <<makers, misread>>
vars       == <<deployment, dbVars, secretVars, pc, jwtSecret, applied, faults, madeVars>>

Steps == {"down", "secret", "truncate", "write", "load", "legacy", "backfill",
          "apply", "count", "create", "listen", "up"}

Init ==
    /\ deployment \in Deployments
    /\ schema = deployment.schema /\ recorded = deployment.recorded
    /\ accounts = deployment.accounts
    /\ secretFile = deployment.secret /\ generated = deployment.secret
    /\ pc = [s \in Servers |-> "down"]
    /\ jwtSecret = [s \in Servers |-> 0] /\ applied = [s \in Servers |-> {}]
    /\ faults = 0 /\ makers = {} /\ misread = FALSE

Goto(s, step) == pc' = [pc EXCEPT ![s] = step]

\* run returns an error, or the process dies: its memory is gone, and the
\* transaction it was in is rolled back.
Down(s) ==
    /\ Goto(s, "down")
    /\ jwtSecret' = [jwtSecret EXCEPT ![s] = 0] /\ applied' = [applied EXCEPT ![s] = {}]

(***************************************************************************)
(* The secret.                                                             *)
(***************************************************************************)

main(s) ==
    /\ pc[s] = "down" /\ s \in deployment.servers
    /\ Goto(s, "secret")
    /\ UNCHANGED <<deployment, dbVars, secretVars, jwtSecret, applied, faults, madeVars>>

\* Neither environment variable is set: the file decides.  A file that cannot be
\* read is treated like one that is missing.
ReadSecret(s) ==
    /\ pc[s] = "secret"
    /\ \/ /\ secretFile # 0 /\ Goto(s, "load")
          /\ jwtSecret' = [jwtSecret EXCEPT ![s] = secretFile]
          /\ UNCHANGED <<faults, madeVars>>
       \/ /\ secretFile = 0 /\ Goto(s, "truncate") /\ makers' = makers \cup {s}
          /\ UNCHANGED <<jwtSecret, faults, misread>>
       \/ /\ secretFile # 0 /\ faults < MaxFaults /\ faults' = faults + 1
          /\ Goto(s, "truncate") /\ makers' = makers \cup {s} /\ misread' = TRUE
          /\ UNCHANGED jwtSecret
    /\ UNCHANGED <<deployment, dbVars, secretVars, applied>>

\* os.WriteFile: the file is truncated when it is opened, and then written.
TruncateSecret(s) ==
    /\ pc[s] = "truncate" /\ Goto(s, "write")
    /\ secretFile' = 0
    /\ UNCHANGED <<deployment, dbVars, generated, jwtSecret, applied, faults, madeVars>>

\* Mutant of WriteSecret: the secret is used and not kept.
WriteSecretNowhere(s) ==
    /\ pc[s] = "write" /\ generated < MaxSecrets /\ Goto(s, "load")
    /\ generated' = generated + 1
    /\ jwtSecret' = [jwtSecret EXCEPT ![s] = generated']
    /\ UNCHANGED <<deployment, dbVars, secretFile, applied, faults, madeVars>>

WriteSecret(s) ==
    /\ pc[s] = "write" /\ generated < MaxSecrets /\ Goto(s, "load")
    /\ generated' = generated + 1 /\ secretFile' = generated'
    /\ jwtSecret' = [jwtSecret EXCEPT ![s] = generated']
    /\ UNCHANGED <<deployment, dbVars, applied, faults, madeVars>>

(***************************************************************************)
(* migrations.Apply.                                                       *)
(***************************************************************************)

\* Mutant of loadAppliedVersions: any row means that the schema is up to date.
loadAppliedVersionsAny(s) ==
    /\ pc[s] = "load"
    /\ applied' = [applied EXCEPT ![s] = recorded]
    /\ Goto(s, IF recorded = {} THEN "legacy" ELSE "count")
    /\ UNCHANGED <<deployment, dbVars, secretVars, jwtSecret, faults, madeVars>>

\* schema_migrations is created if it is missing and read; only when it is
\* empty does the schema decide.
loadAppliedVersions(s) ==
    /\ pc[s] = "load"
    /\ applied' = [applied EXCEPT ![s] = recorded]
    /\ Goto(s, IF recorded = {} THEN "legacy" ELSE "apply")
    /\ UNCHANGED <<deployment, dbVars, secretVars, jwtSecret, faults, madeVars>>

\* The table users exists once the first migration has run.
hasLegacySchema(s) ==
    /\ pc[s] = "legacy"
    /\ Goto(s, IF 1 \in schema THEN "backfill" ELSE "apply")
    /\ UNCHANGED <<deployment, dbVars, secretVars, jwtSecret, applied, faults, madeVars>>

\* One transaction, ON CONFLICT DO NOTHING; Apply returns.
backfillVersions(s) ==
    /\ pc[s] = "backfill" /\ Goto(s, "count")
    /\ recorded' = Versions
    /\ UNCHANGED <<deployment, schema, accounts, secretVars, jwtSecret, applied, faults, madeVars>>

Unapplied(s) == Versions \ applied[s]
NextVersion(s, v) == v \in Unapplied(s) /\ \A w \in Unapplied(s) : v <= w

\* None of the files can be run twice, and all but the first alter or refer to
\* what the first one creates.
SQLSucceeds(v) == v \notin schema /\ (v = 1 \/ 1 \in schema)

\* Mutant of applyOne: the SQL is committed before the version is recorded, and
\* the process may end between the two.
applyOneUntracked(s) ==
    /\ pc[s] = "apply"
    /\ \E v \in Versions : NextVersion(s, v) /\ SQLSucceeds(v)
       /\ schema' = schema \cup {v}
       /\ \/ faults < MaxFaults /\ faults' = faults + 1 /\ Down(s) /\ UNCHANGED recorded
          \/ /\ recorded' = recorded \cup {v}
             /\ applied' = [applied EXCEPT ![s] = @ \cup {v}]
             /\ UNCHANGED <<faults, pc, jwtSecret>>
    /\ UNCHANGED <<deployment, accounts, secretVars, madeVars>>

\* Mutant of applyOne: a version that another server recorded meanwhile is
\* waited for for ever.
applyOneWaiting(s) ==
    /\ pc[s] = "apply"
    /\ \E v \in Versions : NextVersion(s, v) /\ SQLSucceeds(v) /\ v \notin recorded
       /\ schema' = schema \cup {v} /\ recorded' = recorded \cup {v}
       /\ applied' = [applied EXCEPT ![s] = @ \cup {v}]
    /\ UNCHANGED <<deployment, accounts, secretVars, pc, jwtSecret, faults, madeVars>>

\* One transaction: the SQL and the row of schema_migrations.  Another server may
\* have been faster: then the SQL or the INSERT fails, and run with it.
applyOne(s) ==
    /\ pc[s] = "apply"
    /\ \E v \in Versions : NextVersion(s, v)
       /\ \/ /\ SQLSucceeds(v) /\ v \notin recorded
             /\ schema' = schema \cup {v} /\ recorded' = recorded \cup {v}
             /\ applied' = [applied EXCEPT ![s] = @ \cup {v}]
             /\ UNCHANGED <<pc, jwtSecret>>
          \/ /\ ~(SQLSucceeds(v) /\ v \notin recorded)
             /\ Down(s) /\ UNCHANGED <<schema, recorded>>
    /\ UNCHANGED <<deployment, accounts, secretVars, faults, madeVars>>

\* Every migration is applied: Apply returns.
ApplyReturns(s) ==
    /\ pc[s] = "apply" /\ Unapplied(s) = {}
    /\ Goto(s, "count")
    /\ UNCHANGED <<deployment, dbVars, secretVars, jwtSecret, applied, faults, madeVars>>

(***************************************************************************)
(* bootstrapAdmin and the listeners.                                       *)
(***************************************************************************)

\* CountUsers; with an account, or with one variable of the two, nothing is done.
CountUsers(s) ==
    /\ pc[s] = "count"
    /\ Goto(s, IF accounts > 0 \/ ~deployment.credentials THEN "listen" ELSE "create")
    /\ UNCHANGED <<deployment, dbVars, secretVars, jwtSecret, applied, faults, madeVars>>

\* The INSERT names columns of the second migration; it fails on the unique
\* e-mail address if another server has inserted the account since.
CreateLocalUser(s) ==
    /\ pc[s] = "create"
    /\ \/ /\ accounts = 0 /\ {1, 2} \cap Versions \subseteq schema
          /\ accounts' = 1 /\ Goto(s, "listen") /\ UNCHANGED <<jwtSecret, applied>>
       \/ /\ ~(accounts = 0 /\ {1, 2} \cap Versions \subseteq schema)
          /\ Down(s) /\ UNCHANGED accounts
    /\ UNCHANGED <<deployment, schema, recorded, secretVars, faults, madeVars>>

\* The listeners open.
Listen(s) ==
    /\ pc[s] = "listen" /\ Goto(s, "up")
    /\ UNCHANGED <<deployment, dbVars, secretVars, jwtSecret, applied, faults, madeVars>>

\* A statement or a system call fails, a port is taken, the process is told to
\* stop or dies.
Fault(s) ==
    /\ pc[s] # "down" /\ faults < MaxFaults
    /\ faults' = faults + 1 /\ Down(s)
    /\ UNCHANGED <<deployment, dbVars, secretVars, madeVars>>

-----------------------------------------------------------------------------

run(s) ==
    \/ main(s) \/ ReadSecret(s) \/ TruncateSecret(s) \/ WriteSecret(s)
    \/ loadAppliedVersions(s) \/ hasLegacySchema(s) \/ backfillVersions(s)
    \/ applyOne(s) \/ ApplyReturns(s)
    \/ CountUsers(s) \/ CreateLocalUser(s) \/ Listen(s)

Next == \E s \in Servers : run(s) \/ Fault(s)

Spec == Init /\ [][Next]_vars

\* The container is started again whenever it ends (restart: unless-stopped),
\* and a process that runs goes on.
FairSpec == Spec /\ \A s \in Servers : WF_vars(run(s))

-----------------------------------------------------------------------------

TypeOK ==
    /\ deployment \in Deployments
    /\ schema \subseteq Versions /\ recorded \subseteq Versions
    /\ accounts \in {0, 1} /\ secretFile \in 0 .. generated /\ generated \in Nat
    /\ pc \in [Servers -> Steps]
    /\ jwtSecret \in [Servers -> 0 .. generated]
    /\ applied \in [Servers -> SUBSET Versions]
    /\ faults \in 0 .. MaxFaults /\ makers \subseteq Servers /\ misread \in BOOLEAN

\* schema_migrations tells the truth once it has a row: a version is recorded
\* exactly if its SQL is in the database, whatever fails, dies or runs beside it.
\* A version recorded too early would never be applied, and one recorded too late
\* would stop every later start.  The exception is a takeover that hasLegacySchema
\* misjudges: then every version is recorded at once.
RecordedIsApplied ==
    recorded # {} => recorded = schema \/ (MayMisjudge(deployment) /\ recorded = Versions)

\* A server that serves has every version recorded, finds every table and column
\* (unless the takeover was misjudged), and somebody who can sign in to it (unless
\* only one of the two variables was set).
UpIsComplete ==
    \A s \in Servers : pc[s] = "up" =>
        /\ recorded = Versions /\ (schema = Versions \/ MayMisjudge(deployment))
        /\ deployment.credentials => accounts = 1

\* Every server accepts the tokens of the others: the secret in use is the one in
\* the file, unless another server generated one.  And sessions survive restarts:
\* a secret that was there stays the one in use, unless a server could not read it.
SecretIsKept ==
    \A s \in Servers : pc[s] = "up" =>
        /\ jwtSecret[s] = secretFile \/ makers \ {s} # {}
        /\ deployment.secret = 1 /\ ~misread => jwtSecret[s] = 1

\* The SQL of a version is only ever run on a database on which every earlier one
\* has been, and not itself: whatever another server has done since this one read
\* schema_migrations.
MigratedInOrder == [][\A v \in schema' \ schema : 1 .. (v - 1) \subseteq recorded /\ v \notin recorded]_vars

\* The INSERT of the first account needs the second version, which a misjudged
\* takeover does not apply.
Startable(d) == MayMisjudge(d) /\ d.credentials /\ d.accounts = 0 => 2 \in d.schema

\* A server comes up in the end, however its start is disturbed, unless a misjudged
\* takeover leaves no way to make the first account.
EventuallyUp ==
    \A s \in Servers : s \in deployment.servers /\ Startable(deployment) ~> pc[s] = "up"
=============================================================================
