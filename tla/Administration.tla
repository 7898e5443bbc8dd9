--------------------------- MODULE Administration ---------------------------
(***************************************************************************)
(* The server's handlers that change what administrators look after: the   *)
(* entries of timesheets and the audit log, the organisation's settings    *)
(* and the sign-on configuration made from them, API keys and the patched  *)
(* client binaries that carry them.  Requests are handled concurrently,    *)
(* every statement commits on its own, and the server may end in between.  *)
(*                                                                         *)
(* One timesheet entry stands for all: entries do not influence each       *)
(* other.  The tenant stands for the tenant and the client of the Entra    *)
(* settings, the name for the settings sign-on does not use.  A key is     *)
(* named after the download that created it.                               *)
(***************************************************************************)
EXTENDS Integers

CONSTANTS
    Requests,      \* HTTP requests, each handled once
    Fields,        \* of a timesheet entry
    Values,        \* of a field
    Tenants, Secrets, Names,  \* of the settings
    EarlierSaves,  \* settings the database may hold at first
    Corrections,   \* what edits of the entry give: values of some fields
    Saves,         \* what saves of the settings give: each field, or None
    Masked,        \* "********", what the settings page shows of a secret
    FromEnv,       \* the sign-on configuration the environment gives
    Gone, Unset, None,
    NTargets,      \* targets the client is built for
    MaxCrashes     \* bound: restarts of the server

Entries  == [Fields -> Values]
Settings == [tenant : Tenants \cup {Unset}, secret : Secrets \cup {Unset}, name : Names \cup {Unset}]
Targets  == 1 .. NTargets

ASSUME AdministrationAssumption ==
    /\ NTargets \in Nat /\ MaxCrashes \in Nat
    /\ EarlierSaves \subseteq Settings /\ EarlierSaves # {}
    /\ Corrections \subseteq UNION {[F -> Values] : F \in (SUBSET Fields) \ {{}}}
    /\ Saves \subseteq [tenant : Tenants \cup {Unset, None}, name : Names \cup {Unset, None},
                       secret : Secrets \cup {Masked, Unset, None}]
    /\ Gone \notin Entries /\ {Masked, None, Unset} \cap (Tenants \cup Secrets \cup Names) = {}
    /\ Masked # None /\ Masked # Unset /\ None # Unset

VARIABLES
    req,        \* the requests: kind, step, and what each has read or was given
    entry,      \* the timesheet entry, or Gone
    audit,      \* audit_log
    settings,   \* org_settings
    oidc,       \* deps.OIDCConfig, by the settings it was made from
    keys,       \* api_keys
    cached,     \* builder.cache: targets there are binaries of
    building,   \* PreBuild runs
    crashes,
    had,        \* history: contents the entry has had
    changed,    \* history: corrections made, as the log should have them
    failed,     \* history: requests the database, the provider or the process failed
    delivered,  \* history: downloads answered with a binary
    disturbed   \* history: the settings of sign-on changed unseen, see SaveSettings

ledger    == <<entry, audit, had, changed>>
signOn    == <<settings, oidc, disturbed>>
downloads == <<keys, cached, building, delivered>>
admVars   == <<req, ledger, signOn, downloads, crashes, failed>>

NewRequest == [kind |-> None, step |-> "new", old |-> None, new |-> None]

\* Binaries come with the installation; without any, a server with a toolchain
\* builds them in the background.  The environment may set up sign-on.
admInit ==
    /\ req = [r \in Requests |-> NewRequest]
    /\ entry \in Entries /\ had = {entry} /\ audit = {} /\ changed = {}
    /\ settings \in EarlierSaves /\ disturbed = FALSE
    /\ keys = [r \in Requests |-> "none"] /\ delivered = {}
    /\ cached \in SUBSET Targets /\ building \in BOOLEAN /\ oidc \in {Unset, FromEnv}
    /\ building => cached = {}
    /\ crashes = 0 /\ failed = {}

Proceed(r, step) == req' = [req EXCEPT ![r].step = step]
At(r, kind, step) == req[r].kind = kind /\ req[r].step = step
Fails(r) == Proceed(r, "done") /\ failed' = failed \cup {r}

\* A request arrives, reads something, and keeps what it was given.
Arrive(r, kind, step, old, new) ==
    /\ req[r].step = "new"
    /\ req' = [req EXCEPT ![r] = [kind |-> kind, step |-> step, old |-> old, new |-> new]]

(***************************************************************************)
(* Corrections and the audit log.                                          *)
(***************************************************************************)

\* Both handlers read the entry first, for the log.
GetTimesheetEntry(r, kind, p) ==
    /\ \/ entry = Gone /\ Arrive(r, kind, "done", None, p)
       \/ entry # Gone /\ Arrive(r, kind, "write", entry, p)
    /\ UNCHANGED <<ledger, signOn, downloads, crashes, failed>>

\* The statement of request r leaves v; the log will say so, unless the statement is
\* committed and its answer lost.
Change(r, v) ==
    /\ entry' = v /\ had' = had \cup {v}
    /\ changed' = changed \cup {[by |-> r, kind |-> req[r].kind, new |-> v]}
    /\ \/ req' = [req EXCEPT ![r].step = "log", ![r].new = v] /\ UNCHANGED failed
       \/ Fails(r)

WriteFails(r) == Fails(r) /\ UNCHANGED <<entry, had, changed>>

Patched(e, p) == [f \in Fields |-> IF f \in DOMAIN p THEN p[f] ELSE e[f]]

\* Mutants of UpdateTimesheetEntry: the entry the handler has read is written
\* back; no affected row is not an error.
WriteBack(r) ==
    /\ At(r, "edit", "write")
    /\ \/ Change(r, Patched(req[r].old, req[r].new))
       \/ WriteFails(r)
    /\ UNCHANGED <<audit, signOn, downloads, crashes>>

UpdateAnyRows(r) ==
    /\ At(r, "edit", "write")
    /\ \/ entry # Gone /\ Change(r, Patched(entry, req[r].new))
       \/ entry = Gone /\ Proceed(r, "log") /\ UNCHANGED <<entry, had, changed, failed>>
       \/ WriteFails(r)
    /\ UNCHANGED <<audit, signOn, downloads, crashes>>

\* The entry may have been changed or deleted since it was read.
UpdateTimesheetEntry(r) ==
    /\ At(r, "edit", "write")
    /\ \/ entry # Gone /\ Change(r, Patched(entry, req[r].new))
       \/ entry = Gone /\ Proceed(r, "done") /\ UNCHANGED <<entry, had, changed, failed>>
       \/ WriteFails(r)
    /\ UNCHANGED <<audit, signOn, downloads, crashes>>

DeleteTimesheetEntry(r) ==
    /\ At(r, "delete", "write")
    /\ \/ entry # Gone /\ Change(r, Gone)
       \/ entry = Gone /\ Proceed(r, "done") /\ UNCHANGED <<entry, had, changed, failed>>
       \/ WriteFails(r)
    /\ UNCHANGED <<audit, signOn, downloads, crashes>>

\* Revoking a key that is revoked already succeeds, and is logged, too.
RevokeAPIKey(r, k) ==
    /\ keys[k] # "none"
    /\ \/ Arrive(r, "revoke", "log", None, k) /\ UNCHANGED failed
       \/ Arrive(r, "revoke", "done", None, k) /\ failed' = failed \cup {r}
    /\ keys' = [keys EXCEPT ![k] = "revoked"]
    /\ changed' = changed \cup {[by |-> r, kind |-> "revoke", new |-> k]}
    /\ UNCHANGED <<entry, audit, had, signOn, cached, building, delivered, crashes>>

\* A log that cannot be written is itself only logged; the answer is 200.
CreateAuditLog(r) ==
    /\ req[r].step = "log"
    /\ \/ /\ audit' = audit \cup {[by |-> r, kind |-> req[r].kind, old |-> req[r].old, new |-> req[r].new]}
          /\ Proceed(r, "done") /\ UNCHANGED failed
       \/ Fails(r) /\ UNCHANGED audit
    /\ UNCHANGED <<entry, had, changed, signOn, downloads, crashes>>

(***************************************************************************)
(* Settings and sign-on.                                                   *)
(***************************************************************************)

\* The settings page sends the mask back with every save.
GivenSecret(secret) == IF secret = Masked THEN None ELSE secret

Updated(old, new) == IF new = None THEN old ELSE new

\* UpsertOrgSettings reads the row...
GetOrgSettings(r, p) ==
    /\ \/ /\ Arrive(r, "settings", "upsert", settings, [p EXCEPT !.secret = GivenSecret(@)])
          /\ UNCHANGED failed
       \/ Arrive(r, "settings", "done", None, None) /\ failed' = failed \cup {r}
    /\ UNCHANGED <<ledger, signOn, downloads, crashes>>

Provider(s) == [tenant |-> s.tenant, secret |-> s.secret]

\* Request r has read the settings and has yet to use them.
HoldsSettings(r) == At(r, "settings", "upsert") \/ At(r, "login", "store")

\* ... and writes all of it.  Sign-on is disturbed if what it uses is changed under a
\* request that has read it, or the answer is lost and the handler does not learn of
\* the change.
SaveSettings(r, heard) ==
    LET old == req[r].old new == req[r].new
    IN  /\ settings' = [tenant |-> Updated(old.tenant, new.tenant),
                        secret |-> Updated(old.secret, new.secret),
                        name   |-> Updated(old.name, new.name)]
        /\ disturbed' = \/ disturbed
                         \/ /\ Provider(settings') # Provider(settings)
                            /\ ~heard \/ \E x \in Requests \ {r} : HoldsSettings(x)

\* Mutant of UpsertOrgSettings: only another tenant clears the configuration.
UpsertKeepingProvider(r) ==
    /\ At(r, "settings", "upsert")
    /\ \/ /\ SaveSettings(r, TRUE) /\ UNCHANGED failed
          /\ Proceed(r, IF req[r].new.tenant = None THEN "done" ELSE "clear")
       \/ SaveSettings(r, FALSE) /\ Fails(r)
       \/ Fails(r) /\ UNCHANGED <<settings, disturbed>>
    /\ UNCHANGED <<ledger, oidc, downloads, crashes>>

UpsertOrgSettings(r) ==
    /\ At(r, "settings", "upsert")
    /\ \/ /\ SaveSettings(r, TRUE) /\ UNCHANGED failed
          /\ Proceed(r, IF req[r].new.tenant = None /\ req[r].new.secret = None THEN "done" ELSE "clear")
       \/ SaveSettings(r, FALSE) /\ Fails(r)
       \/ Fails(r) /\ UNCHANGED <<settings, disturbed>>
    /\ UNCHANGED <<ledger, oidc, downloads, crashes>>

\* The next login makes a new configuration; nothing is left of an earlier
\* disturbance, but for requests that still hold what they read.
ClearOIDCConfig(r) ==
    /\ At(r, "settings", "clear") /\ oidc' = Unset /\ Proceed(r, "done")
    /\ disturbed' = (disturbed /\ \E x \in Requests : HoldsSettings(x))
    /\ UNCHANGED <<ledger, settings, downloads, crashes, failed>>

\* A login without a configuration reads the settings, asks the provider, which
\* takes a while, and stores what it made.
Login(r) ==
    /\ \/ oidc # Unset /\ Arrive(r, "login", "done", None, None)
       \/ /\ oidc = Unset /\ Unset \in {settings.tenant, settings.secret}
          /\ Arrive(r, "login", "done", None, None)
       \/ /\ oidc = Unset /\ Unset \notin {settings.tenant, settings.secret}
          /\ Arrive(r, "login", "store", settings, None)
    /\ UNCHANGED <<ledger, signOn, downloads, crashes, failed>>

InitProvider(r) ==
    /\ At(r, "login", "store")
    /\ \/ oidc' = Provider(req[r].old) /\ Proceed(r, "done") /\ UNCHANGED failed
       \/ Fails(r) /\ UNCHANGED oidc
    /\ UNCHANGED <<ledger, settings, disturbed, downloads, crashes>>

(***************************************************************************)
(* Client binaries.                                                        *)
(***************************************************************************)

\* The background build takes the targets in order and ends at the first failure.
PreBuild ==
    /\ building
    /\ \E t \in Targets :
         /\ 1 .. (t - 1) = cached
         /\ \/ cached' = cached \cup {t} /\ building' = (t # NTargets)
            \/ building' = FALSE /\ UNCHANGED cached
    /\ UNCHANGED <<req, ledger, signOn, keys, delivered, crashes, failed>>

\* Mutant of IsCached: nobody asks.
AlwaysCached(t) == TRUE

IsCached(t) == t \in cached

Download(r, t) ==
    /\ Arrive(r, "download", IF IsCached(t) THEN "key" ELSE "done", None, t)
    /\ UNCHANGED <<ledger, signOn, downloads, crashes, failed>>

CreateAPIKey(r) ==
    /\ At(r, "download", "key")
    /\ \/ keys' = [keys EXCEPT ![r] = "active"] /\ Proceed(r, "patch") /\ UNCHANGED failed
       \/ Fails(r) /\ keys' \in {keys, [keys EXCEPT ![r] = "active"]}
    /\ UNCHANGED <<ledger, signOn, cached, building, delivered, crashes>>

\* The key is stored by now, whatever becomes of the binary: the address may be
\* too long for it, and the answer may not arrive.
Patch(r) ==
    /\ At(r, "download", "patch")
    /\ \/ req[r].new \in cached /\ Proceed(r, "done") /\ delivered' = delivered \cup {r} /\ UNCHANGED failed
       \/ req[r].new \notin cached /\ Proceed(r, "done") /\ UNCHANGED <<delivered, failed>>
       \/ Fails(r) /\ UNCHANGED delivered
    /\ UNCHANGED <<ledger, signOn, keys, cached, building, crashes>>

(***************************************************************************)
(* The server ends, and starts again.                                      *)
(***************************************************************************)

InProgress == {r \in Requests : req[r].step \notin {"new", "done"}}

Restart ==
    /\ crashes < MaxCrashes /\ crashes' = crashes + 1
    /\ req' = [r \in Requests |-> IF r \in InProgress THEN [req[r] EXCEPT !.step = "done"]
                                  ELSE req[r]]
    /\ failed' = failed \cup InProgress
    /\ cached' \in SUBSET Targets /\ building' \in BOOLEAN /\ oidc' \in {Unset, FromEnv}
    /\ building' => cached' = {}
    /\ disturbed' = FALSE
    /\ UNCHANGED <<ledger, settings, keys, delivered>>

\* The next step of request r.
Handle(r) ==
    \/ \E p \in Corrections : GetTimesheetEntry(r, "edit", p)
    \/ GetTimesheetEntry(r, "delete", None)
    \/ UpdateTimesheetEntry(r) \/ DeleteTimesheetEntry(r) \/ CreateAuditLog(r)
    \/ \E k \in Requests : RevokeAPIKey(r, k)
    \/ \E p \in Saves : GetOrgSettings(r, p)
    \/ UpsertOrgSettings(r) \/ ClearOIDCConfig(r)
    \/ Login(r) \/ InitProvider(r)
    \/ \E t \in Targets : Download(r, t)
    \/ CreateAPIKey(r) \/ Patch(r)

admNext == (\E r \in Requests : Handle(r)) \/ PreBuild \/ Restart

admSpec == admInit /\ [][admNext]_admVars

-----------------------------------------------------------------------------

Given == [tenant : Tenants \cup {Unset, None}, secret : Secrets \cup {Unset, None},
          name : Names \cup {Unset, None}]

\* By kind: the steps of a request, what it has read and what it was given.
IsRequest(q) ==
    \/ q = NewRequest
    \/ /\ q.kind = "edit"
       /\ q \in [kind : {"edit"}, step : {"write", "log", "done"},
                 old : Entries \cup {None}, new : Corrections \cup Entries]
    \/ /\ q.kind = "delete"
       /\ q \in [kind : {"delete"}, step : {"write", "log", "done"},
                 old : Entries \cup {None}, new : {None, Gone}]
    \/ /\ q.kind = "revoke"
       /\ q \in [kind : {"revoke"}, step : {"log", "done"}, old : {None}, new : Requests]
    \/ /\ q.kind = "settings"
       /\ q \in [kind : {"settings"}, step : {"upsert", "clear", "done"},
                 old : Settings \cup {None}, new : Given \cup {None}]
    \/ /\ q.kind = "login"
       /\ q \in [kind : {"login"}, step : {"store", "done"}, old : Settings \cup {None}, new : {None}]
    \/ /\ q.kind = "download"
       /\ q \in [kind : {"download"}, step : {"key", "patch", "done"}, old : {None}, new : Targets]

admTypeOK ==
    /\ req = [r \in Requests |-> req[r]] /\ \A r \in Requests : IsRequest(req[r])
    /\ entry \in Entries \cup {Gone} /\ had \subseteq Entries \cup {Gone}
    /\ \A c \in audit \cup changed : c.by \in Requests /\ c.kind \in {"edit", "delete", "revoke"}
    /\ settings \in Settings
    /\ oidc \in {Unset, FromEnv} \cup [tenant : Tenants \cup {Unset}, secret : Secrets \cup {Unset}]
    /\ keys \in [Requests -> {"none", "active", "revoked"}]
    /\ cached \subseteq Targets /\ crashes \in 0 .. MaxCrashes
    /\ failed \subseteq Requests /\ delivered \subseteq Requests
    /\ {building, disturbed} \subseteq BOOLEAN

\* Every audit record tells of a change that its request made, and gives contents
\* the entry has had before; every correction, deletion and revocation is in the log,
\* or about to be, unless the server failed its request.  The read for the log, the
\* change and the record are three statements without a transaction.
AuditMatches ==
    /\ \A a \in audit :
         /\ [by |-> a.by, kind |-> a.kind, new |-> a.new] \in changed
         /\ a.kind # "revoke" => a.old \in had \ {Gone}
    /\ \A c \in changed :
         \/ \E a \in audit : a.by = c.by
         \/ req[c.by].step = "log"
         \/ c.by \in failed

\* A deleted entry stays deleted, whatever edits had read it before.
DeletedIsFinal == [][entry = Gone => entry' = Gone]_admVars

\* The mask the settings page shows never becomes the secret, however saves overlap.
StoredSecretIsReal == settings.secret # Masked

ClearPending == \E r \in Requests : At(r, "settings", "clear")

\* The sign-on configuration made from the settings is that of the settings now
\* stored, or is about to be cleared: a save that changes the tenant or the secret
\* clears it, however saves, logins and failures interleave.  The exceptions are a
\* save that changes them under a request that has read them, and one whose answer
\* is lost, and these last until the next clear that no such request outlives.
OIDCFollowsSettings ==
    oidc \in {Unset, FromEnv, Provider(settings)} \/ ClearPending \/ disturbed

\* A key is stored for every binary handed out, and a stored key whose request is
\* over without a binary is the doing of a failure: the answer that binaries are
\* not built yet comes before the key is made.
KeysAccountedFor ==
    /\ \A r \in delivered : keys[r] # "none"
    /\ \A r \in Requests :
         keys[r] # "none" => r \in delivered \cup failed \/ At(r, "download", "patch")
=============================================================================
