-------------------------- MODULE SubmissionQueue --------------------------
(***************************************************************************)
(* The submission pipeline of the Trasker client and its server end.       *)
(*                                                                         *)
(* A submission is a row of the client's SQLite table `submissions`,       *)
(* created by the dashboard (handleSubmit) or by auto-submit               *)
(* (CreateSubmission).  One goroutine of the daemon, Queue.run, lists the  *)
(* pending rows that are due, posts them one after the other to the        *)
(* server's POST /api/v1/timesheets and records the outcome.  The server   *)
(* stores a timesheet in one transaction and answers.  Requests and        *)
(* answers can be lost, a client timeout can race a commit, the local      *)
(* database can refuse a write, the daemon can stop or die anywhere.       *)
(***************************************************************************)
EXTENDS Integers, Sequences

CONSTANTS
    Submissions,      \* ids of the rows that may be created, in creation order
    BackoffSchedule,  \* backoffSchedule, in clock ticks
    HourlyBackoff,    \* the cap that backoffFor returns after the schedule
    MaxLost           \* bound: outcomes per submission that the client never records

ASSUME SubmissionsAssumption == Submissions \subseteq Nat \ {0}
ASSUME ScheduleAssumption ==
    /\ BackoffSchedule \in Seq(Nat)
    /\ Len(BackoffSchedule) > 0
    /\ HourlyBackoff \in Nat
    /\ \A i \in 1 .. Len(BackoffSchedule) : BackoffSchedule[i] <= HourlyBackoff
ASSUME MaxLostAssumption == MaxLost \in Nat

VARIABLES
    \* the client's database: table submissions joined with its events
    status,       \* "none" until the row exists, then "pending", "confirmed"
    retry_count,  \* column retry_count (saturated, see Bump)
    since_retry,  \* ticks since column last_retry, or Never (saturated, see Tick)
    server_id,    \* column server_id, NoId when NULL
    entries,      \* what loadSubmissionEntries finds for the row
    \* the daemon process
    daemon,
    registration, \* "trying" during its one attempt to register the device, or "none"
    \* the goroutine Queue.run
    pc,           \* where it is: between passes, between rows, or in a POST
    due,          \* rows of the current pass still to process
    sub,          \* the row being processed
    body,         \* the entries as they were read for the current request
    reply,        \* the server's answer to the current request
    \* the server
    key,          \* the API key built into the client
    registered,   \* the devices table has this (device, key)
    stored,       \* timesheets created from each submission
    zombies,      \* commits under way for requests the client has given up
    \* history
    lost          \* outcomes the client did not record, per submission

dbVars     == <<status, retry_count, since_retry, server_id, entries>>
daemonVars == <<daemon, registration>>
queueVars  == <<pc, due, sub, body, reply>>
serverVars == <<key, registered, stored, zombies>>
ghostVars  == <<lost>>
vars       == <<dbVars, daemonVars, queueVars, serverVars, ghostVars>>

Never == -1
NoId  == 0
NoSub == [id |-> 0, count |-> 0]
NoReply == [kind |-> "none", id |-> NoId]

\* PendingSubmission: the id and the retry count as the listing read them.
PendingSubmission == [id : Submissions, count : Nat]

\* retry_count only selects a delay, so counting stops once the delay is the cap.
RetryCap == Len(BackoffSchedule)
Bump(n)  == IF n < RetryCap THEN n + 1 ELSE RetryCap

\* Mutant of backoffFor: the schedule is read one place too early.
backoffForEarlier(n) ==
    IF n \in 1 .. Len(BackoffSchedule) THEN BackoffSchedule[n] ELSE HourlyBackoff

\* backoffFor: the delay after a failure that left the counter at n.
backoffFor(n) == IF n < Len(BackoffSchedule) THEN BackoffSchedule[n + 1] ELSE HourlyBackoff

\* Mutant of IsDue: the query forgets the status.
IsDueConfirmed(s) ==
    /\ status[s] # "none"
    /\ \/ since_retry[s] = Never
       \/ since_retry[s] >= backoffFor(retry_count[s])

\* listDueSubmissions' test of one row.
IsDue(s) ==
    /\ status[s] = "pending"
    /\ \/ since_retry[s] = Never
       \/ since_retry[s] >= backoffFor(retry_count[s])

-----------------------------------------------------------------------------

Init ==
    /\ status      = [s \in Submissions |-> "none"]
    /\ retry_count = [s \in Submissions |-> 0]
    /\ since_retry = [s \in Submissions |-> Never]
    /\ server_id   = [s \in Submissions |-> NoId]
    /\ entries     = [s \in Submissions |-> "none"]
    /\ daemon = "down" /\ registration = "none"
    /\ pc = "idle" /\ due = {} /\ sub = NoSub /\ body = "none" /\ reply = NoReply
    /\ key = "valid" /\ registered = FALSE
    /\ stored  = [s \in Submissions |-> 0]
    /\ zombies = [s \in Submissions |-> 0]
    /\ lost    = [s \in Submissions |-> 0]

(***************************************************************************)
(* The daemon process.                                                     *)
(***************************************************************************)

\* The goroutine's state is lost with the process; what the server is doing
\* for it is not: a commit in progress may still happen.
ForgetPass == pc' = "idle" /\ due' = {} /\ sub' = NoSub /\ body' = "none" /\ reply' = NoReply

\* main: one best-effort registration goroutine, then Queue.Start.
StartDaemon ==
    /\ daemon = "down"
    /\ daemon' = "up" /\ registration' = "trying"
    /\ UNCHANGED <<dbVars, queueVars, serverVars, ghostVars>>

\* RegisterDevice reaches the server, which upserts the device.  What the client
\* hears of it is only logged.
RegisterDevice ==
    /\ registration = "trying" /\ key = "valid"
    /\ registered' = TRUE
    /\ registration' = "none"
    /\ UNCHANGED <<dbVars, daemon, queueVars, key, stored, zombies, ghostVars>>

\* RegisterDevice fails before the server did anything.
RegistrationFails ==
    /\ registration = "trying"
    /\ registration' = "none"
    /\ UNCHANGED <<dbVars, daemon, queueVars, serverVars, ghostVars>>

\* SIGINT, SIGTERM or quit from the dashboard: cancel() reaches every goroutine.
CancelContext ==
    /\ daemon = "up"
    /\ daemon' = "stopping"
    /\ UNCHANGED <<dbVars, registration, queueVars, serverVars, ghostVars>>

\* Whether a request is past the handler's checks when its client gives it up.
Acceptable == key = "valid" /\ registered /\ body = "complete"

\* The client no longer waits for the current request of submission s: an
\* answered one is lost with its answer, an unanswered one may be committing.
Abandon(s) ==
    \/ /\ reply.kind = "ok"
       /\ lost[s] < MaxLost
       /\ lost' = [lost EXCEPT ![s] = @ + 1]
       /\ UNCHANGED zombies
    \/ /\ reply.kind = "none" /\ Acceptable
       /\ lost[s] < MaxLost
       /\ lost' = [lost EXCEPT ![s] = @ + 1]
       /\ zombies' = [zombies EXCEPT ![s] = @ + 1]
    \/ /\ reply.kind # "ok"
       /\ UNCHANGED <<lost, zombies>>

\* The process ends: after a cancel (main does not wait for the queue), or by
\* a crash or power loss at any moment.
ExitDaemon ==
    /\ daemon # "down"
    /\ daemon' = "down" /\ registration' = "none"
    /\ ForgetPass
    /\ IF pc = "posting" THEN Abandon(sub.id) ELSE UNCHANGED <<lost, zombies>>
    /\ UNCHANGED <<dbVars, key, registered, stored>>

(***************************************************************************)
(* Rows appear, and the events they link change under them.                *)
(***************************************************************************)

\* What the joins of loadSubmissionEntries will find: no event at all, a last
\* event that is still open (an empty ended_at), or finished events.
EntryKinds == {"empty", "open", "complete"}

InsertPending(s, kind) ==
    /\ status[s] = "none"
    /\ \A t \in Submissions : t < s => status[t] # "none"
    /\ status'  = [status EXCEPT ![s] = "pending"]
    /\ entries' = [entries EXCEPT ![s] = kind]
    /\ UNCHANGED <<retry_count, since_retry, server_id,
                   daemonVars, queueVars, serverVars, ghostVars>>

\* POST /api/submit: any event ids the caller sends, open or unknown ones too.
\* The web server outlives the cancelled context until main stops it.
handleSubmit(s) ==
    /\ daemon # "down"
    /\ \E kind \in EntryKinds : InsertPending(s, kind)

\* Auto-submit only links finished events; its loop ends with the context.
CreateSubmission(s) ==
    /\ daemon = "up"
    /\ InsertPending(s, "complete")

\* The recorder closes the event that was open when it was submitted.
CloseEvent(s) ==
    /\ daemon # "down" /\ entries[s] = "open"
    /\ entries' = [entries EXCEPT ![s] = "complete"]
    /\ UNCHANGED <<status, retry_count, since_retry, server_id,
                   daemonVars, queueVars, serverVars, ghostVars>>

\* One tick of the clock.  A row's age matters up to the longest delay only.
Tick ==
    /\ \E s \in Submissions : since_retry[s] \in 0 .. HourlyBackoff - 1
    /\ since_retry' = [s \in Submissions |->
                          IF since_retry[s] \in 0 .. HourlyBackoff - 1
                          THEN since_retry[s] + 1 ELSE since_retry[s]]
    /\ UNCHANGED <<status, retry_count, server_id, entries,
                   daemonVars, queueVars, serverVars, ghostVars>>

(***************************************************************************)
(* The queue goroutine.                                                    *)
(***************************************************************************)

\* ProcessPending, first half: list what is due now.
listDueSubmissions ==
    /\ daemon = "up" /\ pc = "idle"
    /\ \E s \in Submissions : IsDue(s)
    /\ due' = {[id |-> s, count |-> retry_count[s]] : s \in {t \in Submissions : IsDue(t)}}
    /\ pc' = "next"
    /\ UNCHANGED <<dbVars, daemonVars, sub, body, reply, serverVars, ghostVars>>

\* The row whose turn it is: the listing is ordered by submitted_at.
Oldest(p) == p \in due /\ \A q \in due : p.id <= q.id

\* Mutant of FinishRow: the loop over the listing does not advance.
FinishRowAgain(p) ==
    /\ pc' = "next" /\ UNCHANGED due
    /\ sub' = NoSub /\ body' = "none" /\ reply' = NoReply

\* The row p is dealt with; the pass goes on, or ends with its last row.
FinishRow(p) ==
    /\ due' = due \ {p}
    /\ pc' = IF due = {p} THEN "idle" ELSE "next"
    /\ sub' = NoSub /\ body' = "none" /\ reply' = NoReply

\* processOne: the entries cannot be read; the row is skipped.
LoadFails(p) ==
    /\ daemon = "up" /\ pc = "next" /\ Oldest(p)
    /\ FinishRow(p)
    /\ UNCHANGED <<dbVars, daemonVars, serverVars, ghostVars>>

\* processOne: nothing to send; the row is confirmed without the server, or
\* the update fails and is only logged.
ConfirmEmpty(p) ==
    /\ daemon = "up" /\ pc = "next" /\ Oldest(p)
    /\ entries[p.id] = "empty"
    /\ \/ status' = [status EXCEPT ![p.id] = "confirmed"]
       \/ UNCHANGED status
    /\ FinishRow(p)
    /\ UNCHANGED <<retry_count, since_retry, server_id, entries,
                   daemonVars, serverVars, ghostVars>>

\* processOne: the entries, read now, are aggregated and posted.
SubmitTimesheet(p) ==
    /\ daemon = "up" /\ pc = "next" /\ Oldest(p)
    /\ entries[p.id] # "empty"
    /\ pc' = "posting" /\ sub' = p /\ body' = entries[p.id]
    /\ UNCHANGED <<dbVars, daemonVars, due, reply, serverVars, ghostVars>>

\* ProcessPending sees the cancelled context before the next row.
StopPass ==
    /\ daemon = "stopping" /\ pc = "next"
    /\ ForgetPass
    /\ UNCHANGED <<dbVars, daemonVars, serverVars, ghostVars>>

\* bumpRetry: the counter read by the listing plus one, and now; or the update
\* fails and is only logged.
bumpRetry(p) ==
    \/ /\ retry_count' = [retry_count EXCEPT ![p.id] = Bump(p.count)]
       /\ since_retry' = [since_retry EXCEPT ![p.id] = 0]
    \/ UNCHANGED <<retry_count, since_retry>>

\* processOne after an answer that is neither success nor an auth failure.
RetryLater ==
    /\ pc = "posting" /\ reply.kind = "transient"
    /\ bumpRetry(sub)
    /\ FinishRow(sub)
    /\ UNCHANGED <<status, server_id, entries, daemonVars, serverVars, ghostVars>>

\* processOne when no answer comes: connection refused or reset, the request
\* or the answer lost, the 30 s timeout, or the context cancelled.
RequestFails ==
    /\ pc = "posting"
    /\ Abandon(sub.id)
    /\ bumpRetry(sub)
    /\ FinishRow(sub)
    /\ UNCHANGED <<status, server_id, entries, daemonVars,
                   key, registered, stored>>

\* Mutant of PermanentError: the row is given up for good.
PermanentErrorDrops ==
    /\ pc = "posting" /\ reply.kind = "permanent"
    /\ status' = [status EXCEPT ![sub.id] = "failed"]
    /\ FinishRow(sub)
    /\ UNCHANGED <<retry_count, since_retry, server_id, entries, daemonVars, serverVars, lost>>

\* processOne after one of the four auth sentinels: logged, nothing written.
PermanentError ==
    /\ pc = "posting" /\ reply.kind = "permanent"
    /\ FinishRow(sub)
    /\ UNCHANGED <<dbVars, daemonVars, serverVars, lost>>

\* Mutants of Confirm: any answer is taken for a success, and a success is not
\* recorded.
ConfirmAnyAnswer ==
    /\ pc = "posting" /\ reply.kind \in {"ok", "transient"}
    /\ status'    = [status EXCEPT ![sub.id] = "confirmed"]
    /\ server_id' = [server_id EXCEPT ![sub.id] = reply.id]
    /\ FinishRow(sub)
    /\ UNCHANGED <<retry_count, since_retry, entries, daemonVars, serverVars, ghostVars>>

ConfirmForgotten ==
    /\ pc = "posting" /\ reply.kind = "ok"
    /\ FinishRow(sub)
    /\ UNCHANGED <<dbVars, daemonVars, serverVars, ghostVars>>

\* processOne after success: updateStatus, or its failure, which is only logged.
Confirm ==
    /\ pc = "posting" /\ reply.kind = "ok"
    /\ \/ /\ status'    = [status EXCEPT ![sub.id] = "confirmed"]
          /\ server_id' = [server_id EXCEPT ![sub.id] = reply.id]
          /\ UNCHANGED lost
       \/ /\ lost[sub.id] < MaxLost
          /\ lost' = [lost EXCEPT ![sub.id] = @ + 1]
          /\ UNCHANGED <<status, server_id>>
    /\ FinishRow(sub)
    /\ UNCHANGED <<retry_count, since_retry, entries, daemonVars, serverVars>>

(***************************************************************************)
(* The server.                                                             *)
(***************************************************************************)

Answer(kind, id) == pc = "posting" /\ reply = NoReply /\ reply' = [kind |-> kind, id |-> id]

\* APIKeyMiddleware: the key is not active, or looking it up failed.
RejectKey ==
    /\ Answer("permanent", NoId)
    /\ UNCHANGED <<dbVars, daemonVars, pc, due, sub, body, serverVars, ghostVars>>

\* timesheetSubmitHandler's 400 answers: unknown device, empty ended_at.
RejectRequest ==
    /\ key = "valid" /\ (~registered \/ body = "open")
    /\ Answer("transient", NoId)
    /\ UNCHANGED <<dbVars, daemonVars, pc, due, sub, body, serverVars, ghostVars>>

\* timesheetSubmitHandler's 500 answers: nothing was committed.
ServerError ==
    /\ key = "valid"
    /\ Answer("transient", NoId)
    /\ UNCHANGED <<dbVars, daemonVars, pc, due, sub, body, serverVars, ghostVars>>

\* CreateTimesheet commits; the ids of a submission's timesheets are 1, 2, ...
CreateTimesheet ==
    /\ Acceptable
    /\ Answer("ok", stored[sub.id] + 1)
    /\ stored' = [stored EXCEPT ![sub.id] = @ + 1]
    /\ UNCHANGED <<dbVars, daemonVars, pc, due, sub, body,
                   key, registered, zombies, ghostVars>>

\* A request its client has given up commits after all, or is rolled back.
LateCommit(s) ==
    /\ zombies[s] > 0
    /\ zombies' = [zombies EXCEPT ![s] = @ - 1]
    /\ \/ stored' = [stored EXCEPT ![s] = @ + 1]
       \/ UNCHANGED stored
    /\ UNCHANGED <<dbVars, daemonVars, queueVars, key, registered, ghostVars>>

\* An administrator revokes the key, or it expires.
RevokeKey ==
    /\ key = "valid"
    /\ key' = "revoked"
    /\ UNCHANGED <<dbVars, daemonVars, queueVars, registered, stored, zombies, ghostVars>>

\* The user installs a newly downloaded client: same database, new key, and
\* the devices table has no row for the new key yet.
InstallNewClient ==
    /\ daemon = "down" /\ key = "revoked"
    /\ key' = "valid" /\ registered' = FALSE
    /\ UNCHANGED <<dbVars, daemonVars, queueVars, stored, zombies, lost>>

-----------------------------------------------------------------------------

ProcessOne(p) == LoadFails(p) \/ ConfirmEmpty(p) \/ SubmitTimesheet(p)

Daemon == StartDaemon \/ RegisterDevice \/ RegistrationFails \/ CancelContext \/ ExitDaemon
Rows   == \E s \in Submissions : handleSubmit(s) \/ CreateSubmission(s) \/ CloseEvent(s)
Queue  == \/ listDueSubmissions \/ StopPass
          \/ \E p \in due : ProcessOne(p)
          \/ RetryLater \/ RequestFails \/ PermanentError \/ Confirm
Server == \/ RejectKey \/ RejectRequest \/ ServerError \/ CreateTimesheet
          \/ \E s \in Submissions : LateCommit(s)
          \/ RevokeKey \/ InstallNewClient

Next == Daemon \/ Rows \/ Queue \/ Server \/ Tick

(***************************************************************************)
(* Fairness.  The goroutine is never blocked for ever and time passes; a   *)
(* pass is started by a ticker.  Strong fairness of SubmitTimesheet,       *)
(* CreateTimesheet and of recording a success says that local reads, the   *)
(* server and local writes do not fail every single time.                  *)
(***************************************************************************)
Fairness ==
    /\ WF_vars(Tick)
    /\ WF_vars(listDueSubmissions)
    /\ WF_vars(\E p \in due : ProcessOne(p))
    /\ WF_vars(RetryLater \/ RequestFails \/ PermanentError \/ Confirm)
    /\ \A s \in Submissions :
         /\ SF_vars(CreateTimesheet /\ sub.id = s)
         /\ SF_vars(\E p \in due : p.id = s /\ SubmitTimesheet(p))
         /\ SF_vars((Confirm \/ \E p \in due : ConfirmEmpty(p)) /\ status'[s] # status[s])

Spec == Init /\ [][Next]_vars
FairSpec == Spec /\ Fairness

-----------------------------------------------------------------------------

TypeOK ==
    /\ status      \in [Submissions -> {"none", "pending", "confirmed"}]
    /\ retry_count \in [Submissions -> 0 .. RetryCap]
    /\ since_retry \in [Submissions -> Never .. HourlyBackoff]
    /\ server_id   \in [Submissions -> Nat]
    /\ entries     \in [Submissions -> EntryKinds \cup {"none"}]
    /\ daemon \in {"down", "up", "stopping"}
    /\ registration \in {"none", "trying"}
    /\ pc \in {"idle", "next", "posting"}
    /\ due \subseteq PendingSubmission
    /\ sub \in PendingSubmission \cup {NoSub}
    /\ body \in {"none", "open", "complete"}
    /\ reply \in [kind : {"none", "ok", "permanent", "transient"}, id : Nat]
    /\ key \in {"valid", "revoked"}
    /\ registered \in BOOLEAN
    /\ stored  \in [Submissions -> Nat]
    /\ zombies \in [Submissions -> Nat]
    /\ lost    \in [Submissions -> 0 .. MaxLost]

\* A submission the client shows as confirmed is on the server, under the id
\* the client recorded; only one that linked no existing event is confirmed
\* without a server id (processOne, updateStatus).
ConfirmedIsStored ==
    \A s \in Submissions : status[s] = "confirmed" =>
        \/ server_id[s] \in 1 .. stored[s]
        \/ server_id[s] = NoId /\ entries[s] = "empty"

\* The server holds more than one timesheet of a submission only when the
\* client failed to record an outcome: an answer lost or overtaken by the
\* timeout, a crash, or a failed updateStatus.  (There is no idempotency key:
\* each such loss may cost one duplicate.)
AtMostOncePlusLosses ==
    \A s \in Submissions :
        stored[s] <= lost[s] + (IF server_id[s] # NoId \/ (reply.kind = "ok" /\ sub.id = s)
                                THEN 1 ELSE 0)

\* What the listing read of a row is still true when the row's turn comes,
\* however long the posts before it took: it is pending with that count, so
\* bumpRetry never writes back a stale counter and nothing is posted twice
\* because of an old listing.
ListingStaysCurrent ==
    \A p \in due : status[p.id] = "pending" /\ retry_count[p.id] = p.count

\* Confirmation is final: no later pass, retry or late answer changes a
\* confirmed row or gives it another server id.
ConfirmedIsFinal ==
    [][\A s \in Submissions : status[s] = "confirmed" =>
          status'[s] = "confirmed" /\ server_id'[s] = server_id[s]]_vars

\* However passes, retries, late commits, crashes and installations interleave, what
\* the two databases show is a delivery: confirmed once and for all, by a receipt
\* for a copy that is there, and no copy beyond the first without a lost outcome
\* before it.  A submission confirmed as empty never reaches the server.
Pipeline == INSTANCE Delivery WITH row <- status, receipt <- server_id, copies <- stored, losses <- lost
DeliverySpec == Pipeline!Spec

\* No request is posted before the delay that its row's retry counter calls for has
\* passed since the last failure, by the schedule itself: entry n + 1 of it after n
\* retries, the cap when it has no such entry.
BackoffRespected ==
    [][\A s \in Submissions :
          pc # "posting" /\ pc' = "posting" /\ sub'.id = s /\ since_retry[s] # Never =>
              \/ since_retry[s] >= HourlyBackoff
              \/ \E i \in 1 .. Len(BackoffSchedule) :
                    i = retry_count[s] + 1 /\ since_retry[s] >= BackoffSchedule[i]]_vars

\* A pending submission whose events are finished is eventually confirmed, if
\* from some time on the daemon runs, the key is valid and the device known.
EventuallyConfirmed ==
    <>[](daemon = "up" /\ key = "valid" /\ registered) =>
        \A s \in Submissions :
            (status[s] = "pending" /\ entries[s] # "open") ~> status[s] = "confirmed"
=============================================================================
