----------------------- MODULE SubmissionQueueProofs -----------------------
(***************************************************************************)
(* The safety properties of SubmissionQueue hold for any number of         *)
(* submissions, any backoff schedule and any number of losses.             *)
(*                                                                         *)
(* The inductive invariant adds to the properties what the goroutine's     *)
(* control point says about its local variables (PassShape), and accounts  *)
(* for the commits under way for abandoned requests (LossAccounting):      *)
(* every timesheet of a submission is either the recorded one, the one     *)
(* just answered, or paid for by a loss.                                   *)
(***************************************************************************)
EXTENDS TLAPS, SubmissionQueue

\* What the control point of Queue.run says about its variables.
PassShape ==
    /\ pc = "posting" => sub \in due
    /\ pc # "posting" => reply = NoReply
    /\ reply.kind = "ok" => reply.id # NoId /\ reply.id <= stored[sub.id]

\* The server ids a row can hold.
ServerIds ==
    \A s \in Submissions :
        /\ status[s] # "confirmed" => server_id[s] = NoId
        /\ server_id[s] <= stored[s]
        /\ status[s] = "confirmed" /\ server_id[s] = NoId => entries[s] = "empty"

\* The timesheets that no loss pays for: the recorded one, or the one whose
\* answer is waiting.
Credit(s) == IF server_id[s] # NoId \/ (reply.kind = "ok" /\ sub.id = s) THEN 1 ELSE 0

LossAccounting == \A s \in Submissions : stored[s] + zombies[s] <= lost[s] + Credit(s)

IInv ==
    /\ TypeOK
    /\ PassShape
    /\ ListingStaysCurrent
    /\ ServerIds
    /\ LossAccounting

-----------------------------------------------------------------------------

\* The bounds are natural numbers.
LEMMA Bounds == RetryCap \in Nat /\ HourlyBackoff \in Nat /\ MaxLost \in Nat
  BY ScheduleAssumption, MaxLostAssumption DEF RetryCap

USE Bounds

\* The saturated counter stays within its range.
LEMMA BumpType == \A n \in Nat : Bump(n) \in 0 .. RetryCap
  BY DEF Bump

\* The goroutine's initial state and the empty tables satisfy the invariant.
LEMMA InitIInv == Init => IInv
<1> SUFFICES ASSUME Init PROVE IInv
  OBVIOUS
<1> USE DEF NoReply, NoId, NoSub, Never
<1>1. TypeOK
  <2>1. since_retry \in [Submissions -> Never .. HourlyBackoff]
    BY DEF Init
  <2>2. lost \in [Submissions -> 0 .. MaxLost] /\ retry_count \in [Submissions -> 0 .. RetryCap]
    BY DEF Init
  <2> QED
    BY <2>1, <2>2 DEF Init, TypeOK, EntryKinds
<1>2. PassShape
  BY DEF Init, PassShape
<1>3. ListingStaysCurrent
  BY DEF Init, ListingStaysCurrent
<1>4. ServerIds
  BY DEF Init, ServerIds
<1>5. LossAccounting
  BY DEF Init, LossAccounting, Credit
<1> QED
  BY <1>1, <1>2, <1>3, <1>4, <1>5 DEF IInv

\* What the current row is while its request is under way.
LEMMA PostingRow ==
  ASSUME IInv, pc = "posting"
  PROVE  /\ sub \in due
         /\ sub.id \in Submissions /\ sub.count \in Nat
         /\ status[sub.id] = "pending"
         /\ server_id[sub.id] = NoId
  BY DEF IInv, TypeOK, PassShape, ListingStaysCurrent, ServerIds, PendingSubmission

\* Every step of the system preserves types.
LEMMA NextTypeOK == IInv /\ [Next]_vars => TypeOK'
<1> SUFFICES ASSUME IInv, [Next]_vars
             PROVE  TypeOK'
  OBVIOUS
<1> USE DEF NoReply, NoId, NoSub, Never, IInv, TypeOK
<1>1. CASE Daemon
  <2>1. CASE StartDaemon
    BY <2>1 DEF StartDaemon, dbVars, queueVars, serverVars, ghostVars
  <2>2. CASE RegisterDevice
    BY <2>2 DEF RegisterDevice, dbVars, queueVars, ghostVars
  <2>3. CASE RegistrationFails
    BY <2>3 DEF RegistrationFails, dbVars, queueVars, serverVars, ghostVars
  <2>4. CASE CancelContext
    BY <2>4 DEF CancelContext, dbVars, queueVars, serverVars, ghostVars
  <2>5. CASE ExitDaemon
    BY <2>5, PostingRow DEF ExitDaemon, ForgetPass, Abandon, dbVars
  <2> QED
    BY <1>1, <2>1, <2>2, <2>3, <2>4, <2>5 DEF Daemon
<1>2. ASSUME NEW s \in Submissions, handleSubmit(s) \/ CreateSubmission(s) \/ CloseEvent(s)
      PROVE  TypeOK'
  BY <1>2 DEF handleSubmit, CreateSubmission, CloseEvent, InsertPending, EntryKinds,
              daemonVars, queueVars, serverVars, ghostVars
<1>3. CASE listDueSubmissions
  BY <1>3 DEF listDueSubmissions, PendingSubmission, dbVars, daemonVars, serverVars, ghostVars
<1>4. CASE StopPass
  BY <1>4 DEF StopPass, ForgetPass, dbVars, daemonVars, serverVars, ghostVars
<1>5. ASSUME NEW p \in due, ProcessOne(p)
      PROVE  TypeOK'
  <2>1. CASE LoadFails(p)
    BY <2>1 DEF LoadFails, FinishRow, dbVars, daemonVars, serverVars, ghostVars
  <2>2. CASE ConfirmEmpty(p)
    BY <2>2 DEF ConfirmEmpty, FinishRow, daemonVars, serverVars, ghostVars
  <2>3. CASE SubmitTimesheet(p)
    BY <2>3 DEF SubmitTimesheet, EntryKinds, PendingSubmission, dbVars, daemonVars, serverVars, ghostVars
  <2> QED
    BY <1>5, <2>1, <2>2, <2>3 DEF ProcessOne
<1>6. CASE RetryLater
  BY <1>6, PostingRow, BumpType
     DEF RetryLater, bumpRetry, FinishRow, daemonVars, serverVars, ghostVars
<1>7. CASE RequestFails
  BY <1>7, PostingRow, BumpType
     DEF RequestFails, Abandon, bumpRetry, FinishRow, daemonVars
<1>8. CASE PermanentError
  BY <1>8, PostingRow DEF PermanentError, FinishRow, dbVars, daemonVars, serverVars
<1>9. CASE Confirm
  BY <1>9, PostingRow DEF Confirm, FinishRow, daemonVars, serverVars
<1>10. CASE Server
  <2>1. CASE RejectKey \/ RejectRequest \/ ServerError
    BY <2>1 DEF RejectKey, RejectRequest, ServerError, Answer, dbVars, daemonVars, serverVars, ghostVars
  <2>2. CASE CreateTimesheet
    BY <2>2, PostingRow DEF CreateTimesheet, Answer, dbVars, daemonVars, ghostVars
  <2>3. ASSUME NEW s \in Submissions, LateCommit(s)
        PROVE  TypeOK'
    BY <2>3 DEF LateCommit, dbVars, daemonVars, queueVars, ghostVars
  <2>4. CASE RevokeKey
    BY <2>4 DEF RevokeKey, dbVars, daemonVars, queueVars, ghostVars
  <2>5. CASE InstallNewClient
    BY <2>5 DEF InstallNewClient, dbVars, daemonVars, queueVars
  <2> QED
    BY <1>10, <2>1, <2>2, <2>3, <2>4, <2>5 DEF Server
<1>11. CASE Tick
  BY <1>11 DEF Tick, daemonVars, queueVars, serverVars, ghostVars
<1>12. CASE UNCHANGED vars
  BY <1>12 DEF vars, dbVars, daemonVars, queueVars, serverVars, ghostVars
<1> QED
  BY <1>1, <1>2, <1>3, <1>4, <1>5, <1>6, <1>7, <1>8, <1>9, <1>10, <1>11, <1>12
     DEF Next, Rows, Queue

\* The parts of the invariant beyond types.
Bookkeeping == PassShape /\ ListingStaysCurrent /\ ServerIds /\ LossAccounting

\* Every step of the system preserves them.
LEMMA NextBookkeeping == IInv /\ [Next]_vars => Bookkeeping'
<1> SUFFICES ASSUME IInv, [Next]_vars
             PROVE  Bookkeeping'
  OBVIOUS
<1> USE DEF NoReply, NoId, NoSub, IInv, TypeOK, Bookkeeping,
            PassShape, ListingStaysCurrent, ServerIds, LossAccounting, Credit
<1>1. CASE StartDaemon \/ RegistrationFails \/ CancelContext
  BY <1>1 DEF StartDaemon, RegistrationFails, CancelContext,
              dbVars, queueVars, serverVars, ghostVars
<1>2. CASE RegisterDevice
  BY <1>2 DEF RegisterDevice, dbVars, queueVars, ghostVars
<1>3. CASE ExitDaemon
  BY <1>3, PostingRow DEF ExitDaemon, ForgetPass, Abandon, dbVars
<1>4. ASSUME NEW s \in Submissions, handleSubmit(s) \/ CreateSubmission(s) \/ CloseEvent(s)
      PROVE  Bookkeeping'
  BY <1>4 DEF handleSubmit, CreateSubmission, CloseEvent, InsertPending, PendingSubmission,
              daemonVars, queueVars, serverVars, ghostVars
<1>5. CASE listDueSubmissions
  BY <1>5 DEF listDueSubmissions, IsDue, dbVars, daemonVars, serverVars, ghostVars
<1>6. CASE StopPass
  BY <1>6 DEF StopPass, ForgetPass, dbVars, daemonVars, serverVars, ghostVars
<1>7. ASSUME NEW p \in due, ProcessOne(p)
      PROVE  Bookkeeping'
  <2>1. CASE LoadFails(p)
    BY <2>1 DEF LoadFails, FinishRow, dbVars, daemonVars, serverVars, ghostVars
  <2>2. CASE ConfirmEmpty(p)
    BY <2>2 DEF ConfirmEmpty, FinishRow, PendingSubmission, daemonVars, serverVars, ghostVars
  <2>3. CASE SubmitTimesheet(p)
    BY <2>3 DEF SubmitTimesheet, dbVars, daemonVars, serverVars, ghostVars
  <2> QED
    BY <1>7, <2>1, <2>2, <2>3 DEF ProcessOne
<1>8. CASE RetryLater
  BY <1>8, PostingRow, BumpType
     DEF RetryLater, bumpRetry, FinishRow, PendingSubmission, daemonVars, serverVars, ghostVars
<1>9. CASE RequestFails
  BY <1>9, PostingRow, BumpType
     DEF RequestFails, Abandon, bumpRetry, FinishRow, PendingSubmission, daemonVars
<1>10. CASE PermanentError
  BY <1>10, PostingRow DEF PermanentError, FinishRow, dbVars, daemonVars, serverVars
<1>11. CASE Confirm
  BY <1>11, PostingRow DEF Confirm, FinishRow, PendingSubmission, daemonVars, serverVars
<1>12. CASE RejectKey \/ RejectRequest \/ ServerError
  BY <1>12 DEF RejectKey, RejectRequest, ServerError, Answer, dbVars, daemonVars, serverVars, ghostVars
<1>13. CASE CreateTimesheet
  BY <1>13, PostingRow DEF CreateTimesheet, Answer, dbVars, daemonVars, ghostVars
<1>14. ASSUME NEW s \in Submissions, LateCommit(s)
       PROVE  Bookkeeping'
  <2> USE <1>14 DEF LateCommit, dbVars, daemonVars, queueVars, ghostVars
  <2>1. \A t \in Submissions : stored'[t] \in Nat /\ stored[t] <= stored'[t]
    OBVIOUS
  <2>2. reply.kind = "ok" => sub.id \in Submissions
    BY PostingRow
  <2>3. PassShape'
    BY <2>1, <2>2
  <2>4. (ListingStaysCurrent /\ ServerIds)'
    BY <2>1
  <2>5. LossAccounting'
    OBVIOUS
  <2> QED
    BY <2>3, <2>4, <2>5
<1>15. CASE RevokeKey
  BY <1>15 DEF RevokeKey, dbVars, daemonVars, queueVars, ghostVars
<1>16. CASE InstallNewClient
  BY <1>16 DEF InstallNewClient, dbVars, daemonVars, queueVars
<1>17. CASE Tick
  BY <1>17 DEF Tick, daemonVars, queueVars, serverVars, ghostVars
<1>18. CASE UNCHANGED vars
  BY <1>18 DEF vars, dbVars, daemonVars, queueVars, serverVars, ghostVars
<1> QED
  BY <1>1, <1>2, <1>3, <1>4, <1>5, <1>6, <1>7, <1>8, <1>9, <1>10, <1>11, <1>12,
     <1>13, <1>14, <1>15, <1>16, <1>17, <1>18
     DEF Next, Daemon, Rows, Queue, Server

\* The invariant holds in every reachable state.
THEOREM InductiveInvariant == Spec => []IInv
<1>1. IInv /\ [Next]_vars => IInv'
  BY NextTypeOK, NextBookkeeping DEF IInv, Bookkeeping
<1> QED
  BY InitIInv, <1>1, PTL DEF Spec

\* The tables, the goroutine's variables and the server's counters keep their types.
THEOREM TypeCorrect == Spec => []TypeOK
<1>1. IInv => TypeOK
  BY DEF IInv
<1> QED
  BY InductiveInvariant, <1>1, PTL

\* A confirmed submission is on the server under the recorded id, unless it
\* linked no event (processOne, updateStatus), whatever is lost or crashes.
THEOREM ConfirmedStored == Spec => []ConfirmedIsStored
<1>1. IInv => ConfirmedIsStored
  BY DEF IInv, TypeOK, ServerIds, ConfirmedIsStored, NoId
<1> QED
  BY InductiveInvariant, <1>1, PTL

\* Duplicate timesheets of a submission are bounded by the outcomes the client
\* failed to record.
THEOREM DuplicatesPaidByLosses == Spec => []AtMostOncePlusLosses
<1>1. IInv => AtMostOncePlusLosses
  BY DEF IInv, TypeOK, LossAccounting, Credit, AtMostOncePlusLosses, NoId
<1> QED
  BY InductiveInvariant, <1>1, PTL

\* The rows of a pass are still pending, with the counter that was listed.
THEOREM ListingCurrent == Spec => []ListingStaysCurrent
<1>1. IInv => ListingStaysCurrent
  BY DEF IInv
<1> QED
  BY InductiveInvariant, <1>1, PTL

\* A confirmed row never changes its status or its server id again.
THEOREM Finality == Spec => ConfirmedIsFinal
<1> DEFINE Final == \A s \in Submissions : status[s] = "confirmed" =>
                        status'[s] = "confirmed" /\ server_id'[s] = server_id[s]
<1>1. IInv /\ [Next]_vars => [Final]_vars
  <2> SUFFICES ASSUME IInv, [Next]_vars PROVE Final
    OBVIOUS
  <2> USE DEF IInv, TypeOK
  <2>1. CASE UNCHANGED <<status, server_id>>
    BY <2>1
  <2>2. ASSUME NEW s \in Submissions, InsertPending(s, "complete") \/ handleSubmit(s)
        PROVE  Final
    BY <2>2 DEF InsertPending, handleSubmit
  <2>3. ASSUME NEW p \in due, ConfirmEmpty(p)
        PROVE  Final
    BY <2>3 DEF ConfirmEmpty, PendingSubmission
  <2>4. CASE Confirm
    BY <2>4, PostingRow DEF Confirm
  <2> QED
    BY <2>1, <2>2, <2>3, <2>4
       DEF Next, Daemon, Rows, Queue, Server, ProcessOne, StartDaemon, RegisterDevice,
           RegistrationFails, CancelContext, ExitDaemon, CreateSubmission, CloseEvent,
           listDueSubmissions, StopPass, LoadFails, SubmitTimesheet, RetryLater, RequestFails,
           PermanentError, RejectKey, RejectRequest, ServerError, CreateTimesheet, LateCommit,
           RevokeKey, InstallNewClient, Tick, vars, dbVars
<1> QED
  BY InductiveInvariant, <1>1, PTL DEF Spec, ConfirmedIsFinal

-----------------------------------------------------------------------------

\* What the listing found due stays due until its turn: time only passes, and a
\* failure that restarts a row's delay also takes the row out of the pass.
ListedAreDue ==
    \A p \in due : since_retry[p.id] = Never \/ since_retry[p.id] >= backoffFor(retry_count[p.id])

\* Delays are natural numbers.
LEMMA BackoffType == \A n \in 0 .. RetryCap : backoffFor(n) \in Nat
  BY ScheduleAssumption DEF backoffFor, RetryCap

\* A pass lists a row once.
LEMMA OneListing ==
  ASSUME IInv, NEW p \in due, NEW q \in due, p.id = q.id
  PROVE  p = q
  BY DEF IInv, TypeOK, ListingStaysCurrent, PendingSubmission

\* Every step keeps the rows of a pass due.
LEMMA NextListedAreDue == IInv /\ ListedAreDue /\ [Next]_vars => ListedAreDue'
<1> SUFFICES ASSUME IInv, ListedAreDue, [Next]_vars, NEW p \in due'
             PROVE  since_retry'[p.id] = Never \/ since_retry'[p.id] >= backoffFor(retry_count'[p.id])
  BY DEF ListedAreDue, backoffFor
<1> USE DEF IInv, TypeOK, ListedAreDue
<1>1. CASE due' \subseteq due /\ UNCHANGED <<since_retry, retry_count>>
  BY <1>1
<1>2. CASE listDueSubmissions
  BY <1>2 DEF listDueSubmissions, IsDue, dbVars
<1>3. CASE RetryLater \/ RequestFails
  <2>1. p \in due /\ p # sub /\ sub \in due /\ bumpRetry(sub)
    BY <1>3, PostingRow DEF RetryLater, RequestFails, FinishRow
  <2>2. p.id # sub.id /\ p.id \in Submissions
    BY <2>1, OneListing DEF PendingSubmission
  <2>3. since_retry'[p.id] = since_retry[p.id] /\ retry_count'[p.id] = retry_count[p.id]
    BY <2>1, <2>2 DEF bumpRetry
  <2> QED
    BY <2>1, <2>3
<1>4. CASE Tick
  <2>1. p \in due /\ p.id \in Submissions /\ retry_count'[p.id] = retry_count[p.id]
    BY <1>4 DEF Tick, queueVars, PendingSubmission
  <2>2. backoffFor(retry_count[p.id]) \in Nat
    BY <2>1, BackoffType
  <2>3. since_retry'[p.id] = since_retry[p.id] \/ since_retry'[p.id] = since_retry[p.id] + 1
    BY <1>4, <2>1 DEF Tick
  <2>4. since_retry[p.id] = Never => since_retry'[p.id] = Never
    BY <1>4, <2>1 DEF Tick, Never
  <2>5. since_retry[p.id] \in Int
    BY <2>1 DEF Never
  <2> QED
    BY <2>1, <2>2, <2>3, <2>4, <2>5
<1> QED
  BY <1>1, <1>2, <1>3, <1>4
     DEF Next, Daemon, Rows, Queue, Server, ProcessOne, StartDaemon, RegisterDevice,
         RegistrationFails, CancelContext, ExitDaemon, ForgetPass, handleSubmit, CreateSubmission,
         InsertPending, CloseEvent, StopPass, LoadFails, ConfirmEmpty, SubmitTimesheet, FinishRow,
         PermanentError, Confirm, RejectKey, RejectRequest, ServerError, Answer, CreateTimesheet,
         LateCommit, RevokeKey, InstallNewClient, vars, dbVars, queueVars

\* No request is posted before its row's delay has passed, however long the
\* posts before it in the pass took.
THEOREM Backoff == Spec => BackoffRespected
<1> DEFINE Respected ==
        \A s \in Submissions :
            pc # "posting" /\ pc' = "posting" /\ sub'.id = s /\ since_retry[s] # Never =>
                \/ since_retry[s] >= HourlyBackoff
                \/ \E i \in 1 .. Len(BackoffSchedule) :
                      i = retry_count[s] + 1 /\ since_retry[s] >= BackoffSchedule[i]
<1>1. Init => ListedAreDue
  BY DEF Init, ListedAreDue
<1>2. IInv /\ ListedAreDue /\ [Next]_vars => [Respected]_vars
  <2>1. ASSUME IInv, ListedAreDue, NEW p \in due, since_retry[p.id] # Never
        PROVE  \/ since_retry[p.id] >= HourlyBackoff
               \/ \E i \in 1 .. Len(BackoffSchedule) :
                     i = retry_count[p.id] + 1 /\ since_retry[p.id] >= BackoffSchedule[i]
    <3>1. p.id \in Submissions /\ retry_count[p.id] \in Nat
      BY <2>1, ScheduleAssumption DEF IInv, TypeOK, PendingSubmission, RetryCap
    <3>2. since_retry[p.id] >= backoffFor(retry_count[p.id])
      BY <2>1 DEF ListedAreDue
    <3>3. CASE retry_count[p.id] < Len(BackoffSchedule)
      <4>1. retry_count[p.id] + 1 \in 1 .. Len(BackoffSchedule)
        BY <3>1, <3>3, ScheduleAssumption
      <4>2. since_retry[p.id] >= BackoffSchedule[retry_count[p.id] + 1]
        BY <3>2, <3>3 DEF backoffFor
      <4> QED
        BY <4>1, <4>2
    <3>4. CASE ~(retry_count[p.id] < Len(BackoffSchedule))
      BY <3>2, <3>4 DEF backoffFor
    <3> QED
      BY <3>3, <3>4
  <2> SUFFICES ASSUME IInv, ListedAreDue, [Next]_vars, pc # "posting", pc' = "posting"
               PROVE  \E p \in due : sub' = p
    BY <2>1
  <2> QED
    BY DEF Next, Daemon, Rows, Queue, Server, ProcessOne, StartDaemon, RegisterDevice,
           RegistrationFails, CancelContext, ExitDaemon, ForgetPass, handleSubmit, CreateSubmission,
           InsertPending, CloseEvent, listDueSubmissions, StopPass, LoadFails, ConfirmEmpty,
           SubmitTimesheet, FinishRow, RetryLater, RequestFails, PermanentError, Confirm, RejectKey,
           RejectRequest, ServerError, Answer, CreateTimesheet, LateCommit, RevokeKey,
           InstallNewClient, Tick, vars, queueVars
<1> QED
  BY InductiveInvariant, NextListedAreDue, <1>1, <1>2, PTL DEF Spec, BackoffRespected

-----------------------------------------------------------------------------

\* What never was sent: a row without an event is confirmed or waits, and nothing of
\* it is on the server or on its way there.
Unsent ==
    /\ \A s \in Submissions : status[s] = "none" \/ entries[s] = "empty" =>
                                  stored[s] = 0 /\ zombies[s] = 0
    /\ pc = "posting" => entries[sub.id] # "empty"

\* Only the row being posted can be given up.
LEMMA GivenUp ==
  ASSUME IInv, pc = "posting", Abandon(sub.id)
  PROVE  /\ \/ lost' = lost
            \/ lost' = [lost EXCEPT ![sub.id] = @ + 1]
         /\ \A s \in Submissions : s # sub.id => zombies'[s] = zombies[s]
  BY PostingRow DEF Abandon, IInv, TypeOK

\* Every step keeps it.
LEMMA NextUnsent == IInv /\ Unsent /\ [Next]_vars => Unsent'
<1> SUFFICES ASSUME IInv, Unsent, [Next]_vars
             PROVE  Unsent'
  OBVIOUS
<1> USE DEF IInv, TypeOK, Unsent
<1>1. CASE UNCHANGED <<status, entries, stored, zombies, pc, sub>>
  BY <1>1
<1>2. CASE UNCHANGED <<status, entries, stored, zombies>> /\ pc' # "posting"
  BY <1>2
<1>3. ASSUME NEW s \in Submissions, handleSubmit(s) \/ CreateSubmission(s)
      PROVE  Unsent'
  <2>1. PICK kind \in EntryKinds : InsertPending(s, kind)
    BY <1>3 DEF handleSubmit, CreateSubmission, EntryKinds
  <2>2. pc = "posting" => sub.id # s
    BY <2>1, PostingRow DEF InsertPending
  <2> QED
    BY <2>1, <2>2 DEF InsertPending, queueVars, serverVars
<1>4. ASSUME NEW s \in Submissions, CloseEvent(s)
      PROVE  Unsent'
  BY <1>4, PostingRow DEF CloseEvent, queueVars, serverVars
<1>5. ASSUME NEW p \in due, SubmitTimesheet(p)
      PROVE  Unsent'
  BY <1>5 DEF SubmitTimesheet, dbVars, serverVars
<1>6. ASSUME NEW p \in due, ConfirmEmpty(p)
      PROVE  Unsent'
  BY <1>6 DEF ConfirmEmpty, FinishRow, PendingSubmission, serverVars, ListingStaysCurrent
<1>7. CASE ExitDaemon
  <2>1. pc' # "posting" /\ UNCHANGED <<status, entries, stored>>
    BY <1>7 DEF ExitDaemon, ForgetPass, dbVars
  <2>2. CASE pc = "posting"
    BY <1>7, <2>1, <2>2, GivenUp, PostingRow DEF ExitDaemon
  <2>3. CASE pc # "posting"
    BY <1>7, <2>1, <2>3 DEF ExitDaemon
  <2> QED
    BY <2>2, <2>3
<1>8. CASE RequestFails
  BY <1>8, GivenUp, PostingRow DEF RequestFails, FinishRow
<1>9. CASE Confirm
  BY <1>9, PostingRow DEF Confirm, FinishRow, serverVars
<1>10. CASE CreateTimesheet
  BY <1>10, PostingRow DEF CreateTimesheet, Answer, dbVars
<1>11. ASSUME NEW s \in Submissions, LateCommit(s)
       PROVE  Unsent'
  BY <1>11 DEF LateCommit, dbVars, queueVars
<1> QED
  BY <1>1, <1>2, <1>3, <1>4, <1>5, <1>6, <1>7, <1>8, <1>9, <1>10, <1>11
     DEF Next, Daemon, Rows, Queue, Server, ProcessOne, StartDaemon, RegisterDevice,
         RegistrationFails, CancelContext, ForgetPass, listDueSubmissions, StopPass, LoadFails,
         FinishRow, RetryLater, PermanentError, RejectKey, RejectRequest, ServerError, RevokeKey,
         InstallNewClient, Tick, vars, dbVars, queueVars, serverVars

\* Losing an outcome of the row being posted is a step of the delivery, or none.
LEMMA AbandonDelivers ==
  ASSUME IInv, pc = "posting", Abandon(sub.id), UNCHANGED <<status, server_id, stored>>
  PROVE  [Pipeline!Next]_(Pipeline!vars)
<1>1. CASE lost' = lost
  BY <1>1 DEF Pipeline!vars
<1>2. CASE lost' = [lost EXCEPT ![sub.id] = @ + 1]
  <2>1. Pipeline!LoseOutcome(sub.id)
    BY <1>2, PostingRow DEF Pipeline!LoseOutcome
  <2> QED
    BY <2>1, PostingRow DEF Pipeline!Next
<1> QED
  BY <1>1, <1>2, GivenUp

\* The queue, the server and all that is lost between them implement the delivery: for
\* any number of submissions, any schedule and any number of losses.
THEOREM Refinement == Spec => DeliverySpec
<1>1. Init => Pipeline!Init /\ Unsent
  BY DEF Init, Pipeline!Init, NoId, Unsent
<1>2. ASSUME IInv, Unsent, [Next]_vars
      PROVE  [Pipeline!Next]_(Pipeline!vars)
  <2> USE DEF NoId
  <2>1. CASE UNCHANGED <<status, server_id, stored, lost>>
    BY <2>1 DEF Pipeline!vars
  <2>2. ASSUME NEW s \in Submissions, handleSubmit(s) \/ CreateSubmission(s)
        PROVE  Pipeline!Next
    <3>1. Pipeline!Submit(s)
      BY <2>2 DEF handleSubmit, CreateSubmission, InsertPending, serverVars, ghostVars, Pipeline!Submit
    <3> QED
      BY <3>1 DEF Pipeline!Next
  <2>3. ASSUME NEW p \in due, ConfirmEmpty(p), status' # status
        PROVE  Pipeline!Next
    <3>1. p.id \in Submissions /\ status[p.id] = "pending" /\ stored[p.id] = 0
      BY <1>2, <2>3 DEF IInv, TypeOK, PendingSubmission, ListingStaysCurrent, ConfirmEmpty, Unsent
    <3>2. Pipeline!ConfirmNothing(p.id)
      BY <2>3, <3>1 DEF ConfirmEmpty, serverVars, ghostVars, Pipeline!ConfirmNothing
    <3> QED
      BY <3>1, <3>2 DEF Pipeline!Next
  <2>4. CASE ExitDaemon
    <3>1. UNCHANGED <<status, server_id, stored>>
      BY <2>4 DEF ExitDaemon, dbVars
    <3>2. CASE pc = "posting"
      BY <1>2, <2>4, <3>1, <3>2, AbandonDelivers DEF ExitDaemon
    <3>3. CASE pc # "posting"
      BY <2>1, <2>4, <3>1, <3>3 DEF ExitDaemon
    <3> QED
      BY <3>2, <3>3
  <2>5. CASE RequestFails
    BY <1>2, <2>5, AbandonDelivers DEF RequestFails
  <2>6. CASE Confirm
    <3>1. pc = "posting" /\ reply.kind = "ok" /\ UNCHANGED stored
      BY <2>6 DEF Confirm, serverVars
    <3>2. reply.id \in 1 .. stored[sub.id]
      BY <1>2, <3>1, PostingRow DEF IInv, PassShape, TypeOK
    <3>3. Pipeline!Confirm(sub.id) \/ Pipeline!LoseOutcome(sub.id)
      BY <1>2, <2>6, <3>1, <3>2, PostingRow DEF Confirm, Pipeline!Confirm, Pipeline!LoseOutcome
    <3> QED
      BY <1>2, <3>1, <3>3, PostingRow DEF Pipeline!Next
  <2>7. CASE CreateTimesheet
    <3>1. pc = "posting" /\ reply = NoReply
      BY <2>7 DEF CreateTimesheet, Answer
    <3>2. sub.id \in Submissions /\ status[sub.id] = "pending" /\ stored[sub.id] <= lost[sub.id]
      BY <1>2, <3>1, PostingRow DEF IInv, TypeOK, LossAccounting, Credit, NoReply
    <3>3. Pipeline!Receive(sub.id)
      BY <2>7, <3>2 DEF CreateTimesheet, dbVars, ghostVars, Pipeline!Receive
    <3> QED
      BY <3>2, <3>3 DEF Pipeline!Next
  <2>8. ASSUME NEW s \in Submissions, LateCommit(s), stored' # stored
        PROVE  Pipeline!Next
    <3>1. stored[s] <= lost[s]
      BY <1>2, <2>8 DEF IInv, TypeOK, LossAccounting, Credit, LateCommit
    <3>2. status[s] = "pending" \/ server_id[s] # 0
      BY <1>2, <2>8 DEF IInv, TypeOK, Unsent, ServerIds, LateCommit
    <3>3. Pipeline!Receive(s)
      BY <2>8, <3>1, <3>2 DEF LateCommit, dbVars, ghostVars, Pipeline!Receive
    <3> QED
      BY <3>3 DEF Pipeline!Next
  <2>9. ASSUME NEW p \in due, ConfirmEmpty(p), status' = status
        PROVE  UNCHANGED <<status, server_id, stored, lost>>
    BY <2>9 DEF ConfirmEmpty, serverVars, ghostVars
  <2>10. ASSUME NEW s \in Submissions, LateCommit(s), stored' = stored
         PROVE  UNCHANGED <<status, server_id, stored, lost>>
    BY <2>10 DEF LateCommit, dbVars, ghostVars
  <2>11. \/ \E s \in Submissions : handleSubmit(s) \/ CreateSubmission(s) \/ LateCommit(s)
         \/ \E p \in due : ConfirmEmpty(p)
         \/ ExitDaemon \/ RequestFails \/ Confirm \/ CreateTimesheet
         \/ UNCHANGED <<status, server_id, stored, lost>>
    BY <1>2 DEF Next, Daemon, Rows, Queue, Server, ProcessOne, StartDaemon, RegisterDevice,
       RegistrationFails, CancelContext, CloseEvent, listDueSubmissions, StopPass, LoadFails,
       SubmitTimesheet, RetryLater, PermanentError, RejectKey, RejectRequest, ServerError,
       RevokeKey, InstallNewClient, Tick, vars, dbVars, serverVars, ghostVars
  <2> QED
    BY <2>1, <2>2, <2>3, <2>4, <2>5, <2>6, <2>7, <2>8, <2>9, <2>10, <2>11
<1> QED
  BY InductiveInvariant, NextUnsent, <1>1, <1>2, PTL DEF Spec, DeliverySpec, Pipeline!Spec
=============================================================================
