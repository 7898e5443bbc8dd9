----------------------------- MODULE LayoutSync -----------------------------
(***************************************************************************)
(* Layout snapshots on their way from the client to the server and through *)
(* its retention tiers.  On the client the capturer inserts rows, the      *)
(* Syncer posts them in batches and marks or bumps them one by one, and    *)
(* RunPrune deletes whatever is a week old.  On the server the ingest      *)
(* handler inserts a batch row by row, each insert its own statement, and  *)
(* the downsampler thins out old rows.                                     *)
(*                                                                         *)
(* Snapshots are numbered in the order of captured_at; the client's table  *)
(* names its rows by SQLite's own row ids, which are used again.  Of time  *)
(* only what the code compares is kept: which rows are older than 7 and 37 *)
(* days, and whether a failed row still waits for its backoff.             *)
(***************************************************************************)
EXTENDS Integers, FiniteSets

CONSTANTS
    N,          \* bound: snapshots captured
    Bucket,     \* Bucket[s]: the 10-minute bucket of captured_at
    Hour,       \* Hour[s]: its hour
    BatchSize,  \* SyncerConfig.BatchSize
    BodyCap     \* how many snapshots fit into layoutMaxBodyBytes

Snapshots == 1 .. N

ASSUME LayoutAssumption ==
    /\ N \in Nat /\ BatchSize \in Nat \ {0} /\ BodyCap \in Nat \ {0}
    /\ Bucket \in [Snapshots -> Nat] /\ Hour \in [Snapshots -> Nat]
ASSUME BucketsAssumption ==
    \A s, t \in Snapshots : Bucket[s] = Bucket[t] => Hour[s] = Hour[t]

VARIABLES
    local,     \* the client's row: not captured, pending, synced, or pruned
    id,        \* id[s]: the row id it was given, 0 before it is captured
    resting,   \* the row failed and its backoff has not passed
    batch,     \* rows of the current pass still to deal with, {} between passes
    outcome,   \* what postBatch returned, "none" while it waits
    todo,      \* rows of the request that the handler has not inserted yet
    reply,     \* its answer, "none" until there is one
    late,      \* rows of requests given up that may still be inserted
    tier,      \* the server's row: "none", or its tier
    ingested,  \* history: rows the server has inserted at some time
    week,      \* snapshots 1 .. week were captured more than 7 days ago
    month      \* snapshots 1 .. month were captured more than 37 days ago

clientVars == <<local, id, resting, batch, outcome>>
serverVars == <<todo, reply, late, tier, ingested>>
timeVars   == <<week, month>>
vars       == <<clientVars, serverVars, timeVars>>

Init ==
    /\ local = [s \in Snapshots |-> "none"] /\ id = [s \in Snapshots |-> 0]
    /\ resting = [s \in Snapshots |-> FALSE]
    /\ batch = {} /\ outcome = "none" /\ todo = {} /\ reply = "none" /\ late = {}
    /\ tier = [s \in Snapshots |-> "none"] /\ ingested = {}
    /\ week = 0 /\ month = 0

(***************************************************************************)
(* The client.                                                             *)
(***************************************************************************)

Rows == {s \in Snapshots : local[s] \in {"pending", "synced"}}

\* An INTEGER PRIMARY KEY without AUTOINCREMENT: one more than the largest id in the
\* table, 1 if that is empty.
NewId(i) ==
    /\ i \in 1 .. N /\ \A t \in Rows : id[t] < i
    /\ i = 1 \/ \E t \in Rows : id[t] = i - 1

\* Capturer.tick: the windows have changed, a row is inserted.
Capture(s) ==
    /\ local[s] = "none" /\ \A t \in Snapshots : t < s => local[t] # "none"
    /\ local' = [local EXCEPT ![s] = "pending"]
    /\ \E i \in 1 .. N : NewId(i) /\ id' = [id EXCEPT ![s] = i]
    /\ UNCHANGED <<resting, batch, outcome, serverVars, timeVars>>

\* listDueSnapshots' test of one row.
IsDue(s) == local[s] = "pending" /\ ~resting[s]
Due == {s \in Snapshots : IsDue(s)}

\* ProcessPending: the oldest BatchSize of the rows that are due are posted.
postBatch ==
    /\ batch = {} /\ Due # {}
    /\ batch' = {s \in Due : Cardinality({t \in Due : t < s}) < BatchSize}
    /\ outcome' = "none" /\ todo' = batch' /\ reply' = "none"
    /\ UNCHANGED <<local, id, resting, late, tier, ingested, timeVars>>

Turn(s) == s \in batch /\ \A t \in batch : s <= t

\* The row that an UPDATE ... WHERE id = ? for snapshot s finds, if it is pending:
\* none if that was pruned, another one if its id has been given again since.
Hit(s) == {t \in Snapshots : local[t] = "pending" /\ id[t] = id[s]}

\* After a success: one UPDATE per row; a failure is only logged.
MarkSynced(s) ==
    /\ outcome = "ok" /\ Turn(s)
    /\ \/ local' = [t \in Snapshots |-> IF t \in Hit(s) THEN "synced" ELSE local[t]]
       \/ UNCHANGED local
    /\ batch' = batch \ {s}
    /\ UNCHANGED <<id, resting, outcome, serverVars, timeVars>>

\* After a transient failure: one UPDATE per row.
BumpRetry(s) ==
    /\ outcome = "transient" /\ Turn(s)
    /\ resting' \in {resting, [t \in Snapshots |-> resting[t] \/ t \in Hit(s)]}
    /\ batch' = batch \ {s}
    /\ UNCHANGED <<local, id, outcome, serverVars, timeVars>>

\* After an authentication failure: logged, nothing written.
PermanentError ==
    /\ batch # {} /\ outcome = "permanent"
    /\ batch' = {}
    /\ UNCHANGED <<local, id, resting, outcome, serverVars, timeVars>>

\* Mutant of ReceiveAnswer: postBatch takes only 200 for a success.
ReceiveOnly200 ==
    /\ batch # {} /\ outcome = "none" /\ reply # "none"
    /\ outcome' = IF reply = "ok" THEN "transient" ELSE reply
    /\ UNCHANGED <<local, id, resting, batch, serverVars, timeVars>>

ReceiveAnswer ==
    /\ batch # {} /\ outcome = "none" /\ reply # "none"
    /\ outcome' = reply
    /\ UNCHANGED <<local, id, resting, batch, serverVars, timeVars>>

\* The request is not larger than layoutMaxBodyBytes.
Fits == Cardinality(batch) <= BodyCap

\* No answer comes, or it is lost.  What the handler has not inserted by now it
\* may still insert.
RequestFails ==
    /\ batch # {} /\ outcome = "none" /\ reply # "transient"
    /\ outcome' = "transient"
    /\ late' = late \cup (IF Fits THEN todo ELSE {}) /\ todo' = {}
    /\ UNCHANGED <<local, id, resting, batch, reply, tier, ingested, timeVars>>

\* The daemon ends, in the middle of anything.
Exit ==
    /\ batch # {}
    /\ batch' = {} /\ late' = late \cup (IF Fits THEN todo ELSE {}) /\ todo' = {}
    /\ UNCHANGED <<local, id, resting, outcome, reply, tier, ingested, timeVars>>

BackoffPasses(s) ==
    /\ resting[s]
    /\ resting' = [resting EXCEPT ![s] = FALSE]
    /\ UNCHANGED <<local, id, batch, outcome, serverVars, timeVars>>

\* Store.Prune deletes by age alone.
Prune ==
    /\ \E s \in Snapshots : s <= week /\ local[s] \in {"pending", "synced"}
    /\ local' = [s \in Snapshots |-> IF s <= week THEN "gone" ELSE local[s]]
    /\ resting' = [s \in Snapshots |-> resting[s] /\ s > week]
    /\ UNCHANGED <<id, batch, outcome, serverVars, timeVars>>

(***************************************************************************)
(* The server.                                                             *)
(***************************************************************************)

\* Store.InsertSnapshot: ON CONFLICT DO NOTHING.
Insert(s) ==
    /\ tier' = [tier EXCEPT ![s] = IF @ = "none" THEN "raw" ELSE @]
    /\ ingested' = ingested \cup {s}

Answer(kind) == batch # {} /\ outcome = "none" /\ reply = "none" /\ reply' = kind

\* One turn of the handler's loop; the last one answers 201.
InsertSnapshot(s) ==
    /\ Fits /\ s \in todo /\ \A t \in todo : s <= t
    /\ todo' = todo \ {s}
    /\ IF todo' = {} THEN Answer("ok") ELSE UNCHANGED reply
    /\ Insert(s)
    /\ UNCHANGED <<clientVars, late, timeVars>>

\* Mutant of IngestFails: a failed insert does not end the loop, which answers
\* 201 after it.
SkipsFailedInsert ==
    /\ todo # {}
    /\ Answer("ok") /\ todo' = {}
    /\ UNCHANGED <<clientVars, late, tier, ingested, timeVars>>

\* The handler's 400, 500 and 503 answers, the last two after any number of
\* inserts, and 413 for a body that is too large.
IngestFails ==
    /\ todo # {}
    /\ Answer("transient") /\ todo' = {}
    /\ UNCHANGED <<clientVars, late, tier, ingested, timeVars>>

\* APIKeyMiddleware refuses the request.
RejectKey ==
    /\ todo # {} /\ todo = batch
    /\ Answer("permanent") /\ todo' = {}
    /\ UNCHANGED <<clientVars, late, tier, ingested, timeVars>>

LateInsert(s) ==
    /\ s \in late /\ late' = late \ {s}
    /\ \/ Insert(s)
       \/ UNCHANGED <<tier, ingested>>
    /\ UNCHANGED <<clientVars, todo, reply, timeVars>>

\* downsampleSQL: of the rows of one tier that are old enough, the first of each
\* bucket is promoted, the others are deleted.
Downsample(from, to, limit, bucket) ==
    LET old == {s \in 1 .. limit : tier[s] = from}
        Survives(s) == \A t \in old : bucket[t] = bucket[s] => s <= t
    IN  /\ old # {}
        /\ tier' = [s \in Snapshots |->
                       IF s \notin old THEN tier[s] ELSE IF Survives(s) THEN to ELSE "none"]
        /\ UNCHANGED <<clientVars, todo, reply, late, ingested, timeVars>>

\* Mutant of DownsampleTo10Min: the other tier's buckets.
RawByHour == Downsample("raw", "10min", week, Hour)

DownsampleTo10Min == Downsample("raw", "10min", week, Bucket)
DownsampleTo1Hr   == Downsample("10min", "1hr", month, Hour)

(***************************************************************************)
(* Time.  A bucket is over, and all it will ever hold captured, long       *)
(* before its first snapshot is a week old; the same for an hour and the   *)
(* thirty days after that.                                                 *)
(***************************************************************************)

WeekPasses ==
    /\ week < N
    /\ \A t \in Snapshots : Bucket[t] = Bucket[week + 1] => local[t] # "none"
    /\ week' = week + 1 /\ UNCHANGED <<clientVars, serverVars, month>>

MonthPasses ==
    /\ month < week
    /\ \A t \in Snapshots : Hour[t] = Hour[month + 1] => t <= week
    /\ month' = month + 1 /\ UNCHANGED <<clientVars, serverVars, week>>

-----------------------------------------------------------------------------

Client == \/ \E s \in Snapshots : Capture(s) \/ MarkSynced(s) \/ BumpRetry(s) \/ BackoffPasses(s)
          \/ postBatch \/ PermanentError \/ ReceiveAnswer \/ RequestFails \/ Exit \/ Prune
Server == \/ \E s \in Snapshots : InsertSnapshot(s) \/ LateInsert(s)
          \/ IngestFails \/ RejectKey \/ DownsampleTo10Min \/ DownsampleTo1Hr

Next == Client \/ Server \/ WeekPasses \/ MonthPasses

\* The syncer's goroutine is scheduled, backoffs pass, and a request ends somehow
\* (the client has no timeout: the server must answer or the connection break).
\* Neither the server nor the local UPDATE fails every single time.
Fairness ==
    /\ WF_vars(postBatch) /\ WF_vars(ReceiveAnswer) /\ WF_vars(PermanentError)
    /\ WF_vars(RequestFails \/ IngestFails)
    /\ \A s \in Snapshots :
         /\ WF_vars(BackoffPasses(s)) /\ WF_vars(BumpRetry(s)) /\ WF_vars(MarkSynced(s))
         /\ SF_vars(InsertSnapshot(s))
         /\ SF_vars(ReceiveAnswer /\ reply = "ok" /\ s \in batch)
         /\ SF_vars(MarkSynced(s) /\ local' # local)

Spec == Init /\ [][Next]_vars
FairSpec == Spec /\ Fairness

-----------------------------------------------------------------------------

TypeOK ==
    /\ local \in [Snapshots -> {"none", "pending", "synced", "gone"}]
    /\ id \in [Snapshots -> 0 .. N] /\ resting \in [Snapshots -> BOOLEAN]
    /\ {batch, todo, late, ingested} \subseteq SUBSET Snapshots
    /\ {outcome, reply} \subseteq {"none", "ok", "transient", "permanent"}
    /\ tier \in [Snapshots -> {"none", "raw", "10min", "1hr"}]
    /\ week \in 0 .. N /\ month \in 0 .. week

\* The client stops sending a snapshot only when the server has stored it: a
\* batch that failed half-way or an answer lost never marks one that was not
\* inserted.  The exception is a row whose id belonged to a snapshot that was stored
\* and has been pruned since: the answer for that one may come after the table was
\* emptied and the id given again.
SyncedIsIngested ==
    \A s \in Snapshots : local[s] = "synced" =>
        \/ s \in ingested
        \/ \E t \in ingested : t < s /\ local[t] = "gone" /\ id[t] = id[s]

\* Downsampling thins out by age and never erases, in whatever order late inserts
\* and the two passes come.  Of every snapshot ever stored the server has the row
\* itself for a week, a row of its ten minutes as long as none of them is 37 days
\* old, and for ever the row, one of its ten minutes or the one of its hour.
HistoryKept ==
    \A s \in ingested :
        /\ s > week => tier[s] = "raw"
        /\ (\A t \in Snapshots : Bucket[t] = Bucket[s] => t > month) =>
               \E t \in Snapshots : tier[t] \in {"raw", "10min"} /\ Bucket[t] = Bucket[s]
        /\ \/ tier[s] # "none"
           \/ \E t \in Snapshots : tier[t] = "10min" /\ Bucket[t] = Bucket[s]
           \/ \E t \in Snapshots : tier[t] = "1hr" /\ Hour[t] = Hour[s]

\* Every captured snapshot is synced within the week it is kept, unless the
\* server or the network fails for all of it.
EventuallySynced ==
    \A s \in Snapshots : local[s] = "pending" ~> local[s] = "synced" \/ s <= week
=============================================================================
