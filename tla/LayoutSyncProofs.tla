-------------------------- MODULE LayoutSyncProofs --------------------------
(***************************************************************************)
(* Proofs about LayoutSync, for any number of snapshots, any buckets, any  *)
(* batch size and any body cap.                                            *)
(***************************************************************************)
EXTENDS TLAPS, WellFoundedInduction, LayoutSync

\* What the handler has inserted of the request under way, and what an answer
\* 201 stands for, before and after the client has received it.
BatchAccounted ==
    /\ outcome = "none" /\ reply = "none" => batch \ todo \subseteq ingested
    /\ outcome = "none" /\ reply = "ok"   => batch \subseteq ingested
    /\ outcome = "ok"                     => batch \subseteq ingested

\* What row ids tell: they are unique in the table, whose rows are pruned oldest
\* first, and only captured snapshots are posted.
RowIds ==
    /\ \A s, t \in Rows : id[s] = id[t] => s = t
    /\ \A s, t \in Snapshots : local[s] = "gone" /\ t <= s => local[t] = "gone"
    /\ \A s \in batch : local[s] # "none"

IInv == TypeOK /\ RowIds /\ SyncedIsIngested /\ BatchAccounted

\* TypeOK, with a name for each variable's type.
LEMMA Types ==
    ASSUME TypeOK
    PROVE  /\ batch \subseteq Snapshots /\ todo \subseteq Snapshots
           /\ late \subseteq Snapshots /\ ingested \subseteq Snapshots
           /\ outcome \in {"none", "ok", "transient", "permanent"}
           /\ reply \in {"none", "ok", "transient", "permanent"}
           /\ week \in Nat /\ month \in Nat /\ week <= N /\ month <= week
    BY LayoutAssumption DEF TypeOK

LEMMA InitIInv == Init => IInv
    BY LayoutAssumption DEF Init, IInv, TypeOK, RowIds, Rows, SyncedIsIngested, BatchAccounted, Snapshots

\* Every step keeps the types.
LEMMA NextTypeOK == ASSUME TypeOK, [Next]_vars PROVE TypeOK'
  <1> USE LayoutAssumption DEF TypeOK
  <1>1. ASSUME NEW s \in Snapshots, Capture(s) PROVE TypeOK'
    BY <1>1 DEF Capture, serverVars, timeVars
  <1>2. ASSUME NEW s \in Snapshots, MarkSynced(s) PROVE TypeOK'
    BY <1>2 DEF MarkSynced, serverVars, timeVars
  <1>3. ASSUME NEW s \in Snapshots, BumpRetry(s) PROVE TypeOK'
    <2>2. [t \in Snapshots |-> resting[t] \/ t \in Hit(s)] \in [Snapshots -> BOOLEAN]
      BY Zenon
    <2>3. resting' \in [Snapshots -> BOOLEAN]
      BY <1>3, <2>2 DEF BumpRetry
    <2> QED
      BY <1>3, <2>3 DEF BumpRetry, serverVars, timeVars
  <1>4. ASSUME NEW s \in Snapshots, BackoffPasses(s) PROVE TypeOK'
    BY <1>4 DEF BackoffPasses, serverVars, timeVars
  <1>5. CASE postBatch
    BY <1>5 DEF postBatch, Due, timeVars
  <1>6. CASE PermanentError \/ ReceiveAnswer
    BY <1>6 DEF PermanentError, ReceiveAnswer, serverVars, timeVars
  <1>7. CASE RequestFails \/ Exit
    BY <1>7 DEF RequestFails, Exit, timeVars
  <1>8. CASE Prune
    BY <1>8 DEF Prune, serverVars, timeVars
  <1>9. ASSUME NEW s \in Snapshots, InsertSnapshot(s) PROVE TypeOK'
    BY <1>9 DEF InsertSnapshot, Answer, Insert, clientVars, timeVars
  <1>10. ASSUME NEW s \in Snapshots, LateInsert(s) PROVE TypeOK'
    BY <1>10 DEF LateInsert, Insert, clientVars, timeVars
  <1>11. CASE IngestFails \/ RejectKey
    BY <1>11 DEF IngestFails, RejectKey, Answer, clientVars, timeVars
  <1>12. CASE DownsampleTo10Min \/ DownsampleTo1Hr
    BY <1>12 DEF DownsampleTo10Min, DownsampleTo1Hr, Downsample, clientVars, timeVars
  <1>13. CASE WeekPasses \/ MonthPasses
    BY <1>13 DEF WeekPasses, MonthPasses, clientVars, serverVars
  <1>14. CASE UNCHANGED vars
    BY <1>14 DEF vars, clientVars, serverVars, timeVars
  <1> QED
    BY <1>1, <1>2, <1>3, <1>4, <1>5, <1>6, <1>7, <1>8, <1>9, <1>10, <1>11, <1>12, <1>13,
       <1>14 DEF Next, Client, Server

\* Every step keeps what row ids tell.
LEMMA NextRowIds == ASSUME TypeOK, RowIds, [Next]_vars PROVE RowIds'
  <1> USE Types DEF RowIds, Rows
  <1>0. /\ local \in [Snapshots -> {"none", "pending", "synced", "gone"}]
        /\ id \in [Snapshots -> 0 .. N] /\ Snapshots \subseteq Nat
    BY LayoutAssumption DEF TypeOK, Snapshots
  <1>1. ASSUME NEW s \in Snapshots, Capture(s) PROVE RowIds'
    <2>1. PICK i \in 1 .. N : NewId(i) /\ id' = [id EXCEPT ![s] = i]
      BY <1>1 DEF Capture
    <2>2. local' = [local EXCEPT ![s] = "pending"] /\ local[s] = "none" /\ batch' = batch
      BY <1>1 DEF Capture
    <2>3. \A t \in Rows : id[t] # i
      BY <1>0, <2>1, LayoutAssumption DEF NewId
    <2>4. \A t \in Rows' : t = s \/ t \in Rows
      BY <1>0, <2>2
    <2>5. \A t, u \in Rows' : id'[t] = id'[u] => t = u
      BY <1>0, <2>1, <2>2, <2>3, <2>4
    <2>6. \A t, u \in Snapshots : local'[t] = "gone" /\ u <= t => local'[u] = "gone"
      BY <1>0, <2>2
    <2> QED
      BY <1>0, <2>2, <2>5, <2>6
  <1>2. ASSUME NEW s \in Snapshots, MarkSynced(s) PROVE RowIds'
    <2>1. /\ id' = id /\ batch' \subseteq batch
          /\ \A t \in Snapshots : local'[t] = local[t] \/ (local[t] = "pending" /\ local'[t] = "synced")
      BY <1>0, <1>2 DEF MarkSynced, Hit
    <2> QED
      BY <1>0, <2>1
  <1>3. ASSUME NEW s \in Snapshots, BumpRetry(s) \/ BackoffPasses(s) PROVE RowIds'
    BY <1>0, <1>3 DEF BumpRetry, BackoffPasses
  <1>4. CASE postBatch
    BY <1>0, <1>4 DEF postBatch, Due, IsDue
  <1>5. CASE PermanentError \/ ReceiveAnswer \/ RequestFails \/ Exit
    BY <1>0, <1>5 DEF PermanentError, ReceiveAnswer, RequestFails, Exit
  <1>6. CASE Prune
    <2>1. /\ id' = id /\ batch' = batch
          /\ \A t \in Snapshots : local'[t] = IF t <= week THEN "gone" ELSE local[t]
      BY <1>6 DEF Prune
    <2>2. \A t \in Rows' : t \in Rows
      BY <2>1
    <2>3. ASSUME NEW t \in Snapshots, NEW u \in Snapshots, local'[t] = "gone", u <= t
          PROVE  local'[u] = "gone"
      BY <1>0, <2>1, <2>3
    <2>4. \A t \in batch' : local'[t] # "none"
      BY <2>1
    <2> QED
      BY <2>1, <2>2, <2>3, <2>4
  <1>7. CASE Server \/ WeekPasses \/ MonthPasses \/ UNCHANGED vars
    <2>1. UNCHANGED clientVars
      BY <1>7 DEF Server, InsertSnapshot, LateInsert, IngestFails, RejectKey, DownsampleTo10Min,
         DownsampleTo1Hr, Downsample, WeekPasses, MonthPasses, vars
    <2> QED
      BY <2>1 DEF clientVars
  <1> QED
    BY <1>1, <1>2, <1>3, <1>4, <1>5, <1>6, <1>7 DEF Next, Client

\* Every step keeps the account of what the server has.
LEMMA NextAccounted ==
    ASSUME IInv, [Next]_vars PROVE SyncedIsIngested' /\ BatchAccounted'
  <1> USE Types DEF IInv, SyncedIsIngested, BatchAccounted
  <1>0. /\ local \in [Snapshots -> {"none", "pending", "synced", "gone"}]
        /\ id \in [Snapshots -> 0 .. N] /\ Snapshots \subseteq Nat
    BY LayoutAssumption DEF TypeOK, Snapshots
  <1>1. ASSUME NEW s \in Snapshots, Capture(s)
        PROVE  SyncedIsIngested' /\ BatchAccounted'
    <2>1. /\ \A t \in Snapshots : t # s => id'[t] = id[t] /\ local'[t] = local[t]
          /\ local[s] = "none" /\ local'[s] = "pending"
      BY <1>0, <1>1 DEF Capture
    <2>2. UNCHANGED <<batch, outcome, todo, reply, ingested>>
      BY <1>1 DEF Capture, serverVars
    <2>3. SyncedIsIngested'
      <3> SUFFICES ASSUME NEW t \in Snapshots, local'[t] = "synced"
                   PROVE  \/ t \in ingested
                          \/ \E u \in ingested : u < t /\ local'[u] = "gone" /\ id'[u] = id'[t]
        BY <2>2
      <3>1. t # s /\ local[t] = "synced" /\ id'[t] = id[t]
        BY <2>1
      <3>2. ASSUME NEW u \in ingested, local[u] = "gone" PROVE local'[u] = "gone" /\ id'[u] = id[u]
        BY <2>1, <3>2
      <3> QED
        BY <3>1, <3>2
    <2> QED
      BY <2>2, <2>3
  <1>a. ASSUME NEW s \in Snapshots, BackoffPasses(s) \/ BumpRetry(s)
        PROVE  SyncedIsIngested' /\ BatchAccounted'
    BY <1>0, <1>a DEF BackoffPasses, BumpRetry, serverVars, timeVars
  <1>2. ASSUME NEW s \in Snapshots, MarkSynced(s)
        PROVE  SyncedIsIngested' /\ BatchAccounted'
    <2>1. /\ UNCHANGED <<id, outcome, todo, reply, ingested>> /\ batch' = batch \ {s}
          /\ outcome = "ok" /\ s \in batch
          /\ \A t \in Snapshots : local'[t] = local[t] \/ (t \in Hit(s) /\ local'[t] = "synced")
      BY <1>0, <1>2 DEF MarkSynced, Turn, serverVars
    <2>2. s \in ingested /\ local[s] # "none"
      BY <2>1 DEF RowIds
    <2>3. ASSUME NEW t \in Hit(s), t # s PROVE s < t /\ local[s] = "gone" /\ id[t] = id[s]
      <3>1. local[t] = "pending" /\ id[t] = id[s] /\ t \in Snapshots /\ t \in Rows
        BY <2>3 DEF Hit, Rows
      <3>2. s \notin Rows
        BY <2>3, <3>1 DEF RowIds
      <3>3. local[s] = "gone"
        BY <1>0, <2>2, <3>2 DEF Rows
      <3>4. ~(t <= s)
        BY <3>1, <3>3 DEF RowIds
      <3> QED
        BY <1>0, <3>1, <3>3, <3>4
    <2>4. \A t \in Snapshots : local[t] = "gone" => local'[t] = "gone"
      BY <2>1 DEF Hit
    <2>5. SyncedIsIngested'
      <3> SUFFICES ASSUME NEW t \in Snapshots, local'[t] = "synced"
                   PROVE  \/ t \in ingested
                          \/ \E u \in ingested : u < t /\ local'[u] = "gone" /\ id[u] = id[t]
        BY <2>1
      <3>1. CASE local[t] = "synced"
        BY <1>0, <3>1, <2>4
      <3>2. CASE local[t] # "synced"
        BY <2>1, <2>2, <2>3, <2>4, <3>2
      <3> QED
        BY <3>1, <3>2
    <2> QED
      BY <2>1, <2>5
  <1>3. CASE postBatch
    BY <1>3 DEF postBatch, timeVars
  <1>4. CASE PermanentError \/ ReceiveAnswer \/ RequestFails \/ Exit
    BY <1>4 DEF PermanentError, ReceiveAnswer, RequestFails, Exit, serverVars, timeVars
  <1>5. CASE Prune
    BY <1>0, <1>5 DEF Prune, serverVars, timeVars
  <1>6. ASSUME NEW s \in Snapshots, InsertSnapshot(s)
        PROVE  SyncedIsIngested' /\ BatchAccounted'
    BY <1>6 DEF InsertSnapshot, Answer, Insert, clientVars, timeVars
  <1>7. ASSUME NEW s \in Snapshots, LateInsert(s)
        PROVE  SyncedIsIngested' /\ BatchAccounted'
    BY <1>7 DEF LateInsert, Insert, clientVars, timeVars
  <1>8. CASE IngestFails \/ RejectKey
    BY <1>8 DEF IngestFails, RejectKey, Answer, clientVars, timeVars
  <1>9. CASE DownsampleTo10Min \/ DownsampleTo1Hr
    BY <1>9 DEF DownsampleTo10Min, DownsampleTo1Hr, Downsample, clientVars, timeVars
  <1>10. CASE WeekPasses \/ MonthPasses
    BY <1>10 DEF WeekPasses, MonthPasses, clientVars, serverVars
  <1>11. CASE UNCHANGED vars
    BY <1>11 DEF vars, clientVars, serverVars, timeVars
  <1> QED
    BY <1>1, <1>a, <1>2, <1>3, <1>4, <1>5, <1>6, <1>7, <1>8, <1>9, <1>10, <1>11
    DEF Next, Client, Server

\* The types, the promise and the account of the request under way are kept by
\* every step of client, server and clock.
THEOREM InductiveInvariant == Spec => []IInv
  <1>1. IInv /\ [Next]_vars => IInv'
    BY NextTypeOK, NextRowIds, NextAccounted DEF IInv
  <1> QED
    BY InitIInv, <1>1, PTL DEF Spec

\* The client marks a layout snapshot as synced only if the server has stored
\* it, or the pruned one whose row id it was given, for every batch size and
\* whatever fails half-way (ProcessPending and layoutIngestHandler).
THEOREM SyncedStored == Spec => []SyncedIsIngested
  <1>1. IInv => SyncedIsIngested
    BY DEF IInv
  <1> QED
    BY InductiveInvariant, <1>1, PTL

(***************************************************************************)
(* What downsampling keeps.                                                *)
(***************************************************************************)

\* A non-empty set of numbers has a least element.
LEMMA Least ==
    ASSUME NEW T \in SUBSET Nat, T # {}
    PROVE  \E x \in T : \A y \in T : x <= y
  <1>1. PICK x \in T : \A y \in T : ~ (<<y, x>> \in OpToRel(<, Nat))
    BY NatLessThanWellFounded, WFMin, Zenon
  <1>2. \A y \in T : ~ (y < x)
    BY <1>1 DEF OpToRel
  <1> QED
    BY <1>2

\* Of the old rows of one bucket downsampleSQL promotes one, and it leaves every
\* row of another tier alone.
LEMMA OneSurvives ==
    ASSUME TypeOK, NEW from, NEW to, NEW limit \in Nat, limit <= N,
           NEW bucket \in [Snapshots -> Nat],
           Downsample(from, to, limit, bucket)
    PROVE  /\ \A s \in Snapshots : tier[s] # from \/ s > limit => tier'[s] = tier[s]
           /\ \A s \in Snapshots : \/ tier'[s] = tier[s]
                                   \/ \E t \in Snapshots : tier'[t] = to /\ bucket[t] = bucket[s]
  <1> DEFINE old == {s \in 1 .. limit : tier[s] = from}
             Survives(s) == \A t \in old : bucket[t] = bucket[s] => s <= t
  <1>1. old \subseteq Snapshots /\ Snapshots \subseteq Nat
    BY LayoutAssumption DEF Snapshots
  <1>2. \A s \in Snapshots :
            tier'[s] = IF s \notin old THEN tier[s] ELSE IF Survives(s) THEN to ELSE "none"
    BY DEF Downsample
  <1>3. \A s \in Snapshots : tier[s] # from \/ s > limit => tier'[s] = tier[s]
    BY <1>1, <1>2
  <1>4. ASSUME NEW s \in Snapshots, tier'[s] # tier[s]
        PROVE  \E t \in Snapshots : tier'[t] = to /\ bucket[t] = bucket[s]
    <2> DEFINE mates == {t \in old : bucket[t] = bucket[s]}
    <2>1. s \in mates
      BY <1>2, <1>4
    <2>2. PICK t \in mates : \A u \in mates : t <= u
      <3>1. mates \in SUBSET Nat /\ mates # {}
        BY <1>1, <2>1
      <3> HIDE DEF mates
      <3> QED
        BY <3>1, Least
    <2>3. Survives(t)
      BY <2>2
    <2> QED
      BY <1>1, <1>2, <2>2, <2>3
  <1> QED
    BY <1>3, <1>4

\* What has a row was stored once, and nothing is promoted in its first week.
RawWhenYoung ==
    \A s \in Snapshots : tier[s] # "none" => s \in ingested /\ (s > week => tier[s] = "raw")

HistoryInv == RawWhenYoung /\ HistoryKept

\* Every step keeps a trace of every snapshot ever stored, as fine as its age calls for.
LEMMA NextHistoryKept == ASSUME TypeOK, HistoryInv, [Next]_vars PROVE HistoryInv'
  <1> USE DEF HistoryInv, HistoryKept, RawWhenYoung
  <1>0. /\ tier \in [Snapshots -> {"none", "raw", "10min", "1hr"}] /\ ingested \subseteq Snapshots
        /\ Snapshots \subseteq Nat /\ week \in Nat /\ month \in Nat /\ month <= week
    BY Types, LayoutAssumption DEF TypeOK, Snapshots
  <1>1. ASSUME NEW s \in Snapshots, Insert(s), UNCHANGED timeVars PROVE HistoryInv'
    <2>1. /\ ingested' = ingested \cup {s} /\ tier'[s] # "none" /\ week' = week /\ month' = month
          /\ s \notin ingested => tier'[s] = "raw"
          /\ \A t \in Snapshots : tier'[t] = tier[t] \/ (t = s /\ tier[t] = "none" /\ tier'[t] = "raw")
      BY <1>0, <1>1 DEF Insert, timeVars
    <2>2. RawWhenYoung'
      BY <1>0, <2>1
    <2>3. \A t \in Snapshots : tier[t] # "none" => tier'[t] = tier[t]
      BY <2>1
    <2>4. ASSUME NEW t \in ingested'
          PROVE  (\A u \in Snapshots : Bucket[u] = Bucket[t] => u > month') =>
                     \E u \in Snapshots : tier'[u] \in {"raw", "10min"} /\ Bucket[u] = Bucket[t]
      BY <1>0, <2>1, <2>3
    <2>5. ASSUME NEW t \in ingested'
          PROVE  \/ tier'[t] # "none"
                 \/ \E u \in Snapshots : tier'[u] = "10min" /\ Bucket[u] = Bucket[t]
                 \/ \E u \in Snapshots : tier'[u] = "1hr" /\ Hour[u] = Hour[t]
      BY <1>0, <2>1, <2>3
    <2>6. ASSUME NEW t \in ingested', t > week' PROVE tier'[t] = "raw"
      BY <1>0, <2>1, <2>6
    <2> QED
      BY <2>2, <2>4, <2>5, <2>6
  <1>2. ASSUME UNCHANGED <<tier, ingested>>, week' \in Nat, month' \in Nat,
               week' >= week, month' >= month
        PROVE  HistoryInv'
    BY <1>0, <1>2
  <1>3. CASE DownsampleTo10Min
    <2>1. /\ \A s \in Snapshots : tier[s] # "raw" \/ s > week => tier'[s] = tier[s]
          /\ \A s \in Snapshots :
                \/ tier'[s] = tier[s]
                \/ \E t \in Snapshots : tier'[t] = "10min" /\ Bucket[t] = Bucket[s]
      BY <1>3, OneSurvives, Types, LayoutAssumption DEF DownsampleTo10Min
    <2>2. ingested' = ingested /\ week' = week /\ month' = month
      BY <1>3 DEF DownsampleTo10Min, Downsample, timeVars
    <2>3. RawWhenYoung'
      BY <1>0, <2>1, <2>2
    <2>4. ASSUME NEW s \in ingested, NEW t \in Snapshots,
                 tier[t] \in {"raw", "10min"} /\ Bucket[t] = Bucket[s]
          PROVE  \E u \in Snapshots : tier'[u] \in {"raw", "10min"} /\ Bucket[u] = Bucket[s]
      BY <2>1, <2>4
    <2>5. ASSUME NEW s \in ingested
          PROVE  \/ tier'[s] # "none"
                 \/ \E t \in Snapshots : tier'[t] = "10min" /\ Bucket[t] = Bucket[s]
                 \/ \E t \in Snapshots : tier'[t] = "1hr" /\ Hour[t] = Hour[s]
      BY <1>0, <2>1
    <2>6. ASSUME NEW s \in ingested, s > week PROVE tier'[s] = "raw"
      BY <1>0, <2>1, <2>6
    <2> QED
      BY <2>2, <2>3, <2>4, <2>5, <2>6
  <1>4. CASE DownsampleTo1Hr
    <2>1. /\ \A s \in Snapshots : tier[s] # "10min" \/ s > month => tier'[s] = tier[s]
          /\ \A s \in Snapshots :
                \/ tier'[s] = tier[s]
                \/ \E t \in Snapshots : tier'[t] = "1hr" /\ Hour[t] = Hour[s]
      BY <1>4, OneSurvives, Types, LayoutAssumption DEF DownsampleTo1Hr
    <2>2. ingested' = ingested /\ week' = week /\ month' = month
      BY <1>4 DEF DownsampleTo1Hr, Downsample, timeVars
    <2>3. RawWhenYoung'
      BY <1>0, <2>1, <2>2
    <2>4. ASSUME NEW s \in ingested, \A t \in Snapshots : Bucket[t] = Bucket[s] => t > month
          PROVE  \E u \in Snapshots : tier'[u] \in {"raw", "10min"} /\ Bucket[u] = Bucket[s]
      BY <2>1, <2>4
    <2>5. ASSUME NEW s \in ingested
          PROVE  \/ tier'[s] # "none"
                 \/ \E t \in Snapshots : tier'[t] = "10min" /\ Bucket[t] = Bucket[s]
                 \/ \E t \in Snapshots : tier'[t] = "1hr" /\ Hour[t] = Hour[s]
      <3>1. ASSUME NEW t \in Snapshots, tier[t] = "10min", Bucket[t] = Bucket[s]
            PROVE  \/ \E u \in Snapshots : tier'[u] = "10min" /\ Bucket[u] = Bucket[s]
                   \/ \E u \in Snapshots : tier'[u] = "1hr" /\ Hour[u] = Hour[s]
        <4>1. Hour[t] = Hour[s]
          BY <1>0, <3>1, BucketsAssumption
        <4> QED
          BY <2>1, <3>1, <4>1
      <3> QED
        BY <1>0, <2>1, <3>1
    <2>6. ASSUME NEW s \in ingested, s > week PROVE tier'[s] = "raw"
      BY <1>0, <2>1, <2>6
    <2> QED
      BY <2>2, <2>3, <2>4, <2>5, <2>6
  <1>5. CASE \E s \in Snapshots : InsertSnapshot(s) \/ LateInsert(s)
    BY <1>0, <1>1, <1>2, <1>5 DEF InsertSnapshot, LateInsert, timeVars
  <1>6. CASE IngestFails \/ RejectKey
    BY <1>0, <1>2, <1>6 DEF IngestFails, RejectKey, timeVars
  <1>7. CASE Client
    BY <1>0, <1>2, <1>7 DEF Client, Capture, MarkSynced, BumpRetry, BackoffPasses, postBatch,
       PermanentError, ReceiveAnswer, RequestFails, Exit, Prune, serverVars, timeVars
  <1>8. CASE WeekPasses \/ MonthPasses \/ UNCHANGED vars
    BY <1>0, <1>2, <1>8 DEF WeekPasses, MonthPasses, vars, serverVars, timeVars
  <1> QED
    BY <1>3, <1>4, <1>5, <1>6, <1>7, <1>8 DEF Next, Server

\* Downsampling erases no part of the history and thins it out no sooner than it
\* should (downsampleSQL and its two callers): of every snapshot ever stored the
\* server keeps the row for a week, a row of its ten minutes for 37 days, and one
\* of its hour for ever, however many there are and in whatever order late inserts
\* and the two passes come.
THEOREM HistoryIsKept == Spec => []HistoryKept
  <1>1. Init => HistoryInv
    BY DEF Init, HistoryInv, HistoryKept, RawWhenYoung
  <1>2. IInv /\ HistoryInv /\ [Next]_vars => HistoryInv'
    BY NextHistoryKept DEF IInv
  <1>3. HistoryInv => HistoryKept
    BY DEF HistoryInv
  <1> QED
    BY InductiveInvariant, <1>1, <1>2, <1>3, PTL DEF Spec

\* The types of LayoutSync's state, for every number of snapshots.
THEOREM TypeCorrect == Spec => []TypeOK
  <1>1. IInv => TypeOK
    BY DEF IInv
  <1> QED
    BY InductiveInvariant, <1>1, PTL
=============================================================================
