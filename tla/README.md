# Trasker: a TLA+ model of its concurrent core

Trasker records which window has the focus, lets the user tag the recorded
events, and submits them as timesheets. A **client** daemon runs on each
desktop (Go, SQLite, a local dashboard on 127.0.0.1:9746); a **server** (Go,
PostgreSQL) collects timesheets and layout snapshots and serves the reports.
This directory models the parts in which several goroutines, processes, two
databases, a network and restarts meet. Every definition is translated from the code;
`PROJECT.json` ("map") gives the lines.

## 1. The system

### Components and their state

| Component | State | Operations | Interacts with |
|---|---|---|---|
| submission queue (`client/sync`) | table `submissions` (status, retry_count, last_retry, server_id), the current pass | list due rows, post, confirm, bump | dashboard and auto-submit create rows; server API |
| timesheet ingest (`server/api`, `server/store`) | timesheets, devices | register device, submit (one transaction) | API key middleware |
| auto-submit (`client/autosubmit`) | `auto_submit_config`, `auto_submit_tags` | Save, RunOnce | dashboard, tags, submissions |
| dead-man switch (`client/presence`) | interval tier, two token channels, queue of announcements | Reset, Acknowledge, Stop, loop | focus recorder, status page |
| focus recording (`cmd/trasker-client`) | table `focus_events` | record, close on lock, close on pause | tracker, screen lock, dead-man switch, tagger |
| layout snapshots (`client/layout`, `server`) | `layout_snapshots` on both sides, tiers | capture, sync in batches, prune, ingest, downsample | screen lock, API keys |
| Pomodoro timer (`client/pomodoro`) | state, end time, stop channel | Start, Cancel, phase goroutines | tray |
| tagger and learner (`client/tagger`) | rules, cached rule list, counters | match, learn, suggest | recorder, dashboard |
| aggregation (`client/sync`) | none | group, merge | queue, tags, notes |
| daemon start and stop (`cmd/trasker-client`, `client/runtime`, `client/setup`) | database file, port, pid and URL files, quit channel | first-run setup, start, status, open, quit, shut down | everything on the desktop |
| cascade, session engine (`client/session`) | events, tags, notes | spread tags and notes | tests only |
| notifications, tray | OS | | |
| accounts, keys, roles (`server/auth`) | users, api_keys | log in, create, revoke, check | every request |
| administration, audit, settings | audit log, settings, sign-on configuration in memory | correct, delete, revoke, save, sign in | timesheets, keys |
| client builder | cache of binaries | pre-build, patch, download | keys |
| server start and migrations | schema_migrations, token secret file, first account | load or generate, apply, take over, bootstrap | database, other servers |
| reports | none | read | timesheets |

`PROJECT.json` ("components") says of each whether it is modelled.

### What is hard about it

* *Two databases and no idempotency key.* The client learns from an HTTP answer
  that the server has stored a timesheet. Answers get lost, the client's
  timeout races the commit, the local update can fail.
* *Passes over stale lists.* The queue and the layout syncer read many rows and
  then spend minutes on them.
* *Sequences of statements that are not transactions.* `RunOnce`, the recorder
  (UPDATE, then INSERT), the ingest handler (one INSERT per row), corrections
  and their audit records, a key and its binary, read and write of the settings.
* *Goroutines that share a table.* Three of them end "the most recent open
  event".
* *Token channels, blocking sends, left-over goroutines* in the dead-man switch
  and the Pomodoro timer.
* *Copies of a table in memory*: the tagger's rule list, the sign-on
  configuration.
* *Restarts.* `main` cancels a context and exits without waiting for anyone.
* *Several processes.* A second launch of the daemon, a second server on the same
  database; pid files, a shared secret file, migrations.

The list of hazards, each at its line and with the properties about it, is in
`PROJECT.json`.

## 2. The modules

`MC*` modules hold the values a `.cfg` gives to the constants. Operators with a
comment "Mutant of ..." are deliberately wrong variants of the definition that
follows them; no specification uses them. Putting one in the place of its
original must make a named property fail (`PROJECT.json`, "mutants"), which
shows that the property notices such a bug.

### Delivery and SubmissionQueue

`Delivery` is the abstract specification: a submission is a row, a receipt (the
server id), a number of copies on the server and a number of losses. A copy
appears only when a submission is under way, a receipt only for a copy that is
there or for a submission of no events, and more copies than one only after
losses. `SubmissionQueue` is the code: the client's `submissions` table, the daemon with its one-shot registration,
the goroutine `Queue.run`, and the server. One action per branch of
`processOne`: `LoadFails`, `ConfirmEmpty`, `SubmitTimesheet`, then by outcome
`RetryLater`, `RequestFails`, `PermanentError` or `Confirm`. The server's
handler is `RejectKey`, `RejectRequest`, `ServerError` or `CreateTimesheet`.
`Abandon` is what a lost answer, a timeout or the end of the process leaves
behind: an answer nobody reads, or a commit that still happens (`LateCommit`).
Every local write may fail, as in the code, where errors are only logged.

Abstractions: a submission's events are reduced to what the code
distinguishes (none found, the last one still open, all finished); the time of
`last_retry` to the ticks since then, up to the longest delay; a server id to
the number of the timesheet among those of its submission. `lost`, a history
variable, counts outcomes the client did not record and is bounded by `MaxLost`.

| Property | Meaning |
|---|---|
| `ConfirmedIsStored` | confirmed rows are on the server under the recorded id, or linked no event |
| `AtMostOncePlusLosses` | every duplicate on the server is paid for by one unrecorded outcome |
| `ListingStaysCurrent` | what a pass listed of a row still holds at the row's turn |
| `DeliverySpec` | the queue and the server implement `Delivery` under `row <- status`, `receipt <- server_id`, `copies <- stored`, `losses <- lost` |
| `BackoffRespected` | no post before the row's delay is over |
| `EventuallyConfirmed` | finished pending rows are confirmed under fairness |

`ConfirmedIsFinal` (nothing changes a confirmed row) is proved and has no run.

### AutoSubmit

The scheduler's `RunOnce` as the five database operations it is (`Load`,
`LoadTags`, `eligibleEvents`, `CreateSubmission`, `RecordRun`), between any two of which the
dashboard (`handleSubmit`, `handleTagEvent`, `Save`), the recorder and the clock
can act, and any of which can fail or be the last (`AbortRun`). A cutoff time is
the set of events that started before it and the ticks since then. `Save` allows
for the one-second resolution of timestamps.

`AutoNeverRepeats` (no event is auto-submitted twice, even after a crash before
the run is recorded), `LastRunInCycle` (last_run is empty while auto-submit is
off and not before the cutoff while it is on; only a run that overlaps turning it
off or on breaks this, and the next such change repairs it), `OnlyFinishedTagged` (what the query established still holds
when the links are written), `EventuallySubmitted`.

### PresenceMachine and Deadman

`PresenceMachine` is the abstract specification, the state machine drawn in
`presence.go`. `Deadman` is the loop: the select it waits in, the announcement
it is sending, the one-token channels of `Reset` and `Acknowledge`, the queue of
announcements, and what the reader has seen (`shown`). The run checks
`PresenceSpec`, that Deadman implements PresenceMachine under
`state <- shown`, and `SignalEndsPause`, that no signal is lost in a pause.

### FocusTracking (extends Deadman)

Composes the dead-man switch with the recorder (receive and `Reset`, UPDATE,
INSERT), the screen-lock goroutine and the dead-man listener, all over
`focus_events`. Statements may fail (`MaxFailures`), the process may shut down,
crash and start again (`MaxRestarts`). The daemon never calls `Acknowledge`, so
neither does this composition.

`OpenPaidByFailures` (two open events only after a failed UPDATE, not through
interleaving or restart), `EndsNewest` (no event is left open behind a newer
one), `FocusChangeResumes` (a focus change ends a pause even if it came before
the announcement).

### LayoutSync

Capture, batched sync and pruning on the client; row-by-row ingest, late
inserts of abandoned requests and both downsampling passes on the server. Time
is reduced to what is compared: which snapshots are older than 7 and 37 days
(`week`, `month`) and whether a failed row still waits for its backoff. A row of the
client has a row id, which is given again once the table has been emptied;
`MarkSynced` and `BumpRetry` change whatever pending row has the id (`Hit`).

`SyncedIsIngested` (with one exception, a row with the id of a stored snapshot that
was pruned in mid-request, see section 6), `HistoryKept` (of each snapshot ever stored, the row itself for
a week, a row of its ten minutes until one of them is 37 days old, and then the
row, one of its ten minutes or the row of its hour for ever), `EventuallySynced`.

### PomodoroTimer

`Start`, `Cancel` and the phase goroutines. A goroutine is named by its stop
channel; one whose timer has fired still has to take the mutex, and `Cancel` and
`Start` can come first. `StopChOpen` (no double close, which would panic),
`PhaseHasGoroutine`, `NoOrphan`, `SessionEnds`.

### DaemonLifecycle

`main` of the client from its launch to its exit, for several launches that share
a desktop: `IsFirstRun`, the three statements of the first-run setup,
`LoadConfig`, the port (`Start`), the test and the two writes of `WriteState`,
then the ways to quit (`Signal`, `RequestQuit`, `TrayQuit`), the shutdown in its
order (`Shutdown`, `StopTracker`, `StopWeb`, `ClearPid`, `ClearUrl`, and once
more for the deferred `Clear`). The tracker's goroutine can send on the channel
that `StopTracker` closed (`PollSend`), two goroutines of `RequestQuit` can close
one channel (`CloseQuitCh`): both are panics and end the process without its
deferred calls. Processes are killed, and pids of dead ones given to other
programs. `processIsOurs` is the one of Linux, for a binary of the name
`trasker-client`. `crossed` is history: processes that wrote their files while
another was clearing.

`OneRecorder` (two daemons never record side by side), `ServingIsFound`,
`CleanExit`, `QuitEnds`, `LaunchServes` (a launch on an idle desktop that finds no
database or a complete one serves, whatever else earlier ones left behind).

### Tagging

Rules, automatic and manual tags, the learner, and the aggregation of what is
posted. The tagger evaluates the list it read at the start of the daemon in four
tiers (confirmed before suggested, with title before without) and applies the
result in separate statements. Rule ids are SQLite rowids, so the id of a deleted
rule comes back: `IncrementHitCount` counts for whichever rule has the id.
`proposeSuggestion` is a search and an insert. `Aggregate` is evaluated in every
reachable state on every set of recorded events.

Abstractions: one application; a title is its set of significant words and a
pattern one word or any title; an event has a start and a length.

`ManualStays`, `OneAutoTag`, `TableDecides` (as long as the table is unchanged
since the start, the documented order decides; `Precedes` states that order
independently of the tiers), `ProposedOnce`, `PostedTime` (the entries add up to
the time of the events, no entry is longer than its span, no two have one tag,
as long as no event has two tags or two notes).

### ServerStart

A server from its start to its listeners: the secret (`ReadSecret`,
`TruncateSecret` and `WriteSecret`, the two halves of `os.WriteFile`),
`migrations.Apply` with take-over and one transaction per version, the first
account, `Listen`. Any step may fail; the container restarts it. A secret that
cannot be read is generated anew, as in the code. A `Deployment` is what the
servers find and how many are started: an empty database, one made by this or an
older `deploy/initdb`, one that an earlier server migrated. `MayMisjudge` names
the deployments in which `hasLegacySchema` can take a part of the schema for all
of it; `makers` (who generated a secret) and `misread` (a secret that was there
could not be read) are history.

`RecordedIsApplied` and `UpIsComplete` (for a misjudged takeover they say only
that every version is recorded), `SecretIsKept` (the secret in use is the one of the
file unless another server made one, and the one that was there at first unless it
could not be read), `EventuallyUp` (except for a misjudged takeover without the
second version and without an account). `MigratedInOrder` (a migration runs after all earlier ones and once, by whichever server)
is proved and has no run.

### Administration

Concurrent requests that change what administrators look after. A request is a
record with its kind, its next step and what it has read: corrections and
deletions (read, write, log), revocations (write, log), settings (read, write
all, clear the sign-on configuration), sign-ins that make that configuration
lazily, downloads (cache test, key, patch), and `PreBuild`. Statements fail and
the server restarts; a statement may also be committed and its answer lost.
`changed`, `had`, `failed` and `delivered` are history, with which the properties
relate what is stored to what happened. `disturbed`, too: a save has changed what
sign-on uses under a request that had read it, or unheard by its handler. It is set
by what the save does, whether or not the configuration is wrong, and ends with the
next clear that no such request outlives, or with a restart.

`AuditMatches` (for corrections, deletions and revocations; saves of the settings
have no record, see section 6), `DeletedIsFinal`, `OIDCFollowsSettings`, `KeysAccountedFor`.
`StoredSecretIsReal` (the mask of the settings page never becomes the secret) is
proved and has no run.

## 3. The runs

| Run | Bounds | What happens within them |
|---|---|---|
| `SubmissionQueue` | 2 submissions, a schedule of one entry and a longer delay after it, 1 lost outcome | a row that waits behind the post of another, saturation of the counter, a duplicate, a crash in every place |
| `AutoSubmit` | 2 events, 1 tag, cadences off/1/2, 1 manual submission per event | settings change in mid-run; crash before the run is recorded; a tie at the cutoff |
| `AutoSubmit_resubmit` | the same | violation, see section 6 |
| `Deadman` | 3 tiers, queue of 2 | escalation to the last tier, a full queue |
| `FocusTracking` | 3 focus changes, 1 failure, 1 restart, channels of 1 and 2 | all three goroutines between the recorder's statements; a restart with an open event |
| `FocusTracking_tracking` | 2 focus changes, no lock, failure or restart | violation, see section 6 |
| `LayoutSync` | 2 snapshots of one hour in different ten minutes, batches of up to 2 | half-stored batches, late inserts after downsampling, a survivor that becomes a loser, a row id given again during a request |
| `PomodoroTimer` | 4 stop channels, work 2 and break 1 ticks | up to four goroutines of different sessions at once |
| `DaemonLifecycle` | 2 launches, 1 kill, 2 quit requests at a time | two first runs at once, a launch in each step of another's shutdown, double close, send after close, reused pids |
| `Tagging` | 2 events, 2 tags, 1 word, 2 priorities, 2 rules, 2 edits, threshold 2, 3 observations, 1 manual tag, 2 notes | all four tiers, a rule edited or its id reused between match and count, deletion of a suggestion, restarts |
| `ServerStart` | 1 or 2 servers, 4 migrations as in the repository, 2 faults, 5 secrets, 19 deployments | both servers in one migration, each statement failing, take-over of a whole schema, of one at version 1 or 3 and of one another server is still making, a secret lost, unreadable or generated twice |
| `Administration` | 3 requests, 2 fields with 2 values, 3 forms of a save, 1 target, 1 restart | three requests of any kinds interleaved; two saves and a sign-in |

The bounds are enough for two actors (in Administration three) to meet in each
critical section and for every counter to reach its limit. In LayoutSync the
limit of a batch does not cut: a third snapshot puts the liveness check out of
reach, and `LayoutSyncProofs` has any number of snapshots and any batch size for the
safety properties. Where they are
smallest (two submissions, two snapshots, two processes) the theorems of section 4
cover every value of the constants; the runs then add liveness and the evidence
that the properties can fail (the mutants). Symmetry is used for requests and
tags, in runs without liveness only. Deadlock is not checked where the bounded
supply (snapshots, launches, requests, edits) runs out or where a server that is
up has nothing more to do.

### Fairness

* Goroutines are scheduled and tickers fire: weak fairness of listing, of every
  step between two waits and of the clock.
* A request ends somehow: the submission client has a 30 s timeout. The layout
  syncer uses `http.DefaultClient`, which has none, so there the fairness of
  `RequestFails \/ IngestFails` assumes that the server answers or the
  connection breaks.
* Strong fairness of the server's commit, of the local confirmation and of the
  steps of `RunOnce` says only that they do not fail every single time.
* A server that ends is started again (`restart: unless-stopped` of the compose
  file), and a process that runs goes on: weak fairness of `run(s)`. Faults are
  bounded, so a start is not disturbed for ever.
* `main` of the daemon and its quit goroutines are scheduled. Nobody has to
  launch or quit anything, and nothing is assumed of the poll loop.
* No fairness for users, administrators, crashes or restarts of the client.
  `EventuallyConfirmed` therefore assumes a daemon that from some time on stays
  up with a valid key and a registered device.
* `EventuallySynced` is checked for batches that fit into the body limit.

## 4. What is proved

Eight modules hold machine-checked proofs for every value of the constants that
satisfies the `ASSUME`s: any sets of submissions, events, processes or servers,
any schedule, any bounds. Each has its inductive invariant and type correctness;
the proof that it is inductive has one case per action.

* **SubmissionQueueProofs.** `ConfirmedIsStored` and `AtMostOncePlusLosses` say
  nothing about a request under way. `IInv` adds `PassShape` (the row being
  posted belongs to the listing, an answer exists only while one is posted, an
  answer "ok" carries the number of a stored timesheet), `ListingStaysCurrent`,
  `ServerIds` (an unconfirmed row has no server id, no id exceeds what is stored,
  a row confirmed without one was empty) and `LossAccounting` (timesheets stored
  plus commits still under way are at most the losses plus one for the timesheet
  that is recorded or about to be). `Refinement` (`DeliverySpec`) maps each step
  of the queue, the network and the server to one of `Delivery` or to none, from
  that invariant and `Unsent` (what is empty or not submitted yet is
  neither on the server nor on its way there): a crash in
  the middle of a request is one lost outcome, a late commit is a copy, an
  answer is none. Further theorems: `Finality`, and `Backoff`,
  which needs `ListedAreDue`: time only passes, and a failure that restarts a
  row's delay also takes the row out of the pass.
* **LayoutSyncProofs.** `SyncedIsIngested` needs `BatchAccounted`: while a request
  has not failed, each of its rows is still to be inserted or has been, and after
  an answer "ok" none is left; and `RowIds`: ids are unique in the table, rows leave it oldest first, and
  only captured snapshots are posted, so that the row an update hits is the one that
  was posted or a younger one with its id, after that one is gone. `HistoryIsKept` needs `RawWhenYoung`
  (what has a row was stored, and nothing is promoted in its first week) and that
  a non-empty set of snapshots has a least one (`Least`), which is the survivor of
  its bucket (`OneSurvives`).
* **AutoSubmitProofs.** `AutoNeverRepeats` and the action properties
  `LastRunInCycle` (a clock that stops at the longest cadence keeps the order of
  cutoff and last run, `OlderKeepsOrder`) and `OnlyFinishedTagged`, from `SelectionHolds`: what the query found out
  about the events it selected (finished, tagged, not auto-submitted) holds until
  they are linked, whatever the dashboard and the recorder do in between.
* **PomodoroTimerProofs.** `StopChOpen`, `PhaseHasGoroutine` and `NoOrphan` are
  inductive only together: a goroutine told to stop is not the one of the phase
  shown, because the current channel is open.
* **FocusTrackingProofs**, for the dead-man switch and the recorder. `Refinement`:
  the loop implements `PresenceMachine`. The mapping reads what the consumer has
  seen, so the invariant (`InOrder`) says that the state shown, the queue of
  announcements and the one being sent are consecutive transitions of the
  abstract machine, and `MatchesSelect` that the last of them belongs to the
  select the loop waits in. `OpenPaidByFailures` needs `OpenAccounted` (between
  the recorder's UPDATE and its INSERT at most as many events are open as
  statements failed); `EndsNewest` needs `OrderKept` (events are recorded in the
  order in which they were polled) and `OpenIsNewest`.
* **ServerProofs**, first for `ServerStart`, from every deployment.
  `RecordedIsApplied`, `UpIsComplete` and `SecretIsKept` need `Processes` (a server
  knows only what is recorded), `Tracking` (what is recorded is what is applied, or
  every version after a takeover, or nothing yet over a schema that was there before;
  a takeover needs such a schema or another server, `Legacy`), `Progress` and
  `SecretInFile` (a server past the secret uses the one in the file unless another
  went on to generate one, and nobody replaces a secret that could be read).
  `MigratedInOrder` follows from the same invariant.
* The second half of **ServerProofs** is about `Administration`, for any number of
  requests of any kinds. `AdminInv` gives a request the type of its kind and step
  and says what it knows at each (`RequestKnows`): what a correction read was once
  the entry; before its record, its change has been made; a save and a sign-in hold
  settings that can be stored, without the mask; a download that is patching has
  made its key. `AuditMatches` and `KeysAccountedFor` say that each record and each
  key has a request behind it, by name; the steps are that one request goes on and
  all others stay (`OnlyOne`, `WhoContinues`), and that a restart turns requests
  under way into failed ones. `OIDCFollowsSettings` needs `HeldIsCurrent`: unless
  sign-on is disturbed, the tenant and the secret that a save or a login has read are
  those that are stored.
* **DaemonLifecycleProofs.** `OneRecorder`, `ServingIsFound` and `CleanExit` from
  `PortHeld` (from binding to stopping the web server, the port is the
  process's), `PidOwner`, `RegisteredLate` and `FilesHeld` (a process that wrote
  its files while nobody cleared still has them).
* **TaggingProofs.** `TaggingInv` relates the tagger's list to the table
  (`CacheCurrent`), the work to the list (`WorkInProgress`), the tags to the work
  (`TaggedOnce`) and the learner's counts to what it is proposing (`Proposals`).
  `TableDecides` needs what the four tiers come to (`EvaluateDecides`): a matching
  rule that no matching rule precedes, where a finite set has a greatest priority
  (`GreatestPriority`). `PostedTime` is about sums over sets, which the model takes
  with the recursive `MapThenSumSet`. The induction is over the subsets of a
  finite set (`SubsetInduction`, for a set where the library has a predicate): the
  recursive function exists and is the only one (`AddsExists`, `AddsUnique`), its
  order does not matter (`SumRemove`), it can be taken by groups (`SumByGroup`),
  and events in a span add up to no more than the span (`SumInSpan`). `FewTags`
  belongs to the invariant because `Cardinality` says nothing of an infinite set,
  and `Tags` may be one.

**Only model-checked:** all liveness properties, including `SignalEndsPause` and
`FocusChangeResumes` (fairness and ENABLED are out of the prover's reach). Every
invariant and every other action property that a run checks is proved.

## 5. What is not modelled

* Code nothing calls: `session.Cascader`, `session.Engine` and
  `notify.Dispatcher` have no caller outside their tests. `ObserveManualTag` has
  none either; it is modelled because the daemon's tagger builds the learner for
  it and the rules it proposes are two of the four tiers.
* Formatting, logging, HTML, the web front ends, read-only SQL (reports,
  listings), platform calls (windows, locks, tray menu, notifications,
  autostart), hashing, encryption and token formats.
* Two smaller simplifications: `authLoginHandler` reads the sign-on configuration
  again after its test (`auth_handlers.go:36` and `:49`), so that a clear in between
  is a nil dereference, which ends that request (`Login` uses the one it tested); and
  a title pattern is similar to a word if it contains the word (`learner.go:96`),
  where `Similar` compares words. An `os.Remove` of `Clear` that fails
  (`runtime.go:157`) is not modelled.
* Accounts after the first one: user and role changes, password changes and
  sign-ins are single statements.
* Two daemons posting from one database, the capturer's suspension while the
  screen is locked with the lock fan-out that may drop a state, and clock jumps.

## 6. Where the code and its documents disagree

Two disagreements are runs whose property, quoted from a comment, TLC refutes:

* `AutoSubmit_resubmit`: a manual submission between the query and the insert of
  `RunOnce` is submitted a second time (`autosubmit.go:3`, "not-yet-submitted").
* `FocusTracking_tracking`: a PAUSED announcement that is read late ends the
  event recorded after it, and nothing is recorded although the state is
  TRACKING (`presence.go:13`).

Others met while translating, without a run of their own.

Submission and layout:

* `queue.go:184` says of authentication failures "don't retry"; nothing is
  written, so the refused key is tried again on every pass.
* `queue.go:13` promises 1m, 5m, 15m, 1h; the counter is 1 after the first
  failure, so the first delay is 5m and the entry 1m is never used.
* `main.go:130` logs that registration "will retry"; it is tried once per start.
* `main.go:527` looks for `status='sent'`; the queue writes `confirmed`, so the
  last sync never shows.
* `sync.go:135` "drains all" due snapshots; a pass posts one batch. A batch over
  the 4 MB limit is retried unchanged until its rows are pruned.
* `MarkSynced` means "the row" it posted (`layout/store.go:82`) and updates by id.
  `layout_snapshots.id` has no AUTOINCREMENT (`client/store/store.go:140`) and the
  request no timeout: if `Prune` empties the table in mid-request, a snapshot captured
  then may get the id of a posted one, and the late answer marks it synced although it
  was never sent (or defers it). `SyncedIsIngested` allows exactly this.
* `autosubmit.go:35` says of the last run "Nil when off", and `Save` that the first
  run is one interval after turning on; `RecordRun` asks nothing, so a run that began
  before auto-submit was turned off stores its time afterwards, and one that spans
  off and on makes the first run of the new cycle come early. `LastRunInCycle` names
  these two cases.
* `layout_snapshots.go:176` promises one row per bucket; a bucket that the
  seven-day limit cuts in two, or that gets a row late, is promoted twice.

Tags:

* `.planning/REQUIREMENTS.md:28` "Manual tags override auto-rules": `api.go:250`
  replaces only a row of the same tag, so an event tagged by a rule has two tags
  afterwards, and the join at `queue.go:220` posts its time under both. Two notes
  at one event double its time in the same way. `PostedTime` is about the others.
* The rule cache is "refreshed on mutation" (`tagger.go:32`); only its constructor
  refreshes it, so edits count from the next start of the daemon.
* After a rule is deleted its id may be given to another one, which then gets the
  hits of matches by the old one.
* A title rule of a tag keeps the learner from ever proposing the rule for the
  application alone (every title pattern contains the empty one).
* The design document freezes submitted events (line 169); `handleTagEvent` does
  not look, and it expects a new event after an unlock (line 178), which comes
  only with the next focus change.

Daemon:

* The first-run setup creates the database file before it inserts the
  configuration; a process that dies in between leaves a file with which every
  later start exits (`runtime.go:148` wants a crashed start to "re-launch
  cleanly"). `LaunchServes` is about launches that do not find such a file.
* `Clear` runs after the port is free and does not ask whose files it removes: a
  daemon that starts in that moment cannot be found by `status`, `open` and `quit`
  afterwards. `ServingIsFound` excepts it.
* "Quit" in the tray (`tray.go:69`) cancels the context and main's select
  (`main.go:414`) does not look at it: recording stops, the process stays.
* Two quit requests at once can close the quit channel twice, and the poll loop
  can send on the channel that `Stop` has closed; both end the process without its
  clean-up. `LaunchServes` shows that the next launch copes.
* A second launch runs the queue, auto-submit and registration until it fails to
  take the port (`main.go:137`).
* An existing database never runs `store.migrate` again.
* A Pomodoro goroutine that fired before `Cancel` and `Start` can end the work
  phase of the new session early. An acknowledgement left over from an earlier
  check dismisses the next one.

Server:

* `migrate.go:12` says that the runner takes over "an existing deployment safely".
  `hasLegacySchema` looks for the table `users` alone, and every embedded version is
  then recorded: a database that the `deploy/initdb` of an older release made, without
  the fourth migration for instance, is taken over as complete and never gets
  `layout_snapshots`, with one server and no failure. If the second version is missing
  too and there is no account, the INSERT of the first one fails in every start. Two
  servers started on an empty database can do the same to each other: the second finds
  the table of the first migration and no record, and the first one's next migration
  then fails until it reads the record. `MayMisjudge` names these deployments;
  `RecordedIsApplied`, `UpIsComplete` and `EventuallyUp` except them.
* `jwt.go:14` takes the secret from the file "if file exists and is non-empty"; a file
  that exists and cannot be read (`jwt.go:27`) is overwritten with a new secret, and
  every session ends. Two servers that generate the secret at once use different ones
  until one restarts. `SecretIsKept` excepts a secret that could not be read and one
  that another server generated.
* `UpsertOrgSettings` reads and writes in two statements: of two saves at once
  one is lost. A sign-on configuration made from settings read before a save and
  stored after it stays in use. A save that is committed and whose answer is lost
  returns at `admin_handlers.go:313` and does not clear the configuration (line 321).
  `OIDCFollowsSettings` excepts the three by their cause (`disturbed`).
* `.planning/ROADMAP.md:47` promises an audit record "for every admin mutation (entry
  edit, key revoke, settings change)"; `adminUpdateSettingsHandler` writes none.
  `AuditMatches` is about the other mutations.
* `PreBuild` ends at the first failing target, while the download answers "try
  again in a minute". A failing patch or answer leaves a key that nobody has.
* The audit record's old value may be older than what the correction replaced,
  and a failing record is only logged: the answer is 200.
* Keys expire after 90 days without settings (`build_handlers.go`), 60 with the
  settings' default.

## 7. Plan

Done: SubmissionQueue with Delivery, AutoSubmit, PresenceMachine, Deadman,
FocusTracking, LayoutSync, PomodoroTimer, DaemonLifecycle, ServerStart, Tagging and
Administration, all with proofs.

Worth doing next, in this order:

1. An abstract specification of the layout history and one of the audit log, with
   the refinements proved from the invariants that are there.
2. The exact law behind `PostedTime`, for events with several tags or notes: the
   entries of a submission add up to each event's length once per tag and note.
3. Two daemons over one database: SubmissionQueue with two queues, started and
   stopped as in DaemonLifecycle.
4. `LayoutCapture`: the lock fan-out and the capturer's suspension.
5. Accounts: two first sign-ins of one identity, role changes against tokens that
   are valid for fifteen minutes.
