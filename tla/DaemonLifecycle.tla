-------------------------- MODULE DaemonLifecycle --------------------------
(***************************************************************************)
(* The life of trasker-client processes on one desktop: first-run setup of *)
(* the database, the web port, the pid and URL files, the ways to quit,    *)
(* and the shutdown sequence.  A process is one launch of the binary and   *)
(* stands for its pid.  Processes share the database file, the port and    *)
(* the two state files; within a process, main, the focus tracker's poll   *)
(* goroutine and the goroutines of POST /api/quit run side by side.        *)
(*                                                                         *)
(* The URL is the same for every daemon (a fixed port), so of its file     *)
(* only the existence matters.                                             *)
(***************************************************************************)
EXTENDS Integers, FiniteSets

CONSTANTS
    Processes,   \* launches
    None,        \* no process
    MaxKills,    \* bound: processes that are killed
    MaxClosers   \* bound: goroutines of POST /api/quit at a time, per process

ASSUME LifecycleAssumption ==
    None \notin Processes /\ MaxKills \in Nat /\ MaxClosers \in Nat \ {0}

VARIABLES
    db,          \* trasker.db: missing, empty file, tables made, config row there
    port,        \* who listens on 127.0.0.1:9746
    pidFile,     \* whose pid trasker.pid holds
    urlFile,     \* does trasker.url exist?
    pc,          \* pc[p]: what main of p does next
    registered,  \* registered[p]: the deferred Clear has been set up
    cancelled,   \* cancelled[p]: the context
    signal,      \* signal[p]: SIGINT or SIGTERM waits in sigCh
    quitCh,      \* quitCh[p]: the channel is closed
    closers,     \* closers[p]: goroutines of RequestQuit about to close it
    poll,        \* poll[p]: the tracker's goroutine runs
    reused,      \* pids of dead processes that another program got
    kills,       \* history: processes killed
    crossed      \* history: processes that wrote their files beside a Clear

files    == <<pidFile, urlFile>>
flags    == <<registered, cancelled, signal, quitCh, closers, poll>>
ghosts   == <<kills, crossed>>
vars     == <<db, port, files, pc, flags, reused, ghosts>>

Dead     == {"none", "exited", "killed"}
Starting == {"stat", "create", "migrate", "config", "load", "bind", "check", "pid", "url"}
Clearing == {"clearPid", "clearUrl", "deferPid", "deferUrl"}
Stages   == Dead \cup Starting \cup {"serve", "tracker", "web"} \cup Clearing

Alive(p) == pc[p] \notin Dead
Goto(p, stage) == pc' = [pc EXCEPT ![p] = stage]

Init ==
    /\ db \in {"missing", "ready"} /\ port = None /\ pidFile = None /\ urlFile = FALSE
    /\ pc = [p \in Processes |-> "none"]
    /\ registered = [p \in Processes |-> FALSE] /\ cancelled = [p \in Processes |-> FALSE]
    /\ signal = [p \in Processes |-> FALSE] /\ quitCh = [p \in Processes |-> FALSE]
    /\ closers = [p \in Processes |-> 0] /\ poll = [p \in Processes |-> FALSE]
    /\ reused = {} /\ kills = 0 /\ crossed = {}

\* The process ends: the operating system closes its listener, and whatever its
\* goroutines were about to do does not happen.
EndProcess(p, how) ==
    /\ Goto(p, how)
    /\ port' = IF port = p THEN None ELSE port
    /\ closers' = [closers EXCEPT ![p] = 0] /\ poll' = [poll EXCEPT ![p] = FALSE]
    /\ signal' = [signal EXCEPT ![p] = FALSE] /\ quitCh' = [quitCh EXCEPT ![p] = FALSE]
    /\ registered' = [registered EXCEPT ![p] = FALSE]
    /\ cancelled' = [cancelled EXCEPT ![p] = FALSE]

(***************************************************************************)
(* The start: setupDatabase, webServer.Start, WriteState.                  *)
(***************************************************************************)

main(p) ==
    /\ pc[p] = "none" /\ Goto(p, "stat")
    /\ UNCHANGED <<db, port, files, flags, reused, ghosts>>

\* IsFirstRun asks only whether the file exists.
IsFirstRun(p) ==
    /\ pc[p] = "stat" /\ Goto(p, IF db = "missing" THEN "create" ELSE "load")
    /\ UNCHANGED <<db, port, files, flags, reused, ghosts>>

\* FirstRun.Run: open the file, make the tables, insert the configuration; each
\* statement does nothing where another process was faster.
OpenNewDatabase(p) ==
    /\ pc[p] = "create" /\ Goto(p, "migrate")
    /\ db' = IF db = "missing" THEN "empty" ELSE db
    /\ UNCHANGED <<port, files, flags, reused, ghosts>>

migrate(p) ==
    /\ pc[p] = "migrate" /\ Goto(p, "config")
    /\ db' = IF db = "empty" THEN "tables" ELSE db
    /\ UNCHANGED <<port, files, flags, reused, ghosts>>

InsertConfig(p) ==
    /\ pc[p] = "config" /\ Goto(p, "load")
    /\ db' = "ready"
    /\ UNCHANGED <<port, files, flags, reused, ghosts>>

\* The SELECT of the configuration ends the process if there is none.
LoadConfig(p) ==
    /\ pc[p] = "load"
    /\ \/ db = "ready" /\ Goto(p, "bind") /\ UNCHANGED <<port, flags>>
       \/ db # "ready" /\ EndProcess(p, "exited")
    /\ UNCHANGED <<db, files, reused, ghosts>>

\* Mutant of Start: a port that is taken is not an error.
StartAnyway(p) ==
    /\ pc[p] = "bind" /\ Goto(p, "check")
    /\ port' = p
    /\ UNCHANGED <<db, files, flags, reused, ghosts>>

\* Server.Start: listen, or os.Exit.  The queue, auto-submit and the device
\* registration are running by now.
Start(p) ==
    /\ pc[p] = "bind"
    /\ \/ port = None /\ port' = p /\ Goto(p, "check") /\ UNCHANGED flags
       \/ port # None /\ EndProcess(p, "exited")
    /\ UNCHANGED <<db, files, reused, ghosts>>

processAlive(p)  == Alive(p) \/ p \in reused
processIsOurs(p) == Alive(p)

\* Mutant of RefusesStart: a pid that another program got counts as a daemon.
RefusesReused(p) == pidFile \notin {None, p} /\ processAlive(pidFile)

\* WriteState's test of the pid file.
RefusesStart(p) ==
    pidFile \notin {None, p} /\ processAlive(pidFile) /\ processIsOurs(pidFile)

CheckPid(p) ==
    /\ pc[p] = "check"
    /\ \/ ~RefusesStart(p) /\ Goto(p, "pid") /\ UNCHANGED <<port, flags>>
       \/ RefusesStart(p) /\ EndProcess(p, "exited")
    /\ UNCHANGED <<db, files, reused, ghosts>>

\* The tracker is started with the rest of the daemon's goroutines.
Serve(p) == Goto(p, "serve") /\ poll' = [poll EXCEPT ![p] = TRUE]

\* A file that cannot be written is only logged: the daemon runs, and the
\* deferred Clear is not set up.
WritePid(p) ==
    /\ pc[p] = "pid"
    /\ \/ /\ pidFile' = p /\ Goto(p, "url") /\ UNCHANGED poll
          /\ crossed' = IF \E q \in Processes : pc[q] \in Clearing
                        THEN crossed \cup {p} ELSE crossed
       \/ Serve(p) /\ UNCHANGED <<pidFile, crossed>>
    /\ UNCHANGED <<db, port, urlFile, registered, cancelled, signal, quitCh, closers,
                   reused, kills>>

WriteUrl(p) ==
    /\ pc[p] = "url" /\ Serve(p)
    /\ \/ urlFile' = TRUE /\ registered' = [registered EXCEPT ![p] = TRUE]
       \/ UNCHANGED <<urlFile, registered>>
    /\ UNCHANGED <<db, port, pidFile, cancelled, signal, quitCh, closers, reused, ghosts>>

(***************************************************************************)
(* Ways to quit.                                                           *)
(***************************************************************************)

\* SIGINT or SIGTERM: kept in sigCh until main looks.
Signal(p) ==
    /\ Alive(p) /\ ~signal[p]
    /\ signal' = [signal EXCEPT ![p] = TRUE]
    /\ UNCHANGED <<db, port, files, pc, registered, cancelled, quitCh, closers, poll,
                   reused, ghosts>>

Listening(p) == port = p /\ pc[p] \in {"check", "pid", "url", "serve", "tracker"}

\* POST /api/quit, from the dashboard or from `trasker-client quit`, which posts to
\* whoever listens by then: a goroutine runs RequestQuit, which closes the channel
\* unless it sees it closed.  The test and the close are two steps.
RequestQuit(p) ==
    /\ Listening(p) /\ closers[p] < MaxClosers /\ ~quitCh[p]
    /\ closers' = [closers EXCEPT ![p] = @ + 1]
    /\ UNCHANGED <<db, port, files, pc, registered, cancelled, signal, quitCh, poll,
                   reused, ghosts>>

\* A second close of the channel is a panic: no deferred call of main runs.
CloseQuitCh(p) ==
    /\ closers[p] > 0
    /\ \/ /\ ~quitCh[p]
          /\ quitCh' = [quitCh EXCEPT ![p] = TRUE] /\ closers' = [closers EXCEPT ![p] = @ - 1]
          /\ UNCHANGED <<port, pc, registered, cancelled, signal, poll>>
       \/ quitCh[p] /\ EndProcess(p, "killed")
    /\ UNCHANGED <<db, files, reused, ghosts>>

\* "Quit Trasker" in the tray cancels the context, and main does not look at it.
TrayQuit(p) ==
    /\ pc[p] = "serve" /\ ~cancelled[p]
    /\ cancelled' = [cancelled EXCEPT ![p] = TRUE]
    /\ UNCHANGED <<db, port, files, pc, registered, signal, quitCh, closers, poll, reused, ghosts>>

(***************************************************************************)
(* The tracker's goroutine.                                                *)
(***************************************************************************)

EventsOpen(p) == pc[p] \in {"serve", "tracker"}

\* A tick, after which a changed window is sent, without looking at the context
\* again.  While the channel is open the recorder takes it (FocusTracking); once
\* Stop has closed the channel, the send is a panic.
PollSend(p) ==
    /\ poll[p] /\ ~EventsOpen(p)
    /\ EndProcess(p, "killed")
    /\ UNCHANGED <<db, files, reused, ghosts>>

\* The select takes the context, or, as often, the tick.
PollDone(p) ==
    /\ poll[p] /\ cancelled[p] /\ poll' = [poll EXCEPT ![p] = FALSE]
    /\ UNCHANGED <<db, port, files, pc, registered, cancelled, signal, quitCh, closers,
                   reused, ghosts>>

(***************************************************************************)
(* The shutdown sequence of main.                                          *)
(***************************************************************************)

\* Mutant of Shutdown: the port is given up before the tracker is stopped.
ShutdownWebFirst(p) ==
    /\ pc[p] = "serve" /\ (signal[p] \/ quitCh[p]) /\ Goto(p, "tracker")
    /\ cancelled' = [cancelled EXCEPT ![p] = TRUE]
    /\ port' = IF port = p THEN None ELSE port
    /\ UNCHANGED <<db, files, registered, signal, quitCh, closers, poll, reused, ghosts>>

\* Mutant of Shutdown: main's select waits for the signal only.
ShutdownOnSignal(p) ==
    /\ pc[p] = "serve" /\ signal[p] /\ Goto(p, "tracker")
    /\ cancelled' = [cancelled EXCEPT ![p] = TRUE]
    /\ UNCHANGED <<db, port, files, registered, signal, quitCh, closers, poll, reused, ghosts>>

\* main's select, and cancel().
Shutdown(p) ==
    /\ pc[p] = "serve" /\ (signal[p] \/ quitCh[p]) /\ Goto(p, "tracker")
    /\ cancelled' = [cancelled EXCEPT ![p] = TRUE]
    /\ UNCHANGED <<db, port, files, registered, signal, quitCh, closers, poll, reused, ghosts>>

\* focusTracker.Stop closes the channel of events; the other components stop.
StopTracker(p) ==
    /\ pc[p] = "tracker" /\ Goto(p, "web")
    /\ UNCHANGED <<db, port, files, flags, reused, ghosts>>

\* Mutant of StopWeb: only the deferred Clear removes the files.
StopWebAndReturn(p) ==
    /\ pc[p] = "web"
    /\ \/ /\ registered[p] /\ Goto(p, "deferPid") /\ UNCHANGED flags
          /\ port' = IF port = p THEN None ELSE port
       \/ ~registered[p] /\ EndProcess(p, "exited")
    /\ UNCHANGED <<db, files, reused, ghosts>>

StopWeb(p) ==
    /\ pc[p] = "web" /\ Goto(p, "clearPid")
    /\ port' = IF port = p THEN None ELSE port
    /\ UNCHANGED <<db, files, flags, reused, ghosts>>

\* Clear removes the two files, whosever they are; it runs in main and, if
\* WriteState succeeded, once more when main returns.
ClearPid(p) ==
    /\ pc[p] \in {"clearPid", "deferPid"}
    /\ pidFile' = None
    /\ Goto(p, IF pc[p] = "clearPid" THEN "clearUrl" ELSE "deferUrl")
    /\ UNCHANGED <<db, port, urlFile, flags, reused, ghosts>>

ClearUrl(p) ==
    /\ pc[p] \in {"clearUrl", "deferUrl"} /\ urlFile' = FALSE
    /\ \/ pc[p] = "clearUrl" /\ registered[p] /\ Goto(p, "deferPid") /\ UNCHANGED <<port, flags>>
       \/ ~(pc[p] = "clearUrl" /\ registered[p]) /\ EndProcess(p, "exited")
    /\ UNCHANGED <<db, pidFile, reused, ghosts>>

\* SIGKILL, a power cut, a panic elsewhere.
Kill(p) ==
    /\ Alive(p) /\ kills < MaxKills
    /\ kills' = kills + 1 /\ EndProcess(p, "killed")
    /\ UNCHANGED <<db, files, reused, crossed>>

\* The operating system gives the pid of a dead daemon to another program.
ReusePid(p) ==
    /\ pc[p] \in {"exited", "killed"} /\ p \notin reused /\ pidFile = p
    /\ reused' = reused \cup {p}
    /\ UNCHANGED <<db, port, files, pc, flags, ghosts>>

-----------------------------------------------------------------------------

MainStep(p) ==
    \/ IsFirstRun(p) \/ OpenNewDatabase(p) \/ migrate(p) \/ InsertConfig(p) \/ LoadConfig(p)
    \/ Start(p) \/ CheckPid(p) \/ WritePid(p) \/ WriteUrl(p)
    \/ Shutdown(p) \/ StopTracker(p) \/ StopWeb(p) \/ ClearPid(p) \/ ClearUrl(p)

PollStep(p) == PollSend(p) \/ PollDone(p)

Next ==
    \/ \E p \in Processes :
           \/ main(p) \/ MainStep(p) \/ CloseQuitCh(p) \/ PollStep(p)
           \/ Signal(p) \/ RequestQuit(p) \/ TrayQuit(p) \/ Kill(p) \/ ReusePid(p)

Spec == Init /\ [][Next]_vars

\* Every goroutine of a running process is scheduled.  Nobody has to launch,
\* quit or kill anything.
FairSpec ==
    Spec /\ \A p \in Processes : WF_vars(MainStep(p)) /\ WF_vars(CloseQuitCh(p))

-----------------------------------------------------------------------------

TypeOK ==
    /\ db \in {"missing", "empty", "tables", "ready"}
    /\ port \in Processes \cup {None} /\ pidFile \in Processes \cup {None} /\ urlFile \in BOOLEAN
    /\ pc \in [Processes -> Stages]
    /\ registered \in [Processes -> BOOLEAN] /\ cancelled \in [Processes -> BOOLEAN]
    /\ signal \in [Processes -> BOOLEAN] /\ quitCh \in [Processes -> BOOLEAN]
    /\ closers \in [Processes -> 0 .. MaxClosers]
    /\ poll \in [Processes -> BOOLEAN]
    /\ reused \subseteq Processes
    /\ kills \in 0 .. MaxKills /\ crossed \subseteq Processes

\* Two daemons never record focus events side by side, even if one is shutting
\* down while the other starts and the pid file is missing.
OneRecorder == \A p, q \in Processes : EventsOpen(p) /\ EventsOpen(q) => p = q

\* ReadState, as status, open and quit use it.
ReadState(p) == pidFile = p /\ processAlive(p) /\ urlFile

\* status, open and quit find a daemon that serves and could write its files,
\* unless it wrote them while another one was in its last two steps: Clear does
\* not ask whose files it removes.
ServingIsFound ==
    \A p \in Processes :
        pc[p] = "serve" /\ registered[p] /\ p \notin crossed => ReadState(p)

\* A daemon that has shut down leaves no pid behind for the next one to trip
\* over, whatever other processes wrote meanwhile.
CleanExit == \A p \in Processes : pc[p] = "exited" => pidFile # p

\* A daemon that is told to quit by a signal, the dashboard or the command line
\* ends, also if it is told twice, or while it starts.
QuitEnds ==
    \A p \in Processes : Alive(p) /\ (signal[p] \/ quitCh[p]) ~> ~Alive(p)

\* A launch on an otherwise idle desktop comes to serve, whatever else earlier
\* processes left behind, the first launch included.  It does not when it finds a
\* database that an earlier process, dying in the first-run setup, left half made.
LaunchServes ==
    \A p \in Processes :
        pc[p] = "stat" /\ (\A q \in Processes \ {p} : ~Alive(q)) /\ db \in {"missing", "ready"} ~>
            \/ pc[p] \in {"serve", "killed"}
            \/ \E q \in Processes \ {p} : Alive(q)
=============================================================================
