----------------------- MODULE DaemonLifecycleProofs -----------------------
(***************************************************************************)
(* Proofs about DaemonLifecycle, for any number of launches.  The port is  *)
(* what keeps daemons apart: from its bind to the end of its web server a  *)
(* process holds it, so no other one is in those stages.                   *)
(***************************************************************************)
EXTENDS TLAPS, DaemonLifecycle

Holding == {"check", "pid", "url", "serve", "tracker", "web"}

PortHeld == \A p \in Processes : pc[p] \in Holding => port = p

\* A pid in the file is that of a process between its WriteState and its Clear,
\* or of one that was killed.
PidOwner ==
    \A p \in Processes :
        pidFile = p => pc[p] \in {"url", "serve", "tracker", "web", "clearPid", "killed"}

RegisteredLate ==
    \A p \in Processes :
        registered[p] => pc[p] \in {"serve", "tracker", "web"} \cup Clearing

\* A daemon that did not write its files beside a Clear still has them, and no
\* Clear can have begun since.
FilesHeld ==
    \A p \in Processes \ crossed :
        /\ pc[p] = "url" => pidFile = p
        /\ pc[p] = "serve" /\ registered[p] => pidFile = p /\ urlFile
        /\ pc[p] = "url" \/ (pc[p] = "serve" /\ registered[p]) =>
              \A q \in Processes : pc[q] \notin Clearing

IInv == TypeOK /\ PortHeld /\ PidOwner /\ RegisteredLate /\ FilesHeld

LEMMA InitIInv == Init => IInv
  <1> SUFFICES ASSUME Init PROVE IInv
    OBVIOUS
  <1>1. /\ urlFile \in BOOLEAN
        /\ registered \in [Processes -> BOOLEAN] /\ cancelled \in [Processes -> BOOLEAN]
        /\ signal \in [Processes -> BOOLEAN] /\ quitCh \in [Processes -> BOOLEAN]
        /\ poll \in [Processes -> BOOLEAN]
        /\ \A p \in Processes : ~registered[p]
    BY Zenon DEF Init
  <1>2. TypeOK
    BY <1>1, LifecycleAssumption DEF Init, TypeOK, Stages, Dead
  <1> QED
    BY <1>1, <1>2, LifecycleAssumption
    DEF Init, IInv, PortHeld, PidOwner, RegisteredLate, FilesHeld, Holding, Clearing

\* Every step keeps the types.
LEMMA NextTypeOK == ASSUME TypeOK, [Next]_vars PROVE TypeOK'
  <1> USE LifecycleAssumption DEF TypeOK, Stages, Dead, Starting, Clearing, Goto
  <1>0. ASSUME NEW p \in Processes, NEW how \in {"exited", "killed"}, EndProcess(p, how),
               UNCHANGED <<db, pidFile, reused, crossed>>, urlFile' \in BOOLEAN,
               kills' \in 0 .. MaxKills
        PROVE  TypeOK'
    BY <1>0 DEF EndProcess
  <1>1. ASSUME NEW p \in Processes,
               \/ main(p) \/ IsFirstRun(p) \/ OpenNewDatabase(p) \/ migrate(p) \/ InsertConfig(p)
        PROVE  TypeOK'
    BY <1>1 DEF main, IsFirstRun, OpenNewDatabase, migrate, InsertConfig, files, flags, ghosts
  <1>2. ASSUME NEW p \in Processes, LoadConfig(p) \/ Start(p) \/ CheckPid(p) PROVE TypeOK'
    BY <1>0, <1>2 DEF LoadConfig, Start, CheckPid, files, flags, ghosts
  <1>3. ASSUME NEW p \in Processes, WritePid(p) PROVE TypeOK'
    BY <1>3 DEF WritePid, Serve
  <1>4. ASSUME NEW p \in Processes, WriteUrl(p) PROVE TypeOK'
    BY <1>4 DEF WriteUrl, Serve, ghosts
  <1>5. ASSUME NEW p \in Processes, Shutdown(p) \/ StopTracker(p) \/ StopWeb(p) PROVE TypeOK'
    BY <1>5 DEF Shutdown, StopTracker, StopWeb, files, flags, ghosts
  <1>6. ASSUME NEW p \in Processes, ClearPid(p) PROVE TypeOK'
    BY <1>6 DEF ClearPid, flags, ghosts
  <1>7. ASSUME NEW p \in Processes, ClearUrl(p) PROVE TypeOK'
    <2>1. urlFile' \in BOOLEAN
      BY <1>7, Zenon DEF ClearUrl
    <2>2. CASE EndProcess(p, "exited")
      BY <1>0, <1>7, <2>1, <2>2 DEF ClearUrl, ghosts
    <2>3. CASE Goto(p, "deferPid") /\ UNCHANGED <<port, flags>>
      BY <1>7, <2>1, <2>3 DEF ClearUrl, flags, ghosts
    <2> QED
      BY <1>7, <2>2, <2>3, Zenon DEF ClearUrl
  <1>8. ASSUME NEW p \in Processes, CloseQuitCh(p) PROVE TypeOK'
    <2>1. CASE EndProcess(p, "killed")
      BY <1>0, <1>8, <2>1 DEF CloseQuitCh, files, ghosts
    <2>2. CASE /\ quitCh' = [quitCh EXCEPT ![p] = TRUE]
               /\ closers' = [closers EXCEPT ![p] = @ - 1]
               /\ UNCHANGED <<port, pc, registered, cancelled, signal, poll>>
      BY <1>8, <2>2 DEF CloseQuitCh, files, ghosts
    <2> QED
      BY <1>8, <2>1, <2>2, Zenon DEF CloseQuitCh
  <1>9. ASSUME NEW p \in Processes, PollSend(p) \/ PollDone(p) PROVE TypeOK'
    BY <1>0, <1>9 DEF PollSend, PollDone, files, ghosts
  <1>10. ASSUME NEW p \in Processes, Signal(p) \/ RequestQuit(p) \/ TrayQuit(p) PROVE TypeOK'
    <2>1. CASE Signal(p)
      BY <2>1 DEF Signal, files, ghosts
    <2>2. CASE RequestQuit(p)
      BY <2>2 DEF RequestQuit, files, ghosts
    <2>3. CASE TrayQuit(p)
      BY <2>3 DEF TrayQuit, files, ghosts
    <2> QED
      BY <1>10, <2>1, <2>2, <2>3
  <1>11. ASSUME NEW p \in Processes, Kill(p) PROVE TypeOK'
    BY <1>0, <1>11 DEF Kill, files
  <1>12. ASSUME NEW p \in Processes, ReusePid(p) PROVE TypeOK'
    BY <1>12 DEF ReusePid, files, flags, ghosts
  <1>13. CASE UNCHANGED vars
    BY <1>13 DEF vars, files, flags, ghosts
  <1> QED
    BY <1>1, <1>2, <1>3, <1>4, <1>5, <1>6, <1>7, <1>8, <1>9, <1>10, <1>11, <1>12, <1>13
    DEF Next, MainStep, PollStep

Held == PortHeld /\ PidOwner /\ RegisteredLate /\ FilesHeld

\* Every step keeps the port, the files and the deferred Clear with the process
\* they belong to.
LEMMA NextHeld == ASSUME IInv, [Next]_vars PROVE Held'
  <1> USE LifecycleAssumption
      DEF Held, IInv, PortHeld, PidOwner, RegisteredLate, FilesHeld, Holding, Clearing, Goto
  <1>0. /\ pc \in [Processes -> Stages] /\ registered \in [Processes -> BOOLEAN]
        /\ port \in Processes \cup {None} /\ pidFile \in Processes \cup {None}
        /\ crossed \subseteq Processes
    BY DEF TypeOK
  \* The end of a process that has no pid in the file, or is killed.
  <1>1. ASSUME NEW p \in Processes, NEW how \in {"exited", "killed"}, EndProcess(p, how),
               how = "exited" => pidFile # p, UNCHANGED <<files, crossed>>
        PROVE  Held'
    BY <1>0, <1>1 DEF EndProcess, files
  \* A step of main before the port is taken.
  <1>2. ASSUME NEW p \in Processes, NEW stage \in {"stat", "create", "migrate", "config",
               "load", "bind"}, pc[p] \in {"none", "stat", "create", "migrate", "config", "load"},
               Goto(p, stage), UNCHANGED <<port, files, registered, crossed>>
        PROVE  Held'
    BY <1>0, <1>2 DEF files
  <1>3. ASSUME NEW p \in Processes,
               \/ main(p) \/ IsFirstRun(p) \/ OpenNewDatabase(p) \/ migrate(p) \/ InsertConfig(p)
        PROVE  Held'
    BY <1>2, <1>3 DEF main, IsFirstRun, OpenNewDatabase, migrate, InsertConfig, flags, ghosts
  <1>4. ASSUME NEW p \in Processes, LoadConfig(p) PROVE Held'
    BY <1>1, <1>2, <1>4 DEF LoadConfig, flags, ghosts
  <1>5. ASSUME NEW p \in Processes, Start(p) PROVE Held'
    <2>1. CASE port = None /\ port' = p /\ Goto(p, "check") /\ UNCHANGED flags
      BY <1>0, <1>5, <2>1 DEF Start, files, flags, ghosts
    <2> QED
      BY <1>1, <1>5, <2>1 DEF Start, ghosts
  <1>6. ASSUME NEW p \in Processes, CheckPid(p) PROVE Held'
    <2>1. CASE Goto(p, "pid") /\ UNCHANGED <<port, flags>>
      BY <1>0, <1>6, <2>1 DEF CheckPid, files, flags, ghosts
    <2> QED
      BY <1>1, <1>6, <2>1 DEF CheckPid, ghosts
  <1>7. ASSUME NEW p \in Processes, WritePid(p) PROVE Held'
    BY <1>0, <1>7 DEF WritePid, Serve
  <1>8. ASSUME NEW p \in Processes, WriteUrl(p) PROVE Held'
    BY <1>0, <1>8 DEF WriteUrl, Serve, ghosts
  <1>9. ASSUME NEW p \in Processes, Shutdown(p) \/ StopTracker(p) PROVE Held'
    BY <1>0, <1>9 DEF Shutdown, StopTracker, files, flags, ghosts
  <1>10. ASSUME NEW p \in Processes, StopWeb(p) PROVE Held'
    BY <1>0, <1>10 DEF StopWeb, files, flags, ghosts
  <1>11. ASSUME NEW p \in Processes, ClearPid(p) PROVE Held'
    BY <1>0, <1>11 DEF ClearPid, flags, ghosts
  <1>12. ASSUME NEW p \in Processes, ClearUrl(p) PROVE Held'
    BY <1>0, <1>12 DEF ClearUrl, EndProcess, flags, ghosts
  <1>13. ASSUME UNCHANGED <<pc, port, files, registered, crossed>> PROVE Held'
    BY <1>13 DEF files
  <1>14. ASSUME NEW p \in Processes, CloseQuitCh(p) \/ PollSend(p) \/ PollDone(p) \/ Kill(p)
         PROVE  Held'
    BY <1>1, <1>13, <1>14 DEF CloseQuitCh, PollSend, PollDone, Kill, ghosts
  <1>15. ASSUME NEW p \in Processes,
                \/ Signal(p) \/ RequestQuit(p) \/ TrayQuit(p) \/ ReusePid(p)
         PROVE  Held'
    BY <1>13, <1>15 DEF Signal, RequestQuit, TrayQuit, ReusePid, flags, ghosts
  <1>16. CASE UNCHANGED vars
    BY <1>13, <1>16 DEF vars, flags, ghosts
  <1> QED
    BY <1>3, <1>4, <1>5, <1>6, <1>7, <1>8, <1>9, <1>10, <1>11, <1>12, <1>14, <1>15, <1>16
    DEF Next, MainStep, PollStep

\* Types, port, files and deferred Clear, in every reachable state.
THEOREM InductiveInvariant == Spec => []IInv
  <1>1. IInv /\ [Next]_vars => IInv'
    BY NextTypeOK, NextHeld DEF IInv, Held
  <1> QED
    BY InitIInv, <1>1, PTL DEF Spec

\* Type correctness of the daemon's life cycle.
THEOREM TypeCorrect == Spec => []TypeOK
  <1>1. IInv => TypeOK
    BY DEF IInv
  <1> QED
    BY InductiveInvariant, <1>1, PTL

\* However many times the client is launched, at most one process has its tracker
\* running: the order of main's start and shutdown keeps the port around it.
THEOREM SingleRecorder == Spec => []OneRecorder
  <1>1. IInv => OneRecorder
    BY DEF IInv, PortHeld, Holding, OneRecorder, EventsOpen
  <1> QED
    BY InductiveInvariant, <1>1, PTL

\* A daemon whose WriteState did not run beside the Clear of another one is found
\* by status, open and quit for as long as it serves.
THEOREM FoundWhileServing == Spec => []ServingIsFound
  <1>1. IInv => ServingIsFound
    BY DEF IInv, FilesHeld, ServingIsFound, ReadState, processAlive, Alive, Dead
  <1> QED
    BY InductiveInvariant, <1>1, PTL

\* No process that has exited, in whichever way other than being killed, leaves
\* its pid in the file.
THEOREM ExitIsClean == Spec => []CleanExit
  <1>1. IInv => CleanExit
    BY DEF IInv, PidOwner, CleanExit
  <1> QED
    BY InductiveInvariant, <1>1, PTL
=============================================================================
