--------------------------- MODULE PreviewService ---------------------------
(***************************************************************************)
(* The Dev_Servers of all projects (src/project/container-dev-server.js)   *)
(* and what PreviewController tells the users about them                   *)
(* (src/project/preview-controller.js).  start(), stop() and the           *)
(* controller are synchronous; a launch, a liveness check and a teardown   *)
(* are tasks that await the container runtime, in any order.               *)
(***************************************************************************)
EXTENDS Naturals, FiniteSets

CONSTANTS
  Project, Port,
  Rec,          \* identities of Dev_Server records; each has one container
  Check,        \* liveness checks that may be under way at the same time
  RestartCap,   \* RESTART_CAP
  MaxTries,     \* bound: how far tries is counted
  NoRec, NoPort, NoProject

ASSUME CapAssumption == RestartCap \in Nat /\ MaxTries \in Nat
ASSUME NoneAssumption ==
  /\ NoRec \notin Rec
  /\ NoPort \notin Port
  /\ NoProject \notin Project
ASSUME TaskAssumption == Rec \cap Check = {}

VARIABLES
  records,      \* the Map: project -> its current record
  rec,          \* record -> its fields
  heldPorts,    \* the ports of the pool that are taken
  task,         \* the launch of each record and the liveness checks
  stopping,     \* records whose teardown is under way
  box,          \* the runtime: record -> its container
  devServer,    \* controller: project -> the record whose URL it hands out
  served,       \* controller: project -> the record whose URL its published
                \* snapshot is said to be served at
  attempts,     \* controller: project -> restartAttempts
  astray,       \* auxiliary: containers the runtime made or kept after their
                \* removal was asked for
  tries         \* auxiliary: project -> the failure run: restarts since a
                \* Dev_Server was ready or was deliberately stopped

serverVars == <<records, rec, heldPorts, task, stopping>>
runtimeVars == <<box, astray>>
controllerVars == <<devServer, served, attempts, tries>>
vars == <<records, rec, heldPorts, task, stopping, box, devServer, served,
          attempts, astray, tries>>

Phase == {"none", "starting", "running", "failed", "stopped"}

NoFields == [proj |-> NoProject, port |-> NoPort, held |-> FALSE, phase |-> "none"]

Fields == [proj : Project \cup {NoProject}, port : Port \cup {NoPort},
           held : BOOLEAN, phase : Phase]

Live(r) == r \in Rec /\ rec[r].phase \in {"starting", "running"}

(***************************************************************************)
(* A task awaits startService (launching), probes and polls (probing), has *)
(* asked whether the container runs (asked), has been told that it does    *)
(* not (told), or is in markFailed: awaiting the logs (logs), then the     *)
(* removal of the container (removing).                                    *)
(***************************************************************************)
Task == Rec \cup Check

TaskPc == {"idle", "launching", "probing", "asked", "told", "logs", "removing"}

IdleTask == [pc |-> "idle", rec |-> NoRec]

Failing(r) == {t \in Task : task[t].rec = r /\ task[t].pc = "logs"}

Reporting(r) == {t \in Task : task[t].rec = r /\ task[t].pc \in {"logs", "removing"}}

\* A record is garbage when nothing refers to it and its container is gone.
Garbage(r) ==
  /\ \A p \in Project : r \notin {records[p], devServer[p], served[p]}
  /\ \A t \in Task : task[t].rec # r
  /\ r \notin stopping
  /\ box[r] = "none"
  /\ ~rec[r].held

-----------------------------------------------------------------------------
(***************************************************************************)
(* The port pool.                                                          *)
(***************************************************************************)
\* (Mutants: the port is given back by its number, whoever holds it; only a
\* live record gives its port back.)
ReleasePortByNumber(r) == heldPorts' = heldPorts \ {rec[r].port}

ReleasePortIfLive(r) ==
  heldPorts' = IF rec[r].held /\ Live(r) THEN heldPorts \ {rec[r].port} ELSE heldPorts

ReleasePort(r) ==
  heldPorts' = IF rec[r].held THEN heldPorts \ {rec[r].port} ELSE heldPorts

NoLongerHeld(r) == rec' = [rec EXCEPT ![r].held = FALSE]

-----------------------------------------------------------------------------
(***************************************************************************)
(* start(): a live record is returned as it is; otherwise a port is        *)
(* claimed, the record replaces the project's and its launch begins.       *)
(***************************************************************************)
StartsNew(p, r) ==
  /\ ~Live(records[p])
  /\ Garbage(r)
  /\ \E port \in Port \ heldPorts :
       /\ heldPorts' = heldPorts \cup {port}
       /\ rec' = [rec EXCEPT ![r] = [proj |-> p, port |-> port, held |-> TRUE,
                                     phase |-> "starting"]]
  /\ records' = [records EXCEPT ![p] = r]
  /\ task' = [task EXCEPT ![r] = [pc |-> "launching", rec |-> r]]
  /\ UNCHANGED <<stopping, runtimeVars>>

StartsAgain(p, r) ==
  /\ Live(r)
  /\ r = records[p]
  /\ UNCHANGED <<serverVars, runtimeVars>>

Starts(p, r) == StartsNew(p, r) \/ StartsAgain(p, r)

\* The controller's start, at the end of a turn that passed: the snapshot of
\* the turn is published at the URL the controller has, if there is one.
Start(p) ==
  /\ \E r \in Rec :
       /\ Starts(p, r)
       /\ devServer' = [devServer EXCEPT ![p] = r]
       /\ served' \in {served, [served EXCEPT ![p] = r]}
  /\ attempts' = [attempts EXCEPT ![p] = 0]
  /\ UNCHANGED tries

\* No sandbox, no command to run or no free port.
StartRefused(p) ==
  /\ ~Live(records[p])
  /\ served' \in {served, [served EXCEPT ![p] = devServer[p]]}
  /\ UNCHANGED <<serverVars, runtimeVars, devServer, attempts, tries>>

\* restart(): counted before the start, and a start that succeeds uncounts.
\* (Mutant: off by one.)
MayRestartOnceMore(p) == attempts[p] <= RestartCap

MayRestart(p) == attempts[p] < RestartCap

Tried(p) == tries' = [tries EXCEPT ![p] = IF @ < MaxTries THEN @ + 1 ELSE @]

Restart(p) ==
  /\ MayRestart(p)
  /\ \E r \in Rec : Starts(p, r) /\ devServer' = [devServer EXCEPT ![p] = r]
  /\ attempts' = [attempts EXCEPT ![p] = 0]
  /\ IF Live(records[p]) THEN UNCHANGED tries ELSE Tried(p)
  /\ UNCHANGED served

RestartRefused(p) ==
  /\ MayRestart(p)
  /\ ~Live(records[p])
  /\ attempts' = [attempts EXCEPT ![p] = @ + 1]
  /\ Tried(p)
  /\ UNCHANGED <<serverVars, runtimeVars, devServer, served>>

-----------------------------------------------------------------------------
(***************************************************************************)
(* markFailed, called by the launch of a record and by liveness checks: a  *)
(* record that was stopped meanwhile is left to its teardown.              *)
(***************************************************************************)
Settled(t) == task' = [task EXCEPT ![t] = IdleTask]

MarkFailed(t) ==
  LET r == task[t].rec IN
  IF rec[r].phase = "stopped"
    THEN Settled(t) /\ UNCHANGED rec
    ELSE /\ task' = [task EXCEPT ![t].pc = "logs"]
         /\ rec' = [rec EXCEPT ![r].phase = "failed"]

\* (Mutant: a stop during the await of the logs is not noticed.)
LogsReadAnyway(t) ==
  /\ task[t].pc = "logs"
  /\ ReleasePort(task[t].rec)
  /\ NoLongerHeld(task[t].rec)
  /\ task' = [task EXCEPT ![t].pc = "removing"]
  /\ UNCHANGED <<records, stopping, runtimeVars, controllerVars>>

LogsRead(t) ==
  LET r == task[t].rec IN
  /\ task[t].pc = "logs"
  /\ IF rec[r].phase = "stopped"
       THEN Settled(t) /\ UNCHANGED <<rec, heldPorts>>
       ELSE /\ ReleasePort(r)
            /\ NoLongerHeld(r)
            /\ task' = [task EXCEPT ![t].pc = "removing"]
  /\ UNCHANGED <<records, stopping, runtimeVars, controllerVars>>

\* rm -f of a container that exists; one the runtime has yet to make is not
\* there to remove, and the runtime may fail.
Remove(r) ==
  \/ /\ box[r] # "late"
     /\ box' = [box EXCEPT ![r] = "none"]
     /\ UNCHANGED astray
  \/ /\ box[r] # "none"
     /\ astray' = astray \cup {r}
     /\ UNCHANGED box

\* (Mutant: the served URL is taken back and the handle is kept.)
ExitedForServed(p) ==
  /\ served' = [served EXCEPT ![p] = NoRec]
  /\ UNCHANGED <<devServer, attempts, tries>>

\* notifyExit of the controller: the project's handle is forgotten.
Exited(p) ==
  /\ devServer' = [devServer EXCEPT ![p] = NoRec]
  /\ served' = [served EXCEPT ![p] = NoRec]
  /\ UNCHANGED <<attempts, tries>>

FailureReported(t) ==
  /\ task[t].pc = "removing"
  /\ Remove(task[t].rec)
  /\ Exited(rec[task[t].rec].proj)
  /\ Settled(t)
  /\ UNCHANGED <<records, rec, heldPorts, stopping>>

-----------------------------------------------------------------------------
(***************************************************************************)
(* The launch of a record.                                                 *)
(***************************************************************************)
PortFree(r) == \A q \in Rec : box[q] = "up" => rec[q].port # rec[r].port

LaunchUp(r) ==
  /\ task[r].pc = "launching"
  /\ PortFree(r)
  /\ box' = [box EXCEPT ![r] = "up"]
  /\ task' = [task EXCEPT ![r].pc = "probing"]
  /\ UNCHANGED <<records, rec, heldPorts, stopping, astray, controllerVars>>

\* Refused, or the command ran out of time and the runtime finishes it later.
LaunchFails(r) ==
  /\ task[r].pc = "launching"
  /\ MarkFailed(r)
  /\ box' \in {box, [box EXCEPT ![r] = "late"]}
  /\ UNCHANGED <<records, heldPorts, stopping, astray, controllerVars>>

\* Whatever publishes the port answers the probe.
ProbeAnswered(r) ==
  /\ task[r].pc = "probing"
  /\ rec[r].phase # "stopped"
  /\ ~PortFree(r)
  /\ rec' = [rec EXCEPT ![r].phase = "running"]
  /\ Settled(r)
  /\ tries' = [tries EXCEPT ![rec[r].proj] = 0]
  /\ UNCHANGED <<records, heldPorts, stopping, runtimeVars, devServer, served, attempts>>

\* The ready timeout, or the container has exited.
ProbeFails(r) ==
  /\ task[r].pc = "probing"
  /\ MarkFailed(r)
  /\ UNCHANGED <<records, heldPorts, stopping, runtimeVars, controllerVars>>

-----------------------------------------------------------------------------
(***************************************************************************)
(* The liveness check of a running record.                                 *)
(***************************************************************************)
CheckStarts(k, p) ==
  /\ task[k].pc = "idle"
  /\ records[p] # NoRec
  /\ rec[records[p]].phase = "running"
  /\ task' = [task EXCEPT ![k] = [pc |-> "asked", rec |-> records[p]]]
  /\ UNCHANGED <<records, rec, heldPorts, stopping, runtimeVars, controllerVars>>

CheckPasses(k) ==
  /\ task[k].pc = "asked"
  /\ Settled(k)
  /\ UNCHANGED <<records, rec, heldPorts, stopping, runtimeVars, controllerVars>>

CheckTold(k) ==
  /\ task[k].pc = "asked"
  /\ box[task[k].rec] = "exited"
  /\ task' = [task EXCEPT ![k].pc = "told"]
  /\ UNCHANGED <<records, rec, heldPorts, stopping, runtimeVars, controllerVars>>

\* What was told may be old by now: the record may have failed or stopped.
CheckFails(k) ==
  /\ task[k].pc = "told"
  /\ MarkFailed(k)
  /\ UNCHANGED <<records, heldPorts, stopping, runtimeVars, controllerVars>>

-----------------------------------------------------------------------------
(***************************************************************************)
(* stop(): the record leaves the Map at once; its container is removed and *)
(* its port given back after the launch has settled.                       *)
(***************************************************************************)
Stop(p) ==
  LET r == records[p] IN
  /\ r # NoRec
  /\ rec' = [rec EXCEPT ![r].phase = "stopped"]
  /\ records' = [records EXCEPT ![p] = NoRec]
  /\ stopping' = stopping \cup {r}
  /\ tries' = [tries EXCEPT ![p] = 0]
  /\ UNCHANGED <<heldPorts, task, runtimeVars, devServer, served, attempts>>

\* (Mutant: the removal is not chained onto the launch.)
RemovesAtOnce(r) == TRUE

LaunchSettled(r) == task[r].pc = "idle"

StopEnds(r) ==
  /\ r \in stopping
  /\ LaunchSettled(r)
  /\ Remove(r)
  /\ ReleasePort(r)
  /\ NoLongerHeld(r)
  /\ stopping' = stopping \ {r}
  /\ UNCHANGED <<records, task, controllerVars>>

-----------------------------------------------------------------------------
(***************************************************************************)
(* The runtime: containers exit by themselves, and a container that was    *)
(* made too late comes up if its port is free.                             *)
(***************************************************************************)
BoxExits(r) ==
  /\ box[r] = "up"
  /\ box' = [box EXCEPT ![r] = "exited"]
  /\ UNCHANGED <<serverVars, controllerVars, astray>>

BoxComesLate(r) ==
  /\ box[r] = "late"
  /\ box' = [box EXCEPT ![r] = IF PortFree(r) THEN "up" ELSE "none"]
  /\ UNCHANGED <<serverVars, controllerVars, astray>>

\* What is astray ends some day, at the next start of the process at the latest.
AstrayEnds(r) ==
  /\ r \in astray
  /\ r \notin stopping
  /\ \A t \in Task : task[t].rec # r
  /\ box' = [box EXCEPT ![r] = "none"]
  /\ astray' = astray \ {r}
  /\ UNCHANGED <<serverVars, controllerVars>>

Init ==
  /\ records = [p \in Project |-> NoRec]
  /\ rec = [r \in Rec |-> NoFields]
  /\ heldPorts = {}
  /\ task = [t \in Task |-> IdleTask]
  /\ stopping = {}
  /\ box = [r \in Rec |-> "none"]
  /\ devServer = [p \in Project |-> NoRec]
  /\ served = [p \in Project |-> NoRec]
  /\ attempts = [p \in Project |-> 0]
  /\ astray = {}
  /\ tries = [p \in Project |-> 0]

LaunchStep(r) == LaunchUp(r) \/ LaunchFails(r) \/ ProbeAnswered(r) \/ ProbeFails(r)

CheckStep(k) ==
  \/ CheckPasses(k) \/ CheckTold(k) \/ CheckFails(k)
  \/ \E p \in Project : CheckStarts(k, p)

Next ==
  \/ \E p \in Project :
       Start(p) \/ StartRefused(p) \/ Restart(p) \/ RestartRefused(p) \/ Stop(p)
  \/ \E r \in Rec : LaunchStep(r) \/ StopEnds(r)
  \/ \E k \in Check : CheckStep(k)
  \/ \E t \in Task : LogsRead(t) \/ FailureReported(t)
  \/ \E r \in Rec : BoxExits(r) \/ BoxComesLate(r) \/ AstrayEnds(r)

Spec == Init /\ [][Next]_vars

-----------------------------------------------------------------------------

TypeOK ==
  /\ records \in [Project -> Rec \cup {NoRec}]
  /\ rec \in [Rec -> Fields]
  /\ heldPorts \subseteq Port
  /\ task \in [Task -> [pc : TaskPc, rec : Rec \cup {NoRec}]]
  /\ stopping \subseteq Rec
  /\ box \in [Rec -> {"none", "up", "exited", "late"}]
  /\ devServer \in [Project -> Rec \cup {NoRec}]
  /\ served \in [Project -> Rec \cup {NoRec}]
  /\ attempts \in [Project -> 0..RestartCap]
  /\ astray \subseteq Rec
  /\ tries \in [Project -> Nat]

(***************************************************************************)
(* Two live Dev_Servers never have one URL: a port that is given back is   *)
(* given back by its holder, through failures, stops of what has failed    *)
(* and overlapping liveness checks.                                        *)
(***************************************************************************)
OneUrlEach ==
  \A r, q \in Rec : Live(r) /\ Live(q) /\ rec[r].port = rec[q].port => r = q

(***************************************************************************)
(* No port is lost: a taken port belongs to the live record of a project,  *)
(* or to a failing or stopping one that has yet to give it back.           *)
(***************************************************************************)
NoPortIsLost ==
  \A port \in heldPorts : \E r \in Rec :
    /\ rec[r].port = port
    /\ rec[r].held
    /\ \/ Live(r) /\ records[rec[r].proj] = r
       \/ Failing(r) # {}
       \/ r \in stopping

(***************************************************************************)
(* A deliberate stop wins: once the teardown of a stopped record is done   *)
(* its container is gone, wherever the stop landed in the launch, unless   *)
(* the runtime failed to remove it or made it afterwards.                  *)
(***************************************************************************)
StoppedIsGone ==
  \A r \in Rec :
    rec[r].phase = "stopped" /\ r \notin stopping /\ r \notin astray => box[r] = "none"

(***************************************************************************)
(* The URLs the controller hands out are of a server that lives, was       *)
(* deliberately stopped, or whose failure is about to be reported: no      *)
(* failure is forgotten between the two components.                        *)
(***************************************************************************)
HandleIsHonest ==
  \A p \in Project : \A r \in {devServer[p], served[p]} \ {NoRec} :
    Live(r) \/ rec[r].phase = "stopped" \/ Reporting(r) # {}

(***************************************************************************)
(* A stopped record stays stopped, and no launch, probe or check that was  *)
(* under way goes on to report it as a failure ("reporting an onExit for a *)
(* deliberate stop would offer a bogus restart", container-dev-server.js,  *)
(* line 651).  One window is left: markFailed does not look at the phase   *)
(* again after its last await, the removal of the container, so a report   *)
(* whose removal was begun before the stop is still made.                  *)
(***************************************************************************)
StopIsFinal ==
  [][\A r \in Rec : rec[r].phase = "stopped" /\ ~Garbage(r) =>
       /\ rec'[r].phase = "stopped"
       /\ \A t \in Task : task[t].rec = r /\ task'[t].pc = "removing"
                            => task[t].pc = "removing"]_vars

-----------------------------------------------------------------------------

(***************************************************************************)
(* preview-controller.js:387: attempts to restart "are capped at exactly   *)
(* RESTART_CAP (3) across a failure run": no more restarts than that       *)
(* without a Dev_Server that was ready, or deliberately stopped, between.  *)
(***************************************************************************)
RestartsAreCapped == \A p \in Project : tries[p] <= RestartCap
=============================================================================
