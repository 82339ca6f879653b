--------------------------- MODULE SandboxManager ---------------------------
(***************************************************************************)
(* The per-project Isolation_Boundary of src/sandbox/sandbox-manager.js,   *)
(* over the container backend of src/sandbox/container-backend.js.         *)
(*                                                                         *)
(* The manager is single threaded JavaScript: what runs between two awaits *)
(* is one action, and every await is a point where anything else may run.  *)
(* A record is a heap object, compared by identity in execInner, so the    *)
(* identity is kept (Rec); its immutable fields (mount, limits, egress)    *)
(* are not, no property here tells them apart.  Containers live in the     *)
(* runtime and survive a restart of the process, which sweeps them while   *)
(* it serves already; everything else is lost.                             *)
(***************************************************************************)
EXTENDS Integers, Sequences, FiniteSets

CONSTANTS
  Project,        \* project ids
  Exec,           \* exec() calls that may be outstanding at the same time
  EvictSlot,      \* releases of one project that evictions may have under way
  CallSlot,       \* releases of one project that callers may have under way
  Rec,            \* identities of the boundary records of one project
  Name,           \* container names (random, so unique among live containers)
  Command,        \* the commands callers pass: "valid", "malformed" or both
  MaxSandboxes,   \* config.maxSandboxes
  StartupReap,    \* whether AAB_STARTUP_REAP asks for a sweep at each start
  MaxLeaks,       \* bound: how far inflight may grow by throwing calls
  NoProject, NoRec, NoName

ASSUME SlotAssumption ==
  /\ Exec \cap EvictSlot = {}
  /\ Exec \cap CallSlot = {}
  /\ EvictSlot \cap CallSlot = {}
ASSUME CapacityAssumption == MaxSandboxes \in Nat \ {0}
ASSUME NoneAssumption ==
  /\ NoProject \notin Project
  /\ NoRec \notin Rec
  /\ NoName \notin Name
ASSUME ReapAssumption == StartupReap \in BOOLEAN
ASSUME CommandAssumption == Command \subseteq {"valid", "malformed"}

VARIABLES
  sandboxes,      \* the Map: project -> its current record, or NoRec
  older,          \* the Map's order: project -> the entries before its own
  inflight,       \* record.inflight: project -> record -> count
  queue,          \* execMutex: project -> the calls that hold or await its key
  call,           \* the state of each exec() call
  rel,            \* the state of each release() call of each project
  containers,     \* the runtime: name -> the project its container is
                  \* labelled with, or NoProject when there is no container
  launchedNames,  \* names of containers THIS process launched
  sweep,          \* the sweep that a start of the process owes the runtime
  held            \* auxiliary: projects whose last explicit acquire() has not
                  \* been followed by an explicit release() or an eviction

managerVars == <<sandboxes, older, inflight>>
runtimeVars == <<containers, launchedNames, sweep>>
vars == <<sandboxes, older, inflight, queue, call, rel,
          containers, launchedNames, sweep, held>>

-----------------------------------------------------------------------------

(***************************************************************************)
(* An exec() call is queued on the mutex, launching (inside runOneShot,    *)
(* before `docker run`), running, returned (its container is over, the     *)
(* finally block has not run) or releasing (awaiting its auto-release).    *)
(***************************************************************************)
CallPc == {"idle", "queued", "launching", "running", "returned", "releasing"}

\* The stages past the mutex in which the call counts as an in-flight run.
RunPc == {"launching", "running", "returned"}

\* The stages in which the call holds its project's mutex.
HoldPc == RunPc \cup {"releasing"}

IdleCall == [pc |-> "idle", proj |-> NoProject, rec |-> NoRec,
             pre |-> FALSE, name |-> NoName]

CallState == [pc : CallPc, proj : Project \cup {NoProject},
              rec : Rec \cup {NoRec}, pre : BOOLEAN, name : Name \cup {NoName}]

(***************************************************************************)
(* A release() call is removing while it awaits backend.remove(label) and  *)
(* the listing of reapOrphans, and sweeping while it removes what the      *)
(* listing returned.  Removing the label itself touches nothing: every     *)
(* container has a random suffix, so none is named like the label.         *)
(***************************************************************************)
Slot == Exec \cup EvictSlot \cup CallSlot

IdleRelease == [pc |-> "idle", listed |-> {}]

StartedRelease == [pc |-> "removing", listed |-> {}]

ReleaseState == [pc : {"idle", "removing", "sweeping"}, listed : SUBSET Name]

\* The startup sweep, when there is one, is due until it has listed; what it
\* listed and has not come to yet is all that is left of it.
StartedSweep == [pc |-> IF StartupReap THEN "due" ELSE "listed", listed |-> {}]

SweepState == [pc : {"due", "listed"}, listed : SUBSET Name]

\* The projects in the Map, and the containers in the runtime.
Live == {p \in Project : sandboxes[p] # NoRec}

Existing == {n \in Name : containers[n] # NoProject}

Running(e) == call[e].pc \in RunPc

\* A record is garbage once neither the Map nor a running call refers to it.
Referenced(p) ==
  {sandboxes[p]} \cup {call[e].rec : e \in {f \in Exec : call[f].proj = p}}

-----------------------------------------------------------------------------

(***************************************************************************)
(* acquire(): the existing record, or a new one inserted last; inserting   *)
(* evicts, oldest first, the idle entries above the capacity.              *)
(***************************************************************************)
RecordFor(p) ==
  IF p \in Live THEN sandboxes[p] ELSE CHOOSE r \in Rec \ Referenced(p) : TRUE

\* (Mutants for Evictable: the idle test is gone; the scan stops at the first
\* busy entry instead of skipping it.)
EvictableBusyToo(p) == Live \ {p}

EvictableUpToBusy(p) ==
  {v \in Live \ {p} : \A u \in (older[v] \cup {v}) \ {p} : inflight[u][sandboxes[u]] = 0}

Evictable(p) == {v \in Live \ {p} : inflight[v][sandboxes[v]] = 0}

Victims(p) ==
  {v \in Evictable(p) :
     /\ p \notin Live
     /\ Cardinality(older[v] \cap Evictable(p)) < Cardinality(Live) + 1 - MaxSandboxes}

SandboxesAfterAcquire(p) ==
  [q \in Project |-> IF q = p THEN RecordFor(p) ELSE
                     IF q \in Victims(p) THEN NoRec ELSE sandboxes[q]]

\* (Mutant: a repeated acquire() resets the count.)
InflightReset(p) == [inflight EXCEPT ![p][RecordFor(p)] = 0]

InflightAfterAcquire(p) ==
  IF p \in Live THEN inflight ELSE [inflight EXCEPT ![p][RecordFor(p)] = 0]

\* (Mutant: p is inserted again without being deleted first.)
InsertedTwice(p, gone) ==
  [q \in Project |-> IF q = p THEN Live \ (gone \cup {p}) ELSE
                     IF q \in gone THEN {} ELSE older[q] \ gone]

\* The Map order with p last and the entries `gone` removed.
MovedToEnd(p, gone) ==
  [q \in Project |-> IF q = p THEN Live \ (gone \cup {p}) ELSE
                     IF q \in gone THEN {} ELSE older[q] \ (gone \cup {p})]

Dropped(p) ==
  [q \in Project |-> IF q = p THEN {} ELSE older[q] \ {p}]

OrderAfterAcquire(p) ==
  IF p \in Live THEN older ELSE MovedToEnd(p, Victims(p))

FreeSlots(p, S) == {s \in S : rel[p][s].pc = "idle"}

\* Each victim's release() is scheduled, fire and forget.
ReleasesAfterAcquire(p) ==
  [q \in Project |->
     IF q \in Victims(p)
       THEN [rel[q] EXCEPT ![CHOOSE s \in FreeSlots(q, EvictSlot) : TRUE] = StartedRelease]
       ELSE rel[q]]

\* The instance has an identity and release slots left (bounds, not code).
CanAcquire(p) ==
  /\ p \in Live \/ Rec \ Referenced(p) # {}
  /\ \A v \in Victims(p) : FreeSlots(v, EvictSlot) # {}

Acquire(p) ==
  /\ CanAcquire(p)
  /\ sandboxes' = SandboxesAfterAcquire(p)
  /\ inflight' = InflightAfterAcquire(p)
  /\ older' = OrderAfterAcquire(p)
  /\ rel' = ReleasesAfterAcquire(p)
  /\ held' = (held \ Victims(p)) \cup {p}
  /\ UNCHANGED <<queue, call, runtimeVars>>

-----------------------------------------------------------------------------

(***************************************************************************)
(* exec(): serialised per project by the keyed mutex.                      *)
(***************************************************************************)
ExecCall(e, p) ==
  /\ call[e].pc = "idle"
  /\ call' = [call EXCEPT ![e] = [IdleCall EXCEPT !.pc = "queued", !.proj = p]]
  /\ queue' = [queue EXCEPT ![p] = Append(@, e)]
  /\ UNCHANGED <<managerVars, rel, runtimeVars, held>>

\* (Mutants for HoldsMutex: a call does not wait for the one before it; it
\* waits until nobody else is queued; the newest call goes first.)
NeverWaits(e) == queue[call[e].proj] # <<>>

WaitsForQuiet(e) == Len(queue[call[e].proj]) = 1

NewestFirst(e) ==
  LET q == queue[call[e].proj] IN q # <<>> /\ q[Len(q)] = e

HoldsMutex(e) == queue[call[e].proj] # <<>> /\ Head(queue[call[e].proj]) = e

\* The call returns to its caller and the next one in the queue may start.
Settle(e) ==
  /\ call' = [call EXCEPT ![e] = IdleCall]
  /\ queue' = [queue EXCEPT ![call[e].proj] = Tail(@)]

\* The synchronous part of execInner: acquire, count the run, refresh the LRU.
Enter(p) ==
  /\ CanAcquire(p)
  /\ sandboxes' = SandboxesAfterAcquire(p)
  /\ older' = MovedToEnd(p, Victims(p))
  /\ inflight' = [InflightAfterAcquire(p) EXCEPT ![p][RecordFor(p)] = @ + 1]
  /\ rel' = ReleasesAfterAcquire(p)
  /\ held' = held \ Victims(p)
  /\ UNCHANGED runtimeVars

ExecStart(e) ==
  LET p == call[e].proj IN
  /\ call[e].pc = "queued"
  /\ HoldsMutex(e)
  /\ "valid" \in Command
  /\ Enter(p)
  /\ call' = [call EXCEPT ![e].pc = "launching", ![e].rec = RecordFor(p),
                          ![e].pre = p \in Live]
  /\ UNCHANGED queue

\* toContainerCommand throws after the run was counted and before the try
\* whose finally uncounts it.
ExecThrows(e) ==
  LET p == call[e].proj IN
  /\ call[e].pc = "queued"
  /\ HoldsMutex(e)
  /\ "malformed" \in Command
  /\ inflight[p][RecordFor(p)] < MaxLeaks
  /\ Enter(p)
  /\ Settle(e)

\* runOneShot: the name is noted as launched, then the container starts.
Launch(e) ==
  /\ call[e].pc = "launching"
  /\ \E n \in Name \ Existing :
       /\ call' = [call EXCEPT ![e].pc = "running", ![e].name = n]
       /\ containers' = [containers EXCEPT ![n] = call[e].proj]
       /\ launchedNames' = launchedNames \cup {n}
  /\ UNCHANGED <<managerVars, queue, rel, sweep, held>>

\* The backend throws (egress plane down, network refused) or reports that
\* the container could not be created: a denied result, no container.
LaunchFails(e) ==
  /\ call[e].pc = "launching"
  /\ call' = [call EXCEPT ![e].pc = "returned"]
  /\ UNCHANGED <<managerVars, queue, rel, runtimeVars, held>>

RunOver(e) ==
  /\ call[e].pc = "running"
  /\ call' = [call EXCEPT ![e].pc = "returned", ![e].name = NoName]
  /\ containers' = [containers EXCEPT ![call[e].name] = NoProject]
  /\ UNCHANGED <<managerVars, queue, rel, launchedNames, sweep, held>>

\* The wall clock fires: runCli kills the CLI process.  Whether the runtime
\* stops the container with it is the runtime's choice; here it lives on.
RunTimesOut(e) ==
  /\ call[e].pc = "running"
  /\ call' = [call EXCEPT ![e].pc = "returned", ![e].name = NoName]
  /\ UNCHANGED <<managerVars, queue, rel, runtimeVars, held>>

\* (Mutant: the run is uncounted once too often.)
UncountedTwice(e) == [inflight EXCEPT ![call[e].proj][call[e].rec] = @ - 2]

\* The finally block.
Uncounted(e) ==
  [inflight EXCEPT ![call[e].proj][call[e].rec] = IF @ > 0 THEN @ - 1 ELSE 0]

\* (Mutant: the count is tested before the run is uncounted.)
OwesReleaseTooEarly(e) ==
  /\ ~call[e].pre
  /\ inflight[call[e].proj][call[e].rec] = 0
  /\ sandboxes[call[e].proj] = call[e].rec

OwesRelease(e) ==
  /\ ~call[e].pre
  /\ Uncounted(e)[call[e].proj][call[e].rec] = 0
  /\ sandboxes[call[e].proj] = call[e].rec

ExecReturns(e) ==
  /\ call[e].pc = "returned"
  /\ ~OwesRelease(e)
  /\ inflight' = Uncounted(e)
  /\ Settle(e)
  /\ UNCHANGED <<sandboxes, older, rel, runtimeVars, held>>

ExecAutoReleases(e) ==
  /\ call[e].pc = "returned"
  /\ OwesRelease(e)
  /\ inflight' = Uncounted(e)
  /\ call' = [call EXCEPT ![e].pc = "releasing"]
  /\ rel' = [rel EXCEPT ![call[e].proj][e] = StartedRelease]
  /\ UNCHANGED <<sandboxes, older, queue, runtimeVars, held>>

ExecReleased(e) ==
  /\ call[e].pc = "releasing"
  /\ rel[call[e].proj][e].pc = "idle"
  /\ Settle(e)
  /\ UNCHANGED <<managerVars, rel, runtimeVars, held>>

-----------------------------------------------------------------------------

(***************************************************************************)
(* release(): not under the mutex, and idempotent.                         *)
(***************************************************************************)
Release(p) ==
  /\ \E s \in FreeSlots(p, CallSlot) :
       rel' = [rel EXCEPT ![p][s] = StartedRelease]
  /\ held' = held \ {p}
  /\ UNCHANGED <<managerVars, queue, call, runtimeVars>>

\* reapOrphans lists the containers that carry the label; a failed listing
\* is reported and reaps nothing.
ReleaseLists(p, s) ==
  /\ rel[p][s].pc = "removing"
  /\ \E listed \in {{}, {n \in Name : containers[n] = p}} :
       rel' = [rel EXCEPT ![p][s] = [pc |-> "sweeping", listed |-> listed]]
  /\ UNCHANGED <<managerVars, queue, call, runtimeVars, held>>

\* (Mutant: what this process launched is not skipped.)
ReapableAll(listed) == listed

\* reapOrphans skips what this process launched.
Reapable(listed) == listed \ launchedNames

\* The record is deleted whatever happened while the release was awaiting.
ReleaseEnds(p, s) ==
  /\ rel[p][s].pc = "sweeping"
  /\ containers' = [n \in Name |-> IF n \in Reapable(rel[p][s].listed) THEN NoProject
                                                                     ELSE containers[n]]
  /\ sandboxes' = [sandboxes EXCEPT ![p] = NoRec]
  /\ older' = Dropped(p)
  /\ rel' = [rel EXCEPT ![p][s] = IdleRelease]
  /\ UNCHANGED <<inflight, queue, call, launchedNames, sweep, held>>

-----------------------------------------------------------------------------

\* A container whose CLI is gone ends by itself.
ContainerEnds(n) ==
  /\ n \in Existing
  /\ \A e \in Exec : call[e].name # n
  /\ containers' = [containers EXCEPT ![n] = NoProject]
  /\ UNCHANGED <<managerVars, queue, call, rel, launchedNames, sweep, held>>

(***************************************************************************)
(* The startup sweep (runStartupReap, reapAllOrphans) begins once the      *)
(* server is listening and nobody waits for it: requests acquire and run   *)
(* while it probes, lists and removes, one container after the other.      *)
(* Nothing is listed when the probe or the listing fails, and a removal    *)
(* may fail and leave its container.                                       *)
(***************************************************************************)
SweepLists ==
  /\ sweep.pc = "due"
  /\ \E listed \in {{}, Existing} : sweep' = [pc |-> "listed", listed |-> listed]
  /\ UNCHANGED <<managerVars, queue, call, rel, containers, launchedNames, held>>

SweepRemoves(n) ==
  /\ n \in sweep.listed
  /\ sweep' = [sweep EXCEPT !.listed = @ \ {n}]
  /\ \/ containers' = [m \in Name |-> IF m \in Reapable({n}) THEN NoProject
                                                            ELSE containers[m]]
     \/ UNCHANGED containers
  /\ UNCHANGED <<managerVars, queue, call, rel, launchedNames, held>>

\* The process dies and starts again: only the containers remain.
Restart ==
  /\ sandboxes' = [p \in Project |-> NoRec]
  /\ older' = [p \in Project |-> {}]
  /\ inflight' = [p \in Project |-> [r \in Rec |-> 0]]
  /\ queue' = [p \in Project |-> <<>>]
  /\ call' = [e \in Exec |-> IdleCall]
  /\ rel' = [p \in Project |-> [s \in Slot |-> IdleRelease]]
  /\ launchedNames' = {}
  /\ sweep' = StartedSweep
  /\ held' = {}
  /\ UNCHANGED containers

Init ==
  /\ sandboxes = [p \in Project |-> NoRec]
  /\ older = [p \in Project |-> {}]
  /\ inflight = [p \in Project |-> [r \in Rec |-> 0]]
  /\ queue = [p \in Project |-> <<>>]
  /\ call = [e \in Exec |-> IdleCall]
  /\ rel = [p \in Project |-> [s \in Slot |-> IdleRelease]]
  /\ containers = [n \in Name |-> NoProject]
  /\ launchedNames = {}
  /\ sweep = StartedSweep
  /\ held = {}

ExecStep(e) ==
  \/ ExecStart(e) \/ ExecThrows(e)
  \/ Launch(e) \/ LaunchFails(e)
  \/ RunOver(e) \/ RunTimesOut(e)
  \/ ExecReturns(e) \/ ExecAutoReleases(e) \/ ExecReleased(e)

ReleaseStep(p, s) == ReleaseLists(p, s) \/ ReleaseEnds(p, s)

RuntimeStep == SweepLists \/ \E n \in Name : SweepRemoves(n) \/ ContainerEnds(n)

Next ==
  \/ \E p \in Project : Acquire(p) \/ Release(p)
  \/ \E e \in Exec, p \in Project : ExecCall(e, p)
  \/ \E e \in Exec : ExecStep(e)
  \/ \E p \in Project, s \in Slot : ReleaseStep(p, s)
  \/ RuntimeStep
  \/ Restart

Spec == Init /\ [][Next]_vars

(***************************************************************************)
(* The event loop runs every ready continuation, and every awaited runtime *)
(* command has a wall-clock limit (runCli), so no stage lasts for ever.    *)
(***************************************************************************)
Fairness ==
  /\ \A e \in Exec :
       /\ WF_vars(ExecStart(e) \/ ExecThrows(e))
       /\ WF_vars(Launch(e) \/ LaunchFails(e))
       /\ WF_vars(RunOver(e) \/ RunTimesOut(e))
       /\ WF_vars(ExecReturns(e) \/ ExecAutoReleases(e) \/ ExecReleased(e))
  /\ \A p \in Project, s \in Slot : WF_vars(ReleaseStep(p, s))

FairSpec == Spec /\ Fairness

-----------------------------------------------------------------------------

TypeOK ==
  /\ sandboxes \in [Project -> Rec \cup {NoRec}]
  /\ older \in [Project -> SUBSET Project]
  /\ inflight \in [Project -> [Rec -> Nat]]
  /\ queue \in [Project -> Seq(Exec)]
  /\ call \in [Exec -> CallState]
  /\ rel \in [Project -> [Slot -> ReleaseState]]
  /\ containers \in [Name -> Project \cup {NoProject}]
  /\ launchedNames \subseteq Name
  /\ sweep \in SweepState
  /\ held \subseteq Project

(***************************************************************************)
(* Two calls past the mutex are of different projects: runs of one project *)
(* never overlap, whatever is queued, times out, throws or auto-releases   *)
(* (execMutex, audit H16).                                                 *)
(***************************************************************************)
RunsSerialised ==
  \A e, f \in Exec : call[e].pc \in HoldPc /\ call[f].pc \in HoldPc
                        /\ call[e].proj = call[f].proj => e = f

(***************************************************************************)
(* A run in flight is counted on the record it started with, so the idle   *)
(* test of the eviction sees it.                                           *)
(***************************************************************************)
RunIsCounted == \A e \in Exec : Running(e) => inflight[call[e].proj][call[e].rec] > 0

(***************************************************************************)
(* The container of a running command is in the runtime, labelled with its *)
(* own project: no release, of whichever caller and however late it lands, *)
(* and no startup sweep, however long its listing and removals take, reaps *)
(* the work of the process it runs in (launchedNames).                     *)
(***************************************************************************)
RunHasContainer ==
  \A e \in Exec : call[e].pc = "running" =>
     /\ call[e].name \in Name
     /\ containers[call[e].name] = call[e].proj

(***************************************************************************)
(* Nothing accumulates: an entry is there because a caller holds it, a     *)
(* release of it is under way, or the run that brought it in is not over.  *)
(***************************************************************************)
NoRecordLeak ==
  \A p \in Live :
     \/ p \in held
     \/ \E s \in Slot : rel[p][s].pc # "idle"
     \/ \E e \in Exec : /\ Running(e) /\ ~call[e].pre
                        /\ call[e].proj = p /\ call[e].rec = sandboxes[p]

\* A step in which the release of slot s of project p completes, and one in
\* which a live run loses the entry it was started under.
ReleaseCompletes(p, s) == rel[p][s].pc = "sweeping" /\ rel'[p][s].pc = "idle"

LosesEntry(e) ==
  /\ Running(e) /\ Running(e)'
  /\ sandboxes[call[e].proj] = call[e].rec
  /\ sandboxes'[call[e].proj] # call[e].rec

(***************************************************************************)
(* Making room never takes the entry of a live run: a run loses its entry  *)
(* only to the completion of a release of its project.                     *)
(***************************************************************************)
EvictionSparesRuns ==
  [][\A e \in Exec : LosesEntry(e) =>
        \E s \in Slot : ReleaseCompletes(call[e].proj, s)]_vars

\* A step that puts a project into the Map.
Inserted(p) == p \notin Live /\ p \in Live'

(***************************************************************************)
(* An insertion makes room (evictIfOverCapacity, "nothing evictable (all   *)
(* busy)"): it leaves the Map above its capacity only when every other     *)
(* entry that stays is busy.  So what an earlier insertion had to keep     *)
(* goes with the next one, unless it is busy still; between insertions     *)
(* the code removes nothing, and entries that have become idle stay.       *)
(***************************************************************************)
MapBounded ==
  [][\A p \in Project : Inserted(p) =>
        \/ Cardinality(Live') <= MaxSandboxes
        \/ \A q \in Live' \ {p} : inflight'[q][sandboxes'[q]] > 0]_vars

(***************************************************************************)
(* Every exec() call returns to its caller.                                *)
(***************************************************************************)
EveryCallReturns ==
  \A e \in Exec : call[e].pc # "idle" ~> call[e].pc = "idle"

(***************************************************************************)
(* exec() is a line per project of which only the head is inside: the      *)
(* abstract specification of the keyed mutex, safety and liveness.         *)
(***************************************************************************)
Abstract == INSTANCE SerialRuns
              WITH line <- queue, inside <- {e \in Exec : call[e].pc \in HoldPc}

RefinesSerialRuns == Abstract!Spec

RefinesFairSerialRuns == Abstract!FairSpec
=============================================================================
