------------------------ MODULE SandboxManagerProofs ------------------------
(***************************************************************************)
(* Proofs about SandboxManager, for every value of its constants.          *)
(***************************************************************************)
EXTENDS SandboxManager, FunctionTheorems, FiniteSetTheorems, TLAPS

-----------------------------------------------------------------------------

(***************************************************************************)
(* The strengthening that makes the invariants inductive: a call past the  *)
(* mutex is the head of its project's queue, so two of them never share a  *)
(* project; and what a run holds (record, container, name) is its own.     *)
(***************************************************************************)
HeadHolds ==
  \A e \in Exec : call[e].pc \in HoldPc =>
     /\ queue[call[e].proj] # <<>>
     /\ Head(queue[call[e].proj]) = e

CallsHaveProject == \A e \in Exec : call[e].pc # "idle" => call[e].proj \in Project

RunsHaveRecord == \A e \in Exec : Running(e) => call[e].rec \in Rec

NamesAreRunning ==
  \A e \in Exec : call[e].pc = "running" => call[e].name \in launchedNames

IInv ==
  /\ TypeOK
  /\ CallsHaveProject
  /\ HeadHolds
  /\ RunsHaveRecord
  /\ RunIsCounted
  /\ NamesAreRunning
  /\ RunHasContainer

-----------------------------------------------------------------------------

(***************************************************************************)
(* Calls past the mutex are of different projects.                         *)
(***************************************************************************)
LEMMA HeadsDiffer ==
  ASSUME CallsHaveProject, HeadHolds
  PROVE  RunsSerialised
  BY DEF CallsHaveProject, HeadHolds, RunsSerialised, HoldPc, RunPc

(***************************************************************************)
(* acquire() works on a real record and touches only inflight of the       *)
(* project it acquires, at a record no run of the project refers to.       *)
(***************************************************************************)
LEMMA AcquireTypes ==
  ASSUME TypeOK, NEW p \in Project, CanAcquire(p)
  PROVE  /\ RecordFor(p) \in Rec
         /\ SandboxesAfterAcquire(p) \in [Project -> Rec \cup {NoRec}]
         /\ InflightAfterAcquire(p) \in [Project -> [Rec -> Nat]]
         /\ MovedToEnd(p, Victims(p)) \in [Project -> SUBSET Project]
         /\ OrderAfterAcquire(p) \in [Project -> SUBSET Project]
         /\ ReleasesAfterAcquire(p) \in [Project -> [Slot -> ReleaseState]]
  <1>1. RecordFor(p) \in Rec
    <2>1. CASE p \in Live
      BY <2>1 DEF TypeOK, RecordFor, Live
    <2>2. CASE p \notin Live
      BY <2>2 DEF RecordFor, CanAcquire
    <2>3. QED BY <2>1, <2>2
  <1>2. SandboxesAfterAcquire(p) \in [Project -> Rec \cup {NoRec}]
    BY <1>1 DEF TypeOK, SandboxesAfterAcquire
  <1>3. InflightAfterAcquire(p) \in [Project -> [Rec -> Nat]]
    BY <1>1 DEF TypeOK, InflightAfterAcquire
  <1>4. Victims(p) \subseteq Project
    BY DEF Victims, Evictable, Live
  <1>5. MovedToEnd(p, Victims(p)) \in [Project -> SUBSET Project]
    BY <1>4 DEF TypeOK, MovedToEnd, Live
  <1>6. OrderAfterAcquire(p) \in [Project -> SUBSET Project]
    BY <1>5 DEF TypeOK, OrderAfterAcquire
  <1>7. ReleasesAfterAcquire(p) \in [Project -> [Slot -> ReleaseState]]
    BY DEF TypeOK, ReleasesAfterAcquire, StartedRelease, ReleaseState
  <1>8. QED BY <1>1, <1>2, <1>3, <1>5, <1>6, <1>7

LEMMA AcquireKeepsCounts ==
  ASSUME TypeOK, NEW p \in Project, CanAcquire(p),
         NEW q \in Project, NEW r \in Rec, r \in Referenced(q)
  PROVE  InflightAfterAcquire(p)[q][r] = inflight[q][r]
  <1>1. CASE p \in Live
    BY <1>1 DEF InflightAfterAcquire
  <1>2. CASE p \notin Live
    <2>1. RecordFor(p) \in Rec \ Referenced(p)
      BY <1>2 DEF RecordFor, CanAcquire
    <2>2. QED BY <1>2, <2>1 DEF InflightAfterAcquire, TypeOK
  <1>3. QED BY <1>1, <1>2

\* Counting one more run on a record lowers no count.
LEMMA CountRaised ==
  ASSUME NEW g \in [Project -> [Rec -> Nat]], NEW p \in Project, NEW r \in Rec,
         NEW q \in Project, NEW s \in Rec
  PROVE  [g EXCEPT ![p][r] = @ + 1][q][s] >= g[q][s]
  <1>1. [g EXCEPT ![p][r] = @ + 1][q][s] = IF q = p /\ s = r THEN g[q][s] + 1 ELSE g[q][s]
    OBVIOUS
  <1>2. g[q][s] \in Nat
    OBVIOUS
  <1>3. QED BY <1>1, <1>2

-----------------------------------------------------------------------------

(***************************************************************************)
(* The strengthened invariant, one lemma per group of actions.             *)
(***************************************************************************)
LEMMA InitIInv == Init => IInv
  BY DEF Init, IInv, TypeOK, CallsHaveProject, HeadHolds, RunsHaveRecord,
         RunIsCounted, NamesAreRunning, RunHasContainer, IdleCall, CallState,
         CallPc, HoldPc, RunPc, Running, IdleRelease, ReleaseState, StartedSweep,
         SweepState

(***************************************************************************)
(* Changing a call's stage keeps it a call.                                *)
(***************************************************************************)
LEMMA StageTypes ==
  ASSUME NEW c \in [Exec -> CallState], NEW e \in Exec, NEW pc \in CallPc
  PROVE  [c EXCEPT ![e].pc = pc] \in [Exec -> CallState]
  BY DEF CallState

LEMMA NameTypes ==
  ASSUME NEW c \in [Exec -> CallState], NEW e \in Exec, NEW pc \in CallPc,
         NEW n \in Name \cup {NoName}
  PROVE  [c EXCEPT ![e].pc = pc, ![e].name = n] \in [Exec -> CallState]
  <1>1. ASSUME NEW d \in CallState
        PROVE  [d EXCEPT !.pc = pc, !.name = n] \in CallState
    BY DEF CallState
  <1>2. [c EXCEPT ![e].pc = pc, ![e].name = n]
          = [c EXCEPT ![e] = [c[e] EXCEPT !.pc = pc, !.name = n]]
    OBVIOUS
  <1>3. QED BY <1>1, <1>2

LEMMA RecordTypes ==
  ASSUME NEW c \in [Exec -> CallState], NEW e \in Exec, NEW pc \in CallPc,
         NEW r \in Rec, NEW b \in BOOLEAN
  PROVE  [c EXCEPT ![e].pc = pc, ![e].rec = r, ![e].pre = b] \in [Exec -> CallState]
  <1>1. ASSUME NEW d \in CallState
        PROVE  [d EXCEPT !.pc = pc, !.rec = r, !.pre = b] \in CallState
    BY DEF CallState
  <1>2. [c EXCEPT ![e].pc = pc, ![e].rec = r, ![e].pre = b]
          = [c EXCEPT ![e] = [c[e] EXCEPT !.pc = pc, !.rec = r, !.pre = b]]
    OBVIOUS
  <1>3. QED BY <1>1, <1>2

LEMMA AcquireIInv ==
  ASSUME IInv, NEW p \in Project, Acquire(p)
  PROVE  IInv'
  <1> USE DEF IInv
  <1>1. TypeOK'
    BY AcquireTypes DEF Acquire, TypeOK, runtimeVars, Victims
  <1>2. CallsHaveProject' /\ HeadHolds' /\ RunsHaveRecord'
    BY DEF Acquire, CallsHaveProject, HeadHolds, RunsHaveRecord, Running
  <1>3. RunIsCounted'
    <2> SUFFICES ASSUME NEW e \in Exec, Running(e)
                 PROVE  inflight'[call[e].proj][call[e].rec] > 0
      BY DEF RunIsCounted, Acquire, Running
    <2>1. call[e].proj \in Project /\ call[e].rec \in Rec
      BY DEF CallsHaveProject, RunsHaveRecord, Running, RunPc
    <2>2. call[e].rec \in Referenced(call[e].proj)
      BY DEF Referenced
    <2>3. CanAcquire(p) /\ inflight' = InflightAfterAcquire(p)
      BY DEF Acquire
    <2>4. inflight'[call[e].proj][call[e].rec] = inflight[call[e].proj][call[e].rec]
      BY <2>1, <2>2, <2>3, AcquireKeepsCounts
    <2>5. QED BY <2>4 DEF RunIsCounted
  <1>4. NamesAreRunning' /\ RunHasContainer'
    BY DEF Acquire, NamesAreRunning, RunHasContainer, runtimeVars
  <1>5. QED BY <1>1, <1>2, <1>3, <1>4

LEMMA ExecCallIInv ==
  ASSUME IInv, NEW e \in Exec, NEW p \in Project, ExecCall(e, p)
  PROVE  IInv'
  <1> USE DEF IInv
  <1>1. TypeOK'
    <2>1. [IdleCall EXCEPT !.pc = "queued", !.proj = p] \in CallState
      BY DEF IdleCall, CallState, CallPc
    <2>2. call' \in [Exec -> CallState]
      BY <2>1 DEF ExecCall, TypeOK
    <2>3. queue' \in [Project -> Seq(Exec)]
      BY DEF ExecCall, TypeOK
    <2>4. QED BY <2>2, <2>3 DEF ExecCall, TypeOK, managerVars, runtimeVars
  <1>2. \A f \in Exec : f # e => call'[f] = call[f]
    BY DEF ExecCall, TypeOK
  <1>3. call'[e].pc = "queued" /\ call'[e].proj = p
    BY DEF ExecCall, TypeOK, IdleCall
  <1>4. CallsHaveProject' /\ RunsHaveRecord' /\ RunIsCounted'
    BY <1>2, <1>3 DEF CallsHaveProject, RunsHaveRecord, RunIsCounted, ExecCall,
                      managerVars, Running, RunPc
  <1>5. HeadHolds'
    <2> SUFFICES ASSUME NEW f \in Exec, call'[f].pc \in HoldPc
                 PROVE  queue'[call'[f].proj] # <<>> /\ Head(queue'[call'[f].proj]) = f
      BY DEF HeadHolds
    <2>1. f # e /\ call'[f] = call[f]
      BY <1>2, <1>3 DEF HoldPc, RunPc
    <2>2. queue[call[f].proj] # <<>> /\ Head(queue[call[f].proj]) = f
      BY <2>1 DEF HeadHolds
    <2>3. call[f].proj \in Project
      BY <2>1 DEF CallsHaveProject, HoldPc, RunPc
    <2>4. queue[call[f].proj] \in Seq(Exec)
      BY <2>3 DEF TypeOK
    <2>5. Append(queue[call[f].proj], e) # <<>> /\ Head(Append(queue[call[f].proj], e)) = f
      BY <2>2, <2>4
    <2>6. queue'[call[f].proj] = queue[call[f].proj]
            \/ queue'[call[f].proj] = Append(queue[call[f].proj], e)
      BY <2>3 DEF ExecCall, TypeOK
    <2>7. QED BY <2>1, <2>2, <2>5, <2>6
  <1>6. NamesAreRunning' /\ RunHasContainer'
    BY <1>2, <1>3 DEF NamesAreRunning, RunHasContainer, ExecCall, runtimeVars
  <1>7. QED BY <1>1, <1>4, <1>5, <1>6

(***************************************************************************)
(* Settling takes the head off the queue of a call that holds the mutex:   *)
(* the calls of the other projects keep theirs.                            *)
(***************************************************************************)
LEMMA SettleKeeps ==
  ASSUME TypeOK, CallsHaveProject, HeadHolds, NEW e \in Exec,
         call[e].pc # "idle", HoldsMutex(e), Settle(e)
  PROVE  /\ queue' \in [Project -> Seq(Exec)]
         /\ call' \in [Exec -> CallState]
         /\ \A f \in Exec : f # e => call'[f] = call[f]
         /\ call'[e] = IdleCall
         /\ CallsHaveProject'
         /\ HeadHolds'
  <1>1. queue' \in [Project -> Seq(Exec)]
    BY DEF TypeOK, Settle, HoldsMutex, CallsHaveProject
  <1>2. call' \in [Exec -> CallState]
    BY DEF TypeOK, Settle, IdleCall, CallState, CallPc
  <1>3. \A f \in Exec : f # e => call'[f] = call[f]
    BY DEF TypeOK, Settle
  <1>4. call'[e] = IdleCall
    BY DEF TypeOK, Settle
  <1>5. CallsHaveProject'
    BY <1>3, <1>4 DEF CallsHaveProject, IdleCall
  <1>6. HeadHolds'
    BY <1>3, <1>4 DEF HeadHolds, HoldsMutex, Settle, TypeOK, CallsHaveProject,
                      IdleCall, HoldPc, RunPc
  <1>7. QED BY <1>1, <1>2, <1>3, <1>4, <1>5, <1>6

LEMMA ExecStartIInv ==
  ASSUME IInv, NEW e \in Exec, ExecStart(e)
  PROVE  IInv'
  <1> USE DEF IInv
  <1> DEFINE p == call[e].proj
  <1>1. p \in Project /\ CanAcquire(p) /\ HoldsMutex(e)
    BY DEF ExecStart, CallsHaveProject, Enter
  <1>2. RecordFor(p) \in Rec
    BY <1>1, AcquireTypes
  <1>3. \A f \in Exec : f # e => call'[f] = call[f]
    BY DEF ExecStart, TypeOK
  <1>4. call'[e] = [call[e] EXCEPT !.pc = "launching", !.rec = RecordFor(p),
                                  !.pre = p \in Live]
    BY DEF ExecStart, TypeOK
  <1>5. call'[e].pc = "launching" /\ call'[e].proj = p /\ call'[e].rec = RecordFor(p)
        /\ call'[e].name = call[e].name
    BY <1>4 DEF TypeOK, CallState
  <1>6. TypeOK'
    <2>1. call' \in [Exec -> CallState]
      <3>1. (p \in Live) \in BOOLEAN /\ "launching" \in CallPc
        BY DEF CallPc
      <3>2. call \in [Exec -> CallState]
        BY DEF TypeOK
      <3>3. [call EXCEPT ![e].pc = "launching", ![e].rec = RecordFor(p),
                         ![e].pre = p \in Live] \in [Exec -> CallState]
        BY <1>2, <3>1, <3>2, RecordTypes
      <3>4. QED BY <3>3 DEF ExecStart
    <2>2. [InflightAfterAcquire(p) EXCEPT ![p][RecordFor(p)] = @ + 1]
             \in [Project -> [Rec -> Nat]]
      BY <1>1, <1>2, AcquireTypes
    <2>3. held' \subseteq Project
      BY DEF ExecStart, Enter, TypeOK
    <2>4. QED BY <1>1, <2>1, <2>2, <2>3, AcquireTypes
              DEF ExecStart, Enter, TypeOK, runtimeVars
  <1>7. CallsHaveProject' /\ RunsHaveRecord'
    BY <1>1, <1>2, <1>3, <1>5 DEF CallsHaveProject, RunsHaveRecord, Running
  <1>8. HeadHolds'
    BY <1>1, <1>3, <1>5 DEF HeadHolds, ExecStart, HoldsMutex
  <1>9. RunIsCounted'
    <2> SUFFICES ASSUME NEW f \in Exec, Running(f)'
                 PROVE  inflight'[call'[f].proj][call'[f].rec] > 0
      BY DEF RunIsCounted, Running
    <2>0. inflight' = [InflightAfterAcquire(p) EXCEPT ![p][RecordFor(p)] = @ + 1]
          /\ InflightAfterAcquire(p) \in [Project -> [Rec -> Nat]]
      BY <1>1, AcquireTypes DEF ExecStart, Enter
    <2>1. CASE f = e
      BY <2>0, <2>1, <1>1, <1>2, <1>5
    <2>2. CASE f # e
      <3>1. Running(f) /\ call[f].proj \in Project /\ call[f].rec \in Rec
        BY <2>2, <1>3 DEF Running, CallsHaveProject, RunsHaveRecord, RunPc
      <3>2. call[f].rec \in Referenced(call[f].proj)
        BY DEF Referenced
      <3>3. inflight'[call[f].proj][call[f].rec] >= inflight[call[f].proj][call[f].rec]
        <4>1. InflightAfterAcquire(p)[call[f].proj][call[f].rec]
                = inflight[call[f].proj][call[f].rec]
          BY <3>1, <3>2, <1>1, AcquireKeepsCounts
        <4>2. QED BY <4>1, <3>1, <2>0, <1>1, <1>2, CountRaised
      <3>4. inflight[call[f].proj][call[f].rec] \in Nat
            /\ inflight'[call[f].proj][call[f].rec] \in Nat
        BY <3>1, <1>6 DEF TypeOK
      <3>5. inflight[call[f].proj][call[f].rec] > 0
        BY <3>1 DEF RunIsCounted
      <3>6. QED BY <3>3, <3>4, <3>5, <2>2, <1>3
    <2>3. QED BY <2>1, <2>2
  <1>10. NamesAreRunning' /\ RunHasContainer'
    <2>1. containers' = containers /\ launchedNames' = launchedNames
      BY DEF ExecStart, Enter, runtimeVars
    <2>2. QED BY <2>1, <1>3, <1>5 DEF NamesAreRunning, RunHasContainer
  <1>11. QED BY <1>6, <1>7, <1>8, <1>9, <1>10

LEMMA ExecThrowsIInv ==
  ASSUME IInv, NEW e \in Exec, ExecThrows(e)
  PROVE  IInv'
  <1> USE DEF IInv
  <1> DEFINE p == call[e].proj
  <1>1. p \in Project /\ CanAcquire(p) /\ HoldsMutex(e) /\ Settle(e) /\ call[e].pc # "idle"
    BY DEF ExecThrows, CallsHaveProject, Enter
  <1>2. RecordFor(p) \in Rec
    BY <1>1, AcquireTypes
  <1>3. /\ queue' \in [Project -> Seq(Exec)]
        /\ call' \in [Exec -> CallState]
        /\ \A f \in Exec : f # e => call'[f] = call[f]
        /\ call'[e] = IdleCall
        /\ CallsHaveProject' /\ HeadHolds'
    BY <1>1, SettleKeeps
  <1>4. TypeOK'
    <2>1. [InflightAfterAcquire(p) EXCEPT ![p][RecordFor(p)] = @ + 1]
             \in [Project -> [Rec -> Nat]]
      BY <1>1, <1>2, AcquireTypes
    <2>2. held' \subseteq Project
      BY DEF ExecThrows, Enter, TypeOK
    <2>3. QED BY <1>1, <1>3, <2>1, <2>2, AcquireTypes
              DEF ExecThrows, Enter, TypeOK, runtimeVars
  <1>5. RunsHaveRecord'
    BY <1>3 DEF RunsHaveRecord, Running, IdleCall, RunPc
  <1>6. RunIsCounted'
    <2> SUFFICES ASSUME NEW f \in Exec, Running(f)'
                 PROVE  inflight'[call'[f].proj][call'[f].rec] > 0
      BY DEF RunIsCounted, Running
    <2>1. f # e /\ call'[f] = call[f]
      BY <1>3 DEF Running, IdleCall, RunPc
    <2>2. Running(f) /\ call[f].proj \in Project /\ call[f].rec \in Rec
      BY <2>1 DEF Running, CallsHaveProject, RunsHaveRecord, RunPc
    <2>3. call[f].rec \in Referenced(call[f].proj)
      BY DEF Referenced
    <2>4. inflight' = [InflightAfterAcquire(p) EXCEPT ![p][RecordFor(p)] = @ + 1]
          /\ InflightAfterAcquire(p) \in [Project -> [Rec -> Nat]]
      BY <1>1, AcquireTypes DEF ExecThrows, Enter
    <2>5. inflight'[call[f].proj][call[f].rec] >= inflight[call[f].proj][call[f].rec]
      <3>1. InflightAfterAcquire(p)[call[f].proj][call[f].rec]
              = inflight[call[f].proj][call[f].rec]
        BY <2>2, <2>3, <1>1, AcquireKeepsCounts
      <3>2. QED BY <3>1, <2>2, <2>4, <1>1, <1>2, CountRaised
    <2>6. inflight[call[f].proj][call[f].rec] \in Nat
          /\ inflight'[call[f].proj][call[f].rec] \in Nat
      BY <2>2, <1>4 DEF TypeOK
    <2>7. inflight[call[f].proj][call[f].rec] > 0
      BY <2>2 DEF RunIsCounted
    <2>8. QED BY <2>1, <2>5, <2>6, <2>7
  <1>7. NamesAreRunning' /\ RunHasContainer'
    <2>1. containers' = containers /\ launchedNames' = launchedNames
      BY DEF ExecThrows, Enter, runtimeVars
    <2>2. QED BY <2>1, <1>3 DEF NamesAreRunning, RunHasContainer, IdleCall
  <1>8. QED BY <1>3, <1>4, <1>5, <1>6, <1>7

(***************************************************************************)
(* The steps of a run that touch neither the Map nor the mutex.            *)
(***************************************************************************)
LEMMA LaunchIInv ==
  ASSUME IInv, NEW e \in Exec, Launch(e)
  PROVE  IInv'
  <1> USE DEF IInv
  <1>1. PICK n \in Name \ Existing :
          /\ call' = [call EXCEPT ![e].pc = "running", ![e].name = n]
          /\ containers' = [containers EXCEPT ![n] = call[e].proj]
          /\ launchedNames' = launchedNames \cup {n}
    BY DEF Launch
  <1>2. /\ \A f \in Exec : f # e => call'[f] = call[f]
        /\ call'[e].pc = "running" /\ call'[e].name = n
        /\ call'[e].proj = call[e].proj /\ call'[e].rec = call[e].rec
    <2>1. call \in [Exec -> CallState]
      BY DEF TypeOK
    <2>2. QED BY <2>1, <1>1 DEF CallState
  <1>3. call[e].pc = "launching" /\ call[e].proj \in Project
    BY DEF Launch, CallsHaveProject
  <1>4. UNCHANGED <<sandboxes, older, inflight, queue, rel, sweep, held>>
    BY DEF Launch, managerVars
  <1>5. TypeOK'
    <2>1. call' \in [Exec -> CallState]
      BY <1>1, NameTypes DEF TypeOK, CallPc
    <2>2. containers' \in [Name -> Project \cup {NoProject}]
      BY <1>1, <1>3 DEF TypeOK
    <2>3. QED BY <2>1, <2>2, <1>1, <1>4 DEF TypeOK
  <1>6. CallsHaveProject' /\ RunsHaveRecord' /\ RunIsCounted' /\ HeadHolds'
    BY <1>2, <1>3, <1>4 DEF CallsHaveProject, RunsHaveRecord, RunIsCounted,
                            HeadHolds, Running, RunPc, HoldPc
  <1>7. NamesAreRunning'
    <2> SUFFICES ASSUME NEW f \in Exec, call'[f].pc = "running"
                 PROVE  call'[f].name \in launchedNames'
      BY DEF NamesAreRunning
    <2>1. CASE f = e
      BY <2>1, <1>1, <1>2
    <2>2. CASE f # e
      <3>1. call'[f] = call[f]
        BY <2>2, <1>2
      <3>2. call[f].name \in launchedNames
        BY <3>1 DEF NamesAreRunning
      <3>3. QED BY <3>1, <3>2, <1>1
    <2>3. QED BY <2>1, <2>2
  <1>8. RunHasContainer'
    <2> SUFFICES ASSUME NEW f \in Exec, call'[f].pc = "running"
                 PROVE  call'[f].name \in Name
                        /\ containers'[call'[f].name] = call'[f].proj
      BY DEF RunHasContainer
    <2>1. CASE f = e
      BY <2>1, <1>1, <1>2 DEF TypeOK
    <2>2. CASE f # e
      <3>1. /\ call'[f] = call[f] /\ call[f].pc = "running"
            /\ call[f].name \in Name /\ containers[call[f].name] = call[f].proj
        BY <2>2, <1>2 DEF RunHasContainer
      <3>2. call[f].name # n
        BY <3>1, NoneAssumption DEF Existing, CallsHaveProject
      <3>3. QED BY <3>1, <3>2, <1>1 DEF TypeOK
    <2>3. QED BY <2>1, <2>2
  <1>9. QED BY <1>5, <1>6, <1>7, <1>8

LEMMA LaunchFailsIInv ==
  ASSUME IInv, NEW e \in Exec, LaunchFails(e)
  PROVE  IInv'
  <1> USE DEF IInv
  <1>1. /\ \A f \in Exec : f # e => call'[f] = call[f]
        /\ call'[e].pc = "returned" /\ call[e].pc = "launching"
        /\ call'[e].proj = call[e].proj /\ call'[e].rec = call[e].rec
    BY DEF TypeOK, CallState, LaunchFails
  <1>2. UNCHANGED <<sandboxes, older, inflight, queue, rel, containers,
                    launchedNames, sweep, held>>
    BY DEF LaunchFails, managerVars, runtimeVars
  <1>3. TypeOK'
    <2>1. call' \in [Exec -> CallState]
      BY StageTypes DEF LaunchFails, TypeOK, CallPc
    <2>2. QED BY <2>1, <1>2 DEF TypeOK
  <1>4. CallsHaveProject' /\ RunsHaveRecord' /\ RunIsCounted' /\ HeadHolds'
    BY <1>1, <1>2 DEF CallsHaveProject, RunsHaveRecord, RunIsCounted,
                      HeadHolds, Running, RunPc, HoldPc
  <1>5. NamesAreRunning' /\ RunHasContainer'
    BY <1>1, <1>2 DEF NamesAreRunning, RunHasContainer
  <1>6. QED BY <1>3, <1>4, <1>5

LEMMA RunEndsIInv ==
  ASSUME IInv, NEW e \in Exec, RunOver(e) \/ RunTimesOut(e)
  PROVE  IInv'
  <1> USE DEF IInv
  <1>1. /\ \A f \in Exec : f # e => call'[f] = call[f]
        /\ call'[e].pc = "returned" /\ call[e].pc = "running"
        /\ call'[e].proj = call[e].proj /\ call'[e].rec = call[e].rec
    BY DEF TypeOK, CallState, RunOver, RunTimesOut
  <1>2. UNCHANGED <<sandboxes, older, inflight, queue, rel, launchedNames, sweep, held>>
    BY DEF RunOver, RunTimesOut, managerVars, runtimeVars
  <1>3. \/ containers' = containers
        \/ containers' = [containers EXCEPT ![call[e].name] = NoProject]
    BY DEF RunOver, RunTimesOut, runtimeVars
  <1>4. TypeOK'
    <2>1. call' \in [Exec -> CallState]
      <3>1. call' = [call EXCEPT ![e].pc = "returned", ![e].name = NoName]
        BY DEF RunOver, RunTimesOut
      <3>2. QED BY <3>1, NameTypes DEF TypeOK, CallPc
    <2>2. containers' \in [Name -> Project \cup {NoProject}]
      BY <1>3 DEF TypeOK
    <2>3. QED BY <2>1, <2>2, <1>2 DEF TypeOK
  <1>5. CallsHaveProject' /\ RunsHaveRecord' /\ RunIsCounted' /\ HeadHolds'
    BY <1>1, <1>2 DEF CallsHaveProject, RunsHaveRecord, RunIsCounted,
                      HeadHolds, Running, RunPc, HoldPc
  <1>6. NamesAreRunning'
    BY <1>1, <1>2 DEF NamesAreRunning
  <1>7. RunHasContainer'
    <2> SUFFICES ASSUME NEW f \in Exec, call'[f].pc = "running"
                 PROVE  call'[f].name \in Name
                        /\ containers'[call'[f].name] = call'[f].proj
      BY DEF RunHasContainer
    <2>1. f # e /\ call'[f] = call[f] /\ call[f].pc = "running"
      BY <1>1
    <2>2. call[f].name \in Name /\ containers[call[f].name] = call[f].proj
      BY <2>1 DEF RunHasContainer
    <2>3. call[e].name \in Name /\ containers[call[e].name] = call[e].proj
      BY <1>1 DEF RunHasContainer
    <2>4. call[f].proj # call[e].proj
      BY <1>1, <2>1, HeadsDiffer DEF RunsSerialised, HoldPc, RunPc
    <2>5. call[f].name # call[e].name
      BY <2>2, <2>3, <2>4
    <2>6. QED BY <2>1, <2>2, <2>5, <1>3 DEF TypeOK
  <1>8. QED BY <1>4, <1>5, <1>6, <1>7

(***************************************************************************)
(* The finally block uncounts the run on the record of its own project.    *)
(***************************************************************************)
LEMMA UncountKeeps ==
  ASSUME TypeOK, CallsHaveProject, RunsHaveRecord, NEW e \in Exec, Running(e)
  PROVE  /\ Uncounted(e) \in [Project -> [Rec -> Nat]]
         /\ \A p \in Project : p # call[e].proj => Uncounted(e)[p] = inflight[p]
  <1>1. call[e].proj \in Project /\ call[e].rec \in Rec
    BY DEF CallsHaveProject, RunsHaveRecord, Running, RunPc
  <1>2. QED BY <1>1 DEF TypeOK, Uncounted

LEMMA ExecReturnsIInv ==
  ASSUME IInv, NEW e \in Exec, ExecReturns(e)
  PROVE  IInv'
  <1> USE DEF IInv
  <1>1. call[e].pc = "returned" /\ Running(e) /\ HoldsMutex(e) /\ Settle(e)
    BY DEF ExecReturns, HeadHolds, HoldsMutex, HoldPc, RunPc, Running
  <1>2. inflight' = Uncounted(e) /\ UNCHANGED <<sandboxes, older, rel, containers,
                                                launchedNames, sweep, held>>
    BY DEF ExecReturns, runtimeVars
  <1>3. /\ queue' \in [Project -> Seq(Exec)]
        /\ call' \in [Exec -> CallState]
        /\ \A f \in Exec : f # e => call'[f] = call[f]
        /\ call'[e] = IdleCall
        /\ CallsHaveProject' /\ HeadHolds'
    BY <1>1, SettleKeeps
  <1>4. Uncounted(e) \in [Project -> [Rec -> Nat]]
        /\ \A p \in Project : p # call[e].proj => Uncounted(e)[p] = inflight[p]
    BY <1>1, UncountKeeps
  <1>5. TypeOK'
    BY <1>2, <1>3, <1>4 DEF TypeOK
  <1>6. RunsHaveRecord' /\ NamesAreRunning' /\ RunHasContainer'
    <2>1. \A f \in Exec : call'[f].pc # "idle" => call'[f] = call[f]
      BY <1>3 DEF IdleCall
    <2>2. RunsHaveRecord' /\ NamesAreRunning'
      BY <1>2, <2>1 DEF RunsHaveRecord, NamesAreRunning, Running, RunPc
    <2>3. RunHasContainer'
      BY <1>2, <2>1 DEF RunHasContainer
    <2>4. QED BY <2>2, <2>3
  <1>7. RunIsCounted'
    <2> SUFFICES ASSUME NEW f \in Exec, Running(f)'
                 PROVE  inflight'[call'[f].proj][call'[f].rec] > 0
      BY DEF RunIsCounted, Running
    <2>1. f # e /\ call'[f] = call[f] /\ Running(f)
      BY <1>3 DEF Running, IdleCall, RunPc
    <2>2. call[f].proj # call[e].proj /\ call[f].proj \in Project
      BY <1>1, <2>1, HeadsDiffer
         DEF RunsSerialised, CallsHaveProject, Running, HoldPc, RunPc
    <2>3. QED BY <2>1, <2>2, <1>2, <1>4 DEF RunIsCounted
  <1>8. QED BY <1>3, <1>5, <1>6, <1>7

LEMMA ExecAutoReleasesIInv ==
  ASSUME IInv, NEW e \in Exec, ExecAutoReleases(e)
  PROVE  IInv'
  <1> USE DEF IInv
  <1>1. call[e].pc = "returned" /\ Running(e) /\ call[e].proj \in Project
    BY DEF ExecAutoReleases, Running, RunPc, CallsHaveProject
  <1>2. inflight' = Uncounted(e) /\ UNCHANGED <<sandboxes, older, queue, containers,
                                                launchedNames, sweep, held>>
    BY DEF ExecAutoReleases, runtimeVars
  <1>3. /\ \A f \in Exec : f # e => call'[f] = call[f]
        /\ call'[e].pc = "releasing" /\ call'[e].proj = call[e].proj
    BY DEF ExecAutoReleases, TypeOK, CallState
  <1>4. Uncounted(e) \in [Project -> [Rec -> Nat]]
        /\ \A p \in Project : p # call[e].proj => Uncounted(e)[p] = inflight[p]
    BY <1>1, UncountKeeps
  <1>5. TypeOK'
    <2>1. call' \in [Exec -> CallState]
      BY StageTypes DEF ExecAutoReleases, TypeOK, CallPc
    <2>2. rel' \in [Project -> [Slot -> ReleaseState]]
      BY DEF ExecAutoReleases, TypeOK, StartedRelease, ReleaseState
    <2>3. QED BY <2>1, <2>2, <1>2, <1>4 DEF TypeOK
  <1>6. CallsHaveProject' /\ HeadHolds'
    BY <1>1, <1>2, <1>3 DEF CallsHaveProject, HeadHolds, HoldPc, RunPc
  <1>7. RunsHaveRecord' /\ NamesAreRunning' /\ RunHasContainer'
    BY <1>2, <1>3 DEF RunsHaveRecord, NamesAreRunning, RunHasContainer, Running, RunPc
  <1>8. RunIsCounted'
    <2> SUFFICES ASSUME NEW f \in Exec, Running(f)'
                 PROVE  inflight'[call'[f].proj][call'[f].rec] > 0
      BY DEF RunIsCounted, Running
    <2>1. f # e /\ call'[f] = call[f] /\ Running(f)
      BY <1>3 DEF Running, RunPc
    <2>2. call[f].proj # call[e].proj /\ call[f].proj \in Project
      BY <1>1, <2>1, HeadsDiffer
         DEF RunsSerialised, CallsHaveProject, Running, HoldPc, RunPc
    <2>3. QED BY <2>1, <2>2, <1>2, <1>4 DEF RunIsCounted
  <1>9. QED BY <1>5, <1>6, <1>7, <1>8

LEMMA ExecReleasedIInv ==
  ASSUME IInv, NEW e \in Exec, ExecReleased(e)
  PROVE  IInv'
  <1> USE DEF IInv
  <1>1. call[e].pc = "releasing" /\ HoldsMutex(e) /\ Settle(e)
    BY DEF ExecReleased, HeadHolds, HoldsMutex, HoldPc
  <1>2. UNCHANGED <<sandboxes, older, inflight, rel, containers, launchedNames, sweep, held>>
    BY DEF ExecReleased, managerVars, runtimeVars
  <1>3. /\ queue' \in [Project -> Seq(Exec)]
        /\ call' \in [Exec -> CallState]
        /\ \A f \in Exec : f # e => call'[f] = call[f]
        /\ call'[e] = IdleCall
        /\ CallsHaveProject' /\ HeadHolds'
    BY <1>1, SettleKeeps
  <1>4. TypeOK'
    BY <1>2, <1>3 DEF TypeOK
  <1>5. RunsHaveRecord' /\ NamesAreRunning' /\ RunHasContainer' /\ RunIsCounted'
    <2>1. \A f \in Exec : call'[f].pc # "idle" => call'[f] = call[f]
      BY <1>3 DEF IdleCall
    <2>2. RunsHaveRecord' /\ NamesAreRunning' /\ RunIsCounted'
      BY <1>2, <2>1 DEF RunsHaveRecord, NamesAreRunning, RunIsCounted, Running, RunPc
    <2>3. RunHasContainer'
      BY <1>2, <2>1 DEF RunHasContainer
    <2>4. QED BY <2>2, <2>3
  <1>6. QED BY <1>3, <1>4, <1>5

(***************************************************************************)
(* A release leaves the calls and the counts alone, and what it removes    *)
(* from the runtime was not launched by this process.                      *)
(***************************************************************************)
LEMMA ReleaseIInv ==
  ASSUME IInv, NEW p \in Project,
         Release(p) \/ \E s \in Slot : ReleaseLists(p, s)
  PROVE  IInv'
  <1> USE DEF IInv
  <1>1. UNCHANGED <<sandboxes, older, inflight, queue, call, containers, launchedNames, sweep>>
    BY DEF Release, ReleaseLists, managerVars, runtimeVars
  <1>2. held' \subseteq Project
    BY DEF Release, ReleaseLists, TypeOK
  <1>3. rel' \in [Project -> [Slot -> ReleaseState]]
    <2>1. CASE Release(p)
      <3>1. PICK s \in FreeSlots(p, CallSlot) : rel' = [rel EXCEPT ![p][s] = StartedRelease]
        BY <2>1 DEF Release
      <3>2. StartedRelease \in ReleaseState
        BY DEF StartedRelease, ReleaseState
      <3>3. QED BY <3>1, <3>2 DEF TypeOK
    <2>2. ASSUME NEW s \in Slot, ReleaseLists(p, s)
          PROVE  rel' \in [Project -> [Slot -> ReleaseState]]
      <3>1. PICK listed \in {{}, {n \in Name : containers[n] = p}} :
              rel' = [rel EXCEPT ![p][s] = [pc |-> "sweeping", listed |-> listed]]
        BY <2>2 DEF ReleaseLists
      <3>2. [pc |-> "sweeping", listed |-> listed] \in ReleaseState
        BY DEF ReleaseState
      <3>3. QED BY <3>1, <3>2 DEF TypeOK
    <2>3. QED BY <2>1, <2>2
  <1>4. TypeOK'
    BY <1>1, <1>2, <1>3 DEF TypeOK
  <1>5. QED BY <1>1, <1>4 DEF CallsHaveProject, HeadHolds, RunsHaveRecord,
                RunIsCounted, NamesAreRunning, RunHasContainer, Running

LEMMA ReleaseEndsIInv ==
  ASSUME IInv, NEW p \in Project, NEW s \in Slot, ReleaseEnds(p, s)
  PROVE  IInv'
  <1> USE DEF IInv
  <1>1. UNCHANGED <<inflight, queue, call, launchedNames, sweep, held>>
    BY DEF ReleaseEnds
  <1>2. containers' = [n \in Name |-> IF n \in Reapable(rel[p][s].listed) THEN NoProject
                                                                         ELSE containers[n]]
    BY DEF ReleaseEnds
  <1>3. TypeOK'
    <2>1. rel' \in [Project -> [Slot -> ReleaseState]]
      BY DEF ReleaseEnds, TypeOK, IdleRelease, ReleaseState
    <2>2. sandboxes' \in [Project -> Rec \cup {NoRec}]
      BY DEF ReleaseEnds, TypeOK
    <2>3. older' \in [Project -> SUBSET Project]
      BY DEF ReleaseEnds, Dropped, TypeOK
    <2>4. containers' \in [Name -> Project \cup {NoProject}]
      BY <1>2 DEF TypeOK
    <2>5. QED BY <2>1, <2>2, <2>3, <2>4, <1>1 DEF TypeOK
  <1>4. RunHasContainer'
    BY <1>1, <1>2 DEF RunHasContainer, NamesAreRunning, Reapable
  <1>5. QED BY <1>1, <1>3, <1>4 DEF CallsHaveProject, HeadHolds, RunsHaveRecord,
                RunIsCounted, NamesAreRunning, Running

LEMMA ContainerEndsIInv ==
  ASSUME IInv, NEW n \in Name, ContainerEnds(n)
  PROVE  IInv'
  <1> USE DEF IInv
  <1>1. UNCHANGED <<sandboxes, older, inflight, queue, call, rel, launchedNames, sweep, held>>
    BY DEF ContainerEnds, managerVars
  <1>2. containers' = [containers EXCEPT ![n] = NoProject]
        /\ \A e \in Exec : call[e].name # n
    BY DEF ContainerEnds
  <1>3. TypeOK'
    BY <1>1, <1>2 DEF TypeOK
  <1>4. RunHasContainer'
    BY <1>1, <1>2 DEF RunHasContainer, TypeOK
  <1>5. QED BY <1>1, <1>3, <1>4 DEF CallsHaveProject, HeadHolds, RunsHaveRecord,
                RunIsCounted, NamesAreRunning, Running

LEMMA SweepIInv ==
  ASSUME IInv, SweepLists \/ \E n \in Name : SweepRemoves(n)
  PROVE  IInv'
  <1> USE DEF IInv
  <1>1. UNCHANGED <<sandboxes, older, inflight, queue, call, rel, launchedNames, held>>
    BY DEF SweepLists, SweepRemoves, managerVars
  <1>2. /\ sweep' \in SweepState
        /\ containers' \in [Name -> Project \cup {NoProject}]
        /\ \A m \in Name : m \in launchedNames => containers'[m] = containers[m]
    <2>1. CASE SweepLists
      <3>1. PICK listed \in {{}, Existing} : sweep' = [pc |-> "listed", listed |-> listed]
        BY <2>1 DEF SweepLists
      <3>2. listed \subseteq Name
        BY <3>1 DEF Existing
      <3>3. QED BY <2>1, <3>1, <3>2 DEF SweepLists, SweepState, TypeOK
    <2>2. ASSUME NEW n \in Name, SweepRemoves(n)
          PROVE  /\ sweep' \in SweepState
                 /\ containers' \in [Name -> Project \cup {NoProject}]
                 /\ \A m \in Name : m \in launchedNames => containers'[m] = containers[m]
      <3>1. sweep' \in SweepState
        BY <2>2 DEF SweepRemoves, SweepState, TypeOK
      <3>2. \/ containers' = [m \in Name |-> IF m \in Reapable({n}) THEN NoProject
                                                                  ELSE containers[m]]
            \/ containers' = containers
        BY <2>2 DEF SweepRemoves
      <3>3. QED BY <3>1, <3>2 DEF Reapable, TypeOK
    <2>3. QED BY <2>1, <2>2
  <1>3. TypeOK'
    BY <1>1, <1>2 DEF TypeOK
  <1>4. RunHasContainer'
    BY <1>1, <1>2 DEF RunHasContainer, NamesAreRunning
  <1>5. QED BY <1>1, <1>3, <1>4 DEF CallsHaveProject, HeadHolds, RunsHaveRecord,
                RunIsCounted, NamesAreRunning, Running

LEMMA RestartIInv ==
  ASSUME IInv, Restart
  PROVE  IInv'
  <1>1. TypeOK'
    BY DEF IInv, Restart, TypeOK, IdleCall, CallState, CallPc, IdleRelease, ReleaseState,
           StartedSweep, SweepState
  <1>2. QED BY <1>1 DEF IInv, Restart, CallsHaveProject, HeadHolds, RunsHaveRecord,
               RunIsCounted, NamesAreRunning, RunHasContainer, IdleCall, HoldPc, RunPc,
               Running

LEMMA NextIInv == IInv /\ [Next]_vars => IInv'
  <1> SUFFICES ASSUME IInv, [Next]_vars
               PROVE  IInv'
    OBVIOUS
  <1>1. ASSUME NEW p \in Project, Acquire(p)
        PROVE  IInv'
    BY <1>1, AcquireIInv
  <1>2. ASSUME NEW p \in Project, Release(p)
        PROVE  IInv'
    BY <1>2, ReleaseIInv
  <1>3. ASSUME NEW e \in Exec, NEW p \in Project, ExecCall(e, p)
        PROVE  IInv'
    BY <1>3, ExecCallIInv
  <1>4. ASSUME NEW e \in Exec, ExecStep(e)
        PROVE  IInv'
    BY <1>4, ExecStartIInv, ExecThrowsIInv, LaunchIInv, LaunchFailsIInv, RunEndsIInv,
       ExecReturnsIInv, ExecAutoReleasesIInv, ExecReleasedIInv DEF ExecStep
  <1>5. ASSUME NEW p \in Project, NEW s \in Slot, ReleaseStep(p, s)
        PROVE  IInv'
    BY <1>5, ReleaseIInv, ReleaseEndsIInv DEF ReleaseStep
  <1>6. CASE RuntimeStep
    BY <1>6, ContainerEndsIInv, SweepIInv DEF RuntimeStep
  <1>7. CASE Restart
    BY <1>7, RestartIInv
  <1>8. CASE UNCHANGED vars
    BY <1>8 DEF vars, IInv, TypeOK, CallsHaveProject, HeadHolds, RunsHaveRecord,
                RunIsCounted, NamesAreRunning, RunHasContainer, Running
  <1>9. QED BY <1>1, <1>2, <1>3, <1>4, <1>5, <1>6, <1>7, <1>8 DEF Next

LEMMA Inductive == Spec => []IInv
  BY InitIInv, NextIInv, PTL DEF Spec

-----------------------------------------------------------------------------

(***************************************************************************)
(* Every variable keeps its type.                                          *)
(***************************************************************************)
THEOREM TypeCorrect == Spec => []TypeOK
  <1>1. IInv => TypeOK
    BY DEF IInv
  <1>2. QED BY <1>1, Inductive, PTL

(***************************************************************************)
(* Runs of one project never overlap (execMutex).                          *)
(***************************************************************************)
THEOREM Serialised == Spec => []RunsSerialised
  <1>1. IInv => RunsSerialised
    BY HeadsDiffer DEF IInv
  <1>2. QED BY <1>1, Inductive, PTL

(***************************************************************************)
(* A run in flight is counted on its record.                               *)
(***************************************************************************)
THEOREM Counted == Spec => []RunIsCounted
  <1>1. IInv => RunIsCounted
    BY DEF IInv
  <1>2. QED BY <1>1, Inductive, PTL

(***************************************************************************)
(* No release, however late, and no startup sweep reaps the container of a *)
(* running command.                                                        *)
(***************************************************************************)
THEOREM ReapSparesRuns == Spec => []RunHasContainer
  <1>1. IInv => RunHasContainer
    BY DEF IInv
  <1>2. QED BY <1>1, Inductive, PTL

(***************************************************************************)
(* Making room never takes the entry of a live run.                        *)
(***************************************************************************)
LEMMA AcquireSparesRuns ==
  ASSUME IInv, NEW p \in Project, NEW e \in Exec, Running(e),
         sandboxes[call[e].proj] = call[e].rec
  PROVE  SandboxesAfterAcquire(p)[call[e].proj] = call[e].rec
  <1> DEFINE q == call[e].proj
  <1>1. q \in Project /\ call[e].rec \in Rec /\ inflight[q][call[e].rec] > 0
    BY DEF IInv, CallsHaveProject, RunsHaveRecord, RunIsCounted, Running, RunPc
  <1>2. q \in Live
    BY <1>1, NoneAssumption DEF Live
  <1>3. q \notin Victims(p)
    <2>1. inflight[q][sandboxes[q]] # 0
      BY <1>1
    <2>2. QED BY <2>1 DEF Victims, Evictable
  <1>4. QED BY <1>1, <1>2, <1>3 DEF SandboxesAfterAcquire, RecordFor

THEOREM EvictionSafe == Spec => EvictionSparesRuns
  <1>1. IInv /\ [Next]_vars =>
          [\A e \in Exec : LosesEntry(e) =>
             \E s \in Slot : ReleaseCompletes(call[e].proj, s)]_vars
    <2> SUFFICES ASSUME IInv, Next, NEW e \in Exec, LosesEntry(e)
                 PROVE  \E s \in Slot : ReleaseCompletes(call[e].proj, s)
      OBVIOUS
    <2>1. /\ Running(e) /\ sandboxes[call[e].proj] = call[e].rec
          /\ sandboxes'[call[e].proj] # call[e].rec
          /\ sandboxes' # sandboxes
          /\ call[e].proj \in Project
      BY DEF LosesEntry, IInv, CallsHaveProject, Running, RunPc
    <2>2. ASSUME NEW p \in Project, sandboxes' = SandboxesAfterAcquire(p)
          PROVE  FALSE
      BY <2>1, <2>2, AcquireSparesRuns
    <2>3. ASSUME NEW p \in Project, Acquire(p) \/ Release(p)
          PROVE  FALSE
      BY <2>1, <2>2, <2>3 DEF Acquire, Release, managerVars
    <2>4. ASSUME NEW f \in Exec, NEW p \in Project, ExecCall(f, p)
          PROVE  FALSE
      BY <2>1, <2>4 DEF ExecCall, managerVars
    <2>5. ASSUME NEW f \in Exec, ExecStep(f)
          PROVE  FALSE
      <3>1. CASE ExecStart(f) \/ ExecThrows(f)
        <4>1. call[f].proj \in Project /\ sandboxes' = SandboxesAfterAcquire(call[f].proj)
          BY <3>1 DEF ExecStart, ExecThrows, Enter, IInv, CallsHaveProject
        <4>2. QED BY <4>1, <2>2
      <3>2. CASE ~(ExecStart(f) \/ ExecThrows(f))
        BY <2>1, <2>5, <3>2 DEF ExecStep, Launch, LaunchFails, RunOver, RunTimesOut,
             ExecReturns, ExecAutoReleases, ExecReleased, managerVars
      <3>3. QED BY <3>1, <3>2
    <2>6. ASSUME NEW p \in Project, NEW s \in Slot, ReleaseStep(p, s)
          PROVE  \E t \in Slot : ReleaseCompletes(call[e].proj, t)
      <3>1. ReleaseEnds(p, s)
        BY <2>1, <2>6 DEF ReleaseStep, ReleaseLists, managerVars
      <3>2. p = call[e].proj
        BY <2>1, <3>1 DEF ReleaseEnds, IInv, TypeOK
      <3>3. rel[p][s].pc = "sweeping" /\ rel'[p][s].pc = "idle"
        BY <3>1 DEF ReleaseEnds, IInv, TypeOK, IdleRelease
      <3>4. QED BY <3>2, <3>3 DEF ReleaseCompletes
    <2>7. ASSUME RuntimeStep
          PROVE  FALSE
      BY <2>1, <2>7 DEF RuntimeStep, ContainerEnds, SweepLists, SweepRemoves, managerVars
    <2>8. ASSUME Restart
          PROVE  FALSE
      BY <2>8 DEF Restart, LosesEntry, Running, RunPc, IdleCall
    <2>9. QED BY <2>3, <2>4, <2>5, <2>6, <2>7, <2>8 DEF Next
  <1>2. QED BY <1>1, Inductive, PTL DEF Spec, EvictionSparesRuns

-----------------------------------------------------------------------------

(***************************************************************************)
(* exec() implements a line per project.  What is needed beyond IInv is    *)
(* that the queues hold exactly calls that are outstanding, each in the    *)
(* queue of its own project and once.                                      *)
(***************************************************************************)
LineOk ==
  \A p \in Project : \A i \in 1..Len(queue[p]) :
     /\ call[queue[p][i]].pc # "idle"
     /\ call[queue[p][i]].proj = p
     /\ \A j \in 1..Len(queue[p]) : queue[p][i] = queue[p][j] => i = j

inside == {e \in Exec : call[e].pc \in HoldPc}

LEMMA SettleLineOk ==
  ASSUME IInv, LineOk, NEW e \in Exec, call[e].pc # "idle", HoldsMutex(e), Settle(e)
  PROVE  LineOk'
  <1> DEFINE p == call[e].proj
  <1>1. p \in Project /\ queue[p] # <<>> /\ Head(queue[p]) = e /\ queue[p] \in Seq(Exec)
    BY DEF IInv, CallsHaveProject, HoldsMutex, TypeOK
  <1>2. \A f \in Exec : f # e => call'[f] = call[f]
    BY DEF Settle, IInv, TypeOK
  <1> SUFFICES ASSUME NEW q \in Project, NEW i \in 1..Len(queue'[q])
               PROVE  /\ call'[queue'[q][i]].pc # "idle"
                      /\ call'[queue'[q][i]].proj = q
                      /\ \A j \in 1..Len(queue'[q]) : queue'[q][i] = queue'[q][j] => i = j
    BY DEF LineOk
  <1>3. CASE q = p
    <2>1. queue'[q] = Tail(queue[q]) /\ Len(queue'[q]) = Len(queue[q]) - 1
      BY <1>1, <1>3 DEF Settle, IInv, TypeOK
    <2>2. \A j \in 1..Len(queue'[q]) : queue'[q][j] = queue[q][j + 1] /\ j + 1 \in 1..Len(queue[q])
      BY <1>1, <1>3, <2>1
    <2>3. queue[q][1] = e /\ 1 \in 1..Len(queue[q])
      BY <1>1, <1>3
    <2>4. PICK k \in 1..Len(queue[q]) : k = i + 1 /\ queue'[q][i] = queue[q][k]
      BY <2>2
    <2>5. k # 1 /\ queue[q][k] \in Exec
      BY <2>4, <1>1, <1>3
    <2>6. queue[q][k] # e
      BY <2>3, <2>4, <2>5 DEF LineOk
    <2>7. /\ call'[queue'[q][i]].pc # "idle"
          /\ call'[queue'[q][i]].proj = q
      BY <2>4, <2>5, <2>6, <1>2 DEF LineOk
    <2>8. ASSUME NEW j \in 1..Len(queue'[q]), queue'[q][i] = queue'[q][j]
          PROVE  i = j
      <3>1. queue[q][i + 1] = queue[q][j + 1]
            /\ i + 1 \in 1..Len(queue[q]) /\ j + 1 \in 1..Len(queue[q])
        BY <2>2, <2>8
      <3>2. i + 1 = j + 1
        BY <3>1 DEF LineOk
      <3>3. i \in Int /\ j \in Int
        BY <1>1, <2>1
      <3>4. QED BY <3>2, <3>3
    <2>9. QED BY <2>7, <2>8
  <1>4. CASE q # p
    <2>1. queue'[q] = queue[q] /\ queue[q] \in Seq(Exec)
      BY <1>4 DEF Settle, IInv, TypeOK
    <2>2. queue[q][i] # e /\ queue[q][i] \in Exec
      BY <2>1, <1>4 DEF LineOk
    <2>3. QED BY <2>1, <2>2, <1>2 DEF LineOk
  <1>5. QED BY <1>3, <1>4

\* A step that keeps the queues and lets no queued call go idle keeps LineOk.
LEMMA StageLineOk ==
  ASSUME IInv, LineOk, queue' = queue,
         \A f \in Exec : /\ call[f].pc # "idle" => call'[f].pc # "idle"
                         /\ call'[f].proj = call[f].proj
  PROVE  LineOk'
  <1>1. \A p \in Project : \A i \in 1..Len(queue[p]) : queue[p][i] \in Exec
    BY DEF IInv, TypeOK
  <1>2. QED BY <1>1 DEF LineOk

(***************************************************************************)
(* Each step of the manager is a step of the line or leaves it unchanged.  *)
(***************************************************************************)
LEMMA ExecCallRefines ==
  ASSUME IInv, LineOk, NEW e \in Exec, NEW p \in Project, ExecCall(e, p)
  PROVE  LineOk' /\ Abstract!Submit(e, p)
  <1>1. /\ call[e].pc = "idle" /\ queue' = [queue EXCEPT ![p] = Append(@, e)]
        /\ \A f \in Exec : f # e => call'[f] = call[f]
        /\ call'[e].pc = "queued" /\ call'[e].proj = p
    BY DEF ExecCall, IInv, TypeOK, IdleCall
  <1>2. \A q \in Project : queue[q] \in Seq(Exec)
        /\ \A i \in 1..Len(queue[q]) : queue[q][i] # e /\ queue[q][i] \in Exec
    <2> TAKE q \in Project
    <2>1. queue[q] \in Seq(Exec)
      BY DEF IInv, TypeOK
    <2>2. \A i \in 1..Len(queue[q]) : queue[q][i] # e
      BY <1>1 DEF LineOk
    <2>3. QED BY <2>1, <2>2
  <1>3. LineOk'
    <2> SUFFICES ASSUME NEW q \in Project, NEW i \in 1..Len(queue'[q])
                 PROVE  /\ call'[queue'[q][i]].pc # "idle"
                        /\ call'[queue'[q][i]].proj = q
                        /\ \A j \in 1..Len(queue'[q]) :
                              queue'[q][i] = queue'[q][j] => i = j
      BY DEF LineOk
    <2>1. CASE q = p
      <3>1. queue'[q] = Append(queue[q], e) /\ Len(queue'[q]) = Len(queue[q]) + 1
        BY <1>1, <1>2, <2>1 DEF IInv, TypeOK
      <3>2. \A j \in 1..Len(queue[q]) : queue'[q][j] = queue[q][j]
        BY <3>1, <1>2
      <3>3. queue'[q][Len(queue[q]) + 1] = e
        BY <3>1, <1>2
      <3>4. Len(queue[q]) \in Nat
        BY <1>2
      <3>5. QED BY <1>1, <1>2, <2>1, <3>1, <3>2, <3>3, <3>4 DEF LineOk
    <2>2. CASE q # p
      <3>1. queue'[q] = queue[q]
        BY <1>1, <2>2 DEF IInv, TypeOK
      <3>2. QED BY <3>1, <1>1, <1>2 DEF LineOk
    <2>3. QED BY <2>1, <2>2
  <1>4. inside' = inside
    BY <1>1 DEF inside, HoldPc, RunPc
  <1>5. QED BY <1>1, <1>2, <1>3, <1>4 DEF Abstract!Submit, Abstract!InLine, inside

\* inside changes only for the call that takes or gives up the mutex.
LEMMA SettleRefines ==
  ASSUME IInv, LineOk, NEW e \in Exec, NEW p \in Project, p = call[e].proj,
         call[e].pc # "idle", HoldsMutex(e), Settle(e)
  PROVE  LineOk' /\ (Abstract!End(p) \/ Abstract!Refuse(p))
  <1>1. p \in Project /\ queue[p] # <<>> /\ Head(queue[p]) = e
        /\ queue' = [queue EXCEPT ![p] = Tail(@)]
    BY DEF IInv, CallsHaveProject, HoldsMutex, Settle
  <1>2. \A f \in Exec : f # e => call'[f] = call[f]
    BY DEF Settle, IInv, TypeOK
  <1>3. call'[e].pc = "idle"
    BY DEF Settle, IInv, TypeOK, IdleCall
  <1>4. inside' = inside \ {e}
    BY <1>2, <1>3 DEF inside, HoldPc, RunPc
  <1>5. (call[e].pc \in HoldPc) <=> (e \in inside)
    BY DEF inside
  <1>6. CASE call[e].pc \in HoldPc
    BY <1>1, <1>4, <1>5, <1>6, SettleLineOk DEF Abstract!End, inside
  <1>7. CASE call[e].pc \notin HoldPc
    BY <1>1, <1>4, <1>5, <1>7, SettleLineOk DEF Abstract!Refuse, inside
  <1>8. QED BY <1>6, <1>7

LEMMA ExecStepRefines ==
  ASSUME IInv, LineOk, NEW e \in Exec, ExecStep(e)
  PROVE  LineOk' /\ (\/ \E p \in Project : Abstract!Begin(p) \/ Abstract!End(p)
                                             \/ Abstract!Refuse(p)
                     \/ UNCHANGED Abstract!vars)
  <1>1. PICK p \in Project : p = call[e].proj
    BY DEF IInv, CallsHaveProject, ExecStep, ExecStart, ExecThrows, Launch, LaunchFails,
           RunOver, RunTimesOut, ExecReturns, ExecAutoReleases, ExecReleased
  <1>2. CASE ExecStart(e)
    <2>1. /\ HoldsMutex(e) /\ queue' = queue /\ call[e].pc = "queued"
          /\ \A f \in Exec : f # e => call'[f] = call[f]
          /\ call'[e].pc = "launching" /\ call'[e].proj = call[e].proj
      BY <1>2 DEF ExecStart, IInv, TypeOK, CallState
    <2>2. LineOk'
      BY <2>1, StageLineOk
    <2>3. inside' = inside \cup {e} /\ e \notin inside
      BY <2>1 DEF inside, HoldPc, RunPc
    <2>4. Abstract!Begin(p)
      BY <2>1, <2>3, <1>1 DEF Abstract!Begin, HoldsMutex, inside
    <2>5. QED BY <2>2, <2>4
  <1>3. CASE ExecThrows(e) \/ ExecReturns(e) \/ ExecReleased(e)
    <2>1. Settle(e) /\ call[e].pc # "idle" /\ HoldsMutex(e)
      BY <1>3 DEF ExecThrows, ExecReturns, ExecReleased, IInv, HeadHolds, HoldsMutex,
                  HoldPc, RunPc
    <2>2. QED BY <2>1, <1>1, SettleRefines
  <1>4. CASE Launch(e) \/ LaunchFails(e) \/ RunOver(e) \/ RunTimesOut(e)
             \/ ExecAutoReleases(e)
    <2>1. /\ queue' = queue /\ call[e].pc \in HoldPc
          /\ \A f \in Exec : f # e => call'[f] = call[f]
          /\ call'[e].pc \in HoldPc /\ call'[e].proj = call[e].proj
      <3>1. call \in [Exec -> CallState]
        BY DEF IInv, TypeOK
      <3>2. CASE Launch(e)
        BY <3>1, <3>2 DEF Launch, CallState, HoldPc, RunPc
      <3>3. CASE LaunchFails(e) \/ RunOver(e) \/ RunTimesOut(e)
        BY <3>1, <3>3 DEF LaunchFails, RunOver, RunTimesOut, CallState, HoldPc, RunPc
      <3>4. CASE ExecAutoReleases(e)
        BY <3>1, <3>4 DEF ExecAutoReleases, CallState, HoldPc, RunPc
      <3>5. QED BY <1>4, <3>2, <3>3, <3>4
    <2>2. LineOk'
      BY <2>1, StageLineOk DEF HoldPc, RunPc
    <2>3. inside' = inside
      BY <2>1 DEF inside
    <2>4. QED BY <2>1, <2>2, <2>3 DEF Abstract!vars, inside
  <1>5. QED BY <1>2, <1>3, <1>4 DEF ExecStep

LEMMA NextRefines ==
  ASSUME IInv, LineOk, [Next]_vars
  PROVE  LineOk' /\ [Abstract!Next]_(Abstract!vars)
  <1>1. ASSUME UNCHANGED <<queue, call>>
        PROVE  LineOk' /\ UNCHANGED Abstract!vars
    BY <1>1, StageLineOk DEF Abstract!vars
  <1>2. ASSUME NEW e \in Exec, NEW p \in Project, ExecCall(e, p)
        PROVE  LineOk' /\ Abstract!Next
    BY <1>2, ExecCallRefines DEF Abstract!Next
  <1>3. ASSUME NEW e \in Exec, ExecStep(e)
        PROVE  LineOk' /\ [Abstract!Next]_(Abstract!vars)
    BY <1>3, ExecStepRefines DEF Abstract!Next
  <1>4. CASE Restart
    <2>1. queue' = [p \in Project |-> <<>>] /\ inside' = {}
      BY <1>4 DEF Restart, inside, IdleCall, HoldPc, RunPc
    <2>2. LineOk'
      BY <2>1 DEF LineOk
    <2>3. QED BY <2>1, <2>2 DEF Abstract!Next, Abstract!Reset, inside
  <1>5. ASSUME NEW p \in Project, Acquire(p) \/ Release(p)
        PROVE  UNCHANGED <<queue, call>>
    BY <1>5 DEF Acquire, Release
  <1>6. ASSUME NEW p \in Project, NEW s \in Slot, ReleaseStep(p, s)
        PROVE  UNCHANGED <<queue, call>>
    BY <1>6 DEF ReleaseStep, ReleaseLists, ReleaseEnds
  <1>7. ASSUME RuntimeStep
        PROVE  UNCHANGED <<queue, call>>
    BY <1>7 DEF RuntimeStep, ContainerEnds, SweepLists, SweepRemoves
  <1>8. CASE UNCHANGED vars
    BY <1>1, <1>8 DEF vars
  <1>9. QED BY <1>1, <1>2, <1>3, <1>4, <1>5, <1>6, <1>7, <1>8 DEF Next

(***************************************************************************)
(* exec() implements the line per project of SerialRuns: calls of one      *)
(* project are executed one at a time in the order they were made.         *)
(***************************************************************************)
THEOREM Refinement == Spec => RefinesSerialRuns
  <1>1. Init => LineOk /\ Abstract!Init
    BY DEF Init, LineOk, Abstract!Init, IdleCall, HoldPc, RunPc
  <1>2. IInv /\ LineOk /\ [Next]_vars => LineOk' /\ [Abstract!Next]_(Abstract!vars)
    BY NextRefines
  <1>3. QED BY <1>1, <1>2, Inductive, PTL DEF Spec, RefinesSerialRuns, Abstract!Spec

-----------------------------------------------------------------------------

(***************************************************************************)
(* The Map after acquire(): the project is in it and the victims are not.  *)
(***************************************************************************)
LEMMA LiveAfterAcquire ==
  ASSUME TypeOK, NEW p \in Project, CanAcquire(p), sandboxes' = SandboxesAfterAcquire(p)
  PROVE  /\ Live' = (Live \ Victims(p)) \cup {p}
         /\ Victims(p) \subseteq Live \ {p}
         /\ p \in Live => Victims(p) = {} /\ Live' = Live
         /\ \A q \in Live' : q # p => sandboxes'[q] = sandboxes[q]
         /\ sandboxes'[p] = RecordFor(p)
  <1>1. RecordFor(p) \in Rec /\ RecordFor(p) # NoRec
    BY AcquireTypes, NoneAssumption
  <1>2. \A q \in Project : sandboxes'[q] = IF q = p THEN RecordFor(p) ELSE
                                           IF q \in Victims(p) THEN NoRec ELSE sandboxes[q]
    BY DEF SandboxesAfterAcquire
  <1>3. Victims(p) \subseteq Live \ {p} /\ Live \subseteq Project
        /\ (p \in Live => Victims(p) = {})
    BY DEF Victims, Evictable, Live
  <1>4. Live' = (Live \ Victims(p)) \cup {p}
    BY <1>1, <1>2, <1>3 DEF Live
  <1>5. QED BY <1>2, <1>3, <1>4

(***************************************************************************)
(* `older` orders the entries of the Map totally, as their insertion does: *)
(* of two entries one is the older, and what is older than that one is     *)
(* older than both.                                                        *)
(***************************************************************************)
OrderIsTotal ==
  /\ \A p \in Project : older[p] \subseteq Live \ {p}
  /\ \A p, q \in Live : p # q => (q \in older[p] <=> p \notin older[q])
  /\ \A p, q \in Live : q \in older[p] => older[q] \subseteq older[p]

(***************************************************************************)
(* The order of the Map.  A project that is inserted or refreshed becomes  *)
(* the newest, and what goes leaves no trace.                              *)
(***************************************************************************)
LEMMA MovedIsTotal ==
  ASSUME TypeOK, OrderIsTotal, NEW p \in Project, CanAcquire(p),
         sandboxes' = SandboxesAfterAcquire(p), older' = MovedToEnd(p, Victims(p))
  PROVE  OrderIsTotal'
  <1> DEFINE gone == Victims(p)
  <1>1. Live' = (Live \ gone) \cup {p} /\ Live \subseteq Project
    BY LiveAfterAcquire DEF Live
  <1>2. \A q \in Project : older'[q] = IF q = p THEN Live \ (gone \cup {p}) ELSE
                                       IF q \in gone THEN {} ELSE older[q] \ (gone \cup {p})
    BY DEF MovedToEnd
  <1>3. \A q \in Project : older'[q] \subseteq Live' \ {q}
    <2> SUFFICES ASSUME NEW q \in Project, NEW s \in older'[q] PROVE s \in Live' \ {q}
      OBVIOUS
    <2>1. CASE q = p
      BY <1>1, <1>2, <2>1
    <2>2. CASE q # p
      <3>1. s \in older[q] \ (gone \cup {p}) /\ older[q] \subseteq Live \ {q}
        BY <1>2, <2>2 DEF OrderIsTotal
      <3>2. QED BY <1>1, <3>1
    <2>3. QED BY <2>1, <2>2
  <1>4. /\ older'[p] = Live' \ {p}
        /\ \A q \in Live' : q # p => q \in Live \ gone /\ older'[q] = older[q] \ (gone \cup {p})
    BY <1>1, <1>2
  <1>5. ASSUME NEW q \in Live', NEW s \in Live', q # s
        PROVE  s \in older'[q] <=> q \notin older'[s]
    BY <1>4, <1>5 DEF OrderIsTotal
  <1>6. ASSUME NEW q \in Live', NEW s \in Live', s \in older'[q]
        PROVE  older'[s] \subseteq older'[q]
    <2>1. s # p
      BY <1>4, <1>6
    <2>2. older'[s] = older[s] \ (gone \cup {p}) /\ s \in Live
      BY <1>4, <2>1
    <2>3. CASE q = p
      <3>1. older'[s] \subseteq Live' /\ p \notin older'[s]
        BY <1>1, <1>3, <2>2
      <3>2. QED BY <1>4, <2>3, <3>1
    <2>4. CASE q # p
      BY <1>4, <1>6, <2>2, <2>4 DEF OrderIsTotal
    <2>5. QED BY <2>3, <2>4
  <1>7. QED BY <1>3, <1>5, <1>6 DEF OrderIsTotal

LEMMA OrderKept ==
  ASSUME OrderIsTotal, sandboxes' = sandboxes, older' = older
  PROVE  OrderIsTotal'
  BY DEF OrderIsTotal, Live

LEMMA DroppedIsTotal ==
  ASSUME TypeOK, OrderIsTotal, NEW p \in Project,
         sandboxes' = [sandboxes EXCEPT ![p] = NoRec], older' = Dropped(p)
  PROVE  OrderIsTotal'
  <1>1. Live' = Live \ {p} /\ Live \subseteq Project
    BY DEF Live, TypeOK
  <1>2. \A q \in Project : older'[q] = IF q = p THEN {} ELSE older[q] \ {p}
    BY DEF Dropped
  <1>3. \A q \in Project : older'[q] \subseteq Live' \ {q}
    <2> SUFFICES ASSUME NEW q \in Project, NEW s \in older'[q] PROVE s \in Live' \ {q}
      OBVIOUS
    <2>1. s \in older[q] \ {p} /\ older[q] \subseteq Live \ {q}
      BY <1>2 DEF OrderIsTotal
    <2>2. QED BY <1>1, <2>1
  <1>4. \A q \in Live' : q \in Live /\ older'[q] = older[q] \ {p}
    BY <1>1, <1>2
  <1>5. ASSUME NEW q \in Live', NEW s \in Live', q # s
        PROVE  s \in older'[q] <=> q \notin older'[s]
    BY <1>1, <1>4, <1>5 DEF OrderIsTotal
  <1>6. ASSUME NEW q \in Live', NEW s \in Live', s \in older'[q]
        PROVE  older'[s] \subseteq older'[q]
    BY <1>4, <1>6 DEF OrderIsTotal
  <1>7. QED BY <1>3, <1>5, <1>6 DEF OrderIsTotal

LEMMA NextOrder ==
  ASSUME IInv, OrderIsTotal, [Next]_vars
  PROVE  OrderIsTotal'
  <1> USE DEF IInv
  <1>1. ASSUME NEW p \in Project, Acquire(p) PROVE OrderIsTotal'
    <2>1. /\ CanAcquire(p) /\ sandboxes' = SandboxesAfterAcquire(p)
          /\ older' = OrderAfterAcquire(p)
      BY <1>1 DEF Acquire
    <2>2. CASE p \in Live
      <3>1. Live' = Live /\ older' = older
        BY <2>1, <2>2, LiveAfterAcquire DEF OrderAfterAcquire
      <3>2. QED BY <3>1 DEF OrderIsTotal
    <2>3. CASE p \notin Live
      BY <2>1, <2>3, MovedIsTotal DEF OrderAfterAcquire
    <2>4. QED BY <2>2, <2>3
  <1>2. ASSUME NEW e \in Exec, ExecStart(e) \/ ExecThrows(e) PROVE OrderIsTotal'
    <2>1. PICK p \in Project : p = call[e].proj
      BY <1>2 DEF ExecStart, ExecThrows, CallsHaveProject
    <2>2. Enter(p)
      BY <1>2, <2>1 DEF ExecStart, ExecThrows
    <2>3. QED BY <2>2, MovedIsTotal DEF Enter
  <1>3. ASSUME NEW p \in Project, NEW s \in Slot, ReleaseEnds(p, s) PROVE OrderIsTotal'
    BY <1>3, DroppedIsTotal DEF ReleaseEnds
  <1>4. CASE Restart
    <2>1. Live' = {} /\ \A p \in Project : older'[p] = {}
      BY <1>4 DEF Restart, Live
    <2>2. QED BY <2>1 DEF OrderIsTotal
  <1>5. ASSUME NEW e \in Exec,
               \/ Launch(e) \/ LaunchFails(e) \/ RunOver(e) \/ RunTimesOut(e)
               \/ ExecReturns(e) \/ ExecAutoReleases(e) \/ ExecReleased(e)
               \/ \E p \in Project : ExecCall(e, p)
        PROVE  OrderIsTotal'
    <2>1. sandboxes' = sandboxes /\ older' = older
      BY <1>5 DEF Launch, LaunchFails, RunOver, RunTimesOut, ExecReturns, ExecAutoReleases,
                  ExecReleased, ExecCall, managerVars
    <2>2. QED BY <2>1, OrderKept
  <1>6. ASSUME NEW p \in Project, Release(p) \/ \E s \in Slot : ReleaseLists(p, s)
        PROVE  OrderIsTotal'
    BY <1>6, OrderKept DEF Release, ReleaseLists, managerVars
  <1>7. ASSUME RuntimeStep PROVE OrderIsTotal'
    BY <1>7, OrderKept DEF RuntimeStep, ContainerEnds, SweepLists, SweepRemoves, managerVars
  <1>8. CASE UNCHANGED vars
    BY <1>8, OrderKept DEF vars
  <1>9. QED BY <1>1, <1>2, <1>3, <1>4, <1>5, <1>6, <1>7, <1>8 DEF Next, ExecStep, ReleaseStep

LEMMA OrderInductive == Spec => []OrderIsTotal
  <1>1. Init => OrderIsTotal
    <2>1. Init => Live = {} /\ \A p \in Project : older[p] = {}
      BY DEF Init, Live
    <2>2. QED BY <2>1 DEF OrderIsTotal
  <1>2. IInv /\ OrderIsTotal /\ [Next]_vars => OrderIsTotal'
    BY NextOrder
  <1>3. QED BY <1>1, <1>2, Inductive, PTL DEF Spec

-----------------------------------------------------------------------------

(***************************************************************************)
(* With valid commands only, a count is that of the one run there is: no   *)
(* call throws between counting its run and the try that uncounts it.      *)
(***************************************************************************)
CountIsOfARun ==
  \A p \in Project, r \in Rec :
    /\ inflight[p][r] \in {0, 1}
    /\ inflight[p][r] = 1 => \E e \in Exec : Running(e) /\ call[e].proj = p /\ call[e].rec = r

\* While a call waits at the head of the line, its project has no run.
LEMMA HeadIsAlone ==
  ASSUME IInv, NEW e \in Exec, call[e].pc = "queued", HoldsMutex(e)
  PROVE  \A f \in Exec : Running(f) => call[f].proj # call[e].proj
  BY DEF IInv, HeadHolds, HoldsMutex, Running, HoldPc, RunPc

\* A call changes only its own state.
LEMMA OneCallChanges ==
  ASSUME IInv, NEW e \in Exec, ExecStep(e)
  PROVE  \A f \in Exec : f # e => call'[f] = call[f]
  BY DEF IInv, TypeOK, ExecStep, ExecStart, ExecThrows, Launch, LaunchFails, RunOver,
         RunTimesOut, ExecReturns, ExecAutoReleases, ExecReleased, Settle

LEMMA AcquireCounts ==
  ASSUME TypeOK, CountIsOfARun, NEW p \in Project, CanAcquire(p)
  PROVE  \A q \in Project, r \in Rec :
           /\ InflightAfterAcquire(p)[q][r] \in {0, 1}
           /\ InflightAfterAcquire(p)[q][r] = 1 => inflight[q][r] = 1
  <1>1. RecordFor(p) \in Rec /\ inflight \in [Project -> [Rec -> Nat]]
    BY AcquireTypes DEF TypeOK
  <1>2. \A q \in Project, r \in Rec : InflightAfterAcquire(p)[q][r] \in {inflight[q][r], 0}
    BY <1>1 DEF InflightAfterAcquire
  <1>3. QED BY <1>2 DEF CountIsOfARun

LEMMA EnterCounts ==
  ASSUME IInv, CountIsOfARun, NEW e \in Exec, ExecStart(e)
  PROVE  CountIsOfARun'
  <1>1. PICK p \in Project : p = call[e].proj
    BY DEF IInv, CallsHaveProject, ExecStart
  <1>2. PICK s \in Rec : s = RecordFor(p)
    BY <1>1, AcquireTypes DEF IInv, ExecStart, Enter
  <1>3. PICK g \in [Project -> [Rec -> Nat]] : g = InflightAfterAcquire(p)
    BY <1>1, AcquireTypes DEF IInv, ExecStart, Enter
  <1>4. /\ CanAcquire(p) /\ call[e].pc = "queued" /\ HoldsMutex(e)
        /\ inflight' = [g EXCEPT ![p][s] = @ + 1]
        /\ call' = [call EXCEPT ![e].pc = "launching", ![e].rec = s, ![e].pre = p \in Live]
    BY <1>1, <1>2, <1>3 DEF ExecStart, Enter
  <1>5. call'[e].pc = "launching" /\ call'[e].proj = p /\ call'[e].rec = s
    BY <1>1, <1>4 DEF IInv, TypeOK, CallState
  <1>6. \A q \in Project, r \in Rec : g[q][r] \in {0, 1} /\ (g[q][r] = 1 => inflight[q][r] = 1)
    BY <1>3, <1>4, AcquireCounts DEF IInv
  <1>7. \A r \in Rec : g[p][r] = 0
    <2>1. \A f \in Exec : Running(f) => call[f].proj # p
      BY <1>1, <1>4, HeadIsAlone
    <2>2. \A r \in Rec : inflight[p][r] # 1
      BY <2>1 DEF CountIsOfARun
    <2>3. QED BY <1>6, <2>2
  <1>8. \A q \in Project, r \in Rec :
          inflight'[q][r] = IF q = p /\ r = s THEN 1 ELSE g[q][r]
    BY <1>4, <1>7
  <1>9. \A f \in Exec : f # e => call'[f] = call[f]
    BY OneCallChanges DEF ExecStep
  <1>10. ASSUME NEW q \in Project, NEW r \in Rec, inflight'[q][r] = 1
         PROVE  \E f \in Exec : Running(f)' /\ call'[f].proj = q /\ call'[f].rec = r
    <2>1. CASE q = p /\ r = s
      BY <1>5, <2>1 DEF Running, RunPc
    <2>2. CASE ~(q = p /\ r = s)
      <3>1. PICK f \in Exec : Running(f) /\ call[f].proj = q /\ call[f].rec = r
        BY <1>6, <1>8, <1>10, <2>2 DEF CountIsOfARun
      <3>2. f # e
        BY <1>4, <3>1 DEF Running, RunPc
      <3>3. QED BY <1>9, <3>1, <3>2 DEF Running
    <2>3. QED BY <2>1, <2>2
  <1>11. \A q \in Project, r \in Rec : inflight'[q][r] \in {0, 1}
    BY <1>6, <1>8
  <1>12. QED BY <1>10, <1>11 DEF CountIsOfARun

\* The run that returns was the only one counted for its project.
LEMMA UncountCounts ==
  ASSUME IInv, CountIsOfARun, NEW e \in Exec, Running(e)
  PROVE  /\ \A p \in Project, r \in Rec :
              Uncounted(e)[p][r] = IF p = call[e].proj THEN 0 ELSE inflight[p][r]
         /\ call[e].proj \in Project /\ call[e].rec \in Rec
  <1>1. PICK p \in Project, s \in Rec : p = call[e].proj /\ s = call[e].rec
    BY DEF IInv, CallsHaveProject, RunsHaveRecord, Running, RunPc
  <1>2. \A f \in Exec : Running(f) /\ call[f].proj = p => f = e
    BY <1>1, HeadsDiffer DEF IInv, RunsSerialised, Running, HoldPc
  <1>3. \A r \in Rec : r # s => inflight[p][r] = 0
    BY <1>1, <1>2 DEF CountIsOfARun
  <1>4. inflight[p][s] = 1
    BY <1>1 DEF CountIsOfARun, IInv, RunIsCounted
  <1>5. Uncounted(e) = [inflight EXCEPT ![p][s] = IF @ > 0 THEN @ - 1 ELSE 0]
    BY <1>1 DEF Uncounted
  <1>6. Uncounted(e)[p][s] = 0
    BY <1>4, <1>5 DEF IInv, TypeOK
  <1>7. \A q \in Project, r \in Rec : ~(q = p /\ r = s) => Uncounted(e)[q][r] = inflight[q][r]
    BY <1>5 DEF IInv, TypeOK
  <1>8. QED BY <1>1, <1>3, <1>6, <1>7

LEMMA UncountedIsOfARun ==
  ASSUME IInv, CountIsOfARun, NEW e \in Exec, Running(e), ExecStep(e), inflight' = Uncounted(e)
  PROVE  CountIsOfARun'
  <1>1. /\ \A p \in Project, r \in Rec :
             inflight'[p][r] = IF p = call[e].proj THEN 0 ELSE inflight[p][r]
        /\ \A f \in Exec : f # e => call'[f] = call[f]
    BY UncountCounts, OneCallChanges
  <1>2. ASSUME NEW p \in Project, NEW r \in Rec, inflight'[p][r] = 1
        PROVE  \E f \in Exec : Running(f)' /\ call'[f].proj = p /\ call'[f].rec = r
    <2>1. inflight[p][r] = 1 /\ p # call[e].proj
      BY <1>1, <1>2
    <2>2. PICK f \in Exec : Running(f) /\ call[f].proj = p /\ call[f].rec = r
      BY <2>1 DEF CountIsOfARun
    <2>3. QED BY <1>1, <2>1, <2>2 DEF Running
  <1>3. \A p \in Project, r \in Rec : inflight'[p][r] \in {0, 1}
    BY <1>1 DEF CountIsOfARun
  <1>4. QED BY <1>2, <1>3 DEF CountIsOfARun

\* A step in which every run goes on, with its project and record.
RunsGoOn ==
  \A e \in Exec : Running(e) =>
    /\ Running(e)' /\ call'[e].proj = call[e].proj
    /\ call'[e].rec = call[e].rec /\ call'[e].pre = call[e].pre

LEMMA StagesGoOn ==
  ASSUME IInv, NEW e \in Exec,
         \/ Launch(e) \/ LaunchFails(e) \/ RunOver(e) \/ RunTimesOut(e) \/ ExecReleased(e)
         \/ \E p \in Project : ExecCall(e, p)
  PROVE  RunsGoOn
  <1>1. /\ call[e].pc \in {"launching", "running"} =>
             /\ call'[e].pc \in RunPc /\ call'[e].proj = call[e].proj
             /\ call'[e].rec = call[e].rec /\ call'[e].pre = call[e].pre
        /\ call[e].pc \in {"launching", "running", "releasing", "idle"}
    <2>1. call \in [Exec -> CallState]
      BY DEF IInv, TypeOK
    <2>2. CASE LaunchFails(e) \/ RunOver(e) \/ RunTimesOut(e) \/ Launch(e)
      BY <2>1, <2>2 DEF LaunchFails, RunOver, RunTimesOut, Launch, CallState, RunPc
    <2>3. CASE ExecReleased(e) \/ \E p \in Project : ExecCall(e, p)
      BY <2>3 DEF ExecReleased, ExecCall
    <2>4. QED BY <2>2, <2>3
  <1>2. \A f \in Exec : f # e => call'[f] = call[f]
    BY DEF IInv, TypeOK, Launch, LaunchFails, RunOver, RunTimesOut, ExecReleased, ExecCall, Settle
  <1>3. QED BY <1>1, <1>2 DEF RunsGoOn, Running, RunPc

LEMMA GoneOnCounts ==
  ASSUME CountIsOfARun, RunsGoOn,
         \A p \in Project, r \in Rec : /\ inflight'[p][r] \in {0, 1}
                                       /\ inflight'[p][r] = 1 => inflight[p][r] = 1
  PROVE  CountIsOfARun'
  BY DEF CountIsOfARun, RunsGoOn

LEMMA NextCounts ==
  ASSUME "malformed" \notin Command, IInv, CountIsOfARun, [Next]_vars
  PROVE  CountIsOfARun'
  <1>1. ASSUME NEW p \in Project, Acquire(p) PROVE CountIsOfARun'
    <2>1. CanAcquire(p) /\ inflight' = InflightAfterAcquire(p) /\ call' = call
      BY <1>1 DEF Acquire
    <2>2. RunsGoOn
      BY <2>1 DEF RunsGoOn, Running
    <2>3. QED BY <2>1, <2>2, AcquireCounts, GoneOnCounts DEF IInv
  <1>2. ASSUME inflight' = inflight, RunsGoOn PROVE CountIsOfARun'
    BY <1>2, GoneOnCounts DEF CountIsOfARun
  <1>3. ASSUME inflight' = inflight, call' = call PROVE CountIsOfARun'
    BY <1>2, <1>3 DEF RunsGoOn, Running
  <1>4. ASSUME NEW e \in Exec,
               \/ Launch(e) \/ LaunchFails(e) \/ RunOver(e) \/ RunTimesOut(e) \/ ExecReleased(e)
               \/ \E p \in Project : ExecCall(e, p)
        PROVE  CountIsOfARun'
    <2>1. inflight' = inflight
      BY <1>4 DEF Launch, LaunchFails, RunOver, RunTimesOut, ExecReleased, ExecCall, managerVars
    <2>2. QED BY <1>2, <1>4, <2>1, StagesGoOn
  <1>5. ASSUME NEW e \in Exec, ExecReturns(e) \/ ExecAutoReleases(e) PROVE CountIsOfARun'
    BY <1>5, UncountedIsOfARun DEF ExecReturns, ExecAutoReleases, Running, RunPc, ExecStep
  <1>6. ASSUME NEW e \in Exec, ExecStart(e) \/ ExecThrows(e) PROVE CountIsOfARun'
    BY <1>6, EnterCounts DEF ExecThrows
  <1>7. ASSUME NEW p \in Project,
               Release(p) \/ \E s \in Slot : ReleaseLists(p, s) \/ ReleaseEnds(p, s)
        PROVE  CountIsOfARun'
    BY <1>3, <1>7 DEF Release, ReleaseLists, ReleaseEnds, managerVars
  <1>8. CASE UNCHANGED vars \/ RuntimeStep
    BY <1>3, <1>8 DEF vars, RuntimeStep, ContainerEnds, SweepLists, SweepRemoves, managerVars
  <1>9. CASE Restart
    BY <1>9 DEF Restart, CountIsOfARun
  <1>10. QED BY <1>1, <1>4, <1>5, <1>6, <1>7, <1>8, <1>9 DEF Next, ExecStep, ReleaseStep

LEMMA CountsInductive ==
  ASSUME "malformed" \notin Command
  PROVE  Spec => []CountIsOfARun
  <1>1. Init => CountIsOfARun
    BY DEF Init, CountIsOfARun
  <1>2. IInv /\ CountIsOfARun /\ [Next]_vars => CountIsOfARun'
    BY NextCounts
  <1>3. QED BY <1>1, <1>2, Inductive, PTL DEF Spec

-----------------------------------------------------------------------------

(***************************************************************************)
(* Nothing accumulates.  An entry outlives its run only with a holder, a   *)
(* release under way or a run that found it there: the finally block of    *)
(* the run that brought it in leaves no count, so it owes the release.     *)
(***************************************************************************)
Kept(p) ==
  \/ p \in held
  \/ \E s \in Slot : rel[p][s].pc # "idle"
  \/ \E e \in Exec : Running(e) /\ ~call[e].pre /\ call[e].proj = p /\ call[e].rec = sandboxes[p]

LEMMA LeakMeans == NoRecordLeak <=> \A p \in Live : Kept(p)
  BY DEF NoRecordLeak, Kept

\* A step in which the releases under way go on.
ReleasesGoOn ==
  \A p \in Project, s \in Slot : rel[p][s].pc # "idle" => rel'[p][s].pc # "idle"

LEMMA KeptGoesOn ==
  ASSUME TypeOK, NEW p \in Project, Kept(p), ReleasesGoOn, sandboxes'[p] = sandboxes[p],
         p \in held => p \in held' \/ \E s \in Slot : rel'[p][s].pc # "idle",
         \A e \in Exec : Running(e) /\ call[e].proj = p =>
            /\ Running(e)' /\ call'[e].proj = call[e].proj
            /\ call'[e].rec = call[e].rec /\ call'[e].pre = call[e].pre
  PROVE  Kept(p)'
  <1>1. CASE p \in held
    BY <1>1 DEF Kept
  <1>2. CASE \E s \in Slot : rel[p][s].pc # "idle"
    BY <1>2 DEF Kept, ReleasesGoOn
  <1>3. CASE \E e \in Exec : /\ Running(e) /\ ~call[e].pre
                             /\ call[e].proj = p /\ call[e].rec = sandboxes[p]
    BY <1>3 DEF Kept
  <1>4. QED BY <1>1, <1>2, <1>3 DEF Kept

\* Evictions only start releases.
LEMMA EvictionsGoOn ==
  ASSUME TypeOK, NEW p \in Project, CanAcquire(p), rel' = ReleasesAfterAcquire(p)
  PROVE  ReleasesGoOn
  <1> SUFFICES ASSUME NEW q \in Project, NEW s \in Slot, rel[q][s].pc # "idle"
               PROVE  rel'[q][s].pc # "idle"
    BY DEF ReleasesGoOn
  <1>1. CASE q \in Victims(p)
    <2>1. PICK t \in FreeSlots(q, EvictSlot) :
            rel'[q] = [rel[q] EXCEPT ![t] = StartedRelease]
      BY <1>1 DEF CanAcquire, ReleasesAfterAcquire
    <2>2. t \in Slot /\ t # s /\ rel[q] \in [Slot -> ReleaseState]
      BY <2>1 DEF FreeSlots, Slot, TypeOK
    <2>3. QED BY <2>1, <2>2
  <1>2. CASE q \notin Victims(p)
    BY <1>2 DEF ReleasesAfterAcquire
  <1>3. QED BY <1>1, <1>2

LEMMA AcquireLeak ==
  ASSUME IInv, NoRecordLeak, NEW p \in Project, Acquire(p)
  PROVE  NoRecordLeak'
  <1>1. /\ CanAcquire(p) /\ sandboxes' = SandboxesAfterAcquire(p) /\ call' = call
        /\ rel' = ReleasesAfterAcquire(p) /\ held' = (held \ Victims(p)) \cup {p}
    BY DEF Acquire
  <1>2. TypeOK /\ Live' = (Live \ Victims(p)) \cup {p}
        /\ \A q \in Live' : q # p => sandboxes'[q] = sandboxes[q]
    BY <1>1, LiveAfterAcquire DEF IInv
  <1>3. ReleasesGoOn
    BY <1>1, <1>2, EvictionsGoOn
  <1>4. Kept(p)'
    BY <1>1 DEF Kept
  <1>5. ASSUME NEW q \in Live', q # p PROVE Kept(q)'
    <2>1. q \in Live /\ q \in Project /\ q \notin Victims(p) /\ Kept(q)
      BY <1>2, <1>5, LeakMeans DEF Live
    <2>2. QED BY <1>1, <1>2, <1>3, <1>5, <2>1, KeptGoesOn DEF Running
  <1>6. \A q \in Live' : Kept(q)'
    BY <1>4, <1>5
  <1>7. QED BY <1>6 DEF NoRecordLeak, Kept

LEMMA ExecStartLeak ==
  ASSUME IInv, NoRecordLeak, NEW e \in Exec, ExecStart(e)
  PROVE  NoRecordLeak'
  <1>1. PICK p \in Project : p = call[e].proj
    BY DEF IInv, CallsHaveProject, ExecStart
  <1>2. PICK r \in Rec : r = RecordFor(p)
    BY <1>1, AcquireTypes DEF IInv, ExecStart, Enter
  <1>3. /\ CanAcquire(p) /\ sandboxes' = SandboxesAfterAcquire(p)
        /\ rel' = ReleasesAfterAcquire(p) /\ held' = held \ Victims(p)
        /\ call[e].pc = "queued"
        /\ call' = [call EXCEPT ![e].pc = "launching", ![e].rec = r, ![e].pre = p \in Live]
    BY <1>1, <1>2 DEF ExecStart, Enter
  <1>4. /\ TypeOK /\ Live' = (Live \ Victims(p)) \cup {p}
        /\ \A q \in Live' : q # p => sandboxes'[q] = sandboxes[q]
        /\ sandboxes'[p] = r
        /\ p \in Live => Victims(p) = {} /\ sandboxes[p] = r
    BY <1>2, <1>3, LiveAfterAcquire DEF IInv, RecordFor
  <1>5. ReleasesGoOn
    BY <1>3, <1>4, EvictionsGoOn
  <1>6. call'[e].pc = "launching" /\ call'[e].proj = p /\ call'[e].rec = r
        /\ (call'[e].pre <=> p \in Live)
    BY <1>1, <1>3, <1>4 DEF TypeOK, CallState
  <1>7. \A f \in Exec : Running(f) => f # e /\ call'[f] = call[f]
    BY <1>3, OneCallChanges DEF ExecStep, Running, RunPc
  <1>8. ASSUME NEW q \in Live', q # p \/ p \in Live PROVE Kept(q)'
    <2>1. q \in Live /\ q \in Project /\ q \notin Victims(p) /\ Kept(q)
          /\ sandboxes'[q] = sandboxes[q]
      BY <1>4, <1>8, LeakMeans DEF Live
    <2>2. QED BY <1>3, <1>4, <1>5, <1>7, <2>1, KeptGoesOn DEF Running
  <1>9. p \notin Live => Kept(p)'
    BY <1>4, <1>6 DEF Kept, Running, RunPc
  <1>10. \A q \in Live' : Kept(q)'
    BY <1>8, <1>9
  <1>11. QED BY <1>10 DEF NoRecordLeak, Kept

\* A step that leaves the Map and the holders alone.
LEMMA LeakKept ==
  ASSUME IInv, NoRecordLeak, sandboxes' = sandboxes, held' = held, ReleasesGoOn, RunsGoOn
  PROVE  NoRecordLeak'
  <1>1. Live' = Live /\ Live \subseteq Project
    BY DEF Live
  <1>2. ASSUME NEW p \in Live PROVE Kept(p)'
    BY <1>1, <1>2, LeakMeans, KeptGoesOn DEF IInv, RunsGoOn
  <1>3. QED BY <1>1, <1>2 DEF NoRecordLeak, Kept

LEMMA ReturnLeak ==
  ASSUME IInv, CountIsOfARun, NoRecordLeak, NEW e \in Exec, ExecReturns(e) \/ ExecAutoReleases(e)
  PROVE  NoRecordLeak'
  <1>1. Running(e) /\ sandboxes' = sandboxes /\ held' = held
    BY DEF ExecReturns, ExecAutoReleases, Running, RunPc
  <1>2. PICK p \in Project : p = call[e].proj
    BY <1>1, UncountCounts
  <1>3. Live' = Live /\ Live \subseteq Project
    BY <1>1 DEF Live
  <1>4. \A f \in Exec : f # e => call'[f] = call[f]
    BY OneCallChanges DEF ExecStep
  <1>5. OwesRelease(e) <=> ~call[e].pre /\ sandboxes[p] = call[e].rec
    BY <1>1, <1>2, UncountCounts DEF OwesRelease
  <1>6. ReleasesGoOn /\ (OwesRelease(e) => \E s \in Slot : rel'[p][s].pc # "idle")
    <2>1. CASE ExecReturns(e)
      BY <2>1 DEF ExecReturns, ReleasesGoOn
    <2>2. CASE ExecAutoReleases(e)
      <3>1. rel' = [rel EXCEPT ![p][e] = StartedRelease] /\ e \in Slot
        BY <1>2, <2>2 DEF ExecAutoReleases, Slot
      <3>2. rel'[p][e].pc = "removing"
        BY <3>1 DEF IInv, TypeOK, StartedRelease
      <3>3. \A q \in Project, s \in Slot : rel'[q][s] = rel[q][s] \/ rel'[q][s].pc = "removing"
        BY <3>1 DEF IInv, TypeOK, StartedRelease
      <3>4. QED BY <3>1, <3>2, <3>3 DEF ReleasesGoOn
    <2>3. QED BY <2>1, <2>2
  <1>7. ASSUME NEW q \in Live PROVE Kept(q)'
    <2>1. q \in Project /\ Kept(q)
      BY <1>3, <1>7, LeakMeans
    <2>2. CASE q = p /\ OwesRelease(e)
      BY <1>6, <2>2 DEF Kept
    <2>3. CASE q \in held \/ \E s \in Slot : rel[q][s].pc # "idle"
      BY <1>1, <1>6, <2>1, <2>3 DEF Kept, ReleasesGoOn
    <2>4. ASSUME ~(q = p /\ OwesRelease(e)), NEW f \in Exec, Running(f), ~call[f].pre,
                 call[f].proj = q, call[f].rec = sandboxes[q]
          PROVE  Kept(q)'
      <3>1. f # e
        BY <1>2, <1>5, <2>4
      <3>2. QED BY <1>1, <1>4, <2>4, <3>1 DEF Kept, Running
    <2>5. QED BY <2>1, <2>2, <2>3, <2>4 DEF Kept
  <1>8. QED BY <1>3, <1>7 DEF NoRecordLeak, Kept

LEMMA ReleaseLeak ==
  ASSUME IInv, NoRecordLeak, NEW p \in Project,
         Release(p) \/ \E s \in Slot : ReleaseLists(p, s) \/ ReleaseEnds(p, s)
  PROVE  NoRecordLeak'
  <1>1. TypeOK /\ call' = call /\ Live \subseteq Project
    BY DEF IInv, Release, ReleaseLists, ReleaseEnds, Live
  <1>2. RunsGoOn
    BY <1>1 DEF RunsGoOn, Running
  <1>3. CASE Release(p)
    <2>1. PICK s \in FreeSlots(p, CallSlot) : rel' = [rel EXCEPT ![p][s] = StartedRelease]
      BY <1>3 DEF Release
    <2>2. s \in Slot /\ sandboxes' = sandboxes /\ held' = held \ {p}
      BY <1>3, <2>1 DEF Release, FreeSlots, Slot, managerVars
    <2>3. /\ rel'[p][s].pc = "removing"
          /\ \A q \in Project, t \in Slot : rel'[q][t] = rel[q][t] \/ rel'[q][t].pc = "removing"
      BY <1>1, <2>1, <2>2 DEF TypeOK, StartedRelease
    <2>4. ReleasesGoOn
      BY <2>3 DEF ReleasesGoOn
    <2>5. Live' = Live
      BY <2>2 DEF Live
    <2>6. ASSUME NEW q \in Live PROVE Kept(q)'
      <3>1. q \in Project /\ Kept(q)
        BY <1>1, LeakMeans
      <3>2. q \in held => q \in held' \/ \E t \in Slot : rel'[q][t].pc # "idle"
        BY <2>2, <2>3
      <3>3. QED BY <1>1, <1>2, <2>2, <2>4, <3>1, <3>2, KeptGoesOn DEF RunsGoOn
    <2>7. QED BY <2>5, <2>6 DEF NoRecordLeak, Kept
  <1>4. ASSUME NEW s \in Slot, ReleaseLists(p, s) PROVE NoRecordLeak'
    <2>1. PICK listed : rel' = [rel EXCEPT ![p][s] = [pc |-> "sweeping", listed |-> listed]]
      BY <1>4 DEF ReleaseLists
    <2>2. \A q \in Project, t \in Slot : rel'[q][t] = rel[q][t] \/ rel'[q][t].pc = "sweeping"
      BY <1>1, <2>1 DEF TypeOK
    <2>3. QED BY <1>2, <1>4, <2>2, LeakKept DEF ReleaseLists, ReleasesGoOn, managerVars
  <1>5. ASSUME NEW s \in Slot, ReleaseEnds(p, s) PROVE NoRecordLeak'
    <2>1. /\ sandboxes' = [sandboxes EXCEPT ![p] = NoRec] /\ held' = held
          /\ rel' = [rel EXCEPT ![p][s] = IdleRelease]
      BY <1>5 DEF ReleaseEnds
    <2>2. \A q \in Project : q # p => sandboxes'[q] = sandboxes[q] /\ rel'[q] = rel[q]
      BY <1>1, <2>1 DEF TypeOK
    <2>3. Live' = Live \ {p}
      BY <1>1, <2>1 DEF Live, TypeOK
    <2>4. ASSUME NEW q \in Live' PROVE Kept(q)'
      <3>1. q \in Project /\ q # p /\ Kept(q)
        BY <1>1, <2>3, LeakMeans
      <3>2. sandboxes'[q] = sandboxes[q] /\ rel'[q] = rel[q]
        BY <2>2, <3>1
      <3>3. QED BY <1>1, <2>1, <3>1, <3>2 DEF Kept, Running
    <2>5. QED BY <2>4 DEF NoRecordLeak, Kept
  <1>6. QED BY <1>3, <1>4, <1>5

LEMMA NextLeak ==
  ASSUME "malformed" \notin Command, IInv, CountIsOfARun, NoRecordLeak, [Next]_vars
  PROVE  NoRecordLeak'
  <1>1. ASSUME NEW p \in Project, Acquire(p) PROVE NoRecordLeak'
    BY <1>1, AcquireLeak
  <1>2. ASSUME NEW e \in Exec, ExecStart(e) \/ ExecThrows(e) PROVE NoRecordLeak'
    BY <1>2, ExecStartLeak DEF ExecThrows
  <1>3. ASSUME NEW e \in Exec, ExecReturns(e) \/ ExecAutoReleases(e) PROVE NoRecordLeak'
    BY <1>3, ReturnLeak
  <1>4. ASSUME NEW e \in Exec,
               \/ Launch(e) \/ LaunchFails(e) \/ RunOver(e) \/ RunTimesOut(e) \/ ExecReleased(e)
               \/ \E p \in Project : ExecCall(e, p)
        PROVE  NoRecordLeak'
    <2>1. sandboxes' = sandboxes /\ held' = held /\ rel' = rel
      BY <1>4 DEF Launch, LaunchFails, RunOver, RunTimesOut, ExecReleased, ExecCall, managerVars
    <2>2. ReleasesGoOn
      BY <2>1 DEF ReleasesGoOn
    <2>3. QED BY <1>4, <2>1, <2>2, StagesGoOn, LeakKept
  <1>5. ASSUME NEW p \in Project,
               Release(p) \/ \E s \in Slot : ReleaseLists(p, s) \/ ReleaseEnds(p, s)
        PROVE  NoRecordLeak'
    BY <1>5, ReleaseLeak
  <1>6. CASE UNCHANGED vars \/ RuntimeStep
    <2>1. sandboxes' = sandboxes /\ held' = held /\ rel' = rel /\ call' = call
      BY <1>6 DEF vars, RuntimeStep, ContainerEnds, SweepLists, SweepRemoves, managerVars
    <2>2. ReleasesGoOn /\ RunsGoOn
      BY <2>1 DEF ReleasesGoOn, RunsGoOn, Running
    <2>3. QED BY <2>1, <2>2, LeakKept
  <1>7. CASE Restart
    <2>1. Live' = {}
      BY <1>7 DEF Restart, Live
    <2>2. QED BY <2>1 DEF NoRecordLeak
  <1>8. QED BY <1>1, <1>2, <1>3, <1>4, <1>5, <1>6, <1>7 DEF Next, ExecStep, ReleaseStep

(***************************************************************************)
(* Without malformed commands nothing accumulates in the Map: an entry has *)
(* a holder, a release under way, or the run that brought it in.           *)
(***************************************************************************)
THEOREM NothingLeaks ==
  ASSUME "malformed" \notin Command
  PROVE  Spec => []NoRecordLeak
  <1>1. Init => NoRecordLeak
    <2>1. Init => Live = {}
      BY DEF Init, Live
    <2>2. QED BY <2>1 DEF NoRecordLeak
  <1>2. IInv /\ CountIsOfARun /\ NoRecordLeak /\ [Next]_vars => NoRecordLeak'
    BY NextLeak
  <1>3. QED BY <1>1, <1>2, Inductive, CountsInductive, PTL DEF Spec

-----------------------------------------------------------------------------

(***************************************************************************)
(* In a total order the elements with fewer than k predecessors are at     *)
(* least k, when there are k elements at all: the rank, the number of the  *)
(* predecessors, runs through 0 .. n - 1 without a gap.                    *)
(***************************************************************************)
LEMMA OldestAreEnough ==
  ASSUME NEW E, IsFiniteSet(E), NEW before \in [E -> SUBSET E],
         \A u \in E : u \notin before[u],
         \A u, v \in E : u # v => u \in before[v] \/ v \in before[u],
         \A u, v \in E : u \in before[v] => before[u] \subseteq before[v],
         NEW k \in Nat, k <= Cardinality(E)
  PROVE  k <= Cardinality({v \in E : Cardinality(before[v]) < k})
  <1> DEFINE n == Cardinality(E)
             oldest == {v \in E : Cardinality(before[v]) < k}
             rank == [v \in E |-> Cardinality(before[v])]
             low == [v \in oldest |-> Cardinality(before[v])]
  <1>1. n \in Nat
    BY FS_CardinalityType
  <1>2. ASSUME NEW v \in E
        PROVE  /\ IsFiniteSet(before[v]) /\ Cardinality(before[v]) \in Nat
               /\ Cardinality(before[v]) < n
    <2>1. before[v] \in SUBSET E /\ before[v] # E
      OBVIOUS
    <2>2. IsFiniteSet(before[v]) /\ Cardinality(before[v]) <= n /\ Cardinality(before[v]) # n
      BY <2>1, FS_Subset
    <2>3. Cardinality(before[v]) \in Nat
      BY <2>2, FS_CardinalityType
    <2>4. QED BY <1>1, <2>2, <2>3
  <1>3. ASSUME NEW u \in E, NEW v \in E, u \in before[v]
        PROVE  Cardinality(before[u]) # Cardinality(before[v])
    <2>1. before[u] \in SUBSET before[v] /\ before[u] # before[v]
      BY <1>3
    <2>2. QED BY <1>2, <2>1, FS_Subset
  <1>4. rank \in [E -> 0 .. n - 1]
    BY <1>1, <1>2
  <1>5. rank \in Injection(E, 0 .. n - 1)
    <2>1. \A u, v \in E : rank[u] = rank[v] => u = v
      BY <1>3
    <2>2. QED BY <1>4, <2>1, Fun_IsInj
  <1>6. IsFiniteSet(0 .. n - 1) /\ Cardinality(0 .. n - 1) = n
    <2> HIDE DEF n
    <2>1. n - 1 \in Int /\ 0 \in Int
      BY <1>1
    <2>2. /\ IsFiniteSet(0 .. n - 1)
          /\ Cardinality(0 .. n - 1) = IF 0 > n - 1 THEN 0 ELSE n - 1 - 0 + 1
      BY ONLY <2>1, FS_Interval
    <2>3. QED BY <1>1, <2>2
  <1>7. rank \in Surjection(E, 0 .. n - 1)
    BY <1>5, <1>6, FS_Injection
  <1>8. low \in [oldest -> 0 .. k - 1]
    BY <1>2
  <1>9. \A i \in 0 .. k - 1 : \E v \in oldest : low[v] = i
    <2> SUFFICES ASSUME NEW i \in 0 .. k - 1 PROVE \E v \in oldest : low[v] = i
      OBVIOUS
    <2>1. i \in 0 .. n - 1
      BY <1>1
    <2>2. \A j \in 0 .. n - 1 : \E v \in E : rank[v] = j
      <3> HIDE DEF rank, n
      <3>1. QED BY <1>7 DEF Surjection
    <2>3. PICK v \in E : rank[v] = i
      BY <2>1, <2>2
    <2>4. QED BY <2>3
  <1>10. low \in Surjection(oldest, 0 .. k - 1)
    BY <1>8, <1>9, Fun_IsSurj
  <1>11. IsFiniteSet(oldest)
    BY FS_Subset
  <1>12. Cardinality(0 .. k - 1) = k
    BY FS_Interval
  <1>13. QED BY <1>10, <1>11, <1>12, FS_Surjection

(***************************************************************************)
(* Making room.  With enough idle entries the eviction frees all it needs, *)
(* and otherwise it frees every idle one.                                  *)
(***************************************************************************)
Excess == Cardinality(Live) + 1 - MaxSandboxes

LEMMA RoomIsMade ==
  ASSUME TypeOK, OrderIsTotal, IsFiniteSet(Live), NEW p \in Project \ Live
  PROVE  \/ Excess <= Cardinality(Victims(p))
         \/ Victims(p) = Evictable(p)
  <1> DEFINE E == Evictable(p)
             before == [v \in E |-> older[v] \cap E]
             oldest == {v \in E : Cardinality(before[v]) < Excess}
  <1>1. E \subseteq Live /\ IsFiniteSet(E) /\ Cardinality(Live) \in Nat /\ Cardinality(E) \in Nat
    <2>1. E \in SUBSET Live
      BY DEF Evictable
    <2>2. QED BY <2>1, FS_Subset, FS_CardinalityType
  <1>2. Excess \in Int
    BY <1>1, CapacityAssumption DEF Excess
  <1>3. Victims(p) = oldest
    BY DEF Victims, Excess
  <1>4. IsFiniteSet(oldest) /\ Cardinality(oldest) \in Nat
    <2>1. oldest \in SUBSET E
      OBVIOUS
    <2>2. QED BY <1>1, <2>1, FS_Subset, FS_CardinalityType
  <1>5. before \in [E -> SUBSET E]
    OBVIOUS
  <1>6. \A u \in E : u \notin before[u]
    BY <1>1 DEF OrderIsTotal, Live
  <1>7. \A u, v \in E : u # v => u \in before[v] \/ v \in before[u]
    BY <1>1 DEF OrderIsTotal
  <1>8. \A u, v \in E : u \in before[v] => before[u] \subseteq before[v]
    BY <1>1 DEF OrderIsTotal
  <1>9. CASE Excess <= 0
    BY <1>2, <1>3, <1>4, <1>9
  <1>10. CASE Excess > 0 /\ Excess <= Cardinality(E)
    <2>1. Excess \in Nat
      BY <1>2, <1>10
    <2> HIDE DEF E, before
    <2>2. QED BY <1>1, <1>3, <1>5, <1>6, <1>7, <1>8, <1>10, <2>1, OldestAreEnough
  <1>11. CASE Excess > Cardinality(E)
    <2>1. ASSUME NEW v \in E PROVE v \in oldest
      <3>1. before[v] \in SUBSET E
        BY <1>5
      <3>2. Cardinality(before[v]) <= Cardinality(E) /\ Cardinality(before[v]) \in Nat
        BY <1>1, <3>1, FS_Subset, FS_CardinalityType
      <3>3. QED BY <1>1, <1>2, <1>11, <3>2
    <2>2. QED BY <1>3, <2>1
  <1>12. QED BY <1>1, <1>2, <1>9, <1>10, <1>11

(***************************************************************************)
(* Only acquire(), called directly or by a command that starts, puts an    *)
(* entry into the Map.                                                     *)
(***************************************************************************)
LEMMA OnlyAcquireInserts ==
  ASSUME IInv, [Next]_vars
  PROVE  \/ Live' \subseteq Live
         \/ \E p \in Project : /\ CanAcquire(p) /\ sandboxes' = SandboxesAfterAcquire(p)
                               /\ \/ inflight' = InflightAfterAcquire(p)
                                  \/ inflight' = [InflightAfterAcquire(p) EXCEPT
                                                    ![p][RecordFor(p)] = @ + 1]
  <1> USE DEF IInv
  <1>1. ASSUME NEW p \in Project, Acquire(p)
        PROVE  /\ CanAcquire(p) /\ sandboxes' = SandboxesAfterAcquire(p)
               /\ inflight' = InflightAfterAcquire(p)
    BY <1>1 DEF Acquire
  <1>2. ASSUME NEW e \in Exec, ExecStart(e) \/ ExecThrows(e)
        PROVE  \E p \in Project : /\ CanAcquire(p) /\ sandboxes' = SandboxesAfterAcquire(p)
                                  /\ inflight' = [InflightAfterAcquire(p) EXCEPT
                                                    ![p][RecordFor(p)] = @ + 1]
    <2>1. PICK p \in Project : p = call[e].proj
      BY <1>2 DEF ExecStart, ExecThrows, CallsHaveProject
    <2>2. Enter(p)
      BY <1>2, <2>1 DEF ExecStart, ExecThrows
    <2>3. QED BY <2>2 DEF Enter
  <1>3. ASSUME sandboxes' = sandboxes \/ Restart
                 \/ \E p \in Project, s \in Slot : ReleaseEnds(p, s)
        PROVE  Live' \subseteq Live
    BY <1>3 DEF Restart, ReleaseEnds, Live, TypeOK
  <1>4. ASSUME NEW e \in Exec,
               \/ Launch(e) \/ LaunchFails(e) \/ RunOver(e) \/ RunTimesOut(e)
               \/ ExecReturns(e) \/ ExecAutoReleases(e) \/ ExecReleased(e)
               \/ \E p \in Project : ExecCall(e, p)
        PROVE  sandboxes' = sandboxes
    BY <1>4 DEF Launch, LaunchFails, RunOver, RunTimesOut, ExecReturns, ExecAutoReleases,
                ExecReleased, ExecCall, managerVars
  <1>5. ASSUME NEW p \in Project, Release(p) \/ \E s \in Slot : ReleaseLists(p, s)
        PROVE  sandboxes' = sandboxes
    BY <1>5 DEF Release, ReleaseLists, managerVars
  <1>6. ASSUME UNCHANGED vars \/ RuntimeStep
        PROVE  sandboxes' = sandboxes
    BY <1>6 DEF vars, RuntimeStep, ContainerEnds, SweepLists, SweepRemoves, managerVars
  <1>7. QED BY <1>1, <1>2, <1>3, <1>4, <1>5, <1>6 DEF Next, ExecStep, ReleaseStep

\* An insertion that acquire() makes leaves room, or only busy entries.
LEMMA AcquireMakesRoom ==
  ASSUME TypeOK, OrderIsTotal, IsFiniteSet(Live), NEW p \in Project, CanAcquire(p),
         sandboxes' = SandboxesAfterAcquire(p), p \notin Live
  PROVE  \/ Cardinality(Live') <= MaxSandboxes
         \/ \A q \in Live' \ {p} : q # p /\ inflight[q][sandboxes[q]] # 0
  <1>1. /\ Live' = (Live \ Victims(p)) \cup {p}
        /\ Victims(p) \subseteq Live \ {p}
    BY LiveAfterAcquire
  <1>2. PICK V \in SUBSET Live : V = Victims(p)
    BY <1>1
  <1>3. IsFiniteSet(V) /\ Cardinality(V) \in Nat /\ Cardinality(Live) \in Nat
    BY <1>2, FS_Subset, FS_CardinalityType
  <1>4. PICK B : B = Live \ V
    OBVIOUS
  <1>5. IsFiniteSet(B) /\ Cardinality(B) = Cardinality(Live) - Cardinality(V)
    <2>1. IsFiniteSet(B) /\ Cardinality(B) \in Nat
      <3>1. B \in SUBSET Live
        BY <1>4
      <3>2. QED BY <3>1, FS_Subset, FS_CardinalityType
    <2>2. B \cup V = Live /\ B \cap V = {}
      BY <1>2, <1>4
    <2>3. Cardinality(B \cup V) = Cardinality(B) + Cardinality(V) - Cardinality(B \cap V)
      BY <1>3, <2>1, FS_Union
    <2>4. Cardinality(B \cap V) = 0
      BY <2>2, FS_EmptySet
    <2>5. Cardinality(Live) = Cardinality(B) + Cardinality(V) - 0
      BY <2>2, <2>3, <2>4
    <2>6. QED BY <1>3, <2>1, <2>5
  <1>6. Live' = B \cup {p} /\ p \notin B
    BY <1>1, <1>2, <1>4
  <1>7. Cardinality(Live') = Cardinality(B) + 1
    BY <1>5, <1>6, FS_AddElement
  <1>8. CASE Excess <= Cardinality(V)
    BY <1>3, <1>5, <1>7, <1>8, CapacityAssumption DEF Excess
  <1>9. CASE V = Evictable(p)
    BY <1>4, <1>6, <1>9 DEF Evictable
  <1>10. QED BY <1>2, <1>8, <1>9, RoomIsMade

\* The entries come one at a time.
LEMMA LiveStaysFinite ==
  ASSUME IInv, IsFiniteSet(Live), [Next]_vars
  PROVE  IsFiniteSet(Live')
  <1> USE DEF IInv
  <1>1. ASSUME NEW p \in Project, CanAcquire(p), sandboxes' = SandboxesAfterAcquire(p)
        PROVE  IsFiniteSet(Live')
    <2>1. Live' \in SUBSET (Live \cup {p})
      BY <1>1, LiveAfterAcquire
    <2>2. IsFiniteSet(Live \cup {p})
      BY FS_AddElement
    <2>3. QED BY <2>1, <2>2, FS_Subset
  <1>2. ASSUME Live' \subseteq Live
        PROVE  IsFiniteSet(Live')
    <2>1. Live' \in SUBSET Live
      BY <1>2
    <2>2. QED BY <2>1, FS_Subset
  <1>3. QED BY <1>1, <1>2, OnlyAcquireInserts

(***************************************************************************)
(* Every insertion makes room: what it leaves above the capacity is busy.  *)
(***************************************************************************)
THEOREM MapIsBounded == Spec => MapBounded
  <1>1. Init => IsFiniteSet(Live)
    <2>1. Init => Live = {}
      BY DEF Init, Live
    <2>2. QED BY <2>1, FS_EmptySet
  <1>2. IInv /\ IsFiniteSet(Live) /\ [Next]_vars => IsFiniteSet(Live)'
    BY LiveStaysFinite
  <1>3. IInv /\ OrderIsTotal /\ IsFiniteSet(Live) /\ [Next]_vars =>
          [\A p \in Project : Inserted(p) =>
             \/ Cardinality(Live') <= MaxSandboxes
             \/ \A q \in Live' \ {p} : inflight'[q][sandboxes'[q]] > 0]_vars
    <2> SUFFICES ASSUME IInv, OrderIsTotal, IsFiniteSet(Live), [Next]_vars,
                        NEW p \in Project, Inserted(p)
                 PROVE  \/ Cardinality(Live') <= MaxSandboxes
                        \/ \A q \in Live' \ {p} : inflight'[q][sandboxes'[q]] > 0
      OBVIOUS
    <2> USE DEF IInv
    <2>1. PICK r \in Project :
             /\ CanAcquire(r) /\ sandboxes' = SandboxesAfterAcquire(r)
             /\ \/ inflight' = InflightAfterAcquire(r)
                \/ inflight' = [InflightAfterAcquire(r) EXCEPT ![r][RecordFor(r)] = @ + 1]
      BY OnlyAcquireInserts DEF Inserted
    <2>2. r = p
      BY <2>1, LiveAfterAcquire DEF Inserted
    <2>3. \A q \in Live' : q # p => sandboxes'[q] = sandboxes[q]
      BY <2>1, <2>2, LiveAfterAcquire
    <2>4. \A q \in Project \ {p} : inflight'[q] = inflight[q]
      <3>1. \A q \in Project \ {p} : InflightAfterAcquire(p)[q] = inflight[q]
        BY DEF InflightAfterAcquire, TypeOK
      <3>2. InflightAfterAcquire(p) \in [Project -> [Rec -> Nat]]
        BY <2>1, <2>2, AcquireTypes
      <3>3. QED BY <2>1, <2>2, <3>1, <3>2
    <2>5. \/ Cardinality(Live') <= MaxSandboxes
          \/ \A q \in Live' \ {p} : q # p /\ inflight[q][sandboxes[q]] # 0
      BY <2>1, <2>2, AcquireMakesRoom DEF Inserted
    <2>6. ASSUME NEW q \in Live' \ {p}, inflight[q][sandboxes[q]] # 0
          PROVE  inflight'[q][sandboxes'[q]] > 0
      <3>1. q \in Project /\ sandboxes'[q] = sandboxes[q] /\ sandboxes[q] # NoRec
        BY <2>3 DEF Live
      <3>2. sandboxes[q] \in Rec
        BY <3>1 DEF TypeOK
      <3>3. inflight[q][sandboxes[q]] \in Nat
        BY <3>1, <3>2 DEF TypeOK
      <3>4. QED BY <2>4, <2>6, <3>1, <3>3
    <2>7. QED BY <2>5, <2>6
  <1>4. Spec => []IsFiniteSet(Live)
    <2>1. Init => IsFiniteSet(Live)
      BY <1>1
    <2>2. QED BY <1>2, <2>1, Inductive, PTL DEF Spec
  <1>5. QED BY <1>3, <1>4, Inductive, OrderInductive, PTL DEF Spec, MapBounded
=============================================================================
