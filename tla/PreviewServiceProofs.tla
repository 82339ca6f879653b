------------------------ MODULE PreviewServiceProofs ------------------------
(***************************************************************************)
(* Proofs about PreviewService, for any projects, ports, records and       *)
(* liveness checks: what the port pool, the teardown and the controller    *)
(* promise does not depend on how many of them there are.                  *)
(***************************************************************************)
EXTENDS PreviewService, TLAPS

USE CapAssumption, NoneAssumption, TaskAssumption

(***************************************************************************)
(* A task that is under way is about a record, a launch about its own.     *)
(***************************************************************************)
TasksFit ==
  /\ \A t \in Task : task[t].pc # "idle" => task[t].rec \in Rec
  /\ \A r \in Rec : task[r].pc # "idle" => task[r].rec = r
  /\ \A k \in Check : task[k].pc \notin {"launching", "probing"}

(***************************************************************************)
(* The phase of a record allows the tasks about it: nothing but a launch   *)
(* is about a record that starts, and what fails is not live any more.     *)
(***************************************************************************)
PhaseFor(pc) ==
  CASE pc \in {"launching", "probing"} -> {"starting", "stopped"}
    [] pc \in {"asked", "told"}        -> {"running", "failed", "stopped"}
    [] pc \in {"logs", "removing"}     -> {"failed", "stopped"}
    [] OTHER                           -> Phase

PhasesFit ==
  \A t \in Task : task[t].pc # "idle" => rec[task[t].rec].phase \in PhaseFor(task[t].pc)

(***************************************************************************)
(* What the Map and the controller have under a project is of the project. *)
(***************************************************************************)
OfProject(p, r) == r # NoRec => rec[r].proj = p

RecordsAreOfProject ==
  \A p \in Project :
    OfProject(p, records[p]) /\ OfProject(p, devServer[p]) /\ OfProject(p, served[p])

(***************************************************************************)
(* The pool: what is held is taken, by one record only and for a reason,   *)
(* and what is taken is held.                                              *)
(***************************************************************************)
Holds(r) == r \in Rec /\ rec[r].held

HeldIsTaken == \A r \in Rec : Holds(r) => rec[r].port \in heldPorts

HeldOnce == \A r, q \in Rec : Holds(r) /\ Holds(q) /\ rec[r].port = rec[q].port => r = q

TakenIsHeld == \A port \in heldPorts : \E r \in Rec : Holds(r) /\ rec[r].port = port

HeldForReason == \A r \in Rec : Holds(r) => Live(r) \/ Failing(r) # {} \/ r \in stopping

(***************************************************************************)
(* A live record holds its port and is its project's; one that was stopped *)
(* holds none and launches nothing once its teardown is done.              *)
(***************************************************************************)
LiveIsCurrent == \A r \in Rec : Live(r) => rec[r].held /\ records[rec[r].proj] = r

StoppingIsStopped == \A r \in stopping : rec[r].phase = "stopped"

TornDown ==
  \A r \in Rec : rec[r].phase = "stopped" /\ r \notin stopping =>
    ~rec[r].held /\ task[r].pc = "idle"

IInv ==
  /\ TypeOK
  /\ TasksFit /\ PhasesFit
  /\ RecordsAreOfProject
  /\ HeldIsTaken /\ HeldOnce /\ TakenIsHeld /\ HeldForReason
  /\ LiveIsCurrent /\ StoppingIsStopped /\ TornDown
  /\ StoppedIsGone
  /\ HandleIsHonest

-----------------------------------------------------------------------------

(***************************************************************************)
(* What the assignments of the actions do, record by record and task by    *)
(* task.                                                                   *)
(***************************************************************************)
LEMMA PhaseSet ==
  ASSUME rec \in [Rec -> Fields], NEW r \in Rec, NEW ph \in Phase,
         rec' = [rec EXCEPT ![r].phase = ph]
  PROVE  /\ rec' \in [Rec -> Fields]
         /\ \A q \in Rec :
              /\ rec'[q].proj = rec[q].proj /\ rec'[q].port = rec[q].port
              /\ rec'[q].held = rec[q].held
              /\ rec'[q].phase = IF q = r THEN ph ELSE rec[q].phase
  BY DEF Fields

LEMMA HeldCleared ==
  ASSUME rec \in [Rec -> Fields], NEW r \in Rec, NoLongerHeld(r)
  PROVE  /\ rec' \in [Rec -> Fields]
         /\ \A q \in Rec :
              /\ rec'[q].proj = rec[q].proj /\ rec'[q].port = rec[q].port
              /\ rec'[q].phase = rec[q].phase
              /\ rec'[q].held <=> rec[q].held /\ q # r
  BY DEF Fields, NoLongerHeld

LEMMA TaskMoves ==
  ASSUME task \in [Task -> [pc : TaskPc, rec : Rec \cup {NoRec}]], NEW t \in Task,
         NEW pc \in TaskPc, task' = [task EXCEPT ![t].pc = pc]
  PROVE  /\ task' \in [Task -> [pc : TaskPc, rec : Rec \cup {NoRec}]]
         /\ \A u \in Task : /\ task'[u].rec = task[u].rec
                            /\ task'[u].pc = IF u = t THEN pc ELSE task[u].pc
  OBVIOUS

LEMMA TaskSettles ==
  ASSUME task \in [Task -> [pc : TaskPc, rec : Rec \cup {NoRec}]], NEW t \in Task, Settled(t)
  PROVE  /\ task' \in [Task -> [pc : TaskPc, rec : Rec \cup {NoRec}]]
         /\ \A u \in Task : /\ task'[u].rec = IF u = t THEN NoRec ELSE task[u].rec
                            /\ task'[u].pc = IF u = t THEN "idle" ELSE task[u].pc
  BY DEF Settled, IdleTask, TaskPc

-----------------------------------------------------------------------------

LEMMA InitIInv == Init => IInv
  <1> SUFFICES ASSUME Init PROVE IInv
    OBVIOUS
  <1>1. TypeOK
    BY DEF Init, TypeOK, NoFields, Fields, IdleTask, TaskPc, Phase
  <1>2. TasksFit /\ PhasesFit /\ RecordsAreOfProject
    BY DEF Init, TasksFit, PhasesFit, RecordsAreOfProject, OfProject, IdleTask, Task
  <1>3. \A r \in Rec : rec[r].held = FALSE /\ rec[r].phase = "none"
    BY DEF Init, NoFields
  <1>4. HeldIsTaken /\ HeldOnce /\ TakenIsHeld /\ HeldForReason /\ LiveIsCurrent
        /\ StoppingIsStopped /\ TornDown /\ StoppedIsGone
    BY <1>3 DEF Init, HeldIsTaken, HeldOnce, TakenIsHeld, HeldForReason, LiveIsCurrent,
                StoppingIsStopped, TornDown, StoppedIsGone, Holds, Live
  <1>5. HandleIsHonest
    BY DEF Init, HandleIsHonest
  <1>6. QED BY <1>1, <1>2, <1>4, <1>5 DEF IInv

(***************************************************************************)
(* A start on a record that was garbage: nobody speaks of it yet.          *)
(***************************************************************************)
LEMMA StartsNewIInv ==
  ASSUME IInv, NEW p \in Project, NEW r \in Rec, StartsNew(p, r),
         devServer' = [devServer EXCEPT ![p] = r],
         served' \in {served, [served EXCEPT ![p] = r]},
         attempts' \in [Project -> 0..RestartCap], tries' \in [Project -> Nat]
  PROVE  IInv'
  <1> USE DEF IInv
  <1>1. PICK port \in Port \ heldPorts :
          /\ heldPorts' = heldPorts \cup {port}
          /\ rec' = [rec EXCEPT ![r] = [proj |-> p, port |-> port, held |-> TRUE,
                                        phase |-> "starting"]]
    BY DEF StartsNew
  <1>2. /\ ~Live(records[p]) /\ Garbage(r) /\ records' = [records EXCEPT ![p] = r]
        /\ task' = [task EXCEPT ![r] = [pc |-> "launching", rec |-> r]]
        /\ stopping' = stopping /\ box' = box /\ astray' = astray
    BY DEF StartsNew, runtimeVars
  <1>3. /\ \A q \in Rec : q # r => rec'[q] = rec[q]
        /\ rec'[r].proj = p /\ rec'[r].port = port /\ rec'[r].held /\ rec'[r].phase = "starting"
    BY <1>1 DEF TypeOK
  <1>4. /\ \A t \in Task : t # r => task'[t] = task[t]
        /\ task'[r].pc = "launching" /\ task'[r].rec = r
        /\ r \in Task
    BY <1>2 DEF TypeOK, Task
  <1>5. TypeOK'
    <2>1. rec' \in [Rec -> Fields]
      BY <1>1 DEF TypeOK, Fields, Phase
    <2>2. task' \in [Task -> [pc : TaskPc, rec : Rec \cup {NoRec}]]
      BY <1>2 DEF TypeOK, TaskPc
    <2>3. QED BY <1>1, <1>2, <2>1, <2>2 DEF TypeOK
  <1>6. /\ \A q \in Project : r \notin {records[q], devServer[q], served[q]}
        /\ \A t \in Task : task[t].rec # r
        /\ r \notin stopping /\ ~rec[r].held
    BY <1>2 DEF Garbage
  <1>7. TasksFit'
    BY <1>4 DEF TasksFit, Task
  <1>8. PhasesFit'
    BY <1>3, <1>4, <1>6 DEF PhasesFit, PhaseFor, TasksFit
  <1>9. RecordsAreOfProject'
    BY <1>2, <1>3, <1>6 DEF RecordsAreOfProject, OfProject, TypeOK
  <1>10. HeldIsTaken' /\ HeldOnce' /\ TakenIsHeld'
    BY <1>1, <1>3, <1>6 DEF HeldIsTaken, HeldOnce, TakenIsHeld, Holds
  <1>11. HeldForReason'
    <2> SUFFICES ASSUME NEW q \in Rec, Holds(q)', q # r
                 PROVE  (Live(q) \/ Failing(q) # {} \/ q \in stopping)'
      BY <1>3 DEF HeldForReason, Live
    <2>1. Live(q) \/ Failing(q) # {} \/ q \in stopping
      BY <1>3 DEF Holds, HeldForReason
    <2>2. Failing(q) \subseteq Failing(q)'
      BY <1>4, <1>6 DEF Failing, TasksFit
    <2>3. Live(q) => Live(q)'
      BY <1>3 DEF Live
    <2>4. QED BY <1>2, <2>1, <2>2, <2>3
  <1>12. LiveIsCurrent'
    BY <1>2, <1>3, <1>6 DEF LiveIsCurrent, Live, TypeOK, RecordsAreOfProject, OfProject
  <1>13. StoppingIsStopped' /\ TornDown'
    <2>1. StoppingIsStopped'
      <3>1. \A q \in stopping : q \in Rec /\ q # r /\ rec[q].phase = "stopped"
        BY <1>6 DEF StoppingIsStopped, TypeOK
      <3>2. QED BY <1>2, <1>3, <3>1 DEF StoppingIsStopped
    <2>2. \A q \in Rec : q # r => task'[q] = task[q] /\ rec'[q] = rec[q]
      BY <1>3, <1>4 DEF Task
    <2>3. TornDown'
      BY <1>2, <1>3, <2>2 DEF TornDown
    <2>4. QED BY <2>1, <2>3
  <1>14. StoppedIsGone'
    BY <1>2, <1>3 DEF StoppedIsGone
  <1>15. HandleIsHonest'
    <2> SUFFICES ASSUME NEW q \in Project, NEW h \in {devServer[q], served[q]} \ {NoRec}, h # r
                 PROVE  Live(h)' \/ rec'[h].phase = "stopped" \/ Reporting(h)' # {}
      BY <1>3 DEF HandleIsHonest, Live, TypeOK
    <2>1. h \in Rec /\ (Live(h) \/ rec[h].phase = "stopped" \/ Reporting(h) # {})
      BY DEF HandleIsHonest, TypeOK
    <2>2. Reporting(h) \subseteq Reporting(h)'
      BY <1>4, <1>6 DEF Reporting, TasksFit
    <2>3. QED BY <1>3, <2>1, <2>2 DEF Live
  <1>16. QED BY <1>5, <1>7, <1>8, <1>9, <1>10, <1>11, <1>12, <1>13, <1>14, <1>15

(***************************************************************************)
(* A step of the controller alone hands out, if anything, a live record of *)
(* the project or what it has handed out before.                           *)
(***************************************************************************)
LEMMA ControllerIInv ==
  ASSUME IInv, UNCHANGED <<serverVars, runtimeVars>>,
         devServer' \in [Project -> Rec \cup {NoRec}],
         served' \in [Project -> Rec \cup {NoRec}],
         \A p \in Project : \A h \in {devServer'[p], served'[p]} :
           h \in {devServer[p], served[p]} \/ (Live(h) /\ h = records[p]) \/ h = NoRec,
         attempts' \in [Project -> 0..RestartCap], tries' \in [Project -> Nat]
  PROVE  IInv'
  <1> USE DEF IInv
  <1>1. /\ records' = records /\ rec' = rec /\ heldPorts' = heldPorts /\ task' = task
        /\ stopping' = stopping /\ box' = box /\ astray' = astray
    BY DEF serverVars, runtimeVars
  <1>2. TypeOK' /\ TasksFit' /\ PhasesFit'
    BY <1>1 DEF TypeOK, TasksFit, PhasesFit
  <1>3. RecordsAreOfProject'
    BY <1>1 DEF RecordsAreOfProject, OfProject
  <1>4. HeldIsTaken' /\ HeldOnce' /\ TakenIsHeld' /\ HeldForReason' /\ LiveIsCurrent'
        /\ StoppingIsStopped' /\ TornDown' /\ StoppedIsGone'
    BY <1>1 DEF HeldIsTaken, HeldOnce, TakenIsHeld, HeldForReason, LiveIsCurrent,
                StoppingIsStopped, TornDown, StoppedIsGone, Holds, Live, Failing
  <1>5. HandleIsHonest'
    BY <1>1 DEF HandleIsHonest, Live, Reporting
  <1>6. QED BY <1>2, <1>3, <1>4, <1>5

(***************************************************************************)
(* markFailed and what it awaits.                                          *)
(***************************************************************************)
LEMMA MarkFailedIInv ==
  ASSUME IInv, NEW t \in Task, task[t].pc \in {"launching", "probing", "told"}, MarkFailed(t),
         UNCHANGED <<records, heldPorts, stopping, astray, controllerVars>>,
         \/ box' = box
         \/ task[t].pc = "launching" /\ box' = [box EXCEPT ![task[t].rec] = "late"]
  PROVE  IInv'
  <1> USE DEF IInv
  <1>1. PICK r \in Rec : r = task[t].rec
    BY DEF TasksFit
  <1>2. /\ records' = records /\ heldPorts' = heldPorts /\ stopping' = stopping
        /\ astray' = astray /\ devServer' = devServer /\ served' = served
        /\ attempts' = attempts /\ tries' = tries
    BY DEF controllerVars
  <1>3. box' \in [Rec -> {"none", "up", "exited", "late"}]
    BY <1>1 DEF TypeOK
  <1>4. CASE rec[r].phase = "stopped"
    <2>1. rec' = rec /\ Settled(t)
      BY <1>1, <1>4 DEF MarkFailed
    <2>2. /\ task' \in [Task -> [pc : TaskPc, rec : Rec \cup {NoRec}]]
          /\ \A u \in Task : /\ task'[u].rec = IF u = t THEN NoRec ELSE task[u].rec
                             /\ task'[u].pc = IF u = t THEN "idle" ELSE task[u].pc
      BY <2>1, TaskSettles DEF TypeOK
    <2>3. TypeOK'
      BY <1>2, <1>3, <2>1, <2>2 DEF TypeOK
    <2>4. TasksFit' /\ PhasesFit'
      BY <2>1, <2>2 DEF TasksFit, PhasesFit, Task
    <2>5. RecordsAreOfProject' /\ HeldIsTaken' /\ HeldOnce' /\ TakenIsHeld'
          /\ LiveIsCurrent' /\ StoppingIsStopped'
      BY <1>2, <2>1 DEF RecordsAreOfProject, OfProject, HeldIsTaken, HeldOnce, TakenIsHeld,
                        LiveIsCurrent, StoppingIsStopped, Holds, Live
    <2>6. HeldForReason'
      BY <1>2, <2>1, <2>2 DEF HeldForReason, Holds, Live, Failing
    <2>7. TornDown'
      BY <1>2, <2>1, <2>2 DEF TornDown, Task
    <2>8. StoppedIsGone'
      <3>1. task[t].pc = "launching" => t \in Rec /\ r = t
        BY <1>1 DEF TasksFit, Task
      <3>2. task[t].pc = "launching" => r \in stopping
        BY <1>1, <1>4, <3>1 DEF TornDown
      <3>3. QED BY <1>1, <1>2, <2>1, <3>2 DEF StoppedIsGone, TypeOK
    <2>9. HandleIsHonest'
      <3>1. \A h \in Rec : Reporting(h) \subseteq Reporting(h)'
        BY <2>2 DEF Reporting
      <3>2. QED BY <1>2, <2>1, <3>1 DEF HandleIsHonest, Live, TypeOK
    <2>10. QED BY <2>3, <2>4, <2>5, <2>6, <2>7, <2>8, <2>9
  <1>5. CASE rec[r].phase # "stopped"
    <2>1. rec' = [rec EXCEPT ![r].phase = "failed"] /\ task' = [task EXCEPT ![t].pc = "logs"]
      BY <1>1, <1>5 DEF MarkFailed
    <2>2. /\ rec' \in [Rec -> Fields]
          /\ \A q \in Rec :
               /\ rec'[q].proj = rec[q].proj /\ rec'[q].port = rec[q].port
               /\ rec'[q].held = rec[q].held
               /\ rec'[q].phase = IF q = r THEN "failed" ELSE rec[q].phase
      <3>1. rec \in [Rec -> Fields] /\ "failed" \in Phase
        BY DEF TypeOK, Phase
      <3>2. QED BY <2>1, <3>1, PhaseSet
    <2>3. /\ task' \in [Task -> [pc : TaskPc, rec : Rec \cup {NoRec}]]
          /\ \A u \in Task : /\ task'[u].rec = task[u].rec
                             /\ task'[u].pc = IF u = t THEN "logs" ELSE task[u].pc
      BY <2>1, TaskMoves DEF TypeOK, TaskPc
    <2>4. TypeOK'
      BY <1>2, <1>3, <2>2, <2>3 DEF TypeOK
    <2>5. TasksFit'
      BY <2>3 DEF TasksFit, Task
    <2>6. PhasesFit'
      <3> SUFFICES ASSUME NEW u \in Task, task'[u].pc # "idle"
                   PROVE  rec'[task'[u].rec].phase \in PhaseFor(task'[u].pc)
        BY DEF PhasesFit, PhaseFor
      <3>1. CASE u = t
        BY <1>1, <2>2, <2>3, <3>1 DEF PhaseFor
      <3>2. CASE u # t /\ task[u].rec # r
        BY <2>2, <2>3, <3>2 DEF PhasesFit, TasksFit
      <3>3. CASE u # t /\ task[u].rec = r
        <4>1. rec[r].phase \in PhaseFor(task[u].pc) /\ rec[r].phase \in PhaseFor(task[t].pc)
          BY <1>1, <2>3, <3>3 DEF PhasesFit
        <4>2. task[u].pc \notin {"launching", "probing"}
          <5>1. CASE task[t].pc \in {"launching", "probing"}
            BY <1>1, <2>3, <3>3, <5>1 DEF TasksFit, Task
          <5>2. CASE task[t].pc = "told"
            BY <1>5, <4>1, <5>2 DEF PhaseFor
          <5>3. QED BY <5>1, <5>2
        <4>3. task[u].pc \in TaskPc \ {"idle"}
          BY <2>3, <3>3 DEF TypeOK
        <4>4. QED BY <1>1, <2>2, <2>3, <3>3, <4>2, <4>3 DEF PhaseFor, TaskPc
      <3>4. QED BY <3>1, <3>2, <3>3
    <2>7. RecordsAreOfProject'
      BY <1>2, <2>2 DEF RecordsAreOfProject, OfProject, TypeOK
    <2>8. HeldIsTaken' /\ HeldOnce' /\ TakenIsHeld'
      BY <1>2, <2>2 DEF HeldIsTaken, HeldOnce, TakenIsHeld, Holds
    <2>9. HeldForReason'
      <3>1. \A q \in Rec : Failing(q) \subseteq Failing(q)'
        BY <2>3 DEF Failing
      <3>2. t \in Failing(r)'
        BY <1>1, <2>3 DEF Failing
      <3>3. QED BY <1>2, <2>2, <3>1, <3>2 DEF HeldForReason, Holds, Live
    <2>10. LiveIsCurrent'
      BY <1>2, <2>2 DEF LiveIsCurrent, Live
    <2>11. StoppingIsStopped' /\ TornDown'
      BY <1>2, <1>5, <2>2, <2>3 DEF StoppingIsStopped, TornDown, TypeOK, Task
    <2>12. StoppedIsGone'
      BY <1>1, <1>2, <2>2 DEF StoppedIsGone, TypeOK
    <2>13. HandleIsHonest'
      <3>1. \A h \in Rec : Reporting(h) \subseteq Reporting(h)'
        BY <2>3 DEF Reporting
      <3>2. t \in Reporting(r)'
        BY <1>1, <2>3 DEF Reporting
      <3>3. QED BY <1>2, <2>2, <3>1, <3>2 DEF HandleIsHonest, Live, TypeOK
    <2>14. QED BY <2>4, <2>5, <2>6, <2>7, <2>8, <2>9, <2>10, <2>11, <2>12, <2>13
  <1>6. QED BY <1>4, <1>5

LEMMA LogsReadIInv ==
  ASSUME IInv, NEW t \in Task, LogsRead(t)
  PROVE  IInv'
  <1> USE DEF IInv
  <1>1. PICK r \in Rec : r = task[t].rec
    BY DEF LogsRead, TasksFit
  <1>2. /\ records' = records /\ stopping' = stopping /\ box' = box
        /\ astray' = astray /\ devServer' = devServer /\ served' = served
        /\ attempts' = attempts /\ tries' = tries /\ task[t].pc = "logs"
    BY DEF LogsRead, runtimeVars, controllerVars
  <1>3. rec[r].phase \in {"failed", "stopped"}
    BY <1>1, <1>2 DEF PhasesFit, PhaseFor
  <1>4. CASE rec[r].phase = "stopped"
    <2>1. rec' = rec /\ heldPorts' = heldPorts /\ Settled(t)
      BY <1>1, <1>4 DEF LogsRead
    <2>2. /\ task' \in [Task -> [pc : TaskPc, rec : Rec \cup {NoRec}]]
          /\ \A u \in Task : /\ task'[u].rec = IF u = t THEN NoRec ELSE task[u].rec
                             /\ task'[u].pc = IF u = t THEN "idle" ELSE task[u].pc
      BY <2>1, TaskSettles DEF TypeOK
    <2>3. TypeOK'
      BY <1>2, <2>1, <2>2 DEF TypeOK
    <2>4. TasksFit' /\ PhasesFit'
      BY <2>1, <2>2 DEF TasksFit, PhasesFit, Task
    <2>5. RecordsAreOfProject' /\ HeldIsTaken' /\ HeldOnce' /\ TakenIsHeld'
          /\ LiveIsCurrent' /\ StoppingIsStopped' /\ StoppedIsGone'
      BY <1>2, <2>1 DEF RecordsAreOfProject, OfProject, HeldIsTaken, HeldOnce, TakenIsHeld,
                        LiveIsCurrent, StoppingIsStopped, StoppedIsGone, Holds, Live
    <2>6. HeldForReason'
      <3> SUFFICES ASSUME NEW q \in Rec, Holds(q)
                   PROVE  Live(q) \/ Failing(q)' # {} \/ q \in stopping
        BY <1>2, <2>1 DEF HeldForReason, Holds, Live
      <3>1. CASE q = r
        BY <1>4, <3>1 DEF TornDown, Holds
      <3>2. CASE q # r
        <4>1. Failing(q) \subseteq Failing(q)'
          BY <1>1, <2>2, <3>2 DEF Failing
        <4>2. QED BY <4>1 DEF HeldForReason
      <3>3. QED BY <3>1, <3>2
    <2>7. TornDown'
      BY <1>2, <2>1, <2>2 DEF TornDown, Task
    <2>8. HandleIsHonest'
      <3> SUFFICES ASSUME NEW p \in Project, NEW h \in {devServer[p], served[p]} \ {NoRec}
                   PROVE  Live(h) \/ rec[h].phase = "stopped" \/ Reporting(h)' # {}
        BY <1>2, <2>1 DEF HandleIsHonest, Live
      <3>1. CASE h = r
        BY <1>4, <3>1
      <3>2. CASE h # r
        <4>1. Reporting(h) \subseteq Reporting(h)'
          BY <1>1, <2>2, <3>2 DEF Reporting
        <4>2. QED BY <4>1 DEF HandleIsHonest
      <3>3. QED BY <3>1, <3>2
    <2>9. QED BY <2>3, <2>4, <2>5, <2>6, <2>7, <2>8
  <1>5. CASE rec[r].phase # "stopped"
    <2>1. ReleasePort(r) /\ NoLongerHeld(r) /\ task' = [task EXCEPT ![t].pc = "removing"]
      BY <1>1, <1>5 DEF LogsRead
    <2>2. /\ rec' \in [Rec -> Fields]
          /\ \A q \in Rec :
               /\ rec'[q].proj = rec[q].proj /\ rec'[q].port = rec[q].port
               /\ rec'[q].phase = rec[q].phase
               /\ rec'[q].held <=> rec[q].held /\ q # r
      BY <2>1, HeldCleared DEF TypeOK
    <2>3. /\ task' \in [Task -> [pc : TaskPc, rec : Rec \cup {NoRec}]]
          /\ \A u \in Task : /\ task'[u].rec = task[u].rec
                             /\ task'[u].pc = IF u = t THEN "removing" ELSE task[u].pc
      BY <2>1, TaskMoves DEF TypeOK, TaskPc
    <2>4. heldPorts' = IF rec[r].held THEN heldPorts \ {rec[r].port} ELSE heldPorts
      BY <2>1 DEF ReleasePort
    <2>5. TypeOK'
      BY <1>2, <2>2, <2>3, <2>4 DEF TypeOK
    <2>6. TasksFit'
      BY <1>2, <2>3 DEF TasksFit, Task
    <2>7. PhasesFit'
      BY <1>1, <1>2, <1>3, <2>2, <2>3 DEF PhasesFit, PhaseFor, TasksFit
    <2>8. RecordsAreOfProject'
      BY <1>2, <2>2 DEF RecordsAreOfProject, OfProject, TypeOK
    <2>9. HeldIsTaken' /\ HeldOnce' /\ TakenIsHeld'
      BY <2>2, <2>4 DEF HeldIsTaken, HeldOnce, TakenIsHeld, Holds
    <2>10. HeldForReason'
      <3> SUFFICES ASSUME NEW q \in Rec, Holds(q), q # r
                   PROVE  Live(q)' \/ Failing(q)' # {} \/ q \in stopping
        BY <1>2, <2>2 DEF HeldForReason, Holds
      <3>1. Failing(q) \subseteq Failing(q)'
        BY <1>1, <2>3 DEF Failing
      <3>2. QED BY <2>2, <3>1 DEF HeldForReason, Live
    <2>11. LiveIsCurrent'
      BY <1>2, <1>3, <2>2 DEF LiveIsCurrent, Live
    <2>12. StoppingIsStopped' /\ StoppedIsGone'
      BY <1>2, <2>2 DEF StoppingIsStopped, StoppedIsGone, TypeOK
    <2>12a. TornDown'
      BY <1>2, <2>2, <2>3 DEF TornDown, Task
    <2>13. HandleIsHonest'
      <3>1. \A h \in Rec : Reporting(h) \subseteq Reporting(h)'
        BY <1>2, <2>3 DEF Reporting
      <3>2. QED BY <1>2, <2>2, <3>1 DEF HandleIsHonest, Live, TypeOK
    <2>14. QED BY <2>5, <2>6, <2>7, <2>8, <2>9, <2>10, <2>11, <2>12, <2>12a, <2>13
  <1>6. QED BY <1>4, <1>5

LEMMA RemoveKeeps ==
  ASSUME TypeOK, NEW r \in Rec, Remove(r)
  PROVE  /\ box' \in [Rec -> {"none", "up", "exited", "late"}]
         /\ astray' \subseteq Rec /\ astray \subseteq astray'
         /\ box'[r] = "none" \/ r \in astray'
         /\ \A q \in Rec : box'[q] = box[q] \/ box'[q] = "none"
  BY DEF Remove, TypeOK

LEMMA FailureReportedIInv ==
  ASSUME IInv, NEW t \in Task, FailureReported(t)
  PROVE  IInv'
  <1> USE DEF IInv
  <1>1. PICK r \in Rec : r = task[t].rec
    BY DEF FailureReported, TasksFit
  <1>2. /\ records' = records /\ rec' = rec /\ heldPorts' = heldPorts /\ stopping' = stopping
        /\ attempts' = attempts /\ tries' = tries /\ task[t].pc = "removing"
        /\ devServer' = [devServer EXCEPT ![rec[r].proj] = NoRec]
        /\ served' = [served EXCEPT ![rec[r].proj] = NoRec]
        /\ Remove(r) /\ Settled(t)
    BY <1>1 DEF FailureReported, Exited
  <1>3. /\ task' \in [Task -> [pc : TaskPc, rec : Rec \cup {NoRec}]]
        /\ \A u \in Task : /\ task'[u].rec = IF u = t THEN NoRec ELSE task[u].rec
                           /\ task'[u].pc = IF u = t THEN "idle" ELSE task[u].pc
    BY <1>2, TaskSettles DEF TypeOK
  <1>4. /\ box' \in [Rec -> {"none", "up", "exited", "late"}]
        /\ astray' \subseteq Rec /\ astray \subseteq astray'
        /\ \A q \in Rec : box'[q] = box[q] \/ box'[q] = "none"
    BY <1>2, RemoveKeeps
  <1>5. TypeOK'
    BY <1>2, <1>3, <1>4 DEF TypeOK
  <1>6. TasksFit' /\ PhasesFit'
    BY <1>2, <1>3 DEF TasksFit, PhasesFit, Task
  <1>7. RecordsAreOfProject'
    BY <1>2 DEF RecordsAreOfProject, OfProject, TypeOK
  <1>8. HeldIsTaken' /\ HeldOnce' /\ TakenIsHeld' /\ LiveIsCurrent' /\ StoppingIsStopped'
    BY <1>2 DEF HeldIsTaken, HeldOnce, TakenIsHeld, LiveIsCurrent, StoppingIsStopped, Holds, Live
  <1>9. HeldForReason'
    <2>1. \A q \in Rec : Failing(q) \subseteq Failing(q)'
      BY <1>2, <1>3 DEF Failing
    <2>2. QED BY <1>2, <2>1 DEF HeldForReason, Holds, Live
  <1>10. TornDown'
    BY <1>2, <1>3 DEF TornDown, Task
  <1>11. StoppedIsGone'
    BY <1>2, <1>4 DEF StoppedIsGone
  <1>12. HandleIsHonest'
    <2> SUFFICES ASSUME NEW p \in Project, NEW h \in {devServer'[p], served'[p]} \ {NoRec}
                 PROVE  Live(h) \/ rec[h].phase = "stopped" \/ Reporting(h)' # {}
      BY <1>2 DEF HandleIsHonest, Live
    <2>1. h \in {devServer[p], served[p]} /\ p # rec[r].proj
      BY <1>2 DEF TypeOK
    <2>2. h # r /\ h \in Rec
      BY <2>1 DEF RecordsAreOfProject, OfProject, TypeOK
    <2>3. Reporting(h) \subseteq Reporting(h)'
      BY <1>1, <1>3, <2>2 DEF Reporting
    <2>4. QED BY <2>1, <2>3 DEF HandleIsHonest
  <1>13. QED BY <1>5, <1>6, <1>7, <1>8, <1>9, <1>10, <1>11, <1>12

(***************************************************************************)
(* The launch comes up, and is answered.                                   *)
(***************************************************************************)
LEMMA LaunchUpIInv ==
  ASSUME IInv, NEW r \in Rec, LaunchUp(r)
  PROVE  IInv'
  <1> USE DEF IInv
  <1>1. /\ records' = records /\ rec' = rec /\ heldPorts' = heldPorts /\ stopping' = stopping
        /\ astray' = astray /\ devServer' = devServer /\ served' = served
        /\ attempts' = attempts /\ tries' = tries /\ task[r].pc = "launching"
        /\ box' = [box EXCEPT ![r] = "up"] /\ task' = [task EXCEPT ![r].pc = "probing"]
    BY DEF LaunchUp, controllerVars
  <1>2. /\ task' \in [Task -> [pc : TaskPc, rec : Rec \cup {NoRec}]]
        /\ \A u \in Task : /\ task'[u].rec = task[u].rec
                           /\ task'[u].pc = IF u = r THEN "probing" ELSE task[u].pc
    BY <1>1, TaskMoves DEF TypeOK, TaskPc, Task
  <1>3. TypeOK'
    BY <1>1, <1>2 DEF TypeOK
  <1>4. TasksFit'
    BY <1>1, <1>2 DEF TasksFit, Task
  <1>5. PhasesFit'
    BY <1>1, <1>2 DEF PhasesFit, PhaseFor
  <1>6. RecordsAreOfProject' /\ HeldIsTaken' /\ HeldOnce' /\ TakenIsHeld' /\ LiveIsCurrent'
        /\ StoppingIsStopped'
    BY <1>1 DEF RecordsAreOfProject, OfProject, HeldIsTaken, HeldOnce, TakenIsHeld,
                LiveIsCurrent, StoppingIsStopped, Holds, Live
  <1>7. HeldForReason'
    <2>1. \A q \in Rec : Failing(q) \subseteq Failing(q)'
      BY <1>1, <1>2 DEF Failing
    <2>2. QED BY <1>1, <2>1 DEF HeldForReason, Holds, Live
  <1>8. r \in stopping \/ rec[r].phase # "stopped"
    BY <1>1 DEF TornDown
  <1>9. TornDown' /\ StoppedIsGone'
    BY <1>1, <1>2, <1>8 DEF TornDown, StoppedIsGone, TypeOK, Task
  <1>10. HandleIsHonest'
    <2>1. \A h \in Rec : Reporting(h) \subseteq Reporting(h)'
      BY <1>1, <1>2 DEF Reporting
    <2>2. QED BY <1>1, <2>1 DEF HandleIsHonest, Live, TypeOK
  <1>11. QED BY <1>3, <1>4, <1>5, <1>6, <1>7, <1>9, <1>10

LEMMA ProbeAnsweredIInv ==
  ASSUME IInv, NEW r \in Rec, ProbeAnswered(r)
  PROVE  IInv'
  <1> USE DEF IInv
  <1>1. /\ records' = records /\ heldPorts' = heldPorts /\ stopping' = stopping
        /\ astray' = astray /\ box' = box /\ devServer' = devServer /\ served' = served
        /\ attempts' = attempts /\ tries' = [tries EXCEPT ![rec[r].proj] = 0]
        /\ task[r].pc = "probing" /\ rec[r].phase # "stopped" /\ Settled(r)
        /\ rec' = [rec EXCEPT ![r].phase = "running"]
    BY DEF ProbeAnswered, runtimeVars
  <1>2. /\ task' \in [Task -> [pc : TaskPc, rec : Rec \cup {NoRec}]]
        /\ \A u \in Task : /\ task'[u].rec = IF u = r THEN NoRec ELSE task[u].rec
                           /\ task'[u].pc = IF u = r THEN "idle" ELSE task[u].pc
    BY <1>1, TaskSettles DEF TypeOK, Task
  <1>3. /\ rec' \in [Rec -> Fields]
        /\ \A q \in Rec :
             /\ rec'[q].proj = rec[q].proj /\ rec'[q].port = rec[q].port
             /\ rec'[q].held = rec[q].held
             /\ rec'[q].phase = IF q = r THEN "running" ELSE rec[q].phase
    <2>1. rec \in [Rec -> Fields] /\ "running" \in Phase
      BY DEF TypeOK, Phase
    <2>2. QED BY <1>1, <2>1, PhaseSet
  <1>4. rec[r].phase = "starting" /\ task[r].rec = r
    BY <1>1 DEF PhasesFit, PhaseFor, TasksFit, Task
  <1>5. TypeOK'
    BY <1>1, <1>2, <1>3 DEF TypeOK
  <1>6. TasksFit'
    BY <1>2 DEF TasksFit, Task
  <1>7. PhasesFit'
    <2> SUFFICES ASSUME NEW u \in Task, u # r, task[u].pc # "idle"
                 PROVE  rec'[task[u].rec].phase \in PhaseFor(task[u].pc)
      BY <1>2 DEF PhasesFit, PhaseFor
    <2>1. task[u].rec \in Rec /\ rec[task[u].rec].phase \in PhaseFor(task[u].pc)
      BY DEF PhasesFit, TasksFit
    <2>2. CASE task[u].rec = r
      BY <1>4, <2>1, <2>2 DEF PhaseFor, TasksFit, TypeOK, TaskPc, Task
    <2>3. CASE task[u].rec # r
      BY <1>3, <2>1, <2>3
    <2>4. QED BY <2>2, <2>3
  <1>8. RecordsAreOfProject' /\ HeldIsTaken' /\ HeldOnce' /\ TakenIsHeld'
    BY <1>1, <1>3 DEF RecordsAreOfProject, OfProject, HeldIsTaken, HeldOnce, TakenIsHeld, Holds, TypeOK
  <1>9. HeldForReason'
    <2>1. \A q \in Rec : Failing(q) \subseteq Failing(q)'
      BY <1>1, <1>2 DEF Failing
    <2>2. QED BY <1>1, <1>3, <2>1 DEF HeldForReason, Holds, Live
  <1>10. LiveIsCurrent'
    BY <1>1, <1>3, <1>4 DEF LiveIsCurrent, Live
  <1>11. StoppingIsStopped' /\ TornDown' /\ StoppedIsGone'
    BY <1>1, <1>2, <1>3 DEF StoppingIsStopped, TornDown, StoppedIsGone, TypeOK, Task
  <1>12. HandleIsHonest'
    <2>1. \A h \in Rec : Reporting(h) \subseteq Reporting(h)'
      BY <1>1, <1>2 DEF Reporting
    <2>2. QED BY <1>1, <1>3, <2>1 DEF HandleIsHonest, Live, TypeOK
  <1>13. QED BY <1>5, <1>6, <1>7, <1>8, <1>9, <1>10, <1>11, <1>12

(***************************************************************************)
(* A liveness check up to its outcome: nothing but its own task changes.   *)
(***************************************************************************)
LEMMA CheckIInv ==
  ASSUME IInv, NEW k \in Check, task[k].pc \in {"idle", "asked"},
         UNCHANGED <<records, rec, heldPorts, stopping, runtimeVars, controllerVars>>,
         NEW c \in [pc : {"idle", "asked", "told"}, rec : Rec \cup {NoRec}],
         task' = [task EXCEPT ![k] = c],
         c.pc # "idle" => c.rec \in Rec /\ rec[c.rec].phase \in {"running", "failed", "stopped"}
  PROVE  IInv'
  <1> USE DEF IInv
  <1>1. /\ records' = records /\ rec' = rec /\ heldPorts' = heldPorts /\ stopping' = stopping
        /\ astray' = astray /\ box' = box /\ devServer' = devServer /\ served' = served
        /\ attempts' = attempts /\ tries' = tries
    BY DEF runtimeVars, controllerVars
  <1>2. /\ task' \in [Task -> [pc : TaskPc, rec : Rec \cup {NoRec}]]
        /\ \A u \in Task : task'[u] = IF u = k THEN c ELSE task[u]
    BY DEF TypeOK, TaskPc, Task
  <1>3. TypeOK' /\ TasksFit'
    BY <1>1, <1>2 DEF TypeOK, TasksFit, Task
  <1>4. PhasesFit'
    BY <1>1, <1>2 DEF PhasesFit, PhaseFor
  <1>5. RecordsAreOfProject' /\ HeldIsTaken' /\ HeldOnce' /\ TakenIsHeld' /\ LiveIsCurrent'
        /\ StoppingIsStopped' /\ StoppedIsGone'
    BY <1>1 DEF RecordsAreOfProject, OfProject, HeldIsTaken, HeldOnce, TakenIsHeld,
                LiveIsCurrent, StoppingIsStopped, StoppedIsGone, Holds, Live
  <1>6. HeldForReason'
    <2>1. \A q \in Rec : Failing(q) \subseteq Failing(q)'
      BY <1>2 DEF Failing
    <2>2. QED BY <1>1, <2>1 DEF HeldForReason, Holds, Live
  <1>7. TornDown'
    BY <1>1, <1>2 DEF TornDown, Task
  <1>8. HandleIsHonest'
    <2>1. \A h \in Rec : Reporting(h) \subseteq Reporting(h)'
      BY <1>2 DEF Reporting
    <2>2. QED BY <1>1, <2>1 DEF HandleIsHonest, Live, TypeOK
  <1>9. QED BY <1>3, <1>4, <1>5, <1>6, <1>7, <1>8

(***************************************************************************)
(* A stop, and the end of its teardown.                                    *)
(***************************************************************************)
LEMMA StopIInv ==
  ASSUME IInv, NEW p \in Project, Stop(p)
  PROVE  IInv'
  <1> USE DEF IInv
  <1>1. PICK r \in Rec : r = records[p]
    BY DEF Stop, TypeOK
  <1>2. /\ heldPorts' = heldPorts /\ task' = task /\ box' = box /\ astray' = astray
        /\ devServer' = devServer /\ served' = served /\ attempts' = attempts
        /\ rec' = [rec EXCEPT ![r].phase = "stopped"]
        /\ records' = [records EXCEPT ![p] = NoRec]
        /\ stopping' = stopping \cup {r}
        /\ tries' = [tries EXCEPT ![p] = 0]
    BY <1>1 DEF Stop, runtimeVars
  <1>3. /\ rec' \in [Rec -> Fields]
        /\ \A q \in Rec :
             /\ rec'[q].proj = rec[q].proj /\ rec'[q].port = rec[q].port
             /\ rec'[q].held = rec[q].held
             /\ rec'[q].phase = IF q = r THEN "stopped" ELSE rec[q].phase
    <2>1. rec \in [Rec -> Fields] /\ "stopped" \in Phase
      BY DEF TypeOK, Phase
    <2>2. QED BY <1>2, <2>1, PhaseSet
  <1>4. TypeOK' /\ TasksFit'
    BY <1>2, <1>3 DEF TypeOK, TasksFit
  <1>5. PhasesFit'
    <2> SUFFICES ASSUME NEW u \in Task, task[u].pc # "idle"
                 PROVE  rec'[task[u].rec].phase \in PhaseFor(task[u].pc)
      BY <1>2 DEF PhasesFit, PhaseFor
    <2>1. task[u].rec \in Rec /\ rec[task[u].rec].phase \in PhaseFor(task[u].pc)
      BY DEF PhasesFit, TasksFit
    <2>2. "stopped" \in PhaseFor(task[u].pc)
      BY DEF PhaseFor, Phase
    <2>3. QED BY <1>3, <2>1, <2>2
  <1>6. RecordsAreOfProject' /\ HeldIsTaken' /\ HeldOnce' /\ TakenIsHeld'
    BY <1>2, <1>3 DEF RecordsAreOfProject, OfProject, HeldIsTaken, HeldOnce, TakenIsHeld,
                      Holds, TypeOK
  <1>7. HeldForReason'
    <2>1. \A q \in Rec : Failing(q) = Failing(q)'
      BY <1>2 DEF Failing
    <2>2. QED BY <1>2, <1>3, <2>1 DEF HeldForReason, Holds, Live
  <1>8. LiveIsCurrent'
    <2> SUFFICES ASSUME NEW q \in Rec, q # r, Live(q)
                 PROVE  rec'[q].held /\ records'[rec'[q].proj] = q
      BY <1>3 DEF LiveIsCurrent, Live
    <2>1. rec[q].held /\ records[rec[q].proj] = q
      BY DEF LiveIsCurrent
    <2>2. QED BY <1>1, <1>2, <1>3, <2>1 DEF TypeOK
  <1>9. StoppingIsStopped' /\ TornDown' /\ StoppedIsGone'
    BY <1>2, <1>3 DEF StoppingIsStopped, TornDown, StoppedIsGone, TypeOK
  <1>10. HandleIsHonest'
    <2>1. \A h \in Rec : Reporting(h) = Reporting(h)'
      BY <1>2 DEF Reporting
    <2>2. QED BY <1>2, <1>3, <2>1 DEF HandleIsHonest, Live, TypeOK
  <1>11. QED BY <1>4, <1>5, <1>6, <1>7, <1>8, <1>9, <1>10

LEMMA StopEndsIInv ==
  ASSUME IInv, NEW r \in Rec, StopEnds(r)
  PROVE  IInv'
  <1> USE DEF IInv
  <1>1. /\ records' = records /\ task' = task /\ devServer' = devServer /\ served' = served
        /\ attempts' = attempts /\ tries' = tries
        /\ r \in stopping /\ task[r].pc = "idle" /\ stopping' = stopping \ {r}
        /\ heldPorts' = IF rec[r].held THEN heldPorts \ {rec[r].port} ELSE heldPorts
    BY DEF StopEnds, LaunchSettled, ReleasePort, controllerVars
  <1>2. /\ rec' \in [Rec -> Fields]
        /\ \A q \in Rec :
             /\ rec'[q].proj = rec[q].proj /\ rec'[q].port = rec[q].port
             /\ rec'[q].phase = rec[q].phase
             /\ rec'[q].held <=> rec[q].held /\ q # r
    BY HeldCleared DEF StopEnds, TypeOK
  <1>3. /\ box' \in [Rec -> {"none", "up", "exited", "late"}]
        /\ astray' \subseteq Rec /\ astray \subseteq astray'
        /\ box'[r] = "none" \/ r \in astray'
        /\ \A q \in Rec : box'[q] = box[q] \/ box'[q] = "none"
    BY RemoveKeeps DEF StopEnds
  <1>4. rec[r].phase = "stopped"
    BY <1>1 DEF StoppingIsStopped
  <1>5. TypeOK' /\ TasksFit'
    BY <1>1, <1>2, <1>3 DEF TypeOK, TasksFit
  <1>6. PhasesFit' /\ RecordsAreOfProject'
    BY <1>1, <1>2 DEF PhasesFit, PhaseFor, TasksFit, RecordsAreOfProject, OfProject, TypeOK
  <1>7. HeldIsTaken' /\ HeldOnce' /\ TakenIsHeld'
    BY <1>1, <1>2 DEF HeldIsTaken, HeldOnce, TakenIsHeld, Holds
  <1>8. HeldForReason'
    <2>1. \A q \in Rec : Failing(q) = Failing(q)'
      BY <1>1 DEF Failing
    <2>2. QED BY <1>1, <1>2, <2>1 DEF HeldForReason, Holds, Live
  <1>9. LiveIsCurrent' /\ StoppingIsStopped'
    BY <1>1, <1>2, <1>4 DEF LiveIsCurrent, StoppingIsStopped, Live, TypeOK
  <1>10. TornDown'
    BY <1>1, <1>2 DEF TornDown
  <1>11. StoppedIsGone'
    BY <1>1, <1>2, <1>3 DEF StoppedIsGone
  <1>12. HandleIsHonest'
    <2>1. \A h \in Rec : Reporting(h) = Reporting(h)'
      BY <1>1 DEF Reporting
    <2>2. QED BY <1>1, <1>2, <2>1 DEF HandleIsHonest, Live, TypeOK
  <1>13. QED BY <1>5, <1>6, <1>7, <1>8, <1>9, <1>10, <1>11, <1>12

(***************************************************************************)
(* A step of the runtime alone makes no container where there was none.    *)
(***************************************************************************)
LEMMA RuntimeIInv ==
  ASSUME IInv, UNCHANGED <<serverVars, controllerVars>>,
         box' \in [Rec -> {"none", "up", "exited", "late"}], astray' \subseteq Rec,
         \A q \in Rec : \/ box'[q] = "none"
                        \/ box[q] # "none" /\ (q \in astray => q \in astray')
  PROVE  IInv'
  <1> USE DEF IInv
  <1>1. /\ records' = records /\ rec' = rec /\ heldPorts' = heldPorts /\ task' = task
        /\ stopping' = stopping /\ devServer' = devServer /\ served' = served
        /\ attempts' = attempts /\ tries' = tries
    BY DEF serverVars, controllerVars
  <1>2. TypeOK' /\ TasksFit' /\ PhasesFit' /\ RecordsAreOfProject'
    BY <1>1 DEF TypeOK, TasksFit, PhasesFit, RecordsAreOfProject, OfProject
  <1>3. HeldIsTaken' /\ HeldOnce' /\ TakenIsHeld' /\ HeldForReason' /\ LiveIsCurrent'
        /\ StoppingIsStopped' /\ TornDown'
    BY <1>1 DEF HeldIsTaken, HeldOnce, TakenIsHeld, HeldForReason, LiveIsCurrent,
                StoppingIsStopped, TornDown, Holds, Live, Failing
  <1>4. StoppedIsGone'
    BY <1>1 DEF StoppedIsGone
  <1>5. HandleIsHonest'
    BY <1>1 DEF HandleIsHonest, Live, Reporting
  <1>6. QED BY <1>2, <1>3, <1>4, <1>5

-----------------------------------------------------------------------------

(***************************************************************************)
(* The steps of a project's start, whoever asks for it.                    *)
(***************************************************************************)
LEMMA StartsIInv ==
  ASSUME IInv, NEW p \in Project, NEW r \in Rec, Starts(p, r),
         devServer' = [devServer EXCEPT ![p] = r],
         served' \in {served, [served EXCEPT ![p] = r]},
         attempts' = [attempts EXCEPT ![p] = 0], tries' \in [Project -> Nat]
  PROVE  IInv'
  <1>1. attempts' \in [Project -> 0..RestartCap]
    BY DEF IInv, TypeOK
  <1>2. CASE StartsNew(p, r)
    BY <1>1, <1>2, StartsNewIInv
  <1>3. CASE StartsAgain(p, r)
    <2>1. UNCHANGED <<serverVars, runtimeVars>> /\ Live(r) /\ r = records[p]
      BY <1>3 DEF StartsAgain
    <2>2. /\ devServer' \in [Project -> Rec \cup {NoRec}]
          /\ served' \in [Project -> Rec \cup {NoRec}]
      BY DEF IInv, TypeOK
    <2>3. \A q \in Project : \A h \in {devServer'[q], served'[q]} :
            h \in {devServer[q], served[q]} \/ (Live(h) /\ h = records[q]) \/ h = NoRec
      BY <2>1 DEF IInv, TypeOK
    <2>4. QED BY <1>1, <2>1, <2>2, <2>3, ControllerIInv
  <1>4. QED BY <1>2, <1>3 DEF Starts

LEMMA ProjectIInv ==
  ASSUME IInv, NEW p \in Project,
         Start(p) \/ StartRefused(p) \/ Restart(p) \/ RestartRefused(p) \/ Stop(p)
  PROVE  IInv'
  <1>1. CASE Start(p)
    <2>1. tries' \in [Project -> Nat]
      BY <1>1 DEF Start, IInv, TypeOK
    <2>2. QED BY <1>1, <2>1, StartsIInv DEF Start
  <1>2. CASE StartRefused(p)
    <2>1. /\ UNCHANGED <<serverVars, runtimeVars>>
          /\ devServer' = devServer /\ attempts' = attempts /\ tries' = tries
          /\ served' \in {served, [served EXCEPT ![p] = devServer[p]]}
      BY <1>2 DEF StartRefused
    <2>2. /\ devServer' \in [Project -> Rec \cup {NoRec}]
          /\ served' \in [Project -> Rec \cup {NoRec}]
          /\ attempts' \in [Project -> 0..RestartCap] /\ tries' \in [Project -> Nat]
      BY <2>1 DEF IInv, TypeOK
    <2>3. \A q \in Project : \A h \in {devServer'[q], served'[q]} :
            h \in {devServer[q], served[q]}
      BY <2>1 DEF IInv, TypeOK
    <2>4. QED BY <2>1, <2>2, <2>3, ControllerIInv
  <1>3. CASE Restart(p)
    <2>1. tries' \in [Project -> Nat]
      BY <1>3 DEF Restart, Tried, IInv, TypeOK
    <2>2. QED BY <1>3, <2>1, StartsIInv DEF Restart
  <1>4. CASE RestartRefused(p)
    <2>1. /\ UNCHANGED <<serverVars, runtimeVars>>
          /\ devServer' = devServer /\ served' = served /\ attempts[p] < RestartCap
          /\ attempts' = [attempts EXCEPT ![p] = @ + 1]
      BY <1>4 DEF RestartRefused, MayRestart
    <2>2. devServer' \in [Project -> Rec \cup {NoRec}] /\ served' \in [Project -> Rec \cup {NoRec}]
      BY <2>1 DEF IInv, TypeOK
    <2>3. attempts' \in [Project -> 0..RestartCap]
      <3>1. attempts \in [Project -> 0..RestartCap]
        BY DEF IInv, TypeOK
      <3>2. attempts[p] + 1 \in 0..RestartCap
        BY <2>1, <3>1
      <3>3. QED BY <2>1, <3>1, <3>2
    <2>4. tries' \in [Project -> Nat]
      BY <1>4 DEF RestartRefused, Tried, IInv, TypeOK
    <2>5. QED BY <2>1, <2>2, <2>3, <2>4, ControllerIInv
  <1>5. CASE Stop(p)
    BY <1>5, StopIInv
  <1>6. QED BY <1>1, <1>2, <1>3, <1>4, <1>5

LEMMA LaunchIInv ==
  ASSUME IInv, NEW r \in Rec, LaunchStep(r)
  PROVE  IInv'
  <1>1. r \in Task /\ (task[r].pc # "idle" => task[r].rec = r)
    BY DEF Task, IInv, TasksFit
  <1>2. CASE LaunchUp(r)
    BY <1>2, LaunchUpIInv
  <1>3. CASE LaunchFails(r)
    <2>1. /\ task[r].pc = "launching" /\ MarkFailed(r)
          /\ UNCHANGED <<records, heldPorts, stopping, astray, controllerVars>>
          /\ box' \in {box, [box EXCEPT ![r] = "late"]}
      BY <1>3 DEF LaunchFails
    <2>2. QED BY <1>1, <2>1, MarkFailedIInv
  <1>4. CASE ProbeAnswered(r)
    BY <1>4, ProbeAnsweredIInv
  <1>5. CASE ProbeFails(r)
    <2>1. /\ task[r].pc = "probing" /\ MarkFailed(r) /\ box' = box
          /\ UNCHANGED <<records, heldPorts, stopping, astray, controllerVars>>
      BY <1>5 DEF ProbeFails, runtimeVars
    <2>2. QED BY <1>1, <2>1, MarkFailedIInv
  <1>6. QED BY <1>2, <1>3, <1>4, <1>5 DEF LaunchStep

LEMMA LivenessCheckIInv ==
  ASSUME IInv, NEW k \in Check, CheckStep(k)
  PROVE  IInv'
  <1>1. task \in [Task -> [pc : TaskPc, rec : Rec \cup {NoRec}]] /\ k \in Task
    BY DEF Task, IInv, TypeOK
  <1>2. CASE CheckPasses(k)
    <2>1. task' = [task EXCEPT ![k] = IdleTask]
          /\ IdleTask \in [pc : {"idle", "asked", "told"}, rec : Rec \cup {NoRec}]
          /\ IdleTask.pc = "idle" /\ task[k].pc \in {"idle", "asked"}
          /\ UNCHANGED <<records, rec, heldPorts, stopping, runtimeVars, controllerVars>>
      BY <1>2 DEF CheckPasses, Settled, IdleTask
    <2>2. QED BY <2>1, CheckIInv
  <1>3. CASE CheckTold(k)
    <2>1. PICK c : c = [pc |-> "told", rec |-> task[k].rec]
      OBVIOUS
    <2>1a. [task[k] EXCEPT !.pc = "told"] = c
      BY <1>1, <2>1
    <2>2. /\ task[k].pc = "asked" /\ task' = [task EXCEPT ![k] = c]
          /\ UNCHANGED <<records, rec, heldPorts, stopping, runtimeVars, controllerVars>>
      BY <1>3, <2>1a DEF CheckTold
    <2>3. c \in [pc : {"idle", "asked", "told"}, rec : Rec \cup {NoRec}]
      BY <1>1, <2>1
    <2>4. c.rec \in Rec /\ rec[c.rec].phase \in {"running", "failed", "stopped"}
      BY <1>1, <2>1, <2>2 DEF IInv, TasksFit, PhasesFit, PhaseFor
    <2>5. QED BY <2>2, <2>3, <2>4, CheckIInv
  <1>4. CASE CheckFails(k)
    <2>1. /\ task[k].pc = "told" /\ MarkFailed(k) /\ box' = box
          /\ UNCHANGED <<records, heldPorts, stopping, astray, controllerVars>>
      BY <1>4 DEF CheckFails, runtimeVars
    <2>2. QED BY <1>1, <2>1, MarkFailedIInv
  <1>5. ASSUME NEW p \in Project, CheckStarts(k, p)
        PROVE  IInv'
    <2>1. PICK c : c = [pc |-> "asked", rec |-> records[p]]
      OBVIOUS
    <2>2. /\ task[k].pc = "idle" /\ task' = [task EXCEPT ![k] = c]
          /\ UNCHANGED <<records, rec, heldPorts, stopping, runtimeVars, controllerVars>>
      BY <1>5, <2>1 DEF CheckStarts
    <2>3. records[p] \in Rec /\ rec[records[p]].phase = "running"
      BY <1>5 DEF CheckStarts, IInv, TypeOK
    <2>4. /\ c \in [pc : {"idle", "asked", "told"}, rec : Rec \cup {NoRec}]
          /\ c.rec \in Rec /\ rec[c.rec].phase \in {"running", "failed", "stopped"}
      BY <2>1, <2>3
    <2>5. QED BY <2>2, <2>4, CheckIInv
  <1>6. QED BY <1>2, <1>3, <1>4, <1>5 DEF CheckStep

LEMMA BoxIInv ==
  ASSUME IInv, NEW r \in Rec, BoxExits(r) \/ BoxComesLate(r) \/ AstrayEnds(r)
  PROVE  IInv'
  <1>1. /\ UNCHANGED <<serverVars, controllerVars>>
        /\ box' \in [Rec -> {"none", "up", "exited", "late"}] /\ astray' \subseteq Rec
    BY DEF BoxExits, BoxComesLate, AstrayEnds, IInv, TypeOK
  <1>2. \A q \in Rec : \/ box'[q] = "none"
                       \/ box[q] # "none" /\ (q \in astray => q \in astray')
    <2> SUFFICES ASSUME NEW q \in Rec, box'[q] # "none"
                 PROVE  box[q] # "none" /\ (q \in astray => q \in astray')
      OBVIOUS
    <2>1. box \in [Rec -> {"none", "up", "exited", "late"}]
      BY DEF IInv, TypeOK
    <2>2. BoxExits(r) \/ BoxComesLate(r) => box[q] # "none" /\ astray' = astray
      <3>1. CASE q = r
        BY <2>1, <3>1 DEF BoxExits, BoxComesLate
      <3>2. CASE q # r
        BY <2>1, <3>2 DEF BoxExits, BoxComesLate
      <3>3. QED BY <3>1, <3>2
    <2>3. AstrayEnds(r) => q # r /\ box'[q] = box[q] /\ astray' = astray \ {r}
      BY <2>1 DEF AstrayEnds
    <2>4. QED BY <2>2, <2>3
  <1>3. QED BY <1>1, <1>2, RuntimeIInv

LEMMA NextIInv == IInv /\ [Next]_vars => IInv'
  <1> SUFFICES ASSUME IInv, [Next]_vars PROVE IInv'
    OBVIOUS
  <1>1. ASSUME NEW p \in Project,
               Start(p) \/ StartRefused(p) \/ Restart(p) \/ RestartRefused(p) \/ Stop(p)
        PROVE  IInv'
    BY <1>1, ProjectIInv
  <1>2. ASSUME NEW r \in Rec, LaunchStep(r) PROVE IInv'
    BY <1>2, LaunchIInv
  <1>3. ASSUME NEW r \in Rec, StopEnds(r) PROVE IInv'
    BY <1>3, StopEndsIInv
  <1>4. ASSUME NEW k \in Check, CheckStep(k) PROVE IInv'
    BY <1>4, LivenessCheckIInv
  <1>5. ASSUME NEW t \in Task, LogsRead(t) \/ FailureReported(t) PROVE IInv'
    BY <1>5, LogsReadIInv, FailureReportedIInv
  <1>6. ASSUME NEW r \in Rec, BoxExits(r) \/ BoxComesLate(r) \/ AstrayEnds(r) PROVE IInv'
    BY <1>6, BoxIInv
  <1>7. CASE UNCHANGED vars
    <2>1. /\ UNCHANGED <<serverVars, runtimeVars>>
          /\ devServer' = devServer /\ served' = served /\ attempts' = attempts /\ tries' = tries
      BY <1>7 DEF vars, serverVars, runtimeVars
    <2>2. QED BY <2>1, ControllerIInv DEF IInv, TypeOK
  <1>8. QED BY <1>1, <1>2, <1>3, <1>4, <1>5, <1>6, <1>7 DEF Next

LEMMA SpecIInv == Spec => []IInv
  BY InitIInv, NextIInv, PTL DEF Spec

-----------------------------------------------------------------------------

(***************************************************************************)
(* The fields of every Dev_Server record, launch, check and teardown, the  *)
(* pool of ports and the controller's maps keep their types.               *)
(***************************************************************************)
THEOREM PreviewTypeOK == Spec => []TypeOK
  <1>1. IInv => TypeOK
    BY DEF IInv
  <1>2. QED BY <1>1, SpecIInv, PTL

(***************************************************************************)
(* Two live Dev_Servers never have one URL: whoever releases a port held   *)
(* it (releasePort), and a live record holds its own.                      *)
(***************************************************************************)
THEOREM UrlsAreUnique == Spec => []OneUrlEach
  <1>1. IInv => OneUrlEach
    BY DEF IInv, OneUrlEach, LiveIsCurrent, HeldOnce, Holds, Live
  <1>2. QED BY <1>1, SpecIInv, PTL

(***************************************************************************)
(* No port is lost: start() claims it with the record, and markFailed and  *)
(* the teardown of stop() share out who gives it back.                     *)
(***************************************************************************)
THEOREM PortsComeBack == Spec => []NoPortIsLost
  <1>1. IInv => NoPortIsLost
    <2> SUFFICES ASSUME IInv, NEW port \in heldPorts
                 PROVE  \E r \in Rec : /\ rec[r].port = port
                                       /\ rec[r].held
                                       /\ \/ Live(r) /\ records[rec[r].proj] = r
                                          \/ Failing(r) # {}
                                          \/ r \in stopping
      BY DEF NoPortIsLost
    <2>1. PICK r \in Rec : Holds(r) /\ rec[r].port = port
      BY DEF IInv, TakenIsHeld
    <2>2. Live(r) \/ Failing(r) # {} \/ r \in stopping
      BY <2>1 DEF IInv, HeldForReason
    <2>3. Live(r) => records[rec[r].proj] = r
      BY DEF IInv, LiveIsCurrent
    <2>4. QED BY <2>1, <2>2, <2>3 DEF Holds
  <1>2. QED BY <1>1, SpecIInv, PTL

(***************************************************************************)
(* A deliberate stop wins: the teardown that stop() chains onto the launch *)
(* comes after everything the launch may still make.                       *)
(***************************************************************************)
THEOREM StopLeavesNothing == Spec => []StoppedIsGone
  <1>1. IInv => StoppedIsGone
    BY DEF IInv
  <1>2. QED BY <1>1, SpecIInv, PTL

(***************************************************************************)
(* A URL the controller hands out is of a live server, of one that was     *)
(* stopped deliberately, or of one whose notifyExit is on its way.         *)
(***************************************************************************)
THEOREM HandlesAreHonest == Spec => []HandleIsHonest
  <1>1. IInv => HandleIsHonest
    BY DEF IInv
  <1>2. QED BY <1>1, SpecIInv, PTL

(***************************************************************************)
(* Nothing but markFailed, after it has read the logs and looked at the    *)
(* phase again, begins the removal that a report follows.                  *)
(***************************************************************************)
LEMMA RemovalBegins ==
  ASSUME IInv, Next, NEW t \in Task, task'[t].pc = "removing", task[t].pc # "removing"
  PROVE  rec[task[t].rec].phase # "stopped"
  <1>1. task \in [Task -> [pc : TaskPc, rec : Rec \cup {NoRec}]]
        /\ (\A q \in Rec : q \in Task) /\ (\A k \in Check : k \in Task)
    BY DEF IInv, TypeOK, Task
  <1>2. task' # task
    OBVIOUS
  <1>3. ASSUME NEW u \in Task, NEW pc \in TaskPc \ {"removing"},
               task' = [task EXCEPT ![u].pc = pc]
        PROVE  FALSE
    BY <1>1, <1>3, TaskMoves
  <1>4. ASSUME NEW u \in Task, Settled(u)
        PROVE  FALSE
    BY <1>1, <1>4, TaskSettles
  <1>5. ASSUME NEW u \in Task, NEW c, c.pc # "removing", task' = [task EXCEPT ![u] = c]
        PROVE  FALSE
    BY <1>1, <1>5
  <1>6. ASSUME NEW p \in Project, NEW r \in Rec, Starts(p, r)
        PROVE  FALSE
    <2>1. task' = [task EXCEPT ![r] = [pc |-> "launching", rec |-> r]]
      BY <1>2, <1>6 DEF Starts, StartsNew, StartsAgain, serverVars
    <2>2. QED BY <1>1, <1>5, <2>1
  <1>7. ASSUME NEW u \in Task, MarkFailed(u)
        PROVE  FALSE
    BY <1>3, <1>4, <1>7 DEF MarkFailed, TaskPc
  <1>8. ASSUME NEW r \in Rec, LaunchStep(r) \/ StopEnds(r)
        PROVE  FALSE
    BY <1>1, <1>2, <1>3, <1>4, <1>7, <1>8
       DEF LaunchStep, LaunchUp, LaunchFails, ProbeAnswered, ProbeFails, StopEnds, TaskPc
  <1>9. ASSUME NEW k \in Check, CheckStep(k)
        PROVE  FALSE
    <2>1. ASSUME NEW p \in Project, CheckStarts(k, p)
          PROVE  FALSE
      <3>1. task' = [task EXCEPT ![k] = [pc |-> "asked", rec |-> records[p]]]
        BY <2>1 DEF CheckStarts
      <3>2. QED BY <1>1, <1>5, <3>1
    <2>2. QED BY <1>1, <1>3, <1>4, <1>7, <1>9, <2>1
              DEF CheckStep, CheckPasses, CheckTold, CheckFails, TaskPc
  <1>10. ~ \E p \in Project :
            Start(p) \/ StartRefused(p) \/ Restart(p) \/ RestartRefused(p) \/ Stop(p)
    BY <1>2, <1>6 DEF Start, StartRefused, Restart, RestartRefused, Stop, serverVars
  <1>11. ~ \E r \in Rec : BoxExits(r) \/ BoxComesLate(r) \/ AstrayEnds(r)
    BY <1>2 DEF BoxExits, BoxComesLate, AstrayEnds, serverVars
  <1>12. PICK u \in Task : LogsRead(u) \/ FailureReported(u)
    BY <1>8, <1>9, <1>10, <1>11 DEF Next
  <1>13. LogsRead(u) /\ ~Settled(u)
    BY <1>4, <1>12 DEF FailureReported
  <1>14. rec[task[u].rec].phase # "stopped" /\ task' = [task EXCEPT ![u].pc = "removing"]
    BY <1>13 DEF LogsRead
  <1>15. u = t
    BY <1>1, <1>14
  <1>16. QED BY <1>14, <1>15

(***************************************************************************)
(* No launch, probe or liveness check brings a stopped record back, nor    *)
(* begins to report it as a failure: each looks at the phase again after   *)
(* its await.                                                              *)
(***************************************************************************)
THEOREM StopsAreFinal == Spec => StopIsFinal
  <1>1. IInv /\ [Next]_vars =>
          [\A r \in Rec : rec[r].phase = "stopped" /\ ~Garbage(r) =>
             /\ rec'[r].phase = "stopped"
             /\ \A t \in Task : task[t].rec = r /\ task'[t].pc = "removing"
                                  => task[t].pc = "removing"]_vars
    <2> SUFFICES ASSUME IInv, Next, NEW r \in Rec, rec[r].phase = "stopped", ~Garbage(r)
                 PROVE  rec'[r].phase = "stopped"
      BY RemovalBegins
    <2>1. rec \in [Rec -> Fields] /\ (\A q \in Rec : q \in Task)
          /\ (\A k \in Check : k \in Task)
      BY DEF IInv, TypeOK, Task
    <2>2. (rec' = rec) => rec'[r].phase = "stopped"
      OBVIOUS
    <2>3. ASSUME NEW p \in Project, NEW q \in Rec, Starts(p, q)
          PROVE  rec'[r].phase = "stopped"
      <3>1. StartsNew(p, q) => q # r
        BY DEF StartsNew
      <3>2. QED BY <2>1, <2>3, <3>1 DEF Starts, StartsNew, StartsAgain, serverVars
    <2>4. ASSUME NEW p \in Project, Stop(p)
          PROVE  rec'[r].phase = "stopped"
      BY <2>1, <2>4 DEF Stop, Fields
    <2>5. ASSUME NEW t \in Task, MarkFailed(t)
          PROVE  rec'[r].phase = "stopped"
      <3>1. CASE task[t].rec = r
        BY <2>5, <3>1 DEF MarkFailed
      <3>2. CASE task[t].rec # r
        BY <2>1, <2>5, <3>2 DEF MarkFailed
      <3>3. QED BY <3>1, <3>2
    <2>6. ASSUME NEW q \in Rec, NoLongerHeld(q)
          PROVE  rec'[r].phase = "stopped"
      BY <2>1, <2>6, HeldCleared
    <2>7. ASSUME NEW q \in Rec, ProbeAnswered(q)
          PROVE  rec'[r].phase = "stopped"
      BY <2>1, <2>7 DEF ProbeAnswered
    <2>8. ASSUME NEW t \in Task, LogsRead(t)
          PROVE  rec'[r].phase = "stopped"
      <3>1. task[t].rec \in Rec
        BY <2>8 DEF LogsRead, IInv, TasksFit
      <3>2. rec' = rec \/ NoLongerHeld(task[t].rec)
        BY <2>8 DEF LogsRead
      <3>3. QED BY <2>6, <3>1, <3>2
    <2>9. ASSUME NEW p \in Project,
                 Start(p) \/ StartRefused(p) \/ Restart(p) \/ RestartRefused(p)
          PROVE  rec'[r].phase = "stopped"
      BY <2>3, <2>9 DEF Start, StartRefused, Restart, RestartRefused, serverVars
    <2>10. ASSUME NEW q \in Rec, LaunchStep(q) \/ StopEnds(q)
           PROVE  rec'[r].phase = "stopped"
      BY <2>1, <2>2, <2>5, <2>6, <2>7, <2>10
         DEF LaunchStep, LaunchUp, LaunchFails, ProbeFails, StopEnds
    <2>11. ASSUME NEW k \in Check, CheckStep(k)
           PROVE  rec'[r].phase = "stopped"
      BY <2>1, <2>2, <2>5, <2>11 DEF CheckStep, CheckPasses, CheckTold, CheckFails, CheckStarts
    <2>12. ASSUME NEW q \in Rec, BoxExits(q) \/ BoxComesLate(q) \/ AstrayEnds(q)
           PROVE  rec'[r].phase = "stopped"
      BY <2>2, <2>12 DEF BoxExits, BoxComesLate, AstrayEnds, serverVars
    <2>13. ASSUME NEW t \in Task, FailureReported(t)
           PROVE  rec'[r].phase = "stopped"
      BY <2>2, <2>13 DEF FailureReported
    <2>14. QED BY <2>4, <2>8, <2>9, <2>10, <2>11, <2>12, <2>13 DEF Next
  <1>2. QED BY <1>1, SpecIInv, PTL DEF Spec, StopIsFinal
=============================================================================
