----------------------------- MODULE SandboxUsage -----------------------------
(***************************************************************************)
(* The accounting that server/compose-runtime.js wraps around the          *)
(* SandboxManager: which boundaries count as in use for the quota, and     *)
(* which idle ones are released.  A sweep runs inside the quota check of a *)
(* request and its releases start in the microtasks after that request's   *)
(* synchronous part, so only that request acquires in between.             *)
(***************************************************************************)
EXTENDS Naturals, FiniteSets

CONSTANTS
  UsageProject,
  MaxRuns,     \* bound: commands of one project in flight
  MaxTeardowns \* bound: releases of one project under way

ASSUME UsageAssumption == {MaxRuns, MaxTeardowns} \subseteq Nat

VARIABLES
  boundary,   \* manager.activeProjectIds()
  lastUsed,   \* none, or whether that was within idleMs
  inFlight,   \* exec() runs under way, per project
  reclaiming, \* reclaiming
  scheduled,  \* releases that the microtasks of this turn will start
  teardown,   \* such releases under way
  dropping,   \* releases that somebody asked for, under way
  wanted,     \* auxiliary: acquired again since the sweep chose them
  undermined, \* auxiliary: used again while such a release was under way
  struck,     \* auxiliary: torn down although it was in use when that began
  released    \* auxiliary: somebody's release came during a teardown

usageVars == <<boundary, lastUsed, inFlight, reclaiming, scheduled, teardown, dropping,
               wanted, undermined, struck, released>>
countVars == <<inFlight, teardown, dropping, undermined, struck, released>>

Zero == [p \in UsageProject |-> 0]

UsageInit ==
  /\ boundary = {} /\ lastUsed = [p \in UsageProject |-> "none"] /\ inFlight = Zero
  /\ reclaiming = {} /\ scheduled = {} /\ teardown = Zero /\ dropping = Zero
  /\ wanted = {} /\ undermined = {} /\ struck = {} /\ released = {}

UsageTypeOK ==
  /\ lastUsed \in [UsageProject -> {"none", "fresh", "idle"}]
  /\ inFlight \in [UsageProject -> 0..MaxRuns]
  /\ {teardown, dropping} \subseteq [UsageProject -> 0..MaxTeardowns]
  /\ boundary \cup reclaiming \cup scheduled \cup wanted \cup undermined \cup struck
       \cup released \subseteq UsageProject

-----------------------------------------------------------------------------
\* Using a boundary again cancels its pending reclamation.
TouchUsage(p) ==
  /\ lastUsed' = [lastUsed EXCEPT ![p] = "fresh"] /\ reclaiming' = reclaiming \ {p}
  /\ released' = released \ {p}

\* Nothing cancels a release() that has already begun.
UsedDuringTeardown(p) ==
  undermined' = IF teardown[p] > 0 THEN undermined \cup {p} ELSE undermined

AcquireBoundary(p) ==
  /\ TouchUsage(p) /\ boundary' = boundary \cup {p}
  /\ wanted' = IF p \in scheduled THEN wanted \cup {p} ELSE wanted
  /\ UsedDuringTeardown(p)
  /\ UNCHANGED <<inFlight, scheduled, teardown, dropping, struck>>

StartRun(p) ==
  /\ scheduled = {} /\ inFlight[p] < MaxRuns /\ TouchUsage(p)
  /\ inFlight' = [inFlight EXCEPT ![p] = @ + 1] /\ boundary' = boundary \cup {p}
  /\ UsedDuringTeardown(p)
  /\ UNCHANGED <<scheduled, teardown, dropping, wanted, struck>>

\* The manager may have released a boundary it acquired for this run alone.
EndRun(p) ==
  /\ scheduled = {} /\ inFlight[p] > 0 /\ TouchUsage(p)
  /\ inFlight' = [inFlight EXCEPT ![p] = @ - 1]
  /\ boundary' \in IF inFlight[p] = 1 THEN {boundary, boundary \ {p}} ELSE {boundary}
  /\ UNCHANGED <<scheduled, teardown, dropping, wanted, undermined, struck>>

BoundaryIdles(p) ==
  /\ scheduled = {} /\ lastUsed[p] = "fresh" /\ lastUsed' = [lastUsed EXCEPT ![p] = "idle"]
  /\ UNCHANGED <<boundary, reclaiming, scheduled, wanted, countVars>>

\* activeProjectIdsInUse(): one never seen counts, and its clock starts.
InUse == {p \in boundary \ reclaiming : lastUsed[p] # "idle"}

\* reclaimIdle() and the count: forget what is gone, start the clock of what
\* was never seen, choose what is idle and runs nothing.
IdleNow == {p \in boundary \ reclaiming : inFlight[p] = 0 /\ lastUsed[p] = "idle"}
CheckQuota ==
  /\ scheduled = {} /\ scheduled' = IdleNow /\ reclaiming' = reclaiming \cup IdleNow
  /\ lastUsed' = [p \in UsageProject |->
       IF p \notin boundary \/ p \in IdleNow THEN "none"
       ELSE IF lastUsed[p] = "none" /\ p \notin reclaiming THEN "fresh" ELSE lastUsed[p]]
  /\ wanted' = {} /\ UNCHANGED <<boundary, countVars>>

\* The microtask stands down when somebody used the boundary since.
\* (Mutant: it does not look.)
AlwaysGoes(p) == TRUE
StillIdle(p) == lastUsed[p] = "none"

StartReclaim(p) ==
  /\ p \in scheduled /\ scheduled' = scheduled \ {p}
  /\ IF StillIdle(p)
     THEN /\ teardown[p] < MaxTeardowns /\ teardown' = [teardown EXCEPT ![p] = @ + 1]
          /\ struck' = IF p \in wanted \/ inFlight[p] > 0 THEN struck \cup {p} ELSE struck
          /\ UNCHANGED reclaiming
     ELSE reclaiming' = reclaiming \ {p} /\ UNCHANGED <<teardown, struck>>
  /\ UNCHANGED <<boundary, lastUsed, inFlight, dropping, wanted, undermined, released>>

\* The entry goes and the containers with the project's label are reaped, also
\* those of a run that began meanwhile.
ReclaimEnds(p) ==
  /\ scheduled = {} /\ teardown[p] > 0 /\ teardown' = [teardown EXCEPT ![p] = @ - 1]
  /\ boundary' = boundary \ {p} /\ reclaiming' = reclaiming \ {p}
  /\ struck' = IF inFlight[p] > 0 /\ p \notin undermined THEN struck \cup {p} ELSE struck
  /\ undermined' = IF teardown[p] = 1 THEN undermined \ {p} ELSE undermined
  /\ UNCHANGED <<lastUsed, inFlight, scheduled, dropping, wanted, released>>

\* release() of the wrapper, which awaits the manager's.
ReleaseBoundary(p) ==
  /\ scheduled = {} /\ dropping[p] < MaxTeardowns /\ dropping' = [dropping EXCEPT ![p] = @ + 1]
  /\ lastUsed' = [lastUsed EXCEPT ![p] = "none"] /\ reclaiming' = reclaiming \ {p}
  /\ released' = released \cup {p}
  /\ UNCHANGED <<boundary, inFlight, scheduled, teardown, wanted, undermined, struck>>

\* That release ends, or the manager's own eviction took an idle entry.
BoundaryGoes(p) ==
  /\ scheduled = {}
  /\ \/ dropping[p] > 0 /\ dropping' = [dropping EXCEPT ![p] = @ - 1]
     \/ p \in boundary /\ inFlight[p] = 0 /\ UNCHANGED dropping
  /\ boundary' = boundary \ {p}
  /\ UNCHANGED <<lastUsed, inFlight, reclaiming, scheduled, teardown, wanted, undermined,
                 struck, released>>

UsageNext ==
  \/ CheckQuota
  \/ \E p \in UsageProject :
        \/ AcquireBoundary(p) \/ StartRun(p) \/ EndRun(p) \/ BoundaryIdles(p)
        \/ StartReclaim(p) \/ ReclaimEnds(p) \/ ReleaseBoundary(p) \/ BoundaryGoes(p)

-----------------------------------------------------------------------------
\* A sweep never begins to tear down a boundary that was acquired after it was
\* chosen, or one with a run in flight, and a teardown ends under a run only if
\* that run began in the awaits of this very release (compose-runtime.js:806).
\* That window stays open, although lines 723-724 say that "Reclamation must
\* never tear down a boundary that is running a command": touch() deletes the mark
\* of the reclaim and cannot stop it.  What was used within idleMs is counted;
\* what a reclaim is tearing down is not, until it is used or released otherwise.
UsageIsCounted ==
  /\ struck = {}
  /\ \A p \in boundary :
       /\ lastUsed[p] = "fresh" => p \in InUse
       /\ (teardown[p] > 0 /\ lastUsed[p] = "none" /\ p \notin released) => p \notin InUse
=============================================================================
