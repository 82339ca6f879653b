----------------------------- MODULE Publishing ------------------------------
(***************************************************************************)
(* From a project's tree to its visitors: project/container-build.js and   *)
(* build-service.js make an artifact, self-hosted-deploy.js stages it as a *)
(* release, swaps the link and prunes.  buildTargets of multi-target.js    *)
(* builds one target after the other, the mobile one by mobile-build-      *)
(* service.js.  A content is the number of the edit it has.                *)
(***************************************************************************)
EXTENDS Naturals, Sequences, FiniteSets

CONSTANTS
  Job,          \* builds and deploys that overlap
  Stamp,        \* names of releases: a clock that is set back reuses low ones
  ReleasesKept, \* releasesKept
  MaxEdits      \* bound: edits of the tree

ASSUME PublishingAssumption ==
  /\ Stamp \subseteq Nat \ {0} /\ ReleasesKept \in Nat \ {0} /\ MaxEdits \in Nat

VARIABLES
  edits,     \* the tree, as the number of its last edit
  artifact,  \* per target, the bytes at its artifact path (0: no file)
  tracked,   \* targets in the artifacts Maps
  job,       \* what each call waits for
  release,   \* per name: absent, incomplete, or the number of its content
  current,   \* the release the link points to, or 0
  deployed,  \* deployedState: a URL is recorded
  reported,  \* auxiliary: content of the last deploy reported as done
  late,      \* auxiliary: content of a later deploy, reported failed after its swap
  litter     \* auxiliary: release directories that a failure left behind

publishVars == <<edits, artifact, tracked, job, release, current, deployed, reported, late,
                 litter>>
siteVars == <<release, current, deployed, reported, late, litter>>

Absent == 0
Incomplete == MaxEdits + 2
NoJob == [does |-> "nothing"]

PublishInit ==
  /\ edits = 1 /\ artifact = [t \in {"web", "mobile"} |-> 0] /\ tracked = {}
  /\ job = [j \in Job |-> NoJob]
  /\ release = [s \in Stamp |-> Absent] /\ current = 0 /\ deployed = FALSE
  /\ reported = 0 /\ late = 0 /\ litter = {}

Present == {s \in Stamp : release[s] # Absent}

PublishTypeOK ==
  /\ edits \in 1..MaxEdits + 1 /\ artifact \in [{"web", "mobile"} -> 0..MaxEdits + 1]
  /\ tracked \subseteq {"web", "mobile"} /\ current \in Stamp \cup {0}
  /\ release \in [Stamp -> 0..Incomplete]
  /\ litter \subseteq Stamp /\ deployed \in BOOLEAN /\ {reported, late} \subseteq 0..MaxEdits + 1

Becomes(j, what) == job' = [job EXCEPT ![j] = what]
Frees(j) == Becomes(j, NoJob)

-----------------------------------------------------------------------------
EditTree ==
  /\ edits <= MaxEdits /\ edits' = edits + 1
  /\ UNCHANGED <<artifact, tracked, job, siteVars>>

\* build() of build-service.js or buildTargets(): refused at once, or the
\* first target's build is on its way into the sandbox.
Building(todo) == [does |-> "build", todo |-> todo]

StartBuild(j) ==
  /\ job[j] = NoJob /\ Becomes(j, Building(<<"web">>))
  /\ UNCHANGED <<edits, artifact, tracked, siteVars>>

BuildTargets(j) ==
  /\ job[j] = NoJob /\ Becomes(j, Building(<<"web", "mobile">>))
  /\ UNCHANGED <<edits, artifact, tracked, siteVars>>

Builds(j, t) == job[j].does = "build" /\ Head(job[j].todo) = t

\* The loop goes on after a failure too; after the last target it reports.
NextTarget(j) ==
  IF Len(job[j].todo) = 1 THEN Frees(j) ELSE Becomes(j, Building(Tail(job[j].todo)))

\* The artifact is written, then remembered.  Packed is the first output
\* directory that is not empty: of this run, or of one before it.
Stored(t, contents) ==
  /\ \E e \in contents : artifact' = [artifact EXCEPT ![t] = e]
  /\ tracked' = tracked \cup {t}

\* The run ends: refused, denied, timed out, failed, or packaged and stored.
BuildFails(j) ==
  /\ Builds(j, "web") /\ NextTarget(j)
  /\ UNCHANGED <<edits, artifact, tracked, siteVars>>

BuildSucceeds(j) ==
  /\ Builds(j, "web") /\ NextTarget(j) /\ Stored("web", 1..edits)
  /\ UNCHANGED <<edits, siteVars>>

\* buildMobile(): no toolchain, too slow without its time in the queue, or
\* failed; whatever the boundary made is then left where it is.  What a mobile
\* artifact holds is the boundary's affair: it is there or it is not.
MobileBuildFails(j) ==
  /\ Builds(j, "mobile") /\ NextTarget(j)
  /\ UNCHANGED <<edits, artifact, tracked, siteVars>>

MobileBuildSucceeds(j) ==
  /\ Builds(j, "mobile") /\ NextTarget(j) /\ Stored("mobile", {1})
  /\ UNCHANGED <<edits, siteVars>>

\* deploy(): findArtifact(), then the guard is asked about the command.
StartDeploy(j) ==
  /\ job[j] = NoJob /\ "web" \in tracked /\ Becomes(j, [does |-> "deploy"])
  /\ UNCHANGED <<edits, artifact, tracked, siteVars>>

\* Refused, denied, thrown, or a destination and an artifact that do not fit.
DeployRefused(j) ==
  /\ job[j].does = "deploy" /\ Frees(j)
  /\ UNCHANGED <<edits, artifact, tracked, siteVars>>

\* The staging fails, or the swap; the directory is removed if it can be.
StageFails(j, s) ==
  /\ job[j].does = "deploy" /\ Frees(j) /\ release[s] = Absent
  /\ \/ UNCHANGED <<release, litter>>
     \/ release' = [release EXCEPT ![s] = Incomplete] /\ litter' = litter \cup {s}
  /\ UNCHANGED <<edits, artifact, tracked, current, deployed, reported, late>>

\* pruneReleases(): the names that sort first, never the one just published.
\* (Mutant: the one just published is not spared.)
DoomedOfAll(all, keep) ==
  {s \in all : Cardinality({r \in all : r < s}) < Cardinality(all) - ReleasesKept}
Doomed(all, keep) ==
  {s \in all \ {keep} :
     Cardinality({r \in all \ {keep} : r < s}) + ReleasesKept < Cardinality(all)}

\* Staged, swapped, pruned without a pause; the clock may have run out.
DeployPublishes(j, s) ==
  /\ job[j].does = "deploy" /\ Frees(j) /\ release[s] = Absent
  /\ current' = s
  /\ \E gone \in SUBSET Doomed(Present \cup {s}, s) :
       /\ release' = [r \in Stamp |-> IF r \in gone THEN Absent
                                      ELSE IF r = s THEN artifact["web"] ELSE release[r]]
       /\ litter' = (litter \cup Doomed(Present \cup {s}, s)) \ gone
  /\ \/ /\ deployed' = TRUE /\ reported' = artifact["web"] /\ late' = 0
     \/ /\ late' = artifact["web"] /\ UNCHANGED <<deployed, reported>>
  /\ UNCHANGED <<edits, artifact, tracked>>

\* The process dies, in the middle of a staging perhaps: the Maps are gone.
PublisherDies ==
  /\ job' = [j \in Job |-> NoJob] /\ tracked' = {} /\ deployed' = FALSE
  /\ \/ UNCHANGED <<release, litter>>
     \/ \E j \in Job, s \in Stamp :
          /\ job[j].does = "deploy" /\ release[s] = Absent
          /\ release' = [release EXCEPT ![s] = Incomplete] /\ litter' = litter \cup {s}
  /\ UNCHANGED <<edits, artifact, current, reported, late>>

PublishNext ==
  \/ EditTree \/ PublisherDies
  \/ \E j \in Job :
        \/ StartBuild(j) \/ BuildFails(j) \/ BuildSucceeds(j)
        \/ BuildTargets(j) \/ MobileBuildFails(j) \/ MobileBuildSucceeds(j)
        \/ StartDeploy(j) \/ DeployRefused(j)
        \/ \E s \in Stamp : StageFails(j, s) \/ DeployPublishes(j, s)

-----------------------------------------------------------------------------
Served == IF current = 0 THEN 0 ELSE release[current]

\* Visitors always find a whole release, and it is the one last reported as
\* deployed, or that of a later deploy which ran out of its time after the swap
\* and was reported failed: the exception that FailedDeployChangesNothing shows.
\* Releases do not pile up beyond those kept and those a failure left behind;
\* and an artifact that is remembered is on disk.
PublishedIsServed ==
  /\ current # 0 => release[current] \notin {Absent, Incomplete}
  /\ Served = IF late # 0 THEN late ELSE reported
  /\ Cardinality(Present \ litter) <= ReleasesKept
  /\ \A t \in tracked : artifact[t] # 0

\* What build-service.js:325-326 and 501-503 say of a deploy: "On failure/timeout the
\* cause is reported and the PRIOR deployed state is left byte-for-byte
\* unchanged", so that visitors find what was last reported as deployed.
FailedDeployChangesNothing == Served = reported
=============================================================================
