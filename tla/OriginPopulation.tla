--------------------------- MODULE OriginPopulation ---------------------------
(***************************************************************************)
(* A project is created, its origin populates it, and the tree is          *)
(* persisted: createProject and populateOrigin of project-manager.js, the  *)
(* branches of project-origins.js, and the stores of compose-runtime.js,   *)
(* which exist only for a registered project.  The user may delete the     *)
(* project at any await.  A tree is whole, part of one, or none.           *)
(***************************************************************************)
EXTENDS FiniteSets

CONSTANT Newborn \* projects created

VARIABLES
  originStep, \* where the creation of each is
  origin,
  enrolled,   \* registered projects
  housed,     \* projects with a sandbox boundary
  disk,       \* the persisted tree
  discarded   \* deleted by the user

originVars == <<originStep, origin, enrolled, housed, disk, discarded>>

Origin == {"blank", "template", "github-import", "fork"}
Populating == {"created", "cloning", "populated", "unpopulated"}

OriginInit ==
  /\ originStep = [p \in Newborn |-> "new"] /\ origin = [p \in Newborn |-> "blank"]
  /\ enrolled = {} /\ housed = {} /\ disk = [p \in Newborn |-> "none"] /\ discarded = {}

OriginTypeOK ==
  /\ originStep \in [Newborn -> {"new", "ok", "failed"} \cup Populating]
  /\ origin \in [Newborn -> Origin] /\ disk \in [Newborn -> {"none", "part", "whole"}]
  /\ enrolled \cup housed \cup discarded \subseteq Newborn

GoTo(p, step) == originStep' = [originStep EXCEPT ![p] = step]

-----------------------------------------------------------------------------
\* The owner's store is found through the registry.
\* (Mutant: it is kept after the project has gone.)
StoreKept(p) == TRUE
RequireStore(p) == p \in enrolled

\* createProject(): the boundary cannot be had, and the entry is taken back.
CreateFails(p) ==
  /\ originStep[p] = "new" /\ GoTo(p, "failed")
  /\ UNCHANGED <<origin, enrolled, housed, disk, discarded>>

CreateNewborn(p, o) ==
  /\ originStep[p] = "new" /\ GoTo(p, "created") /\ origin' = [origin EXCEPT ![p] = o]
  /\ enrolled' = enrolled \cup {p} /\ housed' = housed \cup {p} /\ UNCHANGED <<disk, discarded>>

\* The branches that do not wait; a template that cannot be used aborts.
PopulateBlank(p) == origin[p] = "blank" /\ GoTo(p, "populated") /\ UNCHANGED disk

AbortTemplate(p) ==
  /\ GoTo(p, "unpopulated")
  /\ disk' = IF RequireStore(p) THEN [disk EXCEPT ![p] = "none"] ELSE disk

PopulateTemplate(p) ==
  /\ origin[p] = "template"
  /\ \/ GoTo(p, "populated") /\ UNCHANGED disk
     \/ GoTo(p, "unpopulated") /\ UNCHANGED disk
     \/ AbortTemplate(p)

PopulateFork(p) ==
  /\ origin[p] = "fork" /\ UNCHANGED disk
  /\ GoTo(p, "populated") \/ GoTo(p, "unpopulated")

\* Not authorized, or the clone begins.
BeginImport(p) ==
  /\ origin[p] = "github-import" /\ UNCHANGED disk
  /\ GoTo(p, "cloning") \/ GoTo(p, "unpopulated")

Populate(p) ==
  /\ originStep[p] = "created"
  /\ PopulateBlank(p) \/ PopulateTemplate(p) \/ PopulateFork(p) \/ BeginImport(p)
  /\ UNCHANGED <<origin, enrolled, housed, discarded>>

\* The cloner runs a command: exec acquires the boundary when it is gone.
CloneExec(p) ==
  /\ originStep[p] = "cloning" /\ housed' = housed \cup {p}
  /\ UNCHANGED <<originStep, origin, enrolled, disk, discarded>>

\* Cloned in its time, or not; the boundary is released in either case.
\* (Mutant: only when it is a failure.)
ReleasedOnFailure(p, ok) == IF ok THEN housed ELSE housed \ {p}
Released(p, ok) == housed \ {p}

CloneEnds(p, ok) ==
  /\ originStep[p] = "cloning" /\ GoTo(p, IF ok THEN "populated" ELSE "unpopulated")
  /\ housed' = Released(p, ok) /\ UNCHANGED <<origin, enrolled, disk, discarded>>

\* rollbackAfterAcquire().  (Mutant: the entry stays.)
ReleaseOnly(p) == GoTo(p, "failed") /\ housed' = housed \ {p} /\ UNCHANGED enrolled
RollbackAfterAcquire(p) ==
  GoTo(p, "failed") /\ housed' = housed \ {p} /\ enrolled' = enrolled \ {p}

OriginRefused(p) ==
  /\ originStep[p] = "unpopulated" /\ RollbackAfterAcquire(p)
  /\ UNCHANGED <<origin, disk, discarded>>

OriginPersisted(p) ==
  /\ originStep[p] = "populated" /\ RequireStore(p) /\ GoTo(p, "ok")
  /\ disk' = [disk EXCEPT ![p] = "whole"] /\ UNCHANGED <<origin, enrolled, housed, discarded>>

\* There is no store any more, or the flush fails, perhaps half way.
OriginPersistFails(p) ==
  /\ originStep[p] = "populated" /\ RollbackAfterAcquire(p)
  /\ \/ UNCHANGED disk
     \/ RequireStore(p) /\ disk' = [disk EXCEPT ![p] = "part"]
  /\ UNCHANGED <<origin, discarded>>

\* deleteProject() of the retention service.
Discard(p) ==
  /\ p \in enrolled /\ enrolled' = enrolled \ {p} /\ housed' = housed \ {p}
  /\ disk' = [disk EXCEPT ![p] = "none"] /\ discarded' = discarded \cup {p}
  /\ UNCHANGED <<originStep, origin>>

OriginNext ==
  \E p \in Newborn :
    \/ CreateFails(p) \/ Populate(p) \/ CloneExec(p) \/ OriginRefused(p)
    \/ OriginPersisted(p) \/ OriginPersistFails(p) \/ Discard(p)
    \/ \E o \in Origin : CreateNewborn(p, o)
    \/ \E ok \in BOOLEAN : CloneEnds(p, ok)

-----------------------------------------------------------------------------
\* A creation that is reported as done has left the whole tree of a registered
\* project; one that failed has left no entry and no boundary, and of a tree
\* at most a part; and a project deleted meanwhile is not written again, nor
\* has it a boundary once its creation has ended.  An import has given its
\* boundary back in every case.
OriginIsWhole ==
  \A p \in Newborn :
    /\ originStep[p] = "ok" /\ p \notin discarded => p \in enrolled /\ disk[p] = "whole"
    /\ originStep[p] = "ok" /\ origin[p] = "github-import" => p \notin housed
    /\ originStep[p] = "failed" => p \notin enrolled \cup housed /\ disk[p] # "whole"
    /\ p \in discarded => disk[p] = "none" /\ (originStep[p] \notin Populating => p \notin housed)
=============================================================================
