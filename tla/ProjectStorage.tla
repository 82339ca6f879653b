--------------------------- MODULE ProjectStorage ---------------------------
(***************************************************************************)
(* What a project keeps on disk: PersistenceStore and SnapshotStore over   *)
(* one working tree, with the agent that edits the tree, the fork that     *)
(* reads it, the deletion of the project (src/ops/retention.js) and        *)
(* crashes of the process.  Projects share nothing, so one is enough.      *)
(***************************************************************************)
EXTENDS PersistenceStore, SnapshotStore

CONSTANT Saves \* the trees that callers save as snapshots (a bound)

ASSUME SavesAssumption == Saves \subseteq Tree

VARIABLES
  life,       \* auxiliary: "live", "deleted", or "cut": a deletion stopped
              \* half way and was not tried again
  forked      \* a fork of the project was made

vars == <<disk, pending, asked, snapshotVars, life, forked>>

Lives == {"live", "deleted", "cut"}

\* A deleted project that somebody writes to is there again.
Revived == life' = IF life = "deleted" THEN "live" ELSE life

Init ==
  /\ disk = EmptyTree
  /\ PersistenceInit
  /\ SnapshotInit
  /\ life = "live"
  /\ forked = FALSE

-----------------------------------------------------------------------------

Edit ==
  /\ \E f \in File, c \in Content \cup {Absent} :
       /\ EditFile(f, c)
       /\ NobodyAsks({f})
  /\ Revived
  /\ UNCHANGED <<pending, snapshotVars, forked>>

Ask ==
  /\ \E t \in Tree : Persist(t) \/ (Named(t) # {} /\ PersistPartial(t))
  /\ Revived
  /\ UNCHANGED <<snapshotVars, forked>>

WritePending ==
  /\ Flush \/ TimerFires
  /\ UNCHANGED <<snapshotVars, life, forked>>

Save ==
  /\ \E t \in Saves :
       CommitSnapshot(t) \/ CommitFails(t) \/ CommitRollsBack(t) \/ RollbackFails(t)
  /\ NobodyAsks(File)
  /\ Revived
  /\ UNCHANGED <<pending, forked>>

\* A user's restore, and the restore of the latest snapshot by resume().
RestoreSnapshot ==
  /\ \E c \in Recorded : Restore(c) \/ RestoreCut(c)
  /\ NobodyAsks(File)
  /\ UNCHANGED <<pending, life, forked>>

\* populateFork of another project reads the latest snapshot by restoring it
\* here; without a snapshot it only reads the tree.
Fork ==
  /\ ~forked
  /\ forked' = TRUE
  /\ IF registry # <<>> THEN Restore(Latest) /\ NobodyAsks(File)
                        ELSE UNCHANGED <<disk, snapshotVars, asked>>
  /\ UNCHANGED <<pending, life>>

-----------------------------------------------------------------------------
(***************************************************************************)
(* deleteProject: the tree and the repository in it, then the registry.    *)
(***************************************************************************)
Delete ==
  /\ ForgetWrite
  /\ disk' = EmptyTree
  /\ RepoGone
  /\ registry' = <<>>
  /\ NobodyAsks(File)
  /\ life' = "deleted"
  /\ UNCHANGED forked

\* A step throws or the process dies before the registry is gone.
DeleteCut ==
  /\ ForgetWrite
  /\ \E R \in SUBSET File : disk' = Overlay(disk, EmptyTree, R)
  /\ RepoGone \/ UNCHANGED <<repo, head, commits, torn>>
  /\ NobodyAsks(File)
  /\ life' = "cut"
  /\ UNCHANGED <<registry, forked>>

-----------------------------------------------------------------------------
(***************************************************************************)
(* A crash: what was pending is lost, and the call that was running stops. *)
(***************************************************************************)
Lost == ForgetWrite /\ NobodyAsks(File) /\ UNCHANGED forked

Crash == Lost /\ UNCHANGED <<disk, snapshotVars, life>>

CrashInWrite ==
  /\ pending # NoWrite
  /\ \/ \E s \in Failed(Store) : disk' = s.disk
     \/ /\ pending.prune
        /\ \E R \in SUBSET (File \ Named(pending.entries)) :
             disk' = Overlay(Laid(Store, Named(pending.entries)), EmptyTree, R)
  /\ Lost
  /\ UNCHANGED <<snapshotVars, life>>

CrashInSave ==
  /\ \E t \in Saves : CrashBeforeCommit(t) \/ CrashBeforeRecord(t)
  /\ Lost
  /\ Revived

Next ==
  \/ Edit \/ Ask \/ WritePending
  \/ Save \/ RestoreSnapshot \/ Fork
  \/ Delete \/ DeleteCut
  \/ Crash \/ CrashInWrite \/ CrashInSave

Spec == Init /\ [][Next]_vars

-----------------------------------------------------------------------------

TypeOK ==
  /\ disk \in Tree
  /\ pending \in Pending \cup {NoWrite}
  /\ asked \in [File -> Content \cup {Absent, Unasked, Blended}]
  /\ repo \in BOOLEAN
  /\ head \in Commit \cup {NoCommit}
  /\ commits \in [Commit -> Tree \cup {NoTree}]
  /\ registry \in Seq(Commit)
  /\ torn \subseteq Commit
  /\ life \in Lives
  /\ forked \in BOOLEAN

(***************************************************************************)
(* No write is lost: what the last call that spoke for a file wants it to  *)
(* be, present or gone, is on disk or still pending as a write that will   *)
(* make it so, through coalescing, the flush of the other kind and failed  *)
(* tries, until somebody else changes the file (audit C3).  One exception: *)
(* a full write whose flush failed twice is merged with the partial one    *)
(* that comes, and the files it left out are no longer pruned, although    *)
(* persistence-store.js:280-283 says that the kinds "MUST NOT silently     *)
(* merge into one another" and 308 that "we never blend pruning and        *)
(* non-pruning semantics into a single write".  Those files are Blended.   *)
(***************************************************************************)
NoWriteIsLost ==
  \A f \in File : asked[f] \in Content \cup {Absent} =>
     \/ disk[f] = asked[f]
     \/ /\ pending # NoWrite /\ pending.entries[f] = asked[f]
        /\ asked[f] = Absent => pending.prune

(***************************************************************************)
(* Nothing comes back: once deleteProject is done there is no file, no     *)
(* repository, no record and no write that could bring one back, until     *)
(* somebody writes to the project again.                                   *)
(***************************************************************************)
DeletedStaysDeleted ==
  life = "deleted" =>
    /\ disk = EmptyTree
    /\ ~repo /\ registry = <<>>
    /\ pending = NoWrite

(***************************************************************************)
(* Every recorded snapshot can be restored, whatever failed or crashed: a  *)
(* commit is made before it is recorded, and the records go last only in a *)
(* deletion.                                                               *)
(***************************************************************************)
RecordedIsReadable == life # "cut" => \A c \in Recorded : Readable(c)

(***************************************************************************)
(* HEAD is a recorded snapshot: a save that fails leaves no commit behind  *)
(* (Req 19.4), except one a crash or a failing rollback cut off.           *)
(***************************************************************************)
HeadIsRecorded == life # "cut" => head \in Recorded \cup torn \cup {NoCommit}

(***************************************************************************)
(* Only a deletion ends a snapshot: no save, failed save, rollback,        *)
(* restore of an older snapshot or crash makes one unreadable.             *)
(***************************************************************************)
SnapshotsSurvive ==
  [][life' \notin {"deleted", "cut"} =>
       \A c \in Recorded : Readable(c) => Readable(c)']_vars

-----------------------------------------------------------------------------
(***************************************************************************)
(* project-origins.js:42: a fork "can NEVER touch the origin's files"; its *)
(* test says that "the origin's durable state is untouched".  Making a     *)
(* fork leaves the working tree of the origin as it was.                   *)
(***************************************************************************)
ForkSparesOrigin == [][forked' # forked => disk' = disk]_vars
=============================================================================
