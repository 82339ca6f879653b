--------------------------- MODULE SnapshotStore ---------------------------
(***************************************************************************)
(* Snapshots of a project as commits of its own git repository, gated by a *)
(* registry outside the tree (src/persistence/snapshot-store.js).  Every   *)
(* call is synchronous, so only a failing step or a crash cuts one short.  *)
(***************************************************************************)
EXTENDS WorkingTree

CONSTANTS
  Commit,     \* the commits an instance may make
  NoCommit,   \* an unborn branch
  NoTree      \* no such commit object

ASSUME NoSnapshotAssumption == NoCommit \notin Commit /\ NoTree \notin Tree

VARIABLES
  repo,       \* the .git directory exists
  head,       \* the commit of the branch
  commits,    \* commit -> the tree it holds
  registry,   \* the recorded snapshots, oldest first
  torn        \* auxiliary: commits that a crash or a failing rollback cut off
              \* from their record

snapshotVars == <<repo, head, commits, registry, torn>>

Recorded == {registry[i] : i \in 1..Len(registry)}

Latest == registry[Len(registry)]

Fresh == {c \in Commit : commits[c] = NoTree /\ c \notin Recorded \cup torn}

\* (Mutant: the map of a commit has no entry for an ignored path.)
TrackedOnly(t) == [f \in File \ Ignored |-> t[f]]

\* What `git add -A` takes of a tree.
Tracked(t) == Overlay(t, EmptyTree, Ignored)

\* Ignored files survive `git reset --hard` and `git clean -fd`.
CheckedOut(base, c) == Overlay(commits[c], base, Ignored)

\* `git reset --hard c` alone: the files of neither c nor the index stay.
HardReset(base, c, index) ==
  [f \in File |->
     IF f \in Ignored THEN base[f] ELSE
     IF commits[c][f] = Absent /\ f \notin index THEN base[f] ELSE commits[c][f]]

Index == IF head = NoCommit THEN {} ELSE Named(commits[head])

-----------------------------------------------------------------------------
(***************************************************************************)
(* commitSnapshot: the tree is wiped and filled, added and committed, then *)
(* the registry is rewritten.                                              *)
(***************************************************************************)
NewCommit(c, t) ==
  /\ repo' = TRUE
  /\ head' = c
  /\ commits' = [commits EXCEPT ![c] = Tracked(t)]

CommitSnapshot(t) ==
  \E c \in Fresh :
    /\ NewCommit(c, t)
    /\ registry' = Append(registry, c)
    /\ disk' = t
    /\ UNCHANGED torn

\* How far a commit that is not made may get: to the repository, to a part of
\* the wipe, to some of the files, or to the index.
Stages(t) ==
  {[tree |-> disk, repo |-> r, index |-> Index] : r \in {repo, TRUE}}
  \cup {[tree |-> Overlay(disk, EmptyTree, R), repo |-> TRUE, index |-> Index] :
           R \in SUBSET Named(disk)}
  \cup {[tree |-> Overlay(EmptyTree, t, S), repo |-> TRUE, index |-> Index] :
           S \in SUBSET Named(t)}
  \cup {[tree |-> t, repo |-> TRUE, index |-> Named(Tracked(t))]}

StoppedAt(stage) ==
  /\ repo' = stage.repo
  /\ UNCHANGED <<head, commits, registry, torn>>

\* A git step fails before there is a commit; the residue is reset, if git
\* can, to the commit that HEAD still names.
CommitFails(t) ==
  \E stage \in Stages(t) :
    /\ StoppedAt(stage)
    /\ \/ disk' = stage.tree
       \/ head # NoCommit /\ disk' = HardReset(stage.tree, head, stage.index)

\* The registry cannot be written: HEAD goes back to the parent, or the
\* branch is unborn again and the tree is emptied.
RolledBack(t) == IF head = NoCommit THEN EmptyTree ELSE CheckedOut(t, head)

\* (Mutants: HEAD stays at the unrecorded commit; the rollback starts the
\* repository anew.)
CommitStays(t) ==
  \E c \in Fresh : NewCommit(c, t) /\ disk' = t /\ UNCHANGED <<registry, torn>>

CommitStartsAnew(t) ==
  /\ Fresh # {}
  /\ repo' = TRUE
  /\ head' = NoCommit
  /\ commits' = [c \in Commit |-> NoTree]
  /\ disk' = EmptyTree
  /\ UNCHANGED <<registry, torn>>

CommitRollsBack(t) ==
  /\ Fresh # {}
  /\ repo' = TRUE
  /\ disk' = RolledBack(t)
  /\ UNCHANGED <<head, commits, registry, torn>>

RollbackFails(t) ==
  \E c \in Fresh :
    /\ NewCommit(c, t)
    /\ torn' = torn \cup {c}
    /\ disk' = IF head = NoCommit THEN EmptyTree ELSE t
    /\ UNCHANGED registry

\* The process dies inside commitSnapshot.
CrashBeforeCommit(t) ==
  \E stage \in Stages(t) : StoppedAt(stage) /\ disk' = stage.tree

\* (Mutant: the record is written before the commit is made.)
CrashAfterRecord(t) ==
  /\ \E c \in Fresh : registry' = Append(registry, c)
  /\ repo' = TRUE
  /\ disk' = t
  /\ UNCHANGED <<head, commits, torn>>

CrashBeforeRecord(t) ==
  \E c \in Fresh :
    /\ NewCommit(c, t)
    /\ torn' = torn \cup {c}
    /\ disk' = t
    /\ UNCHANGED registry

-----------------------------------------------------------------------------
(***************************************************************************)
(* restore: nothing is touched before the snapshot is known to be readable.*)
(***************************************************************************)
Readable(c) == c \in Recorded /\ repo /\ commits[c] # NoTree

Restore(c) ==
  /\ Readable(c)
  /\ disk' = CheckedOut(disk, c)
  /\ head' = c
  /\ UNCHANGED <<repo, commits, registry, torn>>

\* The reset is done and the clean is not.
RestoreCut(c) ==
  /\ Readable(c)
  /\ disk' = HardReset(disk, c, Index)
  /\ head' = c
  /\ UNCHANGED <<repo, commits, registry, torn>>

\* deleteSnapshots, and what it has left to do when it is cut short.
RepoGone ==
  /\ repo' = FALSE
  /\ head' = NoCommit
  /\ commits' = [c \in Commit |-> NoTree]
  /\ torn' = {}

SnapshotInit ==
  /\ repo = FALSE
  /\ head = NoCommit
  /\ commits = [c \in Commit |-> NoTree]
  /\ registry = <<>>
  /\ torn = {}
=============================================================================
