---------------------------- MODULE WorkingTree ----------------------------
(***************************************************************************)
(* The exportable tree of one project: the files on disk that the agent    *)
(* edits, that PersistenceStore writes and prunes and that SnapshotStore   *)
(* wipes, fills and resets.  The .git directory at its root belongs to     *)
(* SnapshotStore alone and is not part of it.                              *)
(***************************************************************************)
EXTENDS Naturals, Sequences, FiniteSets

CONSTANTS
  File,       \* relative paths
  Content,    \* contents of files
  Absent,     \* no such file
  Ignored     \* the paths the tree's own .gitignore hides from git

ASSUME AbsentAssumption == Absent \notin Content
ASSUME IgnoredAssumption == Ignored \subseteq File

VARIABLE disk \* path -> its content

Tree == [File -> Content \cup {Absent}]

EmptyTree == [f \in File |-> Absent]

Named(t) == {f \in File : t[f] # Absent}

\* t laid over base on the paths of S.
Overlay(base, t, S) == [f \in File |-> IF f \in S THEN t[f] ELSE base[f]]

\* The agent's tools write, create and remove files of the tree directly.
EditFile(f, c) == disk' = [disk EXCEPT ![f] = c]
=============================================================================
