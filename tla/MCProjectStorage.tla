-------------------------- MODULE MCProjectStorage --------------------------
(***************************************************************************)
(* Instances of ProjectStorage for TLC.                                    *)
(***************************************************************************)
EXTENDS ProjectStorage, TLC

\* One full tree per content, and the empty tree.
MCSaves == {[f \in File |-> c] : c \in Content \cup {Absent}}

\* Contents are compared and commits are picked, never ordered.
Identities == Permutations(Content) \cup Permutations(Commit)
=============================================================================
