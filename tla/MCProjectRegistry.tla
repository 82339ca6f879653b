------------------------- MODULE MCProjectRegistry -------------------------
(***************************************************************************)
(* Instances of ProjectRegistry for TLC: one owner.                        *)
(***************************************************************************)
EXTENDS ProjectRegistry, TLC

MCLock == Owner \cup {IndexLock}

MCOwnerOf == [proj \in Project |-> CHOOSE o \in Owner : TRUE]

Identities == Permutations(Proc) \cup Permutations(Id) \cup Permutations(Project)
=============================================================================
