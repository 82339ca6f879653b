-------------------------- MODULE MCPreviewService --------------------------
(***************************************************************************)
(* Instances of PreviewService for TLC.                                    *)
(***************************************************************************)
EXTENDS PreviewService, TLC

Identities ==
  Permutations(Project) \cup Permutations(Port) \cup Permutations(Rec)
    \cup Permutations(Check)
=============================================================================
