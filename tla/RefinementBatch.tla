---------------------------- MODULE RefinementBatch ----------------------------
(***************************************************************************)
(* applyRefinement, project/refinement.js: a batch of edits, each an await *)
(* on the edit tool, undone from what was read before the first when one   *)
(* of them fails, while the user edits the same files.  What a file holds  *)
(* is a version.                                                           *)
(***************************************************************************)
EXTENDS Naturals, Sequences, FiniteSets

CONSTANTS
  EditedFile,
  MaxBatch,  \* bound: edits of a batch
  MaxVersion \* bound: versions of a file

ASSUME BatchAssumption == MaxBatch \in Nat /\ MaxVersion \in Nat \ {0}

VARIABLES
  content,    \* file -> version, 0 when there is none
  batch,      \* the edits to do
  originals,  \* what each target held before
  applied,    \* how many edits are done
  phase,      \* rest, editing, or the answer of the last batch
  meanwhile,  \* auxiliary: files the user changed during the batch
  persisted   \* the files given to the persistence store

batchVars == <<content, batch, originals, applied, phase, meanwhile, persisted>>

Batch == UNION {[1..n -> EditedFile] : n \in 1..MaxBatch}
Version == 0..MaxVersion

BatchInit ==
  /\ content \in [EditedFile -> 0..1] /\ batch = <<>> /\ applied = 0 /\ phase = "rest"
  /\ originals = content /\ meanwhile = {} /\ persisted = {}

BatchTypeOK ==
  /\ {content, originals} \subseteq [EditedFile -> Version] /\ batch \in Batch \cup {<<>>}
  /\ applied \in 0..Len(batch) /\ phase \in {"rest", "editing", "ok", "failed"}
  /\ meanwhile \cup persisted \subseteq EditedFile

Touched(n) == {batch[i] : i \in 1..n}

-----------------------------------------------------------------------------
\* Edits that change nothing are left out; a batch of none is refused.
BeginBatch(b) ==
  /\ phase # "editing" /\ phase' = "editing" /\ batch' = b /\ applied' = 0
  /\ originals' = content /\ meanwhile' = {} /\ persisted' = {} /\ UNCHANGED content

\* restoreApplied(): what was applied is written back, a new file removed.
\* (Mutant: a file that was not there before is left.)
RestoredExisting(f) == IF originals[f] = 0 THEN content[f] ELSE originals[f]
Restored(f) == originals[f]

\* The edit tool writes a file, or refuses: no file, no unique place, no change.
EditApplied ==
  /\ phase = "editing" /\ applied < Len(batch) /\ content[batch[applied + 1]] < MaxVersion
  /\ content' = [content EXCEPT ![batch[applied + 1]] = @ + 1] /\ applied' = applied + 1
  /\ UNCHANGED <<batch, originals, phase, meanwhile, persisted>>

EditRefused ==
  /\ phase = "editing" /\ applied < Len(batch) /\ phase' = "failed"
  /\ content' = [f \in EditedFile |-> IF f \in Touched(applied) THEN Restored(f) ELSE content[f]]
  /\ UNCHANGED <<batch, originals, applied, meanwhile, persisted>>

\* All edits are done: the diffs are taken and the changed files persisted.
FinishBatch ==
  /\ phase = "editing" /\ applied = Len(batch) /\ phase' = "ok"
  /\ persisted' = Touched(applied)
  /\ UNCHANGED <<content, batch, originals, applied, meanwhile>>

UserEdits(f) ==
  /\ content[f] < MaxVersion /\ content' = [content EXCEPT ![f] = @ + 1]
  /\ meanwhile' = meanwhile \cup (IF phase = "editing" THEN {f} ELSE {})
  /\ phase' = IF phase = "editing" THEN phase ELSE "rest"
  /\ UNCHANGED <<batch, originals, applied, persisted>>

BatchNext ==
  \/ EditApplied \/ EditRefused \/ FinishBatch
  \/ \E b \in Batch : BeginBatch(b)
  \/ \E f \in EditedFile : UserEdits(f)

-----------------------------------------------------------------------------
\* A refused batch leaves every file that nobody else edited meanwhile as it
\* was before the first edit, and of the files edited meanwhile only those of
\* the batch may have lost it; a finished batch has changed and persisted
\* every file it names.
BatchIsAtomic ==
  /\ phase = "failed" => \A f \in EditedFile :
       content[f] # originals[f] => f \in meanwhile /\ content[f] > originals[f]
  /\ phase = "ok" => \A f \in Touched(Len(batch)) : content[f] > originals[f] /\ f \in persisted
=============================================================================
