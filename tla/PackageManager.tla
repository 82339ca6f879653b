---------------------------- MODULE PackageManager ---------------------------
(***************************************************************************)
(* Installs of packages (sandbox/package-manager.js) of one project: they  *)
(* write the manifest before the command runs and restore it when the      *)
(* command guard refuses or the run fails, while other installs and edits  *)
(* of the owner may come in between.                                       *)
(***************************************************************************)
EXTENDS Naturals, FiniteSets

CONSTANTS
  Call,      \* installs that overlap
  Entry,     \* dependencies an install or the owner may add
  Output,    \* DEPENDENCY_OUTPUT_PATHS
  MaxEdit    \* bound: edits by the owner

ASSUME InstallAssumption == MaxEdit \in Nat

VARIABLES
  manifest,  \* entries of package.json; the file is there iff NoFile \notin
  outputs,   \* dependency paths that exist
  call,      \* what each call waits for, and what it has read
  edited,    \* edits made so far
  mixed,     \* auxiliary: calls since whose beginning somebody else wrote
  settled    \* auxiliary: the entries and outputs when last no install was under way

installVars == <<manifest, outputs, call, edited, mixed, settled>>

NoFile == {"no file"}
ASSUME NoFileAssumption == NoFile \cap Entry = {}

NoCall == [does |-> "nothing"]

WhatThereIs == [entries |-> manifest \ NoFile, outputs |-> outputs]
Idle == \A c \in Call : call[c].does # "install"

InstallInit ==
  /\ manifest \in {NoFile, {}} /\ outputs \in {{}, Output}
  /\ call = [c \in Call |-> NoCall] /\ edited = 0 /\ mixed = {}
  /\ settled = WhatThereIs

InstallTypeOK ==
  /\ manifest \subseteq Entry \/ manifest = NoFile
  /\ outputs \subseteq Output /\ edited \in 0..MaxEdit /\ mixed \subseteq Call
  /\ settled.entries \subseteq Entry /\ settled.outputs \subseteq Output

Does(c, what) == call' = [call EXCEPT ![c] = what]

\* Call c writes the manifest or the outputs under every other call.
Mixes(c) == mixed' = mixed \cup (Call \ {c})

-----------------------------------------------------------------------------
OwnerEdits(e) ==
  /\ edited < MaxEdit /\ edited' = edited + 1
  /\ manifest' = IF manifest = NoFile THEN {e} ELSE manifest \cup {e}
  /\ mixed' = Call
  /\ UNCHANGED <<outputs, call>>

\* install() up to the guard: read, write, remember the outputs.
StartInstall(c, e) ==
  /\ call[c].does \in {"nothing", "undone", "installed"}
  /\ Does(c, [does |-> "install", prior |-> manifest, pre |-> outputs, entry |-> e])
  /\ manifest' = IF manifest = NoFile THEN {e} ELSE manifest \cup {e}
  /\ mixed' = Call \ {c}
  /\ UNCHANGED <<outputs, edited>>

\* restoreManifest() and cleanPartialDeps().
\* (Mutant: every dependency path is removed, those from before as well.)
CleanAll(c, after) == {}
CleanPartial(c, after) == after \cap call[c].pre

\* Refused, denied, failed or timed out, with whatever the run left behind.
InstallFails(c) ==
  /\ call[c].does = "install"
  /\ manifest' = call[c].prior
  /\ \E left \in SUBSET Output : outputs' = CleanPartial(c, outputs \cup left)
  /\ Does(c, [call[c] EXCEPT !.does = "undone"]) /\ Mixes(c)
  /\ UNCHANGED edited

InstallSucceeds(c) ==
  /\ call[c].does = "install" /\ outputs' = Output
  /\ Does(c, [call[c] EXCEPT !.does = "installed"]) /\ Mixes(c)
  /\ UNCHANGED <<manifest, edited>>

InstallNext ==
  /\ \/ \E e \in Entry : OwnerEdits(e) \/ \E c \in Call : StartInstall(c, e)
     \/ \E c \in Call : InstallFails(c) \/ InstallSucceeds(c)
  /\ settled' = IF Idle' THEN WhatThereIs' ELSE settled

-----------------------------------------------------------------------------
\* An install nobody wrote into leaves the manifest and the dependencies it
\* found when it fails, and its entry with all outputs when it succeeds, also
\* when it began while another install was under way.  However installs and
\* edits mix, no restore loses an entry or a dependency that was there before
\* the installs under way began.  What came since may be lost: a failing install
\* writes the bytes back that it read (package-manager.js:342), also over the
\* entry of an install that has been reported to have succeeded.
InstallIsWhole ==
  /\ \A c \in Call \ mixed :
       /\ call[c].does = "undone" => manifest = call[c].prior /\ outputs = call[c].pre
       /\ call[c].does = "installed" => call[c].entry \in manifest /\ outputs = Output
  /\ settled.entries \subseteq manifest /\ settled.outputs \subseteq outputs
=============================================================================
