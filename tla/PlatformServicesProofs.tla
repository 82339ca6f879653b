----------------------- MODULE PlatformServicesProofs -----------------------
(***************************************************************************)
(* Proofs about PlatformServices.  AccountServicesProofs has the parts that*)
(* belong to an account; here are the services of a project and what       *)
(* surrounds its sandbox, each with an inductive invariant of its own, and *)
(* at the end all parts together: the invariants of PlatformServices as    *)
(* theorems of its specification.                                          *)
(***************************************************************************)
EXTENDS PlatformServices, AccountServicesProofs,
        SequenceTheorems, FunctionTheorems, FiniteSetTheorems, TLAPS

-----------------------------------------------------------------------------
(***************************************************************************)
(* Connectors.  What is promised of them is inductive: the auxiliary sets  *)
(* say which write has failed, and nothing else can part the two stores.   *)
(***************************************************************************)
VaultInv == VaultTypeOK /\ SecretsFollowBindings

LEMMA RefsAreApart == \A s, t \in Service : s # t => Refs(s) \cap Refs(t) = {}
BY DEF Refs

LEMMA VaultStarts == VaultInit => VaultInv
<1>. SUFFICES ASSUME VaultInit PROVE VaultInv
  OBVIOUS
<1>1. VaultTypeOK
  <2>1. /\ secret \subseteq Service \X (1..Names) /\ outdated \in BOOLEAN
        /\ binding \cup steering \cup allowed \cup orphaned \cup halved \subseteq Service
    BY DEF VaultInit
  <2>2. broken \in 0..MaxBroken
    BY VaultAssumption DEF VaultInit
  <2>3. capturing \in [Capture -> Service \cup {"none"}]
    BY DEF VaultInit
  <2>. QED
    BY <2>1, <2>2, <2>3 DEF VaultTypeOK
<1>2. SecretsFollowBindings
  BY DEF VaultInit, SecretsFollowBindings
<1>. QED
  BY <1>1, <1>2 DEF VaultInv

LEMMA VaultStep ==
  ASSUME VaultInv, VaultNext \/ UNCHANGED vaultVars
  PROVE  VaultInv'
<1>. USE VaultAssumption DEF VaultInv, VaultTypeOK, SecretsFollowBindings
<1>1. ASSUME NEW c \in Capture, CaptureFails(c) PROVE VaultInv'
  BY <1>1 DEF CaptureFails
<1>2. ASSUME NEW c \in Capture, NEW s \in Service, BeginCapture(c, s) PROVE VaultInv'
  BY <1>2 DEF BeginCapture
<1>3. ASSUME NEW c \in Capture, NEW s \in Service, AddConnector(c, s) PROVE VaultInv'
  <2>1. /\ capturing' = [capturing EXCEPT ![c] = "none"]
        /\ secret' = secret \cup Refs(s) /\ binding' = binding \cup {s}
        /\ orphaned' = orphaned \ {s} /\ halved' = halved \ {s}
    BY <1>3 DEF AddConnector
  <2>2. PICK n \in 0..1 : Fault(n) /\ Refresh(binding', n)
    BY <1>3 DEF AddConnector
  <2>3. broken' \in 0..MaxBroken
    BY <2>2 DEF Fault
  <2>4. /\ steering' \cup allowed' \subseteq Service /\ outdated' \in BOOLEAN
        /\ ~outdated' => steering' = binding' /\ allowed' = binding'
    BY <2>1, <2>2 DEF Refresh, RefreshSurfaces, RefreshThrows, UpdateEgressThrows
  <2>5. Refs(s) \subseteq Service \X (1..Names)
    BY DEF Refs
  <2>6. \A t \in binding' \ halved' : Refs(t) \subseteq secret'
    BY <2>1
  <2>7. \A t \in Service \ (binding' \cup orphaned') : Refs(t) \cap secret' = {}
    BY <2>1, RefsAreApart
  <2>. QED
    BY <2>1, <2>3, <2>4, <2>5, <2>6, <2>7
<1>4. ASSUME NEW c \in Capture, NEW s \in Service, AddFails(c, s) PROVE VaultInv'
  <2>1. /\ capturing' = [capturing EXCEPT ![c] = "none"]
        /\ orphaned' = orphaned \cup {s} /\ outdated' = (outdated \/ binding' # binding)
        /\ UNCHANGED <<steering, allowed, halved>>
    BY <1>4 DEF AddFails
  <2>2. PICK k \in 1..Names + 1 : RollBack(s, k)
    BY <1>4 DEF AddFails
  <2>3. binding' = binding \ {s} /\ secret' = secret \ ({s} \X (1..k - 1))
    BY <2>2 DEF RollBack
  <2>4. broken' \in 0..MaxBroken
    BY <1>4 DEF AddFails, Fault
  <2>5. \A t \in Service : t # s => Refs(t) \cap ({s} \X (1..k - 1)) = {}
    BY DEF Refs
  <2>6. \A t \in binding' \ halved' : Refs(t) \subseteq secret'
    BY <2>1, <2>3, <2>5
  <2>7. \A t \in Service \ (binding' \cup orphaned') : Refs(t) \cap secret' = {}
    BY <2>1, <2>3
  <2>8. outdated' \in BOOLEAN /\ (~outdated' => steering' = binding' /\ allowed' = binding')
    BY <2>1
  <2>. QED
    BY <2>1, <2>3, <2>4, <2>6, <2>7, <2>8
<1>5. ASSUME NEW s \in Service, RemoveConnector(s) PROVE VaultInv'
  <2>1. PICK kept \in SUBSET (Refs(s) \cap secret), n \in 0..1 :
          /\ secret' = secret \ (Refs(s) \ kept)
          /\ orphaned' = IF kept = {} THEN orphaned \ {s} ELSE orphaned \cup {s}
          /\ binding' = binding \ {s}
          /\ Fault(n + IF kept = {} THEN 0 ELSE 1)
          /\ Refresh(binding', n)
    BY <1>5 DEF RemoveConnector
  <2>2. halved' = halved \ {s} /\ UNCHANGED capturing
    BY <1>5 DEF RemoveConnector
  <2>3. broken' \in 0..MaxBroken
    BY <2>1 DEF Fault
  <2>4. /\ steering' \cup allowed' \subseteq Service /\ outdated' \in BOOLEAN
        /\ ~outdated' => steering' = binding' /\ allowed' = binding'
    BY <2>1 DEF Refresh, RefreshSurfaces, RefreshThrows, UpdateEgressThrows
  <2>5. \A t \in binding' \ halved' : Refs(t) \subseteq secret'
    BY <2>1, <2>2, RefsAreApart
  <2>6. \A t \in Service \ (binding' \cup orphaned') : Refs(t) \cap secret' = {}
    BY <2>1
  <2>. QED
    BY <2>1, <2>2, <2>3, <2>4, <2>5, <2>6
<1>6. ASSUME NEW s \in Service, RemoveHalfFails(s) PROVE VaultInv'
  <2>1. /\ s \in binding /\ secret' = secret \ Refs(s) /\ halved' = halved \cup {s}
        /\ UNCHANGED <<binding, steering, allowed, capturing, orphaned, outdated>>
    BY <1>6 DEF RemoveHalfFails
  <2>2. broken' \in 0..MaxBroken
    BY <1>6 DEF RemoveHalfFails, Fault
  <2>3. \A t \in binding' \ halved' : Refs(t) \subseteq secret'
    BY <2>1, RefsAreApart
  <2>. QED
    BY <2>1, <2>2, <2>3
<1>7. CASE UNCHANGED vaultVars
  BY <1>7 DEF vaultVars
<1>. QED
  BY <1>1, <1>2, <1>3, <1>4, <1>5, <1>6, <1>7 DEF VaultNext

-----------------------------------------------------------------------------
(***************************************************************************)
(* Installs.  One that is under way and that nobody wrote into has changed *)
(* the manifest by its entry, and no dependency.  Each has read at least   *)
(* what was there when none was under way.                                 *)
(***************************************************************************)
Installing == [does : {"install", "undone", "installed"}, prior : (SUBSET Entry) \cup {NoFile},
               pre : SUBSET Output, entry : Entry]

InstallsAreAlone ==
  \A c \in Call \ mixed :
    call[c].does = "install" => call[c].entry \in manifest /\ outputs = call[c].pre

SettledAreRead ==
  \A c \in Call : call[c].does = "install" =>
    settled.entries \subseteq call[c].prior /\ settled.outputs \subseteq call[c].pre

SettledAreThere ==
  /\ settled \in [entries : SUBSET Entry, outputs : SUBSET Output]
  /\ settled.entries \subseteq manifest /\ settled.outputs \subseteq outputs

InstallInv ==
  /\ manifest \in (SUBSET Entry) \cup {NoFile}
  /\ outputs \subseteq Output /\ edited \in 0..MaxEdit /\ mixed \subseteq Call
  /\ call \in [Call -> {NoCall} \cup Installing]
  /\ InstallsAreAlone /\ InstallIsWhole /\ SettledAreRead /\ SettledAreThere

LEMMA InstallStarts == InstallInit => InstallInv
<1>. SUFFICES ASSUME InstallInit PROVE InstallInv
  OBVIOUS
<1>1. manifest \in (SUBSET Entry) \cup {NoFile} /\ outputs \subseteq Output /\ mixed \subseteq Call
  BY DEF InstallInit
<1>2. edited \in 0..MaxEdit
  BY InstallAssumption DEF InstallInit
<1>3. call \in [Call -> {NoCall} \cup Installing] /\ \A c \in Call : call[c].does = "nothing"
  BY DEF InstallInit, NoCall
<1>4. SettledAreThere
  BY <1>1 DEF InstallInit, WhatThereIs, SettledAreThere
<1>. QED
  BY <1>1, <1>2, <1>3, <1>4
     DEF InstallInv, InstallsAreAlone, InstallIsWhole, SettledAreRead, SettledAreThere

\* What the operations do of the manifest, the outputs and the calls.
InstallMoves ==
  \/ \E e \in Entry : OwnerEdits(e) \/ \E c \in Call : StartInstall(c, e)
  \/ \E c \in Call : InstallFails(c) \/ InstallSucceeds(c)

\* Nobody loses what was settled: an install that begins has read all of it,
\* and one that fails writes back what it read.
LEMMA MovesKeepSettled ==
  ASSUME InstallInv, InstallMoves, manifest' \in (SUBSET Entry) \cup {NoFile}, outputs' \subseteq Output,
         settled' = IF Idle' THEN WhatThereIs' ELSE settled,
         settled.entries \subseteq manifest', settled.outputs \subseteq outputs',
         \A c \in Call : call'[c].does = "install" =>
           settled.entries \subseteq call'[c].prior /\ settled.outputs \subseteq call'[c].pre
  PROVE  SettledAreRead' /\ SettledAreThere'
<1>1. CASE Idle'
  <2>1. settled' = [entries |-> manifest' \ NoFile, outputs |-> outputs']
    BY <1>1 DEF WhatThereIs
  <2>2. manifest' \ NoFile \in SUBSET Entry
    OBVIOUS
  <2>. QED
    BY <1>1, <2>1, <2>2 DEF SettledAreRead, SettledAreThere, Idle
<1>2. CASE ~Idle'
  BY <1>2 DEF SettledAreRead, SettledAreThere, InstallInv
<1>. QED
  BY <1>1, <1>2

LEMMA InstallStep ==
  ASSUME InstallInv, InstallNext \/ UNCHANGED installVars
  PROVE  InstallInv'
<1>. USE InstallAssumption DEF InstallInv
<1>6. CASE UNCHANGED installVars
  BY <1>6 DEF installVars, InstallsAreAlone, InstallIsWhole, SettledAreRead, SettledAreThere
<1>7. CASE InstallNext
  <2>. InstallMoves /\ settled' = IF Idle' THEN WhatThereIs' ELSE settled
    BY <1>7 DEF InstallNext, InstallMoves
  <2>. DEFINE Kept ==
         /\ settled.entries \subseteq manifest' /\ settled.outputs \subseteq outputs'
         /\ \A c \in Call : call'[c].does = "install" =>
              settled.entries \subseteq call'[c].prior /\ settled.outputs \subseteq call'[c].pre
  <2>. DEFINE Typed ==
         /\ manifest' \in (SUBSET Entry) \cup {NoFile}
         /\ outputs' \subseteq Output /\ edited' \in 0..MaxEdit /\ mixed' \subseteq Call
         /\ call' \in [Call -> {NoCall} \cup Installing]
  <2>. DEFINE Alone ==
         \A c \in Call \ mixed' :
           /\ call'[c].does = "install" => call'[c].entry \in manifest' /\ outputs' = call'[c].pre
           /\ call'[c].does = "undone" => manifest' = call'[c].prior /\ outputs' = call'[c].pre
           /\ call'[c].does = "installed" => call'[c].entry \in manifest' /\ outputs' = Output
  <2>8. SUFFICES Typed /\ Alone /\ Kept
    <3>1. ASSUME Typed, Alone, Kept PROVE SettledAreRead' /\ SettledAreThere'
      BY <3>1, MovesKeepSettled
    <3>2. ASSUME SettledAreThere', Alone PROVE InstallsAreAlone' /\ InstallIsWhole'
      BY <3>2 DEF InstallsAreAlone, InstallIsWhole, SettledAreThere
    <3>. QED
      BY <3>1, <3>2
  <2>9. ASSUME NEW c \in Call, call[c].does = "install"
        PROVE  /\ call[c] \in Installing
               /\ settled.entries \subseteq call[c].prior /\ settled.outputs \subseteq call[c].pre
    BY <2>9 DEF NoCall, SettledAreRead
  <2>1. ASSUME NEW e \in Entry, OwnerEdits(e) PROVE Typed /\ Alone /\ Kept
    <3>1. /\ manifest' = IF manifest = NoFile THEN {e} ELSE manifest \cup {e}
          /\ edited < MaxEdit /\ edited' = edited + 1 /\ mixed' = Call /\ UNCHANGED <<outputs, call>>
      BY <2>1 DEF OwnerEdits
    <3>2. Typed /\ Alone
      BY <3>1
    <3>3. manifest = NoFile => settled.entries = {}
      BY NoFileAssumption DEF SettledAreThere
    <3>. QED
      BY <3>1, <3>2, <3>3 DEF SettledAreThere, SettledAreRead
  <2>2. ASSUME NEW e \in Entry, NEW c \in Call, StartInstall(c, e) PROVE Typed /\ Alone /\ Kept
    <3>1. PICK i \in Installing :
            i = [does |-> "install", prior |-> manifest, pre |-> outputs, entry |-> e]
      BY DEF Installing
    <3>2. /\ call' = [call EXCEPT ![c] = i] /\ mixed' = Call \ {c}
          /\ manifest' = IF manifest = NoFile THEN {e} ELSE manifest \cup {e}
          /\ UNCHANGED <<outputs, edited>>
      BY <2>2, <3>1 DEF StartInstall, Does
    <3>3. call'[c] = i
      BY <3>2
    <3>4. e \in manifest' /\ manifest' \in SUBSET Entry
      <4>1. CASE manifest = NoFile
        BY <3>2, <4>1
      <4>2. CASE manifest # NoFile
        <5>1. manifest \subseteq Entry
          BY <4>2
        <5>. QED
          BY <3>2, <4>2, <5>1
      <4>. QED
        BY <4>1, <4>2
    <3>5. Typed /\ Alone
      BY <3>1, <3>2, <3>3, <3>4
    <3>6. manifest = NoFile => settled.entries = {}
      BY NoFileAssumption DEF SettledAreThere
    <3>7. settled.entries \subseteq manifest' /\ settled.outputs \subseteq outputs'
      BY <3>2, <3>6 DEF SettledAreThere
    <3>8. ASSUME NEW x \in Call, call'[x].does = "install"
          PROVE  settled.entries \subseteq call'[x].prior /\ settled.outputs \subseteq call'[x].pre
      <4>1. CASE x = c
        BY <3>1, <3>3, <4>1 DEF SettledAreThere
      <4>2. CASE x # c
        BY <3>2, <3>8, <4>2, <2>9
      <4>. QED
        BY <4>1, <4>2
    <3>. QED
      BY <3>5, <3>7, <3>8
  <2>3. ASSUME NEW c \in Call, InstallFails(c) PROVE Typed /\ Alone /\ Kept
    <3>1. PICK i \in Installing : i = [call[c] EXCEPT !.does = "undone"]
      BY <2>9, <2>3 DEF InstallFails, Installing
    <3>2. /\ i.prior = call[c].prior /\ i.pre = call[c].pre /\ i.does = "undone"
      BY <2>9, <2>3, <3>1 DEF InstallFails, Installing
    <3>3. /\ call' = [call EXCEPT ![c] = i] /\ manifest' = i.prior
          /\ mixed' = mixed \cup (Call \ {c}) /\ UNCHANGED edited
      BY <2>3, <3>1, <3>2 DEF InstallFails, Does, Mixes
    <3>4. PICK left \in SUBSET Output : outputs' = (outputs \cup left) \cap i.pre
      BY <2>3, <3>2 DEF InstallFails, CleanPartial
    <3>5. c \notin mixed => outputs' = i.pre
      BY <2>3, <3>2, <3>4 DEF InstallFails, InstallsAreAlone
    <3>6. manifest' \in (SUBSET Entry) \cup {NoFile} /\ outputs' \subseteq Output
      BY <3>3, <3>4 DEF Installing
    <3>7. Typed /\ Alone
      BY <3>2, <3>3, <3>5, <3>6
    <3>8. settled.entries \subseteq manifest' /\ settled.outputs \subseteq outputs'
      <4>1. settled.entries \subseteq i.prior /\ settled.outputs \subseteq i.pre
        BY <2>9, <2>3, <3>2 DEF InstallFails
      <4>. QED
        BY <3>3, <3>4, <4>1 DEF SettledAreThere
    <3>. QED
      BY <3>2, <3>3, <3>7, <3>8, <2>9
  <2>4. ASSUME NEW c \in Call, InstallSucceeds(c) PROVE Typed /\ Alone /\ Kept
    <3>1. PICK i \in Installing : i = [call[c] EXCEPT !.does = "installed"]
      BY <2>9, <2>4 DEF InstallSucceeds, Installing
    <3>2. i.entry = call[c].entry /\ i.does = "installed"
      BY <2>9, <2>4, <3>1 DEF InstallSucceeds, Installing
    <3>3. /\ call' = [call EXCEPT ![c] = i] /\ outputs' = Output
          /\ mixed' = mixed \cup (Call \ {c}) /\ UNCHANGED <<manifest, edited>>
      BY <2>4, <3>1 DEF InstallSucceeds, Does, Mixes
    <3>4. c \notin mixed => i.entry \in manifest
      BY <2>4, <3>2 DEF InstallSucceeds, InstallsAreAlone
    <3>5. Typed /\ Alone
      BY <3>2, <3>3, <3>4
    <3>. QED
      BY <3>2, <3>3, <3>5, <2>9 DEF SettledAreThere
  <2>. QED
    BY <2>1, <2>2, <2>3, <2>4 DEF InstallMoves
<1>. QED
  BY <1>6, <1>7

LEMMA InstallIsTyped == InstallInv => InstallTypeOK
<1>. SUFFICES ASSUME InstallInv PROVE InstallTypeOK
  OBVIOUS
<1>1. manifest \subseteq Entry \/ manifest = NoFile
  <2>1. manifest \in SUBSET Entry \/ manifest = NoFile
    BY DEF InstallInv
  <2>. QED
    BY <2>1
<1>. QED
  BY <1>1 DEF InstallInv, InstallTypeOK, SettledAreThere

-----------------------------------------------------------------------------
(***************************************************************************)
(* Databases.  A migration under way is to a version that there is.        *)
(***************************************************************************)
DatabaseInv ==
  /\ DatabaseTypeOK /\ DatabaseIsKnown
  /\ \A d \in Database : record[d] = "migrating" => schema[d] < MaxSchema

LEMMA DatabaseStarts == DatabaseInit => DatabaseInv
BY DatabaseAssumption DEF DatabaseInit, DatabaseInv, DatabaseTypeOK, DatabaseIsKnown

LEMMA DatabaseStep ==
  ASSUME DatabaseInv, DatabaseNext \/ UNCHANGED databaseVars
  PROVE  DatabaseInv'
<1>. USE DatabaseAssumption DEF DatabaseInv, DatabaseTypeOK, DatabaseIsKnown
<1>1. ASSUME NEW d \in Database, StartProvision(d) PROVE DatabaseInv'
  BY <1>1 DEF StartProvision
<1>2. ASSUME NEW d \in Database, ProvisionReady(d) PROVE DatabaseInv'
  BY <1>2 DEF ProvisionReady
<1>3. ASSUME NEW d \in Database, ProvisionFails(d) PROVE DatabaseInv'
  BY <1>3 DEF ProvisionFails, FailProvision
<1>4. ASSUME NEW d \in Database, Teardown(d) PROVE DatabaseInv'
  BY <1>4 DEF Teardown
<1>5. ASSUME NEW d \in Database, StartMigration(d) PROVE DatabaseInv'
  BY <1>5 DEF StartMigration
<1>6. ASSUME NEW d \in Database, MigrationApplied(d) PROVE DatabaseInv'
  BY <1>6 DEF MigrationApplied
<1>7. ASSUME NEW d \in Database, MigrationFails(d) PROVE DatabaseInv'
  BY <1>7 DEF MigrationFails
<1>8. CASE UNCHANGED databaseVars
  BY <1>8 DEF databaseVars
<1>. QED
  BY <1>1, <1>2, <1>3, <1>4, <1>5, <1>6, <1>7, <1>8 DEF DatabaseNext

-----------------------------------------------------------------------------
(***************************************************************************)
(* Shared code.  A call under way is not at rest until its last step,      *)
(* which gives every target one version; one that is alone has found the   *)
(* last good one when it began.                                            *)
(***************************************************************************)
Known == Shared \cup {NoVersion}
Propagating == [at : 0..4, version : Known, prior : Known, failed : BOOLEAN]
Target == Range(PropagationTargets)

SharedInv ==
  /\ received \in [Target -> Known] /\ lastGood \in Known
  /\ propagating \in [Propagation -> Propagating] /\ overlapped \in BOOLEAN
  /\ NoneUnderWay => \E v \in Known : received = All(v)
  /\ ~overlapped =>
       /\ NoneUnderWay => received = All(lastGood)
       /\ \A p \in Propagation : propagating[p] # AtRest =>
            /\ propagating[p].prior = lastGood
            /\ \A q \in Propagation \ {p} : propagating[q] = AtRest

LEMMA ThereAreTargets ==
  /\ Len(PropagationTargets) = 3 /\ Target = {"web", "backend", "mobile"}
  /\ \A i \in 1..3 : PropagationTargets[i] \in Target
<1>1. Len(PropagationTargets) = 3 /\ DOMAIN PropagationTargets = 1..3
  BY DEF PropagationTargets
<1>2. Target = {PropagationTargets[i] : i \in 1..3}
  BY <1>1 DEF Target, Range
<1>3. /\ PropagationTargets[1] = "web" /\ PropagationTargets[2] = "backend"
      /\ PropagationTargets[3] = "mobile"
  BY DEF PropagationTargets
<1>4. \A i \in 1..3 : i = 1 \/ i = 2 \/ i = 3
  OBVIOUS
<1>. QED
  BY <1>1, <1>2, <1>3, <1>4

LEMMA AllIsOne ==
  ASSUME NEW v \in Known PROVE All(v) \in [Target -> Known] /\ Cardinality(Range(All(v))) = 1
<1>1. All(v) = [t \in Target |-> v]
  BY DEF All, Target
<1>2. Range(All(v)) = {v}
  BY <1>1, ThereAreTargets DEF Range
<1>3. Cardinality({v}) = 1
  BY FS_Singleton
<1>. QED
  BY <1>1, <1>2, <1>3

LEMMA RestIsTyped == AtRest \in Propagating /\ NoVersion \in Known /\ AtRest.at = 0
BY DEF AtRest, Propagating, Known

LEMMA SharedStarts == SharedInit => SharedInv
BY RestIsTyped, AllIsOne DEF SharedInit, SharedInv, NoneUnderWay

LEMMA SharedStep ==
  ASSUME SharedInv, SharedNext \/ UNCHANGED sharedVars
  PROVE  SharedInv'
<1>. USE DEF SharedInv
<1>1. ASSUME NEW p \in Propagation, NEW v \in Shared, StartPropagation(p, v)
      PROVE  SharedInv'
  <2>1. PICK now \in Propagating :
          now = [at |-> 1, version |-> v, prior |-> lastGood, failed |-> FALSE]
    <3>1. 1 \in 0..4 /\ v \in Known /\ lastGood \in Known /\ FALSE \in BOOLEAN
      BY DEF Known
    <3>. QED
      BY ONLY <3>1 DEF Propagating
  <2>2. /\ propagating' = [propagating EXCEPT ![p] = now] /\ UNCHANGED <<received, lastGood>>
        /\ overlapped' = ~NoneUnderWay
    BY <1>1, <2>1 DEF StartPropagation
  <2>3. propagating'[p] = now /\ now # AtRest /\ ~NoneUnderWay'
    BY <2>1, <2>2, RestIsTyped DEF NoneUnderWay
  <2>4. overlapped' \in BOOLEAN
    BY <2>2
  <2>5. ASSUME ~overlapped', NEW q \in Propagation, propagating'[q] # AtRest
        PROVE  q = p
    BY <2>2, <2>5 DEF NoneUnderWay
  <2>6. ~overlapped' => \A q \in Propagation : propagating'[q] # AtRest =>
          /\ propagating'[q].prior = lastGood'
          /\ \A r \in Propagation \ {q} : propagating'[r] = AtRest
    BY <2>1, <2>2, <2>3, <2>5
  <2>. QED
    BY <2>2, <2>3, <2>4, <2>6
<1>2. ASSUME NEW p \in Propagation, PropagateOne(p) PROVE SharedInv'
  <2>1. propagating[p] \in Propagating /\ propagating[p].at \in 1..3
    BY <1>2, ThereAreTargets DEF PropagateOne
  <2>2. PICK ok \in BOOLEAN :
          /\ propagating' = [propagating EXCEPT ![p].at = @ + 1, ![p].failed = @ \/ ~ok]
          /\ received' = IF ok THEN [received EXCEPT ![PropagationTargets[propagating[p].at]]
                                       = propagating[p].version]
                         ELSE received
    BY ONLY <1>2 DEF PropagateOne
  <2>8. PICK a \in 1..4, b \in BOOLEAN :
          a = propagating[p].at + 1 /\ b = (propagating[p].failed \/ ~ok)
    <3>1. (propagating[p].failed \/ ~ok) \in BOOLEAN
      OBVIOUS
    <3>2. propagating[p].at + 1 \in 1..4
      BY <2>1
    <3>. QED
      BY <3>1, <3>2
  <2>3. PICK next \in Propagating : next = [propagating[p] EXCEPT !.at = a, !.failed = b]
    <3>1. a \in 0..4 /\ propagating[p] \in Propagating
      BY <2>1, <2>8
    <3>2. [propagating[p] EXCEPT !.at = a, !.failed = b] \in Propagating
      BY ONLY <3>1, b \in BOOLEAN DEF Propagating
    <3>. QED
      BY <3>2
  <2>4. propagating' = [propagating EXCEPT ![p] = next] /\ next.at # 0
    <3>1. propagating' = [propagating EXCEPT ![p].at = a, ![p].failed = b]
      BY <2>2, <2>8
    <3>2. next.at = a
      BY <2>1, <2>3 DEF Propagating
    <3>3. propagating' = [propagating EXCEPT ![p] = [propagating[p] EXCEPT !.at = a, !.failed = b]]
      BY <3>1
    <3>. QED
      BY <2>3, <3>2, <3>3
  <2>5. propagating'[p] # AtRest
    BY <2>4, RestIsTyped
  <2>6. received' \in [Target -> Known]
    BY <2>1, <2>2, ThereAreTargets DEF Propagating
  <2>7. UNCHANGED <<lastGood, overlapped>>
    BY <1>2 DEF PropagateOne
  <2>9. next.prior = propagating[p].prior /\ propagating[p] # AtRest /\ ~NoneUnderWay'
    BY <2>1, <2>3, <2>5, RestIsTyped DEF Propagating, NoneUnderWay
  <2>10. ~overlapped' => \A q \in Propagation : propagating'[q] # AtRest =>
           /\ propagating'[q].prior = lastGood'
           /\ \A r \in Propagation \ {q} : propagating'[r] = AtRest
    BY <2>4, <2>7, <2>9
  <2>. QED
    BY <2>4, <2>6, <2>7, <2>9, <2>10
<1>3. ASSUME NEW p \in Propagation, PropagationEnds(p) PROVE SharedInv'
  <2>1. propagating[p] \in Propagating
    OBVIOUS
  <2>2. propagating[p].version \in Known /\ propagating[p].prior \in Known
    BY <2>1 DEF Propagating
  <2>3. /\ propagating' = [propagating EXCEPT ![p] = AtRest] /\ UNCHANGED overlapped
        /\ lastGood' \in Known /\ \E v \in Known : received' = All(v)
        /\ \/ received' = All(lastGood')
           \/ received' = All(propagating[p].prior) /\ UNCHANGED lastGood
    BY <1>3, <2>2 DEF PropagationEnds, TakeBack
  <2>4. propagating[p] # AtRest
    BY <1>3, ThereAreTargets, RestIsTyped DEF PropagationEnds
  <2>5. ASSUME ~overlapped' PROVE received' = All(lastGood') /\ NoneUnderWay'
    <3>1. propagating[p].prior = lastGood /\ \A q \in Propagation \ {p} : propagating[q] = AtRest
      BY <2>3, <2>4, <2>5
    <3>. QED
      BY <2>3, <3>1 DEF NoneUnderWay
  <2>6. received' \in [Target -> Known]
    BY <2>3, AllIsOne
  <2>7. propagating' \in [Propagation -> Propagating]
    BY <2>3, RestIsTyped
  <2>. QED
    BY <2>3, <2>5, <2>6, <2>7 DEF NoneUnderWay
<1>4. CASE UNCHANGED sharedVars
  BY <1>4 DEF sharedVars, NoneUnderWay
<1>. QED
  BY <1>1, <1>2, <1>3, <1>4 DEF SharedNext

LEMMA SharedIsSafe == SharedInv => SharedTypeOK /\ OneVersionAtRest
<1>. SUFFICES ASSUME SharedInv PROVE SharedTypeOK /\ OneVersionAtRest
  OBVIOUS
<1>1. \A p \in Propagation : propagating[p] \in Propagating
  BY DEF SharedInv
<1>2. \A p \in Propagation : propagating[p].at \in 0..Len(PropagationTargets) + 1
  BY <1>1, ThereAreTargets DEF Propagating
<1>. QED
  BY <1>2, AllIsOne DEF SharedInv, SharedTypeOK, OneVersionAtRest, Target, Known

-----------------------------------------------------------------------------
(***************************************************************************)
(* Batches of edits.  During a batch no file goes back, one that has moved *)
(* was edited by the batch or by the user, and what the batch edited has.  *)
(***************************************************************************)
EditsAreKnown ==
  phase = "editing" =>
    /\ \A f \in EditedFile : content[f] >= originals[f]
    /\ \A f \in EditedFile : content[f] # originals[f] => f \in Touched(applied) \cup meanwhile
    /\ \A f \in Touched(applied) : content[f] > originals[f]

BatchInv == BatchTypeOK /\ BatchIsAtomic /\ EditsAreKnown

LEMMA BatchIsSeq ==
  \A b \in Batch \cup {<<>>} : b \in Seq(EditedFile)
<1>1. <<>> \in Seq(EditedFile)
  OBVIOUS
<1>2. ASSUME NEW b \in Batch PROVE b \in Seq(EditedFile)
  <2>1. PICK n \in 1..MaxBatch : b \in [1..n -> EditedFile]
    BY DEF Batch
  <2>2. n \in Nat
    BY <2>1, BatchAssumption
  <2>. QED
    BY <2>1, <2>2
<1>. QED
  BY <1>1, <1>2

LEMMA BatchStarts == BatchInit => BatchInv
<1>. SUFFICES ASSUME BatchInit PROVE BatchInv
  OBVIOUS
<1>1. content \in [EditedFile -> Version] /\ originals \in [EditedFile -> Version]
  BY BatchAssumption DEF BatchInit, Version
<1>2. applied \in 0..Len(batch)
  BY DEF BatchInit
<1>3. BatchTypeOK
  BY <1>1, <1>2 DEF BatchInit, BatchTypeOK
<1>. QED
  BY <1>3 DEF BatchInv, BatchInit, BatchIsAtomic, EditsAreKnown

LEMMA BatchStep ==
  ASSUME BatchInv, BatchNext \/ UNCHANGED batchVars
  PROVE  BatchInv'
<1>. USE BatchAssumption
<1>1. /\ content \in [EditedFile -> Version] /\ originals \in [EditedFile -> Version]
      /\ batch \in Seq(EditedFile) /\ Len(batch) \in Nat /\ applied \in 0..Len(batch)
      /\ meanwhile \subseteq EditedFile /\ persisted \subseteq EditedFile
      /\ phase \in {"rest", "editing", "ok", "failed"} /\ batch \in Batch \cup {<<>>}
  BY BatchIsSeq DEF BatchInv, BatchTypeOK
<1>2. \A n \in 0..Len(batch) : Touched(n) \subseteq EditedFile
  BY <1>1 DEF Touched
<1>3. \A v \in Version : v \in Nat
  BY DEF Version
<1>4. ASSUME NEW b \in Batch, BeginBatch(b) PROVE BatchInv'
  <2>1. /\ phase' = "editing" /\ batch' = b /\ applied' = 0 /\ originals' = content
        /\ meanwhile' = {} /\ persisted' = {} /\ UNCHANGED content
    BY <1>4 DEF BeginBatch
  <2>2. BatchTypeOK'
    <3>1. Len(b) \in Nat
      BY BatchIsSeq
    <3>. QED
      BY <1>1, <2>1, <3>1 DEF BatchTypeOK
  <2>3. Touched(applied)' = {}
    BY <2>1 DEF Touched
  <2>. QED
    BY <1>1, <1>3, <2>1, <2>2, <2>3 DEF BatchInv, BatchIsAtomic, EditsAreKnown
<1>5. CASE EditApplied
  <2>1. /\ phase = "editing" /\ applied < Len(batch) /\ content[batch[applied + 1]] < MaxVersion
        /\ content' = [content EXCEPT ![batch[applied + 1]] = @ + 1] /\ applied' = applied + 1
        /\ UNCHANGED <<batch, originals, phase, meanwhile, persisted>>
    BY <1>5 DEF EditApplied
  <2>2. PICK f \in EditedFile : f = batch[applied + 1]
    BY <1>1, <2>1
  <2>3. content' = [content EXCEPT ![f] = content[f] + 1] /\ content[f] + 1 \in Version
    BY <1>1, <2>1, <2>2 DEF Version
  <2>4. BatchTypeOK'
    BY <1>1, <2>1, <2>3 DEF BatchTypeOK
  <2>5. Touched(applied)' = Touched(applied) \cup {f}
    BY <1>1, <2>1, <2>2 DEF Touched
  <2>6. /\ \A g \in EditedFile : content[g] \in Nat /\ originals[g] \in Nat
        /\ \A g \in EditedFile : content[g] >= originals[g]
        /\ \A g \in EditedFile : content[g] # originals[g] => g \in Touched(applied) \cup meanwhile
        /\ \A g \in Touched(applied) : content[g] > originals[g]
    BY <1>1, <1>3, <2>1 DEF BatchInv, EditsAreKnown
  <2>7. /\ \A g \in EditedFile : content'[g] = IF g = f THEN content[f] + 1 ELSE content[g]
        /\ UNCHANGED originals
    BY <1>1, <2>1, <2>3
  <2>8. EditsAreKnown'
    <3>1. \A g \in EditedFile : content'[g] >= originals'[g]
      BY <2>6, <2>7
    <3>2. \A g \in EditedFile :
            content'[g] # originals'[g] => g \in Touched(applied)' \cup meanwhile'
      BY <2>1, <2>5, <2>6, <2>7
    <3>3. Touched(applied) \subseteq EditedFile
      BY <1>1, <1>2
    <3>4. \A g \in Touched(applied)' : content'[g] > originals'[g]
      BY <2>5, <2>6, <2>7, <3>3
    <3>. QED
      BY <3>1, <3>2, <3>4 DEF EditsAreKnown
  <2>. QED
    BY <2>1, <2>4, <2>8 DEF BatchInv, BatchIsAtomic
<1>6. CASE EditRefused
  <2>1. /\ phase = "editing" /\ phase' = "failed"
        /\ content' = [f \in EditedFile |-> IF f \in Touched(applied) THEN originals[f]
                                            ELSE content[f]]
        /\ UNCHANGED <<batch, originals, applied, meanwhile, persisted>>
    BY <1>6 DEF EditRefused, Restored
  <2>2. BatchTypeOK'
    BY <1>1, <2>1 DEF BatchTypeOK
  <2>. QED
    BY <1>1, <1>3, <2>1, <2>2 DEF BatchInv, BatchIsAtomic, EditsAreKnown
<1>7. CASE FinishBatch
  <2>1. /\ phase = "editing" /\ applied = Len(batch) /\ phase' = "ok"
        /\ persisted' = Touched(applied)
        /\ UNCHANGED <<content, batch, originals, applied, meanwhile>>
    BY <1>7 DEF FinishBatch
  <2>2. BatchTypeOK'
    BY <1>1, <1>2, <2>1 DEF BatchTypeOK
  <2>3. Touched(Len(batch))' = Touched(applied)
    BY <2>1 DEF Touched
  <2>. QED
    BY <2>1, <2>2, <2>3 DEF BatchInv, BatchIsAtomic, EditsAreKnown
<1>8. ASSUME NEW f \in EditedFile, UserEdits(f) PROVE BatchInv'
  <2>1. /\ content[f] < MaxVersion /\ content' = [content EXCEPT ![f] = content[f] + 1]
        /\ meanwhile' = meanwhile \cup (IF phase = "editing" THEN {f} ELSE {})
        /\ phase' = IF phase = "editing" THEN phase ELSE "rest"
        /\ UNCHANGED <<batch, originals, applied, persisted>>
    BY <1>8 DEF UserEdits
  <2>2. content[f] + 1 \in Version
    BY <1>1, <2>1 DEF Version
  <2>3. BatchTypeOK'
    BY <1>1, <2>1, <2>2 DEF BatchTypeOK
  <2>4. Touched(applied)' = Touched(applied)
    BY <2>1 DEF Touched
  <2>5. EditsAreKnown'
    BY <1>1, <1>2, <1>3, <2>1, <2>4 DEF BatchInv, EditsAreKnown
  <2>. QED
    BY <2>1, <2>3, <2>5 DEF BatchInv, BatchIsAtomic
<1>9. CASE UNCHANGED batchVars
  BY <1>9 DEF batchVars, BatchInv, BatchTypeOK, BatchIsAtomic, EditsAreKnown, Touched
<1>. QED
  BY <1>4, <1>5, <1>6, <1>7, <1>8, <1>9 DEF BatchNext

-----------------------------------------------------------------------------
(***************************************************************************)
(* Origins.  What there is of a project at each step of its creation: an   *)
(* entry only after "new", and until the creation ends unless the user     *)
(* deletes it; a tree that is whole only then; no boundary after an import *)
(* has been populated.                                                     *)
(***************************************************************************)
CreationIsKnown ==
  \A p \in Newborn :
    /\ originStep[p] = "new" => p \notin enrolled \cup housed \cup discarded /\ disk[p] = "none"
    /\ originStep[p] \in Populating => disk[p] # "whole" /\ (p \notin discarded => p \in enrolled)
    /\ originStep[p] = "populated" /\ origin[p] = "github-import" => p \notin housed
    /\ p \in discarded => p \notin enrolled

OriginInv == OriginTypeOK /\ OriginIsWhole /\ CreationIsKnown

LEMMA OriginStarts == OriginInit => OriginInv
BY DEF OriginInit, OriginInv, OriginTypeOK, OriginIsWhole, CreationIsKnown, Origin, Populating

LEMMA OriginStep ==
  ASSUME OriginInv, OriginNext \/ UNCHANGED originVars
  PROVE  OriginInv'
<1>. USE DEF OriginInv, OriginTypeOK, OriginIsWhole, CreationIsKnown, Origin, Populating, GoTo
<1>1. ASSUME NEW p \in Newborn, CreateFails(p) PROVE OriginInv'
  BY <1>1 DEF CreateFails
<1>2. ASSUME NEW p \in Newborn, NEW o \in Origin, CreateNewborn(p, o) PROVE OriginInv'
  BY <1>2 DEF CreateNewborn
<1>3. ASSUME NEW p \in Newborn, Populate(p) PROVE OriginInv'
  BY <1>3 DEF Populate, PopulateBlank, PopulateTemplate, AbortTemplate, PopulateFork,
              BeginImport, RequireStore
<1>4. ASSUME NEW p \in Newborn, CloneExec(p) PROVE OriginInv'
  BY <1>4 DEF CloneExec
<1>5. ASSUME NEW p \in Newborn, NEW ok \in BOOLEAN, CloneEnds(p, ok) PROVE OriginInv'
  BY <1>5 DEF CloneEnds, Released
<1>6. ASSUME NEW p \in Newborn, OriginRefused(p) PROVE OriginInv'
  BY <1>6 DEF OriginRefused, RollbackAfterAcquire
<1>7. ASSUME NEW p \in Newborn, OriginPersisted(p) PROVE OriginInv'
  BY <1>7 DEF OriginPersisted, RequireStore
<1>8. ASSUME NEW p \in Newborn, OriginPersistFails(p) PROVE OriginInv'
  BY <1>8 DEF OriginPersistFails, RollbackAfterAcquire, RequireStore
<1>9. ASSUME NEW p \in Newborn, Discard(p) PROVE OriginInv'
  BY <1>9 DEF Discard
<1>10. CASE UNCHANGED originVars
  BY <1>10 DEF originVars
<1>. QED
  BY <1>1, <1>2, <1>3, <1>4, <1>5, <1>6, <1>7, <1>8, <1>9, <1>10 DEF OriginNext

-----------------------------------------------------------------------------
(***************************************************************************)
(* Publications.  A deploy under way has an artifact to stage, and the     *)
(* releases that are on disk are finitely many.                            *)
(***************************************************************************)
Todo == {<<"web">>, <<"mobile">>, <<"web", "mobile">>}
Deploying == [does |-> "deploy"]
Publication == {NoJob, Deploying} \cup {Building(w) : w \in Todo}

WorkInv ==
  /\ edits \in 1..MaxEdits + 1 /\ artifact \in [{"web", "mobile"} -> 0..MaxEdits + 1]
  /\ tracked \subseteq {"web", "mobile"} /\ job \in [Job -> Publication]
  /\ \A t \in tracked : artifact[t] # 0
  /\ \A j \in Job : job[j].does = "deploy" => artifact["web"] # 0

SiteInv ==
  /\ current \in Stamp \cup {0} /\ release \in [Stamp -> 0..Incomplete] /\ litter \subseteq Stamp
  /\ deployed \in BOOLEAN /\ {reported, late} \subseteq 0..MaxEdits + 1
  /\ current # 0 => release[current] \notin {Absent, Incomplete}
  /\ Served = IF late # 0 THEN late ELSE reported
  /\ IsFiniteSet(Present) /\ Cardinality(Present \ litter) <= ReleasesKept

PublishInv == WorkInv /\ SiteInv

\* Of a finite set of numbers, no more than n have at most n below them to the top.
LEMMA RankIsSmaller ==
  ASSUME NEW A \in SUBSET Nat, IsFiniteSet(A), NEW a \in A, NEW b \in A, a < b
  PROVE  Cardinality({r \in A : r < a}) < Cardinality({r \in A : r < b})
<1>1. IsFiniteSet({r \in A : r < a}) /\ IsFiniteSet({r \in A : r < b})
  BY FS_Subset
<1>2. Cardinality({r \in A : r < a} \cup {a}) = Cardinality({r \in A : r < a}) + 1
  <2>. DEFINE S == {r \in A : r < a}
  <2>1. a \notin S
    OBVIOUS
  <2>. HIDE DEF S
  <2>2. Cardinality(S \cup {a}) = IF a \in S THEN Cardinality(S) ELSE Cardinality(S) + 1
    BY <1>1, FS_AddElement DEF S
  <2>3. Cardinality(S \cup {a}) = Cardinality(S) + 1
    BY <2>1, <2>2
  <2>. QED
    BY <2>3 DEF S
<1>3. {r \in A : r < a} \cup {a} \in SUBSET {r \in A : r < b}
  <2>1. \A r \in A : r < a => r < b
    OBVIOUS
  <2>. QED
    BY <2>1
<1>4. Cardinality({r \in A : r < a} \cup {a}) <= Cardinality({r \in A : r < b})
  BY <1>1, <1>3, FS_Subset
<1>5. Cardinality({r \in A : r < a}) \in Nat /\ Cardinality({r \in A : r < b}) \in Nat
  BY <1>1, FS_CardinalityType
<1>. QED
  BY <1>2, <1>4, <1>5

LEMMA FewAreLast ==
  ASSUME NEW A \in SUBSET Nat, IsFiniteSet(A), NEW n \in Nat
  PROVE  LET Newest == {s \in A : Cardinality({r \in A : r < s}) + n >= Cardinality(A)}
         IN IsFiniteSet(Newest) /\ Cardinality(Newest) <= n
<1>. DEFINE Rank(s) == Cardinality({r \in A : r < s})
            Newest == {s \in A : Rank(s) + n >= Cardinality(A)}
            Top == (Cardinality(A) - n)..(Cardinality(A) - 1)
            place == [s \in Newest |-> Rank(s)]
<1>1. Cardinality(A) \in Nat
  BY FS_CardinalityType
<1>2. ASSUME NEW s \in A PROVE Rank(s) \in Nat /\ Rank(s) < Cardinality(A)
  <2>1. IsFiniteSet({r \in A : r < s}) /\ {r \in A : r < s} \in SUBSET A
    BY FS_Subset
  <2>2. Rank(s) <= Cardinality(A) /\ (Cardinality(A) = Rank(s) => A = {r \in A : r < s})
    BY <2>1, FS_Subset
  <2>3. A # {r \in A : r < s}
    OBVIOUS
  <2>4. Rank(s) \in Nat
    BY <2>1, FS_CardinalityType
  <2>. QED
    BY <1>1, <2>2, <2>3, <2>4
<1>. HIDE DEF Rank
<1>3. \A s \in Newest : Rank(s) \in Top
  BY <1>1, <1>2
<1>4. \A s, t \in Newest : place[s] = place[t] => s = t
  <2>1. \A s, t \in A : s < t => Rank(s) < Rank(t)
    BY RankIsSmaller DEF Rank
  <2>2. \A s, t \in A : Rank(s) = Rank(t) => s = t
    <3>. SUFFICES ASSUME NEW s \in A, NEW t \in A, Rank(s) = Rank(t) PROVE s = t
      OBVIOUS
    <3>1. ~(s < t) /\ ~(t < s)
      BY <1>2, <2>1
    <3>. QED
      BY <3>1
  <2>. QED
    BY <2>2
<1>5. place \in Injection(Newest, Top)
  <2>1. place \in [Newest -> Top]
    BY <1>3
  <2>. HIDE DEF place, Newest, Top
  <2>. QED
    BY <1>4, <2>1, Fun_IsInj
<1>6. IsFiniteSet(Top) /\ Cardinality(Top) <= n
  <2>. DEFINE lo == Cardinality(A) - n
              hi == Cardinality(A) - 1
  <2>1. lo \in Int /\ hi \in Int /\ (lo <= hi => hi - lo + 1 = n)
    BY <1>1
  <2>. HIDE DEF lo, hi
  <2>2. IsFiniteSet(lo..hi) /\ Cardinality(lo..hi) = IF lo > hi THEN 0 ELSE hi - lo + 1
    BY <2>1, FS_Interval
  <2>3. Cardinality(lo..hi) <= n
    BY <2>1, <2>2
  <2>. QED
    BY <2>2, <2>3 DEF lo, hi
<1>7. IsFiniteSet(Newest) /\ Cardinality(Newest) <= Cardinality(Top)
  <2>. HIDE DEF place, Newest, Top
  <2>. QED
    BY <1>5, <1>6, FS_Injection
<1>8. Cardinality(Newest) \in Nat /\ Cardinality(Top) \in Nat
  BY <1>6, <1>7, FS_CardinalityType
<1>9. Cardinality(Newest) <= n
  <2>. HIDE DEF Newest, Top
  <2>. QED
    BY <1>6, <1>7, <1>8
<1>. QED
  BY <1>7, <1>9 DEF Rank

\* What is pruned leaves no more than those kept, the one published among them.
LEMMA KeptAreFew ==
  ASSUME NEW all \in SUBSET Nat, IsFiniteSet(all), NEW keep \in all
  PROVE  IsFiniteSet(all \ Doomed(all, keep))
         /\ Cardinality(all \ Doomed(all, keep)) <= ReleasesKept
<1>. DEFINE A == all \ {keep}
            n == ReleasesKept - 1
            Newest == {s \in A : Cardinality({r \in A : r < s}) + n >= Cardinality(A)}
<1>1. n \in Nat /\ ReleasesKept = n + 1
  BY PublishingAssumption
<1>2. IsFiniteSet(A) /\ Cardinality(A) \in Nat /\ Cardinality(all) = Cardinality(A) + 1
  <2>1. IsFiniteSet(A) /\ Cardinality(A) = Cardinality(all) - 1
    BY FS_RemoveElement
  <2>. QED
    BY <2>1, FS_CardinalityType
<1>3. IsFiniteSet(Newest) /\ Cardinality(Newest) <= n /\ Cardinality(Newest) \in Nat
  <2>1. A \in SUBSET Nat
    OBVIOUS
  <2>2. IsFiniteSet(Newest) /\ Cardinality(Newest) <= n
    <3>. HIDE DEF A, n
    <3>. QED
      BY <1>1, <1>2, <2>1, FewAreLast
  <2>. QED
    BY <2>2, FS_CardinalityType
<1>4. ASSUME NEW s \in A
      PROVE  Cardinality({r \in A : r < s}) \in Nat
  <2>1. IsFiniteSet({r \in A : r < s})
    BY <1>2, FS_Subset
  <2>. QED
    BY <2>1, FS_CardinalityType
<1>5. Doomed(all, keep) = {s \in A : Cardinality({r \in A : r < s}) + ReleasesKept < Cardinality(all)}
  BY DEF Doomed
<1>6. all \ Doomed(all, keep) = Newest \cup {keep}
  <2>1. ASSUME NEW s \in A PROVE s \in Doomed(all, keep) <=> s \notin Newest
    BY <1>1, <1>2, <1>4, <1>5
  <2>2. keep \notin Doomed(all, keep) /\ all = A \cup {keep} /\ \A s \in Newest : s \in A
    BY <1>5
  <2>. HIDE DEF A, Newest
  <2>. QED
    BY <2>1, <2>2
<1>7. IsFiniteSet(Newest \cup {keep}) /\ Cardinality(Newest \cup {keep}) <= Cardinality(Newest) + 1
  <2>. HIDE DEF Newest
  <2>1. /\ IsFiniteSet(Newest \cup {keep})
        /\ Cardinality(Newest \cup {keep})
             = IF keep \in Newest THEN Cardinality(Newest) ELSE Cardinality(Newest) + 1
    BY <1>3, FS_AddElement
  <2>. QED
    BY <1>3, <2>1
<1>8. Cardinality(Newest \cup {keep}) \in Nat
  BY <1>7, FS_CardinalityType
<1>9. Cardinality(Newest \cup {keep}) <= ReleasesKept
  <2>. HIDE DEF Newest, n
  <2>. QED
    BY <1>1, <1>3, <1>7, <1>8
<1>. QED
  BY <1>6, <1>7, <1>9

LEMMA PublishStarts == PublishInit => PublishInv
<1>. SUFFICES ASSUME PublishInit PROVE PublishInv
  OBVIOUS
<1>1. /\ edits = 1 /\ tracked = {} /\ job = [j \in Job |-> NoJob] /\ current = 0
      /\ artifact = [t \in {"web", "mobile"} |-> 0] /\ release = [s \in Stamp |-> Absent]
      /\ deployed = FALSE /\ reported = 0 /\ late = 0 /\ litter = {}
  BY DEF PublishInit
<1>2. WorkInv
  <2>1. NoJob \in Publication /\ NoJob.does = "nothing"
    BY DEF Publication, NoJob
  <2>. QED
    BY <1>1, <2>1, PublishingAssumption DEF WorkInv
<1>3. Present = {} /\ Present \ litter = {}
  BY <1>1 DEF Present
<1>4. IsFiniteSet(Present) /\ Cardinality(Present \ litter) <= ReleasesKept
  BY <1>3, FS_EmptySet, PublishingAssumption
<1>5. 0 \in 0..Incomplete /\ 0 \in 0..MaxEdits + 1
  BY PublishingAssumption DEF Incomplete
<1>. QED
  BY <1>1, <1>2, <1>4, <1>5 DEF PublishInv, SiteInv, Absent, Served

LEMMA SiteRests == ASSUME SiteInv, UNCHANGED siteVars PROVE SiteInv'
BY DEF SiteInv, siteVars, Present, Absent, Served

\* Whatever becomes of a call, as long as it is no deploy.
LEMMA CallBecomes ==
  ASSUME WorkInv, NEW j \in Job, NEW what \in Publication, Becomes(j, what),
         what.does = "deploy" => artifact["web"] # 0, UNCHANGED <<edits, artifact, tracked>>
  PROVE  WorkInv'
BY DEF WorkInv, Becomes

LEMMA CallsAreKnown ==
  /\ NoJob \in Publication /\ NoJob.does = "nothing"
  /\ Deploying \in Publication /\ Deploying.does = "deploy"
  /\ \A w \in Todo : Building(w) \in Publication /\ Building(w).does = "build" /\ Building(w).todo = w
BY DEF Publication, NoJob, Deploying, Building

LEMMA NextIsKnown ==
  ASSUME WorkInv, NEW j \in Job, job[j].does = "build", NextTarget(j)
  PROVE  \E what \in Publication : what.does # "deploy" /\ Becomes(j, what)
<1>1. PICK w \in Todo : job[j] = Building(w)
  BY CallsAreKnown DEF WorkInv, Publication
<1>2. job[j].todo = w
  BY <1>1, CallsAreKnown
<1>3. CASE Len(w) = 1
  BY <1>2, <1>3, CallsAreKnown DEF NextTarget, Frees
<1>4. CASE Len(w) # 1
  <2>1. Tail(w) \in Todo
    <3>1. Len(<<"web">>) = 1 /\ Len(<<"mobile">>) = 1
      OBVIOUS
    <3>2. w = <<"web", "mobile">>
      BY <1>4, <3>1 DEF Todo
    <3>3. Tail(<<"web", "mobile">>) = <<"mobile">>
      OBVIOUS
    <3>. QED
      BY <3>2, <3>3 DEF Todo
  <2>2. Building(Tail(w)) \in Publication /\ Building(Tail(w)).does = "build"
    BY <2>1, CallsAreKnown
  <2>3. Becomes(j, Building(Tail(w)))
    BY <1>2, <1>4 DEF NextTarget
  <2>. QED
    BY <2>2, <2>3
<1>. QED
  BY <1>3, <1>4

LEMMA ArtifactIsStored ==
  ASSUME WorkInv, NEW j \in Job, job[j].does = "build", NextTarget(j),
         NEW t \in {"web", "mobile"}, NEW contents \in SUBSET (1..edits), Stored(t, contents),
         UNCHANGED edits
  PROVE  WorkInv'
<1>1. PICK what \in Publication : what.does # "deploy" /\ job' = [job EXCEPT ![j] = what]
  BY NextIsKnown DEF Becomes
<1>2. PICK e \in contents : artifact' = [artifact EXCEPT ![t] = e]
  BY DEF Stored
<1>3. e \in 1..MaxEdits + 1
  BY PublishingAssumption DEF WorkInv
<1>4. tracked' = tracked \cup {t}
  BY DEF Stored
<1>5. \A u \in {"web", "mobile"} : artifact'[u] = IF u = t THEN e ELSE artifact[u]
  BY <1>2 DEF WorkInv
<1>6. artifact' \in [{"web", "mobile"} -> 0..MaxEdits + 1]
  BY <1>2, <1>3 DEF WorkInv
<1>. QED
  BY <1>1, <1>3, <1>4, <1>5, <1>6 DEF WorkInv

LEMMA StagingStep ==
  ASSUME SiteInv, NEW s \in Stamp, release[s] = Absent,
         release' = [release EXCEPT ![s] = Incomplete], litter' = litter \cup {s},
         deployed' \in BOOLEAN, UNCHANGED <<current, reported, late>>
  PROVE  SiteInv'
<1>. USE PublishingAssumption
<1>1. current # s
  BY DEF SiteInv
<1>2. Incomplete \in 0..Incomplete /\ Incomplete # Absent
  BY DEF Incomplete, Absent
<1>3. release' \in [Stamp -> 0..Incomplete]
  BY <1>2 DEF SiteInv
<1>4. current # 0 => release'[current] = release[current]
  BY <1>1 DEF SiteInv
<1>5. Present' = Present \cup {s}
  BY <1>2 DEF SiteInv, Present
<1>6. IsFiniteSet(Present')
  BY <1>5, FS_AddElement DEF SiteInv
<1>7. Present' \ litter' \in SUBSET (Present \ litter) /\ IsFiniteSet(Present \ litter)
  BY <1>5, FS_Difference DEF SiteInv
<1>8. /\ Cardinality(Present' \ litter') <= Cardinality(Present \ litter)
      /\ Cardinality(Present' \ litter') \in Nat /\ Cardinality(Present \ litter) \in Nat
  BY <1>7, FS_Subset, FS_CardinalityType
<1>9. Cardinality(Present' \ litter') <= ReleasesKept
  BY <1>8 DEF SiteInv
<1>. QED
  BY <1>3, <1>4, <1>6, <1>9 DEF SiteInv, Present, Served

LEMMA PublishingStep ==
  ASSUME SiteInv, NEW e \in 1..MaxEdits + 1, NEW s \in Stamp, release[s] = Absent,
         NEW gone \in SUBSET Doomed(Present \cup {s}, s),
         release' = [r \in Stamp |-> IF r \in gone THEN Absent ELSE IF r = s THEN e ELSE release[r]],
         litter' = (litter \cup Doomed(Present \cup {s}, s)) \ gone, current' = s,
         \/ deployed' = TRUE /\ reported' = e /\ late' = 0
         \/ late' = e /\ UNCHANGED <<deployed, reported>>
  PROVE  SiteInv'
<1>. USE PublishingAssumption
<1>. DEFINE all == Present \cup {s}
            D == Doomed(all, s)
<1>1. D \in SUBSET all /\ s \notin D /\ all \in SUBSET Nat /\ s \in all /\ all \subseteq Stamp
  BY DEF Doomed, Present
<1>2. IsFiniteSet(all)
  BY FS_AddElement DEF SiteInv
<1>3. IsFiniteSet(all \ D) /\ Cardinality(all \ D) <= ReleasesKept
  <2>. HIDE DEF all
  <2>. QED
    BY <1>1, <1>2, KeptAreFew
<1>4. e \in 0..Incomplete /\ e # Absent /\ e # Incomplete
  BY DEF Incomplete, Absent
<1>5. release' \in [Stamp -> 0..Incomplete] /\ release'[s] = e
  <2>1. Absent \in 0..Incomplete
    BY DEF Incomplete, Absent
  <2>. QED
    BY <1>1, <1>4, <2>1 DEF SiteInv
<1>6. Present' = all \ gone
  BY <1>1, <1>4 DEF SiteInv, Present
<1>7. IsFiniteSet(Present') /\ Present' \ litter' \in SUBSET (all \ D)
  <2>1. IsFiniteSet(all \ gone)
    BY <1>2, FS_Difference
  <2>2. Present' \ litter' \in SUBSET (all \ D)
    BY <1>6
  <2>. QED
    BY <1>6, <2>1, <2>2
<1>8. Cardinality(Present' \ litter') <= ReleasesKept
  <2>. HIDE DEF all, D
  <2>1. /\ Cardinality(Present' \ litter') <= Cardinality(all \ D)
        /\ Cardinality(Present' \ litter') \in Nat /\ Cardinality(all \ D) \in Nat
    BY <1>3, <1>7, FS_Subset, FS_CardinalityType
  <2>. QED
    BY <1>3, <2>1
<1>9. litter' \subseteq Stamp /\ current' \in Stamp \cup {0} /\ current' # 0
  BY <1>1 DEF SiteInv
<1>10. deployed' \in BOOLEAN /\ late' \in 0..MaxEdits + 1 /\ reported' \in 0..MaxEdits + 1
  <2>1. deployed' = TRUE \/ deployed' = deployed
    OBVIOUS
  <2>2. deployed' \in BOOLEAN
    <3>1. deployed \in BOOLEAN
      BY DEF SiteInv
    <3>. QED
      BY ONLY <2>1, <3>1
  <2>3. reported' \in 0..MaxEdits + 1 /\ late' \in 0..MaxEdits + 1
    BY DEF SiteInv
  <2>. QED
    BY <2>2, <2>3
<1>11. release'[s] = IF late' # 0 THEN late' ELSE reported'
  BY <1>5
<1>. HIDE DEF all, D
<1>. QED
  BY <1>4, <1>5, <1>7, <1>8, <1>9, <1>10, <1>11 DEF SiteInv, Present, Served

LEMMA PublishStep ==
  ASSUME PublishInv, PublishNext \/ UNCHANGED publishVars
  PROVE  PublishInv'
<1>. USE PublishingAssumption DEF PublishInv
<1>1. CASE EditTree
  <2>1. /\ edits <= MaxEdits /\ edits' = edits + 1
        /\ UNCHANGED <<artifact, tracked, job>> /\ UNCHANGED siteVars
    BY <1>1 DEF EditTree
  <2>2. WorkInv'
    BY <2>1 DEF WorkInv
  <2>. QED
    BY <2>1, <2>2, SiteRests
<1>2. CASE PublisherDies
  <2>1. /\ job' = [j \in Job |-> NoJob] /\ tracked' = {} /\ deployed' = FALSE
        /\ UNCHANGED <<edits, artifact, current, reported, late>>
    BY <1>2 DEF PublisherDies
  <2>2. WorkInv'
    BY <2>1, CallsAreKnown DEF WorkInv
  <2>3. CASE UNCHANGED <<release, litter>>
    BY <2>1, <2>2, <2>3 DEF SiteInv, Present, Served
  <2>4. CASE ~UNCHANGED <<release, litter>>
    <3>1. PICK s \in Stamp : /\ release[s] = Absent /\ litter' = litter \cup {s}
                             /\ release' = [release EXCEPT ![s] = Incomplete]
      BY <1>2, <2>4 DEF PublisherDies
    <3>. QED
      BY <2>1, <2>2, <3>1, StagingStep, FALSE \in BOOLEAN
  <2>. QED
    BY <2>3, <2>4
<1>3. ASSUME NEW j \in Job, StartBuild(j) PROVE PublishInv'
  <2>1. /\ Becomes(j, Building(<<"web">>)) /\ UNCHANGED <<edits, artifact, tracked>>
        /\ UNCHANGED siteVars
    BY <1>3 DEF StartBuild
  <2>2. <<"web">> \in Todo
    BY DEF Todo
  <2>. QED
    BY <2>1, <2>2, CallsAreKnown, CallBecomes, SiteRests
<1>4. ASSUME NEW j \in Job, BuildTargets(j) PROVE PublishInv'
  <2>1. /\ Becomes(j, Building(<<"web", "mobile">>)) /\ UNCHANGED <<edits, artifact, tracked>>
        /\ UNCHANGED siteVars
    BY <1>4 DEF BuildTargets
  <2>2. <<"web", "mobile">> \in Todo
    BY DEF Todo
  <2>. QED
    BY <2>1, <2>2, CallsAreKnown, CallBecomes, SiteRests
<1>5. ASSUME NEW j \in Job, BuildFails(j) \/ MobileBuildFails(j) PROVE PublishInv'
  <2>1. /\ job[j].does = "build" /\ NextTarget(j) /\ UNCHANGED <<edits, artifact, tracked>>
        /\ UNCHANGED siteVars
    BY <1>5 DEF BuildFails, MobileBuildFails, Builds
  <2>2. PICK what \in Publication : what.does # "deploy" /\ Becomes(j, what)
    BY <2>1, NextIsKnown
  <2>. QED
    BY <2>1, <2>2, CallBecomes, SiteRests
<1>6. ASSUME NEW j \in Job, BuildSucceeds(j) PROVE PublishInv'
  <2>1. /\ job[j].does = "build" /\ NextTarget(j) /\ Stored("web", 1..edits) /\ UNCHANGED edits
        /\ UNCHANGED siteVars
    BY <1>6 DEF BuildSucceeds, Builds
  <2>. QED
    BY <2>1, ArtifactIsStored, SiteRests
<1>7. ASSUME NEW j \in Job, MobileBuildSucceeds(j) PROVE PublishInv'
  <2>1. /\ job[j].does = "build" /\ NextTarget(j) /\ Stored("mobile", {1}) /\ UNCHANGED edits
        /\ UNCHANGED siteVars
    BY <1>7 DEF MobileBuildSucceeds, Builds
  <2>2. {1} \in SUBSET (1..edits)
    BY DEF WorkInv
  <2>. QED
    BY <2>1, <2>2, ArtifactIsStored, SiteRests
<1>8. ASSUME NEW j \in Job, StartDeploy(j) PROVE PublishInv'
  <2>1. /\ "web" \in tracked /\ Becomes(j, Deploying) /\ UNCHANGED <<edits, artifact, tracked>>
        /\ UNCHANGED siteVars
    BY <1>8 DEF StartDeploy, Deploying
  <2>2. artifact["web"] # 0
    BY <2>1 DEF WorkInv
  <2>. QED
    BY <2>1, <2>2, CallsAreKnown, CallBecomes, SiteRests
<1>9. ASSUME NEW j \in Job, DeployRefused(j) PROVE PublishInv'
  <2>1. Becomes(j, NoJob) /\ UNCHANGED <<edits, artifact, tracked>> /\ UNCHANGED siteVars
    BY <1>9 DEF DeployRefused, Frees
  <2>. QED
    BY <2>1, CallsAreKnown, CallBecomes, SiteRests
<1>10. ASSUME NEW j \in Job, NEW s \in Stamp, StageFails(j, s) PROVE PublishInv'
  <2>1. /\ Becomes(j, NoJob) /\ UNCHANGED <<edits, artifact, tracked>> /\ release[s] = Absent
        /\ UNCHANGED <<current, deployed, reported, late>>
        /\ \/ UNCHANGED <<release, litter>>
           \/ release' = [release EXCEPT ![s] = Incomplete] /\ litter' = litter \cup {s}
    BY <1>10 DEF StageFails, Frees
  <2>2. WorkInv'
    BY <2>1, CallsAreKnown, CallBecomes
  <2>3. SiteInv'
    <3>1. CASE UNCHANGED <<release, litter>>
      BY <2>1, <3>1, SiteRests DEF siteVars
    <3>2. CASE release' = [release EXCEPT ![s] = Incomplete] /\ litter' = litter \cup {s}
      <4>1. deployed' \in BOOLEAN
        BY <2>1 DEF SiteInv
      <4>. QED
        BY <2>1, <3>2, <4>1, StagingStep
    <3>. QED
      BY <2>1, <3>1, <3>2
  <2>. QED
    BY <2>2, <2>3
<1>11. ASSUME NEW j \in Job, NEW s \in Stamp, DeployPublishes(j, s) PROVE PublishInv'
  <2>1. /\ job[j].does = "deploy" /\ Becomes(j, NoJob) /\ UNCHANGED <<edits, artifact, tracked>>
        /\ release[s] = Absent /\ current' = s
        /\ \/ deployed' = TRUE /\ reported' = artifact["web"] /\ late' = 0
           \/ late' = artifact["web"] /\ UNCHANGED <<deployed, reported>>
    BY <1>11 DEF DeployPublishes, Frees
  <2>2. PICK gone \in SUBSET Doomed(Present \cup {s}, s) :
          /\ release' = [r \in Stamp |-> IF r \in gone THEN Absent
                                         ELSE IF r = s THEN artifact["web"] ELSE release[r]]
          /\ litter' = (litter \cup Doomed(Present \cup {s}, s)) \ gone
    BY <1>11 DEF DeployPublishes
  <2>3. artifact["web"] \in 1..MaxEdits + 1
    BY <2>1 DEF WorkInv
  <2>4. WorkInv'
    BY <2>1, CallsAreKnown, CallBecomes
  <2>. HIDE DEF PublishInv
  <2>5. SiteInv
    BY DEF PublishInv
  <2>6. SiteInv'
    BY <2>1, <2>2, <2>3, <2>5, PublishingStep
  <2>. QED
    BY <2>4, <2>6 DEF PublishInv
<1>12. CASE UNCHANGED publishVars
  <2>1. UNCHANGED siteVars /\ WorkInv'
    BY <1>12 DEF publishVars, siteVars, WorkInv
  <2>. QED
    BY <2>1, SiteRests
<1>. QED
  BY <1>1, <1>2, <1>3, <1>4, <1>5, <1>6, <1>7, <1>8, <1>9, <1>10, <1>11, <1>12 DEF PublishNext

LEMMA PublishIsSafe == PublishInv => PublishTypeOK /\ PublishedIsServed
BY DEF PublishInv, WorkInv, SiteInv, PublishTypeOK, PublishedIsServed

-----------------------------------------------------------------------------
(***************************************************************************)
(* Healing.  While a generation goes on it has no outcome and delivers     *)
(* nothing, and it has met one failure for every attempt.                  *)
(***************************************************************************)
HealTypes ==
  /\ turn \in {"idle", "send", "verify"} /\ attempt \in 0..MaxHealing /\ seenFail \subseteq Failure
  /\ healing \in BOOLEAN /\ aborted \in BOOLEAN /\ unverified \in BOOLEAN
  /\ overrun \in BOOLEAN /\ suspended \in BOOLEAN
  /\ verdict \in {"none", "PASS", "FAIL"} /\ delivered \subseteq Delivery
  /\ outcome \in {"none", "PASS", "disabled", "oscillation", "max-attempts", "cancelled", "error"}

HealInv ==
  /\ HealTypes /\ HealingIsHonest /\ IsFiniteSet(seenFail)
  /\ turn # "idle" => outcome = "none" /\ delivered = {} /\ suspended = FALSE

LEMMA HealStarts == HealInit => HealInv
<1>. SUFFICES ASSUME HealInit PROVE HealInv
  OBVIOUS
<1>1. HealTypes
  <2>1. attempt \in 0..MaxHealing
    BY HealingAssumption DEF HealInit
  <2>. QED
    BY <2>1 DEF HealInit, HealTypes
<1>2. HealingIsHonest
  BY HealingAssumption DEF HealInit, HealingIsHonest
<1>3. IsFiniteSet(seenFail)
  BY FS_EmptySet DEF HealInit
<1>. QED
  BY <1>1, <1>2, <1>3 DEF HealInv, HealInit

\* A failure not met before makes them one more.
LEMMA OneMoreFailure ==
  ASSUME HealInv, turn = "verify", NEW s \in Failure, attempt = 0 \/ s \notin seenFail
  PROVE  IsFiniteSet(seenFail \cup {s}) /\ Cardinality(seenFail \cup {s}) = attempt + 1
<1>1. IsFiniteSet(seenFail) /\ Cardinality(seenFail) = attempt
  BY DEF HealInv, HealingIsHonest
<1>2. s \notin seenFail
  BY <1>1, FS_EmptySet
<1>. QED
  BY <1>1, <1>2, FS_AddElement

LEMMA HealStep ==
  ASSUME HealInv, HealNext \/ UNCHANGED healVars
  PROVE  HealInv'
<1>. USE HealingAssumption
<1>1. HealTypes /\ HealingIsHonest /\ IsFiniteSet(seenFail)
      /\ (turn # "idle" => outcome = "none" /\ delivered = {} /\ suspended = FALSE)
  BY DEF HealInv
<1>2. CASE BeginGeneration
  <2>1. Cardinality(seenFail') = attempt' /\ IsFiniteSet(seenFail')
    BY <1>2, FS_EmptySet DEF BeginGeneration
  <2>2. HealTypes'
    <3>1. attempt' \in 0..MaxHealing
      BY <1>2 DEF BeginGeneration
    <3>. QED
      BY <1>1, <1>2, <3>1 DEF BeginGeneration, HealTypes
  <2>. QED
    BY <1>1, <1>2, <2>1, <2>2 DEF BeginGeneration, HealInv, HealingIsHonest
<1>3. CASE Abort
  BY <1>1, <1>3 DEF Abort, HealInv, HealTypes, HealingIsHonest
<1>4. CASE AgentReturns
  BY <1>1, <1>4 DEF AgentReturns, EndTurn, HealInv, HealTypes, HealingIsHonest
<1>5. CASE AgentThrows
  BY <1>1, <1>5 DEF AgentThrows, EndTurn, HealInv, HealTypes, HealingIsHonest
<1>6. CASE VerifyUnavailable
  BY <1>1, <1>6 DEF VerifyUnavailable, EndTurn, HealInv, HealTypes, HealingIsHonest
<1>7. CASE VerifyPasses
  <2>1. delivered' \subseteq Delivery /\ ("published" \in delivered' => "snapshot" \in delivered')
    BY <1>7 DEF VerifyPasses, Deliverable
  <2>. QED
    BY <1>1, <1>7, <2>1 DEF VerifyPasses, EndTurn, HealInv, HealTypes, HealingIsHonest
<1>8. ASSUME NEW s \in Failure, VerifyFails(s) PROVE HealInv'
  <2>1. /\ turn = "verify" /\ verdict' = "FAIL" /\ unverified' = FALSE
        /\ UNCHANGED <<healing, aborted, delivered>>
    BY <1>8 DEF VerifyFails
  <2>2. outcome = "none" /\ delivered = {} /\ suspended = FALSE /\ ~overrun
    BY <1>1, <2>1 DEF HealingIsHonest
  <2>3. CASE attempt = 0 /\ ~healing
    <3>1. turn' = "idle" /\ outcome' = "disabled" /\ UNCHANGED <<attempt, seenFail, overrun, suspended>>
      BY <1>8, <2>3 DEF VerifyFails, EndTurn
    <3>. QED
      BY <1>1, <2>1, <2>2, <3>1 DEF HealInv, HealTypes, HealingIsHonest
  <2>4. CASE ~(attempt = 0 /\ ~healing)
    <3>1. seenFail' = seenFail \cup {s} /\ seenFail' \subseteq Failure
      BY <1>1, <1>8, <2>4 DEF VerifyFails, HealTypes
    <3>2. IsFiniteSet(seenFail')
      BY <1>1, <3>1, FS_AddElement
    <3>3. CASE attempt > 0 /\ Seen(s)
      <4>1. turn' = "idle" /\ outcome' = "oscillation" /\ suspended' = (attempt >= MaxFailedBuilds)
            /\ UNCHANGED <<attempt, overrun>>
        BY <1>8, <2>4, <3>3 DEF VerifyFails, GiveUp, EndTurn
      <4>2. HealTypes'
        <5>1. suspended' \in BOOLEAN
          BY <4>1
        <5>. QED
          BY <1>1, <2>1, <3>1, <4>1, <5>1 DEF HealTypes
      <4>. QED
        BY <1>1, <2>1, <2>2, <3>1, <3>2, <4>1, <4>2 DEF HealInv, HealingIsHonest
    <3>4. CASE ~(attempt > 0 /\ Seen(s))
      <4>1. Cardinality(seenFail') = attempt + 1
        <5>1. attempt = 0 \/ s \notin seenFail
          BY <1>1, <3>4 DEF Seen, HealTypes
        <5>. QED
          BY <2>1, <3>1, <5>1, OneMoreFailure
      <4>2. CASE attempt = MaxHealing
        <5>1. turn' = "idle" /\ outcome' = "max-attempts" /\ suspended' = (attempt >= MaxFailedBuilds)
              /\ UNCHANGED <<attempt, overrun>>
          BY <1>8, <2>4, <3>4, <4>2 DEF VerifyFails, GiveUp, EndTurn
        <5>2. HealTypes'
          <6>1. suspended' \in BOOLEAN
            BY <5>1
          <6>. QED
            BY <1>1, <2>1, <3>1, <5>1, <6>1 DEF HealTypes
        <5>. QED
          BY <1>1, <2>1, <2>2, <3>1, <3>2, <4>1, <4>2, <5>1, <5>2 DEF HealInv, HealingIsHonest
      <4>3. CASE attempt # MaxHealing /\ aborted
        <5>1. turn' = "idle" /\ outcome' = "cancelled" /\ UNCHANGED <<attempt, overrun, suspended>>
          BY <1>8, <2>4, <3>4, <4>3 DEF VerifyFails, NextAttempt, Asked, EndTurn
        <5>. QED
          BY <1>1, <2>1, <2>2, <3>1, <3>2, <5>1 DEF HealInv, HealTypes, HealingIsHonest
      <4>4. CASE attempt # MaxHealing /\ ~aborted
        <5>1. turn' = "send" /\ attempt' = attempt + 1 /\ overrun' = (overrun \/ aborted)
              /\ UNCHANGED <<outcome, suspended>>
          BY <1>8, <2>4, <3>4, <4>4 DEF VerifyFails, NextAttempt, Asked
        <5>2. overrun' = FALSE /\ attempt' \in 0..MaxHealing
          BY <1>1, <2>2, <4>4, <5>1 DEF HealTypes
        <5>. QED
          BY <1>1, <2>1, <2>2, <3>1, <3>2, <4>1, <5>1, <5>2 DEF HealInv, HealTypes, HealingIsHonest
      <4>. QED
        BY <4>2, <4>3, <4>4
    <3>. QED
      BY <3>3, <3>4
  <2>. QED
    BY <2>3, <2>4
<1>9. CASE UNCHANGED healVars
  BY <1>1, <1>9 DEF healVars, HealInv, HealTypes, HealingIsHonest
<1>. QED
  BY <1>2, <1>3, <1>4, <1>5, <1>6, <1>7, <1>8, <1>9 DEF HealNext

LEMMA HealIsSafe == HealInv => HealTypeOK /\ HealingIsHonest
BY DEF HealInv, HealTypes, HealTypeOK

-----------------------------------------------------------------------------
(***************************************************************************)
(* The audit.  What the last result says of a file that was not edited     *)
(* since is what a scan of it would say now.                               *)
(***************************************************************************)
Carried(result) == {n \in result.findings : n.signal # "unused-env"}

AuditInv ==
  /\ AuditTypeOK /\ AuditIsWhole
  /\ prior.ok =>
       /\ {n \in Carried(prior) : n.file \notin dirty} = ScanFile(auditTree, AuditFile \ dirty)
       /\ prior.unverified \ dirty = Unverified(auditTree, AuditFile \ dirty)

LEMMA AuditStarts == AuditInit => AuditInv
<1>. SUFFICES ASSUME AuditInit PROVE AuditInv
  OBVIOUS
<1>1. auditTree \in [AuditFile -> FileContent \cup {NoContent}]
  BY DEF AuditInit
<1>2. prior.ok = FALSE /\ prior.findings = {} /\ prior.unverified = {} /\ dirty = {}
  BY DEF AuditInit, NoResult
<1>. QED
  BY <1>1, <1>2 DEF AuditInv, AuditTypeOK, AuditIsWhole

LEMMA UnusedIsFound ==
  ASSUME NEW tree \in [AuditFile -> FileContent \cup {NoContent}], NEW index
  PROVE  /\ ScanUnusedEnv(tree, AuditFile, index) \subseteq Finding
         /\ \A n \in ScanUnusedEnv(tree, AuditFile, index) : n.signal = "unused-env"
<1>. SUFFICES ASSUME NEW n \in ScanUnusedEnv(tree, AuditFile, index)
              PROVE  n \in Finding /\ n.signal = "unused-env"
  OBVIOUS
<1>1. PICK f \in TextFiles(tree) \cap TemplateFile :
        n \in {UnusedEnv(f, e) : e \in tree[f].names \ index}
  BY DEF ScanUnusedEnv
<1>2. PICK e \in tree[f].names : n = UnusedEnv(f, e)
  BY <1>1
<1>3. f \in AuditFile /\ tree[f] # NoContent
  BY <1>1 DEF TextFiles, FilesOf
<1>4. tree[f] \in FileContent
  BY <1>3
<1>5. e \in EnvName
  BY <1>2, <1>4 DEF FileContent
<1>. QED
  BY <1>1, <1>2, <1>5 DEF Finding, UnusedEnv

LEMMA SignalIsFound ==
  ASSUME NEW tree, NEW files
  PROVE  /\ ScanFile(tree, files) \subseteq Finding
         /\ \A n \in ScanFile(tree, files) :
              n.signal # "unused-env" /\ n.file \in files /\ n = Signal(n.file)
<1>. SUFFICES ASSUME NEW n \in ScanFile(tree, files)
              PROVE  n \in Finding /\ n.signal # "unused-env" /\ n.file \in files
                     /\ n = Signal(n.file)
  OBVIOUS
<1>1. PICK f \in TextFiles(tree) \cap files : n = Signal(f)
  BY DEF ScanFile
<1>2. f \in AuditFile
  BY <1>1 DEF TextFiles, FilesOf
<1>. QED
  BY <1>1, <1>2 DEF Finding, Signal

\* A scan of some of the files finds what a scan of more of them finds there.
LEMMA ScansAgree ==
  ASSUME NEW tree, NEW more \in SUBSET AuditFile, NEW files \in SUBSET more
  PROVE  /\ {n \in ScanFile(tree, more) : n.file \in files} = ScanFile(tree, files)
         /\ Unverified(tree, more) \cap files = Unverified(tree, files)
<1>1. \A f \in AuditFile : Signal(f).file = f
  BY DEF Signal
<1>2. ASSUME NEW n \in ScanFile(tree, more), n.file \in files
      PROVE  n \in ScanFile(tree, files)
  BY <1>1, <1>2 DEF ScanFile
<1>3. ASSUME NEW n \in ScanFile(tree, files)
      PROVE  n \in ScanFile(tree, more) /\ n.file \in files
  BY <1>1, <1>3, SignalIsFound DEF ScanFile
<1>. QED
  BY <1>2, <1>3 DEF Unverified

\* It depends on no other file.
LEMMA ScansAreLocal ==
  ASSUME NEW tree, NEW other, NEW files \in SUBSET AuditFile, \A f \in files : tree[f] = other[f]
  PROVE  /\ ScanFile(tree, files) = ScanFile(other, files)
         /\ Unverified(tree, files) = Unverified(other, files)
BY DEF ScanFile, Unverified, TextFiles, FilesOf

LEMMA DetectIsTyped ==
  ASSUME NEW tree \in [AuditFile -> FileContent \cup {NoContent}]
  PROVE  /\ Detect(tree).findings \subseteq Finding /\ Detect(tree).unverified \subseteq AuditFile
         /\ Carried(Detect(tree)) = ScanFile(tree, AuditFile)
         /\ Detect(tree).unverified = Unverified(tree, AuditFile)
<1>. DEFINE unused == ScanUnusedEnv(tree, AuditFile, EnvReadIndex(tree, AuditFile))
<1>1. /\ Detect(tree).findings = ScanFile(tree, AuditFile) \cup unused
      /\ Detect(tree).unverified = Unverified(tree, AuditFile)
  BY DEF Detect
<1>2. unused \subseteq Finding /\ \A n \in unused : n.signal = "unused-env"
  BY UnusedIsFound
<1>3. Unverified(tree, AuditFile) \subseteq AuditFile
  BY DEF Unverified
<1>. HIDE DEF unused
<1>. QED
  BY <1>1, <1>2, <1>3, SignalIsFound DEF Carried

\* A rescan that is told of the edited files finds what a whole scan finds.
LEMMA RescanIsWhole ==
  ASSUME AuditInv, prior.ok, NEW changed \in SUBSET AuditFile, dirty \subseteq changed
  PROVE  Rescan(auditTree, prior, changed) = Detect(auditTree)
<1>. DEFINE kept == AuditFile \ changed
            unused == ScanUnusedEnv(auditTree, AuditFile, EnvReadIndex(auditTree, AuditFile))
<1>1. /\ {n \in Carried(prior) : n.file \notin dirty} = ScanFile(auditTree, AuditFile \ dirty)
      /\ prior.unverified \ dirty = Unverified(auditTree, AuditFile \ dirty)
      /\ prior.findings \subseteq Finding
  BY DEF AuditInv, AuditTypeOK
<1>2. {n \in prior.findings : n.file \notin changed /\ n.signal # "unused-env"}
        = {n \in ScanFile(auditTree, AuditFile \ dirty) : n.file \in kept}
  <2>1. \A n \in ScanFile(auditTree, AuditFile \ dirty) : n.file \in AuditFile
    BY SignalIsFound
  <2>2. \A n : n \in ScanFile(auditTree, AuditFile \ dirty)
                 <=> n \in prior.findings /\ n.signal # "unused-env" /\ n.file \notin dirty
    BY <1>1 DEF Carried
  <2>. QED
    BY <2>1, <2>2
<1>3. kept \in SUBSET (AuditFile \ dirty) /\ AuditFile \ dirty \in SUBSET AuditFile
  OBVIOUS
<1>4. /\ {n \in ScanFile(auditTree, AuditFile \ dirty) : n.file \in kept} = ScanFile(auditTree, kept)
      /\ Unverified(auditTree, AuditFile \ dirty) \cap kept = Unverified(auditTree, kept)
  BY <1>3, ScansAgree
<1>5. /\ ScanFile(auditTree, kept) \cup ScanFile(auditTree, changed) = ScanFile(auditTree, AuditFile)
      /\ Unverified(auditTree, kept) \cup Unverified(auditTree, changed)
           = Unverified(auditTree, AuditFile)
  <2>1. kept \cup changed = AuditFile
    OBVIOUS
  <2>2. ASSUME NEW f \in AuditFile
        PROVE  f \in TextFiles(auditTree) \cap AuditFile
               <=> f \in (TextFiles(auditTree) \cap kept) \cup (TextFiles(auditTree) \cap changed)
    BY <2>1
  <2>. QED
    BY <2>1, <2>2 DEF ScanFile, Unverified
<1>6. prior.unverified \ changed = Unverified(auditTree, kept)
  <2>1. prior.unverified \subseteq AuditFile
    BY DEF AuditInv, AuditTypeOK
  <2>2. prior.unverified \ changed = (prior.unverified \ dirty) \cap kept
    BY <2>1
  <2>. QED
    BY <1>1, <1>4, <2>2
<1>7. Rescan(auditTree, prior, changed)
        = [ok |-> TRUE, unverified |-> (prior.unverified \ changed) \cup Unverified(auditTree, changed),
           findings |-> {n \in prior.findings : n.file \notin changed /\ n.signal # "unused-env"}
                        \cup ScanFile(auditTree, changed) \cup unused]
  BY DEF Rescan
<1>8. Detect(auditTree) = [ok |-> TRUE, unverified |-> Unverified(auditTree, AuditFile),
                           findings |-> ScanFile(auditTree, AuditFile) \cup unused]
  BY DEF Detect
<1>. HIDE DEF kept, unused
<1>. QED
  BY <1>2, <1>4, <1>5, <1>6, <1>7, <1>8

LEMMA AuditStep ==
  ASSUME AuditInv, AuditNext \/ UNCHANGED auditVars
  PROVE  AuditInv'
<1>1. auditTree \in [AuditFile -> FileContent \cup {NoContent}] /\ dirty \subseteq AuditFile
  BY DEF AuditInv, AuditTypeOK
<1>2. ASSUME Audit(Detect(auditTree)) PROVE AuditInv'
  <2>1. prior' = Detect(auditTree) /\ dirty' = {} /\ auditTree' = auditTree
    BY <1>2 DEF Audit
  <2>2. /\ prior'.findings \subseteq Finding /\ prior'.unverified \subseteq AuditFile
        /\ Carried(prior') = ScanFile(auditTree, AuditFile)
        /\ prior'.unverified = Unverified(auditTree, AuditFile)
    BY <1>1, <2>1, DetectIsTyped
  <2>3. AuditTypeOK' /\ AuditIsWhole'
    BY <1>1, <2>1, <2>2 DEF AuditTypeOK, AuditIsWhole
  <2>4. /\ {n \in Carried(prior') : n.file \notin dirty'} = ScanFile(auditTree', AuditFile \ dirty')
        /\ prior'.unverified \ dirty' = Unverified(auditTree', AuditFile \ dirty')
    <3>1. AuditFile \ {} = AuditFile
      OBVIOUS
    <3>. QED
      BY <2>1, <2>2, <3>1
  <2>. QED
    BY <2>3, <2>4 DEF AuditInv, Carried
<1>3. ASSUME NEW changed \in SUBSET AuditFile, AuditChanged(changed) PROVE AuditInv'
  BY <1>2, <1>3, RescanIsWhole DEF AuditChanged
<1>4. ASSUME NEW f \in AuditFile, NEW c \in FileContent \cup {NoContent}, EditFile(f, c)
      PROVE  AuditInv'
  <2>1. /\ auditTree' = [auditTree EXCEPT ![f] = c] /\ dirty' = dirty \cup {f} /\ prior' = prior
    BY <1>4 DEF EditFile
  <2>2. AuditTypeOK' /\ AuditIsWhole'
    BY <1>1, <2>1 DEF AuditInv, AuditTypeOK, AuditIsWhole
  <2>3. ASSUME prior.ok
        PROVE  /\ {n \in Carried(prior) : n.file \notin dirty'}
                     = ScanFile(auditTree', AuditFile \ dirty')
               /\ prior.unverified \ dirty' = Unverified(auditTree', AuditFile \ dirty')
    <3>1. /\ {n \in Carried(prior) : n.file \notin dirty} = ScanFile(auditTree, AuditFile \ dirty)
          /\ prior.unverified \ dirty = Unverified(auditTree, AuditFile \ dirty)
      BY <2>3 DEF AuditInv
    <3>2. AuditFile \ dirty' \in SUBSET (AuditFile \ dirty) /\ AuditFile \ dirty \in SUBSET AuditFile
      BY <2>1
    <3>3. /\ {n \in ScanFile(auditTree, AuditFile \ dirty) : n.file \in AuditFile \ dirty'}
               = ScanFile(auditTree, AuditFile \ dirty')
          /\ Unverified(auditTree, AuditFile \ dirty) \cap (AuditFile \ dirty')
               = Unverified(auditTree, AuditFile \ dirty')
      BY <3>2, ScansAgree
    <3>4. /\ ScanFile(auditTree, AuditFile \ dirty') = ScanFile(auditTree', AuditFile \ dirty')
          /\ Unverified(auditTree, AuditFile \ dirty') = Unverified(auditTree', AuditFile \ dirty')
      <4>1. \A g \in AuditFile \ dirty' : auditTree[g] = auditTree'[g]
        BY <1>1, <2>1
      <4>. QED
        BY <4>1, ScansAreLocal
    <3>5. {n \in Carried(prior) : n.file \notin dirty'}
            = {n \in ScanFile(auditTree, AuditFile \ dirty) : n.file \in AuditFile \ dirty'}
      <4>1. \A n \in ScanFile(auditTree, AuditFile \ dirty) : n.file \in AuditFile
        BY SignalIsFound
      <4>. QED
        BY <2>1, <3>1, <4>1
    <3>6. prior.unverified \ dirty' = (prior.unverified \ dirty) \cap (AuditFile \ dirty')
      BY <2>1 DEF AuditInv, AuditTypeOK
    <3>. QED
      BY <3>1, <3>3, <3>4, <3>5, <3>6
  <2>. QED
    BY <2>1, <2>2, <2>3 DEF AuditInv, Carried
<1>5. CASE UNCHANGED auditVars
  BY <1>5 DEF auditVars, AuditInv, AuditTypeOK, AuditIsWhole, Carried
<1>. QED
  BY <1>2, <1>3, <1>4, <1>5 DEF AuditNext, AuditWhole

-----------------------------------------------------------------------------
(***************************************************************************)
(* Exports.  What is promised of them is inductive: a step is one export.  *)
(* A value that is part of another is shorter, so that the longest first   *)
(* never tears one.                                                        *)
(***************************************************************************)
ExportInv == ExportTypeOK /\ ExportIsClean

LEMMA SubstitutedIsClean ==
  ASSUME NEW holds \in SUBSET Literal, NEW known \in SUBSET Literal
  PROVE  /\ Substituted(holds, known) \cap (known \cup {Remainder(l) : l \in Literal}) = {}
         /\ \A l \in Literal : Reference(l) \in Substituted(holds, known) => l \in known
<1>. DEFINE found == holds \cap known
            torn == {l \in found : \E a \in known : <<a, l>> \in PartOf /\ ReplacedBefore(a, l)}
<1>1. torn = {}
  <2>. SUFFICES ASSUME NEW l \in found, NEW a \in known, <<a, l>> \in PartOf,
                       ReplacedBefore(a, l)
                PROVE  FALSE
    OBVIOUS
  <2>1. Size[a] < Size[l]
    <3>1. \A p \in PartOf : Size[p[1]] < Size[p[2]]
      BY ExportAssumption
    <3>2. Size[<<a, l>>[1]] < Size[<<a, l>>[2]]
      BY <3>1
    <3>. QED
      BY <3>2
  <2>2. Size[a] \in Nat /\ Size[l] \in Nat
    BY ExportAssumption
  <2>. QED
    BY <2>1, <2>2 DEF ReplacedBefore
<1>2. Substituted(holds, known)
        = (holds \ found) \cup {Remainder(l) : l \in torn} \cup {Reference(l) : l \in found \ torn}
  BY DEF Substituted
<1>3. Substituted(holds, known) = (holds \ known) \cup {Reference(l) : l \in found}
  BY <1>1, <1>2
<1>4. /\ \A l \in Literal : Remainder(l) \notin Literal /\ Reference(l) \notin Literal
      /\ \A l, m \in Literal : Reference(l) # Remainder(m) /\ (Reference(l) = Reference(m) => l = m)
  BY ExportAssumption DEF Remainder, Reference
<1>5. ASSUME NEW x \in Substituted(holds, known)
      PROVE  x \notin known /\ \A l \in Literal : x # Remainder(l)
  BY <1>3, <1>4
<1>6. ASSUME NEW l \in Literal, Reference(l) \in Substituted(holds, known) PROVE l \in known
  BY <1>3, <1>4, <1>6
<1>. QED
  BY <1>5, <1>6

LEMMA ExportStarts == ExportInit => ExportInv
<1>. SUFFICES ASSUME ExportInit PROVE ExportInv
  OBVIOUS
<1>1. ExportTypeOK
  <2>1. tempDirs \in 0..MaxTemp
    BY ExportAssumption DEF ExportInit
  <2>2. exportable \in [ExportFile -> Contents \cup {NoText}]
    BY DEF ExportInit
  <2>3. dest \in [ExportFile -> {"none", "theirs", "exported"}]
    BY DEF ExportInit
  <2>. QED
    BY <2>1, <2>2, <2>3 DEF ExportInit, ExportTypeOK, NoExport
<1>2. ExportIsClean
  BY DEF ExportInit, ExportIsClean, NoExport, NoText
<1>. QED
  BY <1>1, <1>2 DEF ExportInv

LEMMA NothingIsExported ==
  ASSUME NEW theirs, NEW files \in SUBSET FilesIn, NEW done
  PROVE  LET dir == RemoveExportOutput(Written(theirs, files), done)
         IN dir \in [ExportFile -> {"none", "theirs"}]
BY DEF RemoveExportOutput, Written

LEMMA ReturnIsClean ==
  ASSUME ExportInv, NEW result \in {"ok", "file_count", "read_failed", "timeout", "write_failed"},
         NEW known \in SUBSET Literal, Returns(result, known)
  PROVE  /\ exportable' = exportable /\ exported'.result = result /\ exported'.names = known
         /\ \A f \in ExportFile : exported'.files[f].kind = "text" =>
              /\ exported'.files[f].holds \cap (known \cup {Remainder(l) : l \in Literal}) = {}
              /\ \A l \in Literal : Reference(l) \in exported'.files[f].holds => l \in known
<1>1. /\ exported' = [result |-> result, names |-> known,
                      files |-> IF result = "ok" THEN ExportTree(known) ELSE NoExport.files]
      /\ exportable' = exportable
  BY DEF Returns
<1>2. exported'.files = IF result = "ok" THEN ExportTree(known) ELSE NoExport.files
  BY <1>1
<1>3. ASSUME NEW f \in ExportFile, exported'.files[f].kind = "text"
      PROVE  /\ exported'.files[f].holds \cap (known \cup {Remainder(l) : l \in Literal}) = {}
             /\ \A l \in Literal : Reference(l) \in exported'.files[f].holds => l \in known
  <2>6. NoExport.files[f].kind # "text"
    BY DEF NoExport, NoText
  <2>7. exported'.files # NoExport.files
    BY <1>3, <2>6
  <2>1. exported'.files = ExportTree(known)
    BY <1>2, <2>7
  <2>2. exportable[f].kind = "text"
    BY <1>3, <2>1 DEF ExportTree
  <2>3. exportable[f] \in Contents
    BY <2>2 DEF ExportInv, ExportTypeOK, NoText
  <2>4. exportable[f].holds \in SUBSET Literal
    BY <2>3 DEF Contents
  <2>5. exported'.files[f].holds = Substituted(exportable[f].holds, known)
    BY <2>1, <2>2 DEF ExportTree
  <2>. QED
    BY <2>4, <2>5, SubstitutedIsClean
<1>. QED
  BY <1>1, <1>3

LEMMA ExportEnds ==
  ASSUME ExportInv, NEW theirs \in SUBSET ExportFile, NEW known \in SUBSET Literal,
         Fails(theirs, known) \/ Succeeds(theirs, known), tempDirs' \in 0..MaxTemp
  PROVE  ExportInv'
<1>1. CASE Fails(theirs, known)
  <2>1. PICK result \in {"file_count", "read_failed", "timeout", "write_failed"} :
          Returns(result, known)
    BY <1>1 DEF Fails
  <2>2. dest' \in [ExportFile -> {"none", "theirs"}]
    <3>1. Written(theirs, {}) \in [ExportFile -> {"none", "theirs"}]
      BY DEF Written
    <3>2. FilesIn \in SUBSET FilesIn /\ \A files \in SUBSET FilesIn : \A done :
            RemoveExportOutput(Written(theirs, files), done) \in [ExportFile -> {"none", "theirs"}]
      BY NothingIsExported
    <3>. QED
      BY <1>1, <3>1, <3>2 DEF Fails
  <2>3. /\ exportable' = exportable /\ exported'.result = result /\ exported'.names = known
        /\ \A f \in ExportFile : exported'.files[f].kind = "text" =>
             /\ exported'.files[f].holds \cap (known \cup {Remainder(l) : l \in Literal}) = {}
             /\ \A l \in Literal : Reference(l) \in exported'.files[f].holds => l \in known
    BY <2>1, ReturnIsClean
  <2>4. dest' \in [ExportFile -> {"none", "theirs", "exported"}]
    BY <2>2
  <2>. QED
    BY <2>2, <2>3, <2>4 DEF ExportInv, ExportTypeOK, ExportIsClean
<1>2. CASE Succeeds(theirs, known)
  <2>1. Returns("ok", known) /\ dest' = Written(theirs, FilesIn)
    BY <1>2 DEF Succeeds
  <2>2. dest' \in [ExportFile -> {"none", "theirs", "exported"}]
    BY <2>1 DEF Written
  <2>3. /\ exportable' = exportable /\ exported'.result = "ok" /\ exported'.names = known
        /\ \A f \in ExportFile : exported'.files[f].kind = "text" =>
             /\ exported'.files[f].holds \cap (known \cup {Remainder(l) : l \in Literal}) = {}
             /\ \A l \in Literal : Reference(l) \in exported'.files[f].holds => l \in known
    BY <2>1, ReturnIsClean
  <2>. QED
    BY <2>2, <2>3 DEF ExportInv, ExportTypeOK, ExportIsClean
<1>. QED
  BY <1>1, <1>2

LEMMA ExportStep ==
  ASSUME ExportInv, ExportNext \/ UNCHANGED exportVars
  PROVE  ExportInv'
<1>1. tempDirs \in 0..MaxTemp
  BY DEF ExportInv, ExportTypeOK
<1>2. ASSUME NEW theirs \in SUBSET ExportFile, NEW known \in SUBSET Literal, ExportTo(theirs, known)
      PROVE  ExportInv'
  <2>1. (Fails(theirs, known) \/ Succeeds(theirs, known)) /\ tempDirs' \in 0..MaxTemp
    BY <1>1, <1>2 DEF ExportTo
  <2>. QED
    BY <2>1, ExportEnds
<1>3. CASE HandleExport
  <2>1. (Fails({}, {}) \/ Succeeds({}, {})) /\ tempDirs' \in 0..MaxTemp
    BY <1>1, <1>3, ExportAssumption DEF HandleExport
  <2>. QED
    BY <2>1, ExportEnds
<1>4. ASSUME NEW f \in ExportFile, NEW c \in Contents \cup {NoText}, EditText(f, c)
      PROVE  ExportInv'
  <2>1. /\ exportable' = [exportable EXCEPT ![f] = c] /\ exported' = NoExport
        /\ dest' = [g \in ExportFile |-> "none"] /\ tempDirs' = tempDirs
    BY <1>4 DEF EditText
  <2>2. ExportTypeOK'
    BY <2>1 DEF ExportInv, ExportTypeOK, NoExport
  <2>3. ExportIsClean'
    BY <2>1 DEF ExportIsClean, NoExport, NoText
  <2>. QED
    BY <2>2, <2>3 DEF ExportInv
<1>5. CASE UNCHANGED exportVars
  BY <1>5 DEF exportVars, ExportInv, ExportTypeOK, ExportIsClean
<1>. QED
  BY <1>2, <1>3, <1>4, <1>5 DEF ExportNext

-----------------------------------------------------------------------------
(***************************************************************************)
(* The preview pane.  No frame and no answer on its way says ready without *)
(* a URL, except a restart whose server has none, which the pane refuses.  *)
(***************************************************************************)
Preview == [status : {"no-preview", "none", "showing-prior", "committed", "served"},
            snap : Snap \cup {"none"}, url : Server \cup {"none"}]
News == [status : {"ready", "error", "persistent_failure"}, url : Server \cup {"none"},
         offered : BOOLEAN]

PaneInv ==
  /\ PaneTypeOK /\ PaneIsHonest
  /\ pane \in [status : {"loading", "ready", "error", "showing_prior", "persistent_failure"},
               url : Server \cup {"none"}, snap : Snap \cup {"none"}, offered : BOOLEAN,
               unavailable : BOOLEAN]
  /\ news \in Seq(News)
  /\ poll.at = "answered" => /\ poll.preview \in Preview
                             /\ poll.preview.status = "served" => poll.preview.url # "none"

LEMMA PaneStarts == PaneInit => PaneInv
<1>. SUFFICES ASSUME PaneInit PROVE PaneInv
  OBVIOUS
<1>1. /\ devServer = "none" /\ served = NoneServed /\ buildError = FALSE /\ restarts = 0
      /\ news = <<>> /\ poll.at = "rest" /\ upToDate = FALSE /\ lastBuilt = "none"
      /\ pane = [status |-> "loading", url |-> "none", snap |-> "none", offered |-> FALSE,
                 unavailable |-> FALSE]
  BY DEF PaneInit
<1>2. served \in [snap : Snap \cup {"none"}, url : Server \cup {"none"}]
      /\ served.snap = "none" /\ served.url = "none"
  BY <1>1 DEF NoneServed
<1>3. restarts \in 0..RestartCap /\ Len(news) <= MaxNews
  BY <1>1, PreviewPaneAssumption
<1>4. PaneTypeOK
  BY <1>1, <1>2, <1>3 DEF PaneTypeOK
<1>5. PaneIsHonest
  BY <1>1, <1>2, <1>3 DEF PaneIsHonest
<1>6. pane \in [status : {"loading", "ready", "error", "showing_prior", "persistent_failure"},
                url : Server \cup {"none"}, snap : Snap \cup {"none"}, offered : BOOLEAN,
                unavailable : BOOLEAN]
  BY <1>1
<1>. QED
  BY <1>1, <1>4, <1>5, <1>6 DEF PaneInv

LEMMA ServedIsPreview ==
  ASSUME served \in [snap : Snap \cup {"none"}, url : Server \cup {"none"}]
  PROVE  /\ ServedPreview \in Preview
         /\ ServedPreview.status = "served" => ServedPreview.url # "none"
         /\ ServedPreview.snap = served.snap /\ ServedPreview.url = served.url
BY DEF ServedPreview, Preview

\* What the pane shows of a frame or of an answer.
LEMMA ShownIsHonest ==
  ASSUME PaneInv, NEW f, f.status \in {"loading", "ready", "error", "showing_prior", "persistent_failure"},
         f.url \in Server \cup {"none"}, f.offered \in BOOLEAN,
         "snap" \in DOMAIN f => f.snap \in Snap \cup {"none"}
  PROVE  /\ Shown(f) \in [status : {"loading", "ready", "error", "showing_prior",
                                    "persistent_failure"},
                          url : Server \cup {"none"}, snap : Snap \cup {"none"},
                          offered : BOOLEAN, unavailable : BOOLEAN]
         /\ Shown(f).status = "ready" => Shown(f).url # "none"
<1>1. pane \in [status : {"loading", "ready", "error", "showing_prior", "persistent_failure"},
                url : Server \cup {"none"}, snap : Snap \cup {"none"}, offered : BOOLEAN,
                unavailable : BOOLEAN]
      /\ (pane.status = "ready" => pane.url # "none")
  BY DEF PaneInv, PaneIsHonest
<1>2. CASE NoUsableUrl(f)
  <2>1. Shown(f) = [pane EXCEPT !.unavailable = TRUE, !.offered = f.offered]
    BY <1>2 DEF Shown
  <2>2. /\ Shown(f).status = pane.status /\ Shown(f).url = pane.url
        /\ Shown(f) \in [status : {"loading", "ready", "error", "showing_prior",
                                   "persistent_failure"},
                         url : Server \cup {"none"}, snap : Snap \cup {"none"},
                         offered : BOOLEAN, unavailable : BOOLEAN]
    BY <1>1, <2>1, TRUE \in BOOLEAN
  <2>. QED
    BY <1>1, <2>2
<1>3. CASE ~NoUsableUrl(f)
  <2>1. Shown(f) = [status |-> f.status, offered |-> f.offered, unavailable |-> FALSE,
          url |-> IF f.status = "loading" THEN "none" ELSE f.url,
          snap |-> IF f.status = "loading" \/ "snap" \notin DOMAIN f THEN pane.snap ELSE f.snap]
    BY <1>3 DEF Shown
  <2>2. (IF f.status = "loading" \/ "snap" \notin DOMAIN f THEN pane.snap ELSE f.snap)
          \in Snap \cup {"none"}
    BY <1>1
  <2>3. /\ Shown(f).status = f.status
        /\ Shown(f).url = IF f.status = "loading" THEN "none" ELSE f.url
    BY <2>1
  <2>4. Shown(f) \in [status : {"loading", "ready", "error", "showing_prior",
                                "persistent_failure"},
                      url : Server \cup {"none"}, snap : Snap \cup {"none"},
                      offered : BOOLEAN, unavailable : BOOLEAN]
    BY <2>1, <2>2, FALSE \in BOOLEAN
  <2>. QED
    BY <1>3, <2>3, <2>4 DEF NoUsableUrl
<1>. QED
  BY <1>2, <1>3

\* A frame is told, and the page no longer knows what holds.
LEMMA TellStep ==
  ASSUME PaneInv, NEW s \in {"ready", "error", "persistent_failure"},
         NEW u \in Server \cup {"none"}, NEW o \in BOOLEAN, Tell(s, u, o),
         devServer' \in Server \cup {"none"}, restarts' \in 0..RestartCap,
         devServer \in {"none", devServer'}
  PROVE  PaneInv'
<1>1. PICK n \in News : n = [status |-> s, url |-> u, offered |-> o]
  BY DEF News
<1>2. /\ Len(news) < MaxNews /\ news' = Append(news, n) /\ upToDate' = FALSE
      /\ UNCHANGED <<served, buildError, lastBuilt, poll, pane>>
  BY <1>1 DEF Tell
<1>3. news' \in Seq(News) /\ Len(news') = Len(news) + 1 /\ Len(news) \in Nat
  BY <1>2 DEF PaneInv
<1>4. Len(news') <= MaxNews
  BY <1>2, <1>3, PreviewPaneAssumption
<1>5. PaneTypeOK'
  BY <1>2, <1>4 DEF PaneInv, PaneTypeOK
<1>6. PaneIsHonest'
  BY <1>2, PreviewPaneAssumption DEF PaneInv, PaneIsHonest
<1>. QED
  BY <1>2, <1>3, <1>5, <1>6 DEF PaneInv

LEMMA PaneStep ==
  ASSUME PaneInv, PaneNext \/ UNCHANGED paneVars
  PROVE  PaneInv'
<1>. USE PreviewPaneAssumption
<1>1. /\ PaneTypeOK /\ PaneIsHonest
      /\ served \in [snap : Snap \cup {"none"}, url : Server \cup {"none"}]
      /\ devServer \in Server \cup {"none"} /\ restarts \in 0..RestartCap
  BY DEF PaneInv, PaneTypeOK
<1>2. CASE NotifyExit
  <2>1. /\ devServer' = "none" /\ served' = [served EXCEPT !.url = "none"] /\ upToDate' = FALSE
        /\ UNCHANGED <<buildError, restarts, lastBuilt, news, poll, pane>>
    BY <1>2 DEF NotifyExit, UrlDropped
  <2>2. /\ served' \in [snap : Snap \cup {"none"}, url : Server \cup {"none"}]
        /\ served'.snap = served.snap /\ served'.url = "none"
    BY <1>1, <2>1
  <2>3. PaneTypeOK'
    BY <1>1, <2>1, <2>2 DEF PaneTypeOK
  <2>4. PaneIsHonest'
    BY <1>1, <2>1, <2>2 DEF PaneIsHonest
  <2>. QED
    BY <2>1, <2>3, <2>4 DEF PaneInv
<1>3. CASE RestartRefused
  <2>1. Tell("persistent_failure", "none", FALSE) /\ UNCHANGED <<devServer, restarts>>
    BY <1>3 DEF RestartRefused
  <2>. QED
    BY <1>1, <2>1, TellStep, FALSE \in BOOLEAN
<1>4. CASE RestartFails
  <2>2. restarts < RestartCap /\ restarts' = restarts + 1 /\ UNCHANGED devServer
        /\ Tell("error", "none", restarts' < RestartCap)
    BY <1>1, <1>4 DEF RestartFails, Capped
  <2>1. PICK o \in BOOLEAN : Tell("error", "none", o)
    <3>1. CASE restarts' < RestartCap
      <4>1. Tell("error", "none", TRUE)
        BY <2>2, <3>1 DEF Tell
      <4>. QED
        BY <4>1
    <3>2. CASE ~(restarts' < RestartCap)
      <4>1. (restarts' < RestartCap) = FALSE
        BY <3>2
      <4>2. Tell("error", "none", FALSE)
        BY <2>2, <4>1, Zenon
      <4>. QED
        BY <4>2
    <3>. QED
      BY <3>1, <3>2
  <2>3. restarts' \in 0..RestartCap
    BY <1>1, <2>2
  <2>. QED
    BY <1>1, <2>1, <2>2, <2>3, TellStep
<1>5. ASSUME NEW d \in Server, RestartServer(d) PROVE PaneInv'
  <2>1. Tell("ready", d, FALSE) /\ devServer \in {"none", d} /\ devServer' = d /\ restarts' = 0
    BY <1>5 DEF RestartServer, StartsServer
  <2>2. restarts' \in 0..RestartCap
    BY <2>1
  <2>. QED
    BY <2>1, <2>2, TellStep, FALSE \in BOOLEAN
<1>6. ASSUME NEW d \in Server, StartServer(d) PROVE PaneInv'
  <2>1. /\ devServer \in {"none", d} /\ devServer' = d /\ restarts' = 0 /\ upToDate' = FALSE
        /\ UNCHANGED <<served, buildError, lastBuilt, news, poll, pane>>
    BY <1>6 DEF StartServer, StartsServer
  <2>2. PaneTypeOK'
    BY <1>1, <2>1 DEF PaneTypeOK
  <2>3. PaneIsHonest'
    BY <1>1, <2>1 DEF PaneIsHonest
  <2>. QED
    BY <2>1, <2>2, <2>3 DEF PaneInv
<1>7. ASSUME NEW s \in Snap, NEW ok \in BOOLEAN, Publish(s, ok) PROVE PaneInv'
  <2>1. upToDate' = FALSE /\ UNCHANGED <<devServer, restarts, news, poll, pane>>
    BY <1>7 DEF Publish
  <2>2. /\ served' \in [snap : Snap \cup {"none"}, url : Server \cup {"none"}]
        /\ served'.snap = lastBuilt' /\ served'.url \in {devServer', "none"} /\ buildError' \in BOOLEAN
    <3>1. CASE ok
      <4>1. served' = [snap |-> s, url |-> devServer] /\ lastBuilt' = s /\ buildError' = FALSE
        BY <1>7, <3>1 DEF Publish
      <4>. QED
        BY <1>1, <2>1, <4>1
    <3>2. CASE ~ok
      <4>1. buildError' = TRUE /\ UNCHANGED <<served, lastBuilt>>
        BY <1>7, <3>2 DEF Publish
      <4>. QED
        BY <1>1, <2>1, <4>1 DEF PaneIsHonest
    <3>. QED
      BY <3>1, <3>2
  <2>3. PaneTypeOK'
    BY <1>1, <2>1, <2>2 DEF PaneTypeOK
  <2>4. PaneIsHonest'
    BY <1>1, <2>1, <2>2 DEF PaneIsHonest
  <2>. QED
    BY <2>1, <2>3, <2>4 DEF PaneInv
<1>8. CASE ReadNews
  <2>1. /\ news # <<>> /\ news' = Tail(news) /\ pane' = Shown(Head(news)) /\ upToDate' = FALSE
        /\ UNCHANGED <<devServer, served, buildError, restarts, lastBuilt, poll>>
    BY <1>8 DEF ReadNews, controllerVars
  <2>2. PICK n \in News : n = Head(news)
    BY <2>1 DEF PaneInv
  <2>3. news' \in Seq(News) /\ Len(news') = Len(news) - 1 /\ Len(news) \in Nat
    BY <2>1 DEF PaneInv
  <2>4. /\ n.status \in {"loading", "ready", "error", "showing_prior", "persistent_failure"}
        /\ n.url \in Server \cup {"none"} /\ n.offered \in BOOLEAN /\ "snap" \notin DOMAIN n
    BY DEF News
  <2>5. /\ pane' \in [status : {"loading", "ready", "error", "showing_prior", "persistent_failure"},
                      url : Server \cup {"none"}, snap : Snap \cup {"none"}, offered : BOOLEAN,
                      unavailable : BOOLEAN]
        /\ pane'.status = "ready" => pane'.url # "none"
    BY <2>1, <2>2, <2>4, ShownIsHonest
  <2>6. PaneTypeOK'
    BY <1>1, <2>1, <2>3, <2>5 DEF PaneTypeOK
  <2>7. PaneIsHonest'
    BY <1>1, <2>1, <2>5 DEF PaneIsHonest
  <2>. QED
    BY <2>1, <2>3, <2>5, <2>6, <2>7 DEF PaneInv
<1>9. CASE StreamIsLost
  <2>1. /\ news' = <<>> /\ UNCHANGED <<poll, pane, upToDate>>
        /\ UNCHANGED <<devServer, served, buildError, restarts, lastBuilt>>
    BY <1>9 DEF StreamIsLost, controllerVars
  <2>2. PaneTypeOK'
    BY <1>1, <2>1 DEF PaneTypeOK
  <2>3. PaneIsHonest'
    BY <1>1, <2>1 DEF PaneIsHonest, FromServed, ServedPreview
  <2>. QED
    BY <2>1, <2>2, <2>3 DEF PaneInv
<1>10. CASE PollOnce \/ HandlePreview \/ PollIgnored
  <2>1. /\ UNCHANGED <<devServer, served, buildError, restarts, lastBuilt, news, pane, upToDate>>
        /\ \/ poll' = [at |-> "sent"] \/ poll' = [at |-> "rest"]
           \/ poll' = [at |-> "answered", preview |-> ServedPreview]
    BY <1>10 DEF PollOnce, HandlePreview, PollIgnored, controllerVars
  <2>2. poll'.at \in {"rest", "sent", "answered"}
    BY <2>1
  <2>3. poll'.at = "answered" => poll'.preview = ServedPreview
    BY <2>1
  <2>4. PaneTypeOK'
    BY <1>1, <2>1, <2>2 DEF PaneTypeOK
  <2>5. PaneIsHonest'
    BY <1>1, <2>1 DEF PaneIsHonest, FromServed, ServedPreview
  <2>. QED
    BY <1>1, <2>1, <2>3, <2>4, <2>5, ServedIsPreview DEF PaneInv
<1>11. CASE PollAnswered
  <2>1. /\ poll.at = "answered" /\ poll' = [at |-> "rest"] /\ pane' = Shown(FromServed(poll.preview))
        /\ upToDate' = (poll.preview = ServedPreview)
        /\ UNCHANGED <<devServer, served, buildError, restarts, lastBuilt, news>>
    BY <1>11 DEF PollAnswered, controllerVars
  <2>2. PICK v \in Preview : v = poll.preview /\ (v.status = "served" => v.url # "none")
    BY <2>1 DEF PaneInv
  <2>. DEFINE f == FromServed(v)
  <2>3. /\ f.status \in {"loading", "ready", "error", "showing_prior", "persistent_failure"}
        /\ f.url = v.url /\ f.snap = v.snap /\ f.offered = FALSE /\ "snap" \in DOMAIN f
        /\ f.status = "ready" => v.url # "none"
    BY <2>2 DEF FromServed, Preview
  <2>4. v.url \in Server \cup {"none"} /\ v.snap \in Snap \cup {"none"}
    BY DEF Preview
  <2>5. pane' = Shown(f)
    BY <2>1, <2>2
  <2>. HIDE DEF f
  <2>6. /\ pane' \in [status : {"loading", "ready", "error", "showing_prior", "persistent_failure"},
                      url : Server \cup {"none"}, snap : Snap \cup {"none"}, offered : BOOLEAN,
                      unavailable : BOOLEAN]
        /\ pane'.status = "ready" => pane'.url # "none"
    <3>1. f.url \in Server \cup {"none"} /\ f.offered \in BOOLEAN /\ f.snap \in Snap \cup {"none"}
      BY <2>3, <2>4
    <3>2. f.status \in {"loading", "ready", "error", "showing_prior", "persistent_failure"}
      BY <2>3
    <3>. QED
      BY ONLY PaneInv, <2>5, <3>1, <3>2, ShownIsHonest
  <2>7. upToDate' => /\ pane'.status = FromServed(ServedPreview).status
                     /\ pane'.status # "loading" => pane'.url = served.url /\ pane'.snap = served.snap
    <3>. SUFFICES ASSUME upToDate'
                  PROVE  /\ pane'.status = FromServed(ServedPreview).status
                         /\ pane'.status # "loading" => pane'.url = served.url /\ pane'.snap = served.snap
      OBVIOUS
    <3>1. v = ServedPreview
      BY <2>1, <2>2
    <3>2. v.url = served.url /\ v.snap = served.snap
      BY <1>1, <3>1, ServedIsPreview
    <3>3. ~NoUsableUrl(f)
      BY <2>3 DEF NoUsableUrl
    <3>4. /\ pane'.status = f.status
          /\ f.status # "loading" => pane'.url = f.url /\ pane'.snap = f.snap
      BY <2>3, <2>5, <3>3 DEF Shown
    <3>5. f.status = FromServed(ServedPreview).status
      BY <3>1 DEF f
    <3>. QED
      BY <2>3, <3>2, <3>4, <3>5
  <2>8. ServedPreview' = ServedPreview
    BY <2>1 DEF ServedPreview
  <2>9. PaneTypeOK'
    BY <1>1, <2>1, <2>6 DEF PaneTypeOK
  <2>10. PaneIsHonest'
    BY <1>1, <2>1, <2>6, <2>7, <2>8 DEF PaneIsHonest, FromServed
  <2>. QED
    BY <2>1, <2>6, <2>9, <2>10 DEF PaneInv
<1>12. CASE UNCHANGED paneVars
  BY <1>1, <1>12 DEF paneVars, PaneInv, PaneTypeOK, PaneIsHonest, FromServed, ServedPreview
<1>. QED
  BY <1>2, <1>3, <1>4, <1>5, <1>6, <1>7, <1>8, <1>9, <1>10, <1>11, <1>12 DEF PaneNext

-----------------------------------------------------------------------------
(***************************************************************************)
(* Commands.  A command is with the sandbox exactly when it was handed to  *)
(* it, and only one that needs consent, and may ask, waits for it.         *)
(***************************************************************************)
GuardInv ==
  /\ GuardTypeOK /\ OnlyConsentedRuns
  /\ \A c \in Command : /\ c \in executed <=> guard[c] \in {"exec", "ran"}
                        /\ guard[c] = "consent" => class[c] = "confirm" /\ c \notin subAgent

LEMMA GuardStarts == GuardInit => GuardInv
BY DEF GuardInit, GuardInv, GuardTypeOK, OnlyConsentedRuns

LEMMA GuardStep == GuardInv /\ (GuardNext \/ UNCHANGED guardVars) => GuardInv'
<1>. SUFFICES ASSUME GuardInv, GuardNext \/ UNCHANGED guardVars PROVE GuardInv'
  OBVIOUS
<1>. USE DEF GuardInv, GuardTypeOK, OnlyConsentedRuns
<1>1. ASSUME NEW c \in Command,
             BeginClassify(c) \/ FailClosed(c) \/ ConsentTimesOut(c) \/ ExecReturns(c)
      PROVE  GuardInv'
  <2>1. /\ UNCHANGED <<class, subAgent, asked, consented, executed>>
        /\ \E where \in {"classify", "refused", "denied", "ran"} :
             guard' = [guard EXCEPT ![c] = where] /\ (where = "ran" <=> guard[c] = "exec")
             /\ guard[c] # "ran"
    BY <1>1 DEF BeginClassify, FailClosed, ConsentTimesOut, ExecReturns, To
  <2>. QED
    BY <2>1
<1>2. ASSUME NEW c \in Command, Classified(c) PROVE GuardInv'
  <2>1. /\ guard[c] = "classify" /\ UNCHANGED <<class, subAgent, consented>>
        /\ \/ /\ class[c] = "allow" /\ guard' = [guard EXCEPT ![c] = "exec"]
              /\ executed' = executed \cup {c} /\ asked' = asked
           \/ guard' = [guard EXCEPT ![c] = "refused"] /\ UNCHANGED <<asked, executed>>
           \/ /\ class[c] = "confirm" /\ c \notin subAgent
              /\ guard' = [guard EXCEPT ![c] = "consent"]
              /\ asked' = asked \cup {c} /\ executed' = executed
    BY <1>2 DEF Classified, To, Execute
  <2>. QED
    BY <2>1
<1>3. ASSUME NEW c \in Command, NEW yes \in BOOLEAN, Answer(c, yes) PROVE GuardInv'
  <2>1. CASE guard[c] = "consent" /\ yes
    <3>1. /\ guard' = [guard EXCEPT ![c] = "exec"] /\ executed' = executed \cup {c}
          /\ consented' = consented \cup {c} /\ asked' = asked \ {c} /\ UNCHANGED <<class, subAgent>>
      BY <1>3, <2>1 DEF Answer, YesTo, Execute, To
    <3>. QED
      BY <2>1, <3>1
  <2>2. CASE ~(guard[c] = "consent" /\ yes)
    <3>1. /\ guard' = guard \/ (guard[c] = "consent" /\ guard' = [guard EXCEPT ![c] = "denied"])
          /\ executed' = executed /\ consented' = consented /\ asked' = asked \ {c}
          /\ UNCHANGED <<class, subAgent>>
      BY <1>3, <2>2 DEF Answer, YesTo
    <3>. QED
      BY <3>1
  <2>. QED
    BY <2>1, <2>2
<1>4. CASE UNCHANGED guardVars
  BY <1>4 DEF guardVars
<1>. QED
  BY <1>1, <1>2, <1>3, <1>4 DEF GuardNext

-----------------------------------------------------------------------------
(***************************************************************************)
(* Boundaries in use.  A boundary that is being reclaimed has no clock,    *)
(* and one that a sweep has just chosen runs nothing and has none either,  *)
(* unless the request in between has used it.  A run in flight during a    *)
(* teardown began after it.                                                *)
(***************************************************************************)
UsageInv ==
  /\ UsageTypeOK /\ struck = {}
  /\ \A p \in UsageProject :
       /\ p \in reclaiming => lastUsed[p] = "none"
       /\ p \in scheduled => inFlight[p] = 0
       /\ p \in scheduled /\ lastUsed[p] = "none" => p \in reclaiming /\ p \notin wanted
       /\ teardown[p] > 0 /\ lastUsed[p] = "none" /\ p \notin released /\ p \in boundary
            => p \in reclaiming
       /\ teardown[p] > 0 /\ inFlight[p] > 0 => p \in undermined

LEMMA UsageStarts == UsageInit => UsageInv
BY UsageAssumption DEF UsageInit, UsageInv, UsageTypeOK, Zero

LEMMA UsageStep == UsageInv /\ (UsageNext \/ UNCHANGED usageVars) => UsageInv'
<1>. SUFFICES ASSUME UsageInv, UsageNext \/ UNCHANGED usageVars PROVE UsageInv'
  OBVIOUS
<1>. USE UsageAssumption DEF UsageInv, UsageTypeOK, countVars, TouchUsage
<1>1. CASE CheckQuota
  <2>1. /\ scheduled = {} /\ scheduled' = IdleNow /\ reclaiming' = reclaiming \cup IdleNow
        /\ lastUsed' = [p \in UsageProject |->
             IF p \notin boundary \/ p \in IdleNow THEN "none"
             ELSE IF lastUsed[p] = "none" /\ p \notin reclaiming THEN "fresh" ELSE lastUsed[p]]
        /\ wanted' = {}
        /\ UNCHANGED <<boundary, inFlight, teardown, dropping, undermined, struck, released>>
    BY <1>1 DEF CheckQuota
  <2>2. \A p \in IdleNow : p \in UsageProject /\ inFlight[p] = 0
    BY DEF IdleNow
  <2>3. UsageTypeOK'
    BY <2>1, <2>2
  <2>. QED
    BY <2>1, <2>2, <2>3
<1>2. ASSUME NEW p \in UsageProject, AcquireBoundary(p) PROVE UsageInv'
  BY <1>2 DEF AcquireBoundary, UsedDuringTeardown
<1>3. ASSUME NEW p \in UsageProject, StartRun(p) PROVE UsageInv'
  BY <1>3 DEF StartRun, UsedDuringTeardown
<1>4. ASSUME NEW p \in UsageProject, EndRun(p) PROVE UsageInv'
  BY <1>4 DEF EndRun
<1>5. ASSUME NEW p \in UsageProject, BoundaryIdles(p) PROVE UsageInv'
  BY <1>5 DEF BoundaryIdles
<1>6. ASSUME NEW p \in UsageProject, StartReclaim(p) PROVE UsageInv'
  BY <1>6 DEF StartReclaim, StillIdle
<1>7. ASSUME NEW p \in UsageProject, ReclaimEnds(p) PROVE UsageInv'
  BY <1>7 DEF ReclaimEnds
<1>8. ASSUME NEW p \in UsageProject, ReleaseBoundary(p) PROVE UsageInv'
  BY <1>8 DEF ReleaseBoundary
<1>9. ASSUME NEW p \in UsageProject, BoundaryGoes(p) PROVE UsageInv'
  BY <1>9 DEF BoundaryGoes
<1>10. CASE UNCHANGED usageVars
  BY <1>10 DEF usageVars
<1>. QED
  BY <1>1, <1>2, <1>3, <1>4, <1>5, <1>6, <1>7, <1>8, <1>9, <1>10 DEF UsageNext

LEMMA UsageIsSafe == UsageInv => UsageTypeOK /\ UsageIsCounted
<1>. SUFFICES ASSUME UsageInv PROVE UsageTypeOK /\ UsageIsCounted
  OBVIOUS
<1>1. boundary \subseteq UsageProject
  BY DEF UsageInv, UsageTypeOK
<1>. QED
  BY <1>1 DEF UsageInv, UsageIsCounted, InUse

-----------------------------------------------------------------------------
(***************************************************************************)
(* Egress.  A network that the backend lets a run use was found internal   *)
(* or made so, and nothing opens it.  Unless establishments race, one run  *)
(* at a time establishes the proxy, and while it does no network is taken  *)
(* for connected; and when nobody has a promise of a proxy there is none,  *)
(* or nothing has happened yet.                                            *)
(***************************************************************************)
Leading(r) == at[r] \in {"inspect", "start", "listen"}
Attaching(r) == at[r] \in {"attach", "attachNew"}
Cached(n) == networkPromises[n] \in Run /\ netFlight[networkPromises[n]] = "ok"

PromisesAreKept ==
  /\ on \in [Run -> Network] /\ launchedOn \in [Run -> {"none", "absent", "internal", "open"}]
  /\ \A r \in Run : Leading(r) <=> flight[r] = "pending"
  /\ \A n \in Network, r \in Run :
       networkPromises[n] = r => on[r] = n /\ netFlight[r] \in {"pending", "ok"}

NetworksAreOurs ==
  /\ \A n \in ownNetworks : network[n] # "open"
  /\ \A r \in Run : Attaching(r) => network[on[r]] # "open"
  /\ \A r \in Run : launchedOn[r] # "open"

PlaneIsInOrder ==
  /\ \A q, r \in Run : Leading(q) /\ Leading(r) => q = r
  /\ \A r \in Run : Leading(r) => proxyPromise # "none" /\ (at[r] = "start" => proxy = 0)
  /\ (\E r \in Run : Leading(r)) \/ proxyPromise = "none" => \A n \in Network : ~Cached(n)
  /\ proxyPromise = "none" => proxy = 0 \/ \A r \in Run : at[r] = "new"
  /\ proxy # 0 => \A n \in Network : Cached(n) => attached[n] = proxy

EgressInv ==
  EgressTypeOK /\ PromisesAreKept /\ NetworksAreOurs /\ (~raced => PlaneIsInOrder)

LEMMA EgressStarts == EgressInit => EgressInv
<1>. SUFFICES ASSUME EgressInit PROVE EgressInv
  OBVIOUS
<1>1. EgressTypeOK
  <2>1. MaxProxy \in Nat \ {0} /\ started = 1 /\ proxy \in {0, 1} /\ ours \in BOOLEAN
    BY EgressAssumption DEF EgressInit
  <2>2. proxy \in 0..started /\ started \in 1..MaxProxy /\ 0 \in 0..MaxProxy
    BY <2>1
  <2>3. FALSE \in BOOLEAN
    OBVIOUS
  <2>4. /\ proxySettled \in BOOLEAN /\ raced \in BOOLEAN
        /\ at \in [Run -> {"new"}] /\ flight \in [Run -> {"none"}] /\ netFlight \in [Run -> {"none"}]
        /\ networkPromises \in [Network -> {"none"}] /\ attached \in [Network -> {0}]
        /\ network \in [Network -> {"absent", "open"}] /\ ownNetworks = {} /\ proxyPromise = "none"
    BY <2>3 DEF EgressInit
  <2>. QED
    BY <2>1, <2>2, <2>4 DEF EgressTypeOK, Flights
<1>2. PromisesAreKept
  BY EgressAssumption DEF EgressInit, PromisesAreKept, Leading
<1>3. NetworksAreOurs
  BY DEF EgressInit, NetworksAreOurs, Attaching
<1>4. PlaneIsInOrder
  BY EgressAssumption DEF EgressInit, PlaneIsInOrder, Leading, Cached
<1>. QED
  BY <1>1, <1>2, <1>3, <1>4 DEF EgressInv

LEMMA SettleTyped ==
  ASSUME EgressTypeOK, NEW r \in Run, NEW how \in {"ok", "failed"}, Settle(r, how)
  PROVE  /\ at' \in [Run -> {"new", "check", "proxy", "inspect", "start", "listen", "plane", "net",
                             "create", "attach", "attachNew", "ready", "launched", "refused"}]
         /\ flight' \in [Run -> Flights] /\ proxyPromise' \in Run \cup {"none"}
         /\ proxySettled' \in BOOLEAN
<1>1. proxySettled' \in BOOLEAN
  <2>1. proxySettled' = (how = "ok")
    BY DEF Settle
  <2>2. CASE how = "ok"
    BY <2>1, <2>2
  <2>3. CASE how # "ok"
    BY <2>1, <2>3
  <2>. QED
    BY <2>2, <2>3
<1>2. how \in Flights /\ flight' \in [Run -> Flights]
  BY DEF Settle, EgressTypeOK, Flights
<1>3. proxyPromise' \in Run \cup {"none"}
  BY DEF Settle, EgressTypeOK
<1>4. \A q \in Run : at'[q] \in {at[q], "plane", "refused"} /\ at' = [x \in Run |-> at'[x]]
  BY DEF Settle, EgressTypeOK
<1>. QED
  BY <1>1, <1>2, <1>3, <1>4 DEF Settle, EgressTypeOK

\* ensureNetwork() finds no promise, one that is pending, or one that was kept.
LEMMA EnsureNetworkMeans ==
  ASSUME EgressTypeOK, PromisesAreKept, NEW r \in Run, EnsureNetwork(r)
  PROVE  /\ at[r] = "plane" /\ on[r] \in Network
         /\ \/ /\ networkPromises[on[r]] = "none"
               /\ networkPromises' = [networkPromises EXCEPT ![on[r]] = r]
               /\ netFlight' = [netFlight EXCEPT ![r] = "pending"]
               /\ at' = [at EXCEPT ![r] = "create"]
            \/ /\ UNCHANGED <<networkPromises, netFlight>>
               /\ networkPromises[on[r]] \in Run
               /\ \E to \in {"net", "ready"} : at' = [at EXCEPT ![r] = to]
         /\ UNCHANGED <<on, proxy, ours, started, proxyPromise, proxySettled, flight, launchedOn>>
         /\ UNCHANGED <<ownNetworks, network, attached, raced>>
<1>1. at[r] = "plane" /\ on[r] \in Network
  BY DEF EnsureNetwork, PromisesAreKept
<1>2. /\ UNCHANGED <<on, proxy, ours, started, proxyPromise, proxySettled, flight, launchedOn>>
      /\ UNCHANGED <<ownNetworks, network, attached, raced>>
  BY DEF EnsureNetwork, proxyVars
<1>3. CASE networkPromises[on[r]] = "none"
  BY <1>1, <1>2, <1>3 DEF EnsureNetwork, Goes
<1>4. CASE networkPromises[on[r]] # "none"
  <2>1. networkPromises[on[r]] \in Run
    BY <1>1, <1>4 DEF EgressTypeOK
  <2>2. netFlight[networkPromises[on[r]]] \in {"pending", "ok"}
    BY <1>1, <2>1 DEF PromisesAreKept
  <2>3. UNCHANGED <<networkPromises, netFlight>>
    BY <1>4 DEF EnsureNetwork
  <2>4. CASE netFlight[networkPromises[on[r]]] = "pending"
    <3>1. at' = [at EXCEPT ![r] = "net"]
      BY <1>4, <2>4 DEF EnsureNetwork, Goes
    <3>. QED
      BY <1>1, <1>2, <2>1, <2>3, <3>1
  <2>5. CASE netFlight[networkPromises[on[r]]] = "ok"
    <3>1. at' = [at EXCEPT ![r] = "ready"]
      BY <1>4, <2>5 DEF EnsureNetwork, Goes
    <3>. QED
      BY <1>1, <1>2, <2>1, <2>3, <3>1
  <2>. QED
    BY <2>2, <2>4, <2>5
<1>. QED
  BY <1>3, <1>4

LEMMA EgressTyped ==
  ASSUME EgressTypeOK, PromisesAreKept, EgressNext
  PROVE  EgressTypeOK'
<1>. USE EgressAssumption DEF EgressTypeOK, Flights, Goes, planeVars, proxyVars
<1>1. ASSUME ProxyDies PROVE EgressTypeOK'
  BY <1>1 DEF ProxyDies
<1>2. ASSUME NEW r \in Run, EnsureProxy(r) PROVE EgressTypeOK'
  BY <1>2 DEF EnsureProxy, LeadProxy, Establishing
<1>3. ASSUME NEW r \in Run, ProxyLives(r) PROVE EgressTypeOK'
  BY <1>3 DEF ProxyLives
<1>4. ASSUME NEW r \in Run, ProxyFoundDead(r) PROVE EgressTypeOK'
  BY <1>4 DEF ProxyFoundDead, LeadProxy, ForgetPlane, Establishing
<1>5. ASSUME NEW r \in Run, Inspect(r) PROVE EgressTypeOK'
  BY <1>5 DEF Inspect, Settle
<1>6. ASSUME NEW r \in Run, StartProxy(r) PROVE EgressTypeOK'
  <2>1. CASE Settle(r, "failed") /\ UNCHANGED <<proxy, ours, started>> /\ UNCHANGED planeVars
    BY <2>1, SettleTyped
  <2>2. CASE /\ started < MaxProxy /\ started' = started + 1 /\ proxy' = started' /\ ours' = TRUE
             /\ Goes(r, "listen") /\ UNCHANGED <<proxyPromise, proxySettled, flight>>
             /\ UNCHANGED planeVars
    <3>1. started' \in 1..MaxProxy /\ proxy' \in 0..started'
      BY <2>2
    <3>. QED
      BY <2>2, <3>1
  <2>. QED
    BY <1>6, <2>1, <2>2 DEF StartProxy
<1>7. ASSUME NEW r \in Run, WaitForProxyListening(r) PROVE EgressTypeOK'
  <2>1. /\ Settle(r, "ok") \/ Settle(r, "failed")
        /\ proxy' \in {proxy, 0} /\ UNCHANGED <<ours, started>> /\ UNCHANGED planeVars
    BY <1>7 DEF WaitForProxyListening
  <2>. QED
    BY <2>1, SettleTyped
<1>8. ASSUME NEW r \in Run, EnsureNetwork(r) PROVE EgressTypeOK'
  BY <1>8, EnsureNetworkMeans DEF PromisesAreKept
<1>9. ASSUME NEW r \in Run, CreateNetwork(r) PROVE EgressTypeOK'
  BY <1>9 DEF CreateNetwork, SettleNetwork, PromisesAreKept
<1>10. ASSUME NEW r \in Run, AttachProxy(r) PROVE EgressTypeOK'
  BY <1>10 DEF AttachProxy, SettleNetwork, PromisesAreKept, Establishing
<1>11. ASSUME NEW r \in Run, AttachFails(r) PROVE EgressTypeOK'
  BY <1>11 DEF AttachFails, SettleNetwork, PromisesAreKept
<1>12. ASSUME NEW r \in Run, Launch(r) PROVE EgressTypeOK'
  BY <1>12 DEF Launch
<1>13. ASSUME NEW r \in Run, RunEnds(r) PROVE EgressTypeOK'
  BY <1>13 DEF RunEnds
<1>. QED
  BY <1>1, <1>2, <1>3, <1>4, <1>5, <1>6, <1>7, <1>8, <1>9, <1>10, <1>11, <1>12, <1>13 DEF EgressNext

LEMMA PromisesKept ==
  ASSUME EgressTypeOK, PromisesAreKept, EgressNext
  PROVE  PromisesAreKept'
<1>. USE EgressAssumption DEF EgressTypeOK, PromisesAreKept, Leading, Goes, planeVars, proxyVars
<1>1. ASSUME ProxyDies PROVE PromisesAreKept'
  BY <1>1 DEF ProxyDies
<1>2. ASSUME NEW r \in Run, EnsureProxy(r) PROVE PromisesAreKept'
  BY <1>2 DEF EnsureProxy, LeadProxy
<1>3. ASSUME NEW r \in Run, ProxyLives(r) PROVE PromisesAreKept'
  BY <1>3 DEF ProxyLives
<1>4. ASSUME NEW r \in Run, ProxyFoundDead(r) PROVE PromisesAreKept'
  BY <1>4 DEF ProxyFoundDead, LeadProxy, ForgetPlane
<1>5. ASSUME NEW r \in Run, Inspect(r) PROVE PromisesAreKept'
  BY <1>5 DEF Inspect, Settle
<1>6. ASSUME NEW r \in Run, StartProxy(r) PROVE PromisesAreKept'
  BY <1>6 DEF StartProxy, Settle
<1>7. ASSUME NEW r \in Run, WaitForProxyListening(r) PROVE PromisesAreKept'
  BY <1>7 DEF WaitForProxyListening, Settle
<1>8. ASSUME NEW r \in Run, EnsureNetwork(r) PROVE PromisesAreKept'
  BY <1>8, EnsureNetworkMeans
<1>9. ASSUME NEW r \in Run, CreateNetwork(r) PROVE PromisesAreKept'
  BY <1>9 DEF CreateNetwork, SettleNetwork
<1>10. ASSUME NEW r \in Run, AttachProxy(r) PROVE PromisesAreKept'
  BY <1>10 DEF AttachProxy, SettleNetwork
<1>11. ASSUME NEW r \in Run, AttachFails(r) PROVE PromisesAreKept'
  BY <1>11 DEF AttachFails, SettleNetwork
<1>12. ASSUME NEW r \in Run, Launch(r) PROVE PromisesAreKept'
  BY <1>12 DEF Launch
<1>13. ASSUME NEW r \in Run, RunEnds(r) PROVE PromisesAreKept'
  BY <1>13 DEF RunEnds
<1>. QED
  BY <1>1, <1>2, <1>3, <1>4, <1>5, <1>6, <1>7, <1>8, <1>9, <1>10, <1>11, <1>12, <1>13 DEF EgressNext

\* No step opens a network.
LEMMA NetworksStayOurs ==
  ASSUME EgressTypeOK, PromisesAreKept, NetworksAreOurs, EgressNext
  PROVE  NetworksAreOurs'
<1>. USE DEF EgressTypeOK, PromisesAreKept, NetworksAreOurs, Attaching, Goes, planeVars, proxyVars
<1>1. ASSUME ProxyDies PROVE NetworksAreOurs'
  BY <1>1 DEF ProxyDies
<1>2. ASSUME NEW r \in Run, EnsureProxy(r) PROVE NetworksAreOurs'
  BY <1>2 DEF EnsureProxy, LeadProxy
<1>3. ASSUME NEW r \in Run, ProxyLives(r) PROVE NetworksAreOurs'
  BY <1>3 DEF ProxyLives
<1>4. ASSUME NEW r \in Run, ProxyFoundDead(r) PROVE NetworksAreOurs'
  BY <1>4 DEF ProxyFoundDead, LeadProxy, ForgetPlane
<1>5. ASSUME NEW r \in Run, Inspect(r) PROVE NetworksAreOurs'
  BY <1>5 DEF Inspect, Settle
<1>6. ASSUME NEW r \in Run, StartProxy(r) PROVE NetworksAreOurs'
  BY <1>6 DEF StartProxy, Settle
<1>7. ASSUME NEW r \in Run, WaitForProxyListening(r) PROVE NetworksAreOurs'
  BY <1>7 DEF WaitForProxyListening, Settle
<1>8. ASSUME NEW r \in Run, EnsureNetwork(r) PROVE NetworksAreOurs'
  BY <1>8, EnsureNetworkMeans
<1>9. ASSUME NEW r \in Run, CreateNetwork(r) PROVE NetworksAreOurs'
  BY <1>9 DEF CreateNetwork, SettleNetwork
<1>10. ASSUME NEW r \in Run, AttachProxy(r) PROVE NetworksAreOurs'
  BY <1>10 DEF AttachProxy, SettleNetwork
<1>11. ASSUME NEW r \in Run, AttachFails(r) PROVE NetworksAreOurs'
  BY <1>11 DEF AttachFails, SettleNetwork
<1>12. ASSUME NEW r \in Run, Launch(r) PROVE NetworksAreOurs'
  BY <1>12 DEF Launch
<1>13. ASSUME NEW r \in Run, RunEnds(r) PROVE NetworksAreOurs'
  BY <1>13 DEF RunEnds
<1>. QED
  BY <1>1, <1>2, <1>3, <1>4, <1>5, <1>6, <1>7, <1>8, <1>9, <1>10, <1>11, <1>12, <1>13 DEF EgressNext

LEMMA PlaneStaysInOrder ==
  ASSUME EgressTypeOK, PromisesAreKept, ~raced => PlaneIsInOrder, EgressNext, ~raced'
  PROVE  PlaneIsInOrder'
<1>. USE EgressAssumption DEF EgressTypeOK, PromisesAreKept, PlaneIsInOrder, Leading, Cached,
     Establishing, Goes, planeVars, proxyVars
<1>1. ASSUME ProxyDies PROVE PlaneIsInOrder'
  BY <1>1 DEF ProxyDies
<1>2. ASSUME NEW r \in Run, EnsureProxy(r) PROVE PlaneIsInOrder'
  BY <1>2 DEF EnsureProxy, LeadProxy
<1>3. ASSUME NEW r \in Run, ProxyLives(r) PROVE PlaneIsInOrder'
  BY <1>3 DEF ProxyLives
<1>4. ASSUME NEW r \in Run, ProxyFoundDead(r) PROVE PlaneIsInOrder'
  BY <1>4 DEF ProxyFoundDead, LeadProxy, ForgetPlane
<1>5. ASSUME NEW r \in Run, Inspect(r) PROVE PlaneIsInOrder'
  BY <1>5 DEF Inspect, Settle
<1>6. ASSUME NEW r \in Run, StartProxy(r) PROVE PlaneIsInOrder'
  BY <1>6 DEF StartProxy, Settle
<1>7. ASSUME NEW r \in Run, WaitForProxyListening(r) PROVE PlaneIsInOrder'
  BY <1>7 DEF WaitForProxyListening, Settle
<1>8. ASSUME NEW r \in Run, EnsureNetwork(r) PROVE PlaneIsInOrder'
  BY <1>8, EnsureNetworkMeans
<1>9. ASSUME NEW r \in Run, CreateNetwork(r) PROVE PlaneIsInOrder'
  BY <1>9 DEF CreateNetwork, SettleNetwork
<1>10. ASSUME NEW r \in Run, AttachProxy(r) PROVE PlaneIsInOrder'
  <2>1. /\ at[r] \in {"attach", "attachNew"} /\ proxy # 0
        /\ attached' = [attached EXCEPT ![on[r]] = proxy]
        /\ netFlight' = [netFlight EXCEPT ![r] = "ok"] /\ networkPromises' = networkPromises
        /\ at' = [q \in Run |-> IF q = r \/ (at[q] = "net" /\ networkPromises[on[q]] = r)
                                THEN "ready" ELSE at[q]]
        /\ UNCHANGED <<proxy, started, proxyPromise, flight, on>>
    BY <1>10 DEF AttachProxy, SettleNetwork
  <2>2. ~raced /\ \A q \in Run : ~Leading(q)
    <3>1. ~(raced \/ Establishing)
      BY <1>10 DEF AttachProxy
    <3>2. \A q \in Run : Leading(q) <=> flight[q] = "pending"
      OBVIOUS
    <3>. QED
      BY ONLY <3>1, <3>2 DEF Establishing
  <2>3. \A q \in Run : ~Leading(q)'
    BY <2>1, <2>2
  <2>4. proxyPromise # "none"
    BY <2>1, <2>2
  <2>5. ASSUME NEW n \in Network, Cached(n)' PROVE attached'[n] = proxy
    <3>1. CASE n = on[r]
      BY <2>1, <3>1
    <3>2. CASE n # on[r]
      <4>1. networkPromises[n] # r
        BY <3>2
      <4>2. Cached(n) /\ attached'[n] = attached[n]
        BY <2>1, <2>5, <3>2, <4>1
      <4>. QED
        BY <2>1, <2>2, <4>2
    <3>. QED
      BY <3>1, <3>2
  <2>. QED
    BY <2>1, <2>3, <2>4, <2>5
<1>11. ASSUME NEW r \in Run, AttachFails(r) PROVE PlaneIsInOrder'
  BY <1>11 DEF AttachFails, SettleNetwork
<1>12. ASSUME NEW r \in Run, Launch(r) PROVE PlaneIsInOrder'
  BY <1>12 DEF Launch
<1>13. ASSUME NEW r \in Run, RunEnds(r) PROVE PlaneIsInOrder'
  BY <1>13 DEF RunEnds
<1>. QED
  BY <1>1, <1>2, <1>3, <1>4, <1>5, <1>6, <1>7, <1>8, <1>9, <1>10, <1>11, <1>12, <1>13 DEF EgressNext

LEMMA EgressStep == EgressInv /\ (EgressNext \/ UNCHANGED egressVars) => EgressInv'
<1>1. EgressInv /\ EgressNext => EgressInv'
  BY EgressTyped, PromisesKept, NetworksStayOurs, PlaneStaysInOrder DEF EgressInv
<1>2. EgressInv /\ UNCHANGED egressVars => EgressInv'
  BY DEF EgressInv, EgressTypeOK, PromisesAreKept, NetworksAreOurs, PlaneIsInOrder, Leading,
     Attaching, Cached, egressVars
<1>. QED
  BY <1>1, <1>2

LEMMA EgressIsSafe == EgressInv => EgressTypeOK /\ RunsAreContained /\ CachedPlaneWorks
BY DEF EgressInv, NetworksAreOurs, PlaneIsInOrder, Cached, RunsAreContained, CachedPlaneWorks

-----------------------------------------------------------------------------
(***************************************************************************)
(* All parts.  A behaviour is that of one part: the part that runs keeps   *)
(* its invariant, of the others nothing is said.                           *)
(***************************************************************************)
IInv ==
  /\ part \in Part
  /\ Of("access", AccessInv) /\ Of("links", LinkInv) /\ Of("keys", JwksInv)
  /\ Of("signIn", SignInInv) /\ Of("memory", MemoryInv) /\ Of("skills", SkillInv)
  /\ Of("presentation", PresentationInv) /\ Of("deletion", DeletionInv) /\ Of("rates", RateInv)
  /\ Of("egress", EgressInv) /\ Of("usage", UsageInv) /\ Of("guard", GuardInv)
  /\ Of("healing", HealInv) /\ Of("batch", BatchInv) /\ Of("vault", VaultInv)
  /\ Of("install", InstallInv) /\ Of("database", DatabaseInv) /\ Of("shared", SharedInv)
  /\ Of("publish", PublishInv) /\ Of("audit", AuditInv) /\ Of("export", ExportInv)
  /\ Of("origin", OriginInv) /\ Of("pane", PaneInv)

\* A step is one of the part that runs.
LEMMA OnePartSteps ==
  ASSUME [Next]_vars
  PROVE  /\ part' = part
         /\ part = "access" => AccessNext \/ UNCHANGED accessVars
         /\ part = "links" => LinkNext \/ UNCHANGED linkFileVars
         /\ part = "keys" => JwksNext \/ UNCHANGED jwksVars
         /\ part = "signIn" => SignInNext \/ UNCHANGED signInVars
         /\ part = "memory" => MemoryNext \/ UNCHANGED memoryVars
         /\ part = "skills" => SkillNext \/ UNCHANGED skillVars
         /\ part = "presentation" => PresentationNext \/ UNCHANGED presentationVars
         /\ part = "deletion" => DeletionNext \/ UNCHANGED accountDeletionVars
         /\ part = "rates" => RateNext \/ UNCHANGED rateVars
         /\ part = "egress" => EgressNext \/ UNCHANGED egressVars
         /\ part = "usage" => UsageNext \/ UNCHANGED usageVars
         /\ part = "guard" => GuardNext \/ UNCHANGED guardVars
         /\ part = "healing" => HealNext \/ UNCHANGED healVars
         /\ part = "batch" => BatchNext \/ UNCHANGED batchVars
         /\ part = "vault" => VaultNext \/ UNCHANGED vaultVars
         /\ part = "install" => InstallNext \/ UNCHANGED installVars
         /\ part = "database" => DatabaseNext \/ UNCHANGED databaseVars
         /\ part = "shared" => SharedNext \/ UNCHANGED sharedVars
         /\ part = "publish" => PublishNext \/ UNCHANGED publishVars
         /\ part = "audit" => AuditNext \/ UNCHANGED auditVars
         /\ part = "export" => ExportNext \/ UNCHANGED exportVars
         /\ part = "origin" => OriginNext \/ UNCHANGED originVars
         /\ part = "pane" => PaneNext \/ UNCHANGED paneVars
<1>1. CASE UNCHANGED vars
  BY <1>1 DEF vars
<1>2. CASE Next
  <2>1. part' = part /\ (IdentityNext \/ AccountNext \/ SandboxNext \/ ProjectNext)
    BY <1>2 DEF Next, OthersUnchanged
  <2>. QED
    BY <2>1 DEF IdentityNext, AccountNext, SandboxNext, ProjectNext
<1>. QED
  BY <1>1, <1>2

LEMMA AllStart == Init => IInv
<1>. SUFFICES ASSUME Init PROVE IInv
  OBVIOUS
<1>1. part \in Part
  BY DEF Init
<1>2. /\ AccessInit /\ AuditInit /\ BatchInit /\ DatabaseInit /\ DeletionInit /\ EgressInit
      /\ ExportInit /\ GuardInit /\ HealInit /\ InstallInit /\ JwksInit /\ MemoryInit
      /\ OriginInit /\ PaneInit /\ PresentationInit /\ PublishInit /\ RateInit /\ SharedInit
      /\ SignInInit /\ SkillInit /\ UsageInit /\ VaultInit
  BY DEF Init
<1>3. /\ AccessInv /\ LinkInv /\ JwksInv /\ SignInInv /\ MemoryInv /\ SkillInv
      /\ PresentationInv /\ DeletionInv /\ RateInv /\ EgressInv /\ UsageInv /\ GuardInv
      /\ HealInv /\ BatchInv /\ VaultInv /\ InstallInv /\ DatabaseInv /\ SharedInv /\ PublishInv
      /\ AuditInv /\ ExportInv /\ OriginInv /\ PaneInv
  BY <1>2, AccessStarts, LinksStart, KeysStart, SignInStarts, MemoryStarts, SkillsStart,
     PresentationStarts, DeletionStarts, RateStarts, EgressStarts, UsageStarts, GuardStarts,
     HealStarts, BatchStarts, VaultStarts, InstallStarts, DatabaseStarts, SharedStarts,
     PublishStarts, AuditStarts, ExportStarts, OriginStarts, PaneStarts
<1>. QED
  BY <1>1, <1>3 DEF IInv, Of

LEMMA AllStep == IInv /\ [Next]_vars => IInv'
<1>. SUFFICES ASSUME IInv, [Next]_vars PROVE IInv'
  OBVIOUS
<1>1. part' = part /\ part \in Part
  BY OnePartSteps DEF IInv
<1>2. ASSUME part = "access" PROVE AccessInv'
  <2>1. AccessInv /\ (AccessNext \/ UNCHANGED accessVars)
    BY <1>2, OnePartSteps DEF IInv, Of
  <2>. QED
    BY <2>1, AccessStep
<1>3. ASSUME part = "links" PROVE LinkInv'
  <2>1. LinkInv /\ (LinkNext \/ UNCHANGED linkFileVars)
    BY <1>3, OnePartSteps DEF IInv, Of
  <2>. QED
    BY <2>1, LinksStep
<1>4. ASSUME part = "keys" PROVE JwksInv'
  <2>1. JwksInv /\ (JwksNext \/ UNCHANGED jwksVars)
    BY <1>4, OnePartSteps DEF IInv, Of
  <2>. QED
    BY <2>1, KeysStep
<1>5. ASSUME part = "signIn" PROVE SignInInv'
  <2>1. SignInInv /\ (SignInNext \/ UNCHANGED signInVars)
    BY <1>5, OnePartSteps DEF IInv, Of
  <2>. QED
    BY <2>1, SignInStep
<1>6. ASSUME part = "memory" PROVE MemoryInv'
  <2>1. MemoryInv /\ (MemoryNext \/ UNCHANGED memoryVars)
    BY <1>6, OnePartSteps DEF IInv, Of
  <2>. QED
    BY <2>1, MemoryStep
<1>7. ASSUME part = "skills" PROVE SkillInv'
  <2>1. SkillInv /\ (SkillNext \/ UNCHANGED skillVars)
    BY <1>7, OnePartSteps DEF IInv, Of
  <2>. QED
    BY <2>1, SkillsStep
<1>8. ASSUME part = "presentation" PROVE PresentationInv'
  <2>1. PresentationInv /\ (PresentationNext \/ UNCHANGED presentationVars)
    BY <1>8, OnePartSteps DEF IInv, Of
  <2>. QED
    BY <2>1, PresentationStep
<1>9. ASSUME part = "deletion" PROVE DeletionInv'
  <2>1. DeletionInv /\ (DeletionNext \/ UNCHANGED accountDeletionVars)
    BY <1>9, OnePartSteps DEF IInv, Of
  <2>. QED
    BY <2>1, DeletionStep
<1>10. ASSUME part = "rates" PROVE RateInv'
  <2>1. RateInv /\ (RateNext \/ UNCHANGED rateVars)
    BY <1>10, OnePartSteps DEF IInv, Of
  <2>. QED
    BY <2>1, RateStep
<1>11. ASSUME part = "egress" PROVE EgressInv'
  <2>1. EgressInv /\ (EgressNext \/ UNCHANGED egressVars)
    BY <1>11, OnePartSteps DEF IInv, Of
  <2>. QED
    BY <2>1, EgressStep
<1>12. ASSUME part = "usage" PROVE UsageInv'
  <2>1. UsageInv /\ (UsageNext \/ UNCHANGED usageVars)
    BY <1>12, OnePartSteps DEF IInv, Of
  <2>. QED
    BY <2>1, UsageStep
<1>13. ASSUME part = "guard" PROVE GuardInv'
  <2>1. GuardInv /\ (GuardNext \/ UNCHANGED guardVars)
    BY <1>13, OnePartSteps DEF IInv, Of
  <2>. QED
    BY <2>1, GuardStep
<1>14. ASSUME part = "healing" PROVE HealInv'
  <2>1. HealInv /\ (HealNext \/ UNCHANGED healVars)
    BY <1>14, OnePartSteps DEF IInv, Of
  <2>. QED
    BY <2>1, HealStep
<1>15. ASSUME part = "batch" PROVE BatchInv'
  <2>1. BatchInv /\ (BatchNext \/ UNCHANGED batchVars)
    BY <1>15, OnePartSteps DEF IInv, Of
  <2>. QED
    BY <2>1, BatchStep
<1>16. ASSUME part = "vault" PROVE VaultInv'
  <2>1. VaultInv /\ (VaultNext \/ UNCHANGED vaultVars)
    BY <1>16, OnePartSteps DEF IInv, Of
  <2>. QED
    BY <2>1, VaultStep
<1>17. ASSUME part = "install" PROVE InstallInv'
  <2>1. InstallInv /\ (InstallNext \/ UNCHANGED installVars)
    BY <1>17, OnePartSteps DEF IInv, Of
  <2>. QED
    BY <2>1, InstallStep
<1>18. ASSUME part = "database" PROVE DatabaseInv'
  <2>1. DatabaseInv /\ (DatabaseNext \/ UNCHANGED databaseVars)
    BY <1>18, OnePartSteps DEF IInv, Of
  <2>. QED
    BY <2>1, DatabaseStep
<1>19. ASSUME part = "shared" PROVE SharedInv'
  <2>1. SharedInv /\ (SharedNext \/ UNCHANGED sharedVars)
    BY <1>19, OnePartSteps DEF IInv, Of
  <2>. QED
    BY <2>1, SharedStep
<1>20. ASSUME part = "publish" PROVE PublishInv'
  <2>1. PublishInv /\ (PublishNext \/ UNCHANGED publishVars)
    BY <1>20, OnePartSteps DEF IInv, Of
  <2>. QED
    BY <2>1, PublishStep
<1>21. ASSUME part = "audit" PROVE AuditInv'
  <2>1. AuditInv /\ (AuditNext \/ UNCHANGED auditVars)
    BY <1>21, OnePartSteps DEF IInv, Of
  <2>. QED
    BY <2>1, AuditStep
<1>22. ASSUME part = "export" PROVE ExportInv'
  <2>1. ExportInv /\ (ExportNext \/ UNCHANGED exportVars)
    BY <1>22, OnePartSteps DEF IInv, Of
  <2>. QED
    BY <2>1, ExportStep
<1>23. ASSUME part = "origin" PROVE OriginInv'
  <2>1. OriginInv /\ (OriginNext \/ UNCHANGED originVars)
    BY <1>23, OnePartSteps DEF IInv, Of
  <2>. QED
    BY <2>1, OriginStep
<1>24. ASSUME part = "pane" PROVE PaneInv'
  <2>1. PaneInv /\ (PaneNext \/ UNCHANGED paneVars)
    BY <1>24, OnePartSteps DEF IInv, Of
  <2>. QED
    BY <2>1, PaneStep
<1>. QED
  BY <1>1, <1>2, <1>3, <1>4, <1>5, <1>6, <1>7, <1>8, <1>9, <1>10, <1>11, <1>12, <1>13, <1>14,
     <1>15, <1>16, <1>17, <1>18, <1>19, <1>20, <1>21, <1>22, <1>23, <1>24 DEF IInv, Of

-----------------------------------------------------------------------------
LEMMA AllInductive == Spec => []IInv
<1>. QED
  BY AllStart, AllStep, PTL DEF Spec

(***************************************************************************)
(* Every variable of every service keeps its type, whatever happens in it: *)
(* no handler leaves a value that the next one does not expect.            *)
(***************************************************************************)
THEOREM ServicesAreTyped == Spec => []TypeOK
<1>1. IInv => TypeOK
  <2>. SUFFICES ASSUME IInv PROVE TypeOK
    OBVIOUS
  <2>1. /\ Of("access", AccessTypeOK) /\ Of("links", LinkTypeOK) /\ Of("keys", JwksTypeOK)
        /\ Of("signIn", SignInTypeOK) /\ Of("memory", MemoryTypeOK) /\ Of("skills", SkillTypeOK)
    BY AccessIsSafe DEF IInv, Of, LinkInv, JwksInv, SignInInv, MemoryInv, SkillInv
  <2>2. /\ Of("presentation", PresentationTypeOK) /\ Of("deletion", DeletionTypeOK)
        /\ Of("rates", RateTypeOK) /\ Of("egress", EgressTypeOK) /\ Of("usage", UsageTypeOK)
        /\ Of("guard", GuardTypeOK)
    BY PresentationIsSafe, DeletionIsSafe, RateIsSafe, EgressIsSafe, UsageIsSafe
       DEF IInv, Of, GuardInv
  <2>3. /\ Of("healing", HealTypeOK) /\ Of("batch", BatchTypeOK) /\ Of("vault", VaultTypeOK)
        /\ Of("install", InstallTypeOK) /\ Of("database", DatabaseTypeOK)
        /\ Of("shared", SharedTypeOK)
    BY HealIsSafe, InstallIsTyped, SharedIsSafe
       DEF IInv, Of, BatchInv, VaultInv, DatabaseInv
  <2>4. /\ Of("publish", PublishTypeOK) /\ Of("audit", AuditTypeOK)
        /\ Of("export", ExportTypeOK) /\ Of("origin", OriginTypeOK) /\ Of("pane", PaneTypeOK)
    BY PublishIsSafe DEF IInv, Of, AuditInv, ExportInv, OriginInv, PaneInv
  <2>. QED
    BY <2>1, <2>2, <2>3, <2>4 DEF IInv, TypeOK
<1>. QED
  BY <1>1, AllInductive, PTL

(***************************************************************************)
(* Nothing opens what was closed, for any number of sessions, links, keys  *)
(* and tabs and through restarts: no two sessions that are there come of   *)
(* one login state, unless the cap threw that state out; no token of a     *)
(* session works once a rotated-out one was shown, a withdrawn link opens  *)
(* nothing, a withdrawn key is forgotten in time, also when the issuer     *)
(* does not answer, and a page that says the session has ended holds no    *)
(* token, in its storage neither unless that refused to remove it.         *)
(***************************************************************************)
THEOREM AccessStaysCurrent == Spec => []AccessIsCurrent
<1>1. IInv => AccessIsCurrent
  BY AccessIsSafe, LinksAreSafe, KeysAreSafe DEF IInv, Of, AccessIsCurrent, SignInInv
<1>. QED
  BY <1>1, AllInductive, PTL

(***************************************************************************)
(* What runs stays contained: no run starts on an open network, a network  *)
(* taken for established is connected to the proxy that runs, only         *)
(* consented commands execute, a boundary in use is counted, no sweep      *)
(* tears one down under a run unless that run began while this very        *)
(* release was under way, and a stretch of time as long as a window lets   *)
(* at most twice the limit through, for any limits.                        *)
(***************************************************************************)
THEOREM RunsStayContained == Spec => []SandboxesAreContained
<1>1. IInv => SandboxesAreContained
  BY EgressIsSafe, UsageIsSafe, RateIsSafe DEF IInv, Of, SandboxesAreContained, GuardInv
<1>. QED
  BY <1>1, AllInductive, PTL

(***************************************************************************)
(* Operations of several writes are whole or taken back, wherever          *)
(* connectors, installs, migrations, shared code, batches of edits and     *)
(* populations fail between two writes, except where the code itself       *)
(* leaves them half done, which the model names.  However propagations     *)
(* overlap, all targets hold one version at rest, which is the last good   *)
(* one unless they overlapped.  However installs overlap, no restore loses *)
(* what was there before those under way began; what came since may go.    *)
(***************************************************************************)
THEOREM WritesAreWhole == Spec => []AllOrNothing
<1>1. IInv => AllOrNothing
  BY SharedIsSafe
     DEF IInv, Of, AllOrNothing, VaultInv, InstallInv, DatabaseInv, BatchInv, OriginInv
<1>. QED
  BY <1>1, AllInductive, PTL

(***************************************************************************)
(* What is said to the user is so: visitors find a whole release, the one  *)
(* last reported as deployed or that of a later deploy which swapped and   *)
(* was then reported as timed out; a generation that passed was verified;  *)
(* an audit made of rescans is that of the whole tree; an export holds     *)
(* none of the values the caller knows of; and the pages show what there   *)
(* is.                                                                     *)
(***************************************************************************)
THEOREM ReportsStayTrue == Spec => []ReportsAreTrue
<1>1. IInv => ReportsAreTrue
  BY PublishIsSafe, HealIsSafe, PresentationIsSafe
     DEF IInv, Of, ReportsAreTrue, AuditInv, ExportInv, PaneInv
<1>. QED
  BY <1>1, AllInductive, PTL

(***************************************************************************)
(* What was reported as stored for an account stays until the user takes   *)
(* it out, for any caps of the memory; a skill keeps its last body unless  *)
(* another name with the same directory came; a deletion that throws       *)
(* half-way finds again what it left; and one that is confirmed has left   *)
(* nothing but what stores keep that are not injected, of which a strict   *)
(* one has none, or that returned {ok: false}.                             *)
(***************************************************************************)
THEOREM AccountKeepsItsOwn == Spec => []NothingIsForgotten
<1>1. IInv => NothingIsForgotten
  BY DeletionIsSafe DEF IInv, Of, NothingIsForgotten, MemoryInv, SkillInv
<1>. QED
  BY <1>1, AllInductive, PTL
=============================================================================
