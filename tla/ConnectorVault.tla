--------------------------- MODULE ConnectorVault ---------------------------
(***************************************************************************)
(* The connectors of one project: connectors/connector-service.js captures *)
(* credentials, and keeps secrets/secret-store.js, connectors/             *)
(* binding-store.js, the steering manifest and the sandbox's allowlist in  *)
(* step.  A write that throws is a fault; at most MaxBroken of them occur. *)
(* Secrets are (service, index) pairs: which names exist, not their value. *)
(***************************************************************************)
EXTENDS Naturals, FiniteSets

CONSTANTS
  Service,   \* entries of the catalog
  Names,     \* how many env names an entry has
  Capture,   \* overlapping addConnector() calls
  MaxBroken  \* bound: writes that throw

ASSUME VaultAssumption == Names \in Nat \ {0} /\ MaxBroken \in Nat

VARIABLES
  secret,    \* the .enc files
  binding,   \* services in the binding document, all of them active
  steering,  \* services in the manifest of the project's tree
  allowed,   \* services whose hosts the sandbox lets through
  capturing, \* what each call waits for
  broken,    \* writes that have thrown
  orphaned,  \* auxiliary: a failed call may have left secrets of them
  halved,    \* auxiliary: their removal stopped between secrets and binding
  outdated   \* auxiliary: the last refresh of the surfaces did not get through

vaultVars == <<secret, binding, steering, allowed, capturing, broken, orphaned, halved, outdated>>

Refs(s) == {s} \X (1..Names)

VaultInit ==
  /\ secret = {} /\ binding = {} /\ steering = {} /\ allowed = {}
  /\ capturing = [c \in Capture |-> "none"]
  /\ broken = 0 /\ orphaned = {} /\ halved = {} /\ outdated = FALSE

VaultTypeOK ==
  /\ secret \subseteq Service \X (1..Names)
  /\ binding \cup steering \cup allowed \cup orphaned \cup halved \subseteq Service
  /\ capturing \in [Capture -> Service \cup {"none"}]
  /\ broken \in 0..MaxBroken /\ outdated \in BOOLEAN

-----------------------------------------------------------------------------
\* refreshSurfaces(): the manifest throws to the caller, before the allowlist
\* is touched; a sandbox that is not acquired is passed over.
RefreshSurfaces(bound) ==
  /\ steering' = bound /\ allowed' = bound /\ outdated' = FALSE
RefreshThrows ==
  /\ UNCHANGED <<steering, allowed>> /\ outdated' = TRUE
UpdateEgressThrows(bound) ==
  /\ steering' = bound /\ UNCHANGED allowed /\ outdated' = TRUE

Refresh(bound, faults) ==
  \/ faults = 0 /\ RefreshSurfaces(bound)
  \/ faults = 1 /\ (RefreshThrows \/ UpdateEgressThrows(bound))

Fault(n) == broken + n <= MaxBroken /\ broken' = broken + n

\* addConnector() up to its await, and the captures that give nothing.
BeginCapture(c, s) ==
  /\ capturing[c] = "none" /\ capturing' = [capturing EXCEPT ![c] = s]
  /\ UNCHANGED <<secret, binding, steering, allowed, broken, orphaned, halved, outdated>>

CaptureFails(c) ==
  /\ capturing[c] # "none" /\ capturing' = [capturing EXCEPT ![c] = "none"]
  /\ UNCHANGED <<secret, binding, steering, allowed, broken, orphaned, halved, outdated>>

AddConnector(c, s) ==
  /\ capturing[c] = s /\ capturing' = [capturing EXCEPT ![c] = "none"]
  /\ secret' = secret \cup Refs(s) /\ binding' = binding \cup {s}
  /\ orphaned' = orphaned \ {s} /\ halved' = halved \ {s}
  /\ \E n \in 0..1 : Fault(n) /\ Refresh(binding', n)

\* The k-th write throws, k = Names + 1 being the binding's: what this call
\* wrote is taken back, and the binding goes even if an older call made it.
\* (Mutant: the secrets are taken back and the binding stays.)
RollBackSecrets(s, k) ==
  /\ secret' = secret \ ({s} \X (1..k - 1))
  /\ UNCHANGED binding
RollBack(s, k) ==
  /\ secret' = secret \ ({s} \X (1..k - 1))
  /\ binding' = binding \ {s}

AddFails(c, s) ==
  /\ capturing[c] = s /\ capturing' = [capturing EXCEPT ![c] = "none"]
  /\ \E k \in 1..Names + 1 : RollBack(s, k)
  /\ Fault(1) /\ orphaned' = orphaned \cup {s}
  /\ outdated' = (outdated \/ binding' # binding)
  /\ UNCHANGED <<steering, allowed, halved>>

\* removeConnector(): a secret that cannot be removed is passed over.
RemoveConnector(s) ==
  /\ \E kept \in SUBSET (Refs(s) \cap secret), n \in 0..1 :
        /\ secret' = secret \ (Refs(s) \ kept)
        /\ orphaned' = IF kept = {} THEN orphaned \ {s} ELSE orphaned \cup {s}
        /\ binding' = binding \ {s}
        /\ Fault(n + IF kept = {} THEN 0 ELSE 1)
        /\ Refresh(binding', n)
  /\ halved' = halved \ {s} /\ UNCHANGED capturing

\* The binding document cannot be written after the secrets are gone.
RemoveHalfFails(s) ==
  /\ s \in binding /\ secret' = secret \ Refs(s)
  /\ Fault(1) /\ halved' = halved \cup {s}
  /\ UNCHANGED <<binding, steering, allowed, capturing, orphaned, outdated>>

VaultNext ==
  \/ \E c \in Capture : CaptureFails(c)
  \/ \E c \in Capture, s \in Service :
        BeginCapture(c, s) \/ AddConnector(c, s) \/ AddFails(c, s)
  \/ \E s \in Service : RemoveConnector(s) \/ RemoveHalfFails(s)

-----------------------------------------------------------------------------
\* Whatever captures and removals overlap and whichever write throws: a bound
\* connector has all its secrets, unless its removal stopped half-way; one that
\* is not bound has none, unless a failed call left some; and the manifest and
\* the allowlist name the bound ones, unless their refresh was what failed.
SecretsFollowBindings ==
  /\ \A s \in binding \ halved : Refs(s) \subseteq secret
  /\ \A s \in Service \ (binding \cup orphaned) : Refs(s) \cap secret = {}
  /\ ~outdated => steering = binding /\ allowed = binding
=============================================================================
