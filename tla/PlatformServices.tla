-------------------------- MODULE PlatformServices --------------------------
(***************************************************************************)
(* The services around the core.  They share no state with each other: a   *)
(* behaviour of one says everything about it, so that a behaviour here is  *)
(* that of one part, chosen at the start, while the others rest.           *)
(***************************************************************************)
EXTENDS AccessControl, JwksKeyStore, SignIn,
        MemoryStore, SkillLibrary, PresentationSettings, AccountDeletion, RateWindows,
        EgressPlane, SandboxUsage, CommandGuard, SelfHealing, RefinementBatch,
        ConnectorVault, PackageManager, DatabaseService, MultiTarget, Publishing,
        Portability, OriginPopulation, PreviewPane

VARIABLE part \* the part that runs

vars == <<part, accessVars, linkFileVars, jwksVars, signInVars, memoryVars, skillVars,
          presentationVars, accountDeletionVars, rateVars, egressVars, usageVars, guardVars,
          healVars, batchVars, vaultVars, installVars, databaseVars, sharedVars, publishVars,
          auditVars, exportVars, originVars, paneVars>>

Part == {"access", "links", "keys", "signIn", "memory", "skills", "presentation", "deletion",
         "rates", "egress", "usage", "guard", "healing", "batch", "vault", "install",
         "database", "shared", "publish", "audit", "export", "origin", "pane"}

\* The initial states of a part matter only when it is the one that runs: the
\* others begin in one of theirs.
Init ==
  /\ part \in Part
  /\ AccessInit /\ SignInInit /\ MemoryInit /\ SkillInit /\ PresentationInit /\ DeletionInit
  /\ RateInit /\ UsageInit /\ VaultInit /\ DatabaseInit /\ SharedInit /\ PublishInit
  /\ AuditInit /\ ExportInit /\ OriginInit /\ PaneInit
  /\ JwksInit /\ (part # "keys" => published = {})
  /\ EgressInit
  /\ part # "egress" => /\ on = [r \in Run |-> CHOOSE n \in Network : TRUE]
                        /\ proxy = 0 /\ ours /\ network = [n \in Network |-> "absent"]
  /\ GuardInit /\ (part # "guard" => subAgent = {} /\ class = [c \in Command |-> "allow"])
  /\ HealInit /\ (part # "healing" => healing)
  /\ BatchInit /\ (part # "batch" => content = [f \in EditedFile |-> 0])
  /\ InstallInit /\ (part # "install" => manifest = {} /\ outputs = {})
  /\ part # "deletion" =>
       [wired |-> wired, strict |-> strict] = CHOOSE d \in Deployments : TRUE

IdentityNext ==
  \/ part = "access" /\ AccessNext
  \/ part = "links" /\ LinkNext
  \/ part = "keys" /\ JwksNext
  \/ part = "signIn" /\ SignInNext

AccountNext ==
  \/ part = "memory" /\ MemoryNext
  \/ part = "skills" /\ SkillNext
  \/ part = "presentation" /\ PresentationNext
  \/ part = "deletion" /\ DeletionNext
  \/ part = "rates" /\ RateNext

SandboxNext ==
  \/ part = "egress" /\ EgressNext
  \/ part = "usage" /\ UsageNext
  \/ part = "guard" /\ GuardNext
  \/ part = "healing" /\ HealNext
  \/ part = "batch" /\ BatchNext

ProjectNext ==
  \/ part = "vault" /\ VaultNext
  \/ part = "install" /\ InstallNext
  \/ part = "database" /\ DatabaseNext
  \/ part = "shared" /\ SharedNext
  \/ part = "publish" /\ PublishNext
  \/ part = "audit" /\ AuditNext
  \/ part = "export" /\ ExportNext
  \/ part = "origin" /\ OriginNext
  \/ part = "pane" /\ PaneNext

Rest(name, partVars) == IF part = name THEN TRUE ELSE UNCHANGED partVars

OthersUnchanged ==
  /\ UNCHANGED part
  /\ Rest("access", accessVars) /\ Rest("links", linkFileVars)
  /\ Rest("keys", jwksVars) /\ Rest("signIn", signInVars)
  /\ Rest("memory", memoryVars) /\ Rest("skills", skillVars)
  /\ Rest("presentation", presentationVars) /\ Rest("deletion", accountDeletionVars)
  /\ Rest("rates", rateVars) /\ Rest("egress", egressVars) /\ Rest("usage", usageVars)
  /\ Rest("guard", guardVars) /\ Rest("healing", healVars) /\ Rest("batch", batchVars)
  /\ Rest("vault", vaultVars) /\ Rest("install", installVars) /\ Rest("database", databaseVars)
  /\ Rest("shared", sharedVars) /\ Rest("publish", publishVars) /\ Rest("audit", auditVars)
  /\ Rest("export", exportVars) /\ Rest("origin", originVars) /\ Rest("pane", paneVars)

Next == OthersUnchanged /\ (IdentityNext \/ AccountNext \/ SandboxNext \/ ProjectNext)

Spec == Init /\ [][Next]_vars

-----------------------------------------------------------------------------
\* What is said of a part is looked at while it runs: at rest it is in an
\* initial state.
Of(name, holds) == part = name => holds

\* Every variable of every part has its type.
TypeOK ==
  /\ part \in Part
  /\ Of("access", AccessTypeOK) /\ Of("links", LinkTypeOK) /\ Of("keys", JwksTypeOK)
  /\ Of("signIn", SignInTypeOK) /\ Of("memory", MemoryTypeOK) /\ Of("skills", SkillTypeOK)
  /\ Of("presentation", PresentationTypeOK) /\ Of("deletion", DeletionTypeOK)
  /\ Of("rates", RateTypeOK) /\ Of("egress", EgressTypeOK) /\ Of("usage", UsageTypeOK)
  /\ Of("guard", GuardTypeOK) /\ Of("healing", HealTypeOK) /\ Of("batch", BatchTypeOK)
  /\ Of("vault", VaultTypeOK) /\ Of("install", InstallTypeOK) /\ Of("database", DatabaseTypeOK)
  /\ Of("shared", SharedTypeOK) /\ Of("publish", PublishTypeOK) /\ Of("audit", AuditTypeOK)
  /\ Of("export", ExportTypeOK) /\ Of("origin", OriginTypeOK) /\ Of("pane", PaneTypeOK)

\* Nothing opens what was closed: a login state is spent once, a rotated-out
\* token and a withdrawn link open nothing, a withdrawn key is forgotten, and a
\* page that says the session has ended holds no token.  Excepted are a state
\* that the cap on remembered states threw out, and a record that the browser's
\* storage would not remove.
AccessIsCurrent ==
  /\ Of("access", StateIsSpentOnce /\ NoWayBack) /\ Of("links", WithdrawnLinkDies)
  /\ Of("keys", WithdrawnKeyDies) /\ Of("signIn", SignInIsMirrored)

\* What runs in the sandboxes: only what was consented to, on contained
\* networks of a proxy that runs, in boundaries that the quota counts and that
\* no sweep takes from under them, and within the rates and quotas.  Excepted is
\* a run that begins in the awaits of a release that is under way.
SandboxesAreContained ==
  /\ Of("egress", RunsAreContained /\ CachedPlaneWorks) /\ Of("usage", UsageIsCounted)
  /\ Of("guard", OnlyConsentedRuns) /\ Of("rates", LimitsHold)

\* An operation of several writes is done whole, taken back whole, or known
\* to be neither: connectors, installs, databases, shared code, batches of
\* edits, the population of a project.  Excepted are propagations that overlap,
\* which may bring an older version back to all targets, and entries written
\* while an install that fails is under way.
AllOrNothing ==
  /\ Of("vault", SecretsFollowBindings) /\ Of("install", InstallIsWhole)
  /\ Of("database", DatabaseIsKnown) /\ Of("shared", OneVersionAtRest)
  /\ Of("batch", BatchIsAtomic) /\ Of("origin", OriginIsWhole)

\* What is reported or shown is so: a publication is served, a generation that
\* passed was verified, an audit and an export are of the whole tree, and the
\* pages show the preview and the settings that there are.  Excepted is a deploy
\* that was reported as timed out and is served all the same.
ReportsAreTrue ==
  /\ Of("publish", PublishedIsServed) /\ Of("healing", HealingIsHonest) /\ Of("audit", AuditIsWhole)
  /\ Of("export", ExportIsClean) /\ Of("pane", PaneIsHonest) /\ Of("presentation", SettingsAreShown)

\* What the account has stored is there until the user takes it out, and an
\* account that is deleted takes all of it along.  Excepted are a skill whose
\* directory is that of another name, and what a store keeps that is not
\* injected or returns {ok: false}.
NothingIsForgotten ==
  /\ Of("memory", MemoryKeepsFacts) /\ Of("skills", SkillsAreKept)
  /\ Of("deletion", DeletionCanBeRetried)
=============================================================================
