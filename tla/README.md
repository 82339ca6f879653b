# Formal model of the AI app builder

A TLA+ model of the parts of this repository in which order, concurrency and
failure decide whether a user keeps their work: the sandbox a project runs in,
the files it keeps, the preview it is served from, the registry that knows it,
the session in which it is built with the browser tabs that follow it, and the
services around them. TLC checks the model on small instances; TLAPS proves every
safety property of the passing runs for every value of the constants.

All paths below are relative to `src/`, the root of the repository's JavaScript
being `src/src/`.

## 1. The system

A Node process (`server/start.js`) serves a builder API and a web client. A
user's message becomes a turn of an agent engine that edits the project's tree,
runs commands in the project's sandbox, verifies, heals, snapshots and previews
the result. Everything inside a process is single-threaded JavaScript: what
runs between two `await`s is atomic, and everything else interleaves there.
Several processes may share the control files on disk.

### Inventory

| Component | State it keeps | Operations | Interacts with | Hard behaviour |
|---|---|---|---|---|
| SandboxManager (`sandbox/sandbox-manager.js`) | the Map of boundary records in LRU order, `inflight` counts, a keyed mutex | `acquire`, `exec`, `release`, eviction, `updateEgress` | container backend, every caller of `exec` | eviction, auto-release and late releases against live runs; serialisation per project |
| Container backend (`sandbox/container-backend.js`), startup reap | containers in the runtime, `launchedNames` | `runOneShot`, `startService`, `remove`, `reapOrphans` | the runtime's CLI | a killed CLI is not a killed container; sweeps race launches; restarts |
| PersistenceStore (`persistence/persistence-store.js`) | pending write per project with its kind and timer | `persist`, `persistPartial`, `flush`, `deleteProjectTree` | the tree on disk | coalescing of two kinds, failing writes, crashes |
| SnapshotStore (`persistence/snapshot-store.js`) | a git repository in the tree, a registry outside it | `commitSnapshot`, `restore`, `resume`, `deleteSnapshots` | the same tree | repository and registry must agree through failures and crashes |
| RetentionService (`ops/retention.js`) | none | `deleteProject`, `deleteAccount` | all stores | half-done deletions, resurrection |
| Project origins (`project/project-origins.js`) | none | blank, template, import, fork | snapshots of another project | a fork reads by restoring |
| ContainerDevServer (`project/container-dev-server.js`) | a record per project, the port pool, teardowns | `start`, `launch`, `checkLiveness`, `stop` | backend, `onExit` callback | a stop during any await; ports that are given back twice or never |
| PreviewController (`project/preview-controller.js`), preview pane of the page | handle and served URL per project, restart counter; what the pane shows | `publish`, `start`, `restart`, `notifyExit`, poll, result frames | dev server, event stream | callbacks about servers that were replaced; answers that overtake frames |
| ProjectRegistry (`project/project-registry.js`) | `projects.json` per owner, `index.json`, lock directories | `register`, `unregister`, `get`, `resolver` | other processes | stale locks and their theft, read-modify-write, crashes |
| ProjectManager (`project/project-manager.js`) | none | `createProject`, `runGeneration` | registry, quotas, sandbox | quota checked outside the lock, rollback of a creation |
| Builder server (`server/builder-server.js`) | sessions, the running turn, pending confirmations, connections of the event stream | `handleMessage`, `handleEvents`, `handleConfirm`, `onConfirmRequest`, the work-mode switch | everything | one turn at a time; answers, timeouts and lost connections race; no replay, only a greeting |
| Web client (`server/public/*`) | one connection, the store of the page, the token in memory and in `sessionStorage` | connect and reconnect, apply a frame, submit, decide, sign in and out, poll | builder server | frames and answers travel on different connections; a lost frame; a page that is loaded again |
| Self-healing (`project/self-healing.js`) | attempts and failure signatures of a turn | `heal`, `runGeneration`, `finalizePass` | engine, quotas, stores | give-up rules, cancellation, what is delivered |
| Refinement (`project/refinement.js`) | the originals of a batch | `applyRefinement` | edit tool, store | undo of a batch across awaits |
| Command guard (`sandbox/command-guard.js`) | none | `run` with consent | user, sandbox | two timers and their late losers |
| Package manager (`sandbox/package-manager.js`) | the manifest, the dependencies | `install` | guard, sandbox | rollback across an await |
| Build, deploy (`project/build-service.js`, `container-build.js`, `self-hosted-deploy.js`, `mobile-build-service.js`) | artifacts, releases, the live link | `build`, `deploy`, prune | sandbox, disk | a late success after a timeout, pruning what is served |
| Multi-target (`project/multi-target.js`) | last good shared version | `propagateShared`, `buildTargets` | targets | two propagations and a rollback |
| Database service (`sandbox/database-service.js`) | records of databases and schema versions | `provision`, `migrate`, teardown | sandbox | a command killed for its time that had its effect |
| Egress plane (`sandbox/filtering-container-backend.js`) | the proxy, networks, promises of both | `ensureProxy`, `ensureNetwork`, `run` | runtime | single flight, a proxy that dies, networks left behind |
| Runtime composition (`server/compose-runtime.js`) | who uses a sandbox and since when | `trackSandboxUsage`, sweeps | quotas, sandbox manager | an idle sweep against a new use |
| Quotas (`ops/quota-manager.js`) | rate windows, usage, failed builds | `checkRate`, `checkQuota`, `observeUsage` | registry, sandboxes | check then act, windows |
| Login, sessions, share links (`auth/*`) | login states, rotations, revocations, links, an issuer's keys | `beginLogin`, `completeLogin`, `issue`, `verify`, `rotate`, `revoke`, `share`, `access` | server, issuer | reuse detection, overlapping callbacks, stale keys in an outage |
| Connectors, secrets (`connectors/*`, `secrets/*`) | bindings, secrets, steering, allowlist | `addConnector`, `removeConnector`, `deployTo` | egress, sandbox env | four stores in step, writes that throw |
| Memory store (`memory/store.js`) | entries under caps | `addAuto`, `addUser`, `edit`, `prune` | engine | eviction by summary |
| Skills (`skills/library.js`) | a directory per skill | `createUserSkill`, `importSkill`, `editUserSkill`, `deleteUserSkill` | engine | names that make the same directory |
| Export, audit (`portability/*`) | the prior result of an audit | `exportProject`, `audit` | tree, secrets | carrying findings over; clean-up of a failed export |
| Presentation stores (`presentation/*`) | one settings file for theme and experience | `select`, `commit` | tabs | two writers of one file; late answers |
| Observability, model records, engine adapter, scripts | values and sinks | | | none that a unit test cannot reach |

`PROJECT.json` lists every component with its status, and the hazards of the
code line by line with the properties that watch them.

## 2. The modules

| Module | Models | Used by |
|---|---|---|
| `SandboxManager` | sandbox manager, container backend, restart | `SandboxManagerProofs` |
| `SerialRuns` | the abstract promise of `exec()`: a line per project | refinement target of `SandboxManager` |
| `WorkingTree` | the tree that two stores share | the next two |
| `PersistenceStore` | the debounced writes | `ProjectStorage` |
| `SnapshotStore` | snapshots and their registry | `ProjectStorage` |
| `ProjectStorage` | both stores over one tree, the agent's edits, a fork, the deletion, crashes | `MCProjectStorage`, `ProjectStorageProofs` |
| `PreviewService` | dev servers, liveness checks, the preview controller, the runtime's service containers | `MCPreviewService`, `PreviewServiceProofs` |
| `RegistryLock` | `withLock`, file-system call by file-system call | `ProjectRegistry` |
| `ProjectRegistry` | registry files, creation, deletion, lookup, by several processes | `MCProjectRegistry`, `ProjectRegistryProofs` |
| `EventLinks` | connections of the event stream and the frames on them | `BuilderSession`, `WebClient` |
| `BuilderSession` | a session of the builder server: turn, confirmations, work mode, greeting | `LiveSession` |
| `WebClient` | a tab: stream client, store, prompt and confirmation cards | `LiveSession` |
| `LiveSession` | the two together with their network, faults and fairness | `LiveSessionProofs` |
| `AccessControl`, `JwksKeyStore`, `SignIn` | login, sessions and share links; the keys of an issuer; a tab's login | `PlatformServices` |
| `MemoryStore`, `SkillLibrary`, `PresentationSettings`, `AccountDeletion`, `RateWindows` | what is kept per account, its deletion and its limits | `PlatformServices` |
| `EgressPlane`, `SandboxUsage`, `CommandGuard`, `SelfHealing`, `RefinementBatch` | what happens in and around a sandbox during a turn | `PlatformServices` |
| `ConnectorVault`, `PackageManager`, `DatabaseService`, `MultiTarget`, `Publishing`, `Portability`, `OriginPopulation`, `PreviewPane` | operations on a project | `PlatformServices` |
| `PlatformServices` | the services side by side, one of them running | `MCPlatformServices`, `PlatformServicesProofs` |
| `AccountServicesProofs` | proofs of the nine parts in `IdentityNext` and `AccountNext` | `PlatformServicesProofs` |

Common conventions. An action is what runs between two awaits (sandbox,
preview), one synchronous call with its failure and crash points (storage), or
one call of the file system (registry, where other *processes* interleave).
Identities that the code compares (`sandboxes.get(id)?.record === record`,
`record.portHeld`, an inode) are kept as model values; an identity may be used
again once nothing refers to it. Variables marked *auxiliary* in a module's
declarations record history for a property and guard nothing, with the
exception of the named bounds.

### SandboxManager

`sandboxes` and `older` are the Map and its insertion order (`older[p]` is the
set of entries before `p`, so that "least recently used" is "no older one").
`acquire` inserts and evicts in the same step, `execInner` up to its first
await is `ExecStart` (or `ExecThrows`, when `toContainerCommand` throws at line
440, after the count at 432), the container's life is `Launch`, `RunOver`,
`RunTimesOut`, the `finally` block is `ExecReturns`/`ExecAutoReleases`, and
`release` is three steps separated by its awaits. The startup sweep
(`runStartupReap`, `reapAllOrphans`) is `SweepLists` and one `SweepRemoves` per
container, and goes on beside the first calls after a start; of what it listed
it removes only what `launchedNames` does not have. `backend.remove(label)`
touches nothing in the model because it does nothing in the code: no container
has the label as its name. `Reapable` leaves out `launchedNames`, so, contrary
to the comment at 572-574, a release never removes a container that this
process launched, running or timed out; such a container is removed by its own
exit or after the next start of the process.

### PersistenceStore, SnapshotStore, ProjectStorage

A call of PersistenceStore may try the pending write more than once and every
try may fail half way, so a call is written as a function from a state of the
store to the *set* of states it may leave (`AfterPersist`, `AfterPersistPartial`).
`asked` remembers what the accepted calls want each file to be. SnapshotStore
is synchronous git: `CommitSnapshot` is the whole call, `CommitFails` and
`CommitRollsBack` are its two error paths, `RollbackFails` the case in which git
also refuses the rollback (every git call there has `allowFail`), and the
`Crash...` actions stop it anywhere. Files that the tree's own `.gitignore`
hides are not in a commit and survive `reset --hard` and `clean -fd`, which is
why a restore need not reproduce the tree exactly (the claim at line 30 of
snapshot-store.js); `CheckedOut` keeps them.

### PreviewService

A record has a phase, a port and whether it still holds it. A launch, a
liveness check and a teardown are tasks at one of their awaits; `MarkFailed`,
`LogsRead`, `FailureReported` are the three parts of `markFailed`. `Remove` is
`rm -f`: it removes what exists, it cannot remove what a killed
`docker run -d` will make later (`box = "late"`), and it may fail; the
auxiliary `astray` names the containers that escaped it. The controller's
`devServer` and `served` hold the record whose URL was handed out. `Stop` has
no caller in production; the model includes it because the component is
written to be stopped at any moment.

### RegistryLock, ProjectRegistry

Every `mkdirSync`, second `statSync`, `rmSync`, read and write is a step, and
any process may die between two. The first `statSync` is one step with the
failing `mkdirSync`: if the directory changes between the two, the process sees
what it would have seen had it come later. `old` is staleness (30 s), `clash` notes that a
stealer removed another directory than the one it looked at. An id belongs to
one owner and is minted once (`idFactory`), so a file of records is a set of
ids. A `get` remembers in `sure` whether its project was registered all the
time.

### EventLinks, BuilderSession, WebClient, LiveSession

A connection of `GET /events` is a slot of a client: `subs` is `sseClients` on
the server, `up` the connections that still carry data, `wire` the frames on
them. A tab that reconnects before the server has noticed the loss of its old
connection has both slots. There is no replay and no Last-Event-ID: what
`handleEvents` writes at once to a new connection (`turn_state`, the pending
`confirm_request`s) is the frame `hello`, and it is all a tab ever learns of
what it missed.

`BuilderSession` has one action per piece of a handler between two awaits. A
settled confirmation wakes the handler that waits for it in a microtask, before
anything else of this session can run, so `Settle` is the answer *and* what the
asker does with it. A confirmation is settled by an answer, its timer, or the
loss of the last connection (`Drop`); a restart forgets session and questions.
`WebClient` is `sse.js` (one generation of connection, attempts up to the cap),
the part of the reducer that a turn and its confirmations touch, and the two
calls `POST /message` and `POST /confirm` with answers that may be lost.
`LiveSession` joins them. Its turns are started by callers of the API that name
the project, because the page's own call does not: builder.js:180 posts
`{ text }`, and builder-server.js:2790-2791 answers 400 to it (`prompt` then
becomes `malformed`).

### PlatformServices and its parts

The services below share no variable with each other. A behaviour of all of
them side by side violates an invariant of one part only if that part alone
does, so `PlatformServices` chooses one `part` at the start, lets it run and
keeps the others in an initial state: the reachable states are the sum of the
parts' and not their product, and nothing is lost for invariants of a part.
Each module has `...Init`, one action per operation, `...Next`, a type invariant
and its property; the properties are grouped by what they mean to a user.
`AccessControl` is two parts, `access` and `links`. `Of(name, P)` looks at what
is said of a part only while it runs.

| Part | State and what interleaves | Property |
|---|---|---|
| `AccessControl` | login states with overlapping callbacks, the cap on remembered ones and restarts that a configured key survives, token rotations with reuse, revocation and expiry, share links over their file | `StateIsSpentOnce`, `NoWayBack`, `WithdrawnLinkDies` |
| `JwksKeyStore` | overlapping fetches of an issuer's keys, answers up to the timeout late, stale keys in an outage, the negative cache | `WithdrawnKeyDies` |
| `SignIn` | a tab's token in memory, in a storage that may refuse a write or a removal, and in the store, its expiry timer, requests answered late with a 401, a reload | `SignInIsMirrored` |
| `MemoryStore` | entries as sets of facts, caps, summary and eviction, edits, modes | `MemoryKeepsFacts` |
| `SkillLibrary` | a directory per skill, names with the same slug (also `user/a` and `user-a`), stocked names, a removal of all that fails half-way | `SkillsAreKept` |
| `PresentationSettings` | one settings file, two writers, frames and answers to two tabs | `SettingsAreShown` |
| `AccountDeletion` | a deletion that may throw at any removal, stores that are missing or return `{ok: false}`, lenient and strict deployments, projects created and things stored meanwhile, a second call | `DeletionCanBeRetried` |
| `RateWindows` | windows per account and operation, quotas of projects and sandboxes, a clock that may stand; the calls let through are remembered with their time | `LimitsHold` |
| `EgressPlane` | two runs that establish proxy and network in single flight, a proxy that dies at any moment | `RunsAreContained`, `CachedPlaneWorks` |
| `SandboxUsage` | runs, sweeps of a quota check, releases in later microtasks, teardowns that end under later uses | `UsageIsCounted` |
| `CommandGuard` | classification and consent, each racing a timer; answers that come too late | `OnlyConsentedRuns` |
| `SelfHealing` | attempts, failure signatures, cancellation, delivery, the abuse count | `HealingIsHonest` |
| `RefinementBatch` | edits one await after another, their undo, the user's edits meanwhile | `BatchIsAtomic` |
| `ConnectorVault` | secrets, binding document, steering manifest and allowlist; each write may throw | `SecretsFollowBindings` |
| `PackageManager` | two installs over one manifest with their rollback, the owner's edits | `InstallIsWhole` |
| `DatabaseService` | provision, probe, teardown, migrations that are killed after they took effect | `DatabaseIsKnown` |
| `MultiTarget` | two propagations, target by target, with their rollback | `OneVersionAtRest` |
| `Publishing` | builds into one artifact, `buildTargets` with the mobile build, staging, swap, prune, a deploy out of its time, a process that dies | `PublishedIsServed` |
| `Portability`, audit | a full scan and chains of rescans of the files said to be changed | `AuditIsWhole` |
| `Portability`, export | substitution of values that contain one another, destinations that are there already, failures | `ExportIsClean` |
| `OriginPopulation` | creation, population, flush and their rollback against a deletion at any await | `OriginIsWhole` |
| `PreviewPane` | publication, restarts, frames and polls that overtake each other, the pane | `PaneIsHonest` |

Texts are sets of what matters in them (a secret value, a signal of lock-in, a
fact of the memory), times are ages in ticks cut off where the code no longer
tells them apart, and a version of a file is a number. Synchronous operations
(export, audit, the memory store) are one step with everything that can fail in
them.

## 3. What the runs check

All runs explore every reachable state of the instance; deadlock is checked in
all but `services` and `deploy_late` (see the bounds).

| Run | Instance | Distinct states | Shows |
|---|---|---|---|
| `sandbox_boundaries` | 3 projects, 1 call, capacity 1, 1 scheduled eviction release per project, 2 records, 1 name, no startup sweep | 427 844 | `RunIsCounted`, `MapBounded`, `NoRecordLeak`, `EvictionSparesRuns` |
| `sandbox_order` | 1 project, 2 calls, 1 explicit release, valid and malformed commands, 2 records, 2 names, startup sweeps; fair | 284 720 | `RunsSerialised`, `RunHasContainer`, `EveryCallReturns`, `RefinesFairSerialRuns` |
| `storage` | 2 files of which one ignored, 2 contents, 2 commits | 166 682 | `NoWriteIsLost`, `DeletedStaysDeleted`, `RecordedIsReadable`, `HeadIsRecorded`, `SnapshotsSurvive` |
| `preview` | 2 projects, 2 ports, 2 records, 2 liveness checks, cap 1 | 953 308 | `OneUrlEach`, `NoPortIsLost`, `StoppedIsGone`, `HandleIsHonest`, `StopIsFinal` |
| `registry` | 2 processes, 1 owner, 3 projects, 4 directory identities, quota 1, 1 death | 827 520 | `Exclusive`, `NoEntryIsLost`, `IndexKnowsCreated`, `GetFindsRegistered`, `QuotaNearlyHolds` |
| `session` | 1 tab with two connections, 2 confirmations, 2 modes, 2 frames per connection, 2 activity frames, 1 fault, 1 call under way; fair | 879 469 | `GateOpensAgain`, `PendingIsShown`, `ActivityIsShown`, `OnlyApprovedSwitch`, `EveryTurnEnds` |
| `services` | the 23 parts, two of everything that competes (sizes in `PlatformServices.cfg`) | 771 296 | `AccessIsCurrent`, `SandboxesAreContained`, `AllOrNothing`, `ReportsAreTrue`, `NothingIsForgotten` |

The invariants of `services` are conjunctions:

* `AccessIsCurrent`: `StateIsSpentOnce`, `NoWayBack`, `WithdrawnLinkDies`,
  `WithdrawnKeyDies`, `SignInIsMirrored`;
* `NothingIsForgotten`: `MemoryKeepsFacts`, `SkillsAreKept`,
  `DeletionCanBeRetried`;
* `SandboxesAreContained`: `RunsAreContained`, `CachedPlaneWorks`,
  `UsageIsCounted`, `OnlyConsentedRuns`, `LimitsHold`;
* `AllOrNothing`: `SecretsFollowBindings`, `InstallIsWhole`, `DatabaseIsKnown`,
  `OneVersionAtRest`, `BatchIsAtomic`, `OriginIsWhole`;
* `ReportsAreTrue`: `PublishedIsServed`, `HealingIsHonest`, `AuditIsWhole`,
  `ExportIsClean`, `PaneIsHonest`, `SettingsAreShown`.

Every part also has at least one mutated operator beside the one it replaces
(a comment names it *Mutant*); with any of these in place of the original,
the run of that part alone violates its property. `PROJECT.json` names one per
conjunction.

Each run also checks its module's type invariant (the sandbox's in
`sandbox_boundaries`).

Five runs show that the code does not do what a text of the repository says;
`PROJECT.json` quotes the lines under `findings`:

* `storage_fork`: a fork resets the tree of the project it copies from.
* `preview_cap`: restarts whose failure comes after `start()` returned are
  never counted, so the cap of three is not reached.
* `registry_steal`: two processes that looked twice at the same stale lock can
  both end up inside.
* `registry_partial`: a creation fails and its record stays.
* `deploy_late`: a deploy whose time is found exceeded after the swap is
  reported as failed, and visitors are served the new release.

### Exceptions that the properties name

Six more times the code does what a text of the repository denies. The property
that the behaviour concerns holds of everything else: it excepts this behaviour
by name, and its comment quotes the text.

| Property | What is excepted | What the repository says |
|---|---|---|
| `NoWriteIsLost` | a full write whose flush failed twice is merged with the partial one that comes, and the files it left out are not pruned any more (`Blended`) | persistence-store.js:280-283 "MUST NOT silently merge into one another", 308 "never blend pruning and non-pruning semantics into a single write" |
| `StopIsFinal` | a report of an exit whose removal of the container had begun before the stop | container-dev-server.js:651 "reporting an onExit for a deliberate stop would offer a bogus restart" |
| `UsageIsCounted` | a run that begins in the awaits of a release under way loses its boundary (`undermined`) | compose-runtime.js:723-724 "Reclamation must never tear down a boundary that is running a command" |
| `OneVersionAtRest` | a propagation that overlapped with another and fails brings back the version from before both (`overlapped`); all targets still agree | multi-target.js:12-14 "the LAST successfully propagated `shared` version is retained in ALL targets", requirement 16.3 |
| `SkillsAreKept` | `user/a` and `user-a`, or `a b` and `a-b`, have one directory, and the later skill replaces the earlier (`overwritten`) | library.js:267 "its dir is free", requirement 13.6 |
| `DeletionCanBeRetried` | a store that returns `{ok: false}` is recorded as deleted and the deletion confirmed (`failing`); a store that is not injected is skipped, except in strict mode | retention.js:28 "no owned data is left behind", 201 and 266 "never overstates completeness" |

`ReportsAreTrue` excepts the content of a late deploy (`late`), which
`deploy_late` shows; and `SignInIsMirrored` a record whose removal the browser's
storage refused (`lingers`), of which token-store.js:202 says that "no field
survives in either sink". `StateIsSpentOnce` counts the sessions of one process:
with `OIDC_STATE_SIGNING_KEY` a state that was spent before a restart is taken
once more after it, since the Map of consumed states is lost
(login-flow.js:170, 253, 358-361); the first session has then ended.

### What else the models met

Behaviour that the models contain and that a maintainer should know; no text of
the repository that we know of denies it.

* A prompt that is answered with 202 ends the page's `submitInFlight` at once
  (`SubmitEnds`), while the turn runs on; the confirmation card of a request
  that was settled elsewhere stays until its timeout frame, which a broken
  connection may have swallowed. Hence `GateOpensAgain` and `PendingIsShown` are
  stated in the direction that holds.
* `theme.js` and `workspace.js` apply an answer that arrives after a newer
  frame (`overtaken`).
* A 401 for a request that was sent with an old token clears the newer one, and
  the expiry timer of a failed callback stays armed.
* After a restart of a preview its `served.url` stays empty, so the next poll
  shows "loading" and takes the offer of a restart away.
* `checkRate` is asked for build, deploy and settings operations (builder-server.js
  1958, 2072, 2344, 2378) for which `rateConfig` (quota-manager.js 89-95) has no
  limit; turns that are admitted together acquire later and can exceed the quota
  of sandboxes.
* A failed export removes files of the caller that have the name of one it was
  to write (export.js 461); `handleExport` passes no secrets to substitute.
* The abuse mitigation needs more failed builds (5) than a healing has attempts
  (3) by default.
* The undo of a refinement overwrites what the user wrote into the same file
  meanwhile; a failing install writes back the manifest it read, also over the
  entry of another that has succeeded since (package-manager.js:342).
* A connector that is added again and fails loses the secrets and the binding it
  had; a removal that throws half-way leaves a binding without secrets.
* A default teardown of a database whose command fails is reported as torn down.
* Networks cached while the proxy was being replaced can be left unattached
  (`raced`).
* The deletion of an account misses projects that are created while it runs.
* A flush that fails during population leaves part of the tree of a project that
  is not registered.

### Bounds, and why they are enough

* `sandbox_boundaries`: three projects and a capacity of one make an eviction
  choose between two victims, one of which is busy; one call suffices for a
  busy entry, and the evicted project's own scheduled release lands after a
  later acquire of the same project. Two record identities are a record and its
  successor. `sandbox_order` has the second call for the mutex and an explicit
  release; three projects with two calls exceed what is worth waiting for.
* `MaxLeaks` bounds how far malformed commands raise a count. With them entries
  may stay for good: `NoRecordLeak` is checked with valid commands only and is
  not claimed beyond. `MapBounded` speaks of every insertion: what it leaves
  above the capacity is busy. Between insertions the code removes nothing, so
  entries that have become idle stay above it until the next one.
* `StartupReap` is on in `sandbox_order`, where a call can be under way while
  the sweep lists and removes, and off in `sandbox_boundaries`, which has
  nothing to say of containers.
* `storage`: two files make a write partial, one of them ignored by git; two
  commits make a parent and a rollback to it. A commit identity is used again
  after a deletion only, where the code starts a new repository.
* `preview`: two records for two projects let a project replace its failed
  record while the other holds or wants the port, and two checks may fail the
  same record. With `RestartCap` 1 the counter reaches its cap within the
  instance; `tries` is not counted there (`MaxTries` 0) and is in `preview_cap`,
  which has the real cap of 3.
* `registry`: two processes and one death give a stale lock and a thief; two
  thieves need a third party to have died, which is a process that starts
  anew. Three projects exceed the quota of one by more than a race can. Four
  identities are the two locks' and one each for what two processes saw.

* `session`: one tab has two connections when it reconnects early, so overlap,
  a late drop and a broadcast to both happen with one client; two requests let
  a question of the agent and one of a mode switch wait at once. `MaxWire` (2)
  bounds frames on their way and disables the server's steps when a wire is
  full, `MaxItems` (2) activity frames, the least that can be out of order, `MaxFaults` cuts and restarts, `MaxCalls`
  calls under way, `MaxAsks` questions of one turn. `MaxAttempts` 1 is the cap
  on reconnects, reached within the instance.
* `services`: two callers, runs, tabs, jobs or calls wherever two can meet, and
  the least limit that can be both respected and exceeded; `Stamp` has three
  releases where two are kept, `Fact` four facts where two entries are kept,
  `CapEntries`, `CapBytes` and `KeepRecent` are small enough to evict, and a
  summary is summarised again. `MCDeployments` has a strict and a lenient
  deployment with the skills' store only and a strict one with all; `MCBase` has
  three names of which `user c`, `user-c` and `user/c` share a directory.
  Bounds that are not of the code: `MaxConsumed`,
  `MaxRotation`, `MaxBroken`, `MaxProxy`, `MaxRuns`, `MaxTeardowns`, `MaxEdit`,
  `MaxEdits`, `MaxSchema`, `MaxEntries`, `MaxFrames`, `MaxChanges`, `MaxClock`,
  `MaxVersion`, `MaxTemp`, `MaxNews`. `CHECK_DEADLOCK FALSE`: a part whose
  history is used up stops.

### Fairness

`sandbox_order` and `session` assume some. In `sandbox_order`, continuations of
the event loop that are ready run eventually, and every command of the runtime has a wall-clock limit
(`runCli` passes `timeout` and kills the CLI), so a stage of a call or a release
that can end does end: weak fairness on the start, the launch, the end of a run
(by itself or by its timeout), the return, and on each release. Nothing is
assumed there of callers, of containers nobody waits for, or of restarts. In `session` a timer that
`onConfirmRequest` armed fires (builder-server.js sets it with every question),
the engine ends a turn that waits for nobody, and a browser reads its connection
or notices that it is broken. The first two are one condition, `TurnGoesOn`, since
never both can happen; it is strong fairness because the bound on a wire, not the
code, disables it now and then. Nothing is assumed of
users, connections or reconnects. A liveness
property is not stated for a failed persist: the code has no timer after one,
and the write waits for the next caller.

## 4. What is proved

The proofs hold for every set of projects, calls, processes, tabs, files, owners
and names, from the assumptions on constants that the modules state by name and
TLC evaluates. Most say that null values are not elements of the sets beside
them, that the kinds of release slots or tasks are disjoint and that limits are
natural numbers, positive where the code divides or keeps at least one. The
others are

* finiteness of what is counted: the calls of a process (`ExecAssumption`),
  the processes (`ProcAssumption`), the accounts (`RateAssumption`), the facts
  of a memory (`MemoryAssumption`, which also has the cap on entries no larger
  than the bound on the document);
* how owners and locks relate (`RegistryAssumption`);
* `SavesAssumption`: what is saved as a snapshot is a tree;
* `ExportAssumption`: a value that contains another is longer, and a reference
  or the rest of a value is not itself one of the literals; `AuditAssumption`:
  a file is a source or a template, and only sources are excluded by name;
* `PresentationAssumption`: a connection has room for the two frames that a
  selection writes at once (a bound of the model);
* `PublishingAssumption`: at least one release is kept.

Each module has an inductive invariant, three facts about it (it holds
initially, every action preserves it, it implies what the runs check) and, at
the end, the theorems. What the invariant adds to the properties is written out
at the head of the module, one named conjunct per idea.

**SandboxManagerProofs.** `RunsSerialised`, `RunIsCounted` and
`RunHasContainer` are not inductive alone. The invariant `IInv` adds that

* a call past the mutex is the *head* of its project's queue (`HeadHolds`):
  heads of one queue are equal, hence runs of one project do not overlap, also
  when a throwing call leaves the line without having been inside;
* a call that is not idle names a project, and a run names a record
  (`CallsHaveProject`, `RunsHaveRecord`): with serialisation, only the run
  itself ever lowers the count of its record;
* a running call's container is among `launchedNames` (`NamesAreRunning`): what
  a sweep removes is disjoint from that set.

From `IInv` follow `TypeCorrect`, `Serialised`, `Counted`, `ReapSparesRuns`;
`EvictionSafe` is an action property (a victim's count is zero, a live run's is
not) and `Refinement` maps every step to a step of `SerialRuns` or to a stutter
(`Acquire`, `Release`, the container's steps) with `line` the queue and
`inside` the calls that hold the mutex.

The three remaining invariants of the Map have their own additions.
`NothingLeaks` has the hypothesis `"malformed" \notin Command`, as the run that
checks it has: with a malformed command `toContainerCommand` throws after the
count was raised, the count stays, and the entry with it. Under it a count is
that of exactly one run (`CountIsOfARun`), so that an entry has a holder, a
release under way or the run that brought it in and will release it (`Kept`).
`MapIsBounded`, with any commands: an eviction with enough idle entries frees as
many as it needs, being the oldest ones of the Map's order, or else all of them
(`RoomIsMade`), so that an insertion leaves nothing but busy entries beside the
new one above the capacity.

**ProjectStorageProofs.** `NoWriteIsLost` and its like speak of a finished
write; the invariant says what the store *owes* in between (`Due`): a file an
accepted call asked for is on disk with nothing pending against it, or pending
with that content, or on disk and out of the reach of a write that is partial,
since only a full one prunes. All that `AfterPersist` may leave keeps it, also
when the first try of a coalesced write fails half-way (`PersistNowKeeps` and
the lemmas around it). For the snapshots it adds that HEAD names a commit that exists
(`HeadExists`): a rollback or a crash between git and the registry can then
only leave a commit that is not recorded, never a record without its commit.

**PreviewServiceProofs.** Ports: what a record holds is taken, by one record only, and what
is taken is held (`HeldIsTaken`, `HeldOnce`, `TakenIsHeld`), and whoever holds
one is live, failing or being stopped (`HeldForReason`): no await in `start`,
`markFailed` or `stop` loses one or gives one back twice. Stops: a task is about
a record whose phase allows it (`TasksFit`, `PhasesFit`), a live record is its
project's (`LiveIsCurrent`), one that is torn down has neither port nor launch
(`TornDown`). `StopsAreFinal` is the action property: no step of a launch, a
check or a callback brings a stopped record back, and none reports it as failed
but for the window named in section 3.

**LiveSessionProofs.** A tab only knows what was written to its connection, so
every property of what it *shows* needs one of what is *under way* to it: the
last frame on the wire that sets the gate says whether a turn runs
(`GateIsComing`), a pending request is shown or in a frame (`CardsAreComing`)
and no frame or answer that could take its card away is under way
(`CardsAreSafe`), activity is in order and complete from the point where the
tab connected (`WireInOrder`, `SeenInOrder`, `ActivityIsComing`). `UpIsRead` ties
them together: a connection that carries data is the one its tab reads. All of
it holds for any number of tabs, requests and modes, and any bound on a wire.
`SwitchesAreApproved` is the action property of the work mode.

**ProjectRegistryProofs.** First the lock alone (`LockExcludes`, about
`LockSpec`): what a stealer saw was stale (`SawStale`), and whoever is inside
has the directory it made, not stale (`HoldsOwn`). A steal that does not clash
removes a stale directory, so nobody's. Then the registry, whose `IInv` is a
conjunction of

* the lock's invariant;
* the files: records lie with their owner (`Owned`), `NoEntryIsLost` and
  `IndexKnowsCreated`;
* for each process (`ProcInv`): its place in its call agrees with its place in
  the lock (`Engaged`, `Linked`), what it read under the lock is still what the
  file holds (`ReadIsFresh`), and its project is where its stage says
  (`Placed`);
* for two processes (`Apart`): they do not create the same project, and none
  deletes what another has yet to save.

The heart is `ReadIsFresh`: by exclusion the file does not change between a
process's read and its write, so a read-modify-write adds or removes exactly
one id. `QuotaIsNearlyKept` counts: the projects of an owner and the
creations that were let through and have not registered (`Places`) are at most
the quota and one for every other process, because `checkQuota` is asked outside
the lock. All theorems about files are conditional on `~clash`, which
`registry_steal` shows to be necessary, and on the assumption in `Ages` that no
*living* process stays inside a lock for 30 seconds.

**AccountServicesProofs, PlatformServicesProofs.** Each of the 23 parts has an
invariant (`AccessInv` ... `PaneInv`) with lemmas that it starts, that a step of
the part keeps it and that it gives what is said of the part. `IInv` says of the
part that runs that its invariant holds; `AllStep` picks the part, and the six
invariants of the `services` run follow. Where the property is inductive as it
stands (connectors, sign-in, links, commands) the invariant is little more than
it. The others need to know more:

* login states: a state is used up by the sessions granted *and* the callbacks
  waiting, and one that can still be taken has no use (`StatesAreSpent`), as long
  as the cap on remembered states has not thrown it out;
* keys: not only the cache but every answer under way is no older than its age
  says (`KeysAreHeard`), so that installing a late answer keeps the limit;
* memory: a summary tells all that its entries told. The lemmas follow the
  facts through selection, summary and eviction and back into the order of the
  document, for any caps;
* settings: for each tab the last frame that tells the experience decides what
  it will show, and what overtook it is known to have (`StreamInv`,
  `AnswerInv`);
* windows: the calls let through since the start of a window are counted by it,
  those of the stretch before are at most the limit (`WindowOk`), so that a
  stretch over two windows has at most twice the limit; this needs sets of calls
  and their cardinalities;
* account deletion: what is not on the list any more is not registered, unless
  it came later (`DeletionGoesOn`), and what a confirmed one left is what a store
  kept or was not asked for;
* skills: a directory holds a skill whose name makes it (`DirsFit`), so that a
  name that is overwritten shares its directory with another;
* usage: a teardown that is under way with a run in flight is of a boundary used
  since it began (`UsageInv`); shared code: a call that is alone has found the
  last good version (`SharedInv`); installs: what there was when none was under
  way is in everything that those under way have read (`SettledAreRead`);
* an install that no other call or edit mixed with still finds its entry in the
  manifest and the outputs it began with (`InstallsAreAlone`); during a batch no
  file goes back, and one that has moved was edited by the batch or by the user
  (`EditsAreKnown`); a creation has an entry until it ends, unless the user
  deletes it, and a whole tree only then (`CreationIsKnown`);
* publishing: what is staged, swapped and pruned by each job (`WorkInv`) and
  what the site shows (`SiteInv`), with a cardinality for the releases;
* audit: restricted to files nobody has edited since, the carried findings are
  those of a scan (`AuditInv`); a rescan of at least the edited files is then a
  scan of everything (`RescanIsWhole`);
* egress: at most one run establishes the proxy, and while it does no network
  is taken for connected (`PlaneIsInOrder`); a promise in the cache belongs to a
  run on that network that is establishing it or has (`PromisesAreKept`).

Only model-checked, because out of the prover's reach: the liveness of `exec()`
(`EveryCallReturns`) and of a turn (`EveryTurnEnds`), and the fair half of the
refinement (`RefinesFairSerialRuns`), whose step-by-step half is the theorem
`Refinement`. The five violations are TLC's by nature.

## 5. Not modelled, and why

* Data: contents beyond equality, names, commands, formatting, logs, the text
  and binary codec, limits of cgroups, which hosts an allowlist admits, the
  patterns that classify a command, palettes and layouts.
* `updateEgress`, `get`, the choice of a dev command, `markBuilding`, the mobile
  preview and the selection of a preview target: no state that another
  actor could find half changed.
* Cryptography: signatures, claims, envelopes. A call with a wrong one fails.
* Views, settings pages and assets of the web client: each calls one endpoint
  and shows the answer. Observability, the audit log, the model records, the
  engine's adapter, vendoring and scripts: sinks, pure functions of one value,
  or tools of the developers.
* `scaffoldBackend`, `scaffoldMobile` (one call of a tool, no state here),
  `deployTo` (one call of the guard).
* Failures outside the code's reach: a disk that lies, a git that corrupts.
  The running turn that persists again after a deletion is in `ProjectStorage`
  as a caller that writes to a deleted project (`Revived`).
* A holder of the registry's lock that is suspended for longer than
  `LOCK_STALE_MS` and comes back (hazard at project-registry.js:178).
* Between the parts of `PlatformServices`: that an install, an export and a
  deploy of one project meet in one tree. Each part has an actor that edits the
  tree meanwhile in their place.

## 6. Plan

1. Sandbox boundaries (`SandboxManager`, `SerialRuns`), proofs of safety and
   refinement. *Done.*
2. Storage (`WorkingTree`, `PersistenceStore`, `SnapshotStore`,
   `ProjectStorage`), proofs of all its safety. *Done.*
3. Preview (`PreviewService`), proofs of all its safety. *Done.*
4. Registry (`RegistryLock`, `ProjectRegistry`), proofs of all its safety. *Done.*
5. Session and tabs (`EventLinks`, `BuilderSession`, `WebClient`,
   `LiveSession`), proofs of all its safety. *Done.*
6. Services (`PlatformServices` and its 23 parts), proofs of all its safety.
   *Done.*
7. Left: an abstract session that `LiveSession` implements (what one tab would
   see with a perfect connection), an abstract store of whole trees that
   `ProjectStorage` implements between crashes, and the hazards that have no
   property yet (`PROJECT.json`).
