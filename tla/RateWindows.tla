------------------------------ MODULE RateWindows ------------------------------
(***************************************************************************)
(* The limits of ops/quota-manager.js where the builder server asks for    *)
(* them: the fixed windows of checkRate, one per account and operation,    *)
(* and the quotas of checkQuota on projects and sandboxes, before a        *)
(* project is created and before a turn is run.  The clock may stand while *)
(* calls come in; it does not run backwards.                               *)
(***************************************************************************)
EXTENDS Naturals, FiniteSets

CONSTANTS
  Account,
  Limited,          \* operations with a limit in the configuration
  Settings,         \* operations of settingsRateGate, which have none
  RateMax, WindowMs,
  MaxTotalProjects, MaxSandboxes, MaxOwnSandboxes,
  MaxClock          \* bound: time of the model

ASSUME RateAssumption ==
  /\ {RateMax, MaxTotalProjects, MaxSandboxes, MaxOwnSandboxes, MaxClock} \subseteq Nat
  /\ WindowMs \in Nat \ {0} /\ Limited \cap Settings = {}
  /\ {"project.create", "generation.turn"} = Limited /\ IsFiniteSet(Account)

VARIABLES
  clock,
  windows,   \* account, operation -> start and count
  owned,     \* account -> projects
  inUse,     \* account -> sandboxes that are used
  turns,     \* accounts with a turn that has not run a command yet
  letThrough,   \* auxiliary: account, operation -> time and number of each call let through
  answer     \* to the last call

rateVars == <<clock, windows, owned, inUse, turns, letThrough, answer>>

Operation == Limited \cup Settings
NoWindow == [start |-> 0, count |-> 0]

RateInit ==
  /\ clock = 0 /\ windows = [k \in Account \X Limited |-> NoWindow]
  /\ owned = [a \in Account |-> 0] /\ inUse = [a \in Account |-> 0] /\ turns = {}
  /\ letThrough = [k \in Account \X Limited |-> {}] /\ answer = "none"

RateTypeOK ==
  /\ clock \in 0..MaxClock /\ answer \in {"none", "rate", "quota", "ok", "created", "failed"}
  /\ windows \in [Account \X Limited -> [start : 0..MaxClock, count : 0..RateMax]]
  /\ owned \in [Account -> Nat] /\ inUse \in [Account -> Nat]
  /\ turns \subseteq Account

-----------------------------------------------------------------------------
\* checkRate(): a window that is over is begun anew, and the first call begins
\* one.
WindowOver(k) == windows[k].count = 0 \/ clock >= windows[k].start + WindowMs

OpenWindow(k) == IF WindowOver(k) THEN [start |-> clock, count |-> 0] ELSE windows[k]

Exceeded(k) == OpenWindow(k).count >= RateMax

RateRefused(k) ==
  /\ Exceeded(k) /\ windows' = [windows EXCEPT ![k] = OpenWindow(k)] /\ answer' = "rate"
  /\ UNCHANGED letThrough

RateCounted(k) ==
  /\ ~Exceeded(k) /\ windows' = [windows EXCEPT ![k] = [OpenWindow(k) EXCEPT !.count = @ + 1]]
  /\ letThrough' = [letThrough EXCEPT ![k] = @ \cup {<<clock, Cardinality(@) + 1>>}]

SandboxesInUse == Cardinality(UNION {{a} \X (1..inUse[a]) : a \in Account})

\* checkQuota(): all sandboxes, then those of the account.
\* (Mutant: the limit itself is let through.)
OneOver(a) == SandboxesInUse <= MaxSandboxes /\ inUse[a] <= MaxOwnSandboxes
SandboxQuota(a) == SandboxesInUse < MaxSandboxes /\ inUse[a] < MaxOwnSandboxes
ProjectQuota(a) == owned[a] < MaxTotalProjects

\* handleCreateProject(): a call that the quota refuses has used up its rate.
CreateRefused(a) == RateRefused(<<a, "project.create">>) /\ UNCHANGED <<clock, owned, inUse, turns>>

CreateOverQuota(a) ==
  /\ RateCounted(<<a, "project.create">>) /\ ~(ProjectQuota(a) /\ SandboxQuota(a))
  /\ answer' = "quota" /\ UNCHANGED <<clock, owned, inUse, turns>>

CreateWithin(a) ==
  /\ RateCounted(<<a, "project.create">>) /\ ProjectQuota(a) /\ SandboxQuota(a)
  /\ \/ answer' = "created" /\ owned' = [owned EXCEPT ![a] = @ + 1]
        /\ inUse' = [inUse EXCEPT ![a] = @ + 1]
     \/ answer' = "failed" /\ UNCHANGED <<owned, inUse>>
  /\ UNCHANGED <<clock, turns>>

\* handleMessage(): a turn; its sandbox is acquired by its first command.
TurnRefused(a) ==
  RateRefused(<<a, "generation.turn">>) /\ UNCHANGED <<clock, owned, inUse, turns>>

TurnAdmitted(a) ==
  /\ RateCounted(<<a, "generation.turn">>)
  /\ IF SandboxQuota(a) THEN answer' = "ok" /\ turns' = turns \cup {a}
     ELSE answer' = "quota" /\ UNCHANGED turns
  /\ UNCHANGED <<clock, owned, inUse>>

TurnAcquires(a) ==
  /\ a \in turns /\ turns' = turns \ {a} /\ answer' = "none" /\ inUse[a] < owned[a]
  /\ inUse' = [inUse EXCEPT ![a] = @ + 1] /\ UNCHANGED <<clock, windows, owned, letThrough>>

\* settingsRateGate(): an operation without a limit is let through.
SettingsCall(a, op) ==
  op \in Settings /\ answer' = "ok" /\ UNCHANGED <<clock, windows, owned, inUse, turns, letThrough>>

SandboxIdles(a) ==
  /\ inUse[a] > 0 /\ inUse' = [inUse EXCEPT ![a] = @ - 1]
  /\ UNCHANGED <<clock, windows, owned, turns, letThrough, answer>>

OwnedGoes(a) ==
  /\ owned[a] > inUse[a] /\ owned' = [owned EXCEPT ![a] = @ - 1]
  /\ UNCHANGED <<clock, windows, inUse, turns, letThrough, answer>>

RateTick ==
  clock < MaxClock /\ clock' = clock + 1 /\ UNCHANGED <<windows, owned, inUse, turns, letThrough, answer>>

RateNext ==
  \/ RateTick
  \/ \E a \in Account :
       \/ CreateRefused(a) \/ CreateOverQuota(a) \/ CreateWithin(a)
       \/ TurnRefused(a) \/ TurnAdmitted(a) \/ TurnAcquires(a)
       \/ SandboxIdles(a) \/ OwnedGoes(a)
       \/ \E op \in Settings : SettingsCall(a, op)

-----------------------------------------------------------------------------
Between(k, from, to) == Cardinality({c \in letThrough[k] : c[1] \in from..to})

\* However the calls fall, a window of an account lets through no more than
\* its limit, and any stretch of that length, across two windows, no more than
\* twice that; creation, which checks and registers in one step, stays within
\* the quotas of projects and of sandboxes (turns that were let through
\* together may not: they acquire later).
LimitsHold ==
  /\ \A k \in Account \X Limited, t \in 0..MaxClock :
       LET end == IF t + WindowMs - 1 > MaxClock THEN MaxClock ELSE t + WindowMs - 1
       IN /\ Between(k, t, end) <= 2 * RateMax
          /\ windows[k].count > 0 /\ t = windows[k].start => Between(k, t, end) <= RateMax
  /\ \A a \in Account : owned[a] <= MaxTotalProjects
  /\ answer = "created" => SandboxesInUse <= MaxSandboxes
=============================================================================
