------------------------------ MODULE SelfHealing ------------------------------
(***************************************************************************)
(* A generation and its healing: runGeneration (project-manager.js) lets   *)
(* the agent work and verifies; a failure goes to heal (self-healing.js),  *)
(* which tries again until it passes, fails as it failed before, has used  *)
(* its attempts or is cancelled, and reports a failure to the abuse check  *)
(* of the quotas.  A step ends at an await.  A failure is its signature.   *)
(***************************************************************************)
EXTENDS Naturals, FiniteSets

CONSTANTS
  Failure,         \* failure signatures
  MaxHealing,      \* maxAttempts of heal's config
  MaxFailedBuilds  \* of the abuse check

ASSUME HealingAssumption == MaxHealing \in 1..10 /\ MaxFailedBuilds \in Nat

VARIABLES
  turn,       \* where the generation is
  attempt,    \* attempts of heal so far, the one under way included
  seenFail,   \* seenSignatures
  healing,    \* heal is enabled
  aborted,    \* the caller's signal
  verdict,    \* of the last verification, or none
  unverified, \* auxiliary: the agent worked after the last verification
  overrun,    \* auxiliary: an attempt was begun after the signal
  outcome,    \* how the last generation ended
  delivered,  \* its snapshot, dev server and publication
  suspended   \* the abuse check stopped the sandbox

healVars == <<turn, attempt, seenFail, healing, aborted, verdict, unverified, overrun, outcome,
              delivered, suspended>>

Delivery == {"snapshot", "server", "published"}

HealInit ==
  /\ turn = "idle" /\ attempt = 0 /\ seenFail = {} /\ healing \in BOOLEAN /\ aborted = FALSE
  /\ verdict = "none" /\ unverified = FALSE /\ overrun = FALSE /\ outcome = "none"
  /\ delivered = {} /\ suspended = FALSE

HealTypeOK ==
  /\ turn \in {"idle", "send", "verify"} /\ attempt \in 0..MaxHealing /\ seenFail \subseteq Failure
  /\ {healing, aborted, unverified, overrun, suspended} \subseteq BOOLEAN
  /\ verdict \in {"none", "PASS", "FAIL"} /\ delivered \subseteq Delivery
  /\ outcome \in {"none", "PASS", "disabled", "oscillation", "max-attempts", "cancelled", "error"}

-----------------------------------------------------------------------------
EndTurn(how) == turn' = "idle" /\ outcome' = how

BeginGeneration ==
  /\ turn = "idle" /\ turn' = "send" /\ attempt' = 0 /\ seenFail' = {} /\ aborted' = FALSE
  /\ verdict' = "none" /\ outcome' = "none" /\ delivered' = {} /\ suspended' = FALSE
  /\ UNCHANGED <<healing, unverified, overrun>>

Abort ==
  /\ turn # "idle" /\ aborted' = TRUE
  /\ UNCHANGED <<turn, attempt, seenFail, healing, verdict, unverified, overrun, outcome, delivered,
                 suspended>>

\* agent.send() returns: runGeneration goes on whatever the signal says, heal
\* asks it first.
GoesOn == attempt = 0 \/ ~aborted

AgentReturns ==
  /\ turn = "send" /\ unverified' = TRUE
  /\ IF GoesOn THEN turn' = "verify" /\ UNCHANGED outcome ELSE EndTurn("cancelled")
  /\ UNCHANGED <<attempt, seenFail, healing, aborted, verdict, overrun, delivered, suspended>>

AgentThrows ==
  /\ turn = "send" /\ unverified' = TRUE
  /\ EndTurn(IF attempt > 0 /\ aborted THEN "cancelled" ELSE "error")
  /\ UNCHANGED <<attempt, seenFail, healing, aborted, verdict, overrun, delivered, suspended>>

\* safeVerify(), and the verify of runGeneration.
VerifyUnavailable ==
  /\ turn = "verify" /\ EndTurn("error")
  /\ UNCHANGED <<attempt, seenFail, healing, aborted, verdict, unverified, overrun, delivered, suspended>>

\* finalizePass() of both: the snapshot may fail, the server may not start, and
\* what is published is the snapshot.  (Mutant: it is published regardless.)
DeliverRegardless == {D \in SUBSET Delivery : "published" \in D}
Deliverable == {D \in SUBSET Delivery : "published" \in D <=> "snapshot" \in D}

VerifyPasses ==
  /\ turn = "verify" /\ verdict' = "PASS" /\ unverified' = FALSE
  /\ EndTurn("PASS") /\ delivered' \in Deliverable
  /\ UNCHANGED <<attempt, seenFail, healing, aborted, overrun, suspended>>

\* reportGiveUp() and observeUsage(): only the attempts of this generation count.
GiveUp(how) ==
  /\ EndTurn(how) /\ suspended' = (attempt >= MaxFailedBuilds) /\ UNCHANGED <<attempt, overrun>>

\* The next round of heal's loop asks the signal before it builds an agent.
\* (Mutant: the signal is asked only after the agent has worked.)
AskedAfter == FALSE
Asked == aborted

NextAttempt ==
  /\ UNCHANGED suspended
  /\ IF Asked THEN EndTurn("cancelled") /\ UNCHANGED <<attempt, overrun>>
     ELSE /\ turn' = "send" /\ attempt' = attempt + 1 /\ overrun' = (overrun \/ aborted)
          /\ UNCHANGED outcome

\* (Mutant: signatures are not remembered.)
SeenNever(s) == FALSE
Seen(s) == s \in seenFail

VerifyFails(s) ==
  /\ turn = "verify" /\ verdict' = "FAIL" /\ unverified' = FALSE
  /\ IF attempt = 0 /\ ~healing THEN EndTurn("disabled") /\ UNCHANGED <<attempt, seenFail, overrun, suspended>>
     ELSE /\ seenFail' = seenFail \cup {s}
          /\ IF attempt > 0 /\ Seen(s) THEN GiveUp("oscillation")
             ELSE IF attempt = MaxHealing THEN GiveUp("max-attempts")
             ELSE NextAttempt
  /\ UNCHANGED <<healing, aborted, delivered>>

HealNext ==
  \/ BeginGeneration \/ Abort \/ AgentReturns \/ AgentThrows \/ VerifyUnavailable \/ VerifyPasses
  \/ \E s \in Failure : VerifyFails(s)

-----------------------------------------------------------------------------
\* A generation passes only on a verification that passed after the agent's last
\* work, and only then anything is delivered, published only with its snapshot.
\* Every attempt answers a failure not met before in the generation and none
\* begins after a cancellation; a sandbox is suspended only for as many failed
\* attempts as the abuse check asks for.
HealingIsHonest ==
  /\ outcome = "PASS" => verdict = "PASS" /\ ~unverified
  /\ delivered # {} => outcome = "PASS"
  /\ "published" \in delivered => "snapshot" \in delivered
  /\ turn # "idle" => Cardinality(seenFail) = attempt
  /\ outcome = "max-attempts" => Cardinality(seenFail) = MaxHealing + 1
  /\ ~overrun /\ (suspended => attempt >= MaxFailedBuilds)
=============================================================================
