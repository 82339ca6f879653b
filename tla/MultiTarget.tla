---------------------------- MODULE MultiTarget -----------------------------
(***************************************************************************)
(* project/multi-target.js hands a version of the shared code to one       *)
(* target after the other and rolls back to the last good one when any     *)
(* fails, while another propagation may be under way.                      *)
(***************************************************************************)
EXTENDS Naturals, Sequences, FiniteSets, Functions

CONSTANTS
  Propagation, \* calls that overlap
  Shared       \* versions of the shared code

VARIABLES
  received,    \* the version each target has
  lastGood,    \* the version all targets were given
  propagating, \* how far each call has come
  overlapped   \* auxiliary: two calls were under way at once since none was

sharedVars == <<received, lastGood, propagating, overlapped>>

PropagationTargets == <<"web", "backend", "mobile">>
NoVersion == "none"
AtRest == [at |-> 0, version |-> NoVersion, prior |-> NoVersion, failed |-> FALSE]

\* Every target gets this version, in one step.
All(v) == [t \in Range(PropagationTargets) |-> v]

SharedInit ==
  /\ received = All(NoVersion) /\ lastGood = NoVersion
  /\ propagating = [p \in Propagation |-> AtRest] /\ overlapped = FALSE

SharedTypeOK ==
  /\ received \in [Range(PropagationTargets) -> Shared \cup {NoVersion}]
  /\ lastGood \in Shared \cup {NoVersion} /\ overlapped \in BOOLEAN
  /\ \A p \in Propagation : propagating[p].at \in 0..Len(PropagationTargets) + 1

NoneUnderWay == \A p \in Propagation : propagating[p] = AtRest

StartPropagation(p, v) ==
  /\ propagating[p] = AtRest
  /\ propagating' = [propagating EXCEPT ![p] =
                       [at |-> 1, version |-> v, prior |-> lastGood, failed |-> FALSE]]
  /\ overlapped' = ~NoneUnderWay
  /\ UNCHANGED <<received, lastGood>>

\* The boundary answers for one target: it has the version, or it failed.
PropagateOne(p) ==
  LET now == propagating[p]
  IN /\ now.at \in 1..Len(PropagationTargets)
     /\ \E ok \in BOOLEAN :
          /\ propagating' = [propagating EXCEPT ![p].at = @ + 1, ![p].failed = @ \/ ~ok]
          /\ received' = IF ok THEN [received EXCEPT ![PropagationTargets[now.at]] = now.version]
                         ELSE received
     /\ UNCHANGED <<lastGood, overlapped>>

\* All or none: a failed target, or the time, takes every target back.  The loop
\* over the targets has no await: nobody sees some of them taken back.
\* (Mutant: only the targets that failed are taken back.)
TakeBackFailed(now) ==
  [t \in Range(PropagationTargets) |-> IF received[t] = now.version THEN received[t] ELSE now.prior]
TakeBack(now) == All(now.prior)

PropagationEnds(p) ==
  LET now == propagating[p]
  IN /\ now.at = Len(PropagationTargets) + 1
     /\ propagating' = [propagating EXCEPT ![p] = AtRest] /\ UNCHANGED overlapped
     /\ \/ /\ ~now.failed /\ lastGood' = now.version /\ received' = All(now.version)
        \/ /\ received' = TakeBack(now) /\ UNCHANGED lastGood

SharedNext ==
  \E p \in Propagation :
    PropagateOne(p) \/ PropagationEnds(p) \/ \E v \in Shared : StartPropagation(p, v)

-----------------------------------------------------------------------------
\* However propagations overlap and fail, the targets hold one version
\* whenever none is under way, and it is the last good one if they came one
\* after the other.  multi-target.js:12-14 promises that "the LAST successfully
\* propagated `shared` version is retained in ALL targets" of every failure, as
\* does requirement 16.3; calls that overlap do not keep to it: one that fails
\* late brings back the version it found when it began, although a later one
\* has been committed since.
OneVersionAtRest ==
  NoneUnderWay =>
    /\ Cardinality(Range(received)) = 1
    /\ ~overlapped => received = All(lastGood)
=============================================================================
