----------------------------- MODULE SerialRuns -----------------------------
(***************************************************************************)
(* What exec() promises its callers about order (audit H16 in              *)
(* src/sandbox/sandbox-manager.js): the calls for one project form a line, *)
(* only the head of a line is ever inside, and calls for different         *)
(* projects do not wait for each other.  It says nothing of boundaries,    *)
(* containers or releases; SandboxManager implements it.                   *)
(***************************************************************************)
EXTENDS Sequences, Naturals

CONSTANTS Project, Exec

VARIABLES
  line,     \* project -> its calls, in the order they were made
  inside    \* the calls that are being executed

vars == <<line, inside>>

InLine(e) == \E p \in Project : \E i \in 1..Len(line[p]) : line[p][i] = e

Init ==
  /\ line = [p \in Project |-> <<>>]
  /\ inside = {}

Submit(e, p) ==
  /\ ~InLine(e)
  /\ line' = [line EXCEPT ![p] = Append(@, e)]
  /\ UNCHANGED inside

Begin(p) ==
  /\ line[p] # <<>>
  /\ Head(line[p]) \notin inside
  /\ inside' = inside \cup {Head(line[p])}
  /\ UNCHANGED line

End(p) ==
  /\ line[p] # <<>>
  /\ Head(line[p]) \in inside
  /\ inside' = inside \ {Head(line[p])}
  /\ line' = [line EXCEPT ![p] = Tail(@)]

\* A call may be turned away when its turn comes.
Refuse(p) ==
  /\ line[p] # <<>>
  /\ Head(line[p]) \notin inside
  /\ line' = [line EXCEPT ![p] = Tail(@)]
  /\ UNCHANGED inside

\* The process restarts and every outstanding call is gone.
Reset ==
  /\ line' = [p \in Project |-> <<>>]
  /\ inside' = {}

Next ==
  \/ \E e \in Exec, p \in Project : Submit(e, p)
  \/ \E p \in Project : Begin(p) \/ End(p) \/ Refuse(p)
  \/ Reset

Spec == Init /\ [][Next]_vars

\* Nobody at the head of a line waits for ever.
FairSpec ==
  /\ Spec
  /\ \A p \in Project : WF_vars(Begin(p) \/ Refuse(p)) /\ WF_vars(End(p))
=============================================================================
