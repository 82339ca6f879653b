--------------------------- MODULE BuilderSession ---------------------------
(***************************************************************************)
(* One session of server/builder-server.js: its turn, the confirmations it *)
(* waits for and the work mode.  Every action runs between two awaits and  *)
(* is atomic.  settle() and the continuation of the handler it wakes are   *)
(* one step: nothing of this session runs in between.                      *)
(***************************************************************************)
EXTENDS EventLinks

CONSTANTS
  Mode, DefaultMode, \* Work_Mode and DEFAULT_WORK_MODE
  MaxAsks            \* commands of one turn that need a confirmation

ASSUME SessionAssumption == DefaultMode \in Mode /\ MaxAsks \in Nat

VARIABLES
  running,  \* session.running # null
  ask,      \* pendingConfirms: who waits for an answer, and a switch's mode
  mode,     \* session.workMode.current()
  asked,    \* confirmations the running turn has asked for
  emitted,  \* activity frames so far
  since     \* auxiliary: how many of them a connection came too late for

sessionVars == <<running, ask, mode, asked, emitted, since>>

NoAsk == [by |-> "nobody", target |-> DefaultMode]
Pending == {r \in Req : ask[r].by # "nobody"}

SessionInit ==
  /\ running = FALSE /\ ask = [r \in Req |-> NoAsk] /\ mode = DefaultMode
  /\ asked = 0 /\ emitted = 0 /\ since = [l \in Link |-> 0]

SessionTypeOK ==
  /\ running \in BOOLEAN /\ mode \in Mode
  /\ ask \in [Req -> [by : {"nobody", "agent", "switch"}, target : Mode]]
  /\ asked \in 0..MaxAsks /\ emitted \in 0..MaxItems
  /\ since \in [Link -> 0..MaxItems]

-----------------------------------------------------------------------------
(***************************************************************************)
(* The answer to POST /message; the body is looked at before the gate, the *)
(* gate before the rest.                                                   *)
(***************************************************************************)
MessageAnswers(hasProject) ==
  IF ~hasProject THEN {"malformed"}
  ELSE {"refused"} \cup (IF running THEN {} ELSE {"accepted"})

HandleMessage(hasProject, answer) ==
  /\ answer \in MessageAnswers(hasProject)
  /\ IF answer = "accepted"
     THEN /\ running' = TRUE /\ asked' = 0 /\ Broadcast(Plain("turn_start"))
          /\ UNCHANGED <<subs, up, faults, ask, mode, emitted, since>>
     ELSE UNCHANGED <<linkVars, sessionVars>>

\* onEvent: the engine reports reasoning, text or a tool.
Emit ==
  /\ running /\ emitted < MaxItems
  /\ emitted' = emitted + 1
  /\ Broadcast([type |-> "item", seq |-> emitted + 1])
  /\ UNCHANGED <<subs, up, faults, running, ask, mode, asked, since>>

AgentWaits == \E r \in Req : ask[r].by = "agent"

\* agent.send() returned or threw: turn_done, and the turn is over.
TurnEnds ==
  /\ running /\ ~AgentWaits
  /\ running' = FALSE /\ asked' = 0 /\ Broadcast(Plain("turn_done"))
  /\ UNCHANGED <<subs, up, faults, ask, mode, emitted, since>>

(***************************************************************************)
(* onConfirmRequest.  With nobody connected it denies at once, which for   *)
(* the asker is the same as never having asked.                            *)
(***************************************************************************)
OnConfirmRequest(r, by, target) ==
  IF subs = {} THEN UNCHANGED <<wire, ask>>
  ELSE /\ ask' = [ask EXCEPT ![r] = [by |-> by, target |-> target]]
       /\ Broadcast(ConfirmFrame("confirm_request", r))

AgentAsks(r) ==
  /\ running /\ ~AgentWaits /\ asked < MaxAsks
  /\ asked' = asked + 1
  /\ OnConfirmRequest(r, "agent", DefaultMode)
  /\ UNCHANGED <<subs, up, faults, running, mode, emitted, since>>

HandleSwitchWorkMode(r, m) ==
  /\ OnConfirmRequest(r, "switch", m)
  /\ UNCHANGED <<subs, up, faults, running, mode, asked, emitted, since>>

\* settle(allow), and what the asker does with the answer.
\* (Mutant: a switch goes ahead whatever the answer.)
SettleAnyway(rs, allow) ==
  /\ ask' = [r \in Req |-> IF r \in rs THEN NoAsk ELSE ask[r]]
  /\ IF \E r \in rs : ask[r].by = "switch"
     THEN \E r \in rs : ask[r].by = "switch" /\ mode' = ask[r].target
     ELSE mode' = mode

Settle(rs, allow) ==
  /\ ask' = [r \in Req |-> IF r \in rs THEN NoAsk ELSE ask[r]]
  /\ IF allow /\ \E r \in rs : ask[r].by = "switch"
     THEN \E r \in rs : ask[r].by = "switch" /\ mode' = ask[r].target
     ELSE mode' = mode

\* (Mutant: the timer tells the tabs and forgets the asker.)
TimeoutOnlyShown(r) ==
  /\ r \in Pending /\ Broadcast(ConfirmFrame("confirm_timeout", r))
  /\ UNCHANGED <<subs, up, faults, running, ask, mode, asked, emitted, since>>

ConfirmTimeout(r) ==
  /\ r \in Pending
  /\ Broadcast(ConfirmFrame("confirm_timeout", r))
  /\ Settle({r}, FALSE)
  /\ UNCHANGED <<subs, up, faults, running, asked, emitted, since>>

\* What is known when a request is no longer pending: 404, nothing changes.
HandleConfirm(r, approved) ==
  /\ r \in Pending /\ Settle({r}, approved)
  /\ UNCHANGED <<linkVars, running, asked, emitted, since>>

\* (Mutant: pending confirmations are not shown again.)
HelloWithoutAsks == [type |-> "hello", running |-> running, asks |-> {}]
Hello == [type |-> "hello", running |-> running, asks |-> Pending]

\* handleEvents, past the gate, for a connection that survives it or not.
HandleEvents(l, arrives) ==
  /\ l \notin subs \cup up /\ wire[l] = <<>>
  /\ subs' = subs \cup {l}
  /\ up' = IF arrives THEN up \cup {l} ELSE up
  /\ wire' = IF arrives THEN [wire EXCEPT ![l] = <<Hello>>] ELSE wire
  /\ since' = IF arrives THEN [since EXCEPT ![l] = emitted] ELSE since
  /\ UNCHANGED <<faults, running, ask, mode, asked, emitted>>

\* The server notices that a connection is gone.
\* (Mutant: with it goes the newer one of the same tab.)
WithoutTab(l) == subs \ {k \in Link : k[1] = l[1]}
Without(l) == subs \ {l}

Drop(l) ==
  /\ l \in subs \ up
  /\ subs' = Without(l)
  /\ since' = [since EXCEPT ![l] = 0]
  /\ IF subs' = {} THEN Settle(Pending, FALSE) ELSE UNCHANGED <<ask, mode>>
  /\ UNCHANGED <<up, wire, faults, running, asked, emitted>>

\* Sessions live in the process only.
Restart ==
  /\ faults < MaxFaults /\ faults' = faults + 1
  /\ running' = FALSE /\ ask' = [r \in Req |-> NoAsk] /\ mode' = DefaultMode
  /\ asked' = 0 /\ subs' = {} /\ up' = {} /\ since' = [l \in Link |-> 0]
  /\ UNCHANGED <<wire, emitted>>
=============================================================================
