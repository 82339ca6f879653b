----------------------------- MODULE WebClient ------------------------------
(***************************************************************************)
(* The browser: server/public/sse.js keeps one connection to GET /events,  *)
(* frames.js applies its frames to store.js, builder.js and confirm.js     *)
(* call the server.  A tab opens its session once.  The work mode that a   *)
(* tab shows is left out.                                                  *)
(***************************************************************************)
EXTENDS EventLinks

CONSTANTS
  MaxAttempts, \* MAX_RECONNECT_ATTEMPTS
  MaxCalls     \* bound: calls of the tabs on their way, there and back

ASSUME ClientAssumption ==
  MaxAttempts \in Nat /\ MaxCalls \in Nat

VARIABLES
  status,    \* SSE_STATUS; "stopped" is LOST or UNAUTHORIZED
  attempts,  \* consecutive automatic attempts since the last open
  slot,      \* which of its two connections is of the current generation
  inFlight,  \* session.submitInFlight, the gate of the prompt
  prompt,    \* the POST /message under way, or its answer
  confirms,  \* session.pendingConfirms: the cards on display
  seen,      \* session.activity
  sent,      \* POST /confirm on its way: <<tab, request, approved>>
  okAnswers  \* its 200 on its way back: <<tab, request>>

clientVars ==
  <<status, attempts, slot, inFlight, prompt, confirms, seen, sent, okAnswers>>

ClientInit ==
  /\ status = [c \in Client |-> "closed"] /\ attempts = [c \in Client |-> 0]
  /\ slot = [c \in Client |-> 1] /\ inFlight = [c \in Client |-> FALSE]
  /\ prompt = [c \in Client |-> "idle"] /\ confirms = [c \in Client |-> {}]
  /\ seen = [c \in Client |-> <<>>] /\ sent = {} /\ okAnswers = {}

ClientTypeOK ==
  /\ status \in [Client -> {"closed", "connecting", "open", "reconnecting", "stopped"}]
  /\ attempts \in [Client -> 0..MaxAttempts] /\ slot \in [Client -> {1, 2}]
  /\ inFlight \in [Client -> BOOLEAN] /\ confirms \in [Client -> SUBSET Req]
  /\ prompt \in [Client -> {"idle", "sent", "accepted", "refused", "malformed"}]
  /\ seen \in [Client -> Seq(1..MaxItems)]
  /\ sent \subseteq Client \X Req \X BOOLEAN /\ okAnswers \subseteq Client \X Req

Current(c) == <<c, slot[c]>>
Other(c) == <<c, 3 - slot[c]>>

-----------------------------------------------------------------------------
\* openSession: SESSION_OPEN and connect().
OpenSession(c) ==
  /\ status[c] = "closed"
  /\ status' = [status EXCEPT ![c] = "connecting"]
  /\ UNCHANGED <<attempts, slot, inFlight, prompt, confirms, seen, sent, okAnswers>>

Opening(c) == status[c] \in {"connecting", "reconnecting"}

\* openOnce got its 200: the connection it asked for is the current one.
Opened(c) ==
  /\ Opening(c)
  /\ status' = [status EXCEPT ![c] = "open"] /\ attempts' = [attempts EXCEPT ![c] = 0]
  /\ slot' = [slot EXCEPT ![c] = 3 - slot[c]]
  /\ UNCHANGED <<inFlight, prompt, confirms, seen, sent, okAnswers>>

\* (Mutant: the cap is compared one too late.)
ScheduleOneMore(c) ==
  IF attempts[c] > MaxAttempts
  THEN /\ status' = [status EXCEPT ![c] = "stopped"] /\ UNCHANGED attempts
  ELSE /\ status' = [status EXCEPT ![c] = "reconnecting"]
       /\ attempts' = [attempts EXCEPT ![c] = @ + 1]

ScheduleReconnect(c) ==
  IF attempts[c] >= MaxAttempts
  THEN /\ status' = [status EXCEPT ![c] = "stopped"] /\ UNCHANGED attempts
  ELSE /\ status' = [status EXCEPT ![c] = "reconnecting"]
       /\ attempts' = [attempts EXCEPT ![c] = @ + 1]

\* The request for a connection fails, or its answer is lost.
OpenFails(c) ==
  /\ Opening(c) /\ ScheduleReconnect(c)
  /\ UNCHANGED <<slot, inFlight, prompt, confirms, seen, sent, okAnswers>>

OpenDenied(c) ==
  /\ Opening(c) /\ status' = [status EXCEPT ![c] = "stopped"]
  /\ UNCHANGED <<linkVars, attempts, slot, inFlight, prompt, confirms, seen, sent,
                 okAnswers>>

\* The user clicks "Reconnect", which is offered in both states.
ReconnectNow(c) ==
  /\ status[c] = "stopped"
  /\ status' = [status EXCEPT ![c] = "connecting"] /\ attempts' = [attempts EXCEPT ![c] = 0]
  /\ UNCHANGED <<linkVars, slot, inFlight, prompt, confirms, seen, sent, okAnswers>>

\* The network breaks a connection; what was under way may still arrive.
Cut(l) ==
  /\ l \in up /\ faults < MaxFaults
  /\ up' = up \ {l} /\ faults' = faults + 1
  /\ UNCHANGED <<subs, wire, status, attempts, slot, inFlight, prompt, confirms, seen,
                 sent, okAnswers>>

\* readBody ends or throws: what it has not read is never applied.
Notice(c) ==
  /\ status[c] = "open" /\ Current(c) \notin up
  /\ ScheduleReconnect(c)
  /\ wire' = [wire EXCEPT ![Current(c)] = <<>>]
  /\ UNCHANGED <<subs, up, faults, slot, inFlight, prompt, confirms, seen, sent, okAnswers>>

-----------------------------------------------------------------------------
\* The store after a frame: the gate and the cards.
\* (Mutant: turn_state is applied only when a turn runs.)
GateKept(c, f) ==
  CASE f.type = "hello"      -> f.running \/ inFlight[c]
    [] f.type = "turn_start" -> TRUE
    [] f.type = "turn_done"  -> FALSE
    [] OTHER                 -> inFlight[c]

GateAfter(c, f) ==
  CASE f.type = "hello"      -> f.running
    [] f.type = "turn_start" -> TRUE
    [] f.type = "turn_done"  -> FALSE
    [] OTHER                 -> inFlight[c]

CardsAfter(c, f) ==
  CASE f.type = "hello"           -> confirms[c] \cup f.asks
    [] f.type = "confirm_request" -> confirms[c] \cup {f.req}
    [] f.type = "confirm_timeout" -> confirms[c] \ {f.req}
    [] OTHER                      -> confirms[c]

\* A connection is read as long as it is of the current generation.
ReadsFrom(c, l) == l = Current(c)

Read(c) == \E l \in Link :
  /\ ReadsFrom(c, l) /\ wire[l] # <<>>
  /\ LET f == Head(wire[l]) IN
       /\ inFlight' = [inFlight EXCEPT ![c] = GateAfter(c, f)]
       /\ confirms' = [confirms EXCEPT ![c] = CardsAfter(c, f)]
       /\ seen' = IF f.type = "item" THEN [seen EXCEPT ![c] = Append(@, f.seq)] ELSE seen
  /\ wire' = [wire EXCEPT ![l] = Tail(@)]
  /\ UNCHANGED <<subs, up, faults, status, attempts, slot, prompt, sent, okAnswers>>

-----------------------------------------------------------------------------
\* Under way: prompts and decisions.
Calls == Cardinality({c \in Client : prompt[c] # "idle"}) + Cardinality(sent)
           + Cardinality(okAnswers)

\* submit(): { text } is the whole body, so there is no projectId in it.
SubmitNamesProject == FALSE

Submit(c) ==
  /\ status[c] # "closed" /\ prompt[c] = "idle" /\ ~inFlight[c] /\ Calls < MaxCalls
  /\ prompt' = [prompt EXCEPT ![c] = "sent"] /\ inFlight' = [inFlight EXCEPT ![c] = TRUE]
  /\ UNCHANGED <<linkVars, status, attempts, slot, confirms, seen, sent, okAnswers>>

\* The server has answered the prompt.
SubmitAnswered(c, answer) ==
  /\ prompt[c] = "sent" /\ prompt' = [prompt EXCEPT ![c] = answer]
  /\ UNCHANGED <<status, attempts, slot, inFlight, confirms, seen, sent, okAnswers>>

\* SUBMIT_ENDED on any answer, on a network error and after 30 s.
SubmitEnds(c) ==
  /\ prompt[c] # "idle"
  /\ prompt' = [prompt EXCEPT ![c] = "idle"] /\ inFlight' = [inFlight EXCEPT ![c] = FALSE]
  /\ UNCHANGED <<linkVars, status, attempts, slot, confirms, seen, sent, okAnswers>>

Decide(c, r, approved) ==
  /\ r \in confirms[c] /\ Calls < MaxCalls
  /\ sent' = sent \cup {<<c, r, approved>>}
  /\ UNCHANGED <<linkVars, status, attempts, slot, inFlight, prompt, confirms, seen,
                 okAnswers>>

\* The decision reaches the server, which answers 200 iff it was pending.
DecisionArrives(c, r, approved, ok) ==
  /\ <<c, r, approved>> \in sent /\ sent' = sent \ {<<c, r, approved>>}
  /\ okAnswers' = IF ok THEN okAnswers \cup {<<c, r>>} ELSE okAnswers
  /\ UNCHANGED <<status, attempts, slot, inFlight, prompt, confirms, seen>>

\* The 200 clears the card; an answer that is lost leaves it.
DecisionAnswered(c, r, arrives) ==
  /\ <<c, r>> \in okAnswers /\ okAnswers' = okAnswers \ {<<c, r>>}
  /\ confirms' = [confirms EXCEPT ![c] = IF arrives THEN @ \ {r} ELSE @]
  /\ UNCHANGED <<linkVars, status, attempts, slot, inFlight, prompt, seen, sent>>
=============================================================================
