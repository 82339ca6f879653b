---------------------------- MODULE LiveSession -----------------------------
(***************************************************************************)
(* A session of the builder server and the tabs that follow it: a turn     *)
(* whose commands wait for a user, connections that break on either side,  *)
(* calls and answers that are lost, and restarts of the server.  Turns are *)
(* started by callers of the API that name the project.                    *)
(***************************************************************************)
EXTENDS BuilderSession, WebClient

vars == <<linkVars, sessionVars, clientVars>>

Init == LinksInit /\ SessionInit /\ ClientInit

\* randomUUID: nothing refers to the request any more, or yet.
Fresh(r) ==
  /\ r \notin Pending /\ ~Mentions(r) /\ \A c \in Client : r \notin confirms[c]
  /\ \A c \in Client, v \in BOOLEAN : <<c, r, v>> \notin sent
  /\ \A c \in Client : <<c, r>> \notin okAnswers

ApiMessage == HandleMessage(TRUE, "accepted") /\ UNCHANGED clientVars

MessageArrives(c) == \E answer \in {"accepted", "refused", "malformed"} :
  HandleMessage(SubmitNamesProject, answer) /\ SubmitAnswered(c, answer)

\* A tab's connection is made, or made and lost before the tab has heard.
Connect(c) == HandleEvents(Other(c), TRUE) /\ Opened(c)
ConnectLost(c) == faults < MaxFaults /\ HandleEvents(Other(c), FALSE) /\ OpenFails(c)
ConnectFails(c) == OpenFails(c) /\ UNCHANGED <<linkVars, sessionVars>>

Confirm(c, r, v) ==
  \/ HandleConfirm(r, v) /\ DecisionArrives(c, r, v, TRUE)
  \/ r \notin Pending /\ UNCHANGED <<linkVars, sessionVars>> /\ DecisionArrives(c, r, v, FALSE)

ServerStep ==
  \/ Emit \/ TurnEnds \/ Restart
  \/ \E r \in Req : ConfirmTimeout(r)
  \/ \E r \in Req : Fresh(r) /\ AgentAsks(r)
  \/ \E r \in Req, m \in Mode \ {mode} : Fresh(r) /\ HandleSwitchWorkMode(r, m)
  \/ \E l \in Link : Drop(l)

ClientStep(c) ==
  \/ OpenSession(c) /\ UNCHANGED linkVars
  \/ OpenDenied(c) \/ ReconnectNow(c) \/ Notice(c) \/ Read(c) \/ Submit(c) \/ SubmitEnds(c)
  \/ \E i \in {1, 2} : Cut(<<c, i>>)
  \/ \E r \in Req, v \in BOOLEAN : Decide(c, r, v) \/ DecisionAnswered(c, r, v)

Next ==
  \/ ServerStep /\ UNCHANGED clientVars
  \/ \E c \in Client : ClientStep(c) /\ UNCHANGED sessionVars
  \/ ApiMessage
  \/ \E c \in Client : MessageArrives(c) \/ Connect(c) \/ ConnectLost(c) \/ ConnectFails(c)
  \/ \E c \in Client, r \in Req, v \in BOOLEAN : Confirm(c, r, v)

\* A running turn goes on: the engine's loop ends it, or the timer of the
\* confirmation it waits for fires; never are both possible.  A browser reads
\* its connection and notices that it is broken.  The first is strong only
\* because MaxWire disables it now and then.
TurnGoesOn ==
  \/ TurnEnds
  \/ \E r \in Req : ask[r].by = "agent" /\ ConfirmTimeout(r)

Fairness ==
  /\ SF_vars(TurnGoesOn /\ UNCHANGED clientVars)
  /\ \A c \in Client : WF_vars((Read(c) \/ Notice(c)) /\ UNCHANGED sessionVars)

Spec == Init /\ [][Next]_vars
FairSpec == Spec /\ Fairness

-----------------------------------------------------------------------------
TypeOK == LinksTypeOK /\ SessionTypeOK /\ ClientTypeOK

\* A tab has applied everything the server has told it.
AtRest(c) ==
  /\ status[c] = "open" /\ Current(c) \in up /\ wire[Current(c)] = <<>>

\* The prompt's gate never stays closed for a turn that is over, whatever
\* frames a broken connection or a restart has swallowed.
GateOpensAgain == \A c \in Client :
  AtRest(c) /\ prompt[c] = "idle" /\ inFlight[c] => running

\* A confirmation that the server waits for is on display in every tab that
\* has caught up, and nothing waits once nobody is connected.
PendingIsShown ==
  /\ \A c \in Client : AtRest(c) => Pending \subseteq confirms[c]
  /\ subs = {} => Pending = {}

\* A tab that has caught up shows, in order and once, all activity since the
\* server took its connection, whenever the server drops its older one.
ActivityIsShown == \A c \in Client :
  /\ \A i, j \in 1..Len(seen[c]) : i < j => seen[c][i] < seen[c][j]
  /\ AtRest(c) =>
       \A k \in since[Current(c)] + 1 .. emitted : \E i \in 1..Len(seen[c]) : seen[c][i] = k

\* The work mode changes only to the mode that a user's approval was asked
\* for: not by a timeout, a denial, a lost connection or another's approval.
OnlyApprovedSwitch ==
  [][mode' # mode =>
       \/ \E c \in Client, r \in Req :
            <<c, r, TRUE>> \in sent \ sent' /\ ask[r] = [by |-> "switch", target |-> mode']
       \/ Restart]_vars

\* Every turn ends, also one that waits for a user who never answers.
EveryTurnEnds == running ~> ~running
=============================================================================
