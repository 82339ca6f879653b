----------------------------- MODULE EventLinks -----------------------------
(***************************************************************************)
(* The connections of GET /events: what the server holds in sseClients,    *)
(* which of them still carry data, and the frames on their way.  A client  *)
(* that reconnects before the server has noticed the loss of its old       *)
(* connection has two of them for a while, hence two slots per client.     *)
(***************************************************************************)
EXTENDS Naturals, Sequences, FiniteSets

CONSTANTS
  Client,      \* browser tabs of one account, on one project
  Req,         \* identities of confirmation requests
  MaxWire,     \* bound: frames on their way on one connection
  MaxItems,    \* bound: activity frames of one behaviour
  MaxFaults    \* bound: broken connections and restarts of the server

\* A new connection carries a frame at once.
ASSUME LinkAssumption == MaxWire \in Nat \ {0} /\ MaxItems \in Nat /\ MaxFaults \in Nat

VARIABLES
  subs,   \* sseClients: the connections the server writes to
  up,     \* the connections that are not broken
  wire,   \* frames written and not yet read, per connection
  faults  \* so far

linkVars == <<subs, up, wire, faults>>

Link == Client \X {1, 2}

(***************************************************************************)
(* Frames.  A hello stands for what handleEvents writes at once to a new   *)
(* connection: turn_state, turn_start while a turn runs, and the pending   *)
(* confirm_request payloads.                                               *)
(***************************************************************************)
Frame ==
       [type : {"hello"}, running : BOOLEAN, asks : SUBSET Req]
  \cup [type : {"turn_start", "turn_done"}]
  \cup [type : {"item"}, seq : 1..MaxItems]
  \cup [type : {"confirm_request", "confirm_timeout"}, req : Req]

Plain(t) == [type |-> t]
ConfirmFrame(t, r) == [type |-> t, req |-> r]

Mentions(r) == \E l \in Link : \E i \in 1..Len(wire[l]) :
  \/ wire[l][i].type \in {"confirm_request", "confirm_timeout"} /\ wire[l][i].req = r
  \/ wire[l][i].type = "hello" /\ r \in wire[l][i].asks

\* The server still writes to the broken connections it has not dropped.
Broadcast(frame) ==
  /\ \A l \in subs \cap up : Len(wire[l]) < MaxWire
  /\ wire' = [l \in Link |-> IF l \in subs \cap up THEN Append(wire[l], frame)
                                                    ELSE wire[l]]

LinksInit == subs = {} /\ up = {} /\ wire = [l \in Link |-> <<>>] /\ faults = 0

LinksTypeOK ==
  /\ subs \subseteq Link /\ up \subseteq Link /\ faults \in 0..MaxFaults
  /\ wire \in [Link -> Seq(Frame)] /\ \A l \in Link : Len(wire[l]) <= MaxWire
=============================================================================
