------------------------- MODULE LiveSessionProofs --------------------------
(***************************************************************************)
(* Proofs about LiveSession, for any tabs, requests and work modes, and    *)
(* any bounds.                                                             *)
(***************************************************************************)
EXTENDS LiveSession, TLAPS

USE LinkAssumption, SessionAssumption, ClientAssumption

(***************************************************************************)
(* The frames a connection still has under way.                            *)
(***************************************************************************)
Under(l) == {wire[l][i] : i \in 1..Len(wire[l])}

(***************************************************************************)
(* A connection that carries data is one the server writes to, and it is   *)
(* the connection that its tab reads: a tab opens another one only when it *)
(* has noticed that this one is broken.                                    *)
(***************************************************************************)
UpIsRead ==
  /\ up \subseteq subs
  /\ \A l \in up : l = Current(l[1]) /\ status[l[1]] = "open"

(***************************************************************************)
(* The gate of the prompt: the last frame under way that sets it says      *)
(* whether a turn runs, and when none is under way a closed gate is that   *)
(* of a running turn or of the tab's own prompt.                           *)
(***************************************************************************)
SetsGate(f) == f.type \in {"hello", "turn_start", "turn_done"}

SaysRunning(f) == f.type = "turn_start" \/ (f.type = "hello" /\ f.running)

LastSetsGate(l, i) ==
  SetsGate(wire[l][i]) /\ \A j \in i + 1 .. Len(wire[l]) : ~SetsGate(wire[l][j])

GateIsComing ==
  \A l \in up : \A i \in 1..Len(wire[l]) :
    LastSetsGate(l, i) => (SaysRunning(wire[l][i]) <=> running)

GateIsRight ==
  \A l \in up :
    /\ \A f \in Under(l) : ~SetsGate(f)
    /\ prompt[l[1]] = "idle" /\ inFlight[l[1]]
    => running

(***************************************************************************)
(* The cards: a request that waits is on display or under way to every     *)
(* connected tab, and nothing under way could take its card away.          *)
(***************************************************************************)
Shows(f, r) ==
  \/ f.type = "hello" /\ r \in f.asks
  \/ f.type = "confirm_request" /\ f.req = r

CardsAreComing ==
  \A l \in up : \A r \in Pending :
    r \in confirms[l[1]] \/ \E f \in Under(l) : Shows(f, r)

CardsAreSafe ==
  /\ \A l \in Link : \A f \in Under(l) : f.type = "confirm_timeout" => f.req \notin Pending
  /\ \A c \in Client, r \in Req : <<c, r>> \in okAnswers => r \notin Pending

NobodyWaitsAlone == subs = {} => Pending = {}

(***************************************************************************)
(* The activity: what a tab has seen and what is under way to it are in    *)
(* order, and together they are all there has been since it connected.     *)
(***************************************************************************)
IsItem(f) == f.type = "item"

WireInOrder ==
  \A l \in Link : \A i \in 1..Len(wire[l]) : IsItem(wire[l][i]) =>
    /\ wire[l][i].seq <= emitted
    /\ \A j \in i + 1 .. Len(wire[l]) : IsItem(wire[l][j]) => wire[l][i].seq < wire[l][j].seq

SeenInOrder ==
  \A c \in Client : \A i \in 1..Len(seen[c]) :
    /\ seen[c][i] <= emitted
    /\ \A j \in i + 1 .. Len(seen[c]) : seen[c][i] < seen[c][j]
    /\ \A f \in Under(Current(c)) : IsItem(f) => seen[c][i] < f.seq

Shown(c, k) == \E i \in 1..Len(seen[c]) : seen[c][i] = k

ActivityIsComing ==
  \A l \in up : \A k \in since[l] + 1 .. emitted :
    Shown(l[1], k) \/ \E f \in Under(l) : IsItem(f) /\ f.seq = k

GateInv == GateIsComing /\ GateIsRight
CardsInv == CardsAreComing /\ CardsAreSafe /\ NobodyWaitsAlone
ActivityInv == WireInOrder /\ SeenInOrder /\ ActivityIsComing

IInv == TypeOK /\ UpIsRead /\ GateInv /\ CardsInv /\ ActivityInv

-----------------------------------------------------------------------------

(***************************************************************************)
(* What happens to a connection: a frame is appended, its first frame is   *)
(* read, a new one carries a hello, a broken one is emptied.               *)
(***************************************************************************)
Wires == [Link -> Seq(Frame)]

LEMMA Appended ==
  ASSUME NEW S, NEW s \in Seq(S), NEW e \in S, NEW z, z = Append(s, e)
  PROVE  /\ z \in Seq(S)
         /\ Len(s) \in Nat /\ Len(z) = Len(s) + 1
         /\ \A i \in 1..Len(s) : z[i] = s[i]
         /\ z[Len(s) + 1] = e
  OBVIOUS

LEMMA Shortened ==
  ASSUME NEW S, NEW s \in Seq(S), s # <<>>, NEW z, z = Tail(s)
  PROVE  /\ z \in Seq(S)
         /\ Len(s) \in Nat /\ Len(s) > 0 /\ Len(z) = Len(s) - 1
         /\ \A i \in 1..Len(z) : z[i] = s[i + 1]
         /\ s[1] = Head(s) /\ Head(s) \in S
  OBVIOUS

LEMMA BroadcastWrites ==
  ASSUME wire \in Wires, up \subseteq subs, NEW frame \in Frame, Broadcast(frame)
  PROVE  /\ wire' \in Wires
         /\ \A l \in Link :
              IF l \in up THEN Len(wire[l]) < MaxWire /\ wire'[l] = Append(wire[l], frame)
                          ELSE wire'[l] = wire[l]
  <1>1. \A l \in Link : wire[l] \in Seq(Frame) /\ Append(wire[l], frame) \in Seq(Frame)
    BY DEF Wires
  <1>2. wire' = [l \in Link |-> IF l \in subs \cap up THEN Append(wire[l], frame) ELSE wire[l]]
    BY DEF Broadcast
  <1>3. \A l \in Link : wire'[l] = IF l \in subs \cap up THEN Append(wire[l], frame) ELSE wire[l]
    BY <1>2
  <1>4. wire' \in Wires
    BY <1>1, <1>2 DEF Wires
  <1>5. QED BY <1>3, <1>4 DEF Broadcast

LEMMA AppendUnder ==
  ASSUME NEW l \in Link, wire[l] \in Seq(Frame), NEW frame \in Frame,
         wire'[l] = Append(wire[l], frame)
  PROVE  Under(l)' = Under(l) \cup {frame}
  <1>1. /\ Len(wire[l]) \in Nat /\ Len(wire'[l]) = Len(wire[l]) + 1
        /\ \A i \in 1..Len(wire[l]) : wire'[l][i] = wire[l][i]
        /\ wire'[l][Len(wire[l]) + 1] = frame
    BY Appended
  <1>2. 1..Len(wire'[l]) = 1..Len(wire[l]) \cup {Len(wire[l]) + 1}
    BY <1>1
  <1>3. Under(l)' = {wire'[l][i] : i \in 1..Len(wire[l]) \cup {Len(wire[l]) + 1}}
    BY <1>2 DEF Under
  <1>4. QED BY <1>1, <1>3 DEF Under

LEMMA TailUnder ==
  ASSUME NEW l \in Link, wire[l] \in Seq(Frame), wire[l] # <<>>, wire'[l] = Tail(wire[l])
  PROVE  /\ Under(l) = Under(l)' \cup {Head(wire[l])}
         /\ Head(wire[l]) \in Frame
  <1>1. /\ Len(wire[l]) \in Nat /\ Len(wire[l]) > 0 /\ Len(wire'[l]) = Len(wire[l]) - 1
        /\ \A i \in 1..Len(wire'[l]) : wire'[l][i] = wire[l][i + 1]
        /\ wire[l][1] = Head(wire[l]) /\ Head(wire[l]) \in Frame
    BY Shortened
  <1>2. ASSUME NEW f \in Under(l) PROVE f \in Under(l)' \cup {Head(wire[l])}
    <2>1. PICK i \in 1..Len(wire[l]) : f = wire[l][i]
      BY DEF Under
    <2>2. CASE i = 1
      BY <1>1, <2>1, <2>2
    <2>3. CASE i # 1
      <3>1. i - 1 \in 1..Len(wire'[l]) /\ wire'[l][i - 1] = wire[l][(i - 1) + 1]
        BY <1>1, <2>3
      <3>2. QED BY <2>1, <3>1 DEF Under
    <2>4. QED BY <2>2, <2>3
  <1>3. ASSUME NEW f \in Under(l)' PROVE f \in Under(l)
    <2>1. PICK i \in 1..Len(wire'[l]) : f = wire'[l][i]
      BY <1>3 DEF Under
    <2>2. i + 1 \in 1..Len(wire[l]) /\ f = wire[l][i + 1]
      BY <1>1, <2>1
    <2>3. QED BY <2>2 DEF Under
  <1>4. Head(wire[l]) \in Under(l)
    BY <1>1 DEF Under
  <1>5. QED BY <1>1, <1>2, <1>3, <1>4

LEMMA OneUnder ==
  ASSUME NEW l, NEW f, wire[l] = <<f>>
  PROVE  Under(l) = {f} /\ Len(wire[l]) = 1 /\ wire[l][1] = f
  BY DEF Under

LEMMA NoneUnder ==
  ASSUME NEW l, wire[l] = <<>>
  PROVE  Under(l) = {}
  BY DEF Under

LEMMA UnderFrames ==
  ASSUME wire \in Wires, NEW l \in Link
  PROVE  Under(l) \subseteq Frame
  BY DEF Under, Wires

-----------------------------------------------------------------------------

(***************************************************************************)
(* The types of what is written and decided.                               *)
(***************************************************************************)
LEMMA FramesAreFrames ==
  /\ Plain("turn_start") \in Frame /\ Plain("turn_done") \in Frame
  /\ \A r \in Req : /\ ConfirmFrame("confirm_request", r) \in Frame
                    /\ ConfirmFrame("confirm_timeout", r) \in Frame
  /\ \A k \in 1..MaxItems : [type |-> "item", seq |-> k] \in Frame
  <1>1. Plain("turn_start") \in Frame /\ Plain("turn_done") \in Frame
    BY DEF Plain, Frame
  <1>2. ASSUME NEW r \in Req
        PROVE  /\ ConfirmFrame("confirm_request", r) \in Frame
               /\ ConfirmFrame("confirm_timeout", r) \in Frame
    BY DEF ConfirmFrame, Frame
  <1>3. ASSUME NEW k \in 1..MaxItems PROVE [type |-> "item", seq |-> k] \in Frame
    BY DEF Frame
  <1>4. QED BY <1>1, <1>2, <1>3

LEMMA HelloIsFrame == TypeOK => Hello \in Frame
  <1>1. ASSUME NEW b \in BOOLEAN, NEW R \in SUBSET Req
        PROVE  [type |-> "hello", running |-> b, asks |-> R] \in Frame
    BY DEF Frame
  <1>2. TypeOK => running \in BOOLEAN /\ Pending \in SUBSET Req
    BY DEF TypeOK, SessionTypeOK, Pending
  <1>3. QED BY <1>1, <1>2 DEF Hello

LEMMA WireTypes ==
  ASSUME TypeOK
  PROVE  wire \in Wires /\ \A l \in Link : Len(wire[l]) <= MaxWire
  BY DEF TypeOK, LinksTypeOK, Wires

LEMMA BroadcastType ==
  ASSUME TypeOK, up \subseteq subs, NEW frame \in Frame, Broadcast(frame),
         UNCHANGED <<subs, up, faults>>
  PROVE  LinksTypeOK'
  <1>1. wire' \in Wires
        /\ \A l \in Link : \/ wire'[l] = wire[l]
                           \/ (Len(wire[l]) < MaxWire /\ wire'[l] = Append(wire[l], frame))
    <2>1. wire \in Wires
      BY WireTypes
    <2>2. QED BY <2>1, BroadcastWrites
  <1>2. \A l \in Link : Len(wire'[l]) <= MaxWire
    <2> SUFFICES ASSUME NEW l \in Link PROVE Len(wire'[l]) <= MaxWire
      OBVIOUS
    <2>1. wire[l] \in Seq(Frame) /\ Len(wire[l]) <= MaxWire
      BY WireTypes DEF Wires
    <2>2. CASE wire'[l] = wire[l]
      BY <2>1, <2>2
    <2>3. CASE Len(wire[l]) < MaxWire /\ wire'[l] = Append(wire[l], frame)
      <3>1. Len(wire'[l]) = Len(wire[l]) + 1 /\ Len(wire[l]) \in Nat
        BY <2>1, <2>3, Appended
      <3>2. QED BY <2>3, <3>1
    <2>4. QED BY <1>1, <2>2, <2>3
  <1>3. QED BY <1>1, <1>2 DEF TypeOK, LinksTypeOK, Wires

(***************************************************************************)
(* settle(): the asked-for mode, if any, is one.                           *)
(***************************************************************************)
LEMMA SettleType ==
  ASSUME TypeOK, NEW rs \in SUBSET Req, NEW allow, Settle(rs, allow)
  PROVE  /\ ask' \in [Req -> [by : {"nobody", "agent", "switch"}, target : Mode]]
         /\ mode' \in Mode
         /\ Pending' = Pending \ rs
  <1>1. /\ ask \in [Req -> [by : {"nobody", "agent", "switch"}, target : Mode]]
        /\ mode \in Mode
        /\ ask' = [r \in Req |-> IF r \in rs THEN NoAsk ELSE ask[r]]
    BY DEF TypeOK, SessionTypeOK, Settle
  <1>2. NoAsk \in [by : {"nobody", "agent", "switch"}, target : Mode] /\ NoAsk.by = "nobody"
    BY DEF NoAsk
  <1>3. ask' \in [Req -> [by : {"nobody", "agent", "switch"}, target : Mode]]
    BY <1>1, <1>2
  <1>4. Pending' = Pending \ rs
    BY <1>1, <1>2 DEF Pending
  <1>5. mode' \in Mode
    <2>1. CASE allow /\ \E r \in rs : ask[r].by = "switch"
      <3>1. PICK r \in rs : ask[r].by = "switch" /\ mode' = ask[r].target
        BY <2>1 DEF Settle
      <3>2. QED BY <1>1, <3>1
    <2>2. CASE ~(allow /\ \E r \in rs : ask[r].by = "switch")
      BY <1>1, <2>2 DEF Settle
    <2>3. QED BY <2>1, <2>2
  <1>6. QED BY <1>3, <1>4, <1>5

-----------------------------------------------------------------------------

(***************************************************************************)
(* Types.                                                                  *)
(***************************************************************************)
LEMMA TypeNext == LinksTypeOK' /\ SessionTypeOK' /\ ClientTypeOK' => TypeOK'
  BY DEF TypeOK

LEMMA TypesKept ==
  ASSUME TypeOK
  PROVE  /\ UNCHANGED linkVars => LinksTypeOK'
         /\ UNCHANGED sessionVars => SessionTypeOK'
         /\ UNCHANGED clientVars => ClientTypeOK'
  <1>1. UNCHANGED linkVars => LinksTypeOK'
    BY DEF TypeOK, LinksTypeOK, linkVars
  <1>2. UNCHANGED sessionVars => SessionTypeOK'
    BY DEF TypeOK, SessionTypeOK, sessionVars
  <1>3. UNCHANGED clientVars => ClientTypeOK'
    BY DEF TypeOK, ClientTypeOK, clientVars
  <1>4. QED BY <1>1, <1>2, <1>3

LEMMA OnConfirmRequestType ==
  ASSUME TypeOK, up \subseteq subs, NEW r \in Req, NEW by \in {"agent", "switch"},
         NEW target \in Mode, OnConfirmRequest(r, by, target), UNCHANGED <<subs, up, faults>>
  PROVE  LinksTypeOK' /\ ask' \in [Req -> [by : {"nobody", "agent", "switch"}, target : Mode]]
  <1>1. CASE subs = {}
    BY <1>1 DEF OnConfirmRequest, TypeOK, LinksTypeOK, SessionTypeOK
  <1>2. CASE subs # {}
    <2>1. Broadcast(ConfirmFrame("confirm_request", r))
          /\ ask' = [ask EXCEPT ![r] = [by |-> by, target |-> target]]
      BY <1>2 DEF OnConfirmRequest
    <2>2. LinksTypeOK'
      BY <2>1, BroadcastType, FramesAreFrames
    <2>3. QED BY <2>1, <2>2 DEF TypeOK, SessionTypeOK
  <1>3. QED BY <1>1, <1>2

LEMMA ServerTypes ==
  ASSUME TypeOK, up \subseteq subs, ServerStep
  PROVE  LinksTypeOK' /\ SessionTypeOK'
  <1>0. SessionTypeOK
    BY DEF TypeOK
  <1>1. CASE Emit
    <2>1. /\ emitted \in Nat /\ emitted < MaxItems /\ emitted' = emitted + 1
          /\ Broadcast([type |-> "item", seq |-> emitted + 1])
          /\ UNCHANGED <<subs, up, faults, running, ask, mode, asked, since>>
      BY <1>0, <1>1 DEF Emit, SessionTypeOK
    <2>2. emitted + 1 \in 1..MaxItems
      BY <2>1
    <2>3. LinksTypeOK'
      BY <2>1, <2>2, BroadcastType, FramesAreFrames
    <2>4. QED BY <1>0, <2>1, <2>2, <2>3 DEF SessionTypeOK
  <1>2. CASE TurnEnds
    <2>1. /\ running' = FALSE /\ asked' = 0 /\ Broadcast(Plain("turn_done"))
          /\ UNCHANGED <<subs, up, faults, ask, mode, emitted, since>>
      BY <1>2 DEF TurnEnds
    <2>2. LinksTypeOK'
      BY <2>1, BroadcastType, FramesAreFrames
    <2>3. running' \in BOOLEAN /\ asked' \in 0..MaxAsks
      <3>1. running' \in BOOLEAN
        BY <2>1, Zenon
      <3>2. asked' \in 0..MaxAsks
        BY <2>1
      <3>3. QED BY <3>1, <3>2
    <2>4. QED BY <1>0, <2>1, <2>2, <2>3 DEF SessionTypeOK
  <1>3. CASE Restart
    <2>1. faults' \in 0..MaxFaults
      BY <1>3 DEF Restart, TypeOK, LinksTypeOK
    <2>2. LinksTypeOK'
      BY <1>3, <2>1 DEF Restart, TypeOK, LinksTypeOK
    <2>3. NoAsk \in [by : {"nobody", "agent", "switch"}, target : Mode]
      BY DEF NoAsk
    <2>4. /\ ask' \in [Req -> [by : {"nobody", "agent", "switch"}, target : Mode]]
          /\ since' \in [Link -> 0..MaxItems]
      BY <1>3, <2>3 DEF Restart
    <2>5. /\ running' \in BOOLEAN /\ mode' = DefaultMode /\ asked' \in 0..MaxAsks
          /\ emitted' = emitted
      <3>1. running' \in BOOLEAN
        BY <1>3, Zenon DEF Restart
      <3>2. mode' = DefaultMode /\ asked' \in 0..MaxAsks /\ emitted' = emitted
        BY <1>3 DEF Restart
      <3>3. QED BY <3>1, <3>2
    <2>6. QED BY <1>0, <2>2, <2>4, <2>5 DEF SessionTypeOK
  <1>4. ASSUME NEW r \in Req, ConfirmTimeout(r)
        PROVE  LinksTypeOK' /\ SessionTypeOK'
    <2>1. /\ Broadcast(ConfirmFrame("confirm_timeout", r)) /\ Settle({r}, FALSE)
          /\ UNCHANGED <<subs, up, faults, running, asked, emitted, since>>
      BY <1>4 DEF ConfirmTimeout
    <2>2. LinksTypeOK'
      BY <2>1, BroadcastType, FramesAreFrames
    <2>3. ask' \in [Req -> [by : {"nobody", "agent", "switch"}, target : Mode]] /\ mode' \in Mode
      BY <2>1, SettleType
    <2>4. QED BY <1>0, <2>1, <2>2, <2>3 DEF SessionTypeOK
  <1>5. ASSUME NEW r \in Req, AgentAsks(r)
        PROVE  LinksTypeOK' /\ SessionTypeOK'
    <2>1. /\ asked < MaxAsks /\ asked' = asked + 1 /\ OnConfirmRequest(r, "agent", DefaultMode)
          /\ UNCHANGED <<subs, up, faults, running, mode, emitted, since>>
      BY <1>5 DEF AgentAsks
    <2>2. LinksTypeOK' /\ ask' \in [Req -> [by : {"nobody", "agent", "switch"}, target : Mode]]
      BY <2>1, OnConfirmRequestType
    <2>3. asked' \in 0..MaxAsks
      BY <1>0, <2>1 DEF SessionTypeOK
    <2>4. QED BY <1>0, <2>1, <2>2, <2>3 DEF SessionTypeOK
  <1>6. ASSUME NEW r \in Req, NEW m \in Mode, HandleSwitchWorkMode(r, m)
        PROVE  LinksTypeOK' /\ SessionTypeOK'
    <2>1. /\ OnConfirmRequest(r, "switch", m)
          /\ UNCHANGED <<subs, up, faults, running, mode, asked, emitted, since>>
      BY <1>6 DEF HandleSwitchWorkMode
    <2>2. LinksTypeOK' /\ ask' \in [Req -> [by : {"nobody", "agent", "switch"}, target : Mode]]
      BY <2>1, OnConfirmRequestType
    <2>3. QED BY <1>0, <2>1, <2>2 DEF SessionTypeOK
  <1>7. ASSUME NEW l \in Link, Drop(l)
        PROVE  LinksTypeOK' /\ SessionTypeOK'
    <2>1. /\ subs' = subs \ {l} /\ since' = [since EXCEPT ![l] = 0]
          /\ Settle(Pending, FALSE) \/ UNCHANGED <<ask, mode>>
          /\ UNCHANGED <<up, wire, faults, running, asked, emitted>>
      BY <1>7 DEF Drop, Without
    <2>2. ask' \in [Req -> [by : {"nobody", "agent", "switch"}, target : Mode]] /\ mode' \in Mode
      <3>1. Pending \in SUBSET Req
        BY DEF Pending
      <3>2. QED BY <1>0, <2>1, <3>1, SettleType DEF SessionTypeOK
    <2>3. QED BY <1>0, <2>1, <2>2 DEF SessionTypeOK, TypeOK, LinksTypeOK
  <1>8. QED BY <1>1, <1>2, <1>3, <1>4, <1>5, <1>6, <1>7 DEF ServerStep

LEMMA MessageTypes ==
  ASSUME TypeOK, up \subseteq subs, NEW hasProject, NEW answer, HandleMessage(hasProject, answer)
  PROVE  LinksTypeOK' /\ SessionTypeOK'
  <1>1. CASE answer = "accepted"
    <2>1. /\ running' = TRUE /\ asked' = 0 /\ Broadcast(Plain("turn_start"))
          /\ UNCHANGED <<subs, up, faults, ask, mode, emitted, since>>
      BY <1>1 DEF HandleMessage
    <2>2. LinksTypeOK'
      BY <2>1, BroadcastType, FramesAreFrames
    <2>3. QED BY <2>1, <2>2 DEF TypeOK, SessionTypeOK
  <1>2. CASE answer # "accepted"
    BY <1>2, TypesKept DEF HandleMessage
  <1>3. QED BY <1>1, <1>2

LEMMA EventsTypes ==
  ASSUME TypeOK, NEW l \in Link, NEW arrives \in BOOLEAN, HandleEvents(l, arrives)
  PROVE  LinksTypeOK' /\ SessionTypeOK'
  <1>1. Hello \in Frame
    BY HelloIsFrame
  <1>2. <<Hello>> \in Seq(Frame) /\ Len(<<Hello>>) <= MaxWire
    BY <1>1
  <1>3. wire' \in Wires /\ \A k \in Link : Len(wire'[k]) <= MaxWire
    BY <1>2, WireTypes DEF HandleEvents, Wires
  <1>4. LinksTypeOK'
    BY <1>3 DEF HandleEvents, TypeOK, LinksTypeOK, Wires
  <1>5. QED BY <1>4 DEF HandleEvents, TypeOK, SessionTypeOK

LEMMA LinksEmptied ==
  ASSUME TypeOK, NEW l, UNCHANGED <<subs, up, faults>>, wire' = [wire EXCEPT ![l] = <<>>]
  PROVE  LinksTypeOK'
  <1>1. <<>> \in Seq(Frame) /\ Len(<<>>) <= MaxWire
    OBVIOUS
  <1>2. wire' \in Wires /\ \A k \in Link : Len(wire'[k]) <= MaxWire
    BY <1>1, WireTypes DEF Wires
  <1>3. QED BY <1>2 DEF TypeOK, LinksTypeOK, Wires

LEMMA ReadTypes ==
  ASSUME TypeOK, NEW c \in Client, Read(c)
  PROVE  LinksTypeOK' /\ ClientTypeOK'
  <1>1. PICK l \in Link :
          /\ wire[l] # <<>> /\ wire' = [wire EXCEPT ![l] = Tail(@)]
          /\ LET f == Head(wire[l]) IN
               /\ inFlight' = [inFlight EXCEPT ![c] = GateAfter(c, f)]
               /\ confirms' = [confirms EXCEPT ![c] = CardsAfter(c, f)]
               /\ seen' = IF f.type = "item" THEN [seen EXCEPT ![c] = Append(@, f.seq)] ELSE seen
          /\ UNCHANGED <<subs, up, faults, status, attempts, slot, prompt, sent, okAnswers>>
    BY DEF Read
  <1>2. PICK f \in Frame : f = Head(wire[l])
    BY <1>1, WireTypes, TailUnder, Shortened DEF Wires
  <1>3. wire[l] \in Seq(Frame) /\ Len(wire[l]) <= MaxWire /\ wire \in Wires
    BY WireTypes DEF Wires
  <1>4. PICK z : z = Tail(wire[l])
    OBVIOUS
  <1>5. z \in Seq(Frame) /\ Len(z) <= MaxWire
    <2>1. z \in Seq(Frame) /\ Len(wire[l]) \in Nat /\ Len(z) = Len(wire[l]) - 1
      BY <1>1, <1>3, <1>4, Shortened
    <2>2. QED BY <1>3, <2>1
  <1>6. wire' \in Wires /\ \A k \in Link : Len(wire'[k]) <= MaxWire
    BY <1>1, <1>4, <1>5, WireTypes DEF Wires
  <1>7. LinksTypeOK'
    BY <1>1, <1>6 DEF TypeOK, LinksTypeOK, Wires
  <1>8. GateAfter(c, f) \in BOOLEAN
    <2>1. f.type = "hello" => f.running \in BOOLEAN
      BY DEF Frame
    <2>2. inFlight[c] \in BOOLEAN
      BY DEF TypeOK, ClientTypeOK
    <2>3. QED BY <2>1, <2>2 DEF GateAfter
  <1>9. CardsAfter(c, f) \in SUBSET Req
    <2>1. /\ f.type = "hello" => f.asks \in SUBSET Req
          /\ f.type \in {"confirm_request", "confirm_timeout"} => f.req \in Req
      BY DEF Frame
    <2>2. confirms[c] \in SUBSET Req
      BY DEF TypeOK, ClientTypeOK
    <2>3. QED BY <2>1, <2>2 DEF CardsAfter
  <1>10. seen' \in [Client -> Seq(1..MaxItems)]
    <2>1. seen \in [Client -> Seq(1..MaxItems)]
      BY DEF TypeOK, ClientTypeOK
    <2>2. CASE f.type = "item"
      <3>1. f.seq \in 1..MaxItems
        BY <2>2 DEF Frame
      <3>2. Append(seen[c], f.seq) \in Seq(1..MaxItems)
        BY <2>1, <3>1
      <3>3. seen' = [seen EXCEPT ![c] = Append(seen[c], f.seq)]
        BY <1>1, <1>2, <2>2
      <3>4. QED BY <2>1, <3>2, <3>3
    <2>3. CASE f.type # "item"
      BY <1>1, <1>2, <2>1, <2>3
    <2>4. QED BY <2>2, <2>3
  <1>11. inFlight' \in [Client -> BOOLEAN] /\ confirms' \in [Client -> SUBSET Req]
    <2>1. inFlight' = [inFlight EXCEPT ![c] = GateAfter(c, f)]
          /\ confirms' = [confirms EXCEPT ![c] = CardsAfter(c, f)]
      BY <1>1, <1>2
    <2>2. QED BY <1>8, <1>9, <2>1 DEF TypeOK, ClientTypeOK
  <1>12. ClientTypeOK'
    BY <1>1, <1>10, <1>11 DEF TypeOK, ClientTypeOK
  <1>13. QED BY <1>7, <1>12

LEMMA ScheduleTypes ==
  ASSUME TypeOK, NEW c \in Client, ScheduleReconnect(c)
  PROVE  /\ status' \in [Client -> {"closed", "connecting", "open", "reconnecting", "stopped"}]
         /\ attempts' \in [Client -> 0..MaxAttempts]
  <1>1. attempts \in [Client -> 0..MaxAttempts]
    BY DEF TypeOK, ClientTypeOK
  <1>2. attempts[c] < MaxAttempts => attempts[c] + 1 \in 0..MaxAttempts
    BY <1>1
  <1>3. attempts' \in {attempts, [attempts EXCEPT ![c] = attempts[c] + 1]}
        /\ (attempts' # attempts => attempts[c] < MaxAttempts)
    BY <1>1 DEF ScheduleReconnect
  <1>4. attempts' \in [Client -> 0..MaxAttempts]
    BY <1>1, <1>2, <1>3
  <1>5. QED BY <1>4 DEF ScheduleReconnect, TypeOK, ClientTypeOK

LEMMA ClientTypes ==
  ASSUME TypeOK, NEW c \in Client, ClientStep(c)
  PROVE  LinksTypeOK' /\ ClientTypeOK'
  <1>0. ClientTypeOK
    BY DEF TypeOK
  <1>1. CASE OpenSession(c) /\ UNCHANGED linkVars
    BY <1>0, <1>1, TypesKept DEF OpenSession, ClientTypeOK
  <1>2. CASE OpenDenied(c)
    BY <1>0, <1>2 DEF OpenDenied, ClientTypeOK, TypeOK, LinksTypeOK, linkVars
  <1>3. CASE ReconnectNow(c)
    BY <1>0, <1>3 DEF ReconnectNow, ClientTypeOK, TypeOK, LinksTypeOK, linkVars
  <1>4. CASE Notice(c)
    <2>1. LinksTypeOK'
      BY <1>4, LinksEmptied DEF Notice
    <2>2. QED BY <1>0, <1>4, <2>1, ScheduleTypes DEF Notice, ClientTypeOK
  <1>5. CASE Read(c)
    BY <1>5, ReadTypes
  <1>6. CASE Submit(c)
    BY <1>0, <1>6 DEF Submit, ClientTypeOK, TypeOK, LinksTypeOK, linkVars
  <1>7. CASE SubmitEnds(c)
    <2>1. /\ prompt' = [prompt EXCEPT ![c] = "idle"] /\ inFlight' = [inFlight EXCEPT ![c] = FALSE]
          /\ UNCHANGED <<linkVars, status, attempts, slot, confirms, seen, sent, okAnswers>>
      BY <1>7 DEF SubmitEnds
    <2>2. inFlight' \in [Client -> BOOLEAN]
      BY <1>0, <2>1 DEF ClientTypeOK
    <2>3. QED BY <1>0, <2>1, <2>2, TypesKept DEF ClientTypeOK
  <1>8. ASSUME NEW l \in Link, Cut(l)
        PROVE  LinksTypeOK' /\ ClientTypeOK'
    <2>1. faults' \in 0..MaxFaults
      BY <1>8 DEF Cut, TypeOK, LinksTypeOK
    <2>2. QED BY <1>0, <1>8, <2>1 DEF Cut, ClientTypeOK, TypeOK, LinksTypeOK
  <1>9. ASSUME NEW r \in Req, NEW v \in BOOLEAN, Decide(c, r, v)
        PROVE  LinksTypeOK' /\ ClientTypeOK'
    BY <1>0, <1>9, TypesKept DEF Decide, ClientTypeOK
  <1>10. ASSUME NEW r \in Req, NEW v \in BOOLEAN, DecisionAnswered(c, r, v)
         PROVE  LinksTypeOK' /\ ClientTypeOK'
    <2>1. confirms' \in [Client -> SUBSET Req]
      BY <1>0, <1>10 DEF DecisionAnswered, ClientTypeOK
    <2>2. QED BY <1>0, <1>10, <2>1, TypesKept DEF DecisionAnswered, ClientTypeOK
  <1>11. <<c, 1>> \in Link /\ <<c, 2>> \in Link
    BY DEF Link
  <1>12. QED BY <1>1, <1>2, <1>3, <1>4, <1>5, <1>6, <1>7, <1>8, <1>9, <1>10, <1>11 DEF ClientStep

LEMMA DecisionTypes ==
  ASSUME TypeOK, NEW c \in Client, NEW r \in Req, NEW v, NEW ok, DecisionArrives(c, r, v, ok)
  PROVE  ClientTypeOK'
  BY DEF DecisionArrives, TypeOK, ClientTypeOK

LEMMA ConfirmTypes ==
  ASSUME TypeOK, NEW c \in Client, NEW r \in Req, NEW v \in BOOLEAN, Confirm(c, r, v)
  PROVE  TypeOK'
  <1>1. CASE HandleConfirm(r, v) /\ DecisionArrives(c, r, v, TRUE)
    <2>1. /\ Settle({r}, v) /\ UNCHANGED linkVars
          /\ UNCHANGED <<running, asked, emitted, since>>
      BY <1>1 DEF HandleConfirm
    <2>2. ask' \in [Req -> [by : {"nobody", "agent", "switch"}, target : Mode]] /\ mode' \in Mode
      BY <2>1, SettleType
    <2>3. SessionTypeOK'
      BY <2>1, <2>2 DEF TypeOK, SessionTypeOK
    <2>4. ClientTypeOK'
      BY <1>1, DecisionTypes
    <2>5. QED BY <2>1, <2>3, <2>4, TypesKept, TypeNext
  <1>2. CASE /\ r \notin Pending /\ UNCHANGED <<linkVars, sessionVars>>
             /\ DecisionArrives(c, r, v, FALSE)
    BY <1>2, DecisionTypes, TypesKept, TypeNext
  <1>3. QED BY <1>1, <1>2 DEF Confirm

LEMMA AnswerTypes ==
  ASSUME TypeOK, NEW c \in Client, NEW answer \in {"accepted", "refused", "malformed"},
         SubmitAnswered(c, answer)
  PROVE  ClientTypeOK'
  BY DEF SubmitAnswered, TypeOK, ClientTypeOK

LEMMA OtherIsLink ==
  ASSUME TypeOK, NEW c \in Client
  PROVE  /\ Other(c) \in Link /\ Current(c) \in Link /\ Other(c)[1] = c /\ Current(c)[1] = c
         /\ Other(c) # Current(c)
         /\ \A l \in Link : l[1] \in Client /\ l[2] \in {1, 2} /\ l = <<l[1], l[2]>>
  <1>1. slot[c] \in {1, 2} /\ 3 - slot[c] \in {1, 2} /\ 3 - slot[c] # slot[c]
    <2>1. slot[c] \in {1, 2}
      BY DEF TypeOK, ClientTypeOK
    <2>2. QED BY <2>1
  <1>2. QED BY <1>1 DEF Other, Current, Link

LEMMA OpenedTypes ==
  ASSUME TypeOK, NEW c \in Client, Opened(c)
  PROVE  ClientTypeOK'
  <1>1. 3 - slot[c] \in {1, 2}
    <2>1. slot[c] \in {1, 2}
      BY DEF TypeOK, ClientTypeOK
    <2>2. QED BY <2>1
  <1>2. QED BY <1>1 DEF Opened, TypeOK, ClientTypeOK

LEMMA OpenFailsTypes ==
  ASSUME TypeOK, NEW c \in Client, OpenFails(c)
  PROVE  ClientTypeOK'
  BY ScheduleTypes DEF OpenFails, TypeOK, ClientTypeOK

LEMMA NextTypeOK ==
  ASSUME TypeOK, up \subseteq subs, [Next]_vars
  PROVE  TypeOK'
  <1>1. CASE ServerStep /\ UNCHANGED clientVars
    BY <1>1, ServerTypes, TypesKept, TypeNext
  <1>2. ASSUME NEW c \in Client, ClientStep(c) /\ UNCHANGED sessionVars PROVE TypeOK'
    BY <1>2, ClientTypes, TypesKept, TypeNext
  <1>3. CASE ApiMessage
    BY <1>3, MessageTypes, TypesKept, TypeNext DEF ApiMessage
  <1>4. ASSUME NEW c \in Client, MessageArrives(c) PROVE TypeOK'
    BY <1>4, MessageTypes, AnswerTypes, TypeNext DEF MessageArrives
  <1>5. ASSUME NEW c \in Client, Connect(c) PROVE TypeOK'
    BY <1>5, OtherIsLink, EventsTypes, OpenedTypes, TypeNext DEF Connect
  <1>6. ASSUME NEW c \in Client, ConnectLost(c) PROVE TypeOK'
    BY <1>6, OtherIsLink, EventsTypes, OpenFailsTypes, TypeNext DEF ConnectLost
  <1>7. ASSUME NEW c \in Client, ConnectFails(c) PROVE TypeOK'
    BY <1>7, OpenFailsTypes, TypesKept, TypeNext DEF ConnectFails
  <1>8. ASSUME NEW c \in Client, NEW r \in Req, NEW v \in BOOLEAN, Confirm(c, r, v) PROVE TypeOK'
    BY <1>8, ConfirmTypes
  <1>9. CASE UNCHANGED vars
    BY <1>9, TypesKept, TypeNext DEF vars
  <1>10. QED BY <1>1, <1>2, <1>3, <1>4, <1>5, <1>6, <1>7, <1>8, <1>9 DEF Next

-----------------------------------------------------------------------------

(***************************************************************************)
(* The connections that carry data are the ones that are read.             *)
(***************************************************************************)
LEMMA ServerUp ==
  ASSUME TypeOK, UpIsRead, ServerStep, UNCHANGED clientVars
  PROVE  UpIsRead'
  <1>1. status' = status /\ slot' = slot
    BY DEF clientVars
  <1>2. CASE subs' = subs /\ up' = up
    BY <1>1, <1>2 DEF UpIsRead, Current
  <1>3. CASE Restart
    <2>1. up' = {} /\ subs' = {}
      BY <1>3 DEF Restart
    <2>2. QED BY <2>1 DEF UpIsRead
  <1>4. ASSUME NEW l \in Link, Drop(l) PROVE UpIsRead'
    <2>1. up' = up /\ l \notin up /\ subs' = subs \ {l}
      BY <1>4 DEF Drop, Without
    <2>2. QED BY <1>1, <2>1 DEF UpIsRead, Current
  <1>5. QED BY <1>2, <1>3, <1>4
            DEF ServerStep, Emit, TurnEnds, ConfirmTimeout, AgentAsks, HandleSwitchWorkMode

LEMMA OpeningIsDown ==
  ASSUME TypeOK, UpIsRead, NEW c \in Client, status[c] # "open" \/ Current(c) \notin up
  PROVE  \A l \in up : l \in Link /\ l[1] \in Client /\ l[1] # c
  BY OtherIsLink DEF UpIsRead, TypeOK, LinksTypeOK

LEMMA ClientUp ==
  ASSUME TypeOK, UpIsRead, NEW c \in Client, ClientStep(c)
  PROVE  UpIsRead'
  <1>1. CASE \/ OpenSession(c) /\ UNCHANGED linkVars
             \/ OpenDenied(c) \/ ReconnectNow(c)
    <2>1. status[c] # "open" /\ slot' = slot /\ up' = up /\ subs' = subs
          /\ \E s : status' = [status EXCEPT ![c] = s]
      BY <1>1 DEF OpenSession, OpenDenied, ReconnectNow, Opening, linkVars
    <2>2. \A l \in up : status'[l[1]] = status[l[1]]
      BY <2>1, OpeningIsDown DEF TypeOK, ClientTypeOK
    <2>3. QED BY <2>1, <2>2 DEF UpIsRead, Current
  <1>2. CASE Notice(c)
    <2>1. /\ Current(c) \notin up /\ slot' = slot /\ up' = up /\ subs' = subs
          /\ \E s : status' = [status EXCEPT ![c] = s]
      BY <1>2 DEF Notice, ScheduleReconnect
    <2>2. \A l \in up : status'[l[1]] = status[l[1]]
      BY <2>1, OpeningIsDown DEF TypeOK, ClientTypeOK
    <2>3. QED BY <2>1, <2>2 DEF UpIsRead, Current
  <1>3. CASE Read(c) \/ Submit(c) \/ SubmitEnds(c)
    <2>1. UNCHANGED <<subs, up, status, slot>>
      BY <1>3 DEF Read, Submit, SubmitEnds, linkVars
    <2>2. QED BY <2>1 DEF UpIsRead, Current
  <1>4. ASSUME NEW l, Cut(l) PROVE UpIsRead'
    <2>1. up' = up \ {l} /\ UNCHANGED <<subs, status, slot>>
      BY <1>4 DEF Cut
    <2>2. QED BY <2>1 DEF UpIsRead, Current
  <1>5. ASSUME NEW r \in Req, NEW v \in BOOLEAN, Decide(c, r, v) \/ DecisionAnswered(c, r, v)
        PROVE  UpIsRead'
    <2>1. UNCHANGED <<subs, up, status, slot>>
      BY <1>5 DEF Decide, DecisionAnswered, linkVars
    <2>2. QED BY <2>1 DEF UpIsRead, Current
  <1>6. QED BY <1>1, <1>2, <1>3, <1>4, <1>5 DEF ClientStep

LEMMA ConnectUp ==
  ASSUME TypeOK, UpIsRead, NEW c \in Client, Connect(c)
  PROVE  UpIsRead'
  <1>1. /\ status[c] # "open" /\ status' = [status EXCEPT ![c] = "open"]
        /\ slot' = [slot EXCEPT ![c] = 3 - slot[c]]
        /\ subs' = subs \cup {Other(c)} /\ up' = up \cup {Other(c)}
    BY DEF Connect, Opened, Opening, HandleEvents
  <1>2. \A l \in up : l \in Link /\ l[1] \in Client /\ l[1] # c
    BY <1>1, OpeningIsDown
  <1>3. /\ \A d \in Client : d # c => status'[d] = status[d] /\ slot'[d] = slot[d]
        /\ status'[c] = "open" /\ slot'[c] = 3 - slot[c]
    BY <1>1 DEF TypeOK, ClientTypeOK
  <1>4. Other(c) = <<c, 3 - slot[c]>> /\ Other(c)[1] = c
    BY OtherIsLink DEF Other
  <1>5. QED BY <1>1, <1>2, <1>3, <1>4 DEF UpIsRead, Current

LEMMA OpenFailsUp ==
  ASSUME TypeOK, UpIsRead, NEW c \in Client, OpenFails(c), up' = up, subs \subseteq subs'
  PROVE  UpIsRead'
  <1>1. status[c] # "open" /\ slot' = slot /\ \E s : status' = [status EXCEPT ![c] = s]
    BY DEF OpenFails, Opening, ScheduleReconnect
  <1>2. \A l \in up : status'[l[1]] = status[l[1]]
    BY <1>1, OpeningIsDown DEF TypeOK, ClientTypeOK
  <1>3. QED BY <1>1, <1>2 DEF UpIsRead, Current

LEMMA NextUpIsRead ==
  ASSUME TypeOK, UpIsRead, [Next]_vars
  PROVE  UpIsRead'
  <1>1. CASE ServerStep /\ UNCHANGED clientVars
    BY <1>1, ServerUp
  <1>2. ASSUME NEW c \in Client, ClientStep(c) PROVE UpIsRead'
    BY <1>2, ClientUp
  <1>3. CASE UNCHANGED <<subs, up, status, slot>>
    BY <1>3 DEF UpIsRead, Current
  <1>4. CASE ApiMessage \/ \E c \in Client : MessageArrives(c)
    BY <1>3, <1>4 DEF ApiMessage, MessageArrives, HandleMessage, SubmitAnswered, clientVars, linkVars
  <1>5. ASSUME NEW c \in Client, Connect(c) PROVE UpIsRead'
    BY <1>5, ConnectUp
  <1>6. ASSUME NEW c \in Client, ConnectLost(c) PROVE UpIsRead'
    BY <1>6, OpenFailsUp DEF ConnectLost, HandleEvents
  <1>7. ASSUME NEW c \in Client, ConnectFails(c) PROVE UpIsRead'
    BY <1>7, OpenFailsUp DEF ConnectFails, linkVars
  <1>8. ASSUME NEW c \in Client, NEW r \in Req, NEW v \in BOOLEAN, Confirm(c, r, v) PROVE UpIsRead'
    BY <1>3, <1>8 DEF Confirm, HandleConfirm, DecisionArrives, linkVars
  <1>9. CASE UNCHANGED vars
    BY <1>3, <1>9 DEF vars, linkVars, clientVars
  <1>10. QED BY <1>1, <1>2, <1>4, <1>5, <1>6, <1>7, <1>8, <1>9 DEF Next

-----------------------------------------------------------------------------

(***************************************************************************)
(* What a step may do to the connections that carry data: nothing but cut  *)
(* them, write one frame to all of them, let one be read, add one.         *)
(***************************************************************************)
Quiet == up' \subseteq up /\ \A l \in up' : wire'[l] = wire[l]

LEMMA UpAreLinks ==
  ASSUME TypeOK, UpIsRead
  PROVE  /\ \A l \in up : l \in Link /\ l[1] \in Client /\ l = Current(l[1])
         /\ \A l \in up, c \in Client : l[1] = c <=> l = Current(c)
  <1>1. up \subseteq Link
    BY DEF TypeOK, LinksTypeOK
  <1>2. \A l \in up : l \in Link /\ l[1] \in Client /\ l = Current(l[1])
    BY <1>1 DEF UpIsRead, Link
  <1>3. \A c \in Client : Current(c)[1] = c
    BY OtherIsLink
  <1>4. QED BY <1>2, <1>3

LEMMA BroadcastUp ==
  ASSUME TypeOK, UpIsRead, NEW frame \in Frame, Broadcast(frame), NEW l \in up
  PROVE  /\ wire[l] \in Seq(Frame) /\ wire'[l] = Append(wire[l], frame)
         /\ Len(wire[l]) \in Nat /\ Len(wire'[l]) = Len(wire[l]) + 1
         /\ \A i \in 1..Len(wire[l]) : wire'[l][i] = wire[l][i]
         /\ wire'[l][Len(wire[l]) + 1] = frame
         /\ Under(l)' = Under(l) \cup {frame}
  <1>1. wire \in Wires /\ l \in Link /\ up \subseteq subs
    BY WireTypes, UpAreLinks DEF UpIsRead
  <1>2. wire[l] \in Seq(Frame) /\ wire'[l] = Append(wire[l], frame)
    BY <1>1, BroadcastWrites DEF Wires
  <1>3. QED BY <1>1, <1>2, Appended, AppendUnder

LEMMA ReadUp ==
  ASSUME TypeOK, UpIsRead, NEW c \in Client, Read(c)
  PROVE  \E f \in Frame, l \in Link :
           /\ l = Current(c) /\ wire[l] \in Seq(Frame) /\ wire[l] # <<>>
           /\ f = wire[l][1] /\ 1 \in 1..Len(wire[l]) /\ wire'[l] = Tail(wire[l])
           /\ Len(wire[l]) \in Nat /\ Len(wire'[l]) = Len(wire[l]) - 1
           /\ \A i \in 1..Len(wire'[l]) : wire'[l][i] = wire[l][i + 1]
           /\ Under(l) = Under(l)' \cup {f}
           /\ \A k \in Link : k # l => wire'[k] = wire[k] /\ Under(k)' = Under(k)
           /\ inFlight' = [inFlight EXCEPT ![c] = GateAfter(c, f)]
           /\ confirms' = [confirms EXCEPT ![c] = CardsAfter(c, f)]
           /\ seen' = IF f.type = "item" THEN [seen EXCEPT ![c] = Append(@, f.seq)] ELSE seen
           /\ UNCHANGED <<subs, up, faults, status, attempts, slot, prompt, sent, okAnswers>>
  <1>1. PICK l \in Link :
          /\ ReadsFrom(c, l) /\ wire[l] # <<>>
          /\ LET f == Head(wire[l]) IN
               /\ inFlight' = [inFlight EXCEPT ![c] = GateAfter(c, f)]
               /\ confirms' = [confirms EXCEPT ![c] = CardsAfter(c, f)]
               /\ seen' = IF f.type = "item" THEN [seen EXCEPT ![c] = Append(@, f.seq)] ELSE seen
          /\ wire' = [wire EXCEPT ![l] = Tail(@)]
          /\ UNCHANGED <<subs, up, faults, status, attempts, slot, prompt, sent, okAnswers>>
    BY DEF Read
  <1>2. wire \in Wires /\ wire[l] \in Seq(Frame) /\ l = Current(c)
    BY <1>1, WireTypes DEF Wires, ReadsFrom
  <1>3. wire'[l] = Tail(wire[l]) /\ (\A k \in Link : k # l => wire'[k] = wire[k])
    BY <1>1, <1>2 DEF Wires
  <1>4. PICK f \in Frame : f = Head(wire[l])
    BY <1>1, <1>2, Shortened
  <1>5. /\ Len(wire[l]) \in Nat /\ Len(wire[l]) > 0 /\ Len(wire'[l]) = Len(wire[l]) - 1
        /\ \A i \in 1..Len(wire'[l]) : wire'[l][i] = wire[l][i + 1]
        /\ wire[l][1] = f
    <2>1. wire[l] # <<>> /\ wire[l] \in Seq(Frame) /\ wire'[l] = Tail(wire[l])
      BY <1>1, <1>2, <1>3
    <2>2. QED BY <1>4, <2>1, Shortened
  <1>6. Under(l) = Under(l)' \cup {f}
    BY <1>1, <1>2, <1>3, <1>4, TailUnder
  <1>7. \A k \in Link : k # l => Under(k)' = Under(k)
    BY <1>3 DEF Under
  <1>8. 1 \in 1..Len(wire[l])
    BY <1>5
  <1>9. /\ inFlight' = [inFlight EXCEPT ![c] = GateAfter(c, f)]
        /\ confirms' = [confirms EXCEPT ![c] = CardsAfter(c, f)]
        /\ seen' = IF f.type = "item" THEN [seen EXCEPT ![c] = Append(@, f.seq)] ELSE seen
    BY <1>1, <1>4
  <1>10. wire[l] # <<>> /\ UNCHANGED <<subs, up, faults, status, attempts, slot, prompt, sent, okAnswers>>
    BY <1>1
  <1> WITNESS f \in Frame, l \in Link
  <1>11. QED BY <1>2, <1>3, <1>5, <1>6, <1>7, <1>8, <1>9, <1>10

LEMMA ConnectUps ==
  ASSUME TypeOK, UpIsRead, NEW c \in Client, Connect(c)
  PROVE  \E l \in Link :
           /\ l \notin up /\ up' = up \cup {l} /\ l[1] = c /\ l = Current(c)'
           /\ wire'[l] = <<Hello>> /\ Hello \in Frame
           /\ Under(l)' = {Hello} /\ Len(wire'[l]) = 1 /\ wire'[l][1] = Hello
           /\ \A k \in Link : k # l => wire'[k] = wire[k] /\ Under(k)' = Under(k)
           /\ since' = [since EXCEPT ![l] = emitted]
           /\ \A k \in up : k[1] # c
           /\ UNCHANGED <<running, ask, mode, asked, emitted>>
           /\ UNCHANGED <<inFlight, prompt, confirms, seen, sent, okAnswers>>
           /\ slot' = [slot EXCEPT ![c] = 3 - slot[c]] /\ subs' = subs \cup {l}
  <1>1. PICK l \in Link : l = Other(c) /\ l[1] = c
    BY OtherIsLink
  <1>2. /\ l \notin subs \cup up /\ subs' = subs \cup {l} /\ up' = up \cup {l}
        /\ wire' = [wire EXCEPT ![l] = <<Hello>>] /\ since' = [since EXCEPT ![l] = emitted]
        /\ UNCHANGED <<faults, running, ask, mode, asked, emitted>>
    BY <1>1 DEF Connect, HandleEvents
  <1>3. /\ status[c] # "open" /\ slot' = [slot EXCEPT ![c] = 3 - slot[c]]
        /\ UNCHANGED <<inFlight, prompt, confirms, seen, sent, okAnswers>>
    BY DEF Connect, Opened, Opening
  <1>4. wire'[l] = <<Hello>> /\ (\A k \in Link : k # l => wire'[k] = wire[k])
    BY <1>2, WireTypes DEF Wires
  <1>5. Under(l)' = {Hello} /\ Len(wire'[l]) = 1 /\ wire'[l][1] = Hello
    BY <1>4 DEF Under
  <1>6. \A k \in Link : k # l => Under(k)' = Under(k)
    BY <1>4 DEF Under
  <1>7. l = Current(c)'
    BY <1>1, <1>3 DEF Other, Current, TypeOK, ClientTypeOK
  <1>8. \A k \in up : k[1] # c
    BY <1>3, OpeningIsDown
  <1>9. QED BY <1>1, <1>2, <1>3, <1>4, <1>5, <1>6, <1>7, <1>8, HelloIsFrame

-----------------------------------------------------------------------------

(***************************************************************************)
(* The gate.                                                               *)
(***************************************************************************)
LEMMA GateQuiet ==
  ASSUME GateInv, Quiet, up' = {} \/ (running' <=> running),
         \A l \in up' : prompt'[l[1]] = "idle" /\ inFlight'[l[1]] =>
                          prompt[l[1]] = "idle" /\ inFlight[l[1]]
  PROVE  GateInv'
  <1>1. \A l \in up' : l \in up /\ Under(l)' = Under(l) /\ wire'[l] = wire[l]
    BY DEF Quiet, Under
  <1>2. GateIsComing'
    BY <1>1 DEF GateInv, GateIsComing, LastSetsGate
  <1>3. GateIsRight'
    BY <1>1 DEF GateInv, GateIsRight
  <1>4. QED BY <1>2, <1>3 DEF GateInv

LEMMA GateBroadcast ==
  ASSUME TypeOK, UpIsRead, GateInv, NEW frame \in Frame, Broadcast(frame), up' = up,
         IF SetsGate(frame) THEN running' <=> SaysRunning(frame) ELSE running' <=> running,
         prompt' = prompt, inFlight' = inFlight
  PROVE  GateInv'
  <1>1. GateIsComing'
    <2> SUFFICES ASSUME NEW l \in up, NEW i \in 1..Len(wire'[l]), LastSetsGate(l, i)'
                 PROVE  SaysRunning(wire'[l][i]) <=> running'
      BY DEF GateIsComing
    <2>1. /\ Len(wire[l]) \in Nat /\ Len(wire'[l]) = Len(wire[l]) + 1
          /\ \A j \in 1..Len(wire[l]) : wire'[l][j] = wire[l][j]
          /\ wire'[l][Len(wire[l]) + 1] = frame
      BY BroadcastUp
    <2>2. /\ SetsGate(wire'[l][i])
          /\ \A j \in i + 1 .. Len(wire'[l]) : ~SetsGate(wire'[l][j])
      BY DEF LastSetsGate
    <2>3. CASE i = Len(wire[l]) + 1
      BY <2>1, <2>2, <2>3
    <2>4. CASE i # Len(wire[l]) + 1
      <3>1. i \in 1..Len(wire[l]) /\ Len(wire[l]) + 1 \in i + 1 .. Len(wire'[l])
        BY <2>1, <2>4
      <3>2. ~SetsGate(frame)
        BY <2>1, <2>2, <3>1
      <3>3. \A j \in i + 1 .. Len(wire[l]) : j \in i + 1 .. Len(wire'[l]) /\ j \in 1..Len(wire[l])
        BY <2>1, <3>1
      <3>4. LastSetsGate(l, i)
        BY <2>1, <2>2, <3>1, <3>3 DEF LastSetsGate
      <3>5. SaysRunning(wire[l][i]) <=> running
        BY <3>1, <3>4 DEF GateInv, GateIsComing
      <3>6. QED BY <2>1, <3>1, <3>2, <3>5
    <2>5. QED BY <2>3, <2>4
  <1>2. GateIsRight'
    <2>1. \A l \in up : Under(l)' = Under(l) \cup {frame}
      BY BroadcastUp
    <2>2. QED BY <2>1 DEF GateInv, GateIsRight
  <1>3. QED BY <1>1, <1>2 DEF GateInv

LEMMA GateOfFrame ==
  ASSUME NEW c \in Client, NEW f \in Frame
  PROVE  /\ SetsGate(f) => (GateAfter(c, f) <=> SaysRunning(f))
         /\ ~SetsGate(f) => (GateAfter(c, f) <=> inFlight[c])
  BY DEF SetsGate, SaysRunning, GateAfter

LEMMA GateRead ==
  ASSUME TypeOK, UpIsRead, GateInv, NEW c \in Client, Read(c), running' <=> running
  PROVE  GateInv'
  <1>1. PICK f \in Frame, l \in Link :
          /\ l = Current(c) /\ wire[l] \in Seq(Frame) /\ wire[l] # <<>>
          /\ f = wire[l][1] /\ 1 \in 1..Len(wire[l]) /\ wire'[l] = Tail(wire[l])
          /\ Len(wire[l]) \in Nat /\ Len(wire'[l]) = Len(wire[l]) - 1
          /\ \A i \in 1..Len(wire'[l]) : wire'[l][i] = wire[l][i + 1]
          /\ Under(l) = Under(l)' \cup {f}
          /\ \A k \in Link : k # l => wire'[k] = wire[k] /\ Under(k)' = Under(k)
          /\ inFlight' = [inFlight EXCEPT ![c] = GateAfter(c, f)]
          /\ up' = up /\ prompt' = prompt
    BY ReadUp
  <1>2. /\ \A k \in up : k \in Link /\ k[1] \in Client
        /\ \A k \in up : k[1] = c <=> k = l
    BY <1>1, UpAreLinks
  <1>3. GateIsComing'
    <2> SUFFICES ASSUME NEW k \in up, NEW i \in 1..Len(wire'[k]), LastSetsGate(k, i)'
                 PROVE  SaysRunning(wire'[k][i]) <=> running
      BY <1>1 DEF GateIsComing
    <2>1. CASE k # l
      BY <1>1, <1>2, <2>1 DEF GateInv, GateIsComing, LastSetsGate
    <2>2. CASE k = l
      <3>0. /\ Len(wire[k]) \in Nat /\ Len(wire'[k]) = Len(wire[k]) - 1
            /\ \A j \in 1..Len(wire'[k]) : wire'[k][j] = wire[k][j + 1]
        BY <1>1, <2>2
      <3>1. i + 1 \in 1..Len(wire[k]) /\ wire'[k][i] = wire[k][i + 1] /\ i \in Nat
        BY <3>0
      <3>2. \A j \in i + 2 .. Len(wire[k]) :
              j - 1 \in i + 1 .. Len(wire'[k]) /\ wire'[k][j - 1] = wire[k][j]
        <4> SUFFICES ASSUME NEW j \in i + 2 .. Len(wire[k])
                     PROVE  j - 1 \in i + 1 .. Len(wire'[k]) /\ wire'[k][j - 1] = wire[k][j]
          OBVIOUS
        <4>1. j - 1 \in i + 1 .. Len(wire'[k]) /\ j - 1 \in 1..Len(wire'[k]) /\ (j - 1) + 1 = j
          BY <3>0, <3>1
        <4>2. wire'[k][j - 1] = wire[k][(j - 1) + 1]
          BY <3>0, <4>1
        <4>3. QED BY <4>1, <4>2
      <3>3. SetsGate(wire'[k][i]) /\ \A j \in i + 1 .. Len(wire'[k]) : ~SetsGate(wire'[k][j])
        BY DEF LastSetsGate
      <3>4. (i + 1) + 1 = i + 2
        BY <3>1
      <3>5. LastSetsGate(k, i + 1)
        BY <3>1, <3>2, <3>3, <3>4 DEF LastSetsGate
      <3>6. QED BY <3>1, <3>5 DEF GateInv, GateIsComing
    <2>3. QED BY <2>1, <2>2
  <1>4. GateIsRight'
    <2> SUFFICES ASSUME NEW k \in up, \A g \in Under(k)' : ~SetsGate(g),
                        prompt[k[1]] = "idle", inFlight'[k[1]]
                 PROVE  running
      BY <1>1 DEF GateIsRight
    <2>1. CASE k # l
      <3>1. inFlight'[k[1]] <=> inFlight[k[1]]
        BY <1>1, <1>2, <2>1 DEF TypeOK, ClientTypeOK
      <3>2. QED BY <1>1, <1>2, <2>1, <3>1 DEF GateInv, GateIsRight
    <2>2. CASE k = l
      <3>1. inFlight'[c] <=> GateAfter(c, f)
        BY <1>1 DEF TypeOK, ClientTypeOK
      <3>2. k[1] = c
        BY <1>2, <2>2
      <3>3. CASE SetsGate(f)
        <4>1. \A j \in 1 + 1 .. Len(wire[k]) : ~SetsGate(wire[k][j])
          <5> SUFFICES ASSUME NEW j \in 1 + 1 .. Len(wire[k]) PROVE ~SetsGate(wire[k][j])
            OBVIOUS
          <5>0. /\ Len(wire[k]) \in Nat /\ Len(wire'[k]) = Len(wire[k]) - 1
                /\ \A i \in 1..Len(wire'[k]) : wire'[k][i] = wire[k][i + 1]
            BY <1>1, <2>2
          <5>1. j - 1 \in 1..Len(wire'[k]) /\ (j - 1) + 1 = j
            BY <5>0
          <5>2. wire'[k][j - 1] = wire[k][j]
            BY <5>0, <5>1
          <5>3. wire'[k][j - 1] \in Under(k)'
            BY <5>1 DEF Under
          <5>4. QED BY <5>2, <5>3
        <4>2. LastSetsGate(k, 1)
          BY <1>1, <2>2, <3>3, <4>1 DEF LastSetsGate
        <4>3. SaysRunning(f) <=> running
          BY <1>1, <2>2, <4>2 DEF GateInv, GateIsComing
        <4>4. QED BY <3>1, <3>2, <3>3, <4>3, GateOfFrame
      <3>4. CASE ~SetsGate(f)
        <4>1. \A g \in Under(k) : ~SetsGate(g)
          BY <1>1, <2>2, <3>4
        <4>2. inFlight[k[1]]
          BY <3>1, <3>2, <3>4, GateOfFrame
        <4>3. QED BY <4>1, <4>2 DEF GateInv, GateIsRight
      <3>5. QED BY <3>3, <3>4
    <2>3. QED BY <2>1, <2>2
  <1>5. QED BY <1>3, <1>4 DEF GateInv

LEMMA GateConnect ==
  ASSUME TypeOK, UpIsRead, GateInv, NEW c \in Client, Connect(c)
  PROVE  GateInv'
  <1>1. PICK l \in Link :
          /\ up' = up \cup {l} /\ l \notin up
          /\ Under(l)' = {Hello} /\ Len(wire'[l]) = 1 /\ wire'[l][1] = Hello
          /\ \A k \in Link : k # l => wire'[k] = wire[k] /\ Under(k)' = Under(k)
          /\ running' = running /\ inFlight' = inFlight /\ prompt' = prompt
    BY ConnectUps
  <1>2. \A k \in up : k \in Link
    BY UpAreLinks
  <1>3. SetsGate(Hello) /\ (SaysRunning(Hello) <=> running)
    BY DEF SetsGate, SaysRunning, Hello
  <1>4. GateIsComing'
    <2> SUFFICES ASSUME NEW k \in up', NEW i \in 1..Len(wire'[k]), LastSetsGate(k, i)'
                 PROVE  SaysRunning(wire'[k][i]) <=> running
      BY <1>1 DEF GateIsComing
    <2>1. CASE k = l
      BY <1>1, <1>3, <2>1
    <2>2. CASE k # l
      BY <1>1, <1>2, <2>2 DEF GateInv, GateIsComing, LastSetsGate
    <2>3. QED BY <2>1, <2>2
  <1>5. GateIsRight'
    BY <1>1, <1>2, <1>3 DEF GateInv, GateIsRight
  <1>6. QED BY <1>4, <1>5 DEF GateInv

LEMMA GateServer ==
  ASSUME TypeOK, UpIsRead, GateInv, ServerStep, UNCHANGED clientVars
  PROVE  GateInv'
  <1>1. prompt' = prompt /\ inFlight' = inFlight
    BY DEF clientVars
  <1>2. CASE Emit
    <2>1. PICK frame : frame = [type |-> "item", seq |-> emitted + 1]
      OBVIOUS
    <2>2. Broadcast(frame) /\ up' = up /\ running' = running
          /\ emitted < MaxItems /\ emitted \in Nat
      BY <1>2, <2>1 DEF Emit, TypeOK, SessionTypeOK
    <2>3. frame \in Frame /\ ~SetsGate(frame)
      <3>1. emitted + 1 \in 1..MaxItems
        BY <2>2
      <3>2. frame \in Frame
        BY <2>1, <3>1, FramesAreFrames
      <3>3. QED BY <2>1, <3>2 DEF SetsGate
    <2>4. QED BY <1>1, <2>2, <2>3, GateBroadcast
  <1>3. CASE TurnEnds
    <2>1. PICK frame : frame = Plain("turn_done")
      OBVIOUS
    <2>2. Broadcast(frame) /\ up' = up /\ running' = FALSE
      BY <1>3, <2>1 DEF TurnEnds
    <2>3. frame \in Frame /\ SetsGate(frame) /\ ~SaysRunning(frame)
      BY <2>1, FramesAreFrames DEF SetsGate, SaysRunning, Plain
    <2>4. QED BY <1>1, <2>2, <2>3, GateBroadcast
  <1>4. CASE Restart
    BY <1>4, GateQuiet DEF Restart, Quiet
  <1>5. ASSUME NEW r \in Req, NEW t \in {"confirm_request", "confirm_timeout"},
               Broadcast(ConfirmFrame(t, r)), up' = up, running' = running
        PROVE  GateInv'
    <2>1. ConfirmFrame(t, r) \in Frame /\ ~SetsGate(ConfirmFrame(t, r))
      BY FramesAreFrames DEF SetsGate, ConfirmFrame
    <2>2. QED BY <1>1, <1>5, <2>1, GateBroadcast
  <1>6. ASSUME up' = up, wire' = wire, running' = running PROVE GateInv'
    BY <1>1, <1>6, GateQuiet DEF Quiet
  <1>7. ASSUME NEW r \in Req, ConfirmTimeout(r) PROVE GateInv'
    BY <1>5, <1>7 DEF ConfirmTimeout
  <1>8. ASSUME NEW r \in Req,
               AgentAsks(r) \/ \E m \in Mode : HandleSwitchWorkMode(r, m)
        PROVE  GateInv'
    <2>1. up' = up /\ running' = running
          /\ (wire' = wire \/ Broadcast(ConfirmFrame("confirm_request", r)))
      BY <1>8 DEF AgentAsks, HandleSwitchWorkMode, OnConfirmRequest
    <2>2. QED BY <1>5, <1>6, <2>1
  <1>9. ASSUME NEW l \in Link, Drop(l) PROVE GateInv'
    BY <1>6, <1>9 DEF Drop
  <1>10. QED BY <1>2, <1>3, <1>4, <1>7, <1>8, <1>9 DEF ServerStep

LEMMA GateClient ==
  ASSUME TypeOK, UpIsRead, GateInv, NEW c \in Client, ClientStep(c), UNCHANGED sessionVars
  PROVE  GateInv'
  <1>1. running' = running
    BY DEF sessionVars
  <1>2. ASSUME up' = up, wire' = wire, prompt' = prompt, inFlight' = inFlight PROVE GateInv'
    BY <1>1, <1>2, GateQuiet DEF Quiet
  <1>3. CASE \/ OpenSession(c) /\ UNCHANGED linkVars
             \/ OpenDenied(c) \/ ReconnectNow(c)
    BY <1>2, <1>3 DEF OpenSession, OpenDenied, ReconnectNow, linkVars
  <1>4. CASE Notice(c)
    <2>1. /\ Current(c) \notin up /\ up' = up /\ prompt' = prompt /\ inFlight' = inFlight
          /\ wire' = [wire EXCEPT ![Current(c)] = <<>>]
      BY <1>4 DEF Notice
    <2>2. Quiet
      BY <2>1, WireTypes, UpAreLinks DEF Quiet, Wires
    <2>3. QED BY <1>1, <2>1, <2>2, GateQuiet
  <1>5. CASE Read(c)
    BY <1>1, <1>5, GateRead
  <1>6. CASE Submit(c)
    <2>1. /\ up' = up /\ wire' = wire
          /\ prompt' = [prompt EXCEPT ![c] = "sent"] /\ inFlight' = [inFlight EXCEPT ![c] = TRUE]
      BY <1>6 DEF Submit, linkVars
    <2>2. \A l \in up : prompt'[l[1]] = "idle" /\ inFlight'[l[1]] =>
                          prompt[l[1]] = "idle" /\ inFlight[l[1]]
      BY <2>1, UpAreLinks DEF TypeOK, ClientTypeOK
    <2>3. QED BY <1>1, <2>1, <2>2, GateQuiet DEF Quiet
  <1>7. CASE SubmitEnds(c)
    <2>1. /\ up' = up /\ wire' = wire
          /\ prompt' = [prompt EXCEPT ![c] = "idle"] /\ inFlight' = [inFlight EXCEPT ![c] = FALSE]
      BY <1>7 DEF SubmitEnds, linkVars
    <2>2. \A l \in up : prompt'[l[1]] = "idle" /\ inFlight'[l[1]] =>
                          prompt[l[1]] = "idle" /\ inFlight[l[1]]
      BY <2>1, UpAreLinks DEF TypeOK, ClientTypeOK
    <2>3. QED BY <1>1, <2>1, <2>2, GateQuiet DEF Quiet
  <1>8. ASSUME NEW l, Cut(l) PROVE GateInv'
    BY <1>1, <1>8, GateQuiet DEF Cut, Quiet
  <1>9. ASSUME NEW r \in Req, NEW v \in BOOLEAN, Decide(c, r, v) \/ DecisionAnswered(c, r, v)
        PROVE  GateInv'
    BY <1>2, <1>9 DEF Decide, DecisionAnswered, linkVars
  <1>10. QED BY <1>3, <1>4, <1>5, <1>6, <1>7, <1>8, <1>9 DEF ClientStep

LEMMA GateMessage ==
  ASSUME TypeOK, UpIsRead, GateInv, ApiMessage \/ \E c \in Client : MessageArrives(c)
  PROVE  GateInv'
  <1>1. CASE ApiMessage
    <2>1. PICK frame : frame = Plain("turn_start")
      OBVIOUS
    <2>2. /\ Broadcast(frame) /\ up' = up /\ running' = TRUE
          /\ prompt' = prompt /\ inFlight' = inFlight
      BY <1>1, <2>1 DEF ApiMessage, HandleMessage, clientVars
    <2>3. frame \in Frame /\ SetsGate(frame) /\ SaysRunning(frame)
      BY <2>1, FramesAreFrames DEF SetsGate, SaysRunning, Plain
    <2>4. QED BY <2>2, <2>3, GateBroadcast
  <1>2. ASSUME NEW c \in Client, MessageArrives(c) PROVE GateInv'
    <2>1. PICK answer \in {"accepted", "refused", "malformed"} :
            HandleMessage(SubmitNamesProject, answer) /\ SubmitAnswered(c, answer)
      BY <1>2 DEF MessageArrives
    <2>2. answer = "malformed"
      BY <2>1 DEF HandleMessage, MessageAnswers, SubmitNamesProject
    <2>3. /\ up' = up /\ wire' = wire /\ running' = running
          /\ prompt' = [prompt EXCEPT ![c] = answer] /\ inFlight' = inFlight
      BY <2>1, <2>2 DEF HandleMessage, SubmitAnswered, linkVars, sessionVars
    <2>4. \A l \in up : prompt'[l[1]] = "idle" /\ inFlight'[l[1]] =>
                          prompt[l[1]] = "idle" /\ inFlight[l[1]]
      BY <2>2, <2>3, UpAreLinks DEF TypeOK, ClientTypeOK
    <2>5. QED BY <2>3, <2>4, GateQuiet DEF Quiet
  <1>3. QED BY <1>1, <1>2

LEMMA NextGateInv ==
  ASSUME TypeOK, UpIsRead, GateInv, [Next]_vars
  PROVE  GateInv'
  <1>1. CASE ServerStep /\ UNCHANGED clientVars
    BY <1>1, GateServer
  <1>2. ASSUME NEW c \in Client, ClientStep(c) /\ UNCHANGED sessionVars PROVE GateInv'
    BY <1>2, GateClient
  <1>3. ASSUME up' = up, wire' = wire, running' = running,
               prompt' = prompt, inFlight' = inFlight
        PROVE  GateInv'
    BY <1>3, GateQuiet DEF Quiet
  <1>4. CASE ApiMessage \/ \E c \in Client : MessageArrives(c)
    BY <1>4, GateMessage
  <1>5. ASSUME NEW c \in Client, Connect(c) PROVE GateInv'
    BY <1>5, GateConnect
  <1>6. ASSUME NEW c \in Client, ConnectLost(c) \/ ConnectFails(c) PROVE GateInv'
    BY <1>3, <1>6 DEF ConnectLost, ConnectFails, HandleEvents, OpenFails, linkVars, sessionVars
  <1>7. ASSUME NEW c \in Client, NEW r \in Req, NEW v \in BOOLEAN, Confirm(c, r, v) PROVE GateInv'
    BY <1>3, <1>7 DEF Confirm, HandleConfirm, DecisionArrives, linkVars, sessionVars
  <1>8. CASE UNCHANGED vars
    BY <1>3, <1>8 DEF vars, linkVars, clientVars, sessionVars
  <1>9. QED BY <1>1, <1>2, <1>4, <1>5, <1>6, <1>7, <1>8 DEF Next

-----------------------------------------------------------------------------

(***************************************************************************)
(* The cards.                                                              *)
(***************************************************************************)
LEMMA CardsQuiet ==
  ASSUME CardsInv, Quiet, Pending' \subseteq Pending,
         \A l \in Link : Under(l)' \subseteq Under(l),
         \A l \in up', r \in Pending' : r \in confirms[l[1]] => r \in confirms'[l[1]],
         \A c \in Client, r \in Req : <<c, r>> \in okAnswers' => r \notin Pending',
         subs' = {} => Pending' = {}
  PROVE  CardsInv'
  <1>1. \A l \in up' : l \in up /\ Under(l)' = Under(l)
    BY DEF Quiet, Under
  <1>2. CardsAreComing'
    BY <1>1 DEF CardsInv, CardsAreComing
  <1>3. CardsAreSafe'
    BY DEF CardsInv, CardsAreSafe
  <1>4. QED BY <1>2, <1>3 DEF CardsInv, NobodyWaitsAlone

LEMMA CardsBroadcast ==
  ASSUME TypeOK, UpIsRead, CardsInv, NEW frame \in Frame, Broadcast(frame), up' = up,
         confirms' = confirms, okAnswers' = okAnswers,
         \A r \in Pending' : r \in Pending \/ Shows(frame, r),
         frame.type = "confirm_timeout" => frame.req \notin Pending',
         \A r \in Pending' \ Pending :
            /\ \A l \in Link : \A f \in Under(l) : f.type = "confirm_timeout" => f.req # r
            /\ \A c \in Client : <<c, r>> \notin okAnswers,
         subs' = {} => Pending' = {}
  PROVE  CardsInv'
  <1>1. \A l \in up : Under(l)' = Under(l) \cup {frame}
    BY BroadcastUp
  <1>2. \A l \in Link : Under(l)' \subseteq Under(l) \cup {frame}
    <2> SUFFICES ASSUME NEW l \in Link, l \notin up PROVE Under(l)' = Under(l)
      BY <1>1
    <2>1. wire'[l] = wire[l]
      BY WireTypes, BroadcastWrites DEF UpIsRead
    <2>2. QED BY <2>1 DEF Under
  <1>3. CardsAreComing'
    <2> SUFFICES ASSUME NEW l \in up, NEW r \in Pending', r \notin confirms[l[1]]
                 PROVE  \E f \in Under(l)' : Shows(f, r)
      BY DEF CardsAreComing
    <2>1. CASE r \in Pending
      BY <1>1, <2>1 DEF CardsInv, CardsAreComing
    <2>2. CASE Shows(frame, r)
      BY <1>1, <2>2
    <2>3. QED BY <2>1, <2>2
  <1>4. CardsAreSafe'
    <2>1. ASSUME NEW l \in Link, NEW f \in Under(l)', f.type = "confirm_timeout"
          PROVE  f.req \notin Pending'
      BY <1>2, <2>1 DEF CardsInv, CardsAreSafe
    <2>2. ASSUME NEW c \in Client, NEW r \in Req, <<c, r>> \in okAnswers
          PROVE  r \notin Pending'
      BY <2>2 DEF CardsInv, CardsAreSafe
    <2>3. QED BY <2>1, <2>2 DEF CardsAreSafe
  <1>5. QED BY <1>3, <1>4 DEF CardsInv, NobodyWaitsAlone

LEMMA CardsRead ==
  ASSUME TypeOK, UpIsRead, CardsInv, NEW c \in Client, Read(c), ask' = ask
  PROVE  CardsInv'
  <1>1. PICK f \in Frame, l \in Link :
          /\ l = Current(c) /\ Under(l) = Under(l)' \cup {f}
          /\ \A k \in Link : k # l => wire'[k] = wire[k] /\ Under(k)' = Under(k)
          /\ confirms' = [confirms EXCEPT ![c] = CardsAfter(c, f)]
          /\ up' = up /\ subs' = subs /\ okAnswers' = okAnswers
    BY ReadUp
  <1>2. /\ \A k \in up : k \in Link /\ k[1] \in Client
        /\ \A k \in up : k[1] = c <=> k = l
    BY <1>1, UpAreLinks
  <1>3. Pending' = Pending
    BY DEF Pending
  <1>4. /\ \A d \in Client : d # c => confirms'[d] = confirms[d]
        /\ confirms'[c] = CardsAfter(c, f)
    BY <1>1 DEF TypeOK, ClientTypeOK
  <1>5. ASSUME NEW r \in Pending
        PROVE  r \in confirms[c] \/ Shows(f, r) => r \in CardsAfter(c, f)
    <2>1. f.type = "confirm_timeout" => f.req # r
      BY <1>1 DEF CardsInv, CardsAreSafe
    <2>2. QED BY <2>1 DEF CardsAfter, Shows
  <1>6. CardsAreComing'
    <2> SUFFICES ASSUME NEW k \in up, NEW r \in Pending
                 PROVE  r \in confirms'[k[1]] \/ \E g \in Under(k)' : Shows(g, r)
      BY <1>1, <1>3 DEF CardsAreComing
    <2>1. r \in confirms[k[1]] \/ \E g \in Under(k) : Shows(g, r)
      BY DEF CardsInv, CardsAreComing
    <2>2. CASE k # l
      BY <1>1, <1>2, <1>4, <2>1, <2>2
    <2>3. CASE k = l
      BY <1>1, <1>2, <1>4, <1>5, <2>1, <2>3
    <2>4. QED BY <2>2, <2>3
  <1>7. CardsAreSafe' /\ NobodyWaitsAlone'
    <2>1. \A k \in Link : Under(k)' \subseteq Under(k)
      BY <1>1
    <2>2. QED BY <1>1, <1>3, <2>1 DEF CardsInv, CardsAreSafe, NobodyWaitsAlone
  <1>8. QED BY <1>6, <1>7 DEF CardsInv

LEMMA CardsConnect ==
  ASSUME TypeOK, UpIsRead, CardsInv, NEW c \in Client, Connect(c)
  PROVE  CardsInv'
  <1>1. PICK l \in Link :
          /\ up' = up \cup {l} /\ Under(l)' = {Hello} /\ subs' = subs \cup {l}
          /\ \A k \in Link : k # l => Under(k)' = Under(k)
          /\ ask' = ask /\ confirms' = confirms /\ okAnswers' = okAnswers /\ l \notin up
    BY ConnectUps
  <1>2. Pending' = Pending /\ (\A k \in up : k \in Link)
    BY <1>1, UpAreLinks DEF Pending
  <1>3. Hello.type = "hello" /\ (\A r \in Pending : Shows(Hello, r))
    BY DEF Hello, Shows
  <1>4. CardsAreComing'
    BY <1>1, <1>2, <1>3 DEF CardsInv, CardsAreComing
  <1>5. CardsAreSafe'
    BY <1>1, <1>2, <1>3 DEF CardsInv, CardsAreSafe
  <1>6. QED BY <1>1, <1>4, <1>5 DEF CardsInv, NobodyWaitsAlone

LEMMA FreshIsUnknown ==
  ASSUME NEW r \in Req, Fresh(r)
  PROVE  /\ r \notin Pending
         /\ \A l \in Link : \A f \in Under(l) : f.type = "confirm_timeout" => f.req # r
         /\ \A c \in Client : <<c, r>> \notin okAnswers
  BY DEF Fresh, Mentions, Under

LEMMA CardsAsk ==
  ASSUME TypeOK, UpIsRead, CardsInv, UNCHANGED clientVars, NEW r \in Req, Fresh(r),
         NEW by \in {"agent", "switch"}, NEW target \in Mode, OnConfirmRequest(r, by, target),
         UNCHANGED <<subs, up>>
  PROVE  CardsInv'
  <1>1. confirms' = confirms /\ okAnswers' = okAnswers
    BY DEF clientVars
  <1>2. CASE subs = {}
    <2>1. wire' = wire /\ ask' = ask
      BY <1>2 DEF OnConfirmRequest
    <2>2. QED BY <1>1, <2>1 DEF CardsInv, CardsAreComing, CardsAreSafe, NobodyWaitsAlone,
                             Under, Pending
  <1>3. CASE subs # {}
    <2>1. PICK frame : frame = ConfirmFrame("confirm_request", r)
      OBVIOUS
    <2>2. Broadcast(frame) /\ ask' = [ask EXCEPT ![r] = [by |-> by, target |-> target]]
      BY <1>3, <2>1 DEF OnConfirmRequest
    <2>3. frame \in Frame /\ Shows(frame, r) /\ frame.type # "confirm_timeout"
      BY <2>1, FramesAreFrames DEF Shows, ConfirmFrame
    <2>4. Pending' = Pending \cup {r}
      BY <2>2 DEF Pending, TypeOK, SessionTypeOK
    <2>5. QED BY <1>1, <1>3, <2>2, <2>3, <2>4, FreshIsUnknown, CardsBroadcast
  <1>4. QED BY <1>2, <1>3

LEMMA CardsServer ==
  ASSUME TypeOK, UpIsRead, CardsInv, ServerStep, UNCHANGED clientVars
  PROVE  CardsInv'
  <1>1. confirms' = confirms /\ okAnswers' = okAnswers
    BY DEF clientVars
  <1>2. ASSUME NEW frame \in Frame, Broadcast(frame), frame.type # "confirm_timeout",
               UNCHANGED <<subs, up, ask>>
        PROVE  CardsInv'
    <2>1. Pending' = Pending
      BY <1>2 DEF Pending
    <2>2. subs' = {} => Pending' = {}
      BY <1>2, <2>1 DEF CardsInv, NobodyWaitsAlone
    <2>3. QED BY <1>1, <1>2, <2>1, <2>2, CardsBroadcast
  <1>3. CASE Emit
    <2>1. PICK frame : frame = [type |-> "item", seq |-> emitted + 1]
      OBVIOUS
    <2>2. /\ Broadcast(frame) /\ UNCHANGED <<subs, up, ask>>
          /\ emitted < MaxItems /\ emitted \in Nat
      BY <1>3, <2>1 DEF Emit, TypeOK, SessionTypeOK
    <2>3. emitted + 1 \in 1..MaxItems
      BY <2>2
    <2>4. frame \in Frame /\ frame.type # "confirm_timeout"
      BY <2>1, <2>3, FramesAreFrames
    <2>5. QED BY <1>2, <2>2, <2>4
  <1>4. CASE TurnEnds
    <2>1. PICK frame : frame = Plain("turn_done")
      OBVIOUS
    <2>2. Broadcast(frame) /\ UNCHANGED <<subs, up, ask>>
      BY <1>4, <2>1 DEF TurnEnds
    <2>3. frame \in Frame /\ frame.type # "confirm_timeout"
      BY <2>1, FramesAreFrames DEF Plain
    <2>4. QED BY <1>2, <2>2, <2>3
  <1>5. CASE Restart
    <2>1. /\ subs' = {} /\ up' = {} /\ wire' = wire /\ ask' = [r \in Req |-> NoAsk]
      BY <1>5 DEF Restart
    <2>2. Pending' = {} /\ (\A l \in Link : Under(l)' = Under(l))
      BY <2>1 DEF Pending, NoAsk, Under
    <2>3. QED BY <2>1, <2>2, CardsQuiet DEF Quiet
  <1>6. ASSUME NEW r \in Req, ConfirmTimeout(r) PROVE CardsInv'
    <2>1. PICK frame : frame = ConfirmFrame("confirm_timeout", r)
      OBVIOUS
    <2>2. Broadcast(frame) /\ UNCHANGED <<subs, up>> /\ Settle({r}, FALSE)
      BY <1>6, <2>1 DEF ConfirmTimeout
    <2>3. frame \in Frame /\ frame.req = r
      BY <2>1, FramesAreFrames DEF ConfirmFrame
    <2>4. Pending' = Pending \ {r}
      BY <2>2, SettleType
    <2>5. subs' = {} => Pending' = {}
      BY <2>2, <2>4 DEF CardsInv, NobodyWaitsAlone
    <2>6. QED BY <1>1, <2>2, <2>3, <2>4, <2>5, CardsBroadcast
  <1>7. ASSUME NEW r \in Req, Fresh(r), AgentAsks(r) PROVE CardsInv'
    BY <1>7, CardsAsk DEF AgentAsks
  <1>8. ASSUME NEW r \in Req, NEW m \in Mode, Fresh(r), HandleSwitchWorkMode(r, m) PROVE CardsInv'
    BY <1>8, CardsAsk DEF HandleSwitchWorkMode
  <1>9. ASSUME NEW l \in Link, Drop(l) PROVE CardsInv'
    <2>1. /\ subs' = subs \ {l} /\ up' = up /\ wire' = wire
          /\ IF subs' = {} THEN Settle(Pending, FALSE) ELSE UNCHANGED <<ask, mode>>
      BY <1>9 DEF Drop, Without
    <2>2. \A k \in Link : Under(k)' = Under(k)
      BY <2>1 DEF Under
    <2>3. CASE subs' = {}
      <3>1. Pending \in SUBSET Req
        BY DEF Pending
      <3>2. Pending' = {}
        BY <2>1, <2>3, <3>1, SettleType
      <3>3. QED BY <1>1, <2>1, <2>2, <3>2, CardsQuiet DEF Quiet
    <2>4. CASE subs' # {}
      <3>1. Pending' = Pending
        BY <2>1, <2>4 DEF Pending
      <3>2. \A c \in Client, r \in Req : <<c, r>> \in okAnswers' => r \notin Pending'
        BY <1>1, <3>1 DEF CardsInv, CardsAreSafe
      <3>3. QED BY <1>1, <2>1, <2>2, <2>4, <3>1, <3>2, CardsQuiet DEF Quiet
    <2>5. QED BY <2>3, <2>4
  <1>10. QED BY <1>3, <1>4, <1>5, <1>6, <1>7, <1>8, <1>9 DEF ServerStep

(***************************************************************************)
(* A step that leaves the requests and the cards alone.                    *)
(***************************************************************************)
LEMMA CardsAlone ==
  ASSUME CardsInv, up' \subseteq up, \A l \in Link : wire'[l] = wire[l] \/ wire'[l] = <<>>,
         \A l \in up' : wire'[l] = wire[l],
         subs \subseteq subs', ask' = ask, confirms' = confirms, okAnswers' = okAnswers
  PROVE  CardsInv'
  <1>1. Pending' = Pending
    BY DEF Pending
  <1>2. \A l \in Link : Under(l)' \subseteq Under(l)
    BY DEF Under
  <1>3. \A c \in Client, r \in Req : <<c, r>> \in okAnswers' => r \notin Pending'
    BY <1>1 DEF CardsInv, CardsAreSafe
  <1>4. subs' = {} => Pending' = {}
    BY <1>1 DEF CardsInv, NobodyWaitsAlone
  <1>5. QED BY <1>1, <1>2, <1>3, <1>4, CardsQuiet DEF Quiet

LEMMA CardsClient ==
  ASSUME TypeOK, UpIsRead, CardsInv, NEW c \in Client, ClientStep(c), UNCHANGED sessionVars
  PROVE  CardsInv'
  <1>1. ask' = ask
    BY DEF sessionVars
  <1>2. CASE \/ OpenSession(c) /\ UNCHANGED linkVars
             \/ OpenDenied(c) \/ ReconnectNow(c) \/ Submit(c) \/ SubmitEnds(c)
    <2>1. UNCHANGED <<up, subs, wire, confirms, okAnswers>>
      BY <1>2 DEF OpenSession, OpenDenied, ReconnectNow, Submit, SubmitEnds, linkVars
    <2>2. QED BY <1>1, <2>1, CardsAlone
  <1>3. CASE Notice(c)
    <2>1. /\ Current(c) \notin up /\ UNCHANGED <<up, subs, confirms, okAnswers>>
          /\ wire' = [wire EXCEPT ![Current(c)] = <<>>]
      BY <1>3 DEF Notice
    <2>2. \A l \in Link : IF l = Current(c) THEN wire'[l] = <<>> ELSE wire'[l] = wire[l]
      BY <2>1, WireTypes DEF Wires
    <2>3. QED BY <1>1, <2>1, <2>2, UpAreLinks, CardsAlone
  <1>4. CASE Read(c)
    BY <1>1, <1>4, CardsRead
  <1>5. ASSUME NEW l, Cut(l) PROVE CardsInv'
    <2>1. up' \subseteq up /\ UNCHANGED <<subs, wire, confirms, okAnswers>>
      BY <1>5 DEF Cut
    <2>2. QED BY <1>1, <2>1, CardsAlone
  <1>6. ASSUME NEW r \in Req, NEW v \in BOOLEAN, Decide(c, r, v) PROVE CardsInv'
    <2>1. UNCHANGED <<up, subs, wire, confirms, okAnswers>>
      BY <1>6 DEF Decide, linkVars
    <2>2. QED BY <1>1, <2>1, CardsAlone
  <1>7. ASSUME NEW r \in Req, NEW v \in BOOLEAN, DecisionAnswered(c, r, v) PROVE CardsInv'
    <2>1. /\ <<c, r>> \in okAnswers /\ okAnswers' = okAnswers \ {<<c, r>>}
          /\ confirms' = [confirms EXCEPT ![c] = IF v THEN @ \ {r} ELSE @]
          /\ UNCHANGED <<up, subs, wire>>
      BY <1>7 DEF DecisionAnswered, linkVars
    <2>2. Pending' = Pending /\ r \notin Pending
      BY <1>1, <2>1 DEF Pending, CardsInv, CardsAreSafe
    <2>3. \A l \in up, q \in Pending : q \in confirms[l[1]] => q \in confirms'[l[1]]
      BY <2>1, <2>2, UpAreLinks DEF TypeOK, ClientTypeOK
    <2>4. \A l \in Link : Under(l)' = Under(l)
      BY <2>1 DEF Under
    <2>5. \A d \in Client, q \in Req : <<d, q>> \in okAnswers' => q \notin Pending'
      BY <2>1, <2>2 DEF CardsInv, CardsAreSafe
    <2>6. subs' = {} => Pending' = {}
      BY <2>1, <2>2 DEF CardsInv, NobodyWaitsAlone
    <2>7. QED BY <2>1, <2>2, <2>3, <2>4, <2>5, <2>6, CardsQuiet DEF Quiet
  <1>8. QED BY <1>2, <1>3, <1>4, <1>5, <1>6, <1>7 DEF ClientStep

LEMMA CardsConfirm ==
  ASSUME TypeOK, UpIsRead, CardsInv, NEW c \in Client, NEW r \in Req, NEW v \in BOOLEAN,
         Confirm(c, r, v)
  PROVE  CardsInv'
  <1>1. CASE HandleConfirm(r, v) /\ DecisionArrives(c, r, v, TRUE)
    <2>1. /\ Settle({r}, v) /\ UNCHANGED <<up, subs, wire, confirms>>
          /\ okAnswers' = okAnswers \cup {<<c, r>>}
      BY <1>1 DEF HandleConfirm, DecisionArrives, linkVars
    <2>2. Pending' = Pending \ {r}
      BY <2>1, SettleType
    <2>3. \A l \in Link : Under(l)' = Under(l)
      BY <2>1 DEF Under
    <2>4. \A d \in Client, q \in Req : <<d, q>> \in okAnswers' => q \notin Pending'
      BY <2>1, <2>2 DEF CardsInv, CardsAreSafe
    <2>5. subs' = {} => Pending' = {}
      BY <2>1, <2>2 DEF CardsInv, NobodyWaitsAlone
    <2>6. QED BY <2>1, <2>2, <2>3, <2>4, <2>5, CardsQuiet DEF Quiet
  <1>2. CASE UNCHANGED <<linkVars, sessionVars>> /\ DecisionArrives(c, r, v, FALSE)
    <2>1. UNCHANGED <<up, subs, wire, ask, confirms, okAnswers>>
      BY <1>2 DEF DecisionArrives, linkVars, sessionVars
    <2>2. QED BY <2>1, CardsAlone
  <1>3. QED BY <1>1, <1>2 DEF Confirm

LEMMA NextCardsInv ==
  ASSUME TypeOK, UpIsRead, CardsInv, [Next]_vars
  PROVE  CardsInv'
  <1>1. CASE ServerStep /\ UNCHANGED clientVars
    BY <1>1, CardsServer
  <1>2. ASSUME NEW c \in Client, ClientStep(c) /\ UNCHANGED sessionVars PROVE CardsInv'
    BY <1>2, CardsClient
  <1>3. CASE ApiMessage
    <2>1. PICK frame : frame = Plain("turn_start")
      OBVIOUS
    <2>2. Broadcast(frame) /\ UNCHANGED <<subs, up, ask, confirms, okAnswers>>
      BY <1>3, <2>1 DEF ApiMessage, HandleMessage, clientVars
    <2>3. frame \in Frame /\ frame.type # "confirm_timeout"
      BY <2>1, FramesAreFrames DEF Plain
    <2>4. Pending' = Pending
      BY <2>2 DEF Pending
    <2>5. subs' = {} => Pending' = {}
      BY <2>2, <2>4 DEF CardsInv, NobodyWaitsAlone
    <2>6. QED BY <2>2, <2>3, <2>4, <2>5, CardsBroadcast
  <1>4. ASSUME NEW c \in Client, MessageArrives(c) PROVE CardsInv'
    <2>1. PICK answer \in {"accepted", "refused", "malformed"} :
            HandleMessage(SubmitNamesProject, answer) /\ SubmitAnswered(c, answer)
      BY <1>4 DEF MessageArrives
    <2>2. answer # "accepted"
      BY <2>1 DEF HandleMessage, MessageAnswers, SubmitNamesProject
    <2>3. UNCHANGED <<up, subs, wire, ask, confirms, okAnswers>>
      BY <2>1, <2>2 DEF HandleMessage, SubmitAnswered, linkVars, sessionVars
    <2>4. QED BY <2>3, CardsAlone
  <1>5. ASSUME NEW c \in Client, Connect(c) PROVE CardsInv'
    BY <1>5, CardsConnect
  <1>6. ASSUME NEW c \in Client, ConnectLost(c) \/ ConnectFails(c) PROVE CardsInv'
    <2>1. subs \subseteq subs' /\ UNCHANGED <<up, wire, ask, confirms, okAnswers>>
      BY <1>6 DEF ConnectLost, ConnectFails, HandleEvents, OpenFails, linkVars, sessionVars
    <2>2. QED BY <2>1, CardsAlone
  <1>7. ASSUME NEW c \in Client, NEW r \in Req, NEW v \in BOOLEAN, Confirm(c, r, v) PROVE CardsInv'
    BY <1>7, CardsConfirm
  <1>8. CASE UNCHANGED vars
    <2>1. UNCHANGED <<up, subs, wire, ask, confirms, okAnswers>>
      BY <1>8 DEF vars, linkVars, sessionVars, clientVars
    <2>2. QED BY <2>1, CardsAlone
  <1>9. QED BY <1>1, <1>2, <1>3, <1>4, <1>5, <1>6, <1>7, <1>8 DEF Next

-----------------------------------------------------------------------------

(***************************************************************************)
(* The activity.                                                           *)
(***************************************************************************)
LEMMA ItemNumbers ==
  /\ \A f \in Frame : IsItem(f) => f.seq \in Nat
  /\ TypeOK => /\ emitted \in Nat
               /\ \A l \in Link : since[l] \in Nat
               /\ \A c \in Client : /\ seen[c] \in Seq(1..MaxItems) /\ Len(seen[c]) \in Nat
                                    /\ \A i \in 1..Len(seen[c]) : seen[c][i] \in Nat
               /\ \A l \in Link : /\ Len(wire[l]) \in Nat
                                  /\ \A i \in 1..Len(wire[l]) : wire[l][i] \in Frame
  <1>1. ASSUME NEW f \in Frame, IsItem(f) PROVE f.seq \in Nat
    BY <1>1 DEF Frame, IsItem
  <1>2. ASSUME TypeOK
        PROVE  emitted \in Nat /\ \A l \in Link : since[l] \in Nat
    BY <1>2 DEF TypeOK, SessionTypeOK
  <1>3. ASSUME TypeOK, NEW c \in Client
        PROVE  /\ seen[c] \in Seq(1..MaxItems) /\ Len(seen[c]) \in Nat
               /\ \A i \in 1..Len(seen[c]) : seen[c][i] \in Nat
    <2>1. seen[c] \in Seq(1..MaxItems)
      BY <1>3 DEF TypeOK, ClientTypeOK
    <2>2. QED BY <2>1
  <1>4. ASSUME TypeOK, NEW l \in Link
        PROVE  /\ Len(wire[l]) \in Nat
               /\ \A i \in 1..Len(wire[l]) : wire[l][i] \in Frame
    <2>1. wire[l] \in Seq(Frame)
      BY <1>4, WireTypes DEF Wires
    <2>2. QED BY <2>1
  <1>5. QED BY <1>1, <1>2, <1>3, <1>4

LEMMA ActivityQuiet ==
  ASSUME TypeOK, ActivityInv, Quiet, emitted' = emitted, seen' = seen, slot' = slot,
         \A l \in Link : wire'[l] = wire[l] \/ wire'[l] = <<>>,
         \A l \in up' : since'[l] = since[l]
  PROVE  ActivityInv'
  <1>1. /\ \A l \in Link : Under(l)' \subseteq Under(l)
        /\ \A l \in up' : l \in up /\ Under(l)' = Under(l)
    BY DEF Under, Quiet
  <1>2. WireInOrder'
    BY DEF ActivityInv, WireInOrder
  <1>3. SeenInOrder'
    <2>1. \A c \in Client : Current(c)' = Current(c) /\ Current(c) \in Link
      BY OtherIsLink DEF Current
    <2>2. \A c \in Client : Under(Current(c))' \subseteq Under(Current(c))
      <3> SUFFICES ASSUME NEW c \in Client PROVE Under(Current(c))' \subseteq Under(Current(c))
        OBVIOUS
      <3>1. PICK l \in Link : l = Current(c)
        BY <2>1
      <3>2. Under(Current(c))' = Under(l)' /\ Under(Current(c)) = Under(l)
        BY <2>1, <3>1 DEF Under
      <3>3. QED BY <1>1, <3>2
    <2>3. QED BY <2>2 DEF ActivityInv, SeenInOrder
  <1>4. ActivityIsComing'
    BY <1>1 DEF ActivityInv, ActivityIsComing, Shown
  <1>5. QED BY <1>2, <1>3, <1>4 DEF ActivityInv

LEMMA ActivityBroadcast ==
  ASSUME TypeOK, UpIsRead, ActivityInv, NEW frame \in Frame, Broadcast(frame), up' = up,
         IF IsItem(frame) THEN emitted' = emitted + 1 /\ frame.seq = emitted + 1
                          ELSE emitted' = emitted,
         seen' = seen, slot' = slot, since' = since
  PROVE  ActivityInv'
  <1>1. \A l \in up : Under(l)' = Under(l) \cup {frame} /\ l \in Link
    BY BroadcastUp, UpAreLinks
  <1>2. \A l \in Link : l \notin up => wire'[l] = wire[l] /\ Under(l)' = Under(l)
    BY WireTypes, BroadcastWrites DEF UpIsRead, Under
  <1>3. emitted \in Nat /\ emitted' \in Nat /\ emitted <= emitted'
    BY ItemNumbers
  <1>4. WireInOrder'
    <2> SUFFICES ASSUME NEW l \in Link, NEW i \in 1..Len(wire'[l]), IsItem(wire'[l][i])
                 PROVE  /\ wire'[l][i].seq <= emitted'
                        /\ \A j \in i + 1 .. Len(wire'[l]) :
                             IsItem(wire'[l][j]) => wire'[l][i].seq < wire'[l][j].seq
      BY DEF WireInOrder
    <2>1. CASE l \notin up
      <3>1. /\ wire[l][i].seq <= emitted /\ wire[l][i].seq \in Nat
            /\ \A j \in i + 1 .. Len(wire[l]) :
                 IsItem(wire[l][j]) => wire[l][i].seq < wire[l][j].seq
        <4>1. wire'[l] = wire[l]
          BY <1>2, <2>1
        <4>2. i \in 1..Len(wire[l]) /\ IsItem(wire[l][i])
          BY <4>1
        <4>3. wire[l][i].seq \in Nat
          BY <4>2, ItemNumbers
        <4>4. QED BY <4>2, <4>3 DEF ActivityInv, WireInOrder
      <3>2. wire'[l] = wire[l]
        BY <1>2, <2>1
      <3>3. QED BY <1>3, <3>1, <3>2
    <2>2. CASE l \in up
      <3>1. /\ Len(wire[l]) \in Nat /\ Len(wire'[l]) = Len(wire[l]) + 1
            /\ \A j \in 1..Len(wire[l]) : wire'[l][j] = wire[l][j]
            /\ wire'[l][Len(wire[l]) + 1] = frame
        BY <2>2, BroadcastUp
      <3>2. CASE i = Len(wire[l]) + 1
        <4>1. wire'[l][i] = frame /\ IsItem(frame) /\ i + 1 .. Len(wire'[l]) = {}
          BY <3>1, <3>2
        <4>2. wire'[l][i].seq = emitted + 1 /\ emitted' = emitted + 1
          BY <4>1
        <4>3. QED BY <1>3, <4>1, <4>2
      <3>3. CASE i # Len(wire[l]) + 1
        <4>1. i \in 1..Len(wire[l]) /\ wire'[l][i] = wire[l][i]
          BY <3>1, <3>3
        <4>2. /\ wire[l][i].seq <= emitted /\ wire[l][i].seq \in Nat
              /\ \A j \in i + 1 .. Len(wire[l]) :
                   IsItem(wire[l][j]) => wire[l][i].seq < wire[l][j].seq
          BY <4>1, ItemNumbers DEF ActivityInv, WireInOrder
        <4>3. ASSUME NEW j \in i + 1 .. Len(wire'[l]), IsItem(wire'[l][j])
              PROVE  wire[l][i].seq < wire'[l][j].seq
          <5>1. CASE j = Len(wire[l]) + 1
            <6>1. wire'[l][j] = frame /\ frame.seq = emitted + 1
              BY <3>1, <4>3, <5>1
            <6>2. QED BY <1>3, <4>2, <6>1
          <5>2. CASE j # Len(wire[l]) + 1
            <6>1. j \in i + 1 .. Len(wire[l]) /\ j \in 1..Len(wire[l])
              BY <3>1, <4>1, <5>2
            <6>2. QED BY <3>1, <4>2, <4>3, <6>1
          <5>3. QED BY <5>1, <5>2
        <4>4. QED BY <1>3, <4>1, <4>2, <4>3
      <3>4. QED BY <3>2, <3>3
    <2>3. QED BY <2>1, <2>2
  <1>5. SeenInOrder'
    <2> SUFFICES ASSUME NEW c \in Client, NEW i \in 1..Len(seen[c])
                 PROVE  /\ seen[c][i] <= emitted'
                        /\ \A j \in i + 1 .. Len(seen[c]) : seen[c][i] < seen[c][j]
                        /\ \A f \in Under(Current(c))' : IsItem(f) => seen[c][i] < f.seq
      BY DEF SeenInOrder
    <2>1. /\ seen[c][i] <= emitted /\ seen[c][i] \in Nat
          /\ \A j \in i + 1 .. Len(seen[c]) : seen[c][i] < seen[c][j]
          /\ \A f \in Under(Current(c)) : IsItem(f) => seen[c][i] < f.seq
      BY ItemNumbers DEF ActivityInv, SeenInOrder
    <2>2. PICK l \in Link : l = Current(c)
      BY OtherIsLink
    <2>3. Under(Current(c))' = Under(l)' /\ Under(Current(c)) = Under(l)
      BY <2>2 DEF Under, Current
    <2>4. Under(l)' \subseteq Under(l) \cup {frame}
      BY <1>1, <1>2
    <2>5. IsItem(frame) => seen[c][i] < frame.seq
      BY <1>3, <2>1
    <2>6. QED BY <1>3, <2>1, <2>3, <2>4, <2>5
  <1>6. ActivityIsComing'
    <2> SUFFICES ASSUME NEW l \in up, NEW k \in since[l] + 1 .. emitted'
                 PROVE  Shown(l[1], k) \/ \E f \in Under(l)' : IsItem(f) /\ f.seq = k
      BY DEF ActivityIsComing, Shown
    <2>1. l \in Link /\ since[l] \in Nat
      BY <1>1, ItemNumbers
    <2>2. CASE k <= emitted
      <3>1. k \in since[l] + 1 .. emitted
        BY <1>3, <2>1, <2>2
      <3>2. QED BY <1>1, <3>1 DEF ActivityInv, ActivityIsComing
    <2>3. CASE ~(k <= emitted)
      <3>1. IsItem(frame) /\ frame.seq = k
        BY <1>3, <2>1, <2>3
      <3>2. QED BY <1>1, <3>1
    <2>4. QED BY <2>2, <2>3
  <1>7. QED BY <1>4, <1>5, <1>6 DEF ActivityInv

(***************************************************************************)
(* A frame that is read goes from the connection to the tab.               *)
(***************************************************************************)
LEMMA SeenAfterRead ==
  ASSUME TypeOK, NEW c \in Client, NEW f \in Frame,
         seen' = IF f.type = "item" THEN [seen EXCEPT ![c] = Append(@, f.seq)] ELSE seen
  PROVE  /\ \A d \in Client : d # c => seen'[d] = seen[d]
         /\ ~IsItem(f) => seen'[c] = seen[c]
         /\ IsItem(f) => /\ Len(seen'[c]) = Len(seen[c]) + 1
                         /\ \A i \in 1..Len(seen[c]) : seen'[c][i] = seen[c][i]
                         /\ seen'[c][Len(seen[c]) + 1] = f.seq
  <1>1. seen \in [Client -> Seq(1..MaxItems)]
    BY DEF TypeOK, ClientTypeOK
  <1>2. CASE IsItem(f)
    <2>1. seen' = [seen EXCEPT ![c] = Append(seen[c], f.seq)]
      BY <1>2 DEF IsItem
    <2>2. /\ \A d \in Client : d # c => seen'[d] = seen[d]
          /\ seen'[c] = Append(seen[c], f.seq)
      BY <1>1, <2>1
    <2>3. f.seq \in 1..MaxItems /\ seen[c] \in Seq(1..MaxItems)
      BY <1>1, <1>2 DEF Frame, IsItem
    <2>4. /\ Len(seen'[c]) = Len(seen[c]) + 1
          /\ \A i \in 1..Len(seen[c]) : seen'[c][i] = seen[c][i]
          /\ seen'[c][Len(seen[c]) + 1] = f.seq
      BY <2>2, <2>3, Appended
    <2>5. QED BY <1>2, <2>2, <2>4
  <1>3. CASE ~IsItem(f)
    BY <1>3 DEF IsItem
  <1>4. QED BY <1>2, <1>3

LEMMA ActivityRead ==
  ASSUME TypeOK, UpIsRead, ActivityInv, NEW c \in Client, Read(c),
         emitted' = emitted, since' = since
  PROVE  ActivityInv'
  <1>1. PICK f \in Frame, l \in Link :
          /\ l = Current(c) /\ f = wire[l][1] /\ 1 \in 1..Len(wire[l])
          /\ Len(wire[l]) \in Nat /\ Len(wire'[l]) = Len(wire[l]) - 1
          /\ \A i \in 1..Len(wire'[l]) : wire'[l][i] = wire[l][i + 1]
          /\ Under(l) = Under(l)' \cup {f}
          /\ \A k \in Link : k # l => wire'[k] = wire[k] /\ Under(k)' = Under(k)
          /\ seen' = IF f.type = "item" THEN [seen EXCEPT ![c] = Append(@, f.seq)] ELSE seen
          /\ up' = up /\ slot' = slot
    BY ReadUp
  <1>2. /\ \A d \in Client : d # c => seen'[d] = seen[d]
        /\ ~IsItem(f) => seen'[c] = seen[c]
        /\ IsItem(f) => /\ Len(seen'[c]) = Len(seen[c]) + 1
                        /\ \A i \in 1..Len(seen[c]) : seen'[c][i] = seen[c][i]
                        /\ seen'[c][Len(seen[c]) + 1] = f.seq
    BY <1>1, SeenAfterRead
  <1>3. /\ emitted \in Nat /\ (IsItem(f) => f.seq \in Nat)
        /\ \A d \in Client : Len(seen[d]) \in Nat /\ \A i \in 1..Len(seen[d]) : seen[d][i] \in Nat
    BY ItemNumbers
  <1>4. \A d \in Client : Current(d) \in Link /\ (d # c => Current(d) # l)
    BY <1>1, OtherIsLink
  <1>5. WireInOrder'
    <2> SUFFICES ASSUME NEW k \in Link, NEW i \in 1..Len(wire'[k]), IsItem(wire'[k][i])
                 PROVE  /\ wire'[k][i].seq <= emitted
                        /\ \A j \in i + 1 .. Len(wire'[k]) :
                             IsItem(wire'[k][j]) => wire'[k][i].seq < wire'[k][j].seq
      BY DEF WireInOrder
    <2>1. CASE k # l
      BY <1>1, <2>1 DEF ActivityInv, WireInOrder
    <2>2. CASE k = l
      <3>1. i + 1 \in 1..Len(wire[l]) /\ wire'[l][i] = wire[l][i + 1] /\ i \in Nat
        BY <1>1, <2>2
      <3>2. /\ wire[l][i + 1].seq <= emitted
            /\ \A j \in (i + 1) + 1 .. Len(wire[l]) :
                 IsItem(wire[l][j]) => wire[l][i + 1].seq < wire[l][j].seq
        BY <2>2, <3>1 DEF ActivityInv, WireInOrder
      <3>3. ASSUME NEW j \in i + 1 .. Len(wire'[l]), IsItem(wire'[l][j])
            PROVE  wire'[l][i].seq < wire'[l][j].seq
        <4>1. /\ j \in 1..Len(wire'[l]) /\ j + 1 \in (i + 1) + 1 .. Len(wire[l])
          BY <1>1, <3>1
        <4>2. wire'[l][j] = wire[l][j + 1]
          BY <1>1, <4>1
        <4>3. QED BY <3>1, <3>2, <3>3, <4>1, <4>2
      <3>4. QED BY <2>2, <3>1, <3>2, <3>3
    <2>3. QED BY <2>1, <2>2
  <1>6. ASSUME IsItem(f)
        PROVE  /\ f.seq <= emitted
               /\ \A g \in Under(l)' : IsItem(g) => f.seq < g.seq
    <2>1. /\ f.seq <= emitted
          /\ \A j \in 1 + 1 .. Len(wire[l]) : IsItem(wire[l][j]) => f.seq < wire[l][j].seq
      BY <1>1, <1>6 DEF ActivityInv, WireInOrder
    <2>2. ASSUME NEW g \in Under(l)', IsItem(g) PROVE f.seq < g.seq
      <3>1. PICK i \in 1..Len(wire'[l]) : g = wire'[l][i]
        BY DEF Under
      <3>2. g = wire[l][i + 1] /\ i + 1 \in 1 + 1 .. Len(wire[l])
        BY <1>1, <3>1
      <3>3. QED BY <2>1, <2>2, <3>2
    <2>3. QED BY <2>1, <2>2
  <1>7. \A i \in 1..Len(seen[c]) :
          /\ seen[c][i] <= emitted
          /\ \A j \in i + 1 .. Len(seen[c]) : seen[c][i] < seen[c][j]
          /\ \A g \in Under(l)' : IsItem(g) => seen[c][i] < g.seq
          /\ IsItem(f) => seen[c][i] < f.seq
    <2>1. Under(Current(c)) = Under(l)' \cup {f}
      BY <1>1
    <2>2. QED BY <2>1 DEF ActivityInv, SeenInOrder
  <1>8. SeenInOrder'
    <2> SUFFICES ASSUME NEW d \in Client, NEW i \in 1..Len(seen'[d])
                 PROVE  /\ seen'[d][i] <= emitted
                        /\ \A j \in i + 1 .. Len(seen'[d]) : seen'[d][i] < seen'[d][j]
                        /\ \A g \in Under(Current(d))' : IsItem(g) => seen'[d][i] < g.seq
      BY DEF SeenInOrder
    <2>1. CASE d # c
      <3>1. PICK k \in Link : k = Current(d) /\ k # l
        BY <1>4, <2>1
      <3>2. Under(Current(d))' = Under(k)' /\ Under(Current(d)) = Under(k)
        BY <1>1, <3>1 DEF Under, Current
      <3>3. Under(Current(d))' = Under(Current(d)) /\ seen'[d] = seen[d]
        BY <1>1, <1>2, <2>1, <3>1, <3>2
      <3>4. QED BY <3>3 DEF ActivityInv, SeenInOrder
    <2>2. CASE d = c
      <3>1. Under(Current(c))' = Under(l)'
        BY <1>1 DEF Under, Current
      <3>2. CASE ~IsItem(f)
        BY <1>2, <1>7, <2>2, <3>1, <3>2
      <3>3. CASE IsItem(f) /\ i = Len(seen[c]) + 1
        <4>1. seen'[d][i] = f.seq /\ i + 1 .. Len(seen'[d]) = {}
          BY <1>2, <1>3, <2>2, <3>3
        <4>2. QED BY <1>6, <2>2, <3>1, <3>3, <4>1
      <3>4. CASE IsItem(f) /\ i # Len(seen[c]) + 1
        <4>1. i \in 1..Len(seen[c]) /\ seen'[d][i] = seen[c][i] /\ Len(seen'[d]) = Len(seen[c]) + 1
          BY <1>2, <1>3, <2>2, <3>4
        <4>2. ASSUME NEW j \in i + 1 .. Len(seen'[d]) PROVE seen'[d][i] < seen'[d][j]
          <5>1. CASE j = Len(seen[c]) + 1
            BY <1>2, <1>7, <2>2, <3>4, <4>1, <5>1
          <5>2. CASE j # Len(seen[c]) + 1
            <6>1. j \in i + 1 .. Len(seen[c]) /\ j \in 1..Len(seen[c])
              BY <1>3, <4>1, <5>2
            <6>2. QED BY <1>2, <1>7, <2>2, <3>4, <4>1, <6>1
          <5>3. QED BY <5>1, <5>2
        <4>3. QED BY <1>7, <2>2, <3>1, <4>1, <4>2
      <3>5. QED BY <3>2, <3>3, <3>4
    <2>3. QED BY <2>1, <2>2
  <1>9. ActivityIsComing'
    <2>1. \A k \in up : k \in Link /\ k[1] \in Client /\ (k[1] = c <=> k = l)
      BY <1>1, UpAreLinks
    <2>2. ASSUME NEW d \in Client, NEW q, Shown(d, q) PROVE Shown(d, q)'
      <3>1. PICK i \in 1..Len(seen[d]) : seen[d][i] = q
        BY <2>2 DEF Shown
      <3>2. i \in 1..Len(seen'[d]) /\ seen'[d][i] = q
        <4>1. CASE d # c \/ ~IsItem(f)
          BY <1>2, <3>1, <4>1
        <4>2. CASE d = c /\ IsItem(f)
          BY <1>2, <1>3, <3>1, <4>2
        <4>3. QED BY <4>1, <4>2
      <3>3. QED BY <3>2 DEF Shown
    <2>3. IsItem(f) => Shown(c, f.seq)'
      BY <1>2, <1>3 DEF Shown
    <2> SUFFICES ASSUME NEW k \in up, NEW q \in since[k] + 1 .. emitted
                 PROVE  Shown(k[1], q)' \/ \E g \in Under(k)' : IsItem(g) /\ g.seq = q
      BY <1>1 DEF ActivityIsComing
    <2>4. Shown(k[1], q) \/ \E g \in Under(k) : IsItem(g) /\ g.seq = q
      BY DEF ActivityInv, ActivityIsComing
    <2>5. CASE k # l
      BY <1>1, <2>1, <2>2, <2>4, <2>5
    <2>6. CASE k = l
      BY <1>1, <2>1, <2>2, <2>3, <2>4, <2>6
    <2>7. QED BY <2>5, <2>6
  <1>10. QED BY <1>5, <1>8, <1>9 DEF ActivityInv

LEMMA ActivityConnect ==
  ASSUME TypeOK, UpIsRead, ActivityInv, NEW c \in Client, Connect(c)
  PROVE  ActivityInv'
  <1>1. PICK l \in Link :
          /\ l \notin up /\ up' = up \cup {l} /\ l[1] = c /\ l = Current(c)'
          /\ Under(l)' = {Hello} /\ Len(wire'[l]) = 1 /\ wire'[l][1] = Hello
          /\ \A k \in Link : k # l => wire'[k] = wire[k] /\ Under(k)' = Under(k)
          /\ since' = [since EXCEPT ![l] = emitted]
          /\ \A k \in up : k[1] # c
          /\ emitted' = emitted /\ seen' = seen /\ slot' = [slot EXCEPT ![c] = 3 - slot[c]]
    BY ConnectUps
  <1>2. ~IsItem(Hello) /\ emitted \in Nat
    BY ItemNumbers DEF IsItem, Hello
  <1>3. WireInOrder'
    <2> SUFFICES ASSUME NEW k \in Link, NEW i \in 1..Len(wire'[k]), IsItem(wire'[k][i])
                 PROVE  /\ wire'[k][i].seq <= emitted
                        /\ \A j \in i + 1 .. Len(wire'[k]) :
                             IsItem(wire'[k][j]) => wire'[k][i].seq < wire'[k][j].seq
      BY <1>1 DEF WireInOrder
    <2>1. k # l
      <3>1. CASE k = l
        <4>1. i = 1
          BY <1>1, <3>1
        <4>2. QED BY <1>1, <1>2, <3>1, <4>1
      <3>2. QED BY <3>1
    <2>2. QED BY <1>1, <2>1 DEF ActivityInv, WireInOrder
  <1>4. SeenInOrder'
    <2> SUFFICES ASSUME NEW d \in Client, NEW i \in 1..Len(seen[d])
                 PROVE  /\ seen[d][i] <= emitted
                        /\ \A j \in i + 1 .. Len(seen[d]) : seen[d][i] < seen[d][j]
                        /\ \A g \in Under(Current(d))' : IsItem(g) => seen[d][i] < g.seq
      BY <1>1 DEF SeenInOrder
    <2>1. /\ seen[d][i] <= emitted
          /\ \A j \in i + 1 .. Len(seen[d]) : seen[d][i] < seen[d][j]
          /\ \A g \in Under(Current(d)) : IsItem(g) => seen[d][i] < g.seq
      BY DEF ActivityInv, SeenInOrder
    <2>2. CASE d = c
      <3>1. Under(Current(c))' = Under(l)'
        BY <1>1 DEF Under
      <3>2. QED BY <1>1, <1>2, <2>1, <2>2, <3>1
    <2>3. CASE d # c
      <3>1. slot'[d] = slot[d]
        BY <1>1, <2>3 DEF TypeOK, ClientTypeOK
      <3>2. PICK k \in Link : k = Current(d) /\ k # l
        BY <1>1, <2>3, OtherIsLink
      <3>3. Under(Current(d))' = Under(k)' /\ Under(Current(d)) = Under(k)
        BY <3>1, <3>2 DEF Under, Current
      <3>4. QED BY <1>1, <2>1, <3>2, <3>3
    <2>4. QED BY <2>2, <2>3
  <1>5. ActivityIsComing'
    <2> SUFFICES ASSUME NEW k \in up', NEW q \in since'[k] + 1 .. emitted
                 PROVE  Shown(k[1], q) \/ \E g \in Under(k)' : IsItem(g) /\ g.seq = q
      BY <1>1 DEF ActivityIsComing, Shown
    <2>1. since \in [Link -> 0..MaxItems]
      BY DEF TypeOK, SessionTypeOK
    <2>2. CASE k = l
      <3>1. since'[k] = emitted
        BY <1>1, <2>1, <2>2
      <3>2. QED BY <1>2, <3>1
    <2>3. CASE k # l
      <3>1. k \in up /\ k \in Link
        BY <1>1, <2>3, UpAreLinks
      <3>2. since'[k] = since[k] /\ Under(k)' = Under(k)
        BY <1>1, <2>1, <2>3, <3>1
      <3>3. QED BY <3>1, <3>2 DEF ActivityInv, ActivityIsComing
    <2>4. QED BY <2>2, <2>3
  <1>6. QED BY <1>3, <1>4, <1>5 DEF ActivityInv

LEMMA ActivityServer ==
  ASSUME TypeOK, UpIsRead, ActivityInv, ServerStep, UNCHANGED clientVars
  PROVE  ActivityInv'
  <1>1. seen' = seen /\ slot' = slot
    BY DEF clientVars
  <1>2. ASSUME NEW frame \in Frame, Broadcast(frame), ~IsItem(frame),
               UNCHANGED <<up, emitted, since>>
        PROVE  ActivityInv'
    BY <1>1, <1>2, ActivityBroadcast
  <1>3. CASE Emit
    <2>1. PICK frame : frame = [type |-> "item", seq |-> emitted + 1]
      OBVIOUS
    <2>2. Broadcast(frame) /\ UNCHANGED <<up, since>> /\ emitted' = emitted + 1
          /\ emitted < MaxItems /\ emitted \in Nat
      BY <1>3, <2>1 DEF Emit, TypeOK, SessionTypeOK
    <2>3. emitted + 1 \in 1..MaxItems
      BY <2>2
    <2>4. frame \in Frame /\ frame.seq = emitted + 1
      BY <2>1, <2>3, FramesAreFrames
    <2>5. IsItem(frame)
      BY <2>1 DEF IsItem
    <2>6. QED BY <1>1, <2>2, <2>4, <2>5, ActivityBroadcast
  <1>4. CASE TurnEnds
    <2>1. PICK frame : frame = Plain("turn_done")
      OBVIOUS
    <2>2. Broadcast(frame) /\ UNCHANGED <<up, emitted, since>>
      BY <1>4, <2>1 DEF TurnEnds
    <2>3. frame \in Frame /\ ~IsItem(frame)
      BY <2>1, FramesAreFrames DEF IsItem, Plain
    <2>4. QED BY <1>2, <2>2, <2>3
  <1>5. CASE Restart
    <2>1. up' = {} /\ wire' = wire /\ emitted' = emitted
      BY <1>5 DEF Restart
    <2>2. QED BY <1>1, <2>1, ActivityQuiet DEF Quiet
  <1>6. ASSUME NEW r \in Req, NEW t \in {"confirm_request", "confirm_timeout"},
               Broadcast(ConfirmFrame(t, r)), UNCHANGED <<up, emitted, since>>
        PROVE  ActivityInv'
    <2>1. ConfirmFrame(t, r) \in Frame /\ ~IsItem(ConfirmFrame(t, r))
      BY FramesAreFrames DEF IsItem, ConfirmFrame
    <2>2. QED BY <1>2, <1>6, <2>1
  <1>7. ASSUME NEW r \in Req, ConfirmTimeout(r) PROVE ActivityInv'
    BY <1>6, <1>7 DEF ConfirmTimeout
  <1>8. ASSUME NEW r \in Req,
               AgentAsks(r) \/ \E m \in Mode : HandleSwitchWorkMode(r, m)
        PROVE  ActivityInv'
    <2>1. UNCHANGED <<up, emitted, since>>
          /\ (wire' = wire \/ Broadcast(ConfirmFrame("confirm_request", r)))
      BY <1>8 DEF AgentAsks, HandleSwitchWorkMode, OnConfirmRequest
    <2>2. CASE wire' = wire
      BY <1>1, <2>1, <2>2, ActivityQuiet DEF Quiet
    <2>3. QED BY <1>6, <2>1, <2>2
  <1>9. ASSUME NEW l \in Link, Drop(l) PROVE ActivityInv'
    <2>1. /\ l \notin up /\ UNCHANGED <<up, wire, emitted>>
          /\ since' = [since EXCEPT ![l] = 0]
      BY <1>9 DEF Drop
    <2>2. \A k \in up' : since'[k] = since[k]
      BY <2>1, UpAreLinks DEF TypeOK, SessionTypeOK
    <2>3. QED BY <1>1, <2>1, <2>2, ActivityQuiet DEF Quiet
  <1>10. QED BY <1>3, <1>4, <1>5, <1>7, <1>8, <1>9 DEF ServerStep

(***************************************************************************)
(* A step that leaves the activity alone.                                  *)
(***************************************************************************)
LEMMA ActivityAlone ==
  ASSUME TypeOK, ActivityInv, UNCHANGED <<wire, emitted, seen, slot>>, up' \subseteq up,
         \A l \in up' : since'[l] = since[l]
  PROVE  ActivityInv'
  BY ActivityQuiet DEF Quiet

LEMMA ActivityClient ==
  ASSUME TypeOK, UpIsRead, ActivityInv, NEW c \in Client, ClientStep(c), UNCHANGED sessionVars
  PROVE  ActivityInv'
  <1>1. emitted' = emitted /\ since' = since
    BY DEF sessionVars
  <1>2. CASE \/ OpenSession(c) /\ UNCHANGED linkVars
             \/ OpenDenied(c) \/ ReconnectNow(c) \/ Submit(c) \/ SubmitEnds(c)
    <2>1. UNCHANGED <<up, wire, seen, slot>>
      BY <1>2 DEF OpenSession, OpenDenied, ReconnectNow, Submit, SubmitEnds, linkVars
    <2>2. QED BY <1>1, <2>1, ActivityAlone
  <1>3. CASE Notice(c)
    <2>1. /\ Current(c) \notin up /\ UNCHANGED <<up, seen, slot>>
          /\ wire' = [wire EXCEPT ![Current(c)] = <<>>]
      BY <1>3 DEF Notice
    <2>2. \A l \in Link : IF l = Current(c) THEN wire'[l] = <<>> ELSE wire'[l] = wire[l]
      BY <2>1, WireTypes DEF Wires
    <2>3. Quiet
      BY <2>1, <2>2, UpAreLinks DEF Quiet
    <2>4. QED BY <1>1, <2>1, <2>2, <2>3, ActivityQuiet
  <1>4. CASE Read(c)
    BY <1>1, <1>4, ActivityRead
  <1>5. ASSUME NEW l, Cut(l) PROVE ActivityInv'
    <2>1. up' \subseteq up /\ UNCHANGED <<wire, seen, slot>>
      BY <1>5 DEF Cut
    <2>2. QED BY <1>1, <2>1, ActivityAlone
  <1>6. ASSUME NEW r \in Req, NEW v \in BOOLEAN, Decide(c, r, v) \/ DecisionAnswered(c, r, v)
        PROVE  ActivityInv'
    <2>1. UNCHANGED <<up, wire, seen, slot>>
      BY <1>6 DEF Decide, DecisionAnswered, linkVars
    <2>2. QED BY <1>1, <2>1, ActivityAlone
  <1>7. QED BY <1>2, <1>3, <1>4, <1>5, <1>6 DEF ClientStep

LEMMA NextActivityInv ==
  ASSUME TypeOK, UpIsRead, ActivityInv, [Next]_vars
  PROVE  ActivityInv'
  <1>1. CASE ServerStep /\ UNCHANGED clientVars
    BY <1>1, ActivityServer
  <1>2. ASSUME NEW c \in Client, ClientStep(c) /\ UNCHANGED sessionVars PROVE ActivityInv'
    BY <1>2, ActivityClient
  <1>3. CASE ApiMessage
    <2>1. PICK frame : frame = Plain("turn_start")
      OBVIOUS
    <2>2. Broadcast(frame) /\ UNCHANGED <<up, emitted, since, seen, slot>>
      BY <1>3, <2>1 DEF ApiMessage, HandleMessage, clientVars
    <2>3. frame \in Frame /\ ~IsItem(frame)
      BY <2>1, FramesAreFrames DEF IsItem, Plain
    <2>4. QED BY <2>2, <2>3, ActivityBroadcast
  <1>4. ASSUME NEW c \in Client, MessageArrives(c) PROVE ActivityInv'
    <2>1. PICK answer \in {"accepted", "refused", "malformed"} :
            HandleMessage(SubmitNamesProject, answer) /\ SubmitAnswered(c, answer)
      BY <1>4 DEF MessageArrives
    <2>2. answer # "accepted"
      BY <2>1 DEF HandleMessage, MessageAnswers, SubmitNamesProject
    <2>3. UNCHANGED <<up, wire, emitted, since, seen, slot>>
      BY <2>1, <2>2 DEF HandleMessage, SubmitAnswered, linkVars, sessionVars
    <2>4. QED BY <2>3, ActivityAlone
  <1>5. ASSUME NEW c \in Client, Connect(c) PROVE ActivityInv'
    BY <1>5, ActivityConnect
  <1>6. ASSUME NEW c \in Client, ConnectLost(c) \/ ConnectFails(c) PROVE ActivityInv'
    <2>1. UNCHANGED <<up, wire, emitted, since, seen, slot>>
      BY <1>6 DEF ConnectLost, ConnectFails, HandleEvents, OpenFails, linkVars, sessionVars
    <2>2. QED BY <2>1, ActivityAlone
  <1>7. ASSUME NEW c \in Client, NEW r \in Req, NEW v \in BOOLEAN, Confirm(c, r, v)
        PROVE  ActivityInv'
    <2>1. UNCHANGED <<up, wire, emitted, since, seen, slot>>
      BY <1>7 DEF Confirm, HandleConfirm, DecisionArrives, linkVars, sessionVars
    <2>2. QED BY <2>1, ActivityAlone
  <1>8. CASE UNCHANGED vars
    <2>1. UNCHANGED <<up, wire, emitted, since, seen, slot>>
      BY <1>8 DEF vars, linkVars, sessionVars, clientVars
    <2>2. QED BY <2>1, ActivityAlone
  <1>9. QED BY <1>1, <1>2, <1>3, <1>4, <1>5, <1>6, <1>7, <1>8 DEF Next

-----------------------------------------------------------------------------

(***************************************************************************)
(* The inductive invariant, and what follows from it.                      *)
(***************************************************************************)
LEMMA InitIInv == Init => IInv
  <1> SUFFICES ASSUME Init PROVE IInv
    OBVIOUS
  <1>1. /\ LinksInit /\ SessionInit /\ ClientInit
        /\ up = {} /\ subs = {} /\ wire = [l \in Link |-> <<>>]
    BY DEF Init, LinksInit
  <1>2. wire \in [Link -> Seq(Frame)] /\ (\A l \in Link : wire[l] = <<>> /\ Len(wire[l]) = 0)
    <2>1. <<>> \in Seq(Frame) /\ Len(<<>>) = 0
      OBVIOUS
    <2>2. QED BY <1>1, <2>1
  <1>3. LinksTypeOK
    BY <1>1, <1>2 DEF LinksInit, LinksTypeOK
  <1>4. SessionTypeOK
    <2>1. /\ running = FALSE /\ ask = [r \in Req |-> NoAsk] /\ mode = DefaultMode
          /\ asked = 0 /\ emitted = 0 /\ since = [l \in Link |-> 0]
      BY <1>1 DEF SessionInit
    <2>2. running \in BOOLEAN
      BY <2>1, Zenon
    <2>3. NoAsk \in [by : {"nobody", "agent", "switch"}, target : Mode]
      BY DEF NoAsk
    <2>4. ask \in [Req -> [by : {"nobody", "agent", "switch"}, target : Mode]] /\ mode \in Mode
      BY <2>1, <2>3
    <2>5. asked \in 0..MaxAsks /\ emitted \in 0..MaxItems /\ since \in [Link -> 0..MaxItems]
      BY <2>1
    <2>6. QED BY <2>2, <2>4, <2>5 DEF SessionTypeOK
  <1>5. ClientTypeOK
    <2>1. <<>> \in Seq(1..MaxItems)
      OBVIOUS
    <2>2. QED BY <1>1, <2>1 DEF ClientInit, ClientTypeOK
  <1>6. Pending = {}
    BY <1>1 DEF SessionInit, Pending, NoAsk
  <1>7. \A l \in Link : Under(l) = {}
    BY <1>2 DEF Under
  <1>8. UpIsRead /\ GateInv
    BY <1>1 DEF UpIsRead, GateInv, GateIsComing, GateIsRight
  <1>9. CardsInv
    BY <1>1, <1>6, <1>7 DEF CardsInv, CardsAreComing, CardsAreSafe, NobodyWaitsAlone
  <1>10. ActivityInv
    <2>1. WireInOrder
      BY <1>2 DEF WireInOrder
    <2>2. \A c \in Client : seen[c] = <<>> /\ Len(seen[c]) = 0
      BY <1>1 DEF ClientInit
    <2>3. SeenInOrder
      BY <2>2 DEF SeenInOrder
    <2>4. ActivityIsComing
      BY <1>1 DEF ActivityIsComing
    <2>5. QED BY <2>1, <2>3, <2>4 DEF ActivityInv
  <1>11. QED BY <1>3, <1>4, <1>5, <1>8, <1>9, <1>10 DEF IInv, TypeOK

LEMMA NextIInv == IInv /\ [Next]_vars => IInv'
  <1> SUFFICES ASSUME TypeOK, UpIsRead, GateInv, CardsInv, ActivityInv, [Next]_vars PROVE IInv'
    BY DEF IInv
  <1>1. TypeOK'
    BY NextTypeOK DEF UpIsRead
  <1>2. UpIsRead' /\ GateInv'
    BY NextUpIsRead, NextGateInv
  <1>3. CardsInv' /\ ActivityInv'
    BY NextCardsInv, NextActivityInv
  <1>4. QED BY <1>1, <1>2, <1>3 DEF IInv

LEMMA SpecIInv == Spec => []IInv
  <1>1. Init => IInv
    BY InitIInv
  <1>2. IInv /\ [Next]_vars => IInv'
    BY NextIInv
  <1>3. QED BY <1>1, <1>2, PTL DEF Spec

\* The connections, the session and the tabs have their types: among others,
\* what waits for an answer has a mode to switch to, and the automatic
\* attempts of a tab stay within MAX_RECONNECT_ATTEMPTS.
THEOREM LiveTypeOK == Spec => []TypeOK
  <1>1. IInv => TypeOK
    BY DEF IInv
  <1>2. QED BY <1>1, SpecIInv, PTL

LEMMA AtRestIsUp ==
  ASSUME IInv, NEW c \in Client, AtRest(c)
  PROVE  /\ Current(c) \in up /\ Current(c)[1] = c /\ Current(c) \in Link
         /\ wire[Current(c)] = <<>> /\ Len(wire[Current(c)]) = 0 /\ Under(Current(c)) = {}
  <1>1. TypeOK /\ Current(c) \in up /\ wire[Current(c)] = <<>>
    BY DEF IInv, AtRest
  <1>2. Len(wire[Current(c)]) = 0 /\ Under(Current(c)) = {}
    BY <1>1 DEF Under
  <1>3. QED BY <1>1, <1>2, OtherIsLink

\* The gate that submit() and the turn frames close is open again in every
\* tab that has read all frames of its connection and awaits no answer,
\* unless a turn runs: turn_state tells a new connection what it has missed.
THEOREM GatesOpenAgain == Spec => []GateOpensAgain
  <1>1. IInv => GateOpensAgain
    <2> SUFFICES ASSUME IInv, NEW c \in Client, AtRest(c), prompt[c] = "idle", inFlight[c]
                 PROVE  running
      BY DEF GateOpensAgain
    <2>1. PICK l \in up : l[1] = c /\ Under(l) = {}
      BY AtRestIsUp
    <2>2. GateIsRight
      BY DEF IInv, GateInv
    <2>3. QED BY <2>1, <2>2 DEF GateIsRight
  <1>2. QED BY <1>1, SpecIInv, PTL

\* Every confirmation that onConfirmRequest has registered is on display in
\* every tab that has read its connection, also in one that connected later
\* or whose user has answered it in vain; none is left when nobody listens.
THEOREM PendingConfirmsAreShown == Spec => []PendingIsShown
  <1>1. IInv => PendingIsShown
    <2> SUFFICES ASSUME IInv PROVE PendingIsShown
      OBVIOUS
    <2>1. ASSUME NEW c \in Client, AtRest(c) PROVE Pending \subseteq confirms[c]
      <3>1. PICK l \in up : l[1] = c /\ Under(l) = {}
        BY <2>1, AtRestIsUp
      <3>2. CardsAreComing
        BY DEF IInv, CardsInv
      <3>3. QED BY <3>1, <3>2 DEF CardsAreComing
    <2>2. QED BY <2>1 DEF PendingIsShown, IInv, CardsInv, NobodyWaitsAlone
  <1>2. QED BY <1>1, SpecIInv, PTL

\* What the engine reports reaches every tab in order and once, and a tab
\* that has read its connection has missed nothing since it was made.
THEOREM ActivityIsNotLost == Spec => []ActivityIsShown
  <1>1. IInv => ActivityIsShown
    <2> SUFFICES ASSUME IInv, NEW c \in Client
                 PROVE  /\ \A i, j \in 1..Len(seen[c]) : i < j => seen[c][i] < seen[c][j]
                        /\ AtRest(c) =>
                             \A k \in since[Current(c)] + 1 .. emitted :
                               \E i \in 1..Len(seen[c]) : seen[c][i] = k
      BY DEF ActivityIsShown
    <2>1. TypeOK /\ SeenInOrder /\ ActivityIsComing
      BY DEF IInv, ActivityInv
    <2>2. ASSUME NEW i \in 1..Len(seen[c]), NEW j \in 1..Len(seen[c]), i < j
          PROVE  seen[c][i] < seen[c][j]
      <3>1. j \in i + 1 .. Len(seen[c])
        BY <2>1, <2>2, ItemNumbers
      <3>2. QED BY <2>1, <3>1 DEF SeenInOrder
    <2>3. ASSUME AtRest(c), NEW k \in since[Current(c)] + 1 .. emitted
          PROVE  \E i \in 1..Len(seen[c]) : seen[c][i] = k
      <3>1. PICK l \in up : l = Current(c) /\ l[1] = c /\ Under(l) = {}
        BY <2>3, AtRestIsUp
      <3>2. k \in since[l] + 1 .. emitted
        BY <3>1
      <3>3. Shown(l[1], k)
        BY <2>1, <3>1, <3>2 DEF ActivityIsComing
      <3>4. QED BY <3>1, <3>3 DEF Shown
    <2>4. QED BY <2>2, <2>3
  <1>2. QED BY <1>1, SpecIInv, PTL

\* switchMode is called only by the continuation of a request that a user
\* has approved, and with the mode of that request; the timer, a denial and
\* the loss of the last connection settle it without a switch.
THEOREM SwitchesAreApproved == Spec => OnlyApprovedSwitch
  <1> DEFINE Approved ==
        mode' # mode =>
          \/ \E c \in Client, r \in Req :
               <<c, r, TRUE>> \in sent \ sent' /\ ask[r] = [by |-> "switch", target |-> mode']
          \/ Restart
  <1>1. ASSUME TypeOK, [Next]_vars PROVE Approved
    <2>1. ASSUME NEW rs \in SUBSET Req, Settle(rs, FALSE) PROVE mode' = mode
      BY <2>1 DEF Settle
    <2>2. CASE ServerStep
      <3>1. CASE Restart
        BY <3>1
      <3>2. ASSUME NEW l \in Link, Drop(l) PROVE mode' = mode
        <4>1. Pending \in SUBSET Req
          BY DEF Pending
        <4>2. QED BY <2>1, <3>2, <4>1 DEF Drop
      <3>3. ASSUME NEW r \in Req, ConfirmTimeout(r) PROVE mode' = mode
        BY <2>1, <3>3 DEF ConfirmTimeout
      <3>4. CASE \/ Emit \/ TurnEnds
                 \/ \E r \in Req : AgentAsks(r) \/ \E m \in Mode : HandleSwitchWorkMode(r, m)
        BY <3>4 DEF Emit, TurnEnds, AgentAsks, HandleSwitchWorkMode
      <3>5. QED BY <2>2, <3>1, <3>2, <3>3, <3>4 DEF ServerStep
    <2>3. ASSUME NEW c \in Client, NEW r \in Req, NEW v \in BOOLEAN, Confirm(c, r, v)
          PROVE  Approved
      <3>1. CASE HandleConfirm(r, v) /\ DecisionArrives(c, r, v, TRUE)
        <4>1. /\ Settle({r}, v) /\ <<c, r, v>> \in sent \ sent'
          BY <3>1 DEF HandleConfirm, DecisionArrives
        <4>2. CASE v /\ ask[r].by = "switch"
          <5>1. mode' = ask[r].target
            BY <4>1, <4>2 DEF Settle
          <5>2. ask[r] \in [by : {"nobody", "agent", "switch"}, target : Mode]
            BY <1>1 DEF TypeOK, SessionTypeOK
          <5>3. ask[r] = [by |-> "switch", target |-> mode']
            BY <4>2, <5>1, <5>2
          <5>4. <<c, r, TRUE>> \in sent \ sent'
            BY <4>1, <4>2
          <5>5. QED BY <5>3, <5>4
        <4>3. CASE ~(v /\ ask[r].by = "switch")
          BY <4>1, <4>3 DEF Settle
        <4>4. QED BY <4>2, <4>3
      <3>2. CASE UNCHANGED sessionVars
        BY <3>2 DEF sessionVars
      <3>3. QED BY <2>3, <3>1, <3>2 DEF Confirm
    <2>4. ASSUME NEW c \in Client,
                 \/ ClientStep(c) /\ UNCHANGED sessionVars
                 \/ MessageArrives(c) \/ Connect(c) \/ ConnectLost(c) \/ ConnectFails(c)
          PROVE  mode' = mode
      BY <2>4 DEF MessageArrives, HandleMessage, Connect, ConnectLost, ConnectFails, HandleEvents,
                  sessionVars
    <2>5. CASE ApiMessage \/ UNCHANGED vars
      BY <2>5 DEF ApiMessage, HandleMessage, vars, sessionVars
    <2>6. QED BY <1>1, <2>2, <2>3, <2>4, <2>5 DEF Next
  <1>2. TypeOK /\ [Next]_vars => [Approved]_vars
    BY <1>1
  <1>3. QED BY <1>2, LiveTypeOK, PTL DEF Spec, OnlyApprovedSwitch
=============================================================================
