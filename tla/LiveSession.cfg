CONSTANTS
  Client = {c1}
  Req = {q1, q2}
  Mode = {vibe, spec}
  DefaultMode = vibe
  MaxWire = 2
  MaxItems = 2
  MaxAsks = 1
  MaxAttempts = 1
  MaxFaults = 1
  MaxCalls = 1
SPECIFICATION FairSpec
INVARIANTS TypeOK GateOpensAgain PendingIsShown ActivityIsShown
PROPERTIES OnlyApprovedSwitch EveryTurnEnds
