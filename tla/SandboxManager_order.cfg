CONSTANTS
  Project = {p1}
  Exec = {e1, e2}
  EvictSlot = {}
  CallSlot = {c1}
  Rec = {r1, r2}
  Name = {n1, n2}
  Command = {"valid", "malformed"}
  MaxSandboxes = 1
  StartupReap = TRUE
  MaxLeaks = 1
  NoProject = NoProject
  NoRec = NoRec
  NoName = NoName
SPECIFICATION FairSpec
INVARIANTS RunsSerialised RunHasContainer
PROPERTIES EveryCallReturns RefinesFairSerialRuns
