CONSTANTS
  Project = {p1, p2, p3}
  Exec = {e1}
  EvictSlot = {v1}
  CallSlot = {}
  Rec = {r1, r2}
  Name = {n1}
  Command = {"valid"}
  MaxSandboxes = 1
  StartupReap = FALSE
  MaxLeaks = 1
  NoProject = NoProject
  NoRec = NoRec
  NoName = NoName
SPECIFICATION Spec
INVARIANTS TypeOK RunIsCounted NoRecordLeak
PROPERTIES EvictionSparesRuns MapBounded
