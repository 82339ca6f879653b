CONSTANTS
  Project = {p1}
  Port = {t1, t2}
  Rec = {r1, r2}
  Check = {}
  RestartCap = 3
  MaxTries = 4
  NoRec = NoRec
  NoPort = NoPort
  NoProject = NoProject
SPECIFICATION Spec
SYMMETRY Identities
INVARIANTS RestartsAreCapped
