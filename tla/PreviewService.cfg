CONSTANTS
  Project = {p1, p2}
  Port = {t1, t2}
  Rec = {r1, r2}
  Check = {k1, k2}
  RestartCap = 1
  MaxTries = 0
  NoRec = NoRec
  NoPort = NoPort
  NoProject = NoProject
SPECIFICATION Spec
SYMMETRY Identities
INVARIANTS TypeOK OneUrlEach NoPortIsLost StoppedIsGone HandleIsHonest
PROPERTIES StopIsFinal
