CONSTANTS
  Proc = {p1, p2}
  Owner = {o1}
  Project = {a, b, d}
  Id = {i1, i2, i3, i4}
  IndexLock = IndexLock
  NoId = NoId
  NoLock = NoLock
  NoProject = NoProject
  MaxProjects = 1
  MaxCrashes = 1
  Lock <- MCLock
  OwnerOf <- MCOwnerOf
SPECIFICATION Spec
SYMMETRY Identities
INVARIANTS TypeOK Exclusive NoEntryIsLost IndexKnowsCreated GetFindsRegistered QuotaNearlyHolds
