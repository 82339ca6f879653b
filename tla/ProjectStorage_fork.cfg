CONSTANTS
  File = {f1, f2}
  Content = {a, b}
  Absent = Absent
  Ignored = {f2}
  NoWrite = NoWrite
  Unasked = Unasked
  Blended = Blended
  Commit = {c1, c2}
  NoCommit = NoCommit
  NoTree = NoTree
  Saves <- MCSaves
SPECIFICATION Spec
SYMMETRY Identities
PROPERTIES ForkSparesOrigin
