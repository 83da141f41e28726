\* Two requests at once: a document is made while the last other user of its file is purged.
CONSTANTS
  None = None
  Account = Account
  Docs = {d1, d2}
  d1 = d1
  d2 = d2
  Assets = {scan, photo}
  scan = scan
  photo = photo
  Size <- MCSize
  Limit = 3
  Batch = 2
  Procs = {p1, p2}
  p1 = p1
  p2 = p2
SPECIFICATION Spec
INVARIANT NoDanglingFile
CHECK_DEADLOCK FALSE
SYMMETRY Symmetry
