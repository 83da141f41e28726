\* Two documents, each a chunk of its own.
CONSTANTS
  None = None
  Docs = {d1, d2}
  d1 = d1
  d2 = d2
  Folders = {top, f1}
  top = top
  f1 = f1
  Shown = f1
  Views = {"folder", "trash"}
  Acts = {p1, p2}
  p1 = p1
  p2 = p2
  MaxBulkIds = 1
  MaxEvents = 3
SPECIFICATION Spec
INVARIANT RolledBackIsCurrent
CHECK_DEADLOCK FALSE
