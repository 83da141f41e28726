\* Two moves of folders at once.
CONSTANTS
  None = None
  Folders = {f1, f2}
  Docs = {d1}
  Procs = {p1, p2}
  p1 = p1
  p2 = p2
  Movers = {p1, p2}
  f1 = f1
  f2 = f2
  d1 = d1
SPECIFICATION Spec
INVARIANT NoCycle
SYMMETRY Symmetry
