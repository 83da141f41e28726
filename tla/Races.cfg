\* Two requests at once over two files and two documents that share them, or over three folders and a
\* document; one of the latter may move folders.
CONSTANTS
  None = None
  Account = Account
  Docs = {d1, d2}
  d1 = d1
  d2 = d2
  Assets = {scan, photo}
  scan = scan
  photo = photo
  Size <- MCSize
  Limit = 3
  Batch = 2
  Procs = {p1, p2}
  p1 = p1
  p2 = p2
  Folders = {f1, f2, f3}
  f1 = f1
  f2 = f2
  f3 = f3
  Placed = {e1}
  e1 = e1
  Handlers = {h1, h2}
  h1 = h1
  h2 = h2
  Movers = {h1}
SPECIFICATION MCSpec
INVARIANTS NoCycle ReadyHasFile
PROPERTIES LedgerSpec OnlyInsideGoesAlong
CHECK_DEADLOCK FALSE
SYMMETRY Symmetry
