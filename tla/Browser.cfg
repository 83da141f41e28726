\* A file of three parts sent two at a time, in two runs; three files, two at a time; two clients that share
\* two hits in two ticks; a view of three documents, of which one is not the user's, with a pointer on the
\* four cards of its grid; the places of up to five documents, with a pointer on and beside every edge; and
\* one upload request at a time with two workers: a small file that is not what it says, one sent in parts.
CONSTANTS
  None = None
  a = a
  b = b
  c = c
  Parts = {1, 2, 3}
  Concurrency = 2
  MaxAttempts = 2
  MaxRuns = 2
  Files = {a, b, c}
  FileConcurrency = 2
  Clients = {a, b}
  Limit = 2
  Window = 2
  MaxBroken = 2
  Docs = {a, b, c}
  Deletable = {a, b}
  PerPage = 1
  Orders <- MCOrders
  Layouts <- MCLayouts
  Xs = {0, 200}
  Ys = {0, 215}
  Most = 5
  Widths = {100, 288, 380, 519, 520, 800}
  Lefts <- MCLefts
  Tops <- MCTops
  video = video
  Ids = {i1, i2}
  i1 = i1
  i2 = i2
  Users = {a}
  Stored = {b, video}
  Size <- MCSize
  Multipart = {}
  Genuine = {video}
  PartCount = 1
  Plan = 2
  MaxReceives = 2
  Procs = {p1}
  p1 = p1
  Workers = {w1, w2}
  w1 = w1
  w2 = w2
SPECIFICATION MCSpec
INVARIANTS TypesOK CompleteHasAllParts ReadyHasObject
PROPERTIES CancelledIsFinal UploadsSettle GetsThrough ActsOnWhatIsShown JobSettles
CHECK_DEADLOCK FALSE
