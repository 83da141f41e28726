\* Two requests and two workers at once, two uploads, a small file and one sent in two parts that do
\* not fit the plan together.
CONSTANTS
  notes = notes
  video = video
  None = None
  Ids = {i1, i2}
  i1 = i1
  i2 = i2
  Users = {alice}
  alice = alice
  Files = {notes, video}
  Multipart = {video}
  Genuine = {notes, video}
  Size <- MCSize
  PartCount = 2
  Limit = 2
  MaxReceives = 2
  Procs = {p1, p2}
  p1 = p1
  p2 = p2
  Workers = {w1, w2}
  w1 = w1
  w2 = w2
SPECIFICATION Spec
INVARIANTS StorageConserved QuotaNeverExceeded ReadyIsGenuine
PROPERTIES VerdictIsFinal LedgerSpec
CHECK_DEADLOCK FALSE
SYMMETRY Symmetry
