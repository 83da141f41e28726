\* Two requests at once about one upload.
CONSTANTS
  notes = notes
  video = video
  None = None
  Ids = {i1, i2}
  i1 = i1
  i2 = i2
  Users = {alice}
  alice = alice
  Files = {notes, video}
  Multipart = {video}
  Genuine = {notes, video}
  Size <- MCSize
  PartCount = 1
  Limit = 3
  MaxReceives = 2
  Procs = {p1, p2}
  p2 = p2
  p1 = p1
  Workers = {w1, w2}
  w1 = w1
  w2 = w2
SPECIFICATION Spec
INVARIANT AbortedHasNoAsset
CHECK_DEADLOCK FALSE
