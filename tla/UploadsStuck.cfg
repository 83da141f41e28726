\* One upload, one request at a time, fair, with crashes.
CONSTANTS
  notes = notes
  video = video
  None = None
  Ids = {i1}
  i1 = i1
  Users = {alice}
  alice = alice
  Files = {notes, video}
  Multipart = {video}
  Genuine = {notes, video}
  Size <- MCSize
  PartCount = 1
  Limit = 3
  MaxReceives = 2
  Procs = {p1}
  p1 = p1
  Workers = {w1}
  w1 = w1
SPECIFICATION FairSpec
PROPERTY AssetSettles
CHECK_DEADLOCK FALSE
