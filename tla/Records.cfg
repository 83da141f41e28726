\* Every part on its small instance; the paper has its own in MCRecords.
CONSTANTS
  None = None
  p1 = p1
  p2 = p2
  a = a
  b = b
  c = c
  PageIds = {1, 2, 3}
  First = 2
  Lockable = {2}
  Top = 3
  Gap = 1
  Procs = {p1, p2}
  TagIds = {a, b}
  TagNames = {a, b}
  Tagged = {a, b}
  MaxTags = 1
  Users = {a, b}
  Spaces = {a, b, c}
  MaxAdds = 1
  ListDocs = {1, 2, 3}
  Readable = {1, 3}
  SortKeys = {1, 2}
  PageRows = 1
  BatchRows = 2
  RowChanges = 1
  Jobs = {a, b}
  Files = {a, b}
  Assets = {a, b}
  Limit = 2
  MaxReceives = 2
  Workers = {p1, p2}
  Hosts = {1, 2, 3}
  Private = {3}
  MaxRedirects = 1
  MaxBytes <- MCMaxBytes
  Lengths = {0, 1, 2, 3, 4, 5, 6, 7}
  MaxChunk = 4
  Sniffed = 2
  PartBytes = 3
  Runs = {p1, p2}
  Filed = {a}
  MaxStarts = 3
  Listed = {a, b}
  Folders = {a, b}
  Shown = b
  Views = {"folder", "trash"}
  MaxBulkIds = 1
  Labels = {}
  FolderNames = {1, 2}
  MaxEvents = 3
  Saved = {1}
  System = {3}
  SystemPages <- MCSystemPages
  Me = a
  Papers = {"plain"}
  MaxPages = 2
  TemplatePages = 1
  Entries = {a, b}
  Pdfs = {b}
  MaxItems = 2
  MaxCreated = 1
  PageSizes = {"a4", "custom"}
  Typed = {9, 10, 2001}
  Units = {"in"}
  Papered = {"ruledCollege"}
  Lines = {7, None}
  Counts = {1, 501}
  Orientations = {"portrait"}
  Images <- MCImages
  MaxSizes = 2
SPECIFICATION MCSpec
INVARIANTS TypesOK CountMatches KeysNeverCollide NoDanglingTag OwnersBelong ListedOnceInOrder
  ShownIsCurrent ImportedIsKept DoneUnlessDied CreatedAsShown DrawnAsChosen
PROPERTIES ChangeTouchesItsOwn
SYMMETRY Symmetry
CHECK_DEADLOCK FALSE
