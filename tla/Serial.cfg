\* One request at a time, with crashes, over two people, two grants and a link; the trash; and what one
\* person meets in two browsers, with two workspaces, two folders and one image.
CONSTANTS
  alice = alice
  bob = bob
  None = None
  People = {alice, bob}
  Member <- MCMember
  Creator = alice
  GrantIds = {g1, g2}
  g1 = g1
  g2 = g2
  Links = {l1}
  l1 = l1
  LinkKinds <- MCLinkKinds
  GrantKinds = {"editor", "owner"}
  Principals <- MCPrincipals
  Procs = {p1}
  p1 = p1
  Account = Account
  d1 = d1
  d2 = d2
  d3 = d3
  Docs = {d1, d2, d3}
  Assets = {scan, photo}
  Size <- MCSize
  Limit = 3
  Batch = 2
  scan = scan
  photo = photo
  Browsers = {1, 2}
  Names = {"n1", "n2"}
  LinkLife = 1
  CookieLife = 1
  TokenLife = 2
  MaxLinks = 2
  Askers = {1, 2}
  SessionLife = 6
  RenewBefore = 4
  UrlLife = 2
  Sheets = {1, 2}
  ReadLife = 3
  StaleAfter = 2
  Workspaces = {1, 2}
  FilterTags = {"red", "blue"}
  TagLimit = 1
  Texts = {"ab", "abc"}
  Titles = {"x", "y", "z"}
  Found <- MCFound
  MaxPosts = 4
  Lossy = TRUE
  Folders = {"f", "g"}
  Labels = {"s"}
  FolderNames = {"m"}
  MaxCalls = 1
SPECIFICATION MCSpec
INVARIANTS TypesOK OwnerRemains ListedCanBeOpened NoDanglingFile OwnerExists
PROPERTIES RefreshedIsRight OwnersMakeOwners PassesAreGood ShowsWhatItIsAbout
SYMMETRY Symmetry
CHECK_DEADLOCK FALSE
