\* Two workspaces, switched between once at a time, and requests that are answered in any order.
CONSTANTS
  None = None
  Workspaces = {1, 2}
  Tags = {"red"}
  TagLimit = 1
  Texts = {"ab"}
  Found <- MCFound
  MaxPosts = 1
  Lossy = FALSE
SPECIFICATION MoveSpec
INVARIANT Remembered
CHECK_DEADLOCK FALSE
