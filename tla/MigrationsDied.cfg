\* Two processes, of which one may die.
CONSTANTS
  None = None
  Runs = {r1, r2}
  r1 = r1
  r2 = r2
  Docs = {d1}
  d1 = d1
  MaxStarts = 2
SPECIFICATION Spec
INVARIANT RecordedIsDone
CHECK_DEADLOCK FALSE
