CONSTANTS
  p1 = p1
  p2 = p2
  e1 = e1
  e2 = e2
  t1 = t1
  s1 = s1
  s2 = s2
  Profiles = {p1, p2}
  Robots = {p2}
  Emails = {e1, e2}
  Entered = {e1}
  Foreign = {}
  Titles = {t1}
  Syncs = {s1, s2}
  MaxEdits = 2
  MaxFaults = 1
  None = None
SPECIFICATION Spec
INVARIANTS
  LogTellsStaff
  SharedOnlyAfterReuse
PROPERTIES
  CatchesUp
