CONSTANTS
  Proposals = {p1, p2}
  Entities = {}
  Folders = {f1}
  Staff = {s1, s2}
  Owner <- OwnerOfField
  Values = {v1}
  Runs = {r1, r2}
  Requests = {}
  Mailers = {m1, m2}
  MaxRows = 0
  None = None
SYMMETRY SymMails
SPECIFICATION Spec
INVARIANTS
  AnnouncedWasMailed
  AnnouncedOnce
\* Once every proposal is decided, nothing need happen.
CHECK_DEADLOCK FALSE
