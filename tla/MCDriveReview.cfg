CONSTANTS
  Proposals = {p1, p2}
  Entities = {e1}
  Folders = {f1}
  Staff = {s1, s2}
  Owner <- OwnerOfField
  Values = {v1, v2}
  Runs = {r1}
  Requests = {q1, q2}
  Mailers = {}
  MaxRows = 2
  None = None
SYMMETRY SymReview
SPECIFICATION Spec
INVARIANTS
  EffectMatchesVerdict
  LogTellsValue
  PreviousUnlessStale
PROPERTIES
  OwnerDecides
\* Once every proposal is decided, nothing need happen.
CHECK_DEADLOCK FALSE
