CONSTANTS
  a = a
  c = c
  Entities = {a, c}
  f1 = f1
  f2 = f2
  Files = {f1, f2}
  Parent <- MCParent
  Home <- MCHome
  Depth <- MCDepth
  MAX_DEPTH = 1
  Runs = {r1, r2}
  Polls = {p1}
  MaxEdits = 1
  None = None
SYMMETRY MCSymmetry
SPECIFICATION Spec
INVARIANTS
  PassedOverWasRead
  TokenOwesNothing
PROPERTIES
  ExtractedOnce
