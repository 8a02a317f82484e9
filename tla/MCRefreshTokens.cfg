CONSTANTS
  Tokens = {1, 2, 3}
  Requests = {q1, q2}
  Users = {u1}
  Cap = 2
  None = None
SYMMETRY MCSymmetry
SPECIFICATION Spec
INVARIANTS
  RevocationIsFinal
  OneUsableToken
  CapUnlessCrowded
PROPERTIES
  DisabledGetNothing
  SessionsSpec
\* Once every token of Tokens is issued and its row deleted, nothing changes.
CHECK_DEADLOCK FALSE
