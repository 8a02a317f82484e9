CONSTANTS
  Requests = {q1, q2, q3}
  Accounts = {u1, u2}
  Subs = {s1, s2}
  Emails = {e1, e2}
  Clients = {c1}
  Uris = {w1, w2}
  Registered <- MCRegistered
  States = {st1}
  Disables = 1
  Renames = 1
  None = None
SYMMETRY MCSymmetry
SPECIFICATION Spec
INVARIANTS
  SessionOfSigner
  OneCodePerAuthorization
  CodeSpentOnce
  DisabledGetNothing
\* Each request runs once.
CHECK_DEADLOCK FALSE
