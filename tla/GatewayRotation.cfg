CONSTANTS
  k1 = k1
  k2 = k2
  k3 = k3
  AppRows = {r1, r2}
  Origins = {o1}
  Clients = {self, g1}
  Self = self
  Instances = {i1, i2}
  Requests = {q1}
  MaxChanges = 2
  Keys = {k1, k2, k3}
  Kid <- MCKid
  First = k1
  Audience = gub
  Apps = {a1, a2}
  App = a1
  Tokens = {t1}
  None = None
SPECIFICATION Spec
INVARIANT RotationKeepsTokens
CHECK_DEADLOCK FALSE
