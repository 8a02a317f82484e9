CONSTANTS
  u1 = u1
  a1 = a1
  a2 = a2
  k1 = k1
  k2 = k2
  o1 = o1
  t1 = t1
  s1 = s1
  c1 = c1
  c2 = c2
  c3 = c3
  v1 = v1
  v2 = v2
  n1 = n1
  n2 = n2
  Users = {u1}
  Accounts = {a1, a2}
  Campaigns = {k1, k2}
  AccountOf <- MCAccountOf
  There = {k1}
  Initially <- MCInitially
  Calls = {c1, c2}
  Offices = {o1}
  Teams = {t1}
  Staff = {s1}
  OfficeOf <- MCOfficeOf
  TeamsOf <- MCTeamsOf
  Wishes = {w1}
  Labels = {l1}
  Values = {v1, v2}
  Slots = {n1, n2}
  None = None
SYMMETRY MCSymmetry
SPECIFICATION Spec
INVARIANTS
  GrantedIsOpen
  RevokedIsClosed
  ListedIffReadable
  DoubledOnlyIfOverlapped
PROPERTIES
  OnlyDeleteRemoves
\* Each request is served once.
CHECK_DEADLOCK FALSE
