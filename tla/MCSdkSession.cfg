\* No symmetry: LoadingEnds is a liveness property.
CONSTANTS
  Tokens = {t1, t2}
  Pages = {p1, p2}
  Calls = {k1, k2}
  Nothing = Nothing
SPECIFICATION SdkSpec
INVARIANTS
  NoSelfRevocation
  LogoutSticks
PROPERTIES
  LoadingEnds
\* With every token issued and every page signed out nothing need happen.
CHECK_DEADLOCK FALSE
