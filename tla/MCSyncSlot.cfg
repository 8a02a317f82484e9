CONSTANTS
  Runs = {r1, r2}
  Workers = {w1, w2}
  Ids = {1}
  Candidates <- MCLinked
  Initially <- MCLinked
  NoRun = NoRun
SPECIFICATION FairSpec
INVARIANTS
  TypeOK
  ExclusionUnlessRaced
PROPERTIES
  RevivalNeedsInterference
  SlotFreed
\* Once every row of Runs is used and finished, no request changes anything.
CHECK_DEADLOCK FALSE
