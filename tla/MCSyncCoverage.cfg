CONSTANTS
  Runs = {r1}
  Workers = {w1, w2}
  Ids = {1, 2, 3}
  Candidates <- MCCandidates
  Initially <- MCInitially
  NoRun = NoRun
SPECIFICATION Spec
INVARIANTS
  CheckpointCovered
  SuccessCovers
PROPERTIES
  CoverageSpec
\* Once every row of Runs is used and finished, no request changes anything.
CHECK_DEADLOCK FALSE
