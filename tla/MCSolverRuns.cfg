SPECIFICATION Spec
CONSTANTS
  s1 = s1
  s2 = s2
  s3 = s3
  Solves = {s1, s2, s3}
  Overrun = {s3}
  Workers = 1
  Limit = 2
  Grace = 1
INVARIANTS NoDirectoryLeft TimeoutNeedsQueue NoGhostSolve
PROPERTIES DirectoriesListed EverySolveEnds
CHECK_DEADLOCK FALSE
