\* Five clusters of two projects, any of them created or deleted meanwhile.
CONSTANTS
  p1 = p1
  p2 = p2
  None = None
  Projects = {p1, p2}
  Clusters = {1, 2, 3, 4, 5}
  Project <- MCProject
  Initially = {1, 3, 4, 5}
  PoolSize = 2
  PageSize = 2
  MaxFaults = 1
SPECIFICATION FairSpec
INVARIANTS PoolIsBounded SweepsAreApart HandledOnce
PROPERTIES StopEnds HandledAgain
CHECK_DEADLOCK FALSE
