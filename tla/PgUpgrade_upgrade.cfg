\* Three hosts: upgrades and rollbacks with failures and accidents.
CONSTANTS
  h1 = h1
  h2 = h2
  h3 = h3
  None = None
  Hosts = {h1, h2, h3}
  Master = h1
  Bounds <- AllCourses
SPECIFICATION FairSpec
INVARIANTS ReportIsTrue
PROPERTIES LinkedFilesSafe UpgradedIsWhole UndisturbedCompletes
CHECK_DEADLOCK FALSE
