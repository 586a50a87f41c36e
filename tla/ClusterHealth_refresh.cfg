\* A sweep and a refresh beside a healthy cluster with a deletion, and beside
\* one that changes, with a failed call.
CONSTANTS
  h1 = h1
  h2 = h2
  f1 = f1
  Sweep = Sweep
  LogWatcher = LogWatcher
  None = None
  Hosts = {h1, h2}
  Refreshes = {f1}
  Courses <- AllCourses
SPECIFICATION FairSpec
INVARIANTS NoFalseAlarm UnavailableWasConnected
PROPERTIES NoFalseReset Converges
CHECK_DEADLOCK FALSE
