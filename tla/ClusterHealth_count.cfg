\* The deployment's inserts, sweeps and one deletion.
CONSTANTS
  h1 = h1
  h2 = h2
  f1 = f1
  Sweep = Sweep
  LogWatcher = LogWatcher
  None = None
  Hosts = {h1, h2}
  Refreshes = {}
  Courses <- QuietCourses
SPECIFICATION Spec
PROPERTY CountFollowsServers
CHECK_DEADLOCK FALSE
