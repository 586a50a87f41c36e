\* A run that fails, and another one.
CONSTANTS
  None = None
  Hosts = {1, 2, 3}
  MaxRuns = 2
  MaxFaults = 1
  MaxAccidents = 0
SPECIFICATION Spec
INVARIANT ReadServed
CHECK_DEADLOCK FALSE
