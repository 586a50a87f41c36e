\* Two switchovers that fail.
CONSTANTS
  None = None
  Hosts = {1, 2, 3}
  MaxRuns = 1
  MaxFaults = 2
  MaxAccidents = 0
SPECIFICATION Spec
PROPERTY StoppedAsReplica
CHECK_DEADLOCK FALSE
