\* Two requests for one cluster name, no failures: the second may reuse the
\* name, and so the log file, of the first once that is deleted.
CONSTANTS
  r1 = r1
  r2 = r2
  n1 = n1
  n2 = n2
  None = None
  Requests = {r1, r2}
  Names = {n1}
  Deletable = {r1}
  Removable = {r1}
  Ageing = {}
  MaxFaults = 0
  MaxCrashes = 0
SPECIFICATION FairSpec
INVARIANTS VerdictIsOwn InventoryIsOwn
CHECK_DEADLOCK FALSE
