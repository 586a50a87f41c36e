\* One request, with every user action, two failed calls and one crash of
\* the service.
CONSTANTS
  r1 = r1
  r2 = r2
  n1 = n1
  n2 = n2
  None = None
  Requests = {r1}
  Names = {n1}
  Deletable = {r1}
  Removable = {r1}
  Ageing = {r1}
  MaxFaults = 2
  MaxCrashes = 1
SPECIFICATION FairSpec
INVARIANTS RemovedWhenSettled RunningIsTracked DeployingIsAccounted ClusterFollowsOperation
PROPERTIES SettledOnce OperationSettles
CHECK_DEADLOCK FALSE
