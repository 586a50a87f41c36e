\* One run, three failing tasks, one accident.
CONSTANTS
  None = None
  Hosts = {1, 2, 3}
  MaxRuns = 1
  MaxFaults = 3
  MaxAccidents = 1
SPECIFICATION FairSpec
INVARIANTS ReadServed SomeoneLeads ReportIsTrue
PROPERTIES OneHostOut UndisturbedCompletes
CHECK_DEADLOCK FALSE
