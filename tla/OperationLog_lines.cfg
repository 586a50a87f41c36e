\* Up to four lines, one of them too long, two failed calls.
CONSTANTS
  MaxLines = 4
  LongLines = {4}
  MaxFaults = 2
SPECIFICATION FairSpec
INVARIANTS LogIsOutput PageShowsAll
PROPERTIES CollectorEnds OutputIsStored
CHECK_DEADLOCK FALSE
