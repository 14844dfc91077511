SPECIFICATION FairSpec
CONSTANTS
  Processes = 2
  Threads = 2
  MaxFaults = 2
INVARIANTS NothingLeftBehind JudgedOnce
PROPERTIES Ends
CHECK_DEADLOCK FALSE
