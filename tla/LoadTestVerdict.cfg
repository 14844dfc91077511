SPECIFICATION Spec
CONSTANTS
  Processes = 1
  Threads = 1
  MaxFaults = 0
INVARIANTS JudgedAsExpected
CHECK_DEADLOCK FALSE
