SPECIFICATION LogFairSpec
CONSTANTS
  Threads = {t1, t2}
  Nobody = Nobody
  error = error
  fatal = fatal
  log = log
  Types = {error, fatal, log}
  Suffix <- MCSuffix
  StatType = log
  InitFlag <- MCInitFlag
  Slots = 2
  MaxLogSize = 1
  NoType = NoType
  MaxRecords <- MCMaxRecords
  MaxFaults = 2
INVARIANTS ReadsAsOne NothingElseLost RotatedFull
PROPERTIES CallsReturn
CHECK_DEADLOCK FALSE
