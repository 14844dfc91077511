SPECIFICATION FairSpec
CONSTANTS
  Paths = {p1, p2}
  Servers = {s1, s2}
  MaxSession = 2
  MaxLoss = 2
  MaxChange = 2
INVARIANTS ToldIsKnown QuietIsCurrent QuietIsRegistered
PROPERTIES DelIsGoneOrDown Settles
CHECK_DEADLOCK FALSE
