SPECIFICATION FairSpec
CONSTANTS
  Kinds = {"tcp", "udp"}
  Msgs <- Messages
  Size <- ByteSize
  None = None
  SendNum = 2
  SndBuf = 2
INVARIANTS NothingLost ArmedWhilePending
PROPERTIES EventuallySent IdleDisarms
CHECK_DEADLOCK FALSE
