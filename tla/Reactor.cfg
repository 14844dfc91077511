SPECIFICATION FairSpec
CONSTANTS
  Tasks = {t1, t2, t3}
  Acceptor = Acceptor
  Fds = {f1, f2, f3}
  NULL = NULL
  NoFd = NoFd
  EpollSize = 2
  MaxConnects = 4
INVARIANTS RegisteredLive DescriptorsAccounted StaleOnlyReplaced FirstConnectionSafe
PROPERTIES Served
CHECK_DEADLOCK FALSE
