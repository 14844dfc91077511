SPECIFICATION FairSpec
CONSTANTS
  Putters = {p1, p2}
  Worker = Worker
  Owner = Owner
  Msgs = {m1, m2, m3, m4}
  NULL = NULL
  Nobody = Nobody
  MaxSize = 3
INVARIANTS DrainNeverBlocks NothingLeaks AtMostOneAfterStop
PROPERTIES QueuedIsProcessed MessageEndsStopped
CHECK_DEADLOCK FALSE
