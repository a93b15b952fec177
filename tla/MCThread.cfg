\* Three jobs on three ids, which are given again once their thread is
\* released: any number of them may be fresh.
CONSTANTS
  Job = {j1, j2, j3}
  Tid = {t1, t2, t3}
  None = None
SPECIFICATION FairSpec
INVARIANTS
  JoinReadsOwnResult
  WorkerPacketLive
  FreshThreadsReleased
PROPERTIES
  JoinReturns
CHECK_DEADLOCK FALSE
