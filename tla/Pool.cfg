SPECIFICATION FairSpec
CONSTANTS
  ThreadCount = 3
  QueueSize = 2
  Task = {t1, t2, t3, t4}
  Exiting = {t4}
  Caller = {d1, d2}
  NoTask = NoTask
INVARIANTS TypeOK NoLostWakeup FreedSafely
PROPERTIES Implements Processed Destroyed
CHECK_DEADLOCK FALSE
