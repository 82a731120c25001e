CONSTANTS
  g1 = g1
  g2 = g2
  g3 = g3
  NoTask = NoTask
  Free = Free
  Worker = {w1, w2}
  Group = {g1, g2, g3}
  Size <- MCSize
  Batch <- MCBatch
SPECIFICATION FairSpec
INVARIANTS
  MergeOnlyComputed
  WaitAllVerdict
  QuietAfterWait
  NoLostWakeup
PROPERTIES
  ImplementsTaskBatch
  WaitsEnd
  QueueServed
  FailureDropsQueue
