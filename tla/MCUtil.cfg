CONSTANTS
  TaskCounts <- MCTaskCounts
  GroupSizes <- MCGroupSizes
  ThreadCounts <- MCThreadCounts
  Letter = {"a"}
  MaxLen = 8
  BufSize = 2
  Capacity = 3
  MaxBytes = 4
  ExecResults = {TRUE, FALSE}
SPECIFICATION UtilSpec
INVARIANTS
  Partition
  UpperBound
  IsNormal
  FitsBuffer
  CapturesAll
  Verdict
PROPERTIES
  ReapedWhenCalled
