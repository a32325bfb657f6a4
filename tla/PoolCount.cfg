CONSTANTS
  t1 = t1
  t2 = t2
  t3 = t3
  idle = idle
  m1 = m1
  b1 = b1
  b2 = b2
  v1 = v1
  v2 = v2
  NULL = NULL
  Threads = {t1, t2, t3, idle}
  Idle = idle
  Priority <- MCPriority
  Queues = {m1, "recv", "send"}
  Mortal = {t2}
  Spare = {t3}
  Slice = 1
  MaxWait = 2
  MaxNest = 1
  Waits <- MCWaits
  Careful = TRUE
  Kinds = {"mp"}
  Mutexes = {m1}
  SemInit = 1
  SemMax = 2
  MaxHold = 2
  Bits = {"a", "b"}
  MbSize = 2
  Values = {v1, v2}
  Blocks = {b1, b2}
  MaxPend = 3
  Behind = TRUE
SPECIFICATION IpcSpec
INVARIANT MpCountsWaiters
