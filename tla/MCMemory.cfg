CONSTANTS
  num_pgs = 30
  sys_pgs = 2
  PTES = 4
  QUARTER = 1
  IDLE_PID = 0
  FS_PID = 3
  Tasks = {0, 3, 8}
  MaxGrow = 2
  MaxSteps = 6
  PG_SIZE = 4
  HEADER = 1
  Sizes = {1, 2, 4, 6}
SPECIFICATION MemorySpec
INVARIANTS ListsPartition OneUse KernelHeapShared HeapTiled PointersKept MallocEnds
PROPERTY ForkKeepsParent
CHECK_DEADLOCK FALSE
