SPECIFICATION CacheSpec
CONSTANTS
  Threads = {t1, t2}
  Buf = {b1, b2}
  Block <- MCBlock
  Prio <- MCPrio
  MAX_DISK_QUEUE = 2
  UINT = 8
  MAX_OPS = 4
  NUMS = {5, 8}
  Val = {0, 1}
  MaxPins = 1
INVARIANTS ServesCaller Coherent RefsExact CleanOnDisk RingsExact IoWakes
SYMMETRY Symmetry
CHECK_DEADLOCK FALSE
