SPECIFICATION Spec
CONSTANTS
  MAX_SWAP = 2
  DISK_BLOCKS = 8
  Pages <- MCPages
  Env = "degraded"
INVARIANT Raid5DataCorrect
