SPECIFICATION Spec
CONSTANTS
  MAX_SWAP = 2
  DISK_BLOCKS = 8
  Pages <- MCPages
  Env = "quiet"
INVARIANTS NoRangePanic QuietInv
PROPERTY ImplementsPageStore
