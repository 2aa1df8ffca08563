SPECIFICATION Spec
CONSTANTS
  Proc = {p1, p2}
  Block = {a, b, c, d}
  Val = {0, 1}
  Zero = 0
  MAXOPBLOCKS = 2
  LOGBLOCKS = 4
  OPBLOCKS = 1
  MAX_CRASHES = 2
INVARIANTS LogExact NoPanic
PROPERTIES ImplementsAtomicDisk SleeperWakes BootCompletes
