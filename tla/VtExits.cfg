CONSTANTS
  a = a
  b = b
  None = None
  Areas = {a, b}
  Revised = {a, b}
  Regions = 4
  Size = 2
  Hooked = {4, 5}
  Ci = {1}
  Mmio = {6}
  Essential = 3
  Blank = 7
  OwnRegion = 1
  Touched = {4, 5, 6}
  Mtrrs <- MCMtrrs
  Count = 2
  Vpid = TRUE
SPECIFICATION ExitSpec
CONSTRAINT Focus
SYMMETRY AreaSymmetry
INVARIANTS ExitTypeOK HooksHidden MemoryAsConfigured NestedVmxSound
CHECK_DEADLOCK FALSE
