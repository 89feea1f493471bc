SPECIFICATION Spec
CONSTANTS
  Values = {0, 1}
  p1 = p1
  p2 = p2
  NoProc = NoProc
  Procs = {p1, p2}
  Regs = {"cr0", "cr4"}
  Interface = {"edit", "view"}
  SyncFirst = TRUE
  Concurrent = FALSE
SYMMETRY Symmetry
PROPERTIES VmrunLoadsVmcb
