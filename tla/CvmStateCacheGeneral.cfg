SPECIFICATION Spec
CONSTANTS
  Values = {0, 1}
  p1 = p1
  p2 = p2
  NoProc = NoProc
  Procs = {p1, p2}
  Regs = {"cr0", "cr3", "efer"}
  Interface = {"edit", "edit2", "view", "view2"}
  SyncFirst = TRUE
  Concurrent = FALSE
SYMMETRY Symmetry
INVARIANTS SynchronizedIsFresh
PROPERTIES RegistersImplemented VmrunLoadsVmcb
