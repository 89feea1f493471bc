CONSTANTS
  f1 = f1
  Absent = Absent
  Host = Host
  NoProc = NoProc
  p1 = p1
  p2 = p2
  v1 = v1
  Offsets = {0, 1}
  Frames = {f1}
  Procs = {p1}
  Vcpus = {v1}
  Regs = {"rip", "rsp", "cr0", "cs", "star", "dr0"}
  Top = 2
  Pinned = TRUE
SPECIFICATION Spec
CONSTRAINT Focus
INVARIANTS TypeOK GuestStateKept InterruptsRespected MappedAsTold
CHECK_DEADLOCK FALSE
