CONSTANTS
  f1 = f1
  Absent = Absent
  Host = Host
  NoProc = NoProc
  p1 = p1
  p2 = p2
  v1 = v1
  Offsets = {0, 1}
  Frames = {f1}
  Procs = {p1, p2}
  Vcpus = {v1}
  Regs = {"rip", "cr0"}
  Top = 2
  Pinned = FALSE
SPECIFICATION Spec
CONSTRAINT Focus
INVARIANT MigrationWorks
CHECK_DEADLOCK FALSE
