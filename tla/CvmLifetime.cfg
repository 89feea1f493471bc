SPECIFICATION Spec
CONSTANTS
  t1 = t1
  t2 = t2
  t3 = t3
  p1 = p1
  p2 = p2
  Threads = {t1, t2, t3}
  Procs = {p1, p2}
  Owner <- OwnerOfThree
  VMs = {a, b}
  MaxHandles = 2
  Capacity = 1
  MaxSlots = 2
  RefCounts = 4
  None = None
SYMMETRY Symmetry
CHECK_DEADLOCK FALSE
INVARIANTS HandlesMeanVms UsedVmsAlive ExitReleasesAll
CONSTRAINT Bound
