SPECIFICATION FairSpec
CONSTANTS
  t1 = t1
  t2 = t2
  t3 = t3
  p1 = p1
  p2 = p2
  Threads = {t1, t3}
  Procs = {p1, p2}
  Owner <- OwnerOfTwo
  VMs = {a, b}
  MaxHandles = 2
  Capacity = 2
  MaxSlots = 1
  RefCounts = 4
  None = None
CHECK_DEADLOCK FALSE
PROPERTIES HaxCreationReturns
