SPECIFICATION Spec
CONSTANTS
  g1 = g1
  m1 = m1
  m2 = m2
  d0 = d0
  d1 = d1
  f1 = f1
  f2 = f2
  f3 = f3
  Threads = {t1, t2}
  VMs = {v}
  Gpas = {1, 2}
  Data = {d0, d1}
  Pool = {f1, f2, f3}
  Zero = d0
  Gigas = {g1}
  Megas = {m1, m2}
  Giga <- GigaOfAll
  Mega <- MegaOfPages
  Boot = Boot
  None = None
CHECK_DEADLOCK FALSE
SYMMETRY Symmetry
INVARIANTS TypeOK HostViewFollowsRmt TablesProtected ReleasedPagesReturned SuccessMeansReassigned
