CONSTANTS
  Threads = {t1, t2}
  Slots = 2
  MapSlots = 2
  None = None
SPECIFICATION FairSpec
CHECK_DEADLOCK FALSE
INVARIANTS LockDiscipline MappingExcluded NsvExcluded NoCircularWait
PROPERTIES TableFrozenWhileLocking OperationsReturn
