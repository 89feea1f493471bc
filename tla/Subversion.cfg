SPECIFICATION HostSpec
CONSTANTS
  CpuCount = 2
  Systems <- MCSystems
  MemoryMayRunOut = TRUE
  BroadcastMayFail = FALSE
  VmxMayFail = TRUE
  Written <- MCWritten
  MaxBuilds = 2
INVARIANTS
  HostTypeOK
  UsedMemoryHeld
  OsSeesItsOwn
  Released
