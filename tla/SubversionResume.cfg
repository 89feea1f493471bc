SPECIFICATION HostSpec
CONSTANTS
  CpuCount = 2
  Systems <- NsvSystems
  MemoryMayRunOut = FALSE
  BroadcastMayFail = FALSE
  VmxMayFail = FALSE
  Written <- Nothing
  MaxBuilds = 2
INVARIANT ResumeRestarts
