SPECIFICATION Spec
CONSTANTS
  PageCount = 4
  Regions <- Regions3
  Base <- BaseOfFour
  Backings = {a, b}
  Absent = Absent
  NoRegion = NoRegion
  MaxMap = 3
  MaxUnmap = 1
  AllocFails = TRUE
INVARIANTS WalksInTables SearchesMatchWalks
PROPERTIES PageMapImplemented
