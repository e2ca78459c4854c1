SPECIFICATION Spec
CONSTANTS
  Paths <- MCPaths
  Root = "/"
  Parent <- MCParent
  Dirs <- MCDirs
  Targets <- MCTargets
  Devices = {"sda", "sdb"}
  Layouts <- MCLayouts
  Troubles <- MCTroubles
  Absent = Absent
INVARIANTS
  TypeOK
  EverythingJudged
  EverythingInventoried
  PrunedIsNotJudged
  EachDirOnce
CHECK_DEADLOCK FALSE
