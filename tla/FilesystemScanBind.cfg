SPECIFICATION Spec
CONSTANTS
  Paths <- MCPaths
  Root = "/"
  Parent <- MCParent
  Dirs <- MCDirs
  Targets <- MCTargets
  Devices = {"sda", "sdb"}
  Layouts <- BindLayouts
  Troubles <- MCTroubles
  Absent = Absent
INVARIANTS
  EveryFileCovered
CHECK_DEADLOCK FALSE
