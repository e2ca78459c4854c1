SPECIFICATION Spec
CONSTANTS
  Absent = Absent
  Hosts <- MCHosts
  Options <- MCOptions
  Catalogs <- MCCatalogs
CHECK_DEADLOCK FALSE
INVARIANT NewestWins
