SPECIFICATION Spec
CONSTANTS
  Mains = {m1, m2}
  Regens = {g1}
  Seconds = {s1, s2}
  Elsewhere = elsewhere
  Formats <- MCFormats
  Absent = Absent
INVARIANTS
  TypeOK
  PublishedIsWhole
  OneRunPerFolder
  TempsHaveWriters
  ExitMatchesReports
PROPERTIES
  ReportsAreKept
CHECK_DEADLOCK FALSE
SYMMETRY Symm
