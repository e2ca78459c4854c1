SPECIFICATION FairSpec
CONSTANTS
  outer = outer
  inner = inner
  settings = settings
  host = host
  file = file
  tool = tool
  one = one
  two = two
  Keys <- MCKeys
  Collectors <- MCCollectors
  CollectorOf <- MCCollectorOf
  Asks <- MCAsks
  Tolerant <- MCTolerant
  Sources <- MCSources
  Commands <- MCCommands
  SourceOf <- MCSourceOf
  Values = {value}
  Reasons = {denied}
  Crash = Crash
  CommandError = CommandError
  Absent = Absent
  MaxErrors = 1
  N = 3
  M = 2
  Conditions <- MCConditions
  Sections <- MCSections
  SectionOf <- MCSectionOf
  IdOf <- MCIdOf
  InScope <- MCInScope
  InProfile <- MCInProfile
  Invalid = Invalid
INVARIANTS
  TypeOK
  BlameReachesReport
  SameEvidenceSameFate
  WindowPerControl
PROPERTIES
  KeepsPromise
CHECK_DEADLOCK FALSE
