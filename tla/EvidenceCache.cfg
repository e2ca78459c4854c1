SPECIFICATION CacheSpec
CONSTANTS
  outer = outer
  inner = inner
  other = other
  settings = settings
  host = host
  file = file
  tool = tool
  Keys <- MCKeys
  Collectors <- MCCollectors
  CollectorOf <- MCCollectorOf
  Asks <- MCAsks
  Tolerant <- MCTolerant
  Sources <- MCSources
  Commands <- MCCommands
  SourceOf <- MCSourceOf
  Values = {v1, v2}
  Reasons = {denied, missing}
  Crash = Crash
  CommandError = CommandError
  Absent = Absent
  MaxErrors = 1
INVARIANTS
  CacheTypeOK
  SameAnswer
  TallyMatchesCache
  FailureIsAttributed
  NoReentry
PROPERTIES
