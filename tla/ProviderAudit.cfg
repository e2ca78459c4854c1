SPECIFICATION Spec
CONSTANTS
  Absent = Absent
  Unavailable = Unavailable
  Junk = Junk
  Unclear = Unclear
  LIST_LIMIT = 1
  Families <- AllFamilies
  Checks <- MCChecks
  Base <- MCBase
  Alts <- MCAlts
  Denied <- MCDenied
  Hidden <- MCHidden
CHECK_DEADLOCK FALSE
INVARIANTS
  RefusalOnlyWithholds
  OneSnapshot
  BootAppliesIt
  IncludesFollowed
  PassMeansAudited
  CurrentMeansNoNewer
