SPECIFICATION Spec
CONSTANTS
  chrony = chrony
  timesyncd = timesyncd
  rsyslog = rsyslog
  Units <- MCUnits
  Prefetched <- MCUnits
  N = 6
  Condition <- MCCondition
  Subject <- MCSubject
  Installed <- MCUnits
  LoggingMethod = Absent
  Absent = Absent
  MaxChanges = 2
INVARIANTS
  NoGuessing
CHECK_DEADLOCK FALSE
