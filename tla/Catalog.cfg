SPECIFICATION Spec
CONSTANTS
  b1 = b1
  b2 = b2
  Builders = {b1, b2}
  Audits = {a1}
  Files <- MCFiles
  Order <- MCOrder
  Output <- MCOutput
  Unparsable = Unparsable
  Absent = Absent
INVARIANTS
  TypeOK
  QuietAuditIsConsistent
  HashIsOfThisAudit
  OnlyDefinitionsFailAnAudit
CHECK_DEADLOCK FALSE
