SPECIFICATION Spec
CONSTANTS
  Body = {b1, b2, b3}
  Kinds = {"local", "bring", "delete", "compact"}
  PerDay = 2
  Retention = 1
  MaxVersions = 2
  Coarse = FALSE
  MaxTime = 5
  MaxHistory = 4
  Absent = Absent
SYMMETRY Symmetry
INVARIANTS
  OverwrittenIsKept
  SameDayVersionsAreFound
CHECK_DEADLOCK FALSE
