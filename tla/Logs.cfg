SPECIFICATION Spec
CONSTANTS
  Server = {s1, s2}
  Caps = {0, 1, 3}
  Days = {0, 1, 4, 5}
  Wrap = 16
  Reach = 4
  Default = 2
  MaxTime = 2
  MaxId = 4
  Absent = Absent
  None = None
SYMMETRY Symmetry
INVARIANTS
  IdsAreUnique
PROPERTIES
  KeptUnlessAgeWraps
  IdsAreNeverReused
  RetentionIsEnforced
  PrunedOnlyForCause
