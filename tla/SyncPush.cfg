SPECIFICATION Spec
CONSTANTS
  Client = {a}
  Hub = h
  Category = {c1}
  Body = {b1, b2}
  Offer <- Rewritten
  Style <- ForeignStyle
  Strategy = "last_write_wins"
  Shared = {}
  Quiet = {a}
  Broken = {}
  Skew = TRUE
  Deletes = TRUE
  MaxTime = 3
  MaxFaults = 1
  Absent = Absent
SYMMETRY Values
INVARIANTS
  DirtyUntilOffered
  StampsIdentifyVersions
PROPERTIES
  NewerIsNotReplaced
  ImportCatchesUp
  NothingIsImportedTwice
