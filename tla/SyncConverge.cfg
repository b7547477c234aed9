SPECIFICATION SyncingSpec
CONSTANTS
  Client = {a, b}
  Hub = h
  Category = {c1}
  Body = {1, 2}
  Offer <- Fresh
  Style <- ForeignStyle
  Strategy = "last_write_wins"
  Shared = {}
  Quiet = {a, b}
  Broken = {}
  Skew = FALSE
  Deletes = FALSE
  MaxTime = 2
  MaxFaults = 1
  Absent = Absent
PROPERTIES
  ReplicasConverge
