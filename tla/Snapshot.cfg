SPECIFICATION SnapshotSpec
CONSTANTS
  Writers = {p1, p2}
  Category = {c1, c2}
  t1 = t1
  t2 = t2
  Token = {t1, t2}
  Incoming <- MCValues
  Kinds = {"replace", "delete"}
  Tears = {TornText}
  Unreadable = {}
  Synchronous = "full"
  PowerCuts = FALSE
  MaxVersions = 2
  MaxOps = 2
  MaxCrashes = 1
  Absent = Absent
  NoWriter = NoWriter
  Taker = tk
  WithBackups = TRUE
  MaxPruned = 1
SYMMETRY Symmetry
INVARIANTS
  OneInstant
  NeverRejected
  HistoryIsCovered
CHECK_DEADLOCK FALSE
