SPECIFICATION BesideSpec
CONSTANTS
  Writers = {p1, p2}
  Category = {c1}
  t1 = t1
  t2 = t2
  Token = {t1, t2}
  Incoming <- MCValues
  Kinds = {"upsert", "delete"}
  Tears = {TornText}
  Unreadable = {}
  Synchronous = "full"
  PowerCuts = FALSE
  MaxVersions = 2
  MaxOps = 2
  MaxCrashes = 1
  Absent = Absent
  NoWriter = NoWriter
  Readers = {r1}
  MaxAttempts = 2
  Taker = tk
  MaxApplies = 2
SYMMETRY Symmetry
INVARIANTS
  ReadsAreCurrent
  UndisturbedReadsSucceed
  AdoptedStaysReadable
PROPERTIES
  AdoptsOnlyWhatWasPlanned
CHECK_DEADLOCK FALSE
