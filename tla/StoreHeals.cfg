SPECIFICATION FairSpec
CONSTANTS
  Writers = {p1, p2}
  Category = {c1}
  t1 = t1
  t2 = t2
  Token = {t1, t2}
  Incoming <- MCMixed
  Kinds = {"replace", "append", "delete"}
  Tears = {TornText}
  Unreadable = {}
  Synchronous = "normal"
  PowerCuts = FALSE
  MaxVersions = 2
  MaxOps = 2
  MaxCrashes = 1
  Absent = Absent
  NoWriter = NoWriter
  Lost = Lost
INVARIANTS
  HistoryPayloadsKept
PROPERTIES
  LogsAreNotClobbered
  LeftoversAreSettled
CHECK_DEADLOCK FALSE
