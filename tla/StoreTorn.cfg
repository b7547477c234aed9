SPECIFICATION FairSpec
CONSTANTS
  Writers = {p1, p2}
  Category = {c1}
  t1 = t1
  t2 = t2
  Token = {t1, t2}
  Incoming <- MCMixed
  Kinds = {"replace"}
  Tears = {TornText, TornBytes}
  Unreadable = {TornBytes}
  Synchronous = "full"
  PowerCuts = TRUE
  MaxVersions = 2
  MaxOps = 1
  MaxCrashes = 1
  Absent = Absent
  NoWriter = NoWriter
  Lost = Lost
PROPERTIES
  LeftoversAreSettled
CHECK_DEADLOCK FALSE
