SPECIFICATION Spec
CONSTANTS
  Writers = {p1, p2}
  Category = {c1}
  t1 = t1
  t2 = t2
  Token = {t1, t2}
  Incoming <- MCMixed
  Kinds = {"replace", "merge", "drop", "append", "delete", "import", "upsert", "clear"}
  Tears = {TornText}
  Unreadable = {}
  Synchronous = "full"
  PowerCuts = TRUE
  MaxVersions = 2
  MaxOps = 2
  MaxCrashes = 1
  Absent = Absent
  NoWriter = NoWriter
  Lost = Lost
SYMMETRY Symmetry
INVARIANTS
  IInv
  CommittedIsOnDisk
  FilesAgreeWithRows
PROPERTIES
  ImplementsRegister
  FinalOnlyAdvances
  CasReplacesWhatItNamed
CHECK_DEADLOCK FALSE
