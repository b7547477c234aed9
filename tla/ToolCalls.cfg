SPECIFICATION FairSpec
CONSTANTS
  Deadline = 2
  BusyTimeout = 1
  MinPause = 1
  MaxPause = 2
  Journals = {"wal", "delete"}
  MaxElapsed = 3
  Name <- AllNames
  Reserved = {"meta"}
  Base = {"base", "workflow_global"}
  Registered = {"mine", "theirs"}
  Admins = {"boss"}
  Global = "global"
  Suffix <- Suffixes
  Scope <- Scopes
  Category = {"mine", "theirs"}
  Self = "mine"
  Watched = "mine"
  Content <- Contents
  Limit = 1
  MaxChanges <- Changes
  Absent = Absent
  Names = {"a", "b"}
  Hashes = {1, 2}
  Leaf <- Leaves2
  Digest <- Digests2
  NoEntries = NoEntries
INVARIANTS
  NothingIsMissed
  ReportsAreOfTheCall
  UnchangedIsTrue
PROPERTIES
  WritesReplaceWhatTheySaw
  ImplementsPolling
  WaitsAreBudgeted
  BusyIsEarned
  CallsReturn
