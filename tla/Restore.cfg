SPECIFICATION Spec
CONSTANTS
  Coverage = {TRUE, FALSE}
  MaxRestores = 3
  MaxFaults = 3
  Absent = Absent
  Empty = Empty
INVARIANTS
  SwapIsClosed
  NothingIsDestroyed
  CanBeCompleted
CHECK_DEADLOCK FALSE
