SPECIFICATION FairSpec
CONSTANTS
  Procs = {p1, p2}
  Machine <- OneMachine
  Names = {1, 2}
  Unprivileged = {p2}
  Types = {"S", "X"}
  Waits = {"try", "forever"}
  MaxAge = 1
  MaxRequests <- MoreRequests
  MaxCrashes = 1
  MaxFaults = 0
  Stalls = TRUE
  Collisions = FALSE
INVARIANT DirectoryInv
PROPERTY RequestsEnd
CHECK_DEADLOCK FALSE
