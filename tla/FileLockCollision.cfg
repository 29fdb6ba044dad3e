SPECIFICATION Spec
CONSTANTS
  Procs = {p1, p2, p3}
  Machine <- OneMachine
  Names = {1, 2, 3}
  Unprivileged = {}
  Waits = {"timed"}
  Types = {"X"}
  MaxAge = 1
  MaxRequests <- OneRequest
  MaxCrashes = 1
  MaxFaults = 1
  Stalls = FALSE
  Collisions = TRUE
SYMMETRY Symmetry
CHECK_DEADLOCK FALSE
INVARIANT MemberStays
