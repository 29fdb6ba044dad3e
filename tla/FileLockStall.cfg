SPECIFICATION Spec
CONSTANTS
  Procs = {p1, p2, p3}
  Machine <- OneMachine
  Names = {1, 2, 3}
  Unprivileged = {}
  Waits = {"timed"}
  Types = {"X"}
  MaxAge = 1
  MaxRequests <- OneRequest
  MaxCrashes = 1
  MaxFaults = 1
  Stalls = TRUE
  Collisions = FALSE
SYMMETRY Symmetry
CHECK_DEADLOCK FALSE
INVARIANT MutualExclusion
