CONSTANTS
  NULL = NULL
  Addrs = {a1, a2}
  MaxBackups = 2
SPECIFICATION Spec
SYMMETRY AddrSymmetry
INVARIANTS
  TypeOK
  ControlInv
PROPERTIES
  ScriptsAreUndone
  Protocol
CHECK_DEADLOCK FALSE
