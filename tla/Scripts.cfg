SPECIFICATION FairSpec
CONSTANT MaxEntries = 3
INVARIANTS ScriptsInv
PROPERTIES FinishedIsComplete OperationEnds
CHECK_DEADLOCK FALSE
