SPECIFICATION Spec
CONSTANT MaxEntries = 1
PROPERTIES CancelHasProcess DirectoriesAreIgnored NewOpReturns ErrorHasCause
CHECK_DEADLOCK FALSE
