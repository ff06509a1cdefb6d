SPECIFICATION Spec
CONSTANTS
  Thread = {1, 2}
  Hash <- MCHash
  Size <- MCSize
  MaxBytes = 1
  MaxPuts = 3
  None = None
CHECK_DEADLOCK FALSE
INVARIANT NoKeyError
