SPECIFICATION Spec
CONSTANTS
  Tool = {1, 2}
  File = {f1, f2, f3}
  Name <- MCName
  Target <- MCTarget
  MaxCounter = 1
  MaxThreads = 2
  Foreign = Foreign
  Empty = Empty
  None = None
  f1 = f1
  f2 = f2
  f3 = f3
INVARIANTS TypeOK Sticky
PROPERTY KeepsExisting
