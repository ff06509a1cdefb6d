SPECIFICATION Spec
CONSTANTS
  Worker = {w1, w2}
  Process = {p1, p2}
  Home <- MCTwoProcesses
  Key = {k1}
  Folder <- MCFolder
  Name <- MCName
  Spell <- MCSpell
  Sought <- MCNoList
  PageLimit = 1
  Raw = {x}
  Big = {}
  Requests <- MCExistsWithSweeper
  ApiFaults <- MCNoFaults
  MaxId = 6
  None = None
  w1 = w1
  w2 = w2
  p1 = p1
  p2 = p2
  k1 = k1
  k2 = k2
  x = x
  y = y
INVARIANT ExistsTellsTruth
