SPECIFICATION Spec
CONSTANTS
  Worker = {w1, w2}
  Process = {p1}
  Home <- MCOneProcess
  Key = {k1, k2}
  Folder <- MCNested
  Name <- MCName
  Spell <- MCSpell
  Sought <- MCSought
  PageLimit = 1
  Raw = {x, y}
  Big = {}
  Requests <- MCAllAndList
  ApiFaults <- MCNoFaults
  MaxId = 8
  None = None
  w1 = w1
  w2 = w2
  p1 = p1
  p2 = p2
  k1 = k1
  k2 = k2
  x = x
  y = y
INVARIANTS TypeOK MemosOwn ExistsTellsTruth GetRaisesNotFound
PROPERTY ImplementsBlobStore
