CONSTANTS
  Hash <- MCHash
  Raw <- MCRaw
  Size <- MCSize
  Puts <- MCAnyPuts
  MaxBytes = 4
  None = None
SPECIFICATION FairSpec
INVARIANTS TypeOK IInv EvictFindsEntry BoundedBytes CounterExact LruOrder
PROPERTIES EvictOnlyOverBudget EvictionEnds ImplementsLossyCache
