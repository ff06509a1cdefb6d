SPECIFICATION Spec
CONSTANTS
  Client = {c1, c2, c3}
  Tenant = {ta, tb}
  Of <- MCOf
  key_prefix <- MCPrefix
  Key <- MCKey
  Raw = {x, y}
  Stream = {y}
  Sought <- MCSought
  Requests <- MCRequests
  Order <- MCOrder
  PageLimit = 1
  ApiFaults <- MCFaults
  None = None
  c1 = c1
  c2 = c2
  c3 = c3
  ta = ta
  tb = tb
  x = x
  y = y
INVARIANT TypeOK
PROPERTIES OwnedOnly ImplementsBlobStore
