CONSTANTS
  c1 = c1
  c2 = c2
  f = f
  g = g
  s = s
  a = a
  b = b
  y = y
  z = z
  grow = grow
  shrink = shrink
  swap = swap
  None = None
  Mangled = Mangled
  Rewritten <- MCRewritten
  Value <- MCValue
  Text <- MCText
  Size <- MCSize
  Threshold <- MCThreshold
  Digest <- MCDigest
  Sha <- MCSha
  Key <- MCKey
  KeyFn <- MCKeyFn
  Path = {f, g}
  Edit <- MCEdit
  Replace <- MCReplace
  HasSend = FALSE
  Caller <- MCOneCaller
  Requests <- MCWrites
  InnerFaults <- MCWriteFaults
  StoreFaults = FALSE
  Sweeps = FALSE
  MaxCheckpoints = 0
SPECIFICATION Spec
INVARIANTS OkMeansStored
