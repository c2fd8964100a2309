\* Nobody interferes and no call fails: does a nested exclusion pass?
SPECIFICATION Spec
CONSTANTS
  R = R
  B = B
  D = D
  E = E
  K = K
  O = O
  X = X
  f = f
  g = g
  h = h
  link = link
  a = a
  b = b
  c = c
  None = None
  Dirs = {R, B, D, E, K}
  Files = {f, g, h}
  Links = {}
  Names = {a, b, c}
  Root = R
  Boundary = B
  Target <- NoTarget
  InitTree <- NestTree
  Spare = {}
  Exclusions <- NestedExclusions
  MaxDepth = 3
  MaxChanges = 0
  MaxFaults = 0
INVARIANT
  QuietCleanupSucceeds
