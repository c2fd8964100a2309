\* Two changes by other processes: swap a directory for a link.
SPECIFICATION Spec
CONSTANTS
  R = R
  B = B
  D = D
  E = E
  K = K
  O = O
  X = X
  f = f
  g = g
  h = h
  link = link
  a = a
  b = b
  c = c
  None = None
  Dirs = {R, B, D, K, O}
  Files = {f, g, h}
  Links = {link}
  Names = {a, b, c}
  Root = R
  Boundary = B
  Target <- LinkTarget
  InitTree <- RaceTree
  Spare = {}
  Exclusions <- RaceExclusions
  MaxDepth = 2
  MaxChanges = 2
  MaxFaults = 0
PROPERTIES
  Confinement
  StaysInBoundary
  ExclusionsKept
