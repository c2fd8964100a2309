\* A failing call anywhere, and one change by another process, on a tree
\* exactly as deep as the limit.
SPECIFICATION Spec
CONSTANTS
  R = R
  B = B
  D = D
  E = E
  K = K
  O = O
  X = X
  f = f
  g = g
  h = h
  link = link
  a = a
  b = b
  c = c
  None = None
  Dirs = {R, B, D, E, K, O, X}
  Files = {f, g, h}
  Links = {}
  Names = {a, b, c}
  Root = R
  Boundary = B
  Target <- NoTarget
  InitTree <- DeepTree
  Spare = {h, X}
  Exclusions <- DeepExclusions
  MaxDepth = 3
  MaxChanges = 1
  MaxFaults = 1
INVARIANTS
  CompleteOnSuccess
  FailureExplained
  ItemsExact
PROPERTIES
  Terminates
