SPECIFICATION Spec
CONSTANTS
  R = R
  B = B
  D = D
  U = U
  O = O
  f = f
  g = g
  h = h
  link = link
  a = a
  b = b
  c = c
  None = None
  Dirs = {R, B, D, U, O}
  Files = {f, g, h}
  Links = {link}
  Names = {a, b, c}
  Root = R
  Target <- HomeLink
  InitTree <- HomeTree
  Spare = {}
  MaxChanges = 1
  Rules <- HomeRules
  Unreadable = {O}
  EntryLimit = 3
  MaxFaults = 1
INVARIANTS
  Complete
  QuietCount
PROPERTIES
  Ends
