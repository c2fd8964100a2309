SPECIFICATION Spec
CONSTANTS
  R = R
  B = B
  D = D
  U = U
  O = O
  f = f
  g = g
  h = h
  link = link
  a = a
  b = b
  c = c
  None = None
  Dirs = {R, B, D, U}
  Files = {f, g}
  Links = {link}
  Names = {a, b, c}
  Root = R
  Target <- CacheLink
  InitTree <- CacheTree
  Spare = {}
  MaxChanges = 2
  Rules <- CacheRules
  Unreadable = {}
  EntryLimit = 2
  MaxFaults = 0
INVARIANTS
  Contained
