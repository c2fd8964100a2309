\* Two changes by other processes: a directory goes and a link or another
\* directory takes its name.
SPECIFICATION Spec
CONSTANTS
  R = R
  H = H
  S = S
  C = C
  A = A
  F = F
  file = file
  toS = toS
  home = home
  settings = settings
  cache = cache
  app = app
  me = me
  root = root
  None = None
  Dirs = {R, H, S, C, A, F}
  Files = {file}
  Links = {toS}
  Names = {home, settings, cache, app}
  Root = R
  Target <- MCTarget
  InitTree <- HomeTree
  Spare = {file}
  MaxChanges = 2
  Home <- MCHome
  Settings <- MCSettings
  Approved <- MCApproved
  Candidates <- MCCandidates
  Owner <- MCOwner
  User = me
  MaxFaults = 1
INVARIANTS
  OpenedIsTarget
  OpenedIsOwned
  QuietAnswer
