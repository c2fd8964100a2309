SPECIFICATION Spec
CONSTANTS
  gui = gui
  cli = cli
  None = None
  Cleaners <- MCCleaners
  Actions <- MCActions
  Tools <- MCTools
  Requests <- MCRequests
  BufferLines = 1
  MaxCrashes = 1
INVARIANTS
  FailureExplained
  QuietAfterReport
  WorkApart
PROPERTIES
  Implements
  Returns
