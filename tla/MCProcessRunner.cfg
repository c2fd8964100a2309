SPECIFICATION Spec
CONSTANTS
  Child = Child
  Grandchild = Grandchild
  Codes <- MCCodes
  Manners = {"term", "kill", "none"}
  Capacity = 1
  OutputLimit = 2
INVARIANTS
  NothingLeftBehind
  ResultFaithful
PROPERTIES
  NoSignalAfterReap
  TimeoutHonoured
