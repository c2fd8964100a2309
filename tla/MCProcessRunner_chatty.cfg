\* Is the deadline enforced on a command that never stops writing?
SPECIFICATION Spec
CONSTANTS
  Child = Child
  Grandchild = Grandchild
  Codes <- MCCodes
  Manners = {"term"}
  Capacity = 1
  OutputLimit = 1
PROPERTY
  TimeoutEnforced
