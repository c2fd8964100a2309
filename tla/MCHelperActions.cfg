\* Two sizes, two changes by the command or by others, and one failing call.
SPECIFICATION Spec
CONSTANTS
  Places <- MCPlaces
  Managed <- MCManaged
  Machines <- MCMachines
  Requests <- MCRequests
  Messages <- MCMessages
  MaxSize = 2
  MaxChanges = 2
  MaxFaults = 1
INVARIANTS
  DetectedAsWritten
  FreedMeasured
  LinesRead
