SPECIFICATION FairSpec
CONSTANTS
  u1 = u1
  j1 = j1
  Users = {u1}
  JobIds = {j1}
  Refs = {r1}
  Charges = {}
  Owner <- MCOwner
  ReasonOf <- MCReasonOf
  Amounts = {2}
  Costs = {1}
  NoJob = NoJob
  MaxConcurrent = 1
  Pausable = {j1}
  MaxCrashes = 0
  MaxErrors = 0
  NoStatus = NoStatus
PROPERTIES
  CancelFreesSlot
\* A quiet server with every job of the instance finished may stop.
CHECK_DEADLOCK FALSE
