SPECIFICATION FairSpec
CONSTANTS
  u1 = u1
  j1 = j1
  Users = {u1}
  JobIds = {j1, j2}
  Refs = {r1}
  Charges = {}
  Owner <- MCOwner
  ReasonOf <- MCReasonOf
  Amounts = {2}
  Costs = {1}
  NoJob = NoJob
  MaxConcurrent = 1
  Pausable = {}
  MaxCrashes = 1
  MaxErrors = 1
  NoStatus = NoStatus
INVARIANTS
  QueueOK
  SettledByPolicy
  NoStrandedJob
PROPERTIES
  TerminalIsFinal
  EveryJobEnds
  RefundedUnlessKilled
\* A quiet server with every job of the instance finished may stop.
CHECK_DEADLOCK FALSE
