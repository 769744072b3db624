SPECIFICATION FairSpec
CONSTANTS
  u1 = u1
  u2 = u2
  Users = {u1, u2}
  JobIds = {j1, j2}
  r1 = r1
  Refs = {r1, r2}
  Charges = {}
  Owner <- MCOwner
  ReasonOf <- MCReasonOf
  Amounts = {2}
  Costs = {0, 1, 2}
  NoJob = NoJob
  Calls = {p1, p2}
  NoCall = NoCall
INVARIANTS
  HolderIsCurrent
  BalanceExplained
  OncePerReference
  ChargesMatchJobs
PROPERTIES
  ImplementsAccount
  EveryCallReturns
