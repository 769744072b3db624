SPECIFICATION FairSpec
CONSTANTS
  u1 = u1
  u2 = u1
  k1 = k1
  p1 = p1
  i1 = i1
  c1 = c1
  Users = {u1}
  JobIds = {j1}
  Packs = {k1}
  Plans = {}
  Invoices = {}
  Refs = {k1}
  Charges = {c1}
  Owner <- MCOwner
  ReasonOf <- MCReasonOf
  Buyer <- MCBuyer
  PlanOf <- MCPlanOf
  PaymentOf <- MCPaymentOf
  Unlisted = {}
  SkuCredits <- MCSkuCredits
  Amounts = {1, 2}
  Costs = {1}
  NoJob = NoJob
  NoCustomer = NoCustomer
  NoStatus = NoStatus
  Deliveries = {d1, d2}
  Idle = Idle
  MaxFailures = 1
INVARIANTS
  OncePerReference
PROPERTIES
  PaidPackIsCredited
