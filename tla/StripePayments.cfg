SPECIFICATION Spec
CONSTANTS
  u1 = u1
  u2 = u2
  k1 = k1
  p1 = p1
  i1 = i1
  c1 = c1
  Users = {u1, u2}
  JobIds = {}
  Packs = {k1}
  Plans = {p1}
  Invoices = {i1}
  Refs = {k1, i1}
  Charges = {}
  Owner <- MCOwner
  ReasonOf <- MCReasonOf
  Buyer <- MCBuyer
  PlanOf <- MCPlanOf
  PaymentOf <- MCPaymentOf
  Unlisted = {i1}
  SkuCredits <- MCSkuCredits
  Amounts = {1, 2}
  Costs = {}
  NoJob = NoJob
  NoCustomer = NoCustomer
  NoStatus = NoStatus
  Deliveries = {d1, d2}
  Idle = Idle
  MaxFailures = 1
INVARIANTS
  GrantsArePaidFor
  ProcessedIsCredited
PROPERTIES
  ImplementsAccount
SYMMETRY MCSymmetry
