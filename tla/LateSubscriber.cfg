SPECIFICATION StreamSpec
CONSTANTS
  Ops = 2
  ReplayBuffer = 1
  MaxPauses = 1
  MaxDrops = 1
  MaxReloads = 1
  MaxRestarts = 1
INVARIANTS
  LateSubscribersSeeOutcome
\* a tab that was told the outcome has nothing left to do
CHECK_DEADLOCK FALSE
