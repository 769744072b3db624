SPECIFICATION ComponentsSpec
CONSTANTS
  Characters <- MCCharacters
  Before <- MCBefore
  Plans <- MCPlans
  MaxRetries = 2
  MaxFaults = 3
  MaxLost = 1
  Spoilt = Spoilt
  Sent <- MCSent
  Keys <- MCKeys
  MaxWindow = 5
  Burst = 2
  PermitCost = 3
  Horizon = 9
  Signals = TRUE
  Gaps = 2
  GapDuration = 8
  GapFloor = 3
  PollEvery = 2
  PageSize = 2
  ErrorsInARow = 3
  MaxRevisions = 4
  MaxBadPolls = 3
  Texts <- MCTexts
  MinChunk = 3
  MaxChunk = 4
  StallAfter = 2
  TypoLength = 2
  RestTimes = {3, 5}
  StallTimes = {4}
  ThinkTimes = {2}
  CheckpointFloor = 1
  CorrectionGap = 8
  Targets = {0, 30, 45}
  Callers = {r1, r2}
  Consents = 2
  Life = 3
  Skew = 2
  Hours = 3
  Ops = 2
  ReplayBuffer = 1
  MaxPauses = 1
  MaxDrops = 1
  MaxReloads = 1
  MaxRestarts = 1
  Switches = {s, t, u}
  BrowserSwitches = {t, u}
  MaxFlips = 2
  MaxEdits = 3
  MaxStarts = 2
  Docs <- MCDocs
  MaxClicks = 2
  MaxFailures = 2
  Rates <- MCRates
  MaxChars = 60
  Packs = {p, q}
INVARIANTS
  ComponentsTypeOK
  DocumentAsBelieved
  DoneIsText
  BatchIsExact
  PermitsBounded
  RevisionsAreSeen
  CountdownExact
  PageIsDraft
  MistakesAreSeen
  PlanEndsOnTime
  ExpiryIsOfAccess
  PreviewHasNoHoles
  TabAgrees
  PriceIsOfText
  RefusedIsAskedAgain
  PricesAgree
  CustomersCanPay
PROPERTIES
  ImplementsDraft
  NothingHangs
  RefreshSurvives
  
\* Each component may have nothing left to do: a job or a plan that is done, a
\* clock or a counter at its bound.
CHECK_DEADLOCK FALSE
