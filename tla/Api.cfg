\* Two requests in flight, one fault; two sends of a domain over midnight, three requests and one call of the user or two and two;
\* two drafts, three requests about them, one fault;
\* two deliveries at once, two hosts, two days; one process with dead letters that may restart, one fault, one cleared record;
\* three Stripe events, two handlers, one fault.
SPECIFICATION MCSpec
CONSTANTS
  a = a  b = b  m1 = m1  m2 = m2  p1 = p1  i1 = i1  i2 = i2  i3 = i3
  Messages = {m1, m2}
  KeyInHeader = {m1}
  KeyInBody = {m2}
  Posts = {a, b}
  Quota = 2
  MaxSubmits = 5
  AdmMaxFaults = 1
  Sends = {a, b}
  MaxBatch = 1
  StepDays = {1, 2}
  Limit <- MCLimit
  LastDay = 1
  MaxToday = 2
  MaxSessions = 2
  MaxAsks = 3
  MaxOrders = 2
  Processes = {p1}
  MaxRetries = 2
  MaxRestarts = 1
  MaxFaults = 1
  MaxClears = 1
  Drafts = {m1, m2}
  Asks = {a, b}
  MaxAgentAsks = 3
  AgentMaxFaults = 1
  Deliveries = {a, b}
  Hosts = {m1, m2}
  PerHour = 1
  PerDay = 2
  PoolMax = 1
  HourLength = 2
  DayLength = 4
  HourOffset = 1
  EndOfTime = 6
  StripeEvents = {i1, i2, i3}
  Handlers = {a, b}
  DunMaxFaults = 1
INVARIANTS
  ApiTypeOK OneJobPerKey OvershootIsBounded
  WarmupOvershootIsBounded SessionIsEstablished
  NothingLost OneRetryAtATime
  DraftsAreSettled ThrottleHolds AttemptsAreReal PaidUpIsNotFree
PROPERTIES NeverDowngraded
SYMMETRY MCSymmetry
\* The bounds on requests and calls stop a behaviour.
CHECK_DEADLOCK FALSE
