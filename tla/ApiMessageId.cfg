\* A request that is repeated with the key in its body.
SPECIFICATION MCSpec
CONSTANTS
  a = a  b = b  m1 = m1  m2 = m2  p1 = p1  i1 = i1  i2 = i2  i3 = i3
  Messages = {m1, m2}
  KeyInHeader = {m1}
  KeyInBody = {m2}
  Posts = {a, b}
  Quota = 2
  MaxSubmits = 5
  AdmMaxFaults = 1
  Sends = {a, b}
  MaxBatch = 1
  StepDays = {1, 2}
  Limit <- MCLimit
  LastDay = 1
  MaxToday = 2
  MaxSessions = 2
  MaxAsks = 3
  MaxOrders = 2
  Processes = {p1}
  MaxRetries = 2
  MaxRestarts = 1
  MaxFaults = 1
  MaxClears = 1
  Drafts = {m1, m2}
  Asks = {a, b}
  MaxAgentAsks = 3
  AgentMaxFaults = 1
  Deliveries = {a, b}
  Hosts = {m1, m2}
  PerHour = 1
  PerDay = 2
  PoolMax = 1
  HourLength = 2
  DayLength = 4
  HourOffset = 1
  EndOfTime = 6
  StripeEvents = {i1, i2, i3}
  Handlers = {a, b}
  DunMaxFaults = 1
INVARIANTS OneJobPerMessageId
SYMMETRY MCSymmetry
\* The bounds on requests and calls stop a behaviour.
CHECK_DEADLOCK FALSE
