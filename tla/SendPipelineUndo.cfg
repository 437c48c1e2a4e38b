\* An undo that races with the worker.
SPECIFICATION PipelineSpec
CONSTANTS
  Kinds = {"immediate"}
  Undos = {q1}
  MaxRestarts = 0
  MaxCalls = 1
  r1 = r1  r2 = r2  u1 = u1  u2 = u2  q1 = q1  q2 = q2
  Recipients = {r1}
  Runs = {u1}
  RelayMode = "none"
  RequireDkim = TRUE
  Domains = {"signed"}
  MaxAttempts = 2
  MaxStalled = 1
  MaxLapses = 0
  MaxFaults = 0
  MaxListings = 0
PROPERTIES UndoneIsNeverSent
\* A settled email stays settled: the system really stops.
CHECK_DEADLOCK FALSE
