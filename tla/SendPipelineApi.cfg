\* Every endpoint, two calls of the user, one restart of the API, one fault.
SPECIFICATION FairPipelineSpec
CONSTANTS
  Kinds = {"immediate", "scheduled", "draft"}
  Undos = {q1, q2}
  MaxRestarts = 1
  MaxCalls = 2
  r1 = r1  r2 = r2  u1 = u1  u2 = u2  q1 = q1  q2 = q2
  Recipients = {r1}
  Runs = {u1}
  RelayMode = "none"
  RequireDkim = TRUE
  Domains = {"signed"}
  MaxAttempts = 2
  MaxStalled = 1
  MaxLapses = 0
  MaxFaults = 1
  MaxListings = 0
PROPERTIES RefusedUndoIsLate AcceptedIsCarriedOut
\* A settled email stays settled: the system really stops.
CHECK_DEADLOCK FALSE
