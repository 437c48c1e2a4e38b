\* A domain without a key.
SPECIFICATION Spec
CONSTANTS
  r1 = r1  r2 = r2  u1 = u1  u2 = u2
  Recipients = {r1}
  Runs = {u1}
  RelayMode = "none"
  RequireDkim = TRUE
  Domains = {"unsigned"}
  MaxAttempts = 2
  MaxStalled = 1
  MaxLapses = 0
  MaxFaults = 0
  MaxListings = 0
INVARIANTS HeldMailIsRetryable
SYMMETRY MCSymmetry
\* A settled email stays settled: the system really stops.
CHECK_DEADLOCK FALSE
