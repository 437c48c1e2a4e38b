\* Three racing calls, Redis answering, a ramp that began at noon.
SPECIFICATION Spec
CONSTANTS
  c1 = c1  c2 = c2  c3 = c3
  w1 = w1  w2 = w2
  gmail = gmail  other = other
  Calls = {c1, c2, c3}
  Workers = {w1}
  WorkerOf <- MCWorkerOf
  Isps = {gmail, other}
  Cap <- MCCap
  MaxDate = 1
  Configured = 1
  MaxFaults = 0
  MaxCrashes = 0
INVARIANTS CapsHold RefusalsAreFree
PROPERTIES RefusalsAreExplained
SYMMETRY MCSymmetry
