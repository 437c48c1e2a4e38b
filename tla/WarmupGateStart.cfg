\* Two processes that agree on the start of the ramp, one of which may crash.
SPECIFICATION Spec
CONSTANTS
  c1 = c1  c2 = c2  c3 = c3
  w1 = w1  w2 = w2
  gmail = gmail  other = other
  Calls = {c1, c3}
  Workers = {w1, w2}
  WorkerOf <- MCWorkerOf
  Isps = {gmail, other}
  Cap <- MCCap
  MaxDate = 1
  Configured <- MCUnset
  MaxFaults = 0
  MaxCrashes = 1
INVARIANTS OneRamp
PROPERTIES PromiseKept
