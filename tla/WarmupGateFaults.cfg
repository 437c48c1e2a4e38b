\* One date on which Redis rejects commands: where the increments go.
SPECIFICATION Spec
CONSTANTS
  c1 = c1  c2 = c2  c3 = c3
  w1 = w1  w2 = w2
  gmail = gmail  other = other
  Calls = {c1, c2, c3}
  Workers = {w1, w2}
  WorkerOf <- MCWorkerOf
  Isps = {gmail}
  Cap <- MCCap
  MaxDate = 0
  Configured <- MCUnset
  MaxFaults = 2
  MaxCrashes = 0
INVARIANTS EverySendCounted
