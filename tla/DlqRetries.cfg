\* One process, and nothing goes wrong but the deliveries.
SPECIFICATION Spec
CONSTANTS
  p1 = p1
  Processes = {p1}
  MaxRetries = 2
  MaxRestarts = 0
  MaxFaults = 0
  MaxClears = 0
INVARIANTS RetriedOnce
CHECK_DEADLOCK FALSE
