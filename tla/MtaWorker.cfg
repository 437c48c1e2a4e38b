\* Overflow relay, any domain, a lock that lapses under a live run, and one fault: a
\* rejected command or a dead process; the suppression list changes once meanwhile.
SPECIFICATION MCSpec
CONSTANTS
  r1 = r1  r2 = r2  u1 = u1  u2 = u2
  Recipients = {r1, r2}
  Runs = {u1, u2}
  RelayMode = "overflow"
  RequireDkim = TRUE
  Domains = {"signed", "unsigned", "gone"}
  MaxAttempts = 2
  MaxStalled = 1
  MaxLapses = 1
  MaxFaults = 1
  MaxListings = 1
INVARIANTS RestingMailHasAJob StatusMatchesRows OneCopyPerAttempt DeliveredIsTrue
  StaleListMailsOnce
SYMMETRY MCSymmetry
\* A settled email stays settled: the system really stops.
CHECK_DEADLOCK FALSE
