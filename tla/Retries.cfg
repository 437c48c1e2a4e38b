\* Two events and slots; two Stripe events, two handlers; two mails, one tab;
\* two syncs, two changes; a fault each.
SPECIFICATION MCSpec
CONSTANTS
  e1 = e1  e2 = e2  s1 = s1  s2 = s2
  i1 = i1  i2 = i2  h1 = h1  h2 = h2
  m1 = m1  m2 = m2  t1 = t1  f1 = f1  f2 = f2  y1 = y1  y2 = y2
  Events = {e1, e2}
  Slots = {s1, s2}
  HookAttempts = 2
  Threshold = 2
  HookStalls = 1
  MaxSwitches = 1
  HookMaxFaults = 1
  StripeEvents = {i1, i2}
  Handlers = {h1, h2}
  DunMaxFaults = 1
  Mails = {m1, m2}
  Tabs = {t1}
  Flushes = {f1, f2}
  MaxToggles = 2
  MaxSyncs = 1
  MaxMishaps = 1
  Syncs = {y1, y2}
  Page = 1
  MaxChanges = 2
  SyncMaxFaults = 1
INVARIANTS
  DuplicateNeedsAReason GivenUpOnlyWhenOff AnOutageIsNoticed
  QueuedMailIsKept CopiesAreExcused
PROPERTIES
  EventsSettle GraceEnds FlushedMailLeaves CopyCatchesUp
\* What is settled stays settled, and the bounds stop the rest.
CHECK_DEADLOCK FALSE
