\* Two tabs and a foreign request, one upset; two sockets, two saves, one admin call, one fault;
\* two syncs of one mailbox, three changes, one fault.
SPECIFICATION MCSpec
CONSTANTS
  c1 = c1  c2 = c2  q1 = q1  v1 = v1  v2 = v2
  Tabs = {c1, c2}
  Requests = {c1, c2, q1}
  MaxTokens = 3
  MaxUpsets = 1
  Sockets = {c1, c2}
  Saves = {v1, v2}
  MaxRooms = 2
  MaxOpens = 3
  MaxKicks = 1
  RoomMaxFaults = 1
  Syncs = {c1, c2}
  Page = 1
  MaxChanges = 3
  SyncMaxFaults = 1
INVARIANTS
  ClientTypeOK LinesAreAccountedFor StoredTokenIsLive
  EditsAreKept NewestIsComplete CursorIsHonest
SYMMETRY MCSymmetry
\* The bounds on tokens, rooms and connections stop a behaviour.
CHECK_DEADLOCK FALSE
