----------------------------- MODULE MailboxSync -----------------------------
(***************************************************************************)
(* apps/api: lib/mailbox-sync-worker.ts, sync/engine.ts and                *)
(* lib/provider-backoff.ts: one connected mailbox, at Gmail or Outlook,    *)
(* copied into the emails table by a sweep on a timer and by the user's    *)
(* "sync now".  Neither excludes the other; every request is a step.       *)
(*                                                                         *)
(* The mailbox is the log of its changes, and a cursor (historyId or delta *)
(* link) is a place in that log.  Refreshing an access token is part of    *)
(* the request it is for.                                                  *)
(***************************************************************************)
EXTENDS Integers, Sequences, FiniteSets, FiniteSetsExt

CONSTANTS
  Syncs,           \* syncs that may be under way at once
  Page,            \* maxResults
  MaxChanges,      \* bound on the changes of the mailbox
  SyncMaxFaults    \* bound on failed requests and commands, rate limits and dead processes

VARIABLES
  provider,        \* "gmail" or "outlook"
  timer,           \* whether the sweep is started: only where Redis is configured
  changes,         \* the provider's log: messages added and deleted
  row,             \* connected_accounts: syncCursor (0: none) and status
  local,           \* local[m]: message m in emails
  sync,            \* sync[s]: where sync s is, and what it has read
  pause,           \* who knows of a rate limit: "none", "redis" or the "memory" of the process
  overlapped,      \* two syncs have been under way at once (history)
  skipped,         \* changes that a cursor was moved past without applying them (history)
  syncFaults       \* faults so far (bounded)

syncVars == <<provider, timer, changes, row, local, sync, pause, overlapped, skipped, syncFaults>>

ASSUME SyncAssumption ==
  IsFiniteSet(Syncs) /\ Page \in Nat \ {0} /\ MaxChanges \in Nat /\ SyncMaxFaults \in Nat

NoCursor == -1
NoSync == [pc |-> "idle", base |-> 0, todo |-> {}, gone |-> {}, left |-> {}, seen |-> 0, new |-> NoCursor,
           failed |-> FALSE, added |-> FALSE]

MailIds     == 1 .. MaxChanges
Added(i)    == changes[i].kind = "add"
Message(i)  == changes[i].msg
Log         == DOMAIN changes
Known       == {Message(i) : i \in Log}
Alive       == {m \in Known : \A i \in Log : Message(i) = m => Added(i)}

SyncFault == syncFaults < SyncMaxFaults /\ syncFaults' = syncFaults + 1

SyncInit ==
  /\ provider \in {"gmail", "outlook"}
  /\ timer \in BOOLEAN
  /\ changes = << >>
  /\ row = [cursor |-> 0, status |-> "active"]
  /\ local = [m \in MailIds |-> "absent"]
  /\ sync = [s \in Syncs |-> NoSync]
  /\ pause = "none"
  /\ overlapped = FALSE
  /\ skipped = {}
  /\ syncFaults = 0

-----------------------------------------------------------------------------
(* the mailbox *)

Change(kind, m) ==
  /\ Len(changes) < MaxChanges
  /\ changes' = Append(changes, [kind |-> kind, msg |-> m])
  /\ UNCHANGED <<provider, timer, row, local, sync, pause, overlapped, skipped, syncFaults>>

Arrive   == Change("add", Cardinality(Known) + 1)
Delete(m) == m \in Alive /\ Change("delete", m)

-----------------------------------------------------------------------------
(* who starts a sync *)

Start(s, pc) ==
  /\ sync[s].pc = "idle"
  /\ sync' = [sync EXCEPT ![s] = [NoSync EXCEPT !.pc = pc, !.base = row.cursor]]
  /\ overlapped' = (overlapped \/ \E t \in Syncs : sync[t].pc # "idle")
  /\ UNCHANGED <<provider, timer, changes, row, local, pause, skipped, syncFaults>>

\* The sweep selects the account: "a previously-failed account gets retried, not abandoned".
MutActiveOnly == row.status = "active"
Eligible == row.status \in {"active", "error"}

SweepSelect(s) == timer /\ Eligible /\ Start(s, "pause")

\* The user's sync, and the first one of a new account: a rate limit does not stop it.
SyncByHand(s) == Start(s, "fetch")

\* getProviderBackoffUntil: Redis is asked, and the memory only if that fails.
CheckPause(s) ==
  /\ sync[s].pc = "pause"
  /\ \E answers \in BOOLEAN :
       /\ IF answers THEN UNCHANGED syncFaults ELSE SyncFault
       /\ sync' = [sync EXCEPT ![s] = IF pause = (IF answers THEN "redis" ELSE "memory") THEN NoSync
                                      ELSE [@ EXCEPT !.pc = "fetch"]]
  /\ UNCHANGED <<provider, timer, changes, row, local, pause, overlapped, skipped>>

PauseOver ==
  /\ pause # "none"
  /\ pause' = "none"
  /\ UNCHANGED <<provider, timer, changes, row, local, sync, overlapped, skipped, syncFaults>>

-----------------------------------------------------------------------------
(* syncAccount *)

Upto(n, k) == IF n + k < Len(changes) THEN n + k ELSE Len(changes)

\* A page of the log after the cursor.  The delta of Outlook leads to the end of its page,
\* and says of a message that is gone that it was removed; Gmail's history leads to the
\* end of the log, however much of it the page leaves out.
FetchPage(s) ==
  LET last == Upto(sync[s].base, Page) IN
  /\ sync[s].pc = "fetch"
  /\ provider = "outlook" \/ sync[s].base > 0
  /\ sync' = [sync EXCEPT ![s].pc = "apply", ![s].todo = (sync[s].base + 1) .. last,
       ![s].gone = IF provider = "outlook" THEN Known \ Alive ELSE {},
       ![s].new = IF provider = "outlook" THEN last ELSE Len(changes),
       ![s].left = IF provider = "outlook" THEN {} ELSE (last + 1) .. Len(changes)]
  /\ UNCHANGED <<provider, timer, changes, row, local, pause, overlapped, skipped, syncFaults>>

\* Gmail without a history to go on from: a full sync.
NeedsFull(s) ==
  /\ sync[s].pc = "fetch" /\ provider = "gmail"
  /\ IF sync[s].base = 0 THEN UNCHANGED syncFaults ELSE SyncFault
  /\ sync' = [sync EXCEPT ![s].pc = "list"]
  /\ UNCHANGED <<provider, timer, changes, row, local, pause, overlapped, skipped>>

\* fullGmailSync lists the newest messages; what they do not show stays behind: older
\* messages, and the deletions since the cursor.  An empty list ends the sync.
FirstPage == {m \in Alive : Cardinality({n \in Alive : n > m}) < Page}

List(s) ==
  /\ sync[s].pc = "list"
  /\ sync' = [sync EXCEPT ![s].pc = IF Alive = {} THEN "persist" ELSE "apply", ![s].seen = Len(changes),
       ![s].todo = {i \in Log : Added(i) /\ Message(i) \in FirstPage},
       ![s].left = {i \in Log : IF Added(i) THEN Message(i) \in Alive \ FirstPage ELSE i > sync[s].base}]
  /\ UNCHANGED <<provider, timer, changes, row, local, pause, overlapped, skipped, syncFaults>>

Full(s) == provider = "gmail" /\ sync[s].new = NoCursor

\* storeReceivedEmail: a message that is there already is left alone.
Inserted(m) == [local EXCEPT ![m] = IF @ = "absent" THEN "inbox" ELSE @]

\* applyRemoteDeletion.
Trashed(m) == [local EXCEPT ![m] = IF @ = "inbox" THEN "trash" ELSE @]

\* The next change of the page is applied.
Apply(s) ==
  LET i == Min(sync[s].todo)
      m == Message(i)
  IN
  /\ sync[s].pc = "apply" /\ sync[s].todo # {}
  /\ IF Added(i) /\ m \notin sync[s].gone
     THEN /\ provider = "gmail" => m \in Alive
          /\ local' = Inserted(m)
          /\ sync' = [sync EXCEPT ![s].todo = @ \ {i}, ![s].added = TRUE]
     ELSE /\ local' = Trashed(m)
          /\ sync' = [sync EXCEPT ![s].todo = @ \ {i}]
  /\ UNCHANGED <<provider, timer, changes, row, pause, overlapped, skipped, syncFaults>>

\* A message can not be fetched or stored: a full sync goes on with the next one, the
\* others end without a cursor.  At Gmail a message that is gone by now always fails.
MutKeepCursor(s) == sync[s].new
NewAfterError(s) == NoCursor

ApplyFails(s) ==
  LET i == Min(sync[s].todo) IN
  /\ sync[s].pc = "apply" /\ sync[s].todo # {}
  /\ IF provider = "gmail" /\ Added(i) /\ Message(i) \notin Alive THEN UNCHANGED syncFaults ELSE SyncFault
  /\ sync' = [sync EXCEPT ![s] =
       IF Full(s) THEN [sync[s] EXCEPT !.failed = TRUE, !.todo = @ \ {i}, !.left = @ \cup {i}]
       ELSE [sync[s] EXCEPT !.failed = TRUE, !.pc = "persist", !.new = NewAfterError(s)]]
  /\ UNCHANGED <<provider, timer, changes, row, local, pause, overlapped, skipped>>

\* The page is done.  A full sync takes the cursor of the log as it is now.
EndPage(s) ==
  /\ sync[s].pc = "apply" /\ sync[s].todo = {}
  /\ sync' = [sync EXCEPT ![s].pc = "persist",
       ![s].new  = IF Full(s) THEN Len(changes) ELSE @,
       ![s].left = IF Full(s) THEN @ \cup (sync[s].seen + 1) .. Len(changes) ELSE @]
  /\ UNCHANGED <<provider, timer, changes, row, local, pause, overlapped, skipped, syncFaults>>

\* The request for the page, the list or the cursor is refused, with a rate limit or not.
RequestRefused(s) ==
  /\ \/ sync[s].pc \in {"fetch", "list"}
     \/ sync[s].pc = "apply" /\ sync[s].todo = {} /\ Full(s)
  /\ SyncFault
  /\ \E limited \in BOOLEAN :
       /\ limited => sync[s].pc # "apply"
       /\ sync' = [sync EXCEPT ![s].pc = IF limited THEN "limit" ELSE "persist",
                               ![s].failed = @ \/ sync[s].pc # "apply"]
  /\ UNCHANGED <<provider, timer, changes, row, local, pause, overlapped, skipped>>

-----------------------------------------------------------------------------
(* syncAndPersist *)

\* recordProviderRateLimit: in Redis, or in memory if that fails.
RecordLimit(s) ==
  /\ sync[s].pc = "limit"
  /\ \/ pause' = "redis" /\ UNCHANGED syncFaults
     \/ pause' = "memory" /\ SyncFault
  /\ sync' = [sync EXCEPT ![s].pc = "persist"]
  /\ UNCHANGED <<provider, timer, changes, row, local, overlapped, skipped>>

\* The cursor replaces the one in the row, whatever that is by now.
Persist(s) ==
  /\ sync[s].pc = "persist"
  /\ row' = [cursor |-> IF sync[s].new = NoCursor THEN row.cursor ELSE sync[s].new,
             status |-> IF sync[s].failed /\ ~sync[s].added THEN "error" ELSE "active"]
  /\ skipped' = IF sync[s].new = NoCursor THEN skipped ELSE skipped \cup sync[s].left
  /\ sync' = [sync EXCEPT ![s] = NoSync]
  /\ UNCHANGED <<provider, timer, changes, local, pause, overlapped, syncFaults>>

\* The command is rejected or the process dies: nothing of the sync is kept but its emails.
LoseSync(s) ==
  /\ sync[s].pc # "idle"
  /\ SyncFault
  /\ sync' = [sync EXCEPT ![s] = NoSync]
  /\ UNCHANGED <<provider, timer, changes, row, local, pause, overlapped, skipped>>

-----------------------------------------------------------------------------

SyncStep(s) ==
  \/ CheckPause(s) \/ FetchPage(s) \/ NeedsFull(s) \/ List(s) \/ Apply(s) \/ ApplyFails(s) \/ EndPage(s)
  \/ RequestRefused(s) \/ RecordLimit(s) \/ Persist(s)

SyncNext ==
  \/ Arrive
  \/ \E m \in MailIds : Delete(m)
  \/ \E s \in Syncs : SweepSelect(s) \/ SyncByHand(s) \/ SyncStep(s) \/ LoseSync(s)
  \/ PauseOver

SyncSpec == SyncInit /\ [][SyncNext]_syncVars

\* The sweep runs on a timer where it is started; requests end, and a pause is bounded.
SyncFairness ==
  /\ WF_syncVars(\E s \in Syncs : SweepSelect(s))
  /\ \A s \in Syncs : WF_syncVars(SyncStep(s))
  /\ WF_syncVars(PauseOver)

-----------------------------------------------------------------------------
(* properties *)

\* Type invariant: the shape of every variable, and nothing else.
SyncTypeOK ==
  /\ provider \in {"gmail", "outlook"}
  /\ timer \in BOOLEAN
  /\ changes \in Seq([kind : {"add", "delete"}, msg : MailIds])
  /\ row \in [cursor : Nat, status : {"active", "error"}]
  /\ local \in [MailIds -> {"absent", "inbox", "trash"}]
  /\ sync \in [Syncs -> [pc : {"idle", "pause", "fetch", "list", "apply", "limit", "persist"}, base : Nat,
                         todo : SUBSET (1 .. MaxChanges), gone : SUBSET MailIds, left : SUBSET (1 .. MaxChanges),
                         seen : Nat, new : Nat \cup {NoCursor}, failed : BOOLEAN, added : BOOLEAN]]
  /\ pause \in {"none", "redis", "memory"}
  /\ overlapped \in BOOLEAN
  /\ skipped \subseteq 1 .. MaxChanges
  /\ syncFaults \in 0 .. SyncMaxFaults

\* A message that is there was stored; one that was deleted does not show, unless two
\* syncs at once stored it behind its deletion.
Applied(i) ==
  IF Added(i) THEN Message(i) \in Alive => local[Message(i)] # "absent"
  ELSE overlapped \/ local[Message(i)] # "inbox"

\* The cursor is never ahead of the copy, however syncs overlap, fail and overwrite each
\* other's cursor: what lies behind it has been applied, except what a full sync or an
\* overfull page of Gmail is known to pass over.
CursorIsHonest == \A i \in 1 .. row.cursor : i \in Log => i \in skipped \/ Applied(i)

\* At Gmail a message that is gone before its arrival was read stops every later sync.
Blocked == provider = "gmail" /\ \E i \in Log : i > row.cursor /\ Added(i) /\ Message(i) \notin Alive

CaughtUp == \A i \in Log : Added(i) /\ Message(i) \in Alive => local[Message(i)] # "absent" \/ i \in skipped

\* The copy catches up: once the mailbox rests, and if the sweep is started, every message
\* in it is in the table, whatever failed, was limited or paused before, but for what was
\* passed over.
CopyCatchesUp == <>[](timer => Blocked \/ CaughtUp)
=============================================================================
