----------------------------- MODULE DomainWarmup -----------------------------
(***************************************************************************)
(* services/reputation/src/warmup/orchestrator.ts: the warm-up sessions of *)
(* one sending domain.  Sends check the limit of the day before they are   *)
(* accepted and raise the counter after; the user and the monitors pause,  *)
(* resume, cancel, start and look at sessions.  Nobody locks a row.        *)
(*                                                                         *)
(* A session is its number in the order of the inserts.  A command may be  *)
(* rejected and a process die wherever one waits; what had been written    *)
(* stays.  The calls of the user and the monitors come one at a time, and  *)
(* each first look of theirs is one step: the two selects of it see what   *)
(* one would, as requests change no status and insert but active sessions. *)
(***************************************************************************)
EXTENDS Integers, Sequences, FiniteSets, FiniteSetsExt

CONSTANTS
  Sends,           \* requests in flight at once, each with the recordSend it leaves behind
  MaxBatch,        \* most recipients of a request
  StepDays,        \* days of AUTO_WARMUP_SCHEDULE
  Limit,           \* Limit[d]: dailyLimit of step d
  LastDay,         \* last day of the schedule of a new session
  MaxToday,        \* bound on the date
  MaxSessions,     \* bound on the sessions
  MaxAsks,         \* bound on requests
  MaxOrders        \* bound on calls of the user and the monitors

VARIABLES
  today,           \* the UTC date
  session,         \* warmup_sessions of the domain
  send,            \* send[c]: where request c is, and what it has read
  order,           \* the call of the user or a monitor under way
  asks, orders,    \* requests and such calls so far (bounded)
  accepted,        \* accepted[i]: recipients let through today under session i (history)
  lost,            \* a count was wiped, or never made (history)
  excused          \* requests looking again for what a call took away, or after a failed insert (history)

domVars == <<today, session, send, order, asks, orders, accepted, lost, excused>>

ASSUME DomAssumption ==
  /\ IsFiniteSet(Sends) /\ MaxBatch \in Nat \ {0} /\ LastDay \in Nat
  /\ MaxToday \in Nat \ {0} /\ MaxSessions \in Nat /\ MaxAsks \in Nat /\ MaxOrders \in Nat
\* Every step of AUTO_WARMUP_SCHEDULE lets something through, and no less than the one before.
ASSUME StepAssumption ==
  /\ IsFiniteSet(StepDays) /\ 1 \in StepDays /\ StepDays \subseteq Nat \ {0}
  /\ Limit \in [StepDays -> Nat \ {0}]
  /\ \A d, e \in StepDays : d <= e => Limit[d] <= Limit[e]

Ids == DOMAIN session

NoSend  == [pc |-> "idle", id |-> 0, n |-> 0, day |-> 1, bouncy |-> FALSE, on |-> 0]

\* A row: its schedule is reduced to the last day of it, its bounce rate to whether it is too high.
NewSession == [status |-> "active", day |-> 1, started |-> today, sent |-> 0, on |-> today,
               bouncy |-> FALSE, last |-> LastDay]
NoRow   == [NewSession EXCEPT !.started = 0, !.on = 0]
NoOrder == [pc |-> "idle", kind |-> "status", id |-> 0, row |-> NoRow]

DomInit ==
  /\ today = 1
  /\ session = << >>
  /\ send = [c \in Sends |-> NoSend]
  /\ order = NoOrder
  /\ asks = 0 /\ orders = 0
  /\ accepted = [i \in 1 .. MaxSessions |-> 0]
  /\ lost = FALSE
  /\ excused = {}

-----------------------------------------------------------------------------
(* rows *)

\* resolveAutoStep, and the days since the start of session i.
AutoStep(day)  == Max({s \in StepDays : s <= day})
Elapsed(start) == today - start + 1

\* elapsedDays counts periods of 24 hours: as many as dates, or one less until the hour comes.
ElapsedDays(start) == {Max({1, Elapsed(start) - 1}), Elapsed(start)}

Having(st) == {i \in Ids : session[i].status = st}

\* getActiveSession, by a call of the user: an active session before a paused one, 0 when there is neither.
ActiveSession ==
  IF Having("active") # {} THEN Max(Having("active"))
  ELSE IF Having("paused") # {} THEN Max(Having("paused"))
  ELSE 0

Update(i, row) == session' = [session EXCEPT ![i] = row]

\* maybeResetDailyCounter, decided on a row read earlier for date d: what others have
\* counted since for the same date is wiped, and so is the date if it is older.
Reset(i, d) ==
  /\ Update(i, [session[i] EXCEPT !.sent = 0, !.on = d])
  /\ lost' = (lost \/ (session[i].sent > 0 /\ session[i].on >= d))

-----------------------------------------------------------------------------
(* ensureWarmupAndCheck *)

SendAt(c, pc) == send' = [send EXCEPT ![c].pc = pc]

\* What the request keeps of the active row i, and where it goes: a counter of another
\* date is reset before anything else.
Judge(c, i) ==
  send' = [send EXCEPT ![c] =
    [@ EXCEPT !.pc = IF session[i].on = today THEN "advance" ELSE "reset",
              !.id = i, !.day = session[i].day, !.bouncy = session[i].bouncy, !.on = today]]

Ask(c) ==
  /\ send[c].pc = "idle" /\ asks < MaxAsks
  /\ asks' = asks + 1
  /\ \E n \in 1 .. MaxBatch : send' = [send EXCEPT ![c] = [NoSend EXCEPT !.pc = "look", !.n = n]]
  /\ UNCHANGED <<today, session, order, orders, accepted, lost, excused>>

\* getActiveSession, the first of its selects, before the insert and again after it.
LookActive(c) ==
  /\ send[c].pc \in {"look", "again"}
  /\ IF Having("active") # {} THEN Judge(c, Max(Having("active"))) /\ excused' = excused \ {c}
     ELSE SendAt(c, IF send[c].pc = "look" THEN "look2" ELSE "again2") /\ UNCHANGED excused
  /\ UNCHANGED <<today, session, order, asks, orders, accepted, lost>>

\* The second select: a paused session blocks.  If there is none after the insert either,
\* "something is deeply wrong".
MutNoPaused(c) ==
  /\ send[c].pc \in {"look2", "again2"}
  /\ SendAt(c, IF send[c].pc = "look2" THEN "create" ELSE "wrong")
  /\ UNCHANGED <<today, session, order, asks, orders, accepted, lost, excused>>
LookPaused(c) ==
  /\ send[c].pc \in {"look2", "again2"}
  /\ IF Having("paused") # {}
     THEN send' = [send EXCEPT ![c] = NoSend] /\ excused' = excused \ {c}
     ELSE SendAt(c, IF send[c].pc = "look2" THEN "create" ELSE "wrong") /\ UNCHANGED excused
  /\ UNCHANGED <<today, session, order, asks, orders, accepted, lost>>

\* The insert of a session: warmup_sessions_active_domain_idx is unique on domain and status.
InsertSession ==
  \/ /\ Having("active") = {}
     /\ Len(session) < MaxSessions
     /\ session' = Append(session, NewSession)
  \/ Having("active") # {} /\ UNCHANGED session

\* Whatever rejects the insert is taken for a race.
Create(c) ==
  /\ send[c].pc = "create"
  /\ \/ InsertSession /\ UNCHANGED excused
     \/ UNCHANGED session /\ excused' = excused \cup {c}
  /\ SendAt(c, "again")
  /\ UNCHANGED <<today, order, asks, orders, accepted, lost>>

RefuseWrong(c) ==
  /\ send[c].pc = "wrong"
  /\ send' = [send EXCEPT ![c] = NoSend]
  /\ excused' = excused \ {c}
  /\ UNCHANGED <<today, session, order, asks, orders, accepted, lost>>

ResetFirst(c) ==
  /\ send[c].pc = "reset"
  /\ Reset(send[c].id, send[c].on)
  /\ SendAt(c, "advance")
  /\ UNCHANGED <<today, order, asks, orders, accepted, excused>>

\* maybeAdvanceAutoStep, on the day and the bounces read before: too many bounces
\* keep the session on its step.  Neither is needed after.
NextDay(c, elapsed) ==
  IF AutoStep(elapsed) <= AutoStep(send[c].day) \/ send[c].bouncy THEN send[c].day
  ELSE AutoStep(elapsed)

Advance(c) ==
  LET i == send[c].id IN
  /\ send[c].pc = "advance"
  /\ \E e \in ElapsedDays(session[i].started) :
       IF NextDay(c, e) = send[c].day THEN UNCHANGED session
       ELSE Update(i, [session[i] EXCEPT !.day = NextDay(c, e)])
  /\ send' = [send EXCEPT ![c] = [@ EXCEPT !.pc = "compare", !.day = 1, !.bouncy = FALSE]]
  /\ UNCHANGED <<today, order, asks, orders, accepted, lost, excused>>

\* The row is read again and its counter compared with the limit of its day.
MutAtLimit(i) == session[i].sent <= Limit[AutoStep(session[i].day)]
BelowLimit(i) == session[i].sent < Limit[AutoStep(session[i].day)]

Compare(c) ==
  LET i == send[c].id IN
  /\ send[c].pc = "compare"
  /\ IF BelowLimit(i)
     THEN /\ SendAt(c, "record")
          /\ accepted' = [accepted EXCEPT ![i] = @ + send[c].n]
     ELSE /\ send' = [send EXCEPT ![c] = NoSend]
          /\ UNCHANGED accepted
  /\ UNCHANGED <<today, session, order, asks, orders, lost, excused>>

-----------------------------------------------------------------------------
(* recordSend, after the email is enqueued *)

\* A domain without an active session by now counts nothing, whatever the second select brings.
Record(c) ==
  LET i == Max(Having("active")) IN
  /\ send[c].pc = "record"
  /\ IF Having("active") # {}
     THEN /\ send' = [send EXCEPT ![c].pc = IF session[i].on = today THEN "count" ELSE "recount",
                                  ![c].id = i, ![c].on = today]
          /\ lost' = (lost \/ i # send[c].id)
     ELSE /\ send' = [send EXCEPT ![c] = NoSend]
          /\ lost' = TRUE
  /\ UNCHANGED <<today, session, order, asks, orders, accepted, excused>>

ResetBefore(c) ==
  /\ send[c].pc = "recount"
  /\ Reset(send[c].id, send[c].on)
  /\ SendAt(c, "count")
  /\ UNCHANGED <<today, order, asks, orders, accepted, excused>>

\* The increment itself is one statement of SQL, by the number of recipients.
CountSend(c) ==
  LET i == send[c].id IN
  /\ send[c].pc = "count"
  /\ Update(i, [session[i] EXCEPT !.sent = @ + send[c].n])
  /\ send' = [send EXCEPT ![c] = NoSend]
  /\ lost' = (lost \/ session[i].on # today)
  /\ UNCHANGED <<today, order, asks, orders, accepted, excused>>

\* The request is refused by a later check, a command of it is rejected, or its process dies.
Abandon(c) ==
  /\ send[c].pc # "idle"
  /\ send' = [send EXCEPT ![c] = NoSend]
  /\ lost' = (lost \/ send[c].pc \in {"record", "recount", "count"})
  /\ excused' = excused \ {c}
  /\ UNCHANGED <<today, session, order, asks, orders, accepted>>

-----------------------------------------------------------------------------
(* startWarmup, pauseWarmup, resumeWarmup, cancelWarmup, checkWarmupStatus, adjustSchedule *)

\* The session a call is about: none for a start.
Target(kind) ==
  IF kind = "resume" /\ Having("paused") # {} THEN Max(Having("paused"))
  ELSE IF kind = "resume" THEN 0
  ELSE ActiveSession

\* It is read, and the call refused if it does not suit.  A status and signals keep the row.
Order(kind) ==
  LET i == Target(kind) IN
  /\ order.pc = "idle" /\ orders < MaxOrders
  /\ (i = 0) = (kind = "start")
  /\ kind \in {"pause", "signals"} => session[i].status = "active"
  /\ order' = [pc |-> IF kind = "status" /\ session[i].on # today THEN "reset" ELSE "write",
               kind |-> kind, id |-> i, row |-> IF kind \in {"status","signals"} THEN session[i] ELSE NoRow]
  /\ orders' = orders + 1
  /\ UNCHANGED <<today, session, send, asks, accepted, lost, excused>>

\* The status of row i changes, unless the domain has another row of that status:
\* the update is then rejected, and the call with it.
MayBecome(i, st) == Having(st) \subseteq {i}
Become(i, st) ==
  IF MayBecome(i, st) THEN Update(i, [session[i] EXCEPT !.status = st]) ELSE UNCHANGED session

\* maybeAdvanceDay, at the sight of the status: the calendar decides alone, bounces or not.
CatchUp(i, row, elapsed) ==
  IF row.status # "active" \/ elapsed = row.day THEN UNCHANGED session
  ELSE IF elapsed <= row.last THEN Update(i, [session[i] EXCEPT !.day = elapsed])
  ELSE IF MayBecome(i, "completed")
  THEN Update(i, [session[i] EXCEPT !.status = "completed", !.day = elapsed])
  ELSE UNCHANGED session

\* adjustSchedule: very bad signals pause, bad ones extend the schedule by two days,
\* good ones may take a day off it.
Adjust(i, row) ==
  \E bouncy \in BOOLEAN, st \in {session[i].status, "paused"}, last \in {row.last, row.last + 2, row.last - 1} :
    /\ last > row.last => bouncy
    /\ last < row.last => ~bouncy /\ row.last > 2
    /\ st # session[i].status => MayBecome(i, st) /\ last = row.last
    /\ Update(i, [session[i] EXCEPT !.bouncy = bouncy, !.status = st, !.last = last])

\* What request c is about to look for again is taken away: a session is closed, or a
\* paused one resumed after c has looked for an active one.
Unclosed == Having("active") \cup Having("paused")
Emptied(c) ==
  \/ send[c].pc = "again" /\ ~(Unclosed \subseteq Unclosed')
  \/ send[c].pc = "again2" /\ ~(Having("paused") \subseteq Having("paused")')

OrderReset ==
  /\ order.pc = "reset"
  /\ Reset(order.id, today)
  /\ order' = [order EXCEPT !.pc = "write"]
  /\ UNCHANGED <<today, send, asks, orders, accepted, excused>>

OrderWrite ==
  LET i == order.id IN
  /\ order.pc = "write"
  /\ \/ order.kind = "start"   /\ InsertSession
     \/ order.kind = "pause"   /\ Become(i, "paused")
     \/ order.kind = "resume"  /\ Become(i, "active")
     \/ order.kind = "cancel"  /\ Become(i, "cancelled")
     \/ order.kind = "status"  /\ \E e \in ElapsedDays(session[i].started) : CatchUp(i, order.row, e)
     \/ order.kind = "signals" /\ Adjust(i, order.row)
  /\ excused' = excused \cup {c \in Sends : Emptied(c)}
  /\ order' = NoOrder
  /\ UNCHANGED <<today, send, asks, orders, accepted, lost>>

\* A command of the call is rejected, or its process dies.
OrderFails ==
  /\ order.pc # "idle"
  /\ order' = NoOrder
  /\ UNCHANGED <<today, session, send, asks, orders, accepted, lost, excused>>

Midnight ==
  /\ today < MaxToday
  /\ today' = today + 1
  /\ accepted' = [i \in 1 .. MaxSessions |-> 0]
  /\ UNCHANGED <<session, send, order, asks, orders, lost, excused>>

-----------------------------------------------------------------------------

Serve(c) ==
  \/ Ask(c) \/ LookActive(c) \/ LookPaused(c) \/ Create(c) \/ RefuseWrong(c) \/ ResetFirst(c)
  \/ Advance(c) \/ Compare(c) \/ Record(c) \/ ResetBefore(c) \/ CountSend(c) \/ Abandon(c)

Kinds == {"start", "pause", "resume", "cancel", "status", "signals"}

DomNext ==
  \/ \E c \in Sends : Serve(c)
  \/ \E kind \in Kinds : Order(kind)
  \/ OrderReset
  \/ OrderWrite
  \/ OrderFails
  \/ Midnight

DomSpec == DomInit /\ [][DomNext]_domVars

-----------------------------------------------------------------------------
(* properties *)

Rows == [status : {"active", "paused", "completed", "cancelled"}, day : StepDays \cup 1 .. MaxToday,
         started : 0 .. MaxToday, sent : Nat, on : 0 .. MaxToday, bouncy : BOOLEAN, last : Nat]

\* Type invariant: the shape of every variable, and nothing else.
DomTypeOK ==
  /\ today \in 1 .. MaxToday
  /\ session \in Seq(Rows)
  /\ send \in [Sends -> [pc : {"idle", "look", "look2", "create", "again", "again2", "wrong", "reset",
                               "advance", "compare", "record", "recount", "count"},
                         id : Nat, n : Nat, day : Nat, bouncy : BOOLEAN, on : 0 .. MaxToday]]
  /\ order \in [pc : {"idle", "reset", "write"}, id : Nat, kind : Kinds, row : Rows]
  /\ asks \in 0 .. MaxAsks /\ orders \in 0 .. MaxOrders
  /\ accepted \in [1 .. MaxSessions -> Nat]
  /\ lost \in BOOLEAN /\ excused \subseteq Sends

\* The limit is checked before and counted after, so a day may exceed it, but by no more
\* than the requests in flight carry, as long as no count is wiped by a late reset.
WarmupOvershootIsBounded ==
  ~lost => \A i \in Ids :
    accepted[i] <= Limit[AutoStep(Elapsed(session[i].started))] - 1 + Cardinality(Sends) * MaxBatch

\* "Something is deeply wrong" (orchestrator.ts): whoever loses the race to create a session
\* finds the winner's, paused or not by then.  A request is refused for want of one only if its
\* insert failed for another reason, or a session was closed while it looked again, or resumed
\* between its two selects.
SessionIsEstablished == \A c \in Sends : send[c].pc = "wrong" => c \in excused
=============================================================================
