---------------------------- MODULE DomainThrottle ----------------------------
(***************************************************************************)
(* services/mta: delivery/optimizer.ts: what paces the deliveries of one   *)
(* worker process to one domain: the counters of the hour and the day, the *)
(* interval between two sends, and the slots of each mail host.  Several   *)
(* jobs run at once; between the check and the answer of the host each is  *)
(* awaiting its transport.  MtaWorker has what a job makes of the verdict. *)
(*                                                                         *)
(* connectionsActive, which the check also reads, is never raised.  The    *)
(* lookup of the hosts and its cache are left out.                         *)
(***************************************************************************)
EXTENDS Integers, FiniteSets

CONSTANTS
  Deliveries,      \* jobs that run at once
  Hosts,           \* mail hosts of the domain, of equal priority
  PerHour, PerDay, \* maxMessagesPerHour, maxMessagesPerDay
  PoolMax,         \* maxConcurrentConnections
  HourLength,      \* ticks of an hour; the interval between two sends is one tick
  DayLength,       \* ticks of a day
  HourOffset,      \* when the hourly timer of the process fires
  EndOfTime        \* bound on the clock

NoHost == "no host"
ASSUME ThrottleAssumption ==
  /\ IsFiniteSet(Deliveries) /\ IsFiniteSet(Hosts) /\ NoHost \notin Hosts
  /\ PerHour \in Nat \ {0} /\ PerDay \in Nat \ {0} /\ PoolMax \in Nat \ {0}
  /\ HourLength \in Nat \ {0} /\ DayLength \in Nat \ {0} /\ HourOffset \in Nat /\ EndOfTime \in Nat

VARIABLES
  clock,
  pace,            \* ThrottleState: hour, day, last send, and the end of a throttle (Never: none)
  pool,            \* pool[h]: active and idle connections of host h
  on,              \* on[j]: the host job j is sending to, NoHost when it is not
  nextHour,        \* when the hourly timer is due
  countedDay       \* dailyCounterDate

throttleVars == <<clock, pace, pool, on, nextHour, countedDay>>

Never == -1

ThrottleInit ==
  /\ clock = 0
  /\ pace = [hour |-> 0, day |-> 0, last |-> Never, until |-> Never]
  /\ pool = [h \in Hosts |-> [active |-> 0, idle |-> 0]]
  /\ on = [j \in Deliveries |-> NoHost]
  /\ nextHour = HourOffset
  /\ countedDay = 0

Today == clock \div DayLength

-----------------------------------------------------------------------------
(* deliverMessage *)

\* checkThrottle: a throttle that has ended is lifted, a limit that is reached imposes one.
Lifted == IF pace.until <= clock THEN [pace EXCEPT !.until = Never] ELSE pace

Checked ==
  LET p == Lifted IN
  CASE p.until # Never      -> p
    [] p.hour >= PerHour    -> [p EXCEPT !.until = clock + HourLength]
    [] p.day >= PerDay      -> [p EXCEPT !.until = (Today + 1) * DayLength]
    [] OTHER                -> p

MayPass == Checked.until = Never /\ (pace.last = Never \/ clock - pace.last >= 1)

\* acquireConnection.
MutRoom(h) == pool[h].active <= PoolMax
HasRoom(h) == pool[h].active < PoolMax

Acquired(h) == [pool EXCEPT ![h].active = @ + 1, ![h].idle = IF @ > 0 THEN @ - 1 ELSE @]

\* A host with a warm connection is preferred.
Preferred(h) == (\E g \in Hosts : pool[g].idle > 0) => pool[h].idle > 0

TryHost(j, h) ==
  /\ on[j] = NoHost
  /\ Preferred(h)
  /\ pace' = Checked
  /\ IF MayPass /\ HasRoom(h) THEN pool' = Acquired(h) /\ on' = [on EXCEPT ![j] = h]
     ELSE UNCHANGED <<pool, on>>
  /\ UNCHANGED <<clock, nextHour, countedDay>>

\* releaseConnection.
Released(h) == [pool EXCEPT ![h].active = IF @ > 0 THEN @ - 1 ELSE @, ![h].idle = @ + 1]

Counted(p) == [p EXCEPT !.hour = @ + 1, !.day = @ + 1, !.last = clock]

\* The host accepts the message, defers or refuses it, or the connection fails: the slot is
\* given back on each of the paths, the counters are raised on the first.
HostAnswers(j) ==
  /\ on[j] # NoHost
  /\ \E answer \in {"accepted", "deferred", "refused", "failed"} :
       /\ pace' = IF answer = "accepted" THEN Counted(pace) ELSE pace
       /\ pool' = Released(on[j])
  /\ on' = [on EXCEPT ![j] = NoHost]
  /\ UNCHANGED <<clock, nextHour, countedDay>>

-----------------------------------------------------------------------------
(* the timers of worker.ts *)

\* resetHourlyCounters and pruneStaleState, which forgets hosts that have been idle a while.
EachHour ==
  /\ clock >= nextHour
  /\ pace' = [pace EXCEPT !.hour = 0, !.until = IF @ <= clock THEN Never ELSE @]
  /\ \E S \in SUBSET {h \in Hosts : pool[h].active = 0} :
       pool' = [h \in Hosts |-> IF h \in S THEN [pool[h] EXCEPT !.idle = 0] ELSE pool[h]]
  /\ nextHour' = clock + HourLength
  /\ UNCHANGED <<clock, on, countedDay>>

\* maybeResetDailyCounters.
EachDay ==
  /\ Today # countedDay
  /\ pace' = [pace EXCEPT !.hour = 0, !.day = 0, !.until = Never]
  /\ countedDay' = Today
  /\ UNCHANGED <<clock, pool, on, nextHour>>

Pass == clock < EndOfTime /\ clock' = clock + 1 /\ UNCHANGED <<pace, pool, on, nextHour, countedDay>>

ThrottleNext ==
  \/ \E j \in Deliveries : HostAnswers(j) \/ \E h \in Hosts : TryHost(j, h)
  \/ EachHour \/ EachDay \/ Pass

ThrottleSpec == ThrottleInit /\ [][ThrottleNext]_throttleVars

-----------------------------------------------------------------------------
(* properties *)

\* Type invariant: the shape of every variable, and nothing else.
ThrottleTypeOK ==
  /\ clock \in 0 .. EndOfTime
  /\ pace \in [hour : Nat, day : Nat, last : Nat \cup {Never}, until : Nat \cup {Never}]
  /\ pool \in [Hosts -> [active : Nat, idle : Nat]]
  /\ on \in [Deliveries -> Hosts \cup {NoHost}]
  /\ nextHour \in Nat /\ countedDay \in Nat

On(h) == {j \in Deliveries : on[j] = h}

\* No path leaks a slot or gives one back twice: a host has as many connections as jobs
\* are sending to it, within its limit.
SlotsAreExact == \A h \in Hosts : pool[h].active = Cardinality(On(h)) /\ pool[h].active <= PoolMax

\* The limits are checked before the send and counted after it, so they are exceeded, but
\* by no more than the slots hold, whenever the timers reset the counters.
PaceIsBounded ==
  LET slots == Cardinality(Hosts) * PoolMax IN pace.hour < PerHour + slots /\ pace.day < PerDay + slots

\* However deliveries end and the timers reset, slots are accounted for and the pace holds.
ThrottleHolds == SlotsAreExact /\ PaceIsBounded
=============================================================================
