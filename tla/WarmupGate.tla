------------------------------ MODULE WarmupGate ------------------------------
(***************************************************************************)
(* services/mta/src/delivery/warmup-gate.ts: reserve-or-refuse for one     *)
(* sending identity.  Any number of reserve() calls run at once, in any    *)
(* number of worker processes; every await of the code is a point where    *)
(* they interleave, so every Redis command is an action of its own.        *)
(*                                                                         *)
(* A command Redis rejects has no effect, and the code then uses the       *)
(* counters of its own process; MaxFaults bounds how often that happens.    *)
(* The gate is enabled: a disabled one answers before it reads any state.  *)
(***************************************************************************)
EXTENDS WarmupRamp

CONSTANTS
  Calls,         \* job slots, each running one reserve() at a time
  Workers,       \* worker processes
  WorkerOf,      \* WorkerOf[c]: the process that runs slot c
  MaxFaults,     \* bound on Redis commands rejected
  MaxCrashes     \* bound on process crashes

VARIABLES
  clock,         \* Date.now(), in half days
  redisStart,    \* the key started-at in Redis
  count,         \* count[d][k]: the Redis counter of key k for date d
  startedAt,     \* startedAt[w]: resolvedStartedAt of process w
  local,         \* local[w][k]: localCounters of process w
  localDay,      \* localDay[w]: localCounterDay of process w
  call,          \* call[c]: where the call of slot c is and what it captured
  granted,       \* granted[s][d][k]: sends allowed by the counter in store s (history)
  faults,        \* commands rejected so far (bounded)
  crashes        \* crashes so far (bounded)

vars == <<clock, redisStart, count, startedAt, local, localDay, call, granted, faults, crashes>>

Redis  == "redis"
Stores == Workers \cup {Redis}

\* The start the ramp is paced from.
Start == IF Configured = Unset THEN redisStart ELSE Configured

ASSUME CallAssumption   == IsFiniteSet(Calls) /\ WorkerOf \in [Calls -> Workers]
ASSUME WorkerAssumption == IsFiniteSet(Workers) /\ Redis \notin Workers
ASSUME FaultAssumption  == MaxFaults \in Nat /\ MaxCrashes \in Nat

\* A slot that runs no call.
Idle == [pc |-> "idle", now |-> 0, day |-> 1, isp |-> Total, key |-> Total, via |-> Redis]
Zero == [k \in Keys |-> 0]

Init ==
  /\ clock = 0
  /\ redisStart = Unset
  /\ count = [d \in Dates |-> Zero]
  /\ startedAt = [w \in Workers |-> Unset]
  /\ local = [w \in Workers |-> Zero]
  /\ localDay = [w \in Workers |-> Unset]
  /\ call = [c \in Calls |-> Idle]
  /\ granted = [s \in Stores |-> [d \in Dates |-> Zero]]
  /\ faults = 0
  /\ crashes = 0

\* Redis rejects the command of this step.
Fault == faults < MaxFaults /\ faults' = faults + 1

-----------------------------------------------------------------------------
(* warmupStartedAt and currentDay *)

\* reserve() captures the time and the bucket, and looks for a start it knows.
Reserve(c) ==
  LET known == IF Configured # Unset THEN Configured ELSE startedAt[WorkerOf[c]] IN
  /\ call[c].pc = "idle"
  /\ \E i \in Isps :
       call' = [call EXCEPT ![c] =
                  [Idle EXCEPT !.now = clock, !.isp = i, !.key = i,
                     !.pc  = IF known = Unset THEN "setnx" ELSE "incr",
                     !.day = IF known = Unset THEN 1 ELSE DayOf(clock, known)]]
  /\ UNCHANGED <<clock, redisStart, count, startedAt, local, localDay, granted, faults, crashes>>

\* The process takes s as the start of the ramp and keeps it.
Resolve(c, s) ==
  /\ startedAt' = [startedAt EXCEPT ![WorkerOf[c]] = s]
  /\ call' = [call EXCEPT ![c].pc = "incr", ![c].day = DayOf(call[c].now, s)]

\* What SET started-at now NX leaves in Redis: only the first of all processes writes.
SetNx(c) == IF redisStart = Unset THEN call[c].now ELSE redisStart

SetStart(c) ==
  /\ call[c].pc = "setnx"
  /\ \/ /\ redisStart' = SetNx(c)
        /\ call' = [call EXCEPT ![c].pc = "get"]
        /\ UNCHANGED <<startedAt, faults>>
     \/ Fault /\ Resolve(c, call[c].now) /\ UNCHANGED redisStart
  /\ UNCHANGED <<clock, count, local, localDay, granted, crashes>>

\* Everyone, the writer included, reads the stored value back.
MutNoReadBack(c) == call[c].now
ReadBack(c) == redisStart

GetStart(c) ==
  /\ call[c].pc = "get"
  /\ \/ Resolve(c, ReadBack(c)) /\ UNCHANGED faults
     \/ Fault /\ Resolve(c, call[c].now)
  /\ UNCHANGED <<clock, redisStart, count, local, localDay, granted, crashes>>

-----------------------------------------------------------------------------
(* increment, compare, decrement *)

\* The local counter of key k in process w once a call made on date d adds n:
\* a date other than the one the counters cover clears them all first.
MutAlwaysClear(w, d, k, n) == [Zero EXCEPT ![k] = n]
Bumped(w, d, k, n) ==
  [(IF localDay[w] = d THEN local[w] ELSE Zero) EXCEPT ![k] = @ + n]

BumpLocal(c, n) ==
  LET w == WorkerOf[c] IN
  /\ local' = [local EXCEPT ![w] = Bumped(w, DateOf(call[c].now), call[c].key, n)]
  /\ localDay' = [localDay EXCEPT ![w] = DateOf(call[c].now)]

\* The send of call c is recorded under both keys, each for the store that let it through.
Record(g, s, d, k) == [g EXCEPT ![s][d][k] = @ + 1]

Grant(c, s) ==
  LET d == DateOf(call[c].now) IN
  granted' = Record(Record(granted, call[c].via, d, call[c].isp), s, d, Total)

\* The comparison of a counter's new value with the cap of the call's warm-up day.
MutCapPlusOne(c, v)  == v <= Cap[call[c].day][call[c].key] + 1
MutTotalBelow(c, v)  == v <= Cap[call[c].day][call[c].key] - (IF call[c].key = Total THEN 1 ELSE 0)
Fits(c, v) == v <= Cap[call[c].day][call[c].key]

\* What follows an increment that store s answered with value v: over the cap the
\* call starts rolling back, under it the total comes after the bucket, then the grant.
Compare(c, v, s) ==
  \/ /\ ~Fits(c, v)
     /\ call' = [call EXCEPT ![c].pc = "undo"]
     /\ UNCHANGED granted
  \/ /\ Fits(c, v)
     /\ call[c].key # Total
     /\ call' = [call EXCEPT ![c].pc = "incr", ![c].key = Total, ![c].via = s]
     /\ UNCHANGED granted
  \/ /\ Fits(c, v)
     /\ call[c].key = Total
     /\ call' = [call EXCEPT ![c] = Idle]
     /\ Grant(c, s)

\* The process counts by itself what Redis would not count.
CountLocally(c) ==
  LET w == WorkerOf[c] IN
  /\ Fault
  /\ BumpLocal(c, 1)
  /\ Compare(c, Bumped(w, DateOf(call[c].now), call[c].key, 1)[call[c].key], w)

\* INCR key; the first increment of a key is followed by EXPIRE.
Increment(c) ==
  LET d == DateOf(call[c].now)
      v == count[d][call[c].key] + 1
  IN  /\ call[c].pc = "incr"
      /\ \/ /\ count' = [count EXCEPT ![d][call[c].key] = v]
            /\ IF v = 1
               THEN call' = [call EXCEPT ![c].pc = "expire"] /\ UNCHANGED granted
               ELSE Compare(c, v, Redis)
            /\ UNCHANGED <<local, localDay, faults>>
         \/ CountLocally(c) /\ UNCHANGED count
      /\ UNCHANGED <<clock, redisStart, startedAt, crashes>>

\* EXPIRE key: rejected, it sends an increment Redis has made to the local counter too.
Expire(c) ==
  /\ call[c].pc = "expire"
  /\ \/ Compare(c, 1, Redis) /\ UNCHANGED <<local, localDay, faults>>
     \/ CountLocally(c)
  /\ UNCHANGED <<clock, redisStart, count, startedAt, crashes>>

\* A refusal by the total rolls the bucket back as well, and then the call is over.
MutKeepBucket(c) == Idle
Rollback(c) == IF call[c].key = Total THEN [call[c] EXCEPT !.key = call[c].isp] ELSE Idle

\* DECR key, the total before the bucket; Redis is tried first, wherever the
\* increment was counted.
Decrement(c) ==
  LET d == DateOf(call[c].now) IN
  /\ call[c].pc = "undo"
  /\ \/ /\ count' = [count EXCEPT ![d][call[c].key] = @ - 1]
        /\ UNCHANGED <<local, localDay, faults>>
     \/ Fault /\ BumpLocal(c, -1) /\ UNCHANGED count
  /\ call' = [call EXCEPT ![c] = Rollback(c)]
  /\ UNCHANGED <<clock, redisStart, startedAt, granted, crashes>>

-----------------------------------------------------------------------------
(* the world around the gate *)

Tick ==
  /\ clock < 2 * MaxDate + 1
  /\ clock' = clock + 1
  /\ UNCHANGED <<redisStart, count, startedAt, local, localDay, call, granted, faults, crashes>>

\* A process dies with its memory; what its calls had counted in Redis stays counted.
Crash(w) ==
  /\ crashes < MaxCrashes
  /\ crashes' = crashes + 1
  /\ startedAt' = [startedAt EXCEPT ![w] = Unset]
  /\ local' = [local EXCEPT ![w] = Zero]
  /\ localDay' = [localDay EXCEPT ![w] = Unset]
  /\ call' = [c \in Calls |-> IF WorkerOf[c] = w THEN Idle ELSE call[c]]
  /\ UNCHANGED <<clock, redisStart, count, granted, faults>>

Step(c) ==
  Reserve(c) \/ SetStart(c) \/ GetStart(c) \/ Increment(c) \/ Expire(c) \/ Decrement(c)

Next ==
  \/ \E c \in Calls : Step(c)
  \/ Tick
  \/ \E w \in Workers : Crash(w)

Spec == Init /\ [][Next]_vars

-----------------------------------------------------------------------------
(* properties *)

PCs == {"idle", "setnx", "get", "incr", "expire", "undo"}

\* Type invariant: the shape of every variable, and nothing else.
TypeOK ==
  /\ clock \in Time
  /\ redisStart \in Time \cup {Unset}
  /\ count \in [Dates -> [Keys -> Int]]
  /\ startedAt \in [Workers -> Time \cup {Unset}]
  /\ local \in [Workers -> [Keys -> Int]]
  /\ localDay \in [Workers -> Dates \cup {Unset}]
  /\ call \in [Calls -> [pc : PCs, now : Time, day : Days, isp : Keys, key : Keys, via : Stores]]
  /\ granted \in [Stores -> [Dates -> [Keys -> Nat]]]
  /\ faults \in 0 .. MaxFaults
  /\ crashes \in 0 .. MaxCrashes

\* A call in state r has incremented key k of date d and not yet rolled it back.
Holds(r, d, k) ==
  /\ DateOf(r.now) = d
  /\ \/ r.key = k /\ r.pc \in {"expire", "undo"}
     \/ r.isp = k /\ r.key = Total /\ r.pc \in {"incr", "expire", "undo"}

\* It holds key k and the cap of that key has let it through, or will.
Through(r, d, k) ==
  /\ Holds(r, d, k)
  /\ \/ r.isp = k /\ r.key = Total /\ r.pc # "undo"
     \/ r.key = k /\ r.pc = "expire" /\ Cap[r.day][k] >= 1

Holders(d, k) == {c \in Calls : Holds(call[c], d, k)}
Passed(d, k)  == {c \in Calls : Through(call[c], d, k)}

\* Concurrent calls never jointly exceed a cap (the header of warmup-gate.ts): on
\* every date, the sends let through under a key stay within the ramp of that date.
CapsHold ==
  \A d \in Dates, k \in Keys : granted[Redis][d][k] <= CapOn(d, k, Start)

\* A refusal consumes nothing: with no call running, and none lost in a crash, a
\* counter holds exactly what was let through.
RefusalsAreFree ==
  crashes = 0 /\ (\A c \in Calls : call[c].pc = "idle") => count = granted[Redis]

\* All processes pace the same ramp: a start a process has resolved is the stored
\* one, so a restart resumes the ramp where it left off.
OneRamp ==
  \A w \in Workers : startedAt[w] \in {Unset, redisStart}

\* Once begun, the ramp never moves.
RampIsFixed == [][redisStart # Unset => redisStart' = redisStart]_vars

Refused(c) == call[c].pc # "undo" /\ call'[c].pc = "undo"

\* A racing call may be refused early, but only by calls it races with: what was
\* let through and what others hold fill the cap it met.
RefusedOnlyWhenFull ==
  [][\A c \in Calls : Refused(c) /\ crashes = 0 =>
       LET d == DateOf(call[c].now)
           k == call[c].key
       IN  granted[Redis][d][k] + Cardinality(Holders(d, k) \ {c}) >= Cap[call[c].day][k]]_vars

\* The aggregate cap is the sum of the buckets' caps, so it stops only a call that
\* is late: one whose own warm-up day allowed some bucket less than was let through.
TotalStopsOnlyLateCalls ==
  [][\A c \in Calls : Refused(c) /\ call[c].key = Total /\ crashes = 0 =>
       LET d == DateOf(call[c].now) IN
       \E i \in Isps :
         granted[Redis][d][i] + Cardinality(Passed(d, i)) > Cap[call[c].day][i]]_vars

\* Every refusal is explained, by the calls it races with or by its own lateness.
RefusalsAreExplained == RefusedOnlyWhenFull /\ TotalStopsOnlyLateCalls

\* The gate implements its promise, a bounded number of sends a date, as long as
\* the shared store answers.
Promise == INSTANCE WarmupCap WITH start <- Start, granted <- granted[Redis]
PromiseKept == Promise!Spec

\* What all processes count for key k, and what was let through, by whatever store.
CountedLocally(k) == SumFunction([w \in Workers |-> local[w][k]])
Sent(d, k)        == SumFunction([s \in Stores |-> granted[s][d][k]])

\* However commands fail and fall back, no send goes uncounted: over all stores, the
\* counters of a date hold at least what was let through and what calls still hold.
\* A crash and a midnight end that: both clear what a process has counted by itself.
EverySendCounted ==
  crashes = 0 /\ DateOf(clock) = 0 =>
    \A k \in Keys :
      count[0][k] + CountedLocally(k) >= Sent(0, k) + Cardinality(Holders(0, k))
=============================================================================
