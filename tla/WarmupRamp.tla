------------------------------ MODULE WarmupRamp ------------------------------
(***************************************************************************)
(* The ramp an IP warm-up follows, as the gate sees it: the caps of every  *)
(* warm-up day, and how a moment falls on a UTC date and on a warm-up day. *)
(*                                                                         *)
(* Time is counted in half days.  A UTC date is two of them, and so is a   *)
(* warm-up day, but a warm-up day starts where the ramp started: a date    *)
(* may hold the end of one warm-up day and the beginning of the next.      *)
(***************************************************************************)
EXTENDS Integers, FiniteSets, FiniteSetsExt

CONSTANTS
  MaxDate,     \* last UTC date looked at
  Isps,        \* provider buckets: gmail, outlook, yahoo, apple, other
  Cap,         \* Cap[day][key]: the ramp, per bucket and in total
  Configured   \* MTA_WARMUP_STARTED_AT, or Unset

Unset   == -1
Total   == "total"
Keys    == Isps \cup {Total}
Dates   == 0 .. MaxDate
Time    == 0 .. (2 * MaxDate + 1)
Days    == 1 .. (MaxDate + 1)

ASSUME DateAssumption  == MaxDate \in Nat
ASSUME IspAssumption   == IsFiniteSet(Isps) /\ Total \notin Isps
ASSUME CapAssumption   == Cap \in [Days -> [Keys -> Nat]]
ASSUME StartAssumption == Configured \in Time \cup {Unset}
\* The ramp never shrinks: WEEKLY_LIMITS grows from row to row.
ASSUME CapGrows   == \A d, e \in Days : d <= e => \A k \in Keys : Cap[d][k] <= Cap[e][k]
\* totalDaily is computed as the sum of the buckets' caps.
ASSUME TotalIsSum == \A d \in Days : Cap[d][Total] = SumFunction([i \in Isps |-> Cap[d][i]])

\* The counters of a date are kept under its utcDateKey.
DateOf(t) == t \div 2
\* currentDay at time t of a ramp that started at s: 1 before it started.
DayOf(t, s) == IF t < s THEN 1 ELSE (t - s) \div 2 + 1
\* The most that may leave on date d under key k: the cap of the date's last half day.
CapOn(d, k, s) == IF s = Unset THEN 0 ELSE Cap[DayOf(2 * d + 1, s)][k]
=============================================================================
