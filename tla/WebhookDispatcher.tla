-------------------------- MODULE WebhookDispatcher --------------------------
(***************************************************************************)
(* apps/api/src/lib/webhook-dispatcher.ts and routes/webhooks.ts: the      *)
(* events of one account on their way to one webhook.  processWebhookJob   *)
(* is the body of a slot of the worker; every await of it is a step.       *)
(*                                                                         *)
(* The webhook listens to every event: what the filter of types removes    *)
(* never gets a job.  The records of finished jobs outlive the behaviour,  *)
(* so the id of a job suppresses every later job for the same event.       *)
(***************************************************************************)
EXTENDS Integers, FiniteSets, Functions

CONSTANTS
  Events,          \* events of the account
  Slots,           \* concurrency of the worker
  HookAttempts,    \* MAX_ATTEMPTS
  Threshold,       \* CONSECUTIVE_FAILURE_THRESHOLD
  HookStalls,      \* BullMQ's maxStalledCount
  MaxSwitches,     \* bound on the user's changes of the webhook
  HookMaxFaults    \* bound on rejected commands, lost answers and dead processes

VARIABLES
  hook,            \* webhooks: "on", "off" (isActive) or "deleted"
  rows,            \* webhook_deliveries: rows[t] = success, by createdAt
  clock,           \* the next createdAt
  delivery,        \* delivery[e]: the BullMQ job of event e
  slot,            \* slot[s]: where slot s is in processWebhookJob
  got,             \* got[e]: how often the receiver has accepted e (history)
  missed,          \* events under way while the webhook was not on (history)
  switches,        \* changes made by the user (bounded)
  hookFaults       \* faults so far (bounded)

hookVars == <<hook, rows, clock, delivery, slot, got, missed, switches, hookFaults>>

Nobody == "nobody"
ASSUME SlotAssumption == IsFiniteSet(Slots) /\ Nobody \notin Slots \cup Events
ASSUME HookAssumption ==
  HookAttempts \in Nat \ {0} /\ Threshold \in Nat \ {0} /\ HookStalls \in Nat /\ HookMaxFaults \in Nat

FreeSlot == [pc |-> "free", event |-> Nobody, at |-> 0, ok |-> FALSE]

HookFault == hookFaults < HookMaxFaults /\ hookFaults' = hookFaults + 1

\* Events some job of which may still be delivered.
UnderWay == {e \in Events : delivery[e].st \notin {"new", "done", "failed"}}

HookInit ==
  /\ hook = "on"
  /\ rows = << >>
  /\ clock = 1
  /\ delivery = [e \in Events |-> [st |-> "new", made |-> 0, stalls |-> 0, owner |-> Nobody]]
  /\ slot = [s \in Slots |-> FreeSlot]
  /\ got = [e \in Events |-> 0]
  /\ missed = {}
  /\ switches = 0
  /\ hookFaults = 0

-----------------------------------------------------------------------------
(* producers *)

Move(e, st) == delivery' = [delivery EXCEPT ![e].st = st]

\* enqueueWebhookDelivery: the webhooks that are on are read ...
Select(e) ==
  /\ delivery[e].st = "new"
  /\ Move(e, IF hook = "on" THEN "adding" ELSE "done")
  /\ missed' = IF hook = "on" THEN missed ELSE missed \cup {e}
  /\ UNCHANGED <<hook, rows, clock, slot, got, switches, hookFaults>>

\* POST /:id/test asks only whether the webhook exists.
SelectTest(e) ==
  /\ delivery[e].st = "new"
  /\ hook # "deleted"
  /\ Move(e, "adding")
  /\ missed' = IF hook = "on" THEN missed ELSE missed \cup {e}
  /\ UNCHANGED <<hook, rows, clock, slot, got, switches, hookFaults>>

\* ... and a job is added for each; a rejected command is logged and the event forgotten.
Add(e) ==
  /\ delivery[e].st = "adding"
  /\ \/ Move(e, "waiting") /\ UNCHANGED hookFaults
     \/ Move(e, "failed") /\ HookFault
  /\ UNCHANGED <<hook, rows, clock, slot, got, missed, switches>>

-----------------------------------------------------------------------------
(* the queue (BullMQ) *)

\* A run that returns completes the job, one that throws has it retried.
MutRetryAnyway(s) ==
  LET j == delivery[slot[s].event] IN
  IF j.owner # s THEN j
  ELSE [j EXCEPT !.st = IF j.made + 1 < HookAttempts THEN "delayed" ELSE "failed",
                 !.owner = Nobody, !.made = @ + 1]
Moved(s) ==
  LET j == delivery[slot[s].event] IN
  IF j.owner # s THEN j
  ELSE IF slot[s].ok THEN [j EXCEPT !.st = "done", !.owner = Nobody]
  ELSE [j EXCEPT !.st = IF j.made + 1 < HookAttempts THEN "delayed" ELSE "failed",
                 !.owner = Nobody, !.made = @ + 1]

Take(s, e) ==
  /\ delivery[e].st = "waiting"
  /\ slot[s].pc = "free"
  /\ delivery' = [delivery EXCEPT ![e].st = "active", ![e].owner = s]
  /\ slot' = [slot EXCEPT ![s] = [FreeSlot EXCEPT !.pc = "fetch", !.event = e]]
  /\ UNCHANGED <<hook, rows, clock, got, missed, switches, hookFaults>>

MutNoDelayLeft(e) ==
  /\ delivery[e].st = "delayed" /\ delivery[e].made < 1
  /\ Move(e, "waiting")
  /\ UNCHANGED <<hook, rows, clock, slot, got, missed, switches, hookFaults>>

\* The backoff of a retry is over.
BackoffOver(e) ==
  /\ delivery[e].st = "delayed"
  /\ Move(e, "waiting")
  /\ UNCHANGED <<hook, rows, clock, slot, got, missed, switches, hookFaults>>

\* A job whose process has died is stalled: handed out again, or failed.
FindStalled(e) ==
  LET j == delivery[e] IN
  /\ j.st = "active"
  /\ slot[j.owner].event # e
  /\ delivery' = [delivery EXCEPT ![e] =
       [j EXCEPT !.st = IF j.stalls < HookStalls THEN "waiting" ELSE "failed",
                 !.owner = Nobody, !.stalls = @ + 1]]
  /\ UNCHANGED <<hook, rows, clock, slot, got, missed, switches, hookFaults>>

-----------------------------------------------------------------------------
(* processWebhookJob *)

\* Slot s goes on at label pc; the run ends well when it returns.
Go(s, pc) == slot' = [slot EXCEPT ![s].pc = pc]
Return(s) == slot' = [slot EXCEPT ![s].pc = "end", ![s].ok = TRUE]
Raise(s)  == slot' = [slot EXCEPT ![s].pc = "end", ![s].ok = FALSE]

\* 1-4. A webhook that is off or deleted discards the job.  So does an event without a row: rows
\* of events go with their account only, and the webhook with them, so that a fetch after the
\* deletion ends the run in the same way.
FetchHook(s) ==
  /\ slot[s].pc = "fetch"
  /\ IF hook = "on" THEN Go(s, "post") ELSE Return(s)
  /\ UNCHANGED <<hook, rows, clock, delivery, got, missed, switches, hookFaults>>

\* 5. One POST.  The receiver may accept the event and the answer be lost or late.
Post(s) ==
  LET e == slot[s].event IN
  /\ slot[s].pc = "post"
  /\ \E ok \in BOOLEAN :
       /\ slot' = [slot EXCEPT ![s].pc = "insert", ![s].ok = ok, ![s].at = clock]
       /\ \/ got' = [got EXCEPT ![e] = IF ok THEN @ + 1 ELSE @] /\ UNCHANGED hookFaults
          \/ ~ok /\ HookFault /\ got' = [got EXCEPT ![e] = @ + 1]
  /\ clock' = clock + 1
  /\ UNCHANGED <<hook, rows, delivery, missed, switches>>

\* 6. The delivery is recorded under the time it was made; there is no row for a
\* webhook that has been deleted meanwhile.
Insert(s) ==
  LET row == slot[s] IN
  /\ row.pc = "insert"
  /\ \/ /\ hook # "deleted"
        /\ rows' = [t \in DOMAIN rows \cup {row.at} |-> IF t = row.at THEN row.ok ELSE rows[t]]
        /\ IF row.ok THEN Return(s) ELSE Go(s, "judge")
     \/ /\ hook = "deleted"
        /\ Raise(s)
        /\ UNCHANGED rows
  /\ UNCHANGED <<hook, clock, delivery, got, missed, switches, hookFaults>>

\* 7. The last Threshold deliveries all failed.
MutNewestWins ==
  /\ Cardinality(DOMAIN rows) > Threshold
  /\ \A t \in DOMAIN rows : Cardinality({u \in DOMAIN rows : u > t}) < Threshold => ~rows[t]
AllFailed ==
  /\ Cardinality(DOMAIN rows) >= Threshold
  /\ \A t \in DOMAIN rows : Cardinality({u \in DOMAIN rows : u > t}) < Threshold => ~rows[t]

MutForgetThrow(s) ==
  /\ slot[s].pc = "judge"
  /\ IF AllFailed THEN Go(s, "deactivate") ELSE Return(s)
  /\ UNCHANGED <<hook, rows, clock, delivery, got, missed, switches, hookFaults>>
Judge(s) ==
  /\ slot[s].pc = "judge"
  /\ IF AllFailed THEN Go(s, "deactivate") ELSE Raise(s)
  /\ UNCHANGED <<hook, rows, clock, delivery, got, missed, switches, hookFaults>>

\* What the webhook is once it is set to st: a deleted one stays deleted.
SetHook(st) ==
  /\ hook' = IF hook = "deleted" THEN hook ELSE st
  /\ missed' = IF hook' = "on" THEN missed ELSE missed \cup UnderWay

\* The job is not retried, and the jobs of the other events will be discarded.
Deactivate(s) ==
  /\ slot[s].pc = "deactivate"
  /\ SetHook("off")
  /\ Return(s)
  /\ UNCHANGED <<rows, clock, delivery, got, switches, hookFaults>>

EndRun(s) ==
  /\ slot[s].pc = "end"
  /\ delivery' = [delivery EXCEPT ![slot[s].event] = Moved(s)]
  /\ slot' = [slot EXCEPT ![s] = FreeSlot]
  /\ UNCHANGED <<hook, rows, clock, got, missed, switches, hookFaults>>

\* The database rejects the command of this step.
HookThrow(s) ==
  /\ slot[s].pc \in {"fetch", "insert", "judge", "deactivate"}
  /\ HookFault
  /\ Raise(s)
  /\ UNCHANGED <<hook, rows, clock, delivery, got, missed, switches>>

\* The process of slot s dies.
HookCrash(s) ==
  /\ slot[s].pc # "free"
  /\ HookFault
  /\ slot' = [slot EXCEPT ![s] = FreeSlot]
  /\ UNCHANGED <<hook, rows, clock, delivery, got, missed, switches>>

-----------------------------------------------------------------------------
(* the user *)

\* PATCH /v1/webhooks/:id with another value of active: the record of deliveries stays.
Switch ==
  /\ switches < MaxSwitches
  /\ switches' = switches + 1
  /\ hook # "deleted"
  /\ SetHook(IF hook = "on" THEN "off" ELSE "on")
  /\ UNCHANGED <<rows, clock, delivery, slot, got, hookFaults>>

\* DELETE /v1/webhooks/:id: its deliveries go with it.
DeleteHook ==
  /\ switches < MaxSwitches
  /\ switches' = switches + 1
  /\ hook' = "deleted"
  /\ missed' = missed \cup UnderWay
  /\ rows' = << >>
  /\ UNCHANGED <<clock, delivery, slot, got, hookFaults>>

-----------------------------------------------------------------------------

Process(s) ==
  \/ FetchHook(s) \/ Post(s) \/ Insert(s) \/ Judge(s) \/ Deactivate(s) \/ EndRun(s)

HookNext ==
  \/ \E e \in Events : Select(e) \/ SelectTest(e) \/ Add(e) \/ BackoffOver(e) \/ FindStalled(e)
  \/ \E s \in Slots : (\E e \in Events : Take(s, e)) \/ Process(s) \/ HookThrow(s) \/ HookCrash(s)
  \/ Switch
  \/ DeleteHook

HookSpec == HookInit /\ [][HookNext]_hookVars

\* The worker polls, its runs go on, BullMQ moves delayed and stalled jobs: not one of them
\* is favoured, but as long as one of them can go on, one of them does.
HookFairness ==
  WF_hookVars(\/ \E s \in Slots : Process(s) \/ \E e \in Events : Take(s, e)
              \/ \E e \in Events : BackoffOver(e) \/ FindStalled(e))

-----------------------------------------------------------------------------
(* properties *)

\* Type invariant: the shape of every variable, and nothing else.
HookTypeOK ==
  /\ hook \in {"on", "off", "deleted"}
  /\ DOMAIN rows \subseteq Nat /\ \A t \in DOMAIN rows : rows[t] \in BOOLEAN
  /\ clock \in Nat
  /\ delivery \in [Events -> [st : {"new", "adding", "waiting", "active", "delayed", "failed", "done"},
                              made : 0 .. HookAttempts, stalls : 0 .. (HookStalls + 1),
                              owner : Slots \cup {Nobody}]]
  /\ slot \in [Slots -> [pc : {"free", "fetch", "post", "insert", "judge", "deactivate", "end"},
                         event : Events \cup {Nobody}, at : Nat, ok : BOOLEAN]]
  /\ got \in [Events -> Nat]
  /\ missed \in SUBSET Events
  /\ switches \in Nat
  /\ hookFaults \in 0 .. HookMaxFaults

\* At least once, but not at whim: the receiver sees an accepted event again only when
\* an answer, a row or a process was lost after it had accepted it before.
DuplicateNeedsAReason == \A e \in Events : got[e] <= 1 + hookFaults

\* An event is given up before its attempts are used up only if the webhook was off
\* or gone while the event was under way; otherwise a finished job means it arrived.
GivenUpOnlyWhenOff ==
  \A e \in Events : delivery[e].st = "done" => got[e] > 0 \/ e \in missed

\* An outage is noticed however the rows of concurrent runs fall: with no run under
\* way, a webhook whose last deliveries all failed has been switched off.
AnOutageIsNoticed ==
  (\A s \in Slots : slot[s].pc = "free") /\ AllFailed /\ hookFaults = 0 /\ switches = 0
    => hook = "off"

\* Every event that has a job is settled in the end: no job is retried for ever or
\* left behind by a dead process.
EventsSettle == <>[](\A e \in Events : delivery[e].st \in {"new", "adding", "done", "failed"})
=============================================================================
