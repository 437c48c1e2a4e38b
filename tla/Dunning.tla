------------------------------- MODULE Dunning -------------------------------
(***************************************************************************)
(* apps/api/src/lib/billing.ts and the webhook of routes/billing.ts: what  *)
(* Stripe's events and the daily sweep do to the plan of one account that  *)
(* has a subscription.  Stripe delivers an event at least once, in any     *)
(* order, several at a time; every await of a handler is a step.           *)
(***************************************************************************)
EXTENDS Integers, FiniteSets

CONSTANTS
  StripeEvents,    \* events of the account
  Handlers,        \* requests of the webhook in flight at once
  DunMaxFaults     \* bound on rejected commands and dead processes

VARIABLES
  kind,            \* kind[e]: what event e says
  plan,            \* accounts.planTier
  record,          \* dunning_records: state, attempts, planAtRisk, whether the grace is over
  seen,            \* stripe_webhook_events
  handler,         \* handler[h]: where request h is, and what it has read
  sweep,           \* where processExpiredGrace is
  lastInvoice,     \* what the last invoice event that was handled said (history)
  overlap,             \* two handlers, or one and the sweep, have run at once (history)
  dunFaults        \* faults so far (bounded)

dunVars == <<kind, plan, record, seen, handler, sweep, lastInvoice, overlap, dunFaults>>

NoEvent == "no event"
ASSUME HandlerAssumption ==
  /\ IsFiniteSet(StripeEvents) /\ NoEvent \notin StripeEvents /\ IsFiniteSet(Handlers)
  /\ DunMaxFaults \in Nat

\* Two paid plans tell a plan kept from a plan changed.
PaidPlans == {"basic", "pro"}
\* checkout.session.completed and customer.subscription.updated set a plan;
\* invoice.paid and invoice.payment_succeeded are handled alike.
EventKinds == PaidPlans \cup {"deleted", "paid", "failed"}

NoHandler == [pc |-> "idle", event |-> NoEvent, plan |-> "free", state |-> "active", atRisk |-> "free"]
\* planAtRisk is "free" when there is none; no row reads like an active one.
NoRecord == [state |-> "active", attempts |-> 0, atRisk |-> "free", over |-> FALSE]

DunFault == dunFaults < DunMaxFaults /\ dunFaults' = dunFaults + 1

DunInit ==
  /\ kind \in [StripeEvents -> EventKinds]
  /\ plan = "basic"
  /\ record = NoRecord
  /\ seen = {}
  /\ handler = [h \in Handlers |-> NoHandler]
  /\ sweep = "idle"
  /\ lastInvoice = "paid"
  /\ overlap = FALSE
  /\ dunFaults = 0

\* Handler h goes on at label pc, or is done with its event.
At(h, pc) == handler' = [handler EXCEPT ![h].pc = pc]
Done(h) ==
  /\ handler' = [handler EXCEPT ![h] = NoHandler]
  /\ lastInvoice' = IF kind[handler[h].event] \in {"paid", "failed"} THEN kind[handler[h].event] ELSE lastInvoice

-----------------------------------------------------------------------------
(* POST /v1/billing/webhook *)

Deliver(h, e) ==
  /\ handler[h].pc = "idle"
  /\ handler' = [handler EXCEPT ![h] = [NoHandler EXCEPT !.pc = "dedup", !.event = e]]
  /\ overlap' = (overlap \/ sweep # "idle" \/ \E g \in Handlers : handler[g].pc # "idle")
  /\ UNCHANGED <<kind, plan, record, seen, sweep, lastInvoice, dunFaults>>

\* The first step of each branch of handleWebhookEvent.
FirstStep(e) ==
  IF kind[e] \in PaidPlans THEN "setplan" ELSE IF kind[e] = "deleted" THEN "record" ELSE "account"

\* isDuplicateWebhookEvent: an insert that conflicts tells a duplicate; if the insert
\* itself is rejected the event is handled all the same.
MutNoConflict(e) == FALSE
Duplicate(e) == e \in seen

Dedup(h) ==
  LET e == handler[h].event IN
  /\ handler[h].pc = "dedup"
  /\ \/ /\ IF Duplicate(e) THEN handler' = [handler EXCEPT ![h] = NoHandler] ELSE At(h, FirstStep(e))
        /\ seen' = seen \cup {e}
        /\ UNCHANGED dunFaults
     \/ At(h, FirstStep(e)) /\ DunFault /\ UNCHANGED seen
  /\ UNCHANGED <<kind, plan, record, sweep, lastInvoice, overlap>>

\* The plan of the event replaces the plan, whatever the dunning record says.
SetPlan(h) ==
  /\ handler[h].pc = "setplan"
  /\ plan' = kind[handler[h].event]
  /\ Done(h)
  /\ UNCHANGED <<kind, record, seen, sweep, overlap, dunFaults>>

\* findAccountByCustomerId: a failure of a free account is not dunned.
ReadAccount(h) ==
  /\ handler[h].pc = "account"
  /\ IF plan = "free" /\ kind[handler[h].event] = "failed"
     THEN Done(h)
     ELSE /\ handler' = [handler EXCEPT ![h].pc = "record", ![h].plan = plan]
          /\ UNCHANGED lastInvoice
  /\ UNCHANGED <<kind, plan, record, seen, sweep, overlap, dunFaults>>

\* The steps after the record is read, by kind of event.
AfterRecord(h) ==
  LET k == kind[handler[h].event] IN
  IF k = "failed" THEN "open"
  ELSE IF k = "deleted" THEN "free"
  ELSE IF record.state = "downgraded" /\ record.atRisk # "free" /\ handler[h].plan = "free" THEN "restore"
  ELSE "close"

\* getDunningRecord: a payment with nothing outstanding is a normal renewal.
ReadRecord(h) ==
  /\ handler[h].pc = "record"
  /\ IF kind[handler[h].event] = "paid" /\ record.state = "active"
     THEN Done(h)
     ELSE /\ handler' = [handler EXCEPT ![h].pc = AfterRecord(h), ![h].state = record.state,
                                        ![h].atRisk = record.atRisk]
          /\ UNCHANGED lastInvoice
  /\ UNCHANGED <<kind, plan, record, seen, sweep, overlap, dunFaults>>

\* recordPaymentFailure: one more attempt of the cycle, or a cycle and a grace of its own.
OpenCycle(h) ==
  /\ handler[h].pc = "open"
  /\ record' = IF handler[h].state = "past_due" THEN [record EXCEPT !.attempts = @ + 1]
               ELSE [state |-> "past_due", attempts |-> 1, atRisk |-> handler[h].plan, over |-> FALSE]
  /\ Done(h)
  /\ UNCHANGED <<kind, plan, seen, sweep, overlap, dunFaults>>

\* recordPaymentRecovery: the plan that was lost comes back ...
Restore(h) ==
  /\ handler[h].pc = "restore"
  /\ plan' = handler[h].atRisk
  /\ At(h, "close")
  /\ UNCHANGED <<kind, record, seen, sweep, lastInvoice, overlap, dunFaults>>

\* ... and the cycle is closed; a cancelled subscription closes it as downgraded.
CloseCycle(h) ==
  /\ handler[h].pc = "close"
  /\ record' = IF kind[handler[h].event] = "paid" THEN NoRecord
               ELSE [record EXCEPT !.state = "downgraded"]
  /\ Done(h)
  /\ UNCHANGED <<kind, plan, seen, sweep, overlap, dunFaults>>

\* customer.subscription.deleted.
DropPlan(h) ==
  /\ handler[h].pc = "free"
  /\ plan' = "free"
  /\ IF handler[h].state = "past_due" THEN At(h, "close") /\ UNCHANGED lastInvoice ELSE Done(h)
  /\ UNCHANGED <<kind, record, seen, sweep, overlap, dunFaults>>

\* A command is rejected or the process dies: Stripe is not told of success, and will
\* deliver the event again.
Drop500(h) ==
  /\ handler[h].pc # "idle"
  /\ DunFault
  /\ handler' = [handler EXCEPT ![h] = NoHandler]
  /\ UNCHANGED <<kind, plan, record, seen, sweep, lastInvoice, overlap>>

-----------------------------------------------------------------------------
(* processExpiredGrace *)

GraceOver ==
  /\ record.state = "past_due" /\ ~record.over
  /\ record' = [record EXCEPT !.over = TRUE]
  /\ UNCHANGED <<kind, plan, seen, handler, sweep, lastInvoice, overlap, dunFaults>>

\* The sweep selects what is past due ...
MutNotYet == record.state = "past_due" /\ ~record.over
Expired == record.state = "past_due" /\ record.over

SelectExpired ==
  /\ sweep = "idle"
  /\ Expired
  /\ sweep' = "free"
  /\ overlap' = (overlap \/ \E h \in Handlers : handler[h].pc # "idle")
  /\ UNCHANGED <<kind, plan, record, seen, handler, lastInvoice, dunFaults>>

\* ... and downgrades it: first the plan, then the record.
SweepPlan ==
  /\ sweep = "free"
  /\ plan' = "free"
  /\ sweep' = "downgrade"
  /\ UNCHANGED <<kind, record, seen, handler, lastInvoice, overlap, dunFaults>>

MutForgetPlan == [record EXCEPT !.state = "downgraded", !.atRisk = "free"]
Downgraded == [record EXCEPT !.state = "downgraded"]

SweepRecord ==
  /\ sweep = "downgrade"
  /\ record' = Downgraded
  /\ sweep' = "idle"
  /\ UNCHANGED <<kind, plan, seen, handler, lastInvoice, overlap, dunFaults>>

\* A command of the sweep is rejected: the next sweep starts over.
SweepFails ==
  /\ sweep # "idle"
  /\ DunFault
  /\ sweep' = "idle"
  /\ UNCHANGED <<kind, plan, record, seen, handler, lastInvoice, overlap>>

-----------------------------------------------------------------------------

Handle(h) ==
  \/ Dedup(h) \/ SetPlan(h) \/ ReadAccount(h) \/ ReadRecord(h) \/ OpenCycle(h)
  \/ Restore(h) \/ CloseCycle(h) \/ DropPlan(h)

Sweep == SelectExpired \/ SweepPlan \/ SweepRecord

DunNext ==
  \/ \E h \in Handlers : (\E e \in StripeEvents : Deliver(h, e)) \/ Handle(h) \/ Drop500(h)
  \/ GraceOver
  \/ Sweep
  \/ SweepFails

DunSpec == DunInit /\ [][DunNext]_dunVars

\* The sweep runs on a timer of the API process, and time passes.
DunFairness == WF_dunVars(Sweep) /\ WF_dunVars(GraceOver)

-----------------------------------------------------------------------------
(* properties *)

\* Type invariant: the shape of every variable, and nothing else.
DunTypeOK ==
  /\ kind \in [StripeEvents -> EventKinds]
  /\ plan \in PaidPlans \cup {"free"}
  /\ record \in [state : {"active", "past_due", "downgraded"}, attempts : Nat,
                 atRisk : PaidPlans \cup {"free"}, over : BOOLEAN]
  /\ seen \in SUBSET StripeEvents
  /\ handler \in [Handlers -> [pc : {"idle", "dedup", "setplan", "account", "record", "open",
                                     "restore", "close", "free"},
                               event : StripeEvents \cup {NoEvent}, plan : PaidPlans \cup {"free"},
                               state : {"active", "past_due", "downgraded"},
                               atRisk : PaidPlans \cup {"free"}]]
  /\ sweep \in {"idle", "free", "downgrade"}
  /\ lastInvoice \in {"paid", "failed"}
  /\ overlap \in BOOLEAN
  /\ dunFaults \in 0 .. DunMaxFaults

\* A failure that is delivered again, even while its first delivery is being handled,
\* does not count as another failed attempt.
AttemptsAreReal ==
  dunFaults = 0 => record.attempts <= Cardinality({e \in seen : kind[e] = "failed"})

\* A customer who has paid is not left on the free plan: once the last invoice that was
\* handled was paid, and as long as no two handlers overlap, the plan is a paid one.
PaidUpIsNotFree ==
  /\ lastInvoice = "paid" /\ ~overlap /\ dunFaults = 0
  /\ \A h \in Handlers : handler[h].pc = "idle"
  /\ \A e \in seen : kind[e] # "deleted"
  => plan # "free"

\* A grace window that is over ends: the account recovers or is downgraded.
GraceEnds == record.state = "past_due" /\ record.over ~> record.state # "past_due"
=============================================================================
