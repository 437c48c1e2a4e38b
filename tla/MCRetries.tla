------------------------------ MODULE MCRetries ------------------------------
(***************************************************************************)
(* Small instances of what is tried until it is done: webhook deliveries,  *)
(* Stripe's events, the outbox of the web client, the syncs of a mailbox.  *)
(* The four share no state, so a behaviour exercises one of them: part     *)
(* says which.                                                             *)
(***************************************************************************)
EXTENDS WebhookDispatcher, Dunning, OfflineOutbox, MailboxSync, TLC

CONSTANTS e1, e2, s1, s2, i1, i2, h1, h2, m1, m2, t1, f1, f2, y1, y2

VARIABLE part

MCInit ==
  /\ HookInit /\ DunInit /\ OutboxInit /\ SyncInit
  /\ part \in {"webhook", "dunning", "outbox", "mailbox"}
  /\ part # "dunning" => kind = [e \in StripeEvents |-> "paid"]
  /\ part # "mailbox" => provider = "gmail"
  /\ timer = (part = "mailbox")

MCNext ==
  \/ part = "webhook" /\ HookNext /\ UNCHANGED <<dunVars, outboxVars, syncVars, part>>
  \/ part = "dunning" /\ DunNext /\ UNCHANGED <<hookVars, outboxVars, syncVars, part>>
  \/ part = "outbox" /\ OutboxNext /\ UNCHANGED <<hookVars, dunVars, syncVars, part>>
  \/ part = "mailbox" /\ SyncNext /\ UNCHANGED <<hookVars, dunVars, outboxVars, part>>

\* What does not run stays as it began, where nothing fair is enabled: the timer of the
\* sweep is started in its own part only.
MCSpec ==
  /\ MCInit /\ [][MCNext]_<<hookVars, dunVars, outboxVars, syncVars, part>>
  /\ HookFairness /\ DunFairness /\ OutboxFairness /\ SyncFairness
=============================================================================
