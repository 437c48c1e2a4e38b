# AlecRae mail: TLA+ models, checks and proofs

AlecRae is a mail platform: an HTTP API, a BullMQ queue in Redis, a worker that delivers mail
(the MTA), a Postgres database, and a family of services and front ends around them. This
directory models the parts in which several actors change one state: the path of an outbound
email from the request (or an agent's draft) to its recipients, and around it the sessions,
payments, webhooks, mailboxes and documents that are shared with someone outside.

- TLC checks each model on a small instance: passing runs for what holds, and for each
  disagreement between the code and its own words that was worth a run, a run that shows it.
- TLAPS proves the safety properties that matter most for every value of the constants.
- `PROJECT.json` maps every definition to the lines it stands for and every property to a mutated
  definition that breaks it, and lists the hazards of the code at their lines.

Run a check with `tlc -config MtaWorker.cfg MCMtaWorker.tla`, and a proof with
`tlapm DeliveryProofs.tla`.

## 1. Inventory

### Parts that share state

| Part | State | Operations | Talks to |
|---|---|---|---|
| Admission of a send, `apps/api/src/middleware/idempotency.ts`, `lib/quota.ts` | cached answers, monthly counters | look up, check, count after the answer | Redis |
| Domain warm-up, `services/reputation/src/warmup/orchestrator.ts` | sessions of a sending domain, sent today | check, count, advance, reset, pause, resume, adjust | database |
| Agent drafts, `apps/api/src/routes/agent.ts`, `lib/agent-send.ts` | rows `agent_drafts` | approve one, some, all; reject, edit; save and enqueue | database, queue |
| Send endpoint, `apps/api/src/routes/messages.ts` | rows `emails`, `delivery_results` | save the email, save its rows, add the job, register the undo window | database, queue, undo map |
| Undo and schedule, `apps/api/src/routes/snooze.ts` | map `undoableEmails` in memory, marker in the row | undo, schedule, cancel, expiry | queue (`job.remove`), database |
| Queue (BullMQ, external) | lists of jobs, locks, attempts, stalled counts | claim, delay, retry, stall, fail | API, worker, DLQ processor, webhooks |
| Worker, `services/mta/src/worker.ts` with `delivery/routing.ts` | locals of `processJob`; rows `emails`, `delivery_results`, `suppression_lists` | sign, hold, drop, pace, relay, deliver, suppress, settle | queue, database, gate, throttle, SMTP |
| Warm-up gate, `services/mta/src/delivery/warmup-gate.ts` | counters and start of the ramp in Redis; per-process fallback | `reserve()` | Redis, worker |
| Throttle, `services/mta/src/delivery/optimizer.ts` | counters of hour and day, connection slots, in memory | check, acquire, count, release, reset | worker, two timers |
| DLQ processor, `apps/api/src/lib/dlq-processor.ts` | `dlqStore` in memory, table `dlq_records` | a pass each 15 minutes: retry, mark, remove; clear | queue, database |
| Webhook dispatcher, `apps/api/src/lib/webhook-dispatcher.ts` | deliveries, `isActive` | deliver with retries, deactivate after five failures | queue, database, customers |
| Refresh tokens, `apps/api/src/lib/jwt.ts`; `apps/web/lib/auth-token.ts` | `refresh_tokens`; the token tabs share | issue, rotate, notice reuse, revoke | database, browser |
| Billing, `apps/api/src/lib/billing.ts` | plan, dunning record, seen events | failure, recovery, grace sweep, webhooks | Stripe, database |
| Mailbox sync, `apps/api/src/lib/mailbox-sync-worker.ts`, `sync/engine.ts` | cursor, status, backoff, stored messages | sweep, manual sync, incremental, full | Gmail, Outlook, database, Redis |
| Collaboration, `services/collab/src/room-manager.ts`, `persistence.ts` | rooms in memory, `draft_snapshots` | join, edit, leave, kick, close, save | WebSockets, database |
| Outbox of the web client, `apps/web/lib/sync-engine.ts` | outbox in IndexedDB | compose, queue, flush, sync | API, browser |
| Other writers of the suppression list: `services/inbound/src/dsn-suppression.ts`, complaints, unsubscriptions, the user, other emails | `suppression_lists` | put an address on the list, take it off | worker, through the database |
| AI circuit breaker, sentinel cache | windows and entries in memory | check and record | none |

Everything else (IMAP and JMAP surfaces, DNS and DKIM/SPF/DMARC, AI engine, analytics, support,
security scans, shared packages, front ends: most of the repository's lines) is parsing, scoring,
cryptography, wire protocol or user interface, with no state that several actors change.
`PROJECT.json` lists each with the reason.

### What is hard, and what makes each part correct

- **Gate.** Increment, compare, roll back: three awaits, in any number of processes, over
  midnight, with Redis failing between them. Correct when the caps hold however calls race, when
  a refusal consumes nothing and is explained by others, and when all processes pace one ramp.
- **Worker.** A process may die between a delivery and the row that records it; a job whose lock
  lapses is run a second time while the first run goes on; a retry replays the whole plan. Correct when
  no email is forgotten, copies are bounded by the times the job was handed out, rows and status tell
  the truth, and an address that is suppressed, by whomever and whenever, gets no more than the copy of
  the run that had read the list before.
- **Pipeline.** API and worker share only queue and database, and the undo entry lives in memory.
  Undo requests overlap each other, fail halfway and are repeated.
  Correct when an accepted email reaches an end, an undo is refused only when it is late, and an email
  undone is not sent.
- **Dead letters.** Memory written through without order, several processes, restarts. Correct when an
  email that was not sent keeps a job, and is not in the queue twice.
- **Admission, domain warm-up, throttle.** A check, an await, a count: correct when a limit is
  exceeded by what was between the two and by nothing else, and a repeated key sends once.
- **Agent drafts.** The status is read and written in two statements. Correct when a draft becomes what
  the user decided, once.
- **Webhooks.** Correct when each event settles, is repeated for a reason only, and an outage is
  noticed although five deliveries at once write the rows it is judged by.
- **Tokens.** Correct when a family has one line but where two rotations race, and a session that does
  not race stays alive.
- **Billing.** Events come repeatedly, in any order and several at a time, and a sweep reads before it
  writes. Correct when one that paid keeps the plan and a grace window ends.
- **Mailbox sync.** A sweep and a manual sync overlap and each writes its cursor. Correct when the
  cursor never passes what was not applied, and the copy catches up.
- **Rooms.** Load, join, save and leave interleave at every await. Correct when no edit is lost and the
  newest snapshot has them all.
- **Outbox.** Several tabs, several triggers, answers that are lost. Correct when queued mail is kept
  until it is sent, and sent again for a reason only.

## 2. Modules

| Module | Models or proves |
|---|---|
| `WarmupRamp`, `WarmupCap` | dates, ramp days, caps; what the gate promises: one start, sends within the caps of each date |
| `WarmupGate` | `warmup-gate.ts`, one action an await |
| `WarmupGateProofs` | types, the ramp, the caps, refusals, `WarmupGate` implements `WarmupCap` |
| `MtaWorker` | `processJob` and the BullMQ job it runs |
| `SendPipeline` | the endpoints, composed with `MtaWorker` over queue and database |
| `DlqProcessor` | the DLQ processor over the failed jobs of one email |
| `SendAdmission` | key, quota, gate and counter around one send |
| `DomainWarmup` | the warm-up sessions of one sending domain |
| `AgentSend` | the drafts of one agent run |
| `DomainThrottle` | the throttle and the connection slots of one recipient domain |
| `Dunning` | Stripe's events, the sweep, plan and dunning record of one account |
| `WebhookDispatcher` | events on their way to one webhook |
| `RefreshTokens`, `SessionTabs` | the tokens of one user; the tabs of a browser that share one, composed with them |
| `CollabRooms` | the rooms of one draft and their snapshots |
| `OfflineOutbox` | the outbox, its tabs and flushes |
| `MailboxSync` | one mailbox and its syncs |
| `DeliveryProofs` | `MtaWorker`: bounded copies, true rows and status, no job missing, suppression; `SendPipeline`: the same of the worker inside it, and what undo and an answer promise |
| `SweepProofs` | `DlqProcessor`: nothing lost, one retry at a time, failures stay; `Dunning`: attempts, the plan of one that paid |
| `AdmissionProofs` | `SendAdmission`: one email a key, a bounded overshoot; `DomainWarmup`: a session is found, a bounded overshoot; `DomainThrottle`: slots and limits |
| `DraftProofs` | `AgentSend`: decisions are carried out |
| `ClientProofs` | `MailboxSync`: the cursor is honest; `SessionTabs` with `RefreshTokens`: lines of a family, a session that lives; `CollabRooms`: no edit lost, the newest snapshot has all; the instance `MCClients` |
| `RetryProofs` | `OfflineOutbox`: nothing lost, no copy without an excuse; `WebhookDispatcher`: no idle duplicate, nothing given up silently, outages noticed |
| `ApiProofs` | the instance `MCApi`: each of its behaviours is one of every component |
| `MCWarmupGate`, `MCMtaWorker`, `MCSendPipeline`, `MCDlqProcessor` | instances of one module each |
| `MCApi`, `MCClients`, `MCRetries` | instances of several modules that share no state: the variable `part` says which of them a behaviour exercises, so that one search covers them side by side, as a sum and not a product |

Names starting with `Mut` are mutated definitions: no action uses them. Each shows, in place of
the definition below it, that some property notices the mistake. Variables described as history
(`granted`, `sent`, `told`, `stale`, `crowd`, `meetings`, `excused`, `missed`, `skipped`, `accepted`...) are read by
properties and by no guard.

### The path of an email

- **`WarmupGate`.** `call[c]` is what one `reserve()` has captured and where it is: `Reserve`, `SetStart` and
  `GetStart` (`SET NX` and `GET` of `warmupStartedAt`), `Increment`, `Expire`, `Decrement`. `count[d][k]` are the
  Redis counters, `local` and `localDay` the fallback of a process, `startedAt` its cached start. A rejected command
  has had no effect; that ioredis, with `maxRetriesPerRequest: null`, sends a command again whose answer was lost, and
  so may count or roll back twice, is not modelled. Time is counted in half days, so a ramp can start at noon and a
  ramp day span midnight. `Expire` matters because Redis may reject it after the increment has taken effect.
- **`MtaWorker`.** `run[w]` is a job slot: its place in `processJob` and its locals. `Claim`, `Due`, `Stall` and
  `Ended` are BullMQ's part. One action a stage: `MarkProcessing`, `Sign`, `Hold` and `Release`, `Plan`, `Drop`,
  `Pace`, `Relay` and `Relayed`, `Deliver`, `RecordVerdict`, `Suppress`, `Finish`, then `End`. `Throw` is a rejected
  command at any stage, `Crash` a dead process. `sent[r]` counts copies at the event and not at the row. The
  suppression list is read in `Plan` and written by the run's own `Suppress`; `List` and `Unlist` are everybody else,
  between any two steps of a run. `stale[r]` counts the copies `r` got while on the list.
- **`SendPipeline`** extends it; the worker's actions leave the API's variables alone. `InsertEmail`, `InsertRows`,
  `Enqueue`, `RegisterUndoable` are the awaits of the endpoint, `MarkUndoable` the write nobody waits for. An undo is
  `AskUndo`, which looks at the map and uses up its entry, `Reconcile`, which looks for the marker when there is no
  entry, and `RevertToDraft`; `RemoveJob` is its `job.remove()`, which runs on after the answer. Undo requests
  overlap, and the database may reject each of their commands (`FailUndo`). The select of the metadata before the
  update of `RevertToDraft` decides nothing and is part of it. `Restart` loses the map.
- **`DlqProcessor`.** Job `k + 1` is the retry of job `k`: `queue` is the lineage of one email. `store[p]` is
  `dlqStore`, `table` the table, `writes` the writes under way, applied in any order or lost. A pass is `Hydrate`,
  `Fetch`, then `Examine`, `AddRetry`, `RemoveFailed` for each job.
- **`SendAdmission`.** `Replay`, `CheckQuota`, `Gate`, `Save`, `EnqueueJob` and `Keep` are the awaits of the request; `Count` is the
  increment behind the answer's back, `owed` those on their way. A message is what the client wants sent once; it may repeat
  the request at any time. `crowd[m]` is the most requests of a message that were past the look-up at once.
- **`DomainWarmup`.** `LookActive` and `LookPaused` (the two selects of `getActiveSession`), `Create`, both again,
  `RefuseWrong`, `Reset`, `Advance`, `Compare` are the awaits of `ensureWarmupAndCheck`; the insert of `Create` loses
  a race or is rejected for any other reason, and the code goes on alike. `Record` and `CountSend` are those of
  `recordSend`. `order` is a call of a user or a monitor, with the row it has read; these come one at a time, while
  any number of requests look, so their first look is one step, of which no request changes what it sees.
- **`AgentSend`.** `ask[q]` is one request with what it has read: `ReadDraft` or, for the whole run, `ReadRun`;
  `Decide` writes by id alone; `ReadAgain` is the second select that only the single approval makes, so the others
  send the body they read first; `PassGate`, `SaveLetter`, `AddLetter`, `NoteSent` are `enqueueAgentDraftForSend`.
  `meetings[d]` counts how often a request took up `d` while another had it in hand.
- **`DomainThrottle`.** `TryHost` is selection, check and reservation, between which nothing awaits; `HostAnswers` is the
  end of the transport, with counters and slot. `EachHour` and `EachDay` are the timers of `worker.ts`, `Pass` the clock, whose tick
  is the least interval between two sends.

### What surrounds it

- **`Dunning`.** `handler[h]` is one request of the Stripe webhook: `Dedup`, then for each kind of event its updates in
  the code's order; `SelectExpired`, `SweepPlan`, `SweepRecord` are the daily sweep, which works from rows it has read.
- **`WebhookDispatcher`.** `slot[s]` is one of the five deliveries at once: `FetchHook`, `Post`, `Insert`, `Judge`,
  `Deactivate`, `EndRun`. `Switch` and `DeleteHook` are the user. The id of a job suppresses later jobs for the same
  event. The return for an event without a row has no step of its own: rows of events go with the account, and its
  webhooks with it, so such a run ends as one whose webhook is deleted.
- **`RefreshTokens`** is `rotateRefreshToken` await by await; **`SessionTabs`** gives the requests to tabs that share one
  stored token, each with a single flight of its own.
- **`CollabRooms`.** Connecting is `Connect`, `Join` or `CreateRoom` (an await between them); `Flush`,
  `InsertSnapshot` and `EndSave` are a save; `RemoveClient`, `Kick`, `CloseRoom`, `RestartCollab` the ends. A document
  is the set of edits merged into it.
- **`OfflineOutbox`.** `Compose` to `Queue` is the compose page; `StartFlush`, `SyncNow`, `FetchNew`, `ReadOutbox`,
  `SendNext`, `Accept`, `Fail`, `Remove` are flushes, of which a tab may have several.
- **`MailboxSync`.** The mailbox is the log of its changes and a cursor a place in it. `SweepSelect` and `SyncByHand`
  start a sync, `CheckPause`, `FetchPage`, `FirstPage`, `Apply`, `ApplyFails`, `EndPage`, `RequestRefused`,
  `RecordLimit`, `Persist` are its steps.

### Data that is abstracted

- One email, one job, one sending domain in `MtaWorker`; `email.to` is a set. Loops that only write rows
  are one step; loops that talk to others take one step an await. Gate, MX lookup, throttle and SMTP dialogue are one
  event of `DirectEvents`, of which `DirectVerdict` says what `deliverMessage` makes.
- Telemetry, usage counters, delivery events and emails about events are left out; nothing here reads them.
- The page of 101 failed jobs of a DLQ pass never fills; a lineage has at most `MaxRetries` retries.
- Suppression, compliance, spam and anomaly checks before a send are one refusal.
- One account, one webhook that listens to everything, one user's tokens, one draft's rooms, one mailbox.
- Refreshing a provider's access token is part
  of the request it is for. The merge of documents is Yjs's and taken as union.

## 3. Runs

| Run | States | Shows |
|---|---|---|
| `warmup_race` | 71 thousand | Three racing calls on two dates of a ramp that began at noon: caps hold, refusals are free, and a refusal is explained by calls that hold a place |
| `warmup_start` | 607 thousand | Two processes resolving the start, one crash: one ramp, and the gate implements `WarmupCap` |
| `warmup_faults` | 325 thousand | Redis rejects up to two commands: every send let through is counted somewhere |
| `worker` | 2.6 million | Two recipients, two attempts, two runs at once, overflow relay, a domain that changes, one fault, a suppression list others write: mail at rest has a job, status agrees with rows, copies are bounded, delivered rows are true, who is put on the list gets one copy more at most |
| `worker_held` | violated | A message held for its DKIM key is not retryable |
| `send_api` | 554 thousand | All endpoints with the worker, undo requests that overlap, fail and are repeated: refusal of an undo is justified, accepted mail ends |
| `send_undo` | violated | An undone email is sent |
| `api` | 1.0 million | A key sends once for each request past the cache at once and no more, the quota and the warm-up limit are exceeded by what is in flight only; a request is refused for want of a session for the reasons in the property only; an agent's drafts are sent as decided, and again only where requests met; slots and pace of a domain hold; dead letters keep a job; an account that paid keeps its plan |
| `api_message_id` | violated | A request repeated with the same `message_id` sends the email again |
| `dlq_retries` | violated | The retry of a dead letter is itself retried |
| `clients` | 2.6 million | Token lines are accounted for and a session that does not race stays alive; edits are kept and the newest snapshot is complete; a mailbox cursor is honest |
| `retries` | 291 thousand | Webhook events settle, are repeated for a reason and given up only with the webhook off, an outage is noticed; grace windows end; queued mail is kept, leaves, and is copied for a reason only; the copy of a mailbox catches up |

### Bounds, and why they are enough

- **Gate: three calls, two processes, two buckets, caps of 1 and 2, two dates.** Two calls race for one place, the
  third sees a cap filled by a call about to roll back; the big bucket doubles on the second day. The
  ramp and the caps are proved for any number of each.
- **Worker: two recipients, two slots, `MaxAttempts` 2 (8 in the code), one stall, one lapse, one fault.** A first
  and a last attempt differ, recipients may fare differently, two runs overlap. The suppression list changes once
  (`MaxListings`), at any moment, when somebody is on it from the start; a list that is empty then has had its change
  (`MCInit`). Copies, rows and what the list achieves are proved for any of them.
- **`send_api`: one recipient, one slot, two undo requests at once, two calls, one restart, one fault.** Two undos
  meet in every order, or one fails and is repeated. Here the list stays as it is. The order of API and worker is the
  question; the worker's own interleavings are the run `worker`'s.
- **Dead letters: one process, two retries, one restart, one fault, one clear.** `OneRetryAtATime` is claimed
  of one process that does not restart; `NothingLost` is proved for any number of processes and restarts.
- **Admission: two requests at once, five in all, a quota of 2, one fault; one message has its key in a header,
  one in its body.** The quota is reached, crossed by a second request in flight, and tried again.
- **Domain warm-up: two sends over one midnight, two sessions; three requests and one call of a user, or two and
  two.** A reset that is decided before midnight meets a count after it; the loser of the race to create reads the
  winner's row.
- **Agent drafts: two drafts, two requests at once, three in all, one fault.** A selection and a run have two drafts to
  go through while another request decides on one of them; the third request finds what the first two left.
- **Throttle: two deliveries, two hosts of one slot, limits of 1 an hour and 2 a day, two hours a day, a timer that fires
  in the middle of one.** Both limits are reached and both resets happen, before and after a throttle ends.
- **Billing: three events, two handlers, one fault.** A failure, a payment and a third event of every kind, in
  every order, two at once. Events are interchangeable, so one order of their kinds is enough at the start.
- **Webhooks: two events and slots, two attempts (5 in the code), a threshold of 2 (5), one stall, one switch, one fault.** The
  threshold is reached by two runs at once, which is the case in question.
- **Sessions: two tabs and a foreign request, three tokens, one upset.** The third token is the second of a split family.
- **Rooms: two sockets that may connect three times, two rooms, two saves, one kick or close, one fault.**
- **Outbox: two mails, one tab, two flushes, two changes of the connection, one sync asked for, one mishap.** Flushes of one
  tab overlap as those of two tabs would; the proofs are about any number of tabs.
- **Mailbox: two syncs, three changes (two in `retries`), pages of one, one fault, both providers.** A page boundary lies between
  any two changes. The honesty of the cursor is proved for all of them.

Symmetry is used in safety runs only, over values a module does not tell apart: requests, sends, tabs, sockets,
syncs, handlers, calls, recipients. `CHECK_DEADLOCK FALSE` stands where everything ends; the gate's runs
check deadlock.

### Fairness

- `FairPipelineSpec` (`AcceptedIsCarriedOut`): a request of the API under way is carried on, and the workers go on
  when they can, the end of a job's delay being one of their steps. Both weak. A run's steps do not cycle, since attempts,
  stalls and faults are bounded, so weak fairness of the whole worker is enough.
- `HookFairness` (`EventsSettle`): one weak fairness of all steps of BullMQ and the slots together. That is
  enough because the steps are finitely many.
- `OutboxFairness` (`FlushedMailLeaves`): the same, of the flushes and the compose page. Not of the browser's
  connection, the user or the tabs.
- `DunFairness` (`GraceEnds`): the daily timer runs its sweep to the end, and a grace window runs out.
  Not of Stripe.
- `SyncFairness` (`CopyCatchesUp`): the timer of the sweep fires, each sync goes on, a pause ends. The property asks that
  the timer was started (`timer`).

All are weak, and of what Node, BullMQ and timers do: the continuation of an await that has settled runs, a delayed job whose
time has come is promoted, an idle slot claims a waiting job, an interval fires. Nothing is assumed of users, providers,
restarts or faults: those may or may not happen.

## 4. What the code does and its text does not say

Four runs end in a violation, each of a statement the repository makes:

1. **`worker_held`** (`worker.ts:418`). The hold returns normally, so BullMQ removes the job, and no code adds
   another; `worker.ts:395-397` calls the message retryable.
2. **`send_undo`** (`snooze.ts:318`). The answer does not wait for `job.remove()`, which does not remove an active
   job, and the worker never looks at the status; `snooze.ts:344` says the send was cancelled.
3. **`dlq_retries`** (`dlq-processor.ts:203`). The retry has its own id, for which no marker exists; it is retried
   like an original, while `dlq-processor.ts:7-8` says once.
4. **`api_message_id`** (`messages.ts:358`). The header is set after the middleware that reads it has run;
   `messages.ts:355-357` says the middleware then catches replays.

The models show these too; each is the reason for a condition in a property that otherwise holds:

- `warmup-gate.ts:283`: `decrement` tries Redis first, also when the increment was counted by the process. The shared counter
  falls below what was let through, and calls then jointly exceed a cap that lines 24-29 say they never can. So the
  caps are claimed for a Redis that answers, and `EverySendCounted` for any.
- `worker.ts:466`: a retry plans all recipients again, those delivered included, and overwrites their rows. So
  `DeliveredIsTrue` says that a delivered row is true, not that it stays.
- `orchestrator.ts:898`: the daily reset is decided on a row read before, and wipes counts made since (`lost`). The unique
  index is on domain and status (`packages/db/src/schema/warmup.ts:122`): a domain may have an active session and a
  paused one, and a second cancellation fails.
- `orchestrator.ts:461` takes every rejection of the insert for a lost race, and the look-up after it is two selects
  (`orchestrator.ts:790-813`). A request is refused with "something is deeply wrong" when the insert failed for another reason, when
  the session was closed meanwhile, and when it was paused before the first select and resumed before the second, although
  it is there. `SessionIsEstablished` says that there is no further case.
- `worker.ts:423`: a run goes by the list it has read, whoever writes it meanwhile. So `StaleListMailsOnce` allows one copy
  more, and one for each run whose lock lapsed; a retry reads the list again and sends none.
- `snooze.ts:295`: an undo uses up the entry before the database has answered. If that fails, or while it is under way, another
  undo goes by the marker, which may not be written yet, and is told that it is too late within the window. `RefusedUndoIsLate`
  allows these, and nothing else.
- `idempotency.ts:86`: two requests with one key that are past the cache at once both send. `OneJobPerKey` bounds the
  emails by the most that were past it at once, so nobody who comes later sends.
- `agent.ts:679`: an approval, a rejection and an edit read the status and write by id. A draft may be approved while its
  rejection is answered with "It will not be sent." (`agent.ts:818`); an edit that lands after an approval reopens the
  draft, and a second email may follow. So `DraftsAreSettled` allows one email more for each such meeting (`meetings`), and says
  what an email is and whether it may exist of drafts without one.
- `agent-send.ts:227`: when the command after the insert fails, the draft is approved, the email queued, and neither can be
  sent: the approval is refused from then on, and there is no job. So `NothingIsHalfSent` is about runs without faults.
- `optimizer.ts:485` compares `connectionsActive`, which nothing raises; the slots of the hosts are the only limit. The daily
  reset clears the hourly counter too (line 671), so an hour that spans midnight may see twice its limit; the
  hourly reset leaves a running throttle in place although its counter is fresh.
- `jwt.ts:392`: a failure between mark and insert ends the session, so that reuse is never missed.
  `auth-token.ts:60`: two tabs that refresh at once look like theft, and end the session of both. So `StoredTokenIsLive` is about
  clients that do not race (`raced`).
- `routes/billing.ts:237`: an event is recorded before it is handled, so one whose handling fails is skipped when redelivered.
  `billing.ts:213`: failure and recovery read, then write; two at once may leave plan and record apart, and the sweep (384)
  downgrades an account that has paid since. So `PaidUpIsNotFree` is about handlers that do not overlap (`overlap`).
- `webhook-dispatcher.ts:163`: a repeated event is recognised only while BullMQ keeps the finished job.
- `collab/src/server.ts:279` says "flush all rooms"; the shutdown flushes none, so edits since the last save are lost.
  Two rooms for one draft (`room-manager.ts:79`) last until one of them empties, and edits of either may be lost
  (`mixed`). Two saves that overlap give two rows one version (`persistence.ts:136`), and which is loaded is open
  (`tied`). `EditsAreKept` and `NewestIsComplete` exclude these.
- `apps/web/lib/sync-engine.ts:197`: flushes that overlap send what both have read. Each such copy is counted as
  excused in `CopiesAreExcused`.
- `sync/engine.ts:299`: the list of Gmail's history has pages and `nextPageToken` is not read, while the cursor goes to the
  newest `historyId`: what was on later pages is passed over (`skipped`). A full sync reads the cursor
  after the list and passes over messages that failed. A message that is deleted before its arrival was fetched
  fails every incremental sync, and the cursor stands still until the history expires (`Blocked`).
- `provider-backoff.ts:115`: a backoff kept in memory while Redis failed is not consulted once Redis answers; the manual sync
  (`connect.ts:374`) consults none; an Outlook delta link that has expired has no fallback.
- `mailbox-sync-worker.ts:12-13` lists refreshed tokens among what is no longer thrown away; the refreshed access token of
  Gmail still is.

Seen while reading, and not part of a model (paths under `services/mta/src` unless they say otherwise):

- `delivery/warmup-gate.ts:296` clears the process counters when a call that captured yesterday's date comes after midnight;
  271-274 says every process keeps enforcing the caps from its counters.
- `worker.ts:715` says "hard bounce", but a failed MX lookup (`delivery/optimizer.ts:216`) also bounces and so suppresses.
- `delivery/optimizer.ts:296` defers a 5xx, because the transport throws for it; `worker.ts:291-292` says a
  permanent failure returns normally.
- `delivery/routing.ts:182`: a permanent failure of the overflow relay bounces the recipient; compare
  `docs/infra/mta-box-setup.md:39`.
- `apps/api/src/routes/snooze.ts`: an undo after a restart leaves the job (307-309), deleting a schedule leaves it (275), and
  scheduling a draft adds none (251).
- `delivery/warmup.ts:20` says "Never exceed 2x previous day", while the table goes from 100 to 250 for Gmail; the comment
  at 142 and the growth at 176 also differ.
- The DNS resolver reports a domain without MX records as an error, so the implicit-MX fallback of the
  optimizer is not reached.

## 5. Theorems

| Theorem | Property | Assumes beside the constants' types |
|---|---|---|
| `WarmupGateProofs!TypeCorrect` | `TypeOK` | nothing |
| `WarmupGateProofs!RampNeverMoves` | `RampIsFixed` | nothing |
| `WarmupGateProofs!OneRampForAll` | `OneRamp` | `MaxFaults = 0` |
| `WarmupGateProofs!CapsAlwaysHold` | `CapsHold` | `MaxFaults = 0` |
| `WarmupGateProofs!RefusalsCostNothing` | `RefusalsAreFree` | `MaxFaults = 0` |
| `WarmupGateProofs!EveryRefusalIsExplained` | `RefusalsAreExplained` | `MaxFaults = 0` |
| `WarmupGateProofs!SendsAreCounted` | `EverySendCounted` | nothing |
| `WarmupGateProofs!GateKeepsPromise` | `PromiseKept` | `MaxFaults = 0` |
| `DeliveryProofs!TypeCorrect` | `TypeOK` | nothing |
| `DeliveryProofs!CopiesAreBounded` | `OneCopyPerAttempt` | nothing |
| `DeliveryProofs!RowsAreTrue` | `DeliveredIsTrue` | nothing |
| `DeliveryProofs!NoMailIsForgotten` | `RestingMailHasAJob` | nothing |
| `DeliveryProofs!StatusIsWhatRowsSay` | `StatusMatchesRows` | nothing |
| `DeliveryProofs!ListedGetOneCopyMore` | `StaleListMailsOnce` | `DomainIsKnown` |
| `DeliveryProofs!TooLateIsHonest` | `RefusedUndoIsLate` | nothing |
| `DeliveryProofs!PipelineCopiesAreBounded` | `OneCopyPerAttempt` | nothing |
| `DeliveryProofs!PipelineRowsAreTrue` | `DeliveredIsTrue` | nothing |
| `DeliveryProofs!PipelineSparesListed` | `StaleListMailsOnce` | `DomainIsKnown` |
| `DeliveryProofs!PipelineStatusIsTrue` | `StatusMatchesRows` | nothing |
| `DeliveryProofs!RemovedIsFinal` | a removed job is the end of it | nothing |
| `DeliveryProofs!UndoInTimeIsUnsent` | `UndoInTime` | nothing |
| `DeliveryProofs!AcceptedMailIsSaved` | `AcceptedIsSaved` | nothing |
| `DeliveryProofs!AcceptedMailHasAJob` | `RestingMailHasAJob`, of what was accepted and is not undone | nothing |
| `AdmissionProofs!ThrottleTypeCorrect` | `ThrottleTypeOK` | nothing |
| `AdmissionProofs!PaceHolds` | `ThrottleHolds` | nothing |
| `SweepProofs!TypeCorrect` | `TypeOK` | nothing |
| `SweepProofs!NothingIsLost` | `NothingLost` | nothing |
| `SweepProofs!NoSecondRetry` | `OneRetryAtATime` | nothing |
| `SweepProofs!FailuresStay` | `NeverDowngraded` | nothing |
| `SweepProofs!DunTypeCorrect` | `DunTypeOK` | nothing |
| `SweepProofs!NoAttemptTwice` | `AttemptsAreReal` | nothing |
| `SweepProofs!PayingIsNotFree` | `PaidUpIsNotFree` | nothing |
| `AdmissionProofs!AdmTypeCorrect` | `AdmTypeOK` | nothing |
| `AdmissionProofs!OneEmailPerKey` | `OneJobPerKey` | nothing |
| `AdmissionProofs!CountIsBounded` | the counter and what is on its way to it | nothing |
| `AdmissionProofs!OvershootStaysBounded` | `OvershootIsBounded` | nothing |
| `AdmissionProofs!DomTypeCorrect` | `DomTypeOK` | nothing |
| `AdmissionProofs!SessionsAreFound` | `SessionIsEstablished` | nothing |
| `AdmissionProofs!WarmupHolds` | `WarmupOvershootIsBounded` | nothing |
| `DraftProofs!AgentTypeCorrect` | `AgentTypeOK` | nothing |
| `DraftProofs!DecisionsAreCarriedOut` | `DraftsAreSettled` | nothing |
| `ClientProofs!RoomTypeCorrect` | `RoomTypeOK` | nothing |
| `ClientProofs!NoEditIsLost` | `EditsAreKept` | nothing |
| `ClientProofs!NewestHasAll` | `NewestIsComplete` | nothing |
| `RetryProofs!OutboxTypeCorrect` | `OutboxTypeOK` | nothing |
| `RetryProofs!QueuedMailIsNotLost` | `QueuedMailIsKept` | nothing |
| `RetryProofs!NoUnexcusedCopy` | `CopiesAreExcused` | nothing |
| `RetryProofs!HookTypeCorrect` | `HookTypeOK` | nothing |
| `RetryProofs!NoIdleDuplicate` | `DuplicateNeedsAReason` | nothing |
| `RetryProofs!NothingGivenUpSilently` | `GivenUpOnlyWhenOff` | nothing |
| `RetryProofs!OutagesAreNoticed` | `AnOutageIsNoticed` | nothing |
| `ClientProofs!SyncTypeCorrect` | `SyncTypeOK` | nothing |
| `ClientProofs!CursorStaysHonest` | `CursorIsHonest` | nothing |
| `ClientProofs!TokenTypeCorrect` | `TokenTypeOK` | nothing |
| `ClientProofs!FamiliesDoNotSplit` | `LinesAreAccountedFor` | nothing |
| `ClientProofs!SessionSurvivesQuiet` | `StoredTokenIsLive` | nothing |
| `ClientProofs!ClientTypesCorrect` | `ClientTypeOK` | nothing |
| `ApiProofs!ApiTypesCorrect` | `ApiTypeOK` | nothing |

**The caps.** `MaxFaults = 0` is not a convenience: the caps fail once Redis rejects a command (section 4).
`CapsHold` is not inductive: it does not say why a counter is at least what was granted. The
invariant of the proof has two halves. `Counted`: each counter is at least the sends granted on it plus the calls that
hold a place in it, those about to roll back included (more after a crash, which leaves places nobody gives back).
`Within`: grants plus the calls past their comparison stay within the ramp of the date. A call that passes compares
a counter that already counts all of these, itself included. The number of holders is a cardinality, and the lemmas say that
a call's step adds or removes one element. The refinement maps a grant to the abstract send, the
first resolution of the start to the abstract start, all else to a stutter.

**Refusals.** For "at least" in `Counted`, `Balanced` says "exactly" while no call has been lost: a counter is its grants plus
its holders. With every call over there are no holders, so refusals have left nothing behind; and a call refused by its
comparison found in the counter, beside itself, only grants and holders that fill the cap (`RefusedForAReason`).

**The total stops only late calls** (`TotalRefusesOnlyTheLate`). The caps of a day's buckets add up to its total cap,
so a total that is full should mean some bucket is. That is about sums over providers of four moving quantities, and
`SplitInv` relates them: sends in total are the sum of the sends per bucket (`SentAdds`); a call that has come to the
total found a bucket that allows a send (`BucketOpen`); each bucket stays within the ramp even if one counts the calls
the total has refused since (`StagedWithin`); and a total that has refused somebody was full and still is
(`TotalIsFull`). A refused call then either came in the last half day of its date, and the buckets' bounds add up to
less than the refusal needs, or it came before: its day's caps are below those of the day others passed with, and
adding up shows some bucket past them (`RefusedByTotal`).

**Every send is counted**, whatever fails. `LedgerInv` holds the books of one key over all stores, on the first date
and without a crash: counters of Redis and of all processes together are at least the sends recorded by any store,
plus the calls that hold the key. A command that fails moves the count to the process, and an `EXPIRE` that fails
counts twice, which "at least" allows.

**Sums.** The library defines a sum over a set by a fold, and states of folds only what needs an operator as
parameter. The first section of `WarmupGateProofs` therefore proves from the definition that a sum over a finite set
is the one function on its subsets that adds one term at a time (`SumIsFold`), by taking a smallest subset where two
such functions would differ. From there: a sum changes as the one term that changes (`SumMoves`), grows with its
terms, adds up, and the parts of a set add up to it (`PartsAddUp`).

**Bounded copies.** The invariant `CopiesCounted` says: copies sent to `r`, plus the runs that may yet send to `r`, are at most the
times the job was handed out. A claim raises both sides by one, a send turns a run that may send into a copy, a retry or a
stall moves one unit between the terms of `HandedOut`. It holds only because a run serves a recipient by relay or
directly and not both (`BatchesDiffer`), and leaves the batch once served.

**True rows.** A row becomes `delivered` only from a run's last event. `Truthful` says that a run whose event for
`r` means delivery, and every run between a relay's answer and its rows, has a copy behind it.

**The status, and a job for what rests.** Both hold while no run outlives its lock. `Booked` says what the one run
then owns: the job is active and its own, the status is no verdict meanwhile, what its verdicts say and what the rows
of the recipients it is done with say is the same (`RowsMatch`), and so the status it derives from the verdicts goes
with the rows (`StatusIsTrue`). A job that is gone was completed by such a run, so the email is settled or held
(`Concluded`).

**Who is put on the list.** Anybody writes the list between any two steps, so no invariant ties a run's plan to it.
`StaleFit` is a budget instead: the copies an address got since it was put on the list, plus the runs that had read
the list without it and may still send (`Readers`), are at most one more than the lapses. A plan made from then on
leaves the address out, so readers only dwindle (`ReadersDwindle`), a send turns one into a copy, and at the moment of
the listing there are no more of them than runs that live, which exceed one by the lapses at most (`LiveFit`), since a
job is handed out again only when its lock has lapsed or its run is over. `ListTouch` is what the others may do, and
everything else proved of the worker is kept by it. `DomainIsKnown` says that DKIM is required or every sender has a
domain row: otherwise `worker.ts` has no account, and neither reads the list nor writes it.

**Too late.** `UndoIsOpen`: while the window of a send is open, the API has not restarted and no undo has failed, the
entry is there or an undo that has used it up is on its way to the drafts, unless the job was never added or the email
is undone. An undo that finds no entry and no marker is therefore refused for one of the reasons in the property:
`UndoStep` follows two requests at once through every await, and a failed one back to where it may be repeated.

**The worker inside the pipeline.** In `SendPipeline` the same worker has company: endpoints write rows and status,
add the job late, and remove it at any time. `ApiTouch` says all they may do to what the worker works on, and every
API step is shown to be one such touch. The worker's invariants then need one more part, `JobBegins`: until the
endpoint adds the job there is none and nothing to remove, or a removal could be followed by a second first attempt. A
touch keeps the count of copies and the truth of rows; it keeps a run its job's only owner, since BullMQ removes no
active job. It writes no verdict, and no row once there is a job, so `Booked` carries over and with it
`StatusMatchesRows`: undo may turn a delivered email into a draft, but no status that is a verdict is wrong about the
rows. `Concluded` does not carry over, for an undo takes the job of an email that rests.

**What undo does achieve.** Section 4 shows that an undone email may be sent. What can be relied on is proved instead:
once the job is gone and no run has anything left to send, the copies of that moment are final (`RemovedIsFinal`); and
a removal that comes before the job was first handed out reaches that state with no copy sent (`UndoInTime`), because
copies and runs that may send are bounded by the times the job was handed out, which is never. The promise the answer
makes is thus true exactly of the undo that wins the race it does not wait for.

**What "accepted" means.** `AcceptedIsSaved`: who has that answer has the email, a row a recipient, and a job that was
added. `Saved` says of each await of the endpoint what the awaits before it have left behind, and that nothing anyone
does later takes it away. Until the user calls undo, schedule or cancel, only the worker takes the job away
(`Uncalled`), so an accepted email that rests is settled, held, or has its job in the queue (`AcceptedMailHasAJob`).
That the job is then carried out is liveness, and TLC's (`AcceptedIsCarriedOut`).

**The pace of a domain.** `SlotsAreExact` (the active slots of a host are the deliveries that hold one) is inductive. `JobsFitSlots`
turns it into a bound for all hosts together: number the deliveries of each host, and a delivery is known by its host
and its number, which is an injection into hosts and slots. Then a counter plus the deliveries in flight stays below its limit plus
all slots (`PaceInv`), since only an answer turns one into the other and the check lets nobody through at the limit.

**Nothing is lost.** `Kept` adds to the property what makes removals safe: a process about to remove job `k` has
added job `k + 1` or some job of the email was carried out, a marker stands for a retry that was added (in memory, in
the table, and in every write under way), and retries stay within their bound. Lost and reordered writes can only
lose markers, which costs a second retry and never the email.

**One retry at a time, failures stay.** With one process that has not restarted, jobs form a chain (`Chained`):
whatever has been queued has a marker before it, and a job that waits has none. It is kept because the process itself
knows of every marker the table or a write under way holds (`KnowsMarkers`), so no late write tells it anything new or
unknown, and because the jobs of its pass are as it fetched them (`PassIsFresh`). `NeverDowngraded` needs types only:
the guards of every write to memory do the rest.

**Payments.** `AttemptInv` is a budget: attempts counted, plus handlers that may count one, are at most the failures
seen, and only the insert that finds no row for an event adds to both. `PaidUpIsNotFree` needs, while all is calm,
that at most one handler or the sweep is at work (`Alone`), that the record goes with the last invoice and the plan
with the record (`CycleIsTrue`), and that what a handler has read is still so (`KnowsWell`), which is what an overlap
would break.

**One email a key.** A key is claimed by no write of its own, only by the answer stored at the end. Per message
(`KeyFacts`), while nothing failed: as long as no answer is kept, each email enqueued belongs to a request that is
about to keep its answer (`Finished`); from the first answer on nobody passes the cache, and the emails enqueued plus
the requests still in the handler (`Handled`) are at most `crowd`, the most that were past the cache at once. Numbers
of requests are cardinalities, of which `SlotCount` says how one step moves them. **The count**: the counter, with the
increments owed to it, is below the quota plus the peak of admitted requests, because a request enters while the
counter is below the quota and each later raises it by one. **The overshoot** is about emails, which `EmailInv` ties
to the counter: while nothing fails, emails sent are what was counted and what is owed.

**Domain warm-up.** A request that looks again has lost the race, so there was an active session when its insert
failed. `Findable` says of it that a session is active or paused, and between its two selects that one is paused,
unless it is `excused`: its insert failed for another reason, or a call of the user has taken away what it was to
find, by closing the session or by resuming it between the two. For the overshoot `Explained` holds of each session:
what was accepted is at most what the row counts today and what requests past the check still owe (`Debts`), and at
most the limit less one plus all that may be in flight. The first bounds the second at the check; after it, the limit
of a session must not shrink as days pass. That is `StepAssumption`: the steps of `AUTO_WARMUP_SCHEDULE`
(`orchestrator.ts:57-68`) are positive and do not decrease.

**Decisions are carried out.** `DraftsAreSettled` does not say what a request in the middle relies on. Two invariants
do. `BoundOK(d)` is a budget: emails sent plus the requests that have `d` in hand and may yet send it (`Armed`) are at
most one more than the meetings, and while `d` is still open those on their way to the job (`Sending`) are covered by
meetings alone, since a decision closes a draft and only a request that met another decides on a closed one.
`DraftOK(d)` is about a draft without meetings: nobody else has it in hand; before the decision is written it is still
open, as it was read, and has no email; after it, and before the job, it is approved and has no email. A step about
`d` is its only holder's (`OwnOK`), any other leaves what is said of `d` alone (`StaysOK`). The emails saved exceed
the jobs by the requests between the two, whose number is a cardinality.

**Rooms.** Three invariants on top of each other, all for a draft that one room at a time has served without faults.
`OneRoom`: the timer, if set, is that of the room that is open, and a room is opened only when nothing of an earlier
one is under way. `Kept`: what was merged is stored, in a save, or in the room of the timer, and nobody is about to
remove what is not. `Complete`, unless two saves overlapped (`tied`): the open room has all that is stored, there is
one save at most, and versions order the rows as they were written, so that the newest row has all.

**Nothing vanishes from the outbox, no copy without an excuse.** The first needs that a mail is removed only by a flush that
has seen it accepted. The second is a budget (`BudgetInv`): copies, plus the flushes that have the mail in hand, plus one while it
waits in the outbox with nobody, plus one while the compose page may still send or queue it, are at most one more than the
excuses. Every step moves a unit between these terms or is one of the three excuses.

**Webhooks.** `DuplicateInv` bounds the copies the receiver has plus those that may come (`MayCome`: the job is
neither settled nor about to complete, and the hook still exists or a post is under way) by the faults; an attempt
turns one into the other, and only a fault creates another. `GivenUpInv` says of each run what its end will mean: a
run about to end well has an accepted event or one noted as missed. `NoticeInv`: as long as the hook is on and its
last rows all failed, some run is still to judge them (`Judging`), since every run that completes the row of failures
judges after it, and judges what the others wrote as well.

**The cursor.** `CursorIsHonest` is about the row, and a sync writes there what it computed long before, over what
others wrote. So `HonestInv` says of every sync that what it vouches for (`ClaimedBy`: what lies behind its base or
its new cursor, but what it has still to do) is settled, as what lies behind the row's cursor is; `ShapeInv` adds that
a message is added before it is deleted and that, unless two syncs overlapped, one sync at most is under way. Then
`Persist` may write any sync's cursor.

**Tokens.** `LinesAreAccountedFor` is inductive with the types: a line is a token that is good or a rotation past its
mark, marking a good token turns one into the other, and only a mark of a token spent meanwhile adds one, which the
budget counts. For `StoredTokenIsLive` the invariant `SessionHolds` follows the one refresh of the browser from the
token it sends to the one it stores.

**The instances.** `MCApi` and `MCClients` put components side by side, of which one moves at a time. `InstanceIsEach` shows that a
behaviour of the instance is one of every component in it, so what is proved of the components holds of what the runs check;
their type invariants are stated for the instance (`ApiTypesCorrect`, `ClientTypesCorrect`).

**Only model-checked**: what must eventually happen (`AcceptedIsCarriedOut`, `EventsSettle`, `GraceEnds`,
`FlushedMailLeaves`, `CopyCatchesUp`), since TLAPS does not reach liveness under fairness. Every invariant and every
action property the passing runs check is a theorem. The four violations are TLC's too: a counterexample needs no
proof.

## 6. Not modelled, and the plan

Left out for good, with the reasons in `PROJECT.json`: wire protocols and parsers (SMTP, IMAP, JMAP, DNS, MIME), cryptography
(DKIM, SPF, DMARC, TLS), scores of spam, anomaly, reputation and AI, reports and analytics, shared libraries, and the
user interfaces, which are most of the repository's lines. They keep no state that several actors change;
a model would restate a computation without a hazard.

Left out of components that are modelled: snoozing; storage and AI quotas (the shape of `SendAdmission`); cached reads of the
web client; connecting and disconnecting mailboxes; the agent's run that drafts; MX lookup and retry times of
the optimizer, whose jitter is a real number; the composition of `AgentSend` with `SendPipeline`, which
would multiply two models that meet in `queue.add` only.

What is worth doing next, in order:

1. **Commands that ioredis sends twice** in `WarmupGate`, with the bound on caps and counts that is left then.
2. **Warm-up calendar** as operators behind `Cap`, against the rule its comment states.
3. **AI circuit breaker** and **sentinel cache**: small and sequential.
