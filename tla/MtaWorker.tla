------------------------------ MODULE MtaWorker ------------------------------
(***************************************************************************)
(* services/mta/src/worker.ts: what happens to one outbound email, from    *)
(* the moment its job is in the queue.  processJob is the body of a run;   *)
(* every await of it is a step, because a process may die there, another   *)
(* run of the same job may be under way (BullMQ hands a job whose lock has *)
(* lapsed to another run), or the database may reject the command.         *)
(*                                                                         *)
(* The suppression list of the sender's domain is everybody's: reports of  *)
(* bounces and complaints, unsubscriptions, other emails and the user      *)
(* write it while a run goes by what it has read.                          *)
(*                                                                         *)
(* The warm-up gate is reduced to its answer (WarmupGate models it), and   *)
(* so are DNS, the throttles and the SMTP dialogue: one event an attempt.  *)
(***************************************************************************)
EXTENDS Integers, FiniteSets

CONSTANTS
  Recipients,    \* email.to
  Runs,          \* job slots of the worker processes
  RelayMode,     \* MTA_RELAY_MODE, or "none" when no relay is configured
  RequireDkim,   \* MTA_REQUIRE_DKIM
  Domains,       \* how a run may find the sender's domain: "signed", "unsigned" (no usable
                 \* key), "gone" (no row)
  MaxAttempts,   \* the job's attempts, and the optimizer's maxAttempts
  MaxStalled,    \* maxStalledCount
  MaxLapses,     \* bound on locks that lapse while their run is alive
  MaxFaults,     \* bound on commands the database rejects and on process deaths
  MaxListings    \* bound on changes others make to the suppression list

ASSUME RecipientAssumption == IsFiniteSet(Recipients) /\ Recipients # {}
ASSUME SettingAssumption   == /\ RelayMode \in {"none", "all", "overflow"}
                              /\ RequireDkim \in BOOLEAN
                              /\ Domains \subseteq {"signed", "unsigned", "gone"}
ASSUME AttemptAssumption   == MaxAttempts \in Nat \ {0} /\ MaxStalled \in Nat
ASSUME WorldAssumption     == MaxLapses \in Nat /\ MaxFaults \in Nat /\ MaxListings \in Nat

VARIABLES
  status,        \* emails.status
  result,        \* delivery_results.status of each recipient
  suppressed,    \* suppression_lists of the sender's domain
  job,           \* the BullMQ job: its list, attemptsMade, stalled count, and whose lock it holds
  run,           \* run[w]: where slot w is in processJob, and its local variables
  sent,          \* sent[r]: copies that reached r's side (history)
  lapses,        \* locks lapsed so far (bounded)
  faults,        \* commands rejected and processes dead so far (bounded)
  listings,      \* changes others have made to the list so far (bounded)
  stale          \* stale[r]: copies that reached r's side since r was put on the list (history)

workerVars == <<status, result, suppressed, job, run, sent, lapses, faults>>
listVars   == <<listings, stale>>
mailVars   == <<workerVars, listVars>>

None == "none"
ASSUME RunAssumption == IsFiniteSet(Runs) /\ None \notin Runs \cup Recipients

\* The locals of processJob.  "verdicts" stands for anyDelivered, anyDeferred and
\* allBounced: which verdicts the run has met so far.
Idle == [pc |-> "idle", attempt |-> 0, domain |-> None, paced |-> {}, relay |-> {},
         direct |-> {}, at |-> None, event |-> None, verdicts |-> {}, ok |-> TRUE]

Fault == faults < MaxFaults /\ faults' = faults + 1

\* Run w goes on at label pc.
Goto(w, pc) == run' = [run EXCEPT ![w].pc = pc]

\* processJob returns or throws in run w: its locals are gone.
Spent(ok)   == [Idle EXCEPT !.pc = "end", !.ok = ok]
Over(w, ok) == run' = [run EXCEPT ![w] = Spent(ok)]

\* The rows of recipients S get status v.
Rows(S, v) == [r \in Recipients |-> IF r \in S THEN v ELSE result[r]]

-----------------------------------------------------------------------------
(* the queue (BullMQ) *)

\* A run that returns completes the job, one that throws sends it back with a
\* backoff until its attempts are used up; a run whose lock has lapsed cannot move it.
Ended(w) ==
  IF job.owner # w THEN job
  ELSE IF run[w].ok THEN [job EXCEPT !.st = "gone", !.owner = None]
  ELSE [job EXCEPT !.st = IF job.made + 1 < MaxAttempts THEN "delayed" ELSE "failed",
                   !.owner = None, !.made = @ + 1]

Claim(w) ==
  /\ job.st = "waiting"
  /\ run[w].pc = "idle"
  /\ job' = [job EXCEPT !.st = "active", !.owner = w]
  /\ run' = [run EXCEPT ![w] = [Idle EXCEPT !.pc = "mark", !.attempt = job.made]]
  /\ UNCHANGED <<status, result, suppressed, sent, lapses, faults>>

\* The delay of the job is over.
Due ==
  /\ job.st = "delayed"
  /\ job' = [job EXCEPT !.st = "waiting"]
  /\ UNCHANGED <<status, result, suppressed, run, sent, lapses, faults>>

\* A lock that is no longer renewed lapses: the job is stalled and handed out
\* again, once too often and it fails.
Stalled == [job EXCEPT !.st = IF job.stalls < MaxStalled THEN "waiting" ELSE "failed",
                       !.owner = None, !.stalls = @ + 1]

Stall ==
  /\ job.st = "active"
  /\ \/ run[job.owner].pc = "idle" /\ UNCHANGED lapses
     \/ run[job.owner].pc # "idle" /\ lapses < MaxLapses /\ lapses' = lapses + 1
  /\ job' = Stalled
  /\ UNCHANGED <<status, result, suppressed, run, sent, faults>>

-----------------------------------------------------------------------------
(* processJob *)

\* 1. The email is being processed, whatever its status was.
MarkProcessing(w) ==
  /\ run[w].pc = "mark"
  /\ status' = "processing"
  /\ Goto(w, "sign")
  /\ UNCHANGED <<result, suppressed, job, sent, lapses, faults>>

\* 2-3. Read the domain, sign, or decide to hold the message.
Sign(w) ==
  /\ run[w].pc = "sign"
  /\ \E d \in Domains :
       run' = [run EXCEPT ![w].pc = IF d # "signed" /\ RequireDkim THEN "hold" ELSE "plan",
                          ![w].domain = d]
  /\ UNCHANGED <<status, result, suppressed, job, sent, lapses, faults>>

Hold(w) ==
  /\ run[w].pc = "hold"
  /\ result' = Rows(Recipients, "deferred")
  /\ Goto(w, "release")
  /\ UNCHANGED <<status, suppressed, job, sent, lapses, faults>>

Release(w) ==
  /\ run[w].pc = "release"
  /\ status' = "queued"
  /\ Goto(w, "end")
  /\ UNCHANGED <<result, suppressed, job, sent, lapses, faults>>

\* 3b. The recipients not to be mailed: without a domain row none is known.
MutReadNone(w) == {}
Suppressions(w) == IF run[w].domain = "gone" THEN {} ELSE suppressed

\* planDelivery: every other recipient goes to the relay, directly, or waits for quota.
Plan(w) ==
  LET open == Recipients \ Suppressions(w) IN
  /\ run[w].pc = "plan"
  /\ \E allowed \in SUBSET open :
       /\ RelayMode = "all" => allowed = {}
       /\ run' = [run EXCEPT
            ![w].pc     = "drop",
            ![w].direct = allowed,
            ![w].relay  = IF RelayMode = "none" THEN {} ELSE open \ allowed,
            ![w].paced  = IF RelayMode = "none" THEN open \ allowed ELSE {}]
  /\ UNCHANGED <<status, result, suppressed, job, sent, lapses, faults>>

\* 4a. Rows of the suppressed recipients.
Drop(w) ==
  /\ run[w].pc = "drop"
  /\ result' = Rows(Recipients \ (run[w].direct \cup run[w].relay \cup run[w].paced), "dropped")
  /\ Goto(w, "pace")
  /\ UNCHANGED <<status, suppressed, job, sent, lapses, faults>>

\* 4b. Rows of the recipients refused by the warm-up gate.
Pace(w) ==
  /\ run[w].pc = "pace"
  /\ result' = Rows(run[w].paced, "deferred")
  /\ run' = [run EXCEPT ![w].pc = IF run[w].relay # {} THEN "relay" ELSE "direct",
                        ![w].verdicts = IF run[w].paced # {} THEN {"deferred"} ELSE {}]
  /\ UNCHANGED <<status, suppressed, job, sent, lapses, faults>>

\* How a relay, a mail server or DNS may answer.  "lost": the message was accepted
\* and the answer never came back.  "refused": the relay itself says the failure
\* is permanent; "rejected": a 5xx; "dns": the resolver fails; "nodomain": the
\* domain does not exist; "busy": throttled, or no connection left in the pool.
RelayEvents  == {"accepted", "lost", "refused", "rejected", "transient"}
DirectEvents == {"accepted", "lost", "rejected", "transient", "busy", "dns", "nodomain"}
Arrives(e)   == e \in {"accepted", "lost"}

\* relayFailureOutcome, for a batch sent by relay.
RelayVerdict(e) ==
  IF e = "accepted" THEN "delivered"
  ELSE IF e = "refused" \/ (e = "rejected" /\ RelayMode = "all") THEN "bounced"
  ELSE "deferred"

\* deliverMessage, for one recipient.  The transport throws on every answer that is
\* not an acceptance, so a rejection is told from a transient failure by nothing.
MutTrustTheWire(e, attempt) ==
  IF Arrives(e) \/ e = "busy" THEN "delivered"
  ELSE IF e \in {"dns", "nodomain"} THEN "bounced"
  ELSE IF attempt + 1 < MaxAttempts THEN "deferred"
  ELSE "bounced"
DirectVerdict(e, attempt) ==
  IF e = "accepted" THEN "delivered"
  ELSE IF e \in {"dns", "nodomain"} THEN "bounced"
  ELSE IF e = "busy" \/ attempt + 1 < MaxAttempts THEN "deferred"
  ELSE "bounced"

\* 4c. The relay batch: one message for all its recipients.
Relay(w) ==
  /\ run[w].pc = "relay"
  /\ \E e \in RelayEvents :
       /\ run' = [run EXCEPT ![w].pc = "relayed", ![w].event = e]
       /\ sent' = [r \in Recipients |->
                     IF r \in run[w].relay /\ Arrives(e) THEN sent[r] + 1 ELSE sent[r]]
  /\ UNCHANGED <<status, result, suppressed, job, lapses, faults>>

Relayed(w) ==
  LET v == RelayVerdict(run[w].event) IN
  /\ run[w].pc = "relayed"
  /\ result' = Rows(run[w].relay, v)
  /\ run' = [run EXCEPT ![w].pc = "direct", ![w].relay = {}, ![w].event = None,
                        ![w].verdicts = @ \cup {v}]
  /\ UNCHANGED <<status, suppressed, job, sent, lapses, faults>>

\* 4d. The direct batch, one recipient after the other.
Deliver(w) ==
  /\ run[w].pc = "direct"
  /\ \E r \in run[w].direct, e \in DirectEvents :
       /\ run' = [run EXCEPT ![w].pc = "record", ![w].at = r, ![w].event = e]
       /\ sent' = IF Arrives(e) THEN [sent EXCEPT ![r] = @ + 1] ELSE sent
  /\ UNCHANGED <<status, result, suppressed, job, lapses, faults>>

\* The recipient of this turn is done with; its row says how.
MutSendAgain(w) ==
  LET v == DirectVerdict(run[w].event, run[w].attempt) IN
  /\ run[w].pc = "record"
  /\ result' = Rows({run[w].at}, v)
  /\ run' = [run EXCEPT ![w].pc = "direct", ![w].verdicts = @ \cup {v}]
  /\ UNCHANGED <<status, suppressed, job, sent, lapses, faults>>
RecordVerdict(w) ==
  LET r == run[w].at
      v == DirectVerdict(run[w].event, run[w].attempt)
  IN  /\ run[w].pc = "record"
      /\ result' = Rows({r}, v)
      /\ run' = [run EXCEPT ![w].pc = IF v = "bounced" /\ run[w].domain # "gone" THEN "suppress" ELSE "direct",
                            ![w].direct = @ \ {r}, ![w].event = None, ![w].verdicts = @ \cup {v}]
      /\ UNCHANGED <<status, suppressed, job, sent, lapses, faults>>

\* Auto-suppression; that the insert is rejected is ignored.
Suppress(w) ==
  /\ run[w].pc = "suppress"
  /\ \/ suppressed' = suppressed \cup {run[w].at} /\ UNCHANGED faults
     \/ Fault /\ UNCHANGED suppressed
  /\ Goto(w, "direct")
  /\ UNCHANGED <<status, result, job, sent, lapses>>

\* 5. The overall status.  There is at least one recipient, so one of these applies.
MutIgnoreDeferred(v) ==
  IF v \subseteq {"bounced"} THEN "bounced"
  ELSE IF "delivered" \in v THEN "delivered"
  ELSE "deferred"
Overall(v) ==
  IF v \subseteq {"bounced"} THEN "bounced"
  ELSE IF "deferred" \in v THEN "deferred"
  ELSE "delivered"

\* A deferral makes the run throw, so that BullMQ retries the job.
MutSwallow(w) ==
  /\ run[w].pc = "direct"
  /\ run[w].direct = {}
  /\ status' = Overall(run[w].verdicts)
  /\ Over(w, TRUE)
  /\ UNCHANGED <<result, suppressed, job, sent, lapses, faults>>
Finish(w) ==
  /\ run[w].pc = "direct"
  /\ run[w].direct = {}
  /\ status' = Overall(run[w].verdicts)
  /\ Over(w, "deferred" \notin run[w].verdicts)
  /\ UNCHANGED <<result, suppressed, job, sent, lapses, faults>>

\* The run is over and the job moves on.
End(w) ==
  /\ run[w].pc = "end"
  /\ job' = Ended(w)
  /\ run' = [run EXCEPT ![w] = Idle]
  /\ UNCHANGED <<status, result, suppressed, sent, lapses, faults>>

\* The database rejects the command of this step: processJob throws.
Throw(w) ==
  /\ run[w].pc \notin {"idle", "relay", "suppress", "end"}
  /\ run[w].pc = "direct" => run[w].direct = {}
  /\ Fault
  /\ Over(w, FALSE)
  /\ UNCHANGED <<status, result, suppressed, job, sent, lapses>>

\* The process of run w dies, and leaves the job to be found stalled.
Crash(w) ==
  /\ run[w].pc # "idle"
  /\ Fault
  /\ run' = [run EXCEPT ![w] = Idle]
  /\ UNCHANGED <<status, result, suppressed, job, sent, lapses>>

-----------------------------------------------------------------------------

\* The next step of processJob in run w, however it turns out.
Work(w) ==
  \/ MarkProcessing(w) \/ Sign(w) \/ Hold(w) \/ Release(w) \/ Plan(w)
  \/ Drop(w) \/ Pace(w) \/ Relay(w) \/ Relayed(w) \/ Deliver(w)
  \/ RecordVerdict(w) \/ Suppress(w) \/ Finish(w) \/ End(w)

WorkerNext ==
  \/ \E w \in Runs : Claim(w) \/ Work(w) \/ Throw(w) \/ Crash(w)
  \/ Due
  \/ Stall

-----------------------------------------------------------------------------
(* suppression_lists, as everybody else writes it *)

Edit(list) ==
  /\ listings < MaxListings
  /\ listings' = listings + 1
  /\ suppressed' = list
  /\ UNCHANGED <<status, result, job, run, sent, lapses, faults>>

\* A bounce report, a complaint, an unsubscription, another email or the user puts
\* r on the list; a second insert of the same address is ignored.
List(r) == r \notin suppressed /\ Edit(suppressed \cup {r})

\* The user takes r off the list.
Unlist(r) == r \in suppressed /\ Edit(suppressed \ {r})

\* The history: what arrives is counted for those who are on the list, from the time
\* they were put there.
Tally ==
  stale' = [r \in Recipients |->
              IF r \in suppressed \cap suppressed' THEN stale[r] + (sent'[r] - sent[r]) ELSE 0]

WorkerStep == WorkerNext /\ UNCHANGED listings /\ Tally
ListStep   == (\E r \in Recipients : List(r) \/ Unlist(r)) /\ Tally

MailNext == WorkerStep \/ ListStep

-----------------------------------------------------------------------------

\* An email as the send endpoints leave it: its rows queued, its job in the queue.
Init ==
  /\ status = "queued"
  /\ result = [r \in Recipients |-> "queued"]
  /\ suppressed \in SUBSET Recipients
  /\ job = [st |-> "delayed", made |-> 0, stalls |-> 0, owner |-> None]
  /\ run = [w \in Runs |-> Idle]
  /\ sent = [r \in Recipients |-> 0]
  /\ lapses = 0
  /\ faults = 0
  /\ listings \in 0 .. MaxListings
  /\ stale = [r \in Recipients |-> 0]

Spec == Init /\ [][MailNext]_mailVars

-----------------------------------------------------------------------------
(* properties *)

Statuses == {"queued", "processing", "delivered", "deferred", "bounced"}
Verdicts == {"delivered", "deferred", "bounced"}
PCs == {"idle", "mark", "sign", "hold", "release", "plan", "drop", "pace", "relay",
        "relayed", "direct", "record", "suppress", "end"}

\* Type invariant: the shape of every variable, and nothing else.
TypeOK ==
  /\ status \in Statuses
  /\ result \in [Recipients -> {"queued", "dropped"} \cup Verdicts]
  /\ suppressed \in SUBSET Recipients
  /\ job \in [st : {"delayed", "waiting", "active", "failed", "gone"}, made : 0 .. MaxAttempts,
              stalls : 0 .. (MaxStalled + 1), owner : Runs \cup {None}]
  /\ run \in [Runs -> [pc : PCs, attempt : 0 .. MaxAttempts, domain : Domains \cup {None},
                       paced : SUBSET Recipients, relay : SUBSET Recipients,
                       direct : SUBSET Recipients, at : Recipients \cup {None},
                       event : RelayEvents \cup DirectEvents \cup {None},
                       verdicts : SUBSET Verdicts, ok : BOOLEAN]]
  /\ sent \in [Recipients -> Nat]
  /\ lapses \in 0 .. MaxLapses
  /\ faults \in 0 .. MaxFaults
  /\ listings \in 0 .. MaxListings
  /\ stale \in [Recipients -> Nat]

Resting == \A w \in Runs : run[w].pc = "idle"

\* How often the job has been handed to a run.
HandedOut == job.made + job.stalls + (IF job.st \in {"active", "gone"} THEN 1 ELSE 0)

\* Retries resend to everyone, also to those who have the message, but never more
\* than once each time the job is handed out, however runs overlap: a bound on duplicates.
OneCopyPerAttempt == \A r \in Recipients : sent[r] <= HandedOut

\* A message held for want of a key, the exception: see HeldMailIsRetryable.
Held == status = "queued" /\ \A r \in Recipients : result[r] = "deferred"

\* No email is forgotten: one that is neither delivered nor bounced has its job in
\* the queue, where a run, or the dead-letter processor, will find it, as long as no
\* run has outlived its lock.
RestingMailHasAJob ==
  ~Held /\ lapses = 0 /\ Resting /\ status \in {"queued", "processing", "deferred"} =>
    job.st \in {"delayed", "waiting", "active", "failed"}

\* What the user is told is what the rows say: with no run under way, a delivered
\* email has reached somebody and keeps nobody waiting, a bounced one has reached
\* nobody on its last attempt, a deferred one keeps somebody waiting, as long as no
\* two runs have met.
StatusMatchesRows ==
  lapses = 0 /\ Resting =>
    /\ status = "delivered" =>
         /\ \A r \in Recipients : result[r] \in {"delivered", "bounced", "dropped"}
         /\ \E r \in Recipients : result[r] = "delivered"
    /\ status = "bounced" => \A r \in Recipients : result[r] \in {"bounced", "dropped"}
    /\ status = "deferred" => \E r \in Recipients : result[r] = "deferred"

\* A row never says delivered of a recipient no copy has reached.
DeliveredIsTrue == \A r \in Recipients : result[r] = "delivered" => sent[r] > 0

\* A run goes by the list it has read (worker.ts:423), whoever writes it meanwhile. An
\* address put on it at any time still gets the copy of the run that had read it before,
\* or of the runs when locks have lapsed, but no second one from any of them and none
\* from a retry: not from the retries of the very email that made the worker suppress it.
StaleListMailsOnce == \A r \in Recipients : stale[r] <= 1 + lapses

\* "DEFERRED, not bounced [...] retryable by an operator action" (worker.ts, the DKIM
\* hold): a message held for want of a key still has its job.
HeldMailIsRetryable == Resting /\ status = "queued" => job.st # "gone"
=============================================================================
