----------------------------- MODULE SendPipeline -----------------------------
(***************************************************************************)
(* One email from the API to its recipients: POST /v1/messages             *)
(* (apps/api/src/routes/messages.ts) saves it and hands it to the queue,   *)
(* the endpoints of apps/api/src/routes/snooze.ts undo, schedule and       *)
(* cancel it, and MtaWorker delivers it.  The API and the workers share    *)
(* the database and the queue and nothing else; the API may restart.       *)
(***************************************************************************)
EXTENDS MtaWorker

CONSTANTS
  Kinds,         \* what the user may do: send "immediate" or "scheduled" mail, keep a "draft"
  Undos,         \* requests to undo that may be under way at once
  MaxRestarts,   \* bound on restarts of the API
  MaxCalls       \* bound on calls to undo, schedule and cancel

ASSUME KindAssumption == Kinds \subseteq {"immediate", "scheduled", "draft"} /\ Kinds # {}
ASSUME UserAssumption == MaxRestarts \in Nat /\ MaxCalls \in Nat

VARIABLES
  kind,          \* what the user sends
  post,          \* where POST /v1/messages is
  undoable,      \* undoableEmails has an entry for the email (memory of the API)
  marking,       \* the write of undoableUntil is under way
  marker,        \* metadata.undoableUntil is set
  window,        \* the undo window: "open", or "closed" once expiresAt has passed
  undo,          \* undo[q]: where request q of POST /v1/send/undo is, or how it was answered
  removing,      \* the call of job.remove() is under way
  told,          \* what the user has been answered (history)
  restarts, calls    \* restarts and calls so far (bounded)

apiVars == <<kind, post, undoable, marking, marker, window, undo, removing, told, restarts, calls>>
vars    == <<mailVars, apiVars>>

PipelineInit ==
  /\ kind \in Kinds
  /\ status = IF kind = "draft" THEN "draft" ELSE "none"
  /\ post = IF kind = "draft" THEN "none" ELSE "insert"
  /\ result = [r \in Recipients |-> "none"]
  /\ suppressed = {}
  /\ job = [st |-> "none", made |-> 0, stalls |-> 0, owner |-> None]
  /\ run = [w \in Runs |-> Idle]
  /\ sent = [r \in Recipients |-> 0]
  /\ lapses = 0 /\ faults = 0 /\ listings = 0 /\ stale = [r \in Recipients |-> 0]
  /\ undoable = FALSE /\ marking = FALSE /\ marker = FALSE /\ window = "open"
  /\ undo = [q \in Undos |-> "idle"] /\ removing = FALSE /\ told = {}
  /\ restarts = 0 /\ calls = 0

-----------------------------------------------------------------------------
(* POST /v1/messages *)

\* 4. The email row.
InsertEmail ==
  /\ post = "insert"
  /\ \/ status' = "queued" /\ post' = "rows" /\ UNCHANGED faults
     \/ Fault /\ post' = "dead" /\ UNCHANGED status
  /\ UNCHANGED <<kind, undoable, marking, marker, window, undo, removing, told, restarts, calls>>
  /\ UNCHANGED <<result, suppressed, job, run, sent, lapses>>

\* 5. One delivery_results row a recipient.
InsertRows ==
  /\ post = "rows"
  /\ \/ result' = Rows(Recipients, "queued") /\ post' = "enqueue" /\ UNCHANGED faults
     \/ Fault /\ post' = "dead" /\ UNCHANGED result
  /\ UNCHANGED <<kind, undoable, marking, marker, window, undo, removing, told, restarts, calls>>
  /\ UNCHANGED <<status, suppressed, job, run, sent, lapses>>

\* 6. The job, delayed by the undo window or until its time; without Redis the
\* answer is 503 and the rows stay behind.
MutIgnoreRedis(queued) == {"accepted"}
Answer(queued) == {IF queued THEN "accepted" ELSE "unavailable"}
Enqueue ==
  /\ post = "enqueue"
  /\ \/ /\ job' = [job EXCEPT !.st = "delayed"]
        /\ post' = IF kind = "immediate" THEN "register" ELSE "done"
        /\ told' = IF kind = "immediate" THEN told ELSE told \cup Answer(TRUE)
        /\ UNCHANGED faults
     \/ /\ Fault
        /\ post' = "done"
        /\ told' = told \cup Answer(FALSE)
        /\ UNCHANGED job
  /\ UNCHANGED <<kind, undoable, marking, marker, window, undo, removing, restarts, calls>>
  /\ UNCHANGED <<status, result, suppressed, run, sent, lapses>>

\* registerUndoable, and the answer.  The window opens only now, after the job.
RegisterUndoable ==
  /\ post = "register"
  /\ undoable' = TRUE
  /\ marking' = TRUE
  /\ post' = "done"
  /\ told' = told \cup Answer(TRUE)
  /\ UNCHANGED <<kind, marker, window, undo, removing, restarts, calls, workerVars>>

\* The marker reaches the database, or the failure is logged.
MarkUndoable ==
  /\ marking
  /\ marking' = FALSE
  /\ \/ marker' = TRUE /\ UNCHANGED faults
     \/ Fault /\ UNCHANGED marker
  /\ UNCHANGED <<kind, post, undoable, window, undo, removing, told, restarts, calls>>
  /\ UNCHANGED <<status, result, suppressed, job, run, sent, lapses>>

\* expiresAt passes: it was set after the job's delay began, so the job is due before.
CloseWindow ==
  /\ kind = "immediate"
  /\ post = "done"
  /\ window = "open"
  /\ job.st # "delayed" \/ job.made > 0
  /\ window' = "closed"
  /\ UNCHANGED <<kind, post, undoable, marking, marker, undo, removing, told, restarts, calls, workerVars>>

\* The entry is dropped some time after its window.
Forget ==
  /\ undoable /\ window = "closed"
  /\ undoable' = FALSE
  /\ UNCHANGED <<kind, post, marking, marker, window, undo, removing, told, restarts, calls, workerVars>>

-----------------------------------------------------------------------------
(* undo, schedule, cancel *)

Call == calls < MaxCalls /\ calls' = calls + 1

\* POST /v1/send/undo: an entry decides at once and is used up, and without one the marker does.
AskUndo(q) ==
  /\ post = "done"
  /\ undo[q] \in {"idle", "refused"}
  /\ Call
  /\ undo' = [undo EXCEPT ![q] = IF ~undoable THEN "reconcile"
                                 ELSE IF window = "open" THEN "revert" ELSE "refused"]
  /\ removing' = (removing \/ (undoable /\ window = "open"))
  /\ undoable' = FALSE
  /\ UNCHANGED <<kind, post, marking, marker, window, told, restarts, workerVars>>

\* The database rejects a command of request q, which is answered with a 500.
FailUndo(q) ==
  /\ Fault
  /\ undo' = [undo EXCEPT ![q] = "idle"]
  /\ told' = told \cup {"error"}
  /\ UNCHANGED <<status, marker>>

\* What the select of the metadata has brought: without a marker that holds it is too late.
MutNoReconcile == FALSE
MarkerHolds == marker /\ window = "open"
Reconcile(q) ==
  /\ undo[q] = "reconcile"
  /\ \/ /\ undo' = [undo EXCEPT ![q] = IF MarkerHolds THEN "revert" ELSE "refused"]
        /\ UNCHANGED <<status, marker, told, faults>>
     \/ FailUndo(q)
  /\ UNCHANGED <<kind, post, undoable, marking, window, removing, restarts, calls>>
  /\ UNCHANGED <<result, suppressed, job, run, sent, lapses>>

\* The email goes back to the drafts, without its marker, whatever the select before
\* this update has read of it.
RevertToDraft(q) ==
  /\ undo[q] = "revert"
  /\ \/ /\ status' = "draft"
        /\ marker' = FALSE
        /\ undo' = [undo EXCEPT ![q] = "idle"]
        /\ told' = told \cup {"undone"}
        /\ UNCHANGED faults
     \/ FailUndo(q)
  /\ UNCHANGED <<kind, post, undoable, marking, window, removing, restarts, calls>>
  /\ UNCHANGED <<result, suppressed, job, run, sent, lapses>>

\* job.remove(), which nobody waits for: BullMQ refuses to remove an active job, and
\* that Redis rejects the command is logged.
RemoveJob ==
  /\ removing
  /\ removing' = FALSE
  /\ \/ /\ job' = IF job.st = "active" THEN job ELSE [job EXCEPT !.st = "gone"]
        /\ UNCHANGED faults
     \/ Fault /\ UNCHANGED job
  /\ UNCHANGED <<kind, post, undoable, marking, marker, window, undo, told, restarts, calls>>
  /\ UNCHANGED <<status, result, suppressed, run, sent, lapses>>

\* POST /v1/send/schedule, of whatever email: the row says queued, and that is all.
Schedule ==
  /\ status # "none"
  /\ Call
  /\ status' = "queued"
  /\ told' = told \cup {"scheduled"}
  /\ UNCHANGED <<kind, post, undoable, marking, marker, window, undo, removing, restarts>>
  /\ UNCHANGED <<result, suppressed, job, run, sent, lapses, faults>>

\* DELETE /v1/send/schedule, of whatever email: the row says draft, and that is all.
CancelSchedule ==
  /\ status # "none"
  /\ Call
  /\ status' = "draft"
  /\ told' = told \cup {"cancelled"}
  /\ UNCHANGED <<kind, post, undoable, marking, marker, window, undo, removing, restarts>>
  /\ UNCHANGED <<result, suppressed, job, run, sent, lapses, faults>>

\* The API restarts: what it had in memory, and the requests in it, are gone.
Restart ==
  /\ restarts < MaxRestarts
  /\ restarts' = restarts + 1
  /\ post' = IF post \in {"none", "done"} THEN post ELSE "dead"
  /\ undoable' = FALSE
  /\ marking' = FALSE
  /\ removing' = FALSE
  /\ undo' = [q \in Undos |-> "idle"]
  /\ UNCHANGED <<kind, marker, window, told, calls, workerVars>>

-----------------------------------------------------------------------------

ApiWork ==
  \/ InsertEmail \/ InsertRows \/ Enqueue \/ RegisterUndoable \/ MarkUndoable \/ RemoveJob
  \/ \E q \in Undos : Reconcile(q) \/ RevertToDraft(q)

ApiNext ==
  \/ ApiWork
  \/ CloseWindow \/ Forget
  \/ \E q \in Undos : AskUndo(q)
  \/ Schedule \/ CancelSchedule
  \/ Restart

PipelineNext == (ApiNext /\ UNCHANGED listVars) \/ (MailNext /\ UNCHANGED apiVars)

PipelineSpec == PipelineInit /\ [][PipelineNext]_vars

\* Requests are carried out, delays end, and the workers work.
PipelineFairness ==
  /\ WF_vars(ApiWork /\ UNCHANGED listVars)
  /\ WF_vars(WorkerStep /\ UNCHANGED apiVars)
FairPipelineSpec == PipelineSpec /\ PipelineFairness

-----------------------------------------------------------------------------
(* properties *)

\* An answer "too late" is honest: the window has closed, or the email had no window,
\* or it is undone already, or the marker is missing and the entry is gone: lost in a
\* restart, or used up by another undo that is under way or has failed.
RefusedUndoIsLate ==
  [][\A q \in Undos : undo[q] # "refused" /\ undo'[q] = "refused" =>
       \/ window = "closed"
       \/ kind # "immediate"
       \/ "undone" \in told \/ "unavailable" \in told
       \/ ~marker /\ (restarts > 0 \/ "error" \in told \/ \E p \in Undos : undo[p] = "revert")]_vars

\* What the API has accepted is attempted to the end: its job is done, failed, or
\* removed because the user undid it.
AcceptedIsCarriedOut ==
  "accepted" \in told ~> job.st \in {"gone", "failed"}

\* "Email send cancelled. Moved to drafts." (the answer of undo)
UndoneIsNeverSent == [][told \cap {"undone", "scheduled"} = {"undone"} => sent' = sent]_vars
=============================================================================
