----------------------------- MODULE DlqProcessor -----------------------------
(***************************************************************************)
(* apps/api/src/lib/dlq-processor.ts: what happens to an email whose job   *)
(* has used up its attempts.  Every 15 minutes each API process looks      *)
(* through the failed jobs, adds a retry due in an hour, and removes the   *)
(* failed job.  Job k + 1 is the retry of job k; job 0 is the original.    *)
(*                                                                         *)
(* Each process keeps its records in memory (dlqStore) and writes them     *)
(* through to the table dlq_records, without waiting and without order.    *)
(* The queue rejects a command, or the write is lost, MaxFaults times.     *)
(* The page of 101 failed jobs that a pass reads is never full here.       *)
(***************************************************************************)
EXTENDS Integers, FiniteSets

CONSTANTS
  Processes,     \* API processes
  MaxRetries,    \* bound on the retries of one email
  MaxRestarts,   \* bound on restarts of API processes
  MaxFaults,     \* bound on commands rejected and writes lost
  MaxClears      \* bound on records an administrator clears

ASSUME ProcessAssumption == IsFiniteSet(Processes)
ASSUME RetryAssumption == MaxRetries \in Nat \ {0}
ASSUME BoundAssumption == MaxRestarts \in Nat /\ MaxFaults \in Nat /\ MaxClears \in Nat

Jobs == 0 .. MaxRetries
\* What dlqStore is keyed by: a job, or the marker that its retry has been scheduled.
Keys == {"record", "marker"} \X Jobs

VARIABLES
  queue,         \* queue[k]: where job k is
  store,         \* store[p]: dlqStore of process p
  table,         \* the table dlq_records
  writes,        \* writes to the table under way: process, key and value
  pass,          \* pass[p]: where processDLQ of process p is, and the jobs it still has to do
  sent,          \* some job of the email has been carried out (history)
  restarts, faults, clears   \* so far (bounded)

vars == <<queue, store, table, writes, pass, sent, restarts, faults, clears>>

Nothing == [key \in Keys |-> "none"]
Asleep  == [pc |-> "asleep", todo |-> {}, at |-> 0]

Init ==
  /\ queue = [k \in Jobs |-> IF k = 0 THEN "waiting" ELSE "none"]
  /\ store = [p \in Processes |-> Nothing]
  /\ table = Nothing
  /\ writes = {}
  /\ pass = [p \in Processes |-> Asleep]
  /\ sent = FALSE
  /\ restarts = 0 /\ faults = 0 /\ clears = 0

Fault == faults < MaxFaults /\ faults' = faults + 1

\* Process p notes v under key, and sends it to the table.
Note(p, key, v) ==
  /\ store' = [store EXCEPT ![p][key] = v]
  /\ writes' = writes \cup {<<p, key, v>>}

-----------------------------------------------------------------------------
(* processDLQ *)

\* What the table holds replaces what the process knew, except a permanent failure.
MutTrustTable(p) == [key \in Keys |-> IF table[key] = "none" THEN store[p][key] ELSE table[key]]
Hydrated(p) ==
  [key \in Keys |-> IF table[key] = "none" \/ store[p][key] = "permanently_failed"
                    THEN store[p][key] ELSE table[key]]

Hydrate(p) ==
  /\ pass[p].pc = "asleep"
  /\ \/ store' = [store EXCEPT ![p] = Hydrated(p)] /\ UNCHANGED faults
     \/ Fault /\ UNCHANGED store
  /\ pass' = [pass EXCEPT ![p].pc = "fetch"]
  /\ UNCHANGED <<queue, table, writes, sent, restarts, clears>>

\* The pass works on the failed jobs of this moment.
Fetch(p) ==
  /\ pass[p].pc = "fetch"
  /\ pass' = [pass EXCEPT ![p].pc = "next", ![p].todo = {k \in Jobs : queue[k] = "failed"}]
  /\ UNCHANGED <<queue, store, table, writes, sent, restarts, faults, clears>>

\* processFailedJob, up to its first await: a job known to have failed for good is
\* left alone, one without a marker gets a retry, one with a marker has failed for good.
Examine(p) ==
  /\ pass[p].pc = "next"
  /\ \E k \in pass[p].todo :
       \/ /\ store[p][<<"record", k>>] = "permanently_failed"
          /\ pass' = [pass EXCEPT ![p].todo = @ \ {k}]
          /\ UNCHANGED <<store, writes>>
       \/ /\ store[p][<<"record", k>>] # "permanently_failed"
          /\ store[p][<<"marker", k>>] = "none"
          /\ k < MaxRetries
          /\ Note(p, <<"record", k>>, "pending_retry")
          /\ pass' = [pass EXCEPT ![p].pc = "add", ![p].at = k, ![p].todo = @ \ {k}]
       \/ /\ store[p][<<"record", k>>] # "permanently_failed"
          /\ store[p][<<"marker", k>>] # "none"
          /\ Note(p, <<"record", k>>, "permanently_failed")
          /\ pass' = [pass EXCEPT ![p].pc = "remove", ![p].at = k, ![p].todo = @ \ {k}]
  /\ UNCHANGED <<queue, table, sent, restarts, faults, clears>>

\* queue.add under the id of the retry, which does nothing when that id is there.
WithRetryOf(k) == IF queue[k + 1] = "none" THEN [queue EXCEPT ![k + 1] = "waiting"] ELSE queue

\* Rejected, the job is recorded as failed for good, and stays in the queue.
MutRemoveAnyway(p) ==
  LET k == pass[p].at IN
  /\ pass[p].pc = "add"
  /\ \/ /\ queue' = WithRetryOf(k)
        /\ Note(p, <<"marker", k>>, "pending_retry")
        /\ UNCHANGED faults
     \/ /\ Fault
        /\ Note(p, <<"record", k>>, "permanently_failed")
        /\ UNCHANGED queue
  /\ pass' = [pass EXCEPT ![p].pc = "remove"]
  /\ UNCHANGED <<table, sent, restarts, clears>>
MutNoMarker(p) ==
  LET k == pass[p].at IN
  /\ pass[p].pc = "add"
  /\ queue' = WithRetryOf(k)
  /\ pass' = [pass EXCEPT ![p].pc = "remove"]
  /\ UNCHANGED <<store, table, writes, sent, restarts, faults, clears>>
AddRetry(p) ==
  LET k == pass[p].at IN
  /\ pass[p].pc = "add"
  /\ \/ /\ queue' = WithRetryOf(k)
        /\ Note(p, <<"marker", k>>, "pending_retry")
        /\ pass' = [pass EXCEPT ![p].pc = "remove"]
        /\ UNCHANGED faults
     \/ /\ Fault
        /\ Note(p, <<"record", k>>, "permanently_failed")
        /\ pass' = [pass EXCEPT ![p].pc = "next"]
        /\ UNCHANGED queue
  /\ UNCHANGED <<table, sent, restarts, clears>>

\* job.remove() of the failed job; that it is rejected is ignored.
RemoveFailed(p) ==
  /\ pass[p].pc = "remove"
  /\ \/ queue' = [queue EXCEPT ![pass[p].at] = "none"] /\ UNCHANGED faults
     \/ Fault /\ UNCHANGED queue
  /\ pass' = [pass EXCEPT ![p].pc = "next"]
  /\ UNCHANGED <<store, table, writes, sent, restarts, clears>>

EndPass(p) ==
  /\ pass[p].pc = "next"
  /\ pass[p].todo = {}
  /\ pass' = [pass EXCEPT ![p] = Asleep]
  /\ UNCHANGED <<queue, store, table, writes, sent, restarts, faults, clears>>

-----------------------------------------------------------------------------
(* the table, the administrator, and the world *)

\* One of the writes under way reaches the table, or is lost.
Persist ==
  \E x \in writes :
    /\ writes' = writes \ {x}
    /\ \/ table' = [table EXCEPT ![x[2]] = x[3]] /\ UNCHANGED faults
       \/ Fault /\ UNCHANGED table
    /\ UNCHANGED <<queue, store, pass, sent, restarts, clears>>

\* clearDlqRecord: the record, not the marker.
Clear(p) ==
  /\ clears < MaxClears
  /\ clears' = clears + 1
  /\ \E k \in Jobs : store[p][<<"record", k>>] # "none" /\ Note(p, <<"record", k>>, "none")
  /\ UNCHANGED <<queue, table, pass, sent, restarts, faults>>

\* A worker carries the job out, or gives it up.
Attempt ==
  \E k \in Jobs :
    /\ queue[k] = "waiting"
    /\ \/ queue' = [queue EXCEPT ![k] = "failed"] /\ UNCHANGED sent
       \/ queue' = [queue EXCEPT ![k] = "none"] /\ sent' = TRUE
    /\ UNCHANGED <<store, table, writes, pass, restarts, faults, clears>>

\* A process restarts: its memory and its writes are gone.
Restart(p) ==
  /\ restarts < MaxRestarts
  /\ restarts' = restarts + 1
  /\ store' = [store EXCEPT ![p] = Nothing]
  /\ writes' = {x \in writes : x[1] # p}
  /\ pass' = [pass EXCEPT ![p] = Asleep]
  /\ UNCHANGED <<queue, table, sent, faults, clears>>

Next ==
  \/ \E p \in Processes : \/ Hydrate(p) \/ Fetch(p) \/ Examine(p) \/ AddRetry(p)
                          \/ RemoveFailed(p) \/ EndPass(p) \/ Clear(p) \/ Restart(p)
  \/ Persist
  \/ Attempt

Spec == Init /\ [][Next]_vars

-----------------------------------------------------------------------------
(* properties *)

Marks == {"none", "pending_retry", "permanently_failed"}

\* Type invariant: the shape of every variable, and nothing else.
TypeOK ==
  /\ queue \in [Jobs -> {"none", "waiting", "failed"}]
  /\ store \in [Processes -> [Keys -> Marks]]
  /\ table \in [Keys -> Marks]
  /\ writes \subseteq Processes \X Keys \X Marks
  /\ pass \in [Processes -> [pc : {"asleep", "fetch", "next", "add", "remove"},
                             todo : SUBSET Jobs, at : Jobs]]
  /\ sent \in BOOLEAN
  /\ restarts \in 0 .. MaxRestarts /\ faults \in 0 .. MaxFaults /\ clears \in 0 .. MaxClears

\* No email is lost on its way through the dead letters: until one of its jobs has
\* been carried out, one of them is in the queue, whatever fails, restarts or is cleared.
NothingLost == sent \/ \E k \in Jobs : queue[k] # "none"

\* One process that does not restart never has two retries of an email in the queue,
\* which would send it twice.
OneRetryAtATime ==
  Cardinality(Processes) = 1 /\ restarts = 0 => Cardinality({k \in Jobs : queue[k] = "waiting"}) <= 1

\* "never downgrade a permanently_failed record already known in-process" (the comment
\* of hydrateDlqStore): only a restart or the administrator makes a process forget one.
NeverDowngraded ==
  [][\A p \in Processes, k \in Jobs :
       store[p][<<"record", k>>] = "permanently_failed" /\ restarts' = restarts /\ clears' = clears
         => store'[p][<<"record", k>>] = "permanently_failed"]_vars

\* "Auto-retries once after 1 hour" (the header of dlq-processor.ts).
RetriedOnce == \A k \in Jobs : k > 1 => queue[k] = "none"
=============================================================================
