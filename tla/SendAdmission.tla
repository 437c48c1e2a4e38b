---------------------------- MODULE SendAdmission ----------------------------
(***************************************************************************)
(* What stands before the insert of an email and what follows its          *)
(* enqueueing, in POST /v1/messages of apps/api: the idempotency           *)
(* middleware, the quota, the pre-send gate, and the counter that is       *)
(* raised behind the answer's back.  Every await is a step.                *)
(*                                                                         *)
(* A message is what the client wants sent once: it repeats the request,   *)
(* with the same key, when it has seen no answer or does not trust it.     *)
(* Suppression, compliance, spam and anomaly checks are one refusal here;  *)
(* DomainWarmup models the warm-up limit, SendPipeline the rest.           *)
(***************************************************************************)
EXTENDS Integers, FiniteSets

CONSTANTS
  Messages,        \* messages of one account
  KeyInHeader,     \* those whose key is sent as Idempotency-Key
  KeyInBody,       \* those whose key is sent as message_id; the others carry none
  Posts,           \* requests in flight at once
  Quota,           \* emailsPerMonth of the plan
  MaxSubmits,      \* bound on the requests ever made
  AdmMaxFaults     \* bound on rejected Redis commands and dead processes

VARIABLES
  cache,           \* cache[m]: the answer kept under the key of m, NoEmail when there is none
  used,            \* the quota counter in Redis
  post,            \* post[q]: where request q is
  jobs,            \* jobs[m]: emails enqueued for m
  owed,            \* increments of the counter under way
  crowd,           \* crowd[m]: most requests for m that were past the cache at once (history)
  peak,            \* most requests ever admitted and not yet counted (history)
  submits,         \* requests so far (bounded)
  admFaults        \* faults so far (bounded)

admVars == <<cache, used, post, jobs, owed, crowd, peak, submits, admFaults>>

NoMessage == "no message"
ASSUME AdmAssumption ==
  /\ IsFiniteSet(Posts) /\ IsFiniteSet(Messages) /\ NoMessage \notin Messages
  /\ KeyInHeader \subseteq Messages /\ KeyInBody \subseteq Messages
  /\ Quota \in Nat \ {0} /\ AdmMaxFaults \in Nat

NoPost == [pc |-> "idle", message |-> NoMessage, key |-> FALSE]

AdmFault == admFaults < AdmMaxFaults /\ admFaults' = admFaults + 1

\* Requests the quota has let through that have not reached the counter, nor failed.
Admitted    == {q \in Posts : post[q].pc \in {"gate", "save", "enqueue"}}
Outstanding == Cardinality(Admitted) + owed
Reaches(n)  == peak' = IF n > peak THEN n ELSE peak

\* Requests for m that run the handler, or are about to have its answer kept; and one more.
Past(m)   == {q \in Posts : post[q].message = m /\ post[q].pc # "lookup"}
Enters(m) ==
  LET n == Cardinality(Past(m)) + 1 IN
  crowd' = [crowd EXCEPT ![m] = IF n > @ THEN n ELSE @]

AdmInit ==
  /\ cache = [m \in Messages |-> FALSE]
  /\ used = 0
  /\ post = [q \in Posts |-> NoPost]
  /\ jobs = [m \in Messages |-> 0]
  /\ owed = 0
  /\ crowd = [m \in Messages |-> 0]
  /\ peak = 0
  /\ submits = 0
  /\ admFaults = 0

-----------------------------------------------------------------------------

PostAt(q, pc) == post' = [post EXCEPT ![q].pc = pc]
Answered(q)   == post' = [post EXCEPT ![q] = NoPost]

\* What the middleware takes for the key: handleSend copies message_id into the
\* header, but by then the middleware has made up its mind.
MutNoKey(m) == FALSE
HasKey(m) == m \in KeyInHeader

\* A request arrives, for the first time or again.
Submit(q, m) ==
  /\ post[q].pc = "idle"
  /\ post' = [post EXCEPT ![q] =
       [pc |-> IF HasKey(m) THEN "lookup" ELSE "quota", message |-> m, key |-> HasKey(m)]]
  /\ IF HasKey(m) THEN UNCHANGED crowd ELSE Enters(m)
  /\ submits < MaxSubmits
  /\ submits' = submits + 1
  /\ UNCHANGED <<cache, used, jobs, owed, peak, admFaults>>

\* idempotency(): a cached answer is replayed; a failed look-up is taken for a miss.
Replay(q) ==
  /\ post[q].pc = "lookup"
  /\ \/ cache[post[q].message] /\ Answered(q) /\ UNCHANGED <<crowd, admFaults>>
     \/ ~cache[post[q].message] /\ PostAt(q, "quota") /\ Enters(post[q].message) /\ UNCHANGED admFaults
     \/ PostAt(q, "quota") /\ Enters(post[q].message) /\ AdmFault
  /\ UNCHANGED <<cache, used, jobs, owed, peak, submits>>

\* checkQuota compares the counter with the plan.  When Redis fails it counts events
\* of type email.queued, which nothing writes: everyone passes.
MutAtMost == used <= Quota
WithinQuota == used < Quota

CheckQuota(q) ==
  /\ post[q].pc = "quota"
  /\ \/ /\ IF WithinQuota
           THEN PostAt(q, "gate") /\ Reaches(Outstanding + 1)
           ELSE Answered(q) /\ UNCHANGED peak
        /\ UNCHANGED admFaults
     \/ PostAt(q, "gate") /\ Reaches(Outstanding + 1) /\ AdmFault
  /\ UNCHANGED <<cache, used, jobs, owed, crowd, submits>>

\* runPreSendGate: the quota once more, and then every other check.
Gate(q) ==
  /\ post[q].pc = "gate"
  /\ \/ WithinQuota /\ PostAt(q, "save") /\ UNCHANGED admFaults
     \/ PostAt(q, "save") /\ AdmFault
     \/ Answered(q) /\ UNCHANGED admFaults
  /\ UNCHANGED <<cache, used, jobs, owed, crowd, peak, submits>>

\* The email and its delivery rows are inserted.
Save(q) ==
  /\ post[q].pc = "save"
  /\ PostAt(q, "enqueue")
  /\ UNCHANGED <<cache, used, jobs, owed, crowd, peak, submits, admFaults>>

\* queue.add, and then recordSend and incrementQuota without waiting for either; a
\* rejected command is answered with 503, nothing is counted and nothing cached.
MutUncount == owed - 1
Counting == owed + 1

EnqueueJob(q) ==
  /\ post[q].pc = "enqueue"
  /\ \/ /\ jobs' = [jobs EXCEPT ![post[q].message] = @ + 1]
        /\ owed' = Counting
        /\ PostAt(q, "cache")
        /\ UNCHANGED admFaults
     \/ /\ AdmFault
        /\ Answered(q)
        /\ UNCHANGED <<jobs, owed>>
  /\ UNCHANGED <<cache, used, crowd, peak, submits>>

\* incrementQuota arrives, or is lost.
Count ==
  /\ owed > 0
  /\ owed' = owed - 1
  /\ \/ used' = used + 1 /\ UNCHANGED admFaults
     \/ AdmFault /\ UNCHANGED used
  /\ UNCHANGED <<cache, post, jobs, crowd, peak, submits>>

\* idempotency() again: the answer is kept before the client gets it.
Keep(q) ==
  /\ post[q].pc = "cache"
  /\ \/ /\ cache' = IF post[q].key THEN [cache EXCEPT ![post[q].message] = TRUE] ELSE cache
        /\ UNCHANGED admFaults
     \/ AdmFault /\ UNCHANGED cache
  /\ Answered(q)
  /\ UNCHANGED <<used, jobs, owed, crowd, peak, submits>>

\* The process dies with the request, or rejects a command of the database.
LosePost(q) ==
  /\ post[q].pc # "idle"
  /\ AdmFault
  /\ Answered(q)
  /\ UNCHANGED <<cache, used, jobs, owed, crowd, peak, submits>>

\* A day has passed since the answer was kept.
ForgetAnswer(m) ==
  /\ cache[m]
  /\ AdmFault
  /\ cache' = [cache EXCEPT ![m] = FALSE]
  /\ UNCHANGED <<used, post, jobs, owed, crowd, peak, submits>>

AdmNext ==
  \/ \E q \in Posts :
       \/ \E m \in Messages : Submit(q, m)
       \/ Replay(q) \/ CheckQuota(q) \/ Gate(q) \/ Save(q) \/ EnqueueJob(q) \/ Keep(q)
       \/ LosePost(q)
  \/ Count
  \/ \E m \in Messages : ForgetAnswer(m)

AdmSpec == AdmInit /\ [][AdmNext]_admVars

-----------------------------------------------------------------------------
(* properties *)

\* Type invariant: the shape of every variable, and nothing else.
AdmTypeOK ==
  /\ cache \in [Messages -> BOOLEAN]
  /\ used \in Nat
  /\ post \in [Posts -> [pc : {"idle", "lookup", "quota", "gate", "save", "enqueue", "cache"},
                         message : Messages \cup {NoMessage}, key : BOOLEAN]]
  /\ jobs \in [Messages -> Nat]
  /\ owed \in Nat
  /\ crowd \in [Messages -> Nat]
  /\ peak \in Nat
  /\ submits \in Nat
  /\ admFaults \in 0 .. AdmMaxFaults

\* Retries with a key send once. Only requests that run the handler at the same time may
\* each send, one email apiece: of all the requests ever made for one key no more emails come
\* than the most that were past the cache at once, as long as Redis and the processes work.
OneJobPerKey == admFaults = 0 => \A m \in KeyInHeader : jobs[m] <= crowd[m]

\* The emails sent: the i-th one that was enqueued for message m.
Emails == UNION {{m} \X (1 .. jobs[m]) : m \in Messages}
Sent == Cardinality(Emails)

\* The quota is checked before and counted after, so it is exceeded, but by no more than
\* the most requests that were ever between the two.
OvershootIsBounded == admFaults = 0 => Sent <= Quota - 1 + peak

\* "Retry the same POST (same `message_id`) - confirm NO duplicate email"
\* (docs/infra/vapron-migration-type2.md).
OneJobPerMessageId == admFaults = 0 => \A m \in KeyInBody : jobs[m] <= crowd[m]
=============================================================================
