--------------------------- MODULE DeliveryProofs ----------------------------
(***************************************************************************)
(* Proofs about MtaWorker, for any number of recipients, runs, attempts,   *)
(* lapsed locks, faults and changes to the suppression list, with and      *)
(* without relay and DKIM requirement; and about SendPipeline, for any     *)
(* number of requests to undo, calls, restarts and faults, where the same  *)
(* worker starts later and may lose its job to an undo.                    *)
(***************************************************************************)
EXTENDS SendPipeline, FiniteSetTheorems, TLAPS

-----------------------------------------------------------------------------
(***************************************************************************)
(* MtaWorker: types, copies and rows                                       *)
(***************************************************************************)

(* types *)

RunType == [pc : PCs, attempt : 0 .. MaxAttempts, domain : Domains \cup {None},
            paced : SUBSET Recipients, relay : SUBSET Recipients,
            direct : SUBSET Recipients, at : Recipients \cup {None},
            event : RelayEvents \cup DirectEvents \cup {None},
            verdicts : SUBSET Verdicts, ok : BOOLEAN]
JobType == [st : {"none", "delayed", "waiting", "active", "failed", "gone"}, made : 0 .. MaxAttempts,
            stalls : 0 .. (MaxStalled + 1), owner : Runs \cup {None}]
RowStates == {"none", "queued", "dropped"} \cup Verdicts

\* The shape of the variables, also before the email is saved and after it has become
\* a draft again (SendPipeline): TypeOK and what the send endpoints add to it.
Shape ==
  /\ status \in Statuses \cup {"none", "draft"}
  /\ result \in [Recipients -> RowStates]
  /\ suppressed \in SUBSET Recipients
  /\ job \in JobType
  /\ run \in [Runs -> RunType]
  /\ sent \in [Recipients -> Nat]
  /\ lapses \in 0 .. MaxLapses
  /\ faults \in 0 .. MaxFaults

\* A job that may still be handed out has attempts and stalls left, it is active
\* exactly while a run holds its lock, and a verdict is about a recipient.
JobFits ==
  /\ job.st = "active" <=> job.owner \in Runs
  /\ job.st \in {"delayed", "waiting", "active"} => job.made < MaxAttempts /\ job.stalls <= MaxStalled
VerdictsFit == \A w \in Runs : run[w].pc \in {"record", "suppress"} => run[w].at \in Recipients

Typed == Shape /\ JobFits /\ VerdictsFit

LEMMA IdleType == Idle \in RunType
BY AttemptAssumption DEF Idle, RunType, PCs, None

\* A run that is over stands at its end and knows how it went.
LEMMA SpentType == ASSUME NEW ok \in BOOLEAN PROVE Spent(ok) \in RunType /\ Spent(ok).pc = "end" /\ Spent(ok).ok = ok
<1>1. Spent(ok) \in RunType
  BY ZenonT(40), IdleType DEF Spent, RunType, PCs
<1>2. Spent(ok).pc = "end" /\ Spent(ok).ok = ok
  BY DEF Spent, Idle
<1> QED
  BY <1>1, <1>2

LEMMA RunIsOver ==
  ASSUME run \in [Runs -> RunType], NEW w \in Runs, Finish(w) \/ Throw(w)
  PROVE  run'[w].pc = "end" /\ \A u \in Runs : u # w => run'[u] = run[u]
BY SpentType DEF Finish, Throw, Over

LEMMA VerdictType ==
  /\ \A e : RelayVerdict(e) \in Verdicts
  /\ \A e, n : DirectVerdict(e, n) \in Verdicts
BY DEF RelayVerdict, DirectVerdict, Verdicts

LEMMA RowsType ==
  ASSUME Shape, NEW S, NEW v \in RowStates
  PROVE  Rows(S, v) \in [Recipients -> RowStates]
BY DEF Shape, Rows

\* One run that changes, to a well-typed record, keeps the runs well typed.
LEMMA RunTypeBy ==
  ASSUME Shape, NEW w \in Runs, NEW x \in RunType, run' = [run EXCEPT ![w] = x]
  PROVE  run' \in [Runs -> RunType]
BY DEF Shape, RunType

LEMMA TypedInit == Init => Typed
<1> SUFFICES ASSUME Init PROVE Typed
  OBVIOUS
<1>1. run \in [Runs -> RunType]
  BY IdleType DEF Init
<1>2. job \in JobType
  BY AttemptAssumption DEF Init, JobType
<1>3. Shape
  BY <1>1, <1>2, WorldAssumption DEF Init, Shape, RowStates, Statuses
<1>4. JobFits
  BY RunAssumption, AttemptAssumption DEF Init, JobFits
<1>5. VerdictsFit
  BY DEF Init, VerdictsFit, Idle
<1> QED
  BY <1>3, <1>4, <1>5 DEF Typed

\* A step of processJob that leaves the job alone keeps the types, if it does so
\* to what it writes.
LEMMA TypedBy ==
  ASSUME Typed, UNCHANGED job, lapses' = lapses, faults' \in 0 .. MaxFaults,
         status' \in Statuses \cup {"none", "draft"},
         result' \in [Recipients -> RowStates],
         suppressed' \in SUBSET Recipients,
         sent' \in [Recipients -> Nat],
         NEW w \in Runs, NEW x \in RunType, run' = [run EXCEPT ![w] = x],
         x.pc \in {"record", "suppress"} => x.at \in Recipients
  PROVE  Typed'
<1>1. run' \in [Runs -> RunType]
  BY RunTypeBy DEF Typed
<1>2. Shape'
  BY <1>1 DEF Typed, Shape, RunType
<1>3. JobFits'
  BY DEF Typed, JobFits
<1>4. VerdictsFit'
  BY DEF Typed, Shape, VerdictsFit
<1> QED
  BY <1>2, <1>3, <1>4 DEF Typed

\* A job whose run is over, and a stalled one, fit.
LEMMA EndedFits ==
  ASSUME job \in JobType, JobFits, NEW w \in Runs, job' = Ended(w)
  PROVE  job' \in JobType /\ JobFits'
<1>0. None \notin Runs
  BY RunAssumption
<1>1. CASE job.owner # w
  BY <1>1 DEF Ended, JobFits
<1>2. CASE job.owner = w
  <2>1. job.st = "active" /\ job.made < MaxAttempts /\ job.stalls <= MaxStalled
    BY <1>2 DEF JobFits
  <2>2. job.made + 1 \in 0 .. MaxAttempts /\ job.stalls \in 0 .. (MaxStalled + 1)
    BY <2>1, AttemptAssumption DEF JobType
  <2>3. CASE run[w].ok
    BY <1>0, <1>2, <2>3 DEF Ended, JobType, JobFits
  <2>4. CASE ~run[w].ok
    <3>1. job' = [st |-> IF job.made + 1 < MaxAttempts THEN "delayed" ELSE "failed",
                  made |-> job.made + 1, stalls |-> job.stalls, owner |-> None]
      BY <1>2, <2>4 DEF Ended, JobType
    <3> QED
      BY <1>0, <2>1, <2>2, <3>1 DEF JobType, JobFits
  <2> QED
    BY <2>3, <2>4
<1> QED
  BY <1>1, <1>2

LEMMA StalledFits ==
  ASSUME job \in JobType, JobFits, job.st = "active", job' = Stalled
  PROVE  job' \in JobType /\ JobFits'
<1>1. None \notin Runs
  BY RunAssumption
<1>2. job.made < MaxAttempts /\ job.stalls + 1 \in 0 .. (MaxStalled + 1)
  BY AttemptAssumption DEF JobType, JobFits
<1>3. job' = [st |-> IF job.stalls < MaxStalled THEN "waiting" ELSE "failed",
              made |-> job.made, stalls |-> job.stalls + 1, owner |-> None]
  BY DEF Stalled, JobType
<1>4. job.stalls < MaxStalled => job.stalls + 1 <= MaxStalled
  BY AttemptAssumption DEF JobType
<1> QED
  BY <1>1, <1>2, <1>3, <1>4 DEF JobType, JobFits

\* The actions of processJob, each with the record it makes of its run.
LEMMA TypedWork == ASSUME Typed, NEW w \in Runs, Work(w) PROVE Typed'
<1> USE DEF Typed, RowStates
<1>0. /\ run[w] \in RunType
      /\ run \in [Runs -> RunType]
      /\ faults \in 0 .. MaxFaults
      /\ Fault => faults' \in 0 .. MaxFaults
  BY WorldAssumption DEF Shape, RunType, Fault
<1>1. CASE MarkProcessing(w)
  <2> DEFINE x == [run[w] EXCEPT !.pc = "sign"]
  <2>1. x \in RunType /\ x.pc = "sign" /\ run' = [run EXCEPT ![w] = x]
    BY <1>0, <1>1 DEF MarkProcessing, Goto, RunType, PCs
  <2> HIDE DEF x
  <2> QED
    BY <1>1, <2>1, TypedBy DEF MarkProcessing, Shape, Statuses
<1>2. CASE Sign(w)
  <2>1. PICK d \in Domains :
          run' = [run EXCEPT ![w].pc = IF d # "signed" /\ RequireDkim THEN "hold" ELSE "plan",
                             ![w].domain = d]
    BY <1>2 DEF Sign
  <2> DEFINE x == [run[w] EXCEPT !.pc = IF d # "signed" /\ RequireDkim THEN "hold" ELSE "plan",
                                 !.domain = d]
  <2>2. x \in RunType /\ x.pc \in {"hold", "plan"} /\ run' = [run EXCEPT ![w] = x]
    BY ZenonT(40), <1>0, <2>1 DEF RunType, PCs
  <2> HIDE DEF x
  <2> QED
    BY <1>2, <2>2, TypedBy DEF Sign, Shape
<1>3. CASE Hold(w)
  <2> DEFINE x == [run[w] EXCEPT !.pc = "release"]
  <2>1. x \in RunType /\ x.pc = "release" /\ run' = [run EXCEPT ![w] = x]
    BY <1>0, <1>3 DEF Hold, Goto, RunType, PCs
  <2>2. result' \in [Recipients -> RowStates]
    BY <1>3, RowsType DEF Hold, Verdicts
  <2> HIDE DEF x
  <2> QED
    BY <1>3, <2>1, <2>2, TypedBy DEF Hold, Shape
<1>4. CASE Release(w)
  <2> DEFINE x == [run[w] EXCEPT !.pc = "end"]
  <2>1. x \in RunType /\ x.pc = "end" /\ run' = [run EXCEPT ![w] = x]
    BY <1>0, <1>4 DEF Release, Goto, RunType, PCs
  <2> HIDE DEF x
  <2> QED
    BY <1>4, <2>1, TypedBy DEF Release, Shape, Statuses
<1>5. CASE Plan(w)
  <2> DEFINE open == Recipients \ Suppressions(w)
  <2>1. PICK allowed \in SUBSET open :
          run' = [run EXCEPT
            ![w].pc     = "drop",
            ![w].direct = allowed,
            ![w].relay  = IF RelayMode = "none" THEN {} ELSE open \ allowed,
            ![w].paced  = IF RelayMode = "none" THEN open \ allowed ELSE {}]
    BY <1>5 DEF Plan
  <2> HIDE DEF open
  <2> DEFINE x == [run[w] EXCEPT !.pc = "drop", !.direct = allowed,
                                 !.relay  = IF RelayMode = "none" THEN {} ELSE open \ allowed,
                                 !.paced  = IF RelayMode = "none" THEN open \ allowed ELSE {}]
  <2>2. open \subseteq Recipients
    BY DEF open
  <2>3. x \in RunType /\ x.pc = "drop" /\ run' = [run EXCEPT ![w] = x]
    BY ZenonT(40), <1>0, <2>1, <2>2 DEF RunType, PCs
  <2> HIDE DEF x
  <2> QED
    BY <1>5, <2>3, TypedBy DEF Plan, Shape
<1>6. CASE Drop(w)
  <2> DEFINE x == [run[w] EXCEPT !.pc = "pace"]
  <2>1. x \in RunType /\ x.pc = "pace" /\ run' = [run EXCEPT ![w] = x]
    BY SMTT(30), <1>0, <1>6 DEF Drop, Goto, RunType, PCs
  <2>2. result' \in [Recipients -> RowStates]
    BY <1>6, RowsType DEF Drop
  <2> HIDE DEF x
  <2> QED
    BY <1>6, <2>1, <2>2, TypedBy DEF Drop, Shape
<1>7. CASE Pace(w)
  <2> DEFINE x == [run[w] EXCEPT !.pc = IF run[w].relay # {} THEN "relay" ELSE "direct",
                                 !.verdicts = IF run[w].paced # {} THEN {"deferred"} ELSE {}]
  <2>1. x \in RunType /\ x.pc \in {"relay", "direct"} /\ run' = [run EXCEPT ![w] = x]
    BY ZenonT(40), <1>0, <1>7 DEF Pace, RunType, PCs, Verdicts
  <2>2. result' \in [Recipients -> RowStates]
    BY <1>7, RowsType DEF Pace, Verdicts
  <2> HIDE DEF x
  <2> QED
    BY ZenonT(40), <1>7, <2>1, <2>2, TypedBy DEF Pace, Shape
<1>8. CASE Relay(w)
  <2>1. PICK e \in RelayEvents :
          /\ run' = [run EXCEPT ![w].pc = "relayed", ![w].event = e]
          /\ sent' = [r \in Recipients |->
                        IF r \in run[w].relay /\ Arrives(e) THEN sent[r] + 1 ELSE sent[r]]
    BY <1>8 DEF Relay
  <2> DEFINE x == [run[w] EXCEPT !.pc = "relayed", !.event = e]
  <2>2. x \in RunType /\ x.pc = "relayed" /\ run' = [run EXCEPT ![w] = x]
    BY <1>0, <2>1 DEF RunType, PCs
  <2>3. sent' \in [Recipients -> Nat]
    BY <2>1 DEF Shape
  <2> HIDE DEF x
  <2> QED
    BY <1>8, <2>2, <2>3, TypedBy DEF Relay, Shape
<1>9. CASE Relayed(w)
  <2>1. PICK v \in Verdicts : v = RelayVerdict(run[w].event)
    BY VerdictType
  <2> DEFINE x == [run[w] EXCEPT !.pc = "direct", !.relay = {}, !.event = None,
                                 !.verdicts = run[w].verdicts \cup {v}]
  <2>2. x \in RunType /\ x.pc = "direct" /\ run' = [run EXCEPT ![w] = x]
    BY ZenonT(40), <1>0, <1>9, <2>1 DEF Relayed, RunType, PCs
  <2>3. result' \in [Recipients -> RowStates]
    BY <1>9, <2>1, RowsType DEF Relayed
  <2> HIDE DEF x
  <2> QED
    BY ZenonT(40), <1>9, <2>2, <2>3, TypedBy DEF Relayed, Shape
<1>10. CASE Deliver(w)
  <2>1. PICK r \in run[w].direct, e \in DirectEvents :
          /\ run' = [run EXCEPT ![w].pc = "record", ![w].at = r, ![w].event = e]
          /\ sent' = IF Arrives(e) THEN [sent EXCEPT ![r] = @ + 1] ELSE sent
    BY <1>10 DEF Deliver
  <2>2. r \in Recipients
    BY <1>0 DEF RunType
  <2> DEFINE x == [run[w] EXCEPT !.pc = "record", !.at = r, !.event = e]
  <2>3. x \in RunType /\ x.at = r /\ run' = [run EXCEPT ![w] = x]
    BY <1>0, <2>1, <2>2 DEF RunType, PCs
  <2>4. sent' \in [Recipients -> Nat]
    BY <2>1, <2>2 DEF Shape
  <2> HIDE DEF x
  <2> QED
    BY <1>10, <2>2, <2>3, <2>4, TypedBy DEF Deliver, Shape
<1>11. CASE RecordVerdict(w)
  <2>1. PICK v \in Verdicts : v = DirectVerdict(run[w].event, run[w].attempt)
    BY VerdictType
  <2> DEFINE x == [run[w] EXCEPT !.pc = IF v = "bounced" /\ run[w].domain # "gone" THEN "suppress" ELSE "direct",
                                 !.direct = run[w].direct \ {run[w].at}, !.event = None,
                                 !.verdicts = run[w].verdicts \cup {v}]
  <2>2. x \in RunType /\ x.at = run[w].at /\ run' = [run EXCEPT ![w] = x]
    BY ZenonT(40), <1>0, <1>11, <2>1 DEF RecordVerdict, RunType, PCs
  <2>3. result' \in [Recipients -> RowStates]
    BY <1>11, <2>1, RowsType DEF RecordVerdict
  <2>4. run[w].at \in Recipients
    BY <1>11 DEF RecordVerdict, VerdictsFit
  <2> HIDE DEF x
  <2> QED
    BY ZenonT(40), <1>11, <2>2, <2>3, <2>4, TypedBy DEF RecordVerdict, Shape
<1>12. CASE Suppress(w)
  <2> DEFINE x == [run[w] EXCEPT !.pc = "direct"]
  <2>1. x \in RunType /\ x.pc = "direct" /\ run' = [run EXCEPT ![w] = x]
    BY <1>0, <1>12 DEF Suppress, Goto, RunType, PCs
  <2>2. suppressed' \in SUBSET Recipients /\ faults' \in 0 .. MaxFaults
    BY <1>0, <1>12 DEF Suppress, Shape, VerdictsFit
  <2> HIDE DEF x
  <2> QED
    BY <1>12, <2>1, <2>2, TypedBy DEF Suppress, Shape
<1>13. CASE Finish(w)
  <2> DEFINE x == Spent("deferred" \notin run[w].verdicts)
  <2>1. x \in RunType /\ x.pc = "end" /\ run' = [run EXCEPT ![w] = x]
    BY <1>13, SpentType DEF Finish, Over
  <2>2. status' \in Statuses
    BY <1>13 DEF Finish, Overall, Statuses
  <2> HIDE DEF x
  <2> QED
    BY ZenonT(40), <1>13, <2>1, <2>2, TypedBy DEF Finish, Shape
<1>14. CASE End(w)
  <2>1. run' \in [Runs -> RunType]
    BY <1>14, IdleType, RunTypeBy DEF End
  <2>2. job' = Ended(w) /\ JobFits /\ job \in JobType
    BY <1>14 DEF End, Shape, JobType
  <2>3. job' \in JobType /\ JobFits'
    BY <2>2, EndedFits
  <2>4. VerdictsFit'
    BY <1>0, <1>14 DEF End, VerdictsFit, Idle
  <2> QED
    BY <1>14, <2>1, <2>3, <2>4 DEF End, Shape, RunType, JobType
<1> QED
  BY <1>1, <1>2, <1>3, <1>4, <1>5, <1>6, <1>7, <1>8, <1>9, <1>10, <1>11, <1>12, <1>13, <1>14
  DEF Work

LEMMA TypedStep == Typed /\ [WorkerNext]_workerVars => Typed'
<1> SUFFICES ASSUME Typed, [WorkerNext]_workerVars PROVE Typed'
  OBVIOUS
<1> USE DEF Typed
<1>0. /\ run \in [Runs -> RunType]
      /\ job \in JobType
      /\ Fault => faults' \in 0 .. MaxFaults
  BY WorldAssumption DEF Shape, RunType, JobType, Fault
<1>1. ASSUME NEW w \in Runs, Work(w) PROVE Typed'
  BY <1>1, TypedWork
<1>2. ASSUME NEW w \in Runs, Claim(w) PROVE Typed'
  <2> DEFINE x == [Idle EXCEPT !.pc = "mark", !.attempt = job.made]
  <2>1. x \in RunType /\ x.pc = "mark" /\ run' = [run EXCEPT ![w] = x]
    BY <1>0, <1>2, IdleType DEF Claim, RunType, JobType, PCs
  <2> HIDE DEF x
  <2>2. run' \in [Runs -> RunType]
    BY <2>1, RunTypeBy
  <2>3. job' \in JobType /\ JobFits'
    BY <1>0, <1>2 DEF Claim, JobType, JobFits
  <2>4. VerdictsFit'
    BY <1>0, <2>1 DEF VerdictsFit
  <2> QED
    BY <1>2, <2>2, <2>3, <2>4 DEF Claim, Shape, RunType, JobType
<1>3. ASSUME NEW w \in Runs, Throw(w) PROVE Typed'
  <2> DEFINE x == Spent(FALSE)
  <2>1. x \in RunType /\ x.pc = "end"
    BY SpentType
  <2>2. run' = [run EXCEPT ![w] = x]
    BY <1>3 DEF Throw, Over
  <2> HIDE DEF x
  <2> QED
    BY ZenonT(40), <1>0, <1>3, <2>1, <2>2, TypedBy DEF Throw, Shape
<1>4. ASSUME NEW w \in Runs, Crash(w) PROVE Typed'
  BY <1>0, <1>4, IdleType, TypedBy DEF Crash, Shape, Idle
<1>5. CASE Due
  BY <1>0, <1>5 DEF Due, Shape, JobType, JobFits, VerdictsFit
<1>6. CASE Stall
  <2>1. job' \in JobType /\ JobFits'
    BY <1>0, <1>6, StalledFits DEF Stall
  <2>2. lapses' \in 0 .. MaxLapses
    BY <1>6, WorldAssumption DEF Stall, Shape
  <2> QED
    BY <1>6, <2>1, <2>2 DEF Stall, Shape, JobType, VerdictsFit
<1>7. CASE UNCHANGED workerVars
  BY <1>7 DEF workerVars, Shape, JobFits, VerdictsFit
<1> QED
  BY <1>1, <1>2, <1>3, <1>4, <1>5, <1>6, <1>7 DEF WorkerNext

\* The email and its rows are saved, and its job was added.
RowsWritten == \A r \in Recipients : result[r] # "none"
Begun == status \in Statuses /\ RowsWritten /\ job.st # "none"

LEMMA BegunInit == Init => Begun
BY DEF Init, Begun, RowsWritten, Statuses

\* The worker writes nothing that un-saves an email or takes its job away.
LEMMA StatusKept == [WorkerNext]_workerVars => status' = status \/ status' \in Statuses
<1> SUFFICES ASSUME [WorkerNext]_workerVars PROVE status' = status \/ status' \in Statuses
  OBVIOUS
<1>1. CASE UNCHANGED status
  BY <1>1
<1>2. ASSUME NEW w \in Runs, MarkProcessing(w) \/ Release(w) \/ Finish(w)
      PROVE  status' \in Statuses
  BY <1>2 DEF MarkProcessing, Release, Finish, Over, Spent, Idle, Overall, Statuses
<1> QED
  BY ZenonT(40), <1>1, <1>2
  DEF WorkerNext, Claim, Throw, Over, Spent, Idle, Crash, Due, Stall, workerVars, Work, Sign, Hold, Plan, Drop, Pace,
      Relay, Relayed, Deliver, RecordVerdict, Suppress, End

LEMMA RowsKept == RowsWritten /\ [WorkerNext]_workerVars => RowsWritten'
<1> USE DEF RowsWritten
<1> SUFFICES ASSUME RowsWritten, [WorkerNext]_workerVars PROVE \A r \in Recipients : result'[r] # "none"
  OBVIOUS
<1>0. "none" \notin Verdicts
  BY DEF Verdicts
<1>1. CASE UNCHANGED result
  BY <1>1
<1>2. ASSUME NEW w \in Runs,
             \/ Hold(w) \/ Drop(w) \/ Pace(w) \/ Relayed(w) \/ RecordVerdict(w)
      PROVE  \A r \in Recipients : result'[r] # "none"
  <2>1. ASSUME NEW v, NEW S, v # "none", result' = Rows(S, v)
        PROVE  \A r \in Recipients : result'[r] # "none"
    BY <2>1 DEF Rows
  <2>2. CASE Hold(w) \/ Drop(w) \/ Pace(w)
    BY <2>1, <2>2 DEF Hold, Drop, Pace
  <2>3. CASE Relayed(w)
    BY <1>0, <2>1, <2>3, VerdictType DEF Relayed
  <2>4. CASE RecordVerdict(w)
    BY SMTT(30), <1>0, <2>1, <2>4, VerdictType DEF RecordVerdict
  <2> QED
    BY <1>2, <2>2, <2>3, <2>4
<1> QED
  BY ZenonT(40), <1>1, <1>2
  DEF WorkerNext, Claim, Throw, Crash, Due, Stall, workerVars, Work, MarkProcessing, Sign, Release,
      Plan, Relay, Deliver, Suppress, Finish, Over, Spent, Idle, End

LEMMA JobKept == Shape /\ job.st # "none" /\ [WorkerNext]_workerVars => job'.st # "none"
<1> SUFFICES ASSUME Shape, job.st # "none", [WorkerNext]_workerVars PROVE job'.st # "none"
  OBVIOUS
<1>0. job \in JobType
  BY DEF Shape
<1>1. CASE UNCHANGED job
  BY <1>1
<1>2. ASSUME NEW w \in Runs, Claim(w) \/ End(w) PROVE job'.st # "none"
  BY ZenonT(40), <1>0, <1>2 DEF Claim, End, Ended, JobType
<1>3. CASE Due \/ Stall
  BY <1>0, <1>3 DEF Due, Stall, Stalled, JobType
<1> QED
  BY ZenonT(40), <1>1, <1>2, <1>3
  DEF WorkerNext, Throw, Crash, workerVars, Work, MarkProcessing, Sign, Hold, Release, Plan, Drop,
      Pace, Relay, Relayed, Deliver, RecordVerdict, Suppress, Finish, Over, Spent, Idle

LEMMA BegunStep == Shape /\ Begun /\ [WorkerNext]_workerVars => Begun'
BY StatusKept, RowsKept, JobKept DEF Begun

\* A lock that has lapsed stays on the account.
LEMMA LapsesGrow == Shape /\ [WorkerNext]_workerVars => (lapses' = 0 => lapses = 0)
<1> SUFFICES ASSUME Shape, [WorkerNext]_workerVars PROVE lapses' = 0 => lapses = 0
  OBVIOUS
<1>1. lapses \in Nat
  BY WorldAssumption DEF Shape
<1>2. lapses' = lapses \/ lapses' = lapses + 1
  BY ZenonT(40) DEF WorkerNext, Claim, Throw, Crash, Due, Stall, workerVars, Work, MarkProcessing, Sign, Hold,
         Release, Plan, Drop, Pace, Relay, Relayed, Deliver, RecordVerdict, Suppress, Finish, Over, Spent, Idle, End
<1> QED
  BY <1>1, <1>2

(* what others write to the suppression list, and what is counted *)

\* Changes to the list touch nothing else the worker works on.
ListTouch ==
  /\ suppressed' \in SUBSET Recipients
  /\ UNCHANGED <<status, result, job, run, sent, lapses, faults>>

LEMMA MailSteps ==
  Shape /\ [MailNext]_mailVars => ListTouch \/ [WorkerNext]_workerVars
<1> SUFFICES ASSUME Shape, [MailNext]_mailVars PROVE ListTouch \/ [WorkerNext]_workerVars
  OBVIOUS
<1>1. ASSUME NEW r \in Recipients, List(r) \/ Unlist(r) PROVE ListTouch
  BY <1>1 DEF List, Unlist, Edit, ListTouch, Shape
<1> QED
  BY <1>1 DEF MailNext, WorkerStep, ListStep, mailVars

LEMMA ListKeepsTypes == Typed /\ ListTouch => Typed'
BY DEF Typed, ListTouch, Shape, JobFits, VerdictsFit

LEMMA ListKeepsBegun == Begun /\ ListTouch => Begun'
BY DEF Begun, ListTouch, RowsWritten

\* No copy is ever taken back, and one step sends each recipient at most one.
LEMMA CopiesGrow ==
  ASSUME Shape, [WorkerNext]_workerVars
  PROVE  \A r \in Recipients : sent'[r] = sent[r] \/ sent'[r] = sent[r] + 1
<1>0. sent \in [Recipients -> Nat]
  BY DEF Shape
<1>1. CASE UNCHANGED sent
  BY <1>1
<1>2. ASSUME NEW w \in Runs, Relay(w) \/ Deliver(w)
      PROVE  \A r \in Recipients : sent'[r] = sent[r] \/ sent'[r] = sent[r] + 1
  BY <1>0, <1>2 DEF Relay, Deliver
<1> QED
  BY ZenonT(40), <1>1, <1>2
  DEF WorkerNext, Work, MarkProcessing, Sign, Hold, Release, Plan, Drop, Pace, Relayed,
      RecordVerdict, Suppress, Finish, End, Claim, Throw, Over, Spent, Idle, Crash, Due, Stall, workerVars

\* The bound on the changes and the count of what arrives after them.
ListsTyped == listings \in 0 .. MaxListings /\ stale \in [Recipients -> Nat]

LEMMA ListsStep == Shape /\ ListsTyped /\ [MailNext]_mailVars => ListsTyped'
<1> SUFFICES ASSUME Shape, ListsTyped, [MailNext]_mailVars PROVE ListsTyped'
  OBVIOUS
<1>0. sent \in [Recipients -> Nat] /\ MaxListings \in Nat
  BY WorldAssumption DEF Shape
<1>1. ASSUME Tally, \A r \in Recipients : sent'[r] = sent[r] \/ sent'[r] = sent[r] + 1
      PROVE  stale' \in [Recipients -> Nat]
  BY <1>0, <1>1 DEF Tally, ListsTyped
<1>2. CASE WorkerStep
  BY <1>1, <1>2, CopiesGrow DEF WorkerStep, ListsTyped
<1>3. CASE ListStep
  <2>1. sent' = sent /\ listings' \in 0 .. MaxListings
    BY <1>0, <1>3 DEF ListStep, List, Unlist, Edit, ListsTyped
  <2> QED
    BY <1>1, <1>3, <2>1 DEF ListStep, ListsTyped
<1>4. CASE UNCHANGED mailVars
  BY <1>4 DEF mailVars, listVars, ListsTyped
<1> QED
  BY <1>2, <1>3, <1>4 DEF MailNext

LEMMA TypedMail == Typed /\ [MailNext]_mailVars => Typed'
BY MailSteps, TypedStep, ListKeepsTypes DEF Typed

LEMMA BegunMail == Shape /\ Begun /\ [MailNext]_mailVars => Begun'
BY MailSteps, BegunStep, ListKeepsBegun

LEMMA BegunShape == Shape /\ Begun /\ ListsTyped => TypeOK
<1> SUFFICES ASSUME Shape, Begun, ListsTyped PROVE TypeOK
  OBVIOUS
<1>1. result \in [Recipients -> {"queued", "dropped"} \cup Verdicts]
  BY DEF Shape, Begun, RowsWritten, RowStates
<1>2. job \in [st : {"delayed", "waiting", "active", "failed", "gone"}, made : 0 .. MaxAttempts,
              stalls : 0 .. (MaxStalled + 1), owner : Runs \cup {None}]
  BY DEF Shape, Begun, JobType
<1> QED
  BY <1>1, <1>2 DEF Shape, Begun, ListsTyped, TypeOK, RunType

\* Every variable keeps its type, however runs overlap, fail and die: in particular the
\* job never uses more than its attempts, nor stalls more often than it may.
THEOREM TypeCorrect == Spec => []TypeOK
<1>1. Typed /\ Begun /\ ListsTyped => TypeOK
  BY BegunShape DEF Typed
<1>2. Typed => Shape
  BY DEF Typed
<1>3. Init => ListsTyped
  BY DEF Init, ListsTyped
<1> QED
  BY <1>1, <1>2, <1>3, TypedInit, TypedMail, BegunInit, BegunMail, ListsStep, PTL DEF Spec

-----------------------------------------------------------------------------
(* how many copies *)

\* Run w may still send a copy to r.
May(w, r) ==
  \/ run[w].pc \in {"mark", "sign", "plan"}
  \/ run[w].pc \in {"drop", "pace", "relay"} /\ r \in run[w].relay
  \/ run[w].pc \in {"drop", "pace", "relay", "relayed", "direct", "suppress"} /\ r \in run[w].direct
  \/ run[w].pc = "record" /\ r \in run[w].direct \ {run[w].at}
MaySend(r) == {w \in Runs : May(w, r)}

\* Nobody is in the relay batch and in the direct one.
BatchesDiffer == \A w \in Runs : run[w].relay \cap run[w].direct = {}

\* The copies sent, and those the runs under way may still send, number at most the
\* times the job has been handed out.
CopiesFit == \A r \in Recipients : sent[r] + Cardinality(MaySend(r)) <= HandedOut

\* What a step of run w may do to its part of that account: a copy is sent only by a
\* run that may send it, and once.
Accounts(w) ==
  \A r \in Recipients :
    /\ May(w, r)' => May(w, r)
    /\ \/ sent'[r] = sent[r]
       \/ sent'[r] = sent[r] + 1 /\ May(w, r) /\ ~May(w, r)'

LEMMA MaySendFinite == \A r : IsFiniteSet(MaySend(r)) /\ Cardinality(MaySend(r)) \in Nat
BY RunAssumption, FS_Subset, FS_CardinalityType DEF MaySend

LEMMA HandedOutType == Shape => HandedOut \in Nat
BY AttemptAssumption DEF Shape, JobType, HandedOut

LEMMA WorkAccounts ==
  ASSUME Typed, BatchesDiffer, NEW w \in Runs, Work(w)
  PROVE  /\ Accounts(w)
         /\ run'[w].relay \cap run'[w].direct = {}
         /\ \A u \in Runs : u # w => run'[u] = run[u]
<1> USE DEF Typed
<1>0. run \in [Runs -> RunType] /\ sent \in [Recipients -> Nat]
  BY DEF Shape, RunType
<1>1. CASE \/ MarkProcessing(w) \/ Hold(w) \/ Release(w) \/ Drop(w) \/ Suppress(w)
  BY <1>0, <1>1
  DEF MarkProcessing, Hold, Release, Drop, Suppress, Goto, Accounts, May, BatchesDiffer, RunType
<1>2. CASE Sign(w)
  BY <1>0, <1>2 DEF Sign, Accounts, May, BatchesDiffer, RunType
<1>3. CASE Plan(w)
  BY <1>0, <1>3 DEF Plan, Accounts, May, BatchesDiffer, RunType
<1>4. CASE Pace(w)
  BY <1>0, <1>4 DEF Pace, Accounts, May, BatchesDiffer, RunType
<1>5. CASE Relay(w)
  BY <1>0, <1>5 DEF Relay, Accounts, May, BatchesDiffer, RunType
<1>6. CASE Relayed(w)
  BY <1>0, <1>6 DEF Relayed, Accounts, May, BatchesDiffer, RunType
<1>7. CASE Deliver(w)
  BY <1>0, <1>7 DEF Deliver, Accounts, May, BatchesDiffer, RunType
<1>8. CASE RecordVerdict(w)
  BY <1>0, <1>8 DEF RecordVerdict, Accounts, May, BatchesDiffer, RunType
<1>9. CASE Finish(w)
  BY <1>0, <1>9 DEF Finish, Over, Spent, Idle, Accounts, May, BatchesDiffer, RunType
<1>10. CASE End(w)
  BY <1>0, <1>10 DEF End, Accounts, May, BatchesDiffer, Idle, RunType
<1> QED
  BY <1>1, <1>2, <1>3, <1>4, <1>5, <1>6, <1>7, <1>8, <1>9, <1>10 DEF Work

\* A step that sends at most what its run may send keeps the account.
LEMMA CopiesFitBy ==
  ASSUME Shape, Shape', CopiesFit, NEW w \in Runs, Accounts(w), HandedOut' = HandedOut,
         \A u \in Runs : u # w => run'[u] = run[u]
  PROVE  CopiesFit'
<1> SUFFICES ASSUME NEW r \in Recipients PROVE (sent[r] + Cardinality(MaySend(r)) <= HandedOut)'
  BY DEF CopiesFit
<1>1. MaySend(r)' \subseteq MaySend(r)
  BY DEF MaySend, Accounts, May
<1>2. /\ IsFiniteSet(MaySend(r)) /\ Cardinality(MaySend(r)) \in Nat
      /\ IsFiniteSet(MaySend(r)') /\ Cardinality(MaySend(r)') \in Nat
  BY <1>1, MaySendFinite, FS_Subset, FS_CardinalityType
<1>3. /\ sent[r] \in Nat /\ sent'[r] \in Nat /\ HandedOut \in Nat
      /\ sent[r] + Cardinality(MaySend(r)) <= HandedOut
  BY HandedOutType DEF Shape, CopiesFit
<1>4. CASE sent'[r] = sent[r]
  <2>1. Cardinality(MaySend(r)') <= Cardinality(MaySend(r))
    BY <1>1, <1>2, FS_Subset
  <2> QED
    BY <1>2, <1>3, <1>4, <2>1
<1>5. CASE sent'[r] = sent[r] + 1 /\ May(w, r) /\ ~May(w, r)'
  <2>1. w \in MaySend(r) /\ w \notin MaySend(r)'
    BY <1>5 DEF MaySend
  <2>2. Cardinality(MaySend(r)') < Cardinality(MaySend(r))
    BY <1>1, <1>2, <2>1, FS_Subset
  <2> QED
    BY <1>2, <1>3, <1>5, <2>2
<1> QED
  BY <1>4, <1>5 DEF Accounts

\* When the job is handed out, the run that gets it may send one copy more.
LEMMA CopiesFitClaim ==
  ASSUME Shape, CopiesFit, NEW w \in Runs, Claim(w)
  PROVE  CopiesFit'
<1> SUFFICES ASSUME NEW r \in Recipients PROVE (sent[r] + Cardinality(MaySend(r)) <= HandedOut)'
  BY DEF CopiesFit
<1>1. MaySend(r)' \subseteq MaySend(r) \cup {w}
  BY DEF Claim, MaySend, May, Shape
<1>2. IsFiniteSet(MaySend(r)) /\ Cardinality(MaySend(r)) \in Nat
  BY MaySendFinite
<1>3. /\ IsFiniteSet(MaySend(r) \cup {w})
      /\ Cardinality(MaySend(r) \cup {w}) \in Nat
      /\ Cardinality(MaySend(r) \cup {w}) <= Cardinality(MaySend(r)) + 1
  <2>1. /\ IsFiniteSet(MaySend(r) \cup {w})
        /\ Cardinality(MaySend(r) \cup {w}) =
             IF w \in MaySend(r) THEN Cardinality(MaySend(r)) ELSE Cardinality(MaySend(r)) + 1
    BY <1>2, FS_AddElement
  <2> QED
    BY <1>2, <2>1
<1>4. /\ Cardinality(MaySend(r)') \in Nat
      /\ Cardinality(MaySend(r)') <= Cardinality(MaySend(r)) + 1
  BY <1>1, <1>2, <1>3, FS_Subset, FS_CardinalityType
<1>5. HandedOut' = HandedOut + 1 /\ HandedOut \in Nat /\ sent' = sent
  BY AttemptAssumption, HandedOutType DEF Claim, HandedOut, Shape, JobType
<1>6. sent[r] \in Nat /\ sent[r] + Cardinality(MaySend(r)) <= HandedOut
  BY DEF Shape, CopiesFit
<1> QED
  BY <1>2, <1>4, <1>5, <1>6

CopiesCounted == Typed /\ BatchesDiffer /\ CopiesFit

LEMMA CountedInit == Init => CopiesCounted
<1> SUFFICES ASSUME Init PROVE CopiesCounted
  OBVIOUS
<1>1. Typed
  BY TypedInit
<1>2. BatchesDiffer
  BY DEF Init, BatchesDiffer, Idle
<1>3. CopiesFit
  <2>1. \A r : MaySend(r) = {}
    BY DEF Init, MaySend, May, Idle
  <2>2. HandedOut \in Nat
    BY <1>1, HandedOutType DEF Typed
  <2> QED
    BY <2>1, <2>2, FS_EmptySet DEF Init, CopiesFit
<1> QED
  BY <1>1, <1>2, <1>3 DEF CopiesCounted

LEMMA CountedStep == CopiesCounted /\ [WorkerNext]_workerVars => CopiesCounted'
<1> SUFFICES ASSUME CopiesCounted, [WorkerNext]_workerVars PROVE CopiesCounted'
  OBVIOUS
<1>0. Typed /\ Typed' /\ Shape /\ Shape' /\ run \in [Runs -> RunType] /\ job \in JobType
  BY TypedStep DEF CopiesCounted, Typed, Shape, RunType, JobType
<1>1. ASSUME NEW w \in Runs, Work(w) PROVE CopiesCounted'
  <2>1. /\ Accounts(w)
        /\ run'[w].relay \cap run'[w].direct = {}
        /\ \A u \in Runs : u # w => run'[u] = run[u]
    BY <1>1, WorkAccounts DEF CopiesCounted
  <2>2. BatchesDiffer'
    BY SMTT(30), <2>1 DEF CopiesCounted, BatchesDiffer
  <2>3. HandedOut' = HandedOut
    <3>1. CASE UNCHANGED job
      BY <3>1 DEF HandedOut
    <3>2. CASE End(w) /\ job.owner = w
      <4>1. job.st = "active"
        BY <1>0, <3>2 DEF Typed, JobFits
      <4> QED
        BY <1>0, <3>2, <4>1, AttemptAssumption DEF End, Ended, HandedOut, JobType
    <3> QED
      BY ZenonT(40), <1>1, <3>1, <3>2
      DEF Work, MarkProcessing, Sign, Hold, Release, Plan, Drop, Pace, Relay, Relayed, Deliver,
          RecordVerdict, Suppress, Finish, Over, Spent, Idle, End, Ended
  <2>4. CopiesFit'
    BY <1>0, <2>1, <2>3, CopiesFitBy DEF CopiesCounted
  <2> QED
    BY <1>0, <2>2, <2>4 DEF CopiesCounted
<1>2. ASSUME NEW w \in Runs, Claim(w) PROVE CopiesCounted'
  <2>1. BatchesDiffer'
    BY <1>0, <1>2 DEF Claim, CopiesCounted, BatchesDiffer, Idle
  <2> QED
    BY <1>0, <1>2, <2>1, CopiesFitClaim DEF CopiesCounted
<1>3. ASSUME NEW w \in Runs, Throw(w) \/ Crash(w) PROVE CopiesCounted'
  <2>1. sent' = sent /\ HandedOut' = HandedOut
    BY <1>3 DEF Throw, Crash, HandedOut
  <2>2. run' = [run EXCEPT ![w] = Spent(FALSE)] \/ run' = [run EXCEPT ![w] = Idle]
    BY <1>3 DEF Throw, Over, Crash
  <2>3. Accounts(w) /\ BatchesDiffer' /\ \A u \in Runs : u # w => run'[u] = run[u]
    <3>a. Idle.pc = "idle" /\ Idle.relay = {}
      BY DEF Idle
    <3>b. Spent(FALSE).pc = "end" /\ Spent(FALSE).relay = {}
      BY DEF Spent, Idle
    <3>0. \A x \in {Spent(FALSE), Idle} : x.pc \in {"end", "idle"} /\ x.relay \cap x.direct = {}
      BY <3>a, <3>b
    <3>1. PICK x \in {Spent(FALSE), Idle} : run' = [run EXCEPT ![w] = x]
      BY <2>2
    <3>2. run'[w] = x /\ \A u \in Runs : u # w => run'[u] = run[u]
      BY <1>0, <3>1
    <3>3. run'[w].pc \in {"end", "idle"} /\ run'[w].relay \cap run'[w].direct = {}
      BY <3>0, <3>2
    <3> QED
      BY <1>0, <2>1, <3>2, <3>3 DEF CopiesCounted, Accounts, May, BatchesDiffer
  <2> QED
    BY <1>0, <2>1, <2>3, CopiesFitBy DEF CopiesCounted
<1>4. CASE Due
  BY <1>0, <1>4 DEF Due, CopiesCounted, BatchesDiffer, CopiesFit, MaySend, May, HandedOut, JobType
<1>5. CASE Stall
  <2>1. HandedOut' = HandedOut
    BY <1>0, <1>5, AttemptAssumption DEF Stall, Stalled, HandedOut, JobType
  <2> QED
    BY <1>0, <1>5, <2>1 DEF Stall, CopiesCounted, BatchesDiffer, CopiesFit, MaySend, May
<1>6. CASE UNCHANGED workerVars
  BY <1>0, <1>6 DEF workerVars, CopiesCounted, BatchesDiffer, CopiesFit, MaySend, May, HandedOut
<1> QED
  BY <1>1, <1>2, <1>3, <1>4, <1>5, <1>6 DEF WorkerNext

LEMMA ListKeepsCopies == CopiesCounted /\ ListTouch => CopiesCounted'
<1> SUFFICES ASSUME CopiesCounted, ListTouch PROVE CopiesCounted'
  OBVIOUS
<1>1. Typed'
  BY ListKeepsTypes DEF CopiesCounted
<1>2. HandedOut' = HandedOut /\ \A r : MaySend(r)' = MaySend(r)
  BY DEF ListTouch, HandedOut, MaySend, May
<1>3. BatchesDiffer' /\ CopiesFit'
  BY <1>2 DEF CopiesCounted, ListTouch, BatchesDiffer, CopiesFit
<1> QED
  BY <1>1, <1>3 DEF CopiesCounted

LEMMA CountedMail == CopiesCounted /\ [MailNext]_mailVars => CopiesCounted'
BY MailSteps, CountedStep, ListKeepsCopies DEF CopiesCounted, Typed

LEMMA CountedBounds == CopiesCounted => OneCopyPerAttempt
<1> SUFFICES ASSUME CopiesCounted, NEW r \in Recipients PROVE sent[r] <= HandedOut
  BY DEF OneCopyPerAttempt
<1>1. sent[r] \in Nat /\ HandedOut \in Nat /\ sent[r] + Cardinality(MaySend(r)) <= HandedOut
  BY HandedOutType DEF CopiesCounted, Typed, Shape, CopiesFit
<1> QED
  BY <1>1, MaySendFinite

\* Retries and overlapping runs never send anyone more copies than the job has been
\* handed out times, for any number of runs, lapsed locks, faults and attempts.
THEOREM CopiesAreBounded == Spec => []OneCopyPerAttempt
BY CountedBounds, CountedInit, CountedMail, PTL DEF Spec

-----------------------------------------------------------------------------
(* what the rows claim *)

\* What a run is about to write down as delivered has been delivered.
EventsAreTrue ==
  \A w \in Runs :
    run[w].event = "accepted" =>
      /\ run[w].pc = "relayed" => \A r \in run[w].relay : sent[r] > 0
      /\ run[w].pc = "record" => sent[run[w].at] > 0

Truthful == Typed /\ EventsAreTrue /\ DeliveredIsTrue

\* A verdict of "delivered" follows from an accepted message and from nothing else.
LEMMA DeliveredMeansAccepted ==
  /\ \A e : RelayVerdict(e) = "delivered" => e = "accepted"
  /\ \A e, n : DirectVerdict(e, n) = "delivered" => e = "accepted"
BY SMTT(30) DEF RelayVerdict, DirectVerdict

LEMMA CopiesStay ==
  ASSUME Shape, [WorkerNext]_workerVars
  PROVE  \A r \in Recipients : sent[r] > 0 => sent'[r] > 0
BY CopiesGrow DEF Shape

\* A step that writes no new "delivered" and brings no run to a verdict keeps the rows true.
LEMMA TruthfulBy ==
  ASSUME Truthful, Typed', [WorkerNext]_workerVars,
         \A r \in Recipients : result'[r] = "delivered" => result[r] = "delivered" \/ sent[r] > 0,
         \A w \in Runs : run'[w].pc \notin {"relayed", "record"} \/ run'[w] = run[w]
  PROVE  Truthful'
<1>1. \A r \in Recipients : sent[r] > 0 => sent'[r] > 0
  BY CopiesStay DEF Truthful, Typed
<1>2. DeliveredIsTrue'
  BY <1>1 DEF Truthful, DeliveredIsTrue
<1>3. EventsAreTrue'
  <2> SUFFICES ASSUME NEW w \in Runs, run'[w].event = "accepted", run'[w].pc \in {"relayed", "record"}
               PROVE  /\ run'[w].pc = "relayed" => \A r \in run'[w].relay : sent'[r] > 0
                      /\ run'[w].pc = "record" => sent'[run'[w].at] > 0
    BY DEF EventsAreTrue
  <2>1. run'[w] = run[w]
    OBVIOUS
  <2>2. run[w].relay \subseteq Recipients /\ (run[w].pc = "record" => run[w].at \in Recipients)
    BY DEF Truthful, Typed, Shape, RunType, VerdictsFit
  <2> QED
    BY <1>1, <2>1, <2>2 DEF Truthful, EventsAreTrue
<1> QED
  BY <1>2, <1>3 DEF Truthful

LEMMA TruthfulStep == Truthful /\ [WorkerNext]_workerVars => Truthful'
<1> SUFFICES ASSUME Truthful, [WorkerNext]_workerVars PROVE Truthful'
  OBVIOUS
<1>0. Typed /\ Typed' /\ Shape /\ run \in [Runs -> RunType]
  BY TypedStep DEF Truthful, Typed, Shape, RunType
<1>g. \A r \in Recipients : sent[r] > 0 => sent'[r] > 0
  BY <1>0, CopiesStay
<1>1. ASSUME NEW w \in Runs, MarkProcessing(w) \/ Sign(w) \/ Release(w) \/ Plan(w) \/ Suppress(w)
                             \/ Finish(w) \/ End(w) \/ Claim(w) \/ Throw(w) \/ Crash(w)
      PROVE  Truthful'
  <2>1. UNCHANGED result
    BY <1>1 DEF MarkProcessing, Sign, Release, Plan, Suppress, Finish, End, Claim, Throw, Over, Spent, Idle, Crash
  <2>2. /\ \A u \in Runs : u # w => run'[u] = run[u]
        /\ run'[w].pc \notin {"relayed", "record"}
    <3>1. CASE MarkProcessing(w) \/ Release(w) \/ Suppress(w)
      BY <1>0, <3>1 DEF MarkProcessing, Release, Suppress, Goto, RunType
    <3>5. CASE Sign(w)
      BY <1>0, <3>5 DEF Sign, RunType
    <3>6. CASE Claim(w)
      BY <1>0, <3>6 DEF Claim, Idle
    <3>2. CASE Plan(w)
      BY <1>0, <3>2 DEF Plan, RunType
    <3>3. CASE Finish(w) \/ Throw(w)
      BY <1>0, <3>3, RunIsOver
    <3>4. CASE End(w) \/ Crash(w)
      BY <1>0, <3>4 DEF End, Crash, Idle
    <3> QED
      BY <1>1, <3>1, <3>2, <3>3, <3>4, <3>5, <3>6
  <2> QED
    BY <1>0, <2>1, <2>2, TruthfulBy
<1>2. ASSUME NEW w \in Runs, Hold(w) \/ Drop(w) \/ Pace(w) PROVE Truthful'
  <2>1. \A r \in Recipients : result'[r] = "delivered" => result[r] = "delivered"
    BY <1>2 DEF Hold, Drop, Pace, Rows
  <2>2. /\ \A u \in Runs : u # w => run'[u] = run[u]
        /\ run'[w].pc \notin {"relayed", "record"}
    BY <1>0, <1>2 DEF Hold, Drop, Pace, Goto, RunType
  <2> QED
    BY <1>0, <2>1, <2>2, TruthfulBy
<1>3. ASSUME NEW w \in Runs, Relay(w) PROVE Truthful'
  <2>1. PICK e \in RelayEvents :
          /\ run' = [run EXCEPT ![w].pc = "relayed", ![w].event = e]
          /\ sent' = [r \in Recipients |->
                        IF r \in run[w].relay /\ Arrives(e) THEN sent[r] + 1 ELSE sent[r]]
    BY <1>3 DEF Relay
  <2>2. DeliveredIsTrue'
    BY <1>3, <1>g DEF Relay, Truthful, DeliveredIsTrue
  <2>3. e = "accepted" => \A r \in run[w].relay : sent'[r] > 0
    BY <1>0, <2>1 DEF Arrives, RunType, Shape
  <2>4. /\ \A u \in Runs : u # w => run'[u] = run[u]
        /\ run'[w].pc = "relayed" /\ run'[w].event = e /\ run'[w].relay = run[w].relay
    BY <1>0, <2>1 DEF RunType
  <2>5. \A u \in Runs : run[u].relay \subseteq Recipients
                        /\ (run[u].pc = "record" => run[u].at \in Recipients)
    BY <1>0 DEF RunType, Typed, VerdictsFit
  <2>6. EventsAreTrue'
    BY <1>g, <2>3, <2>4, <2>5 DEF Truthful, EventsAreTrue
  <2> QED
    BY <1>0, <2>2, <2>6 DEF Truthful
<1>4. ASSUME NEW w \in Runs, Relayed(w) PROVE Truthful'
  <2>1. \A r \in Recipients : result'[r] = "delivered" => result[r] = "delivered" \/ sent[r] > 0
    BY <1>0, <1>4, DeliveredMeansAccepted DEF Relayed, Rows, Truthful, EventsAreTrue, Shape
  <2>2. /\ \A u \in Runs : u # w => run'[u] = run[u]
        /\ run'[w].pc = "direct"
    BY <1>0, <1>4 DEF Relayed, RunType
  <2> QED
    BY <1>0, <2>1, <2>2, TruthfulBy
<1>5. ASSUME NEW w \in Runs, Deliver(w) PROVE Truthful'
  <2>1. PICK r \in run[w].direct, e \in DirectEvents :
          /\ run' = [run EXCEPT ![w].pc = "record", ![w].at = r, ![w].event = e]
          /\ sent' = IF Arrives(e) THEN [sent EXCEPT ![r] = @ + 1] ELSE sent
    BY <1>5 DEF Deliver
  <2>2. DeliveredIsTrue'
    BY <1>5, <1>g DEF Deliver, Truthful, DeliveredIsTrue
  <2>3. r \in Recipients
    BY <1>0 DEF RunType
  <2>4. e = "accepted" => sent'[r] > 0
    BY <1>0, <2>1, <2>3 DEF Arrives, Shape
  <2>5. /\ \A u \in Runs : u # w => run'[u] = run[u]
        /\ run'[w].pc = "record" /\ run'[w].event = e /\ run'[w].at = r
    BY <1>0, <2>1 DEF RunType
  <2>6. \A u \in Runs : run[u].relay \subseteq Recipients
                        /\ (run[u].pc = "record" => run[u].at \in Recipients)
    BY <1>0 DEF RunType, Typed, VerdictsFit
  <2>7. EventsAreTrue'
    BY <1>g, <2>4, <2>5, <2>6 DEF Truthful, EventsAreTrue
  <2> QED
    BY <1>0, <2>2, <2>7 DEF Truthful
<1>6. ASSUME NEW w \in Runs, RecordVerdict(w) PROVE Truthful'
  <2>1. \A r \in Recipients : result'[r] = "delivered" => result[r] = "delivered" \/ sent[r] > 0
    BY <1>0, <1>6, DeliveredMeansAccepted DEF RecordVerdict, Rows, Truthful, EventsAreTrue, Shape
  <2>2. /\ \A u \in Runs : u # w => run'[u] = run[u]
        /\ run'[w].pc \in {"suppress", "direct"}
    BY <1>0, <1>6 DEF RecordVerdict, RunType
  <2> QED
    BY <1>0, <2>1, <2>2, TruthfulBy
<1>7. CASE Due \/ Stall \/ UNCHANGED workerVars
  BY <1>0, <1>7, TruthfulBy DEF Due, Stall, workerVars
<1> QED
  BY <1>1, <1>2, <1>3, <1>4, <1>5, <1>6, <1>7 DEF WorkerNext, Work

LEMMA ListKeepsTruth == Truthful /\ ListTouch => Truthful'
<1> SUFFICES ASSUME Truthful, ListTouch PROVE Truthful'
  OBVIOUS
<1>1. Typed'
  BY ListKeepsTypes DEF Truthful
<1>2. EventsAreTrue' /\ DeliveredIsTrue'
  BY DEF Truthful, ListTouch, EventsAreTrue, DeliveredIsTrue
<1> QED
  BY <1>1, <1>2 DEF Truthful

LEMMA TruthfulMail == Truthful /\ [MailNext]_mailVars => Truthful'
BY MailSteps, TruthfulStep, ListKeepsTruth DEF Truthful, Typed

\* No row ever claims a delivery to a recipient whom no copy has reached, however
\* runs of the job overlap, fail and die.
THEOREM RowsAreTrue == Spec => []DeliveredIsTrue
<1>1. Init => Truthful
  BY TypedInit DEF Init, Truthful, EventsAreTrue, DeliveredIsTrue, Idle, None
<1>2. Truthful => DeliveredIsTrue
  BY DEF Truthful
<1> QED
  BY <1>1, <1>2, TruthfulMail, PTL DEF Spec

-----------------------------------------------------------------------------
(***************************************************************************)
(* MtaWorker: the status, jobs for what rests, the suppression list        *)
(***************************************************************************)

(* what the status says *)

\* The status, when it is a verdict, goes with the rows.
StatusIsTrue ==
  /\ status = "delivered" =>
       /\ \A r \in Recipients : result[r] \in {"delivered", "bounced", "dropped"}
       /\ \E r \in Recipients : result[r] = "delivered"
  /\ status = "bounced" => \A r \in Recipients : result[r] \in {"bounced", "dropped"}
  /\ status = "deferred" => \E r \in Recipients : result[r] = "deferred"

\* The verdicts of the run and the rows of the recipients it is done with are the same.
RowsMatch(w) ==
  /\ \A r \in Recipients \ (run[w].relay \cup run[w].direct) : result[r] \in run[w].verdicts \cup {"dropped"}
  /\ \A v \in run[w].verdicts :
       \E r \in Recipients \ (run[w].relay \cup run[w].direct) : result[r] = v

\* The status is no verdict.
Undecided == status \notin {"delivered", "bounced", "deferred"}

\* What the run has done so far, at each of its steps.
KeepsTheBooks(w) ==
  /\ run[w].pc \notin {"idle", "mark", "end"} => Undecided
  /\ run[w].pc = "release" => \A r \in Recipients : result[r] = "deferred"
  /\ run[w].pc \in {"drop", "pace"} => run[w].paced \cap (run[w].relay \cup run[w].direct) = {}
  /\ run[w].pc = "pace" =>
       \A r \in Recipients \ (run[w].paced \cup run[w].relay \cup run[w].direct) : result[r] = "dropped"
  /\ run[w].pc \in {"relay", "relayed"} => run[w].relay # {}
  /\ run[w].pc \in {"direct", "record", "suppress"} => run[w].relay = {}
  /\ run[w].pc = "record" => run[w].at \in run[w].direct
  /\ run[w].pc \in {"relay", "relayed", "direct", "record", "suppress"} => RowsMatch(w)

\* As long as no lock has lapsed, the only run there is is the job's owner.
Booked ==
  /\ StatusIsTrue
  /\ job.st = "none" => Undecided
  /\ \A w \in Runs : run[w].pc # "idle" => job.st = "active" /\ job.owner = w /\ KeepsTheBooks(w)

\* A step of run w that keeps its books.
LEMMA BookedBy ==
  ASSUME Shape, Booked, NEW w \in Runs, run[w].pc # "idle", job' = job,
         \A u \in Runs : u # w => run'[u] = run[u],
         KeepsTheBooks(w)', StatusIsTrue'
  PROVE  Booked'
<1>1. job.st = "active" /\ job.owner = w
  BY DEF Booked
<1>2. \A u \in Runs : u # w => run'[u].pc = "idle"
  BY <1>1 DEF Booked
<1> QED
  BY <1>1, <1>2 DEF Booked

LEMMA BookedWork ==
  ASSUME Shape, BatchesDiffer, Booked, NEW w \in Runs, Work(w), lapses = 0
  PROVE  Booked'
<1>0. /\ run \in [Runs -> RunType] /\ run[w] \in RunType
      /\ result \in [Recipients -> RowStates]
      /\ run[w].relay \cap run[w].direct = {}
  BY SMTT(30) DEF Shape, RunType, BatchesDiffer
<1>p. run[w].pc # "idle"
  BY ZenonT(40) DEF Work, MarkProcessing, Sign, Hold, Release, Plan, Drop, Pace, Relay, Relayed, Deliver,
         RecordVerdict, Suppress, Finish, Over, Spent, Idle, End
<1>b. job.st = "active" /\ job.owner = w /\ KeepsTheBooks(w)
  BY <1>p DEF Booked
<1>1. CASE MarkProcessing(w)
  <2>1. run'[w].pc = "sign" /\ status' = "processing" /\ job' = job /\ \A u \in Runs : u # w => run'[u] = run[u]
    BY <1>0, <1>1 DEF MarkProcessing, Goto, RunType
  <2>2. KeepsTheBooks(w)' /\ StatusIsTrue'
    BY <2>1 DEF KeepsTheBooks, Undecided, StatusIsTrue
  <2> QED
    BY <1>p, <2>1, <2>2, BookedBy
<1>2. CASE Sign(w)
  <2>1. /\ run'[w].pc \in {"hold", "plan"} /\ \A u \in Runs : u # w => run'[u] = run[u]
        /\ status' = status /\ result' = result /\ job' = job /\ run[w].pc = "sign"
    BY <1>0, <1>2 DEF Sign, RunType
  <2>2. Undecided'
    BY <1>b, <2>1 DEF KeepsTheBooks, Undecided
  <2>3. KeepsTheBooks(w)' /\ StatusIsTrue'
    BY <2>1, <2>2 DEF KeepsTheBooks, Undecided, StatusIsTrue
  <2> QED
    BY <1>p, <2>1, <2>3, BookedBy
<1>3. CASE Hold(w)
  <2>1. /\ run'[w].pc = "release" /\ \A u \in Runs : u # w => run'[u] = run[u]
        /\ status' = status /\ job' = job /\ run[w].pc = "hold"
        /\ \A r \in Recipients : result'[r] = "deferred"
    BY <1>0, <1>3 DEF Hold, Goto, RunType, Rows
  <2>2. Undecided'
    BY <1>b, <2>1 DEF KeepsTheBooks, Undecided
  <2>3. KeepsTheBooks(w)' /\ StatusIsTrue'
    BY <2>1, <2>2 DEF KeepsTheBooks, Undecided, StatusIsTrue
  <2> QED
    BY <1>p, <2>1, <2>3, BookedBy
<1>4. CASE Release(w)
  <2>1. /\ run'[w].pc = "end" /\ \A u \in Runs : u # w => run'[u] = run[u]
        /\ status' = "queued" /\ job' = job /\ result' = result /\ run[w].pc = "release"
    BY <1>0, <1>4 DEF Release, Goto, RunType
  <2>2. \A r \in Recipients : result'[r] = "deferred"
    BY <1>b, <2>1 DEF KeepsTheBooks, Undecided
  <2>3. KeepsTheBooks(w)' /\ StatusIsTrue'
    BY <2>1, <2>2 DEF KeepsTheBooks, Undecided, StatusIsTrue
  <2> QED
    BY <1>p, <2>1, <2>3, BookedBy
<1>5. CASE Plan(w)
  <2>0. PICK open \in SUBSET Recipients : open = Recipients \ Suppressions(w)
    OBVIOUS
  <2>1. PICK allowed \in SUBSET open :
          run' = [run EXCEPT
            ![w].pc     = "drop",
            ![w].direct = allowed,
            ![w].relay  = IF RelayMode = "none" THEN {} ELSE open \ allowed,
            ![w].paced  = IF RelayMode = "none" THEN open \ allowed ELSE {}]
    BY <1>5, <2>0 DEF Plan
  <2>2. /\ run'[w].pc = "drop" /\ run'[w].direct = allowed
        /\ run'[w].relay = IF RelayMode = "none" THEN {} ELSE open \ allowed
        /\ run'[w].paced = IF RelayMode = "none" THEN open \ allowed ELSE {}
        /\ \A u \in Runs : u # w => run'[u] = run[u]
    BY <1>0, <2>1 DEF RunType
  <2>3. run'[w].paced \cap (run'[w].relay \cup run'[w].direct) = {}
    BY <2>2
  <2>4. Undecided' /\ job' = job
    BY <1>b, <1>5 DEF Plan, KeepsTheBooks, Undecided
  <2>5. KeepsTheBooks(w)' /\ StatusIsTrue'
    BY <2>2, <2>3, <2>4 DEF KeepsTheBooks, Undecided, StatusIsTrue
  <2> QED
    BY <1>p, <2>2, <2>4, <2>5, BookedBy
<1>6. CASE Drop(w)
  <2>1. /\ run'[w].pc = "pace" /\ run'[w].direct = run[w].direct /\ run'[w].relay = run[w].relay
        /\ run'[w].paced = run[w].paced /\ \A u \in Runs : u # w => run'[u] = run[u]
    BY <1>0, <1>6 DEF Drop, Goto, RunType
  <2>2. \A r \in Recipients \ (run[w].paced \cup run[w].relay \cup run[w].direct) : result'[r] = "dropped"
    BY <1>6 DEF Drop, Rows
  <2>3. Undecided' /\ job' = job /\ run[w].paced \cap (run[w].relay \cup run[w].direct) = {}
    BY <1>b, <1>6 DEF Drop, KeepsTheBooks, Undecided
  <2>4. KeepsTheBooks(w)' /\ StatusIsTrue'
    BY <2>1, <2>2, <2>3 DEF KeepsTheBooks, Undecided, StatusIsTrue
  <2> QED
    BY <1>p, <2>1, <2>3, <2>4, BookedBy
<1>7. CASE Pace(w)
  <2>1. /\ run'[w].pc = IF run[w].relay # {} THEN "relay" ELSE "direct"
        /\ run'[w].direct = run[w].direct /\ run'[w].relay = run[w].relay
        /\ run'[w].verdicts = IF run[w].paced # {} THEN {"deferred"} ELSE {}
        /\ \A u \in Runs : u # w => run'[u] = run[u]
    BY <1>0, <1>7 DEF Pace, RunType
  <2>2. /\ Undecided' /\ job' = job /\ run[w].paced \cap (run[w].relay \cup run[w].direct) = {}
        /\ \A r \in Recipients \ (run[w].paced \cup run[w].relay \cup run[w].direct) : result[r] = "dropped"
    BY <1>b, <1>7 DEF Pace, KeepsTheBooks, Undecided
  <2>3. \A r \in Recipients : result'[r] = IF r \in run[w].paced THEN "deferred" ELSE result[r]
    BY <1>7 DEF Pace, Rows
  <2>4. run[w].paced \subseteq Recipients
    BY <1>0 DEF RunType
  <2>5. RowsMatch(w)'
    BY <2>1, <2>2, <2>3, <2>4 DEF RowsMatch
  <2>6. KeepsTheBooks(w)' /\ StatusIsTrue'
    BY <2>1, <2>2, <2>5 DEF KeepsTheBooks, Undecided, StatusIsTrue
  <2> QED
    BY <1>p, <2>1, <2>2, <2>6, BookedBy
<1>8. CASE Relay(w)
  <2>1. /\ run'[w].pc = "relayed" /\ run'[w].direct = run[w].direct /\ run'[w].relay = run[w].relay
        /\ run'[w].verdicts = run[w].verdicts /\ \A u \in Runs : u # w => run'[u] = run[u]
    BY <1>0, <1>8 DEF Relay, RunType
  <2>2. Undecided' /\ job' = job /\ result' = result /\ run[w].relay # {} /\ RowsMatch(w)
    BY <1>b, <1>8 DEF Relay, KeepsTheBooks, Undecided
  <2>3. RowsMatch(w)'
    BY <2>1, <2>2 DEF RowsMatch
  <2>4. KeepsTheBooks(w)' /\ StatusIsTrue'
    BY <2>1, <2>2, <2>3 DEF KeepsTheBooks, Undecided, StatusIsTrue
  <2> QED
    BY <1>p, <2>1, <2>2, <2>4, BookedBy
<1>9. CASE Relayed(w)
  <2>1. PICK v \in Verdicts : v = RelayVerdict(run[w].event)
    BY VerdictType
  <2>2. /\ run'[w].pc = "direct" /\ run'[w].direct = run[w].direct /\ run'[w].relay = {}
        /\ run'[w].verdicts = run[w].verdicts \cup {v} /\ \A u \in Runs : u # w => run'[u] = run[u]
    BY <1>0, <1>9, <2>1 DEF Relayed, RunType
  <2>3. Undecided' /\ job' = job /\ run[w].relay # {} /\ RowsMatch(w)
    BY <1>b, <1>9 DEF Relayed, KeepsTheBooks, Undecided
  <2>4. \A r \in Recipients : result'[r] = IF r \in run[w].relay THEN v ELSE result[r]
    BY <1>9, <2>1 DEF Relayed, Rows
  <2>5. run[w].relay \subseteq Recipients
    BY <1>0 DEF RunType
  <2>6. RowsMatch(w)'
    <3>1. ASSUME NEW r \in Recipients \ run[w].direct PROVE result'[r] \in run[w].verdicts \cup {v, "dropped"}
      BY <2>3, <2>4, <3>1 DEF RowsMatch
    <3>2. \E r \in Recipients \ run[w].direct : result'[r] = v
      BY <1>0, <2>3, <2>4, <2>5
    <3>3. ASSUME NEW x \in run[w].verdicts PROVE \E r \in Recipients \ run[w].direct : result'[r] = x
      BY <2>3, <2>4, <3>3 DEF RowsMatch
    <3> QED
      BY <2>2, <3>1, <3>2, <3>3 DEF RowsMatch
  <2>7. KeepsTheBooks(w)' /\ StatusIsTrue'
    BY <2>2, <2>3, <2>6 DEF KeepsTheBooks, Undecided, StatusIsTrue
  <2> QED
    BY <1>p, <2>2, <2>3, <2>7, BookedBy
<1>10. CASE Deliver(w)
  <2>1. PICK r \in run[w].direct, e \in DirectEvents :
          run' = [run EXCEPT ![w].pc = "record", ![w].at = r, ![w].event = e]
    BY <1>10 DEF Deliver
  <2>2. /\ run'[w].pc = "record" /\ run'[w].at = r /\ run'[w].direct = run[w].direct
        /\ run'[w].relay = run[w].relay
        /\ run'[w].verdicts = run[w].verdicts /\ \A u \in Runs : u # w => run'[u] = run[u]
    BY <1>0, <2>1 DEF RunType
  <2>3. Undecided' /\ job' = job /\ result' = result /\ run[w].relay = {} /\ RowsMatch(w)
    BY <1>b, <1>10 DEF Deliver, KeepsTheBooks, Undecided
  <2>4. RowsMatch(w)'
    BY <2>2, <2>3 DEF RowsMatch
  <2>5. KeepsTheBooks(w)' /\ StatusIsTrue'
    BY <2>2, <2>3, <2>4 DEF KeepsTheBooks, Undecided, StatusIsTrue
  <2> QED
    BY <1>p, <2>2, <2>3, <2>5, BookedBy
<1>11. CASE RecordVerdict(w)
  <2>1. PICK v \in Verdicts : v = DirectVerdict(run[w].event, run[w].attempt)
    BY VerdictType
  <2>2. /\ run'[w].pc \in {"suppress", "direct"} /\ run'[w].direct = run[w].direct \ {run[w].at}
        /\ run'[w].relay = run[w].relay
        /\ run'[w].verdicts = run[w].verdicts \cup {v} /\ \A u \in Runs : u # w => run'[u] = run[u]
    BY <1>0, <1>11, <2>1 DEF RecordVerdict, RunType
  <2>3. /\ Undecided' /\ job' = job /\ run[w].relay = {} /\ RowsMatch(w)
        /\ run[w].at \in run[w].direct
    BY <1>b, <1>11 DEF RecordVerdict, KeepsTheBooks, Undecided
  <2>4. \A r \in Recipients : result'[r] = IF r = run[w].at THEN v ELSE result[r]
    BY <1>11, <2>1 DEF RecordVerdict, Rows
  <2>5. run[w].at \in Recipients
    BY <1>0, <2>3 DEF RunType
  <2>6. RowsMatch(w)'
    <3>1. ASSUME NEW r \in Recipients \ (run[w].direct \ {run[w].at})
          PROVE  result'[r] \in run[w].verdicts \cup {v, "dropped"}
      BY <2>3, <2>4, <3>1 DEF RowsMatch
    <3>2. \E r \in Recipients \ (run[w].direct \ {run[w].at}) : result'[r] = v
      BY <2>4, <2>5
    <3>3. ASSUME NEW x \in run[w].verdicts
          PROVE  \E r \in Recipients \ (run[w].direct \ {run[w].at}) : result'[r] = x
      BY <2>3, <2>4, <3>3 DEF RowsMatch
    <3> QED
      BY <2>2, <2>3, <3>1, <3>2, <3>3 DEF RowsMatch
  <2>7. KeepsTheBooks(w)' /\ StatusIsTrue'
    BY <2>2, <2>3, <2>6 DEF KeepsTheBooks, Undecided, StatusIsTrue
  <2> QED
    BY <1>p, <2>2, <2>3, <2>7, BookedBy
<1>12. CASE Suppress(w)
  <2>1. /\ run'[w].pc = "direct" /\ run'[w].direct = run[w].direct /\ run'[w].relay = run[w].relay
        /\ run'[w].verdicts = run[w].verdicts /\ \A u \in Runs : u # w => run'[u] = run[u]
    BY <1>0, <1>12 DEF Suppress, Goto, RunType
  <2>2. Undecided' /\ job' = job /\ result' = result /\ run[w].relay = {} /\ RowsMatch(w)
    BY <1>b, <1>12 DEF Suppress, KeepsTheBooks, Undecided
  <2>3. RowsMatch(w)'
    BY <2>1, <2>2 DEF RowsMatch
  <2>4. KeepsTheBooks(w)' /\ StatusIsTrue'
    BY <2>1, <2>2, <2>3 DEF KeepsTheBooks, Undecided, StatusIsTrue
  <2> QED
    BY <1>p, <2>1, <2>2, <2>4, BookedBy
<1>13. CASE Finish(w)
  <2>1. /\ run'[w].pc = "end" /\ run'[w].ok = ("deferred" \notin run[w].verdicts)
        /\ \A u \in Runs : u # w => run'[u] = run[u]
        /\ job' = job /\ result' = result /\ status' = Overall(run[w].verdicts)
        /\ run[w].direct = {} /\ run[w].pc = "direct"
    BY <1>0, <1>13 DEF Finish, Over, Spent, Idle, RunType
  <2>2. run[w].relay = {} /\ RowsMatch(w)
    BY <1>b, <2>1 DEF KeepsTheBooks, Undecided
  <2>3. /\ \A r \in Recipients : result[r] \in run[w].verdicts \cup {"dropped"}
        /\ \A v \in run[w].verdicts : \E r \in Recipients : result[r] = v
        /\ run[w].verdicts \subseteq {"delivered", "deferred", "bounced"}
    BY <1>0, <2>1, <2>2 DEF RowsMatch, RunType, Verdicts
  <2>4. CASE run[w].verdicts \subseteq {"bounced"}
    <3>1. status' = "bounced"
      BY <2>1, <2>4 DEF Overall
    <3>2. KeepsTheBooks(w)' /\ StatusIsTrue'
      BY <2>1, <2>3, <2>4, <3>1 DEF KeepsTheBooks, Undecided, StatusIsTrue
    <3> QED
      BY <1>p, <2>1, <3>2, BookedBy
  <2>5. CASE "deferred" \in run[w].verdicts
    <3>1. status' = "deferred"
      BY <2>1, <2>5 DEF Overall
    <3>2. KeepsTheBooks(w)' /\ StatusIsTrue'
      BY <2>1, <2>3, <2>5, <3>1 DEF KeepsTheBooks, Undecided, StatusIsTrue
    <3> QED
      BY <1>p, <2>1, <3>2, BookedBy
  <2>6. CASE "deferred" \notin run[w].verdicts /\ ~(run[w].verdicts \subseteq {"bounced"})
    <3>1. status' = "delivered" /\ "delivered" \in run[w].verdicts
      BY <2>1, <2>3, <2>6 DEF Overall
    <3>2. KeepsTheBooks(w)' /\ StatusIsTrue'
      BY <2>1, <2>3, <2>6, <3>1 DEF KeepsTheBooks, Undecided, StatusIsTrue
    <3> QED
      BY <1>p, <2>1, <3>2, BookedBy
  <2> QED
    BY <2>4, <2>5, <2>6
<1>14. CASE End(w)
  <2>1. /\ run'[w].pc = "idle" /\ \A u \in Runs : u # w => run'[u] = run[u]
        /\ status' = status /\ result' = result /\ job' = Ended(w) /\ run[w].pc = "end"
    BY <1>0, <1>14 DEF End, Idle
  <2>2. \A u \in Runs : run'[u].pc = "idle"
    BY <1>b, <2>1 DEF Booked
  <2>3. StatusIsTrue' /\ job'.st # "none"
    <3>1. job'.st # "none"
      BY <1>14, <1>b, JobKept DEF WorkerNext, Work
    <3> QED
      BY <2>1, <3>1 DEF Booked, StatusIsTrue
  <2> QED
    BY <2>2, <2>3 DEF Booked
<1> QED
  BY <1>1, <1>2, <1>3, <1>4, <1>5, <1>6, <1>7, <1>8, <1>9, <1>10, <1>11, <1>12, <1>13, <1>14
  DEF Work

LEMMA BookedStep ==
  CopiesCounted /\ (lapses = 0 => Booked) /\ [WorkerNext]_workerVars => (lapses = 0 => Booked)'
<1> SUFFICES ASSUME CopiesCounted, lapses = 0 => Booked, [WorkerNext]_workerVars, lapses' = 0
             PROVE  Booked'
  OBVIOUS
<1>0. /\ Shape /\ BatchesDiffer /\ JobFits /\ run \in [Runs -> RunType] /\ lapses \in Nat
      /\ job \in JobType
  BY WorldAssumption DEF CopiesCounted, Typed, Shape, RunType, JobType
<1>1. ASSUME NEW w \in Runs, Work(w) PROVE Booked'
  <2>1. lapses' = lapses
    BY ZenonT(40), <1>1 DEF Work, MarkProcessing, Sign, Hold, Release, Plan, Drop, Pace, Relay, Relayed, Deliver,
                RecordVerdict, Suppress, Finish, Over, Spent, Idle, End
  <2> QED
    BY SMTT(30), <1>0, <1>1, <2>1, BookedWork
<1>2. ASSUME NEW w \in Runs, Claim(w) PROVE Booked'
  <2>1. Booked /\ status' = status /\ result' = result /\ job.st = "waiting"
    BY <1>2 DEF Claim
  <2>2. /\ run'[w].pc = "mark" /\ \A u \in Runs : u # w => run'[u] = run[u]
        /\ job'.st = "active" /\ job'.owner = w
    BY <1>0, <1>2 DEF Claim, Idle, JobType
  <2>3. \A u \in Runs : u # w => run'[u].pc = "idle"
    BY <2>1, <2>2 DEF Booked
  <2>4. StatusIsTrue' /\ KeepsTheBooks(w)'
    BY <2>1, <2>2 DEF Booked, StatusIsTrue, KeepsTheBooks, Undecided
  <2> QED
    BY <2>2, <2>3, <2>4 DEF Booked
<1>3. ASSUME NEW w \in Runs, Throw(w) PROVE Booked'
  <2>1. Booked /\ status' = status /\ result' = result /\ job' = job /\ run[w].pc # "idle"
    BY <1>3 DEF Throw, Over, Spent, Idle
  <2>2. /\ run'[w].pc = "end" /\ run'[w].ok = FALSE /\ \A u \in Runs : u # w => run'[u] = run[u]
    BY <1>0, <1>3 DEF Throw, Over, Spent, Idle, RunType
  <2>3. StatusIsTrue' /\ KeepsTheBooks(w)'
    BY <2>1, <2>2 DEF Booked, StatusIsTrue, KeepsTheBooks, Undecided
  <2> QED
    BY <1>0, <2>1, <2>2, <2>3, BookedBy
<1>4. ASSUME NEW w \in Runs, Crash(w) PROVE Booked'
  <2>1. Booked /\ status' = status /\ result' = result /\ job' = job /\ run[w].pc # "idle"
    BY <1>4 DEF Crash
  <2>2. run'[w].pc = "idle" /\ \A u \in Runs : u # w => run'[u] = run[u]
    BY <1>0, <1>4 DEF Crash, Idle
  <2>3. StatusIsTrue' /\ KeepsTheBooks(w)'
    BY <2>1, <2>2 DEF Booked, StatusIsTrue, KeepsTheBooks, Undecided
  <2> QED
    BY <1>0, <2>1, <2>2, <2>3, BookedBy
<1>5. CASE Due
  <2>1. /\ Booked /\ status' = status /\ result' = result /\ run' = run
        /\ job.st = "delayed" /\ job'.st = "waiting"
    BY <1>0, <1>5 DEF Due, JobType
  <2> QED
    BY <2>1 DEF Booked, StatusIsTrue
<1>6. CASE Stall
  <2>1. /\ Booked /\ status' = status /\ result' = result /\ run' = run /\ job.st = "active"
        /\ run[job.owner].pc = "idle" /\ job' = Stalled
    BY <1>0, <1>6 DEF Stall
  <2>2. \A u \in Runs : run[u].pc = "idle"
    BY <2>1 DEF Booked
  <2>3. job'.st \in {"waiting", "failed"}
    BY <1>0, <2>1 DEF Stalled, JobType
  <2> QED
    BY <2>1, <2>2, <2>3 DEF Booked, StatusIsTrue
<1>7. CASE UNCHANGED workerVars
  <2>1. /\ Booked /\ status' = status /\ result' = result /\ run' = run /\ job' = job
    BY <1>7 DEF workerVars
  <2>2. \A w \in Runs : KeepsTheBooks(w) => KeepsTheBooks(w)'
    BY <2>1 DEF KeepsTheBooks, Undecided, RowsMatch
  <2> QED
    BY <2>1, <2>2 DEF Booked, StatusIsTrue, Undecided
<1> QED
  BY <1>1, <1>2, <1>3, <1>4, <1>5, <1>6, <1>7 DEF WorkerNext

LEMMA ListKeepsBooks == (lapses = 0 => Booked) /\ ListTouch => (lapses = 0 => Booked)'
<1> SUFFICES ASSUME lapses = 0 => Booked, ListTouch, lapses' = 0 PROVE Booked'
  OBVIOUS
<1>1. Booked /\ status' = status /\ result' = result /\ run' = run /\ job' = job
  BY DEF ListTouch
<1>2. \A w \in Runs : KeepsTheBooks(w) => KeepsTheBooks(w)'
  BY <1>1 DEF KeepsTheBooks, Undecided, RowsMatch
<1> QED
  BY <1>1, <1>2 DEF Booked, StatusIsTrue, Undecided

LEMMA BookedMail ==
  CopiesCounted /\ (lapses = 0 => Booked) /\ [MailNext]_mailVars => (lapses = 0 => Booked)'
BY MailSteps, BookedStep, ListKeepsBooks DEF CopiesCounted, Typed

LEMMA BookedInit == Init => Booked
BY RunAssumption DEF Init, Booked, StatusIsTrue, Idle

(* what a job that is gone says *)

\* The job may go: the email has been told of, or is held.
Settled == status \in {"delivered", "bounced"} \/ Held

\* As long as nobody but the worker writes the status, and no lock has lapsed.
Concluded ==
  /\ job.st = "gone" => Settled
  /\ \A w \in Runs : run[w].pc = "end" /\ run[w].ok => Settled

LEMMA ConcludedWork ==
  ASSUME Shape, Booked, Concluded, NEW w \in Runs, Work(w)
  PROVE  Concluded'
<1>0. run \in [Runs -> RunType] /\ run[w] \in RunType /\ run[w].pc # "idle"
  BY DEF Shape, Work, MarkProcessing, Sign, Hold, Release, Plan, Drop, Pace, Relay, Relayed, Deliver,
         RecordVerdict, Suppress, Finish, Over, Spent, Idle, End
<1>b. job.st = "active" /\ job.owner = w /\ KeepsTheBooks(w) /\ \A u \in Runs : u # w => run[u].pc = "idle"
  BY <1>0 DEF Booked
<1>1. ASSUME job' = job, \A u \in Runs : u # w => run'[u] = run[u],
             run'[w].pc = "end" /\ run'[w].ok => Settled'
      PROVE  Concluded'
  BY <1>b, <1>1 DEF Concluded
<1>2. CASE Release(w)
  <2>1. /\ \A u \in Runs : u # w => run'[u] = run[u]
        /\ status' = "queued" /\ job' = job /\ result' = result /\ run[w].pc = "release"
    BY <1>0, <1>2 DEF Release, Goto, RunType
  <2> QED
    BY <1>b, <1>1, <2>1 DEF KeepsTheBooks, Settled, Held
<1>3. CASE Finish(w)
  <2>1. /\ run'[w].ok = ("deferred" \notin run[w].verdicts) /\ \A u \in Runs : u # w => run'[u] = run[u]
        /\ job' = job /\ status' = Overall(run[w].verdicts)
    BY <1>0, <1>3 DEF Finish, Over, Spent, Idle, RunType
  <2>2. "deferred" \notin run[w].verdicts => Settled'
    BY <2>1 DEF Overall, Settled
  <2> QED
    BY <1>1, <2>1, <2>2
<1>4. CASE End(w)
  <2>1. /\ run'[w].pc = "idle" /\ \A u \in Runs : u # w => run'[u] = run[u]
        /\ status' = status /\ result' = result /\ job' = Ended(w) /\ run[w].pc = "end"
    BY <1>0, <1>4 DEF End, Idle
  <2>2. \A u \in Runs : run'[u].pc = "idle"
    BY <1>b, <2>1
  <2>3. Settled => Settled'
    BY <2>1 DEF Settled, Held
  <2>4. job'.st = "gone" => run[w].ok
    BY <1>b, <2>1 DEF Ended, Shape, JobType
  <2> QED
    BY <2>1, <2>2, <2>3, <2>4 DEF Concluded
<1>5. CASE ~(Release(w) \/ Finish(w) \/ End(w))
  <2>1. job' = job /\ (\A u \in Runs : u # w => run'[u] = run[u]) /\ run'[w].pc # "end"
    <3>1. CASE MarkProcessing(w) \/ Hold(w) \/ Drop(w) \/ Suppress(w)
      BY <1>0, <3>1 DEF MarkProcessing, Hold, Drop, Suppress, Goto, RunType
    <3>2. CASE Sign(w)
      BY <1>0, <3>2 DEF Sign, RunType
    <3>3. CASE Plan(w)
      <4>0. PICK open \in SUBSET Recipients : open = Recipients \ Suppressions(w)
        OBVIOUS
      <4>1. PICK allowed \in SUBSET open :
              run' = [run EXCEPT
                ![w].pc     = "drop",
                ![w].direct = allowed,
                ![w].relay  = IF RelayMode = "none" THEN {} ELSE open \ allowed,
                ![w].paced  = IF RelayMode = "none" THEN open \ allowed ELSE {}]
        BY <3>3, <4>0 DEF Plan
      <4> QED
        BY <1>0, <3>3, <4>1 DEF Plan, RunType
    <3>4. CASE Pace(w) \/ Relay(w)
      BY <1>0, <3>4 DEF Pace, Relay, RunType
    <3>5. CASE Relayed(w) \/ RecordVerdict(w)
      BY <1>0, <3>5 DEF Relayed, RecordVerdict, RunType
    <3>6. CASE Deliver(w)
      <4>1. PICK r, e : run' = [run EXCEPT ![w].pc = "record", ![w].at = r, ![w].event = e]
        BY <3>6 DEF Deliver
      <4> QED
        BY <1>0, <3>6, <4>1 DEF Deliver, RunType
    <3> QED
      BY <1>5, <3>1, <3>2, <3>3, <3>4, <3>5, <3>6 DEF Work
  <2> QED
    BY <1>1, <2>1
<1> QED
  BY <1>2, <1>3, <1>4, <1>5

LEMMA ConcludedStep ==
  Shape /\ (lapses = 0 => Booked /\ Concluded) /\ [WorkerNext]_workerVars => (lapses = 0 => Concluded)'
<1> SUFFICES ASSUME Shape, lapses = 0 => Booked /\ Concluded, [WorkerNext]_workerVars, lapses' = 0
             PROVE  Concluded'
  OBVIOUS
<1>0. Booked /\ Concluded /\ run \in [Runs -> RunType] /\ job \in JobType
  BY LapsesGrow DEF Shape
<1>1. ASSUME NEW w \in Runs, Work(w) PROVE Concluded'
  BY <1>0, <1>1, ConcludedWork
<1>2. CASE UNCHANGED workerVars
  BY <1>0, <1>2 DEF workerVars, Concluded, Settled, Held
<1>3. ASSUME NEW w \in Runs, Claim(w) \/ Throw(w) \/ Crash(w) PROVE Concluded'
  <2>1. /\ status' = status /\ result' = result /\ (job'.st = "gone" => job.st = "gone")
        /\ run'[w].pc = "end" => ~run'[w].ok
        /\ \A u \in Runs : u # w => run'[u] = run[u]
    <3>1. CASE Claim(w)
      BY <1>0, <3>1 DEF Claim, Idle, JobType
    <3>2. CASE Throw(w)
      BY <1>0, <3>2 DEF Throw, Over, Spent, Idle, RunType
    <3>3. CASE Crash(w)
      BY <1>0, <3>3 DEF Crash, Idle
    <3> QED
      BY <1>3, <3>1, <3>2, <3>3
  <2> QED
    BY <1>0, <2>1 DEF Concluded, Settled, Held
<1>4. CASE Due \/ Stall
  <2>1. /\ status' = status /\ result' = result /\ run' = run /\ job'.st # "gone"
    BY <1>0, <1>4 DEF Due, Stall, Stalled, JobType
  <2> QED
    BY <1>0, <2>1 DEF Concluded, Settled, Held
<1> QED
  BY <1>1, <1>2, <1>3, <1>4 DEF WorkerNext

LEMMA ListKeepsEnds == (lapses = 0 => Concluded) /\ ListTouch => (lapses = 0 => Concluded)'
BY DEF ListTouch, Concluded, Settled, Held

LEMMA ConcludedMail ==
  Shape /\ (lapses = 0 => Booked /\ Concluded) /\ [MailNext]_mailVars => (lapses = 0 => Concluded)'
<1>1. (lapses = 0 => Booked /\ Concluded) => (lapses = 0 => Concluded)
  OBVIOUS
<1> QED
  BY <1>1, MailSteps, ConcludedStep, ListKeepsEnds

LEMMA ConcludedInit == Init => Concluded
BY RunAssumption DEF Init, Concluded, Idle

LEMMA ConcludedHasAJob ==
  Shape /\ Begun /\ (lapses = 0 => Concluded) => RestingMailHasAJob
BY DEF Shape, JobType, Begun, Concluded, Settled, RestingMailHasAJob

\* As long as no run outlives its lock, an email that is not held and has neither been
\* delivered nor bounced has its job in the queue, whatever is rejected or dies.
THEOREM NoMailIsForgotten == Spec => []RestingMailHasAJob
<1>1. CopiesCounted => Shape
  BY DEF CopiesCounted, Typed
<1> QED
  BY <1>1, CountedInit, CountedMail, BegunInit, BegunMail, BookedInit, BookedMail, ConcludedInit,
     ConcludedMail, ConcludedHasAJob, PTL DEF Spec

LEMMA BookedMatches == (lapses = 0 => Booked) => StatusMatchesRows
BY DEF Booked, StatusIsTrue, StatusMatchesRows

\* As long as no two runs meet, the status says what the rows say, for any number of
\* recipients, attempts and faults.
THEOREM StatusIsWhatRowsSay == Spec => []StatusMatchesRows
  BY BookedMatches, CountedInit, CountedMail, BookedInit, BookedMail, PTL DEF Spec

-----------------------------------------------------------------------------
(* mail to those on the list *)

\* Without DKIM required, a sender without a domain row is mailed for and no list is read.
DomainIsKnown == RequireDkim \/ "gone" \notin Domains

PlanKnows == \A w \in Runs : run[w].pc = "plan" => run[w].domain # "gone"

\* The runs under way, and whether one of them holds the lock: there are no more of them
\* than that one and those that have outlived theirs.
Live  == {w \in Runs : run[w].pc # "idle"}
Owned == IF job.st = "active" /\ job.owner \in Live THEN 1 ELSE 0
LiveFit == Cardinality(Live) <= lapses + Owned

\* The runs that have read the list, and have found r to be mailed.
Planned(w, r) == May(w, r) /\ run[w].pc \notin {"mark", "sign", "plan"}
Readers(r) == {w \in Runs : Planned(w, r)}

\* Once r is on the list only those who have read it before may send to r, a copy each,
\* and they are no more than the runs that were under way.
StaleFit ==
  \A r \in Recipients :
    /\ r \in suppressed => stale[r] + Cardinality(Readers(r)) <= 1 + lapses
    /\ r \notin suppressed => stale[r] = 0

ListSeen == PlanKnows /\ LiveFit /\ ListsTyped /\ StaleFit

LEMMA LiveFinite ==
  /\ IsFiniteSet(Live) /\ Cardinality(Live) \in Nat
  /\ \A r : Readers(r) \subseteq Live
  /\ \A r : IsFiniteSet(Readers(r)) /\ Cardinality(Readers(r)) \in Nat /\ Cardinality(Readers(r)) <= Cardinality(Live)
<1>1. Live \subseteq Runs
  BY DEF Live
<1>2. \A r : Readers(r) \subseteq Live
  BY DEF Readers, Planned, Live, May
<1> QED
  BY <1>1, <1>2, RunAssumption, FS_Subset, FS_CardinalityType

LEMMA SeenInit ==
  ASSUME \A w \in Runs : run[w].pc = "idle", lapses \in Nat, stale = [r \in Recipients |-> 0],
         listings \in 0 .. MaxListings
  PROVE  ListSeen
<1>1. Live = {} /\ PlanKnows
  BY DEF Live, PlanKnows
<1>2. Cardinality(Live) = 0 /\ Owned = 0
  BY <1>1, FS_EmptySet DEF Owned
<1>3. LiveFit /\ StaleFit
  BY <1>2, LiveFinite DEF LiveFit, StaleFit
<1> QED
  BY <1>1, <1>3 DEF ListSeen, ListsTyped

\* What the worker does to the number of runs under way.
LEMMA LiveStep == Shape /\ JobFits /\ LiveFit /\ [WorkerNext]_workerVars => LiveFit' /\ lapses' >= lapses
<1> SUFFICES ASSUME Shape, JobFits, LiveFit, [WorkerNext]_workerVars PROVE LiveFit' /\ lapses' >= lapses
  OBVIOUS
<1>0. /\ run \in [Runs -> RunType] /\ job \in JobType /\ lapses \in Nat /\ None \notin Runs
      /\ Owned \in {0, 1} /\ Cardinality(Live) \in Nat /\ IsFiniteSet(Live)
      /\ Cardinality(Live) <= lapses + Owned
  BY WorldAssumption, RunAssumption, LiveFinite DEF Shape, Owned, LiveFit
\* A step of a run that goes on, or of none.
<1>1. ASSUME job' = job, lapses' = lapses, Live' = Live PROVE LiveFit' /\ lapses' >= lapses
  BY <1>0, <1>1 DEF LiveFit, Owned
\* A step with which a run is over.
<1>2. ASSUME NEW w \in Runs, run[w].pc # "idle", run' = [run EXCEPT ![w] = Idle], lapses' = lapses,
             job.owner # w => job' = job
      PROVE  LiveFit' /\ lapses' >= lapses
  <2>1. Live' = Live \ {w} /\ w \in Live
    BY <1>0, <1>2 DEF Live, Idle
  <2>2. Cardinality(Live)' = Cardinality(Live) - 1
    BY <1>0, <2>1, FS_RemoveElement
  <2>3. CASE job.owner = w
    BY <1>0, <1>2, <2>2, <2>3 DEF LiveFit, Owned
  <2>4. CASE job.owner # w
    <3>1. Owned' = Owned
      BY <1>2, <2>1, <2>4 DEF Owned
    <3> QED
      BY <1>0, <1>2, <2>2, <3>1 DEF LiveFit
  <2> QED
    BY <2>3, <2>4
<1>3. ASSUME NEW w \in Runs, Work(w) \/ Throw(w), ~End(w) PROVE LiveFit' /\ lapses' >= lapses
  <2>1. run[w].pc # "idle" /\ job' = job /\ lapses' = lapses
    BY ZenonT(40), <1>3 DEF Work, Throw, MarkProcessing, Sign, Hold, Release, Plan, Drop, Pace, Relay, Relayed,
       Deliver, RecordVerdict, Suppress, Finish, Over, Spent, Idle
  <2>2. run'[w].pc # "idle" /\ \A u \in Runs : u # w => run'[u] = run[u]
    <3>1. CASE MarkProcessing(w) \/ Hold(w) \/ Release(w) \/ Drop(w) \/ Suppress(w)
      BY <1>0, <3>1 DEF MarkProcessing, Hold, Release, Drop, Suppress, Goto, RunType
    <3>2. CASE Sign(w)
      BY <1>0, <3>2 DEF Sign, RunType
    <3>3. CASE Plan(w)
      BY <1>0, <3>3 DEF Plan, RunType
    <3>4. CASE Pace(w) \/ Relay(w)
      BY <1>0, <3>4 DEF Pace, Relay, RunType
    <3>5. CASE Relayed(w) \/ RecordVerdict(w)
      BY <1>0, <3>5 DEF Relayed, RecordVerdict, RunType
    <3>6. CASE Deliver(w)
      BY <1>0, <3>6 DEF Deliver, RunType
    <3>7. CASE Finish(w) \/ Throw(w)
      BY <1>0, <3>7, RunIsOver
    <3> QED
      BY <1>3, <3>1, <3>2, <3>3, <3>4, <3>5, <3>6, <3>7 DEF Work
  <2>3. Live' = Live
    BY <2>1, <2>2 DEF Live
  <2> QED
    BY <1>1, <2>1, <2>3
<1>4. ASSUME NEW w \in Runs, End(w) PROVE LiveFit' /\ lapses' >= lapses
  BY <1>2, <1>4 DEF End, Ended
<1>5. ASSUME NEW w \in Runs, Crash(w) PROVE LiveFit' /\ lapses' >= lapses
  BY <1>2, <1>5 DEF Crash
<1>6. ASSUME NEW w \in Runs, Claim(w) PROVE LiveFit' /\ lapses' >= lapses
  <2>1. Live' = Live \cup {w} /\ w \notin Live
    BY <1>0, <1>6 DEF Claim, Live, Idle
  <2>2. Cardinality(Live)' = Cardinality(Live) + 1
    BY <1>0, <2>1, FS_AddElement
  <2>3. Owned = 0 /\ Owned' = 1 /\ lapses' = lapses
    BY <1>0, <1>6, <2>1 DEF Claim, Owned, JobType
  <2> QED
    BY <1>0, <2>2, <2>3 DEF LiveFit
<1>7. CASE Due
  <2>1. Live' = Live /\ Owned = 0 /\ lapses' = lapses
    BY <1>7 DEF Due, Live, Owned
  <2>2. Owned' = 0
    BY <1>0, <1>7 DEF Due, Owned, JobType
  <2> QED
    BY <1>0, <2>1, <2>2 DEF LiveFit
<1>8. CASE Stall
  <2>1. Live' = Live /\ job.st = "active" /\ job.owner \in Runs
    BY <1>8 DEF Stall, Live, JobFits
  <2>2. Owned' = 0
    BY <1>0, <1>8 DEF Stall, Stalled, Owned, JobType
  <2>3. CASE run[job.owner].pc = "idle"
    BY <1>0, <1>8, <2>1, <2>2, <2>3 DEF Stall, LiveFit, Owned, Live
  <2>4. CASE run[job.owner].pc # "idle"
    BY <1>0, <1>8, <2>1, <2>2, <2>4 DEF Stall, LiveFit
  <2> QED
    BY <2>3, <2>4
<1>9. CASE UNCHANGED workerVars
  BY <1>1, <1>9 DEF workerVars, Live
<1> QED
  BY <1>3, <1>4, <1>5, <1>6, <1>7, <1>8, <1>9 DEF WorkerNext

LEMMA KnowsStep ==
  ASSUME DomainIsKnown
  PROVE  Shape /\ PlanKnows /\ [WorkerNext]_workerVars => PlanKnows'
<1> SUFFICES ASSUME Shape, PlanKnows, [WorkerNext]_workerVars PROVE PlanKnows'
  OBVIOUS
<1>0. run \in [Runs -> RunType]
  BY DEF Shape
<1>1. ASSUME NEW w \in Runs, run'[w].pc # "plan", \A u \in Runs : u # w => run'[u] = run[u] PROVE PlanKnows'
  BY <1>1 DEF PlanKnows
<1>2. ASSUME NEW w \in Runs, Sign(w) PROVE PlanKnows'
  <2>1. PICK d \in Domains :
          run' = [run EXCEPT ![w].pc = IF d # "signed" /\ RequireDkim THEN "hold" ELSE "plan",
                             ![w].domain = d]
    BY <1>2 DEF Sign
  <2>2. /\ run'[w].pc = (IF d # "signed" /\ RequireDkim THEN "hold" ELSE "plan") /\ run'[w].domain = d
        /\ \A u \in Runs : u # w => run'[u] = run[u]
    BY <1>0, <2>1 DEF RunType
  <2> QED
    BY <2>2 DEF PlanKnows, DomainIsKnown
<1>3. ASSUME NEW w \in Runs, ~Sign(w), Claim(w) \/ Work(w) \/ Throw(w) \/ Crash(w) PROVE PlanKnows'
  <2>1. run'[w].pc # "plan" /\ \A u \in Runs : u # w => run'[u] = run[u]
    <3>1. CASE MarkProcessing(w) \/ Hold(w) \/ Release(w) \/ Drop(w) \/ Suppress(w)
      BY <1>0, <3>1 DEF MarkProcessing, Hold, Release, Drop, Suppress, Goto, RunType
    <3>2. CASE Plan(w)
      BY <1>0, <3>2 DEF Plan, RunType
    <3>3. CASE Pace(w) \/ Relay(w)
      BY <1>0, <3>3 DEF Pace, Relay, RunType
    <3>4. CASE Relayed(w) \/ RecordVerdict(w)
      BY <1>0, <3>4 DEF Relayed, RecordVerdict, RunType
    <3>5. CASE Deliver(w)
      BY <1>0, <3>5 DEF Deliver, RunType
    <3>6. CASE Finish(w) \/ Throw(w)
      BY <1>0, <3>6, RunIsOver
    <3>7. CASE Claim(w)
      BY <1>0, <3>7 DEF Claim, Idle
    <3>8. CASE End(w) \/ Crash(w)
      BY <1>0, <3>8 DEF End, Crash, Idle
    <3> QED
      BY <1>3, <3>1, <3>2, <3>3, <3>4, <3>5, <3>6, <3>7, <3>8 DEF Work
  <2> QED
    BY <1>1, <2>1
<1>4. CASE Due \/ Stall \/ UNCHANGED workerVars
  BY <1>4 DEF Due, Stall, workerVars, PlanKnows
<1> QED
  BY <1>2, <1>3, <1>4 DEF WorkerNext

\* No run plans to send to anyone who is on the list when it reads it, and a copy sent to
\* such a one is the last that the run sends.
LEMMA ReadersDwindle ==
  ASSUME Typed, BatchesDiffer, PlanKnows, NEW r \in suppressed, [WorkerNext]_workerVars
  PROVE  /\ Readers(r)' \subseteq Readers(r)
         /\ \/ sent'[r] = sent[r]
            \/ sent'[r] = sent[r] + 1 /\ Readers(r)' # Readers(r)
<1>0. run \in [Runs -> RunType] /\ sent \in [Recipients -> Nat] /\ r \in Recipients
  BY DEF Typed, Shape
\* A run that only goes on towards its plan, or is over.
<1>1. ASSUME NEW w \in Runs, sent' = sent, \A u \in Runs : u # w => run'[u] = run[u], ~Planned(w, r)'
      PROVE  Readers(r)' \subseteq Readers(r)
  <2>1. \A u \in Runs : u # w => (Planned(u, r)' => Planned(u, r))
    BY <1>1 DEF Planned, May
  <2> QED
    BY <1>1, <2>1 DEF Readers
<1>2. ASSUME NEW w \in Runs, MarkProcessing(w) \/ Sign(w) \/ Claim(w) \/ Throw(w) \/ Crash(w)
      PROVE  Readers(r)' \subseteq Readers(r) /\ sent'[r] = sent[r]
  <2>1. sent' = sent
    BY <1>2 DEF MarkProcessing, Sign, Claim, Throw, Over, Spent, Idle, Crash
  <2>2. /\ \A u \in Runs : u # w => run'[u] = run[u]
        /\ run'[w].pc \in {"sign", "hold", "plan", "mark", "end", "idle"}
    <3>1. CASE MarkProcessing(w)
      BY <1>0, <3>1 DEF MarkProcessing, Goto, RunType
    <3>2. CASE Sign(w)
      BY <1>0, <3>2 DEF Sign, RunType
    <3>3. CASE Throw(w)
      BY <1>0, <3>3 DEF Throw, Over, Spent, Idle, RunType
    <3>4. CASE Claim(w)
      BY <1>0, <3>4 DEF Claim, Idle
    <3>5. CASE Crash(w)
      BY <1>0, <3>5 DEF Crash, Idle
    <3> QED
      BY <1>2, <3>1, <3>2, <3>3, <3>4, <3>5
  <2>3. ~Planned(w, r)'
    BY <2>2 DEF Planned, May
  <2> QED
    BY <1>1, <2>1, <2>2, <2>3
<1>3. ASSUME NEW w \in Runs, Plan(w)
      PROVE  Readers(r)' \subseteq Readers(r) /\ sent'[r] = sent[r]
  <2>1. run[w].domain # "gone"
    BY <1>3 DEF Plan, PlanKnows
  <2>2. PICK open \in SUBSET Recipients : open = Recipients \ suppressed
    OBVIOUS
  <2>3. PICK allowed \in SUBSET open :
          run' = [run EXCEPT
            ![w].pc     = "drop",
            ![w].direct = allowed,
            ![w].relay  = IF RelayMode = "none" THEN {} ELSE open \ allowed,
            ![w].paced  = IF RelayMode = "none" THEN open \ allowed ELSE {}]
    BY <1>3, <2>1, <2>2 DEF Plan, Suppressions
  <2>4. /\ run'[w].pc = "drop" /\ run'[w].direct \subseteq open /\ run'[w].relay \subseteq open
        /\ \A u \in Runs : u # w => run'[u] = run[u]
    BY <1>0, <2>3 DEF RunType
  <2>5. ~Planned(w, r)' /\ sent' = sent
    BY <1>3, <2>2, <2>4 DEF Plan, Planned, May
  <2> QED
    BY <1>1, <2>4, <2>5
<1>4. ASSUME NEW w \in Runs, Work(w), ~(MarkProcessing(w) \/ Sign(w) \/ Plan(w))
      PROVE  /\ Readers(r)' \subseteq Readers(r)
             /\ \/ sent'[r] = sent[r]
                \/ sent'[r] = sent[r] + 1 /\ Readers(r)' # Readers(r)
  <2>1. Accounts(w) /\ \A u \in Runs : u # w => run'[u] = run[u]
    BY <1>4, WorkAccounts
  <2>2. run[w].pc \notin {"mark", "sign", "plan"}
    BY ZenonT(40), <1>4 DEF Work, Hold, Release, Drop, Pace, Relay, Relayed, Deliver, RecordVerdict, Suppress,
       Finish, Over, Spent, Idle, End
  <2>3. \A u \in Runs : Planned(u, r)' => Planned(u, r)
    <3>1. Planned(w, r)' => Planned(w, r)
      BY <1>0, <2>1, <2>2 DEF Accounts, Planned
    <3>2. \A u \in Runs : u # w => (Planned(u, r)' => Planned(u, r))
      BY <2>1 DEF Planned, May
    <3> QED
      BY <3>1, <3>2
  <2>4. sent'[r] # sent[r] => sent'[r] = sent[r] + 1 /\ w \in Readers(r) /\ w \notin Readers(r)'
    BY <1>0, <2>1, <2>2 DEF Accounts, Readers, Planned
  <2> QED
    BY <2>3, <2>4 DEF Readers
<1>5. CASE Due \/ Stall \/ UNCHANGED workerVars
  BY <1>5 DEF Due, Stall, workerVars, Readers, Planned, May
<1> QED
  BY <1>2, <1>3, <1>4, <1>5 DEF WorkerNext

LEMMA LiveFinitePrime ==
  /\ IsFiniteSet(Live') /\ Cardinality(Live') \in Nat
  /\ \A r : Cardinality(Readers(r)') \in Nat /\ Cardinality(Readers(r)') <= Cardinality(Live')
<1>1. Live' \subseteq Runs
  BY DEF Live
<1>2. \A r : Readers(r)' \subseteq Live'
  BY DEF Readers, Planned, Live, May
<1> QED
  BY <1>1, <1>2, RunAssumption, FS_Subset, FS_CardinalityType

\* Those who have just been put on the list, and those who are not on it.
LEMMA StaleFitBy ==
  ASSUME Shape', LiveFit',
         \A r \in Recipients : r \notin suppressed \cap suppressed' => stale'[r] = 0,
         \A r \in suppressed \cap suppressed' : stale'[r] + Cardinality(Readers(r)') <= 1 + lapses'
  PROVE  StaleFit'
<1>1. ASSUME NEW r \in suppressed', r \notin suppressed, r \in Recipients
      PROVE  stale'[r] + Cardinality(Readers(r)') <= 1 + lapses'
  <2>1. /\ Cardinality(Readers(r)') \in Nat /\ Cardinality(Live') \in Nat
        /\ Cardinality(Readers(r)') <= Cardinality(Live')
    BY LiveFinitePrime
  <2>2. Cardinality(Live') <= lapses' + Owned' /\ Owned' \in {0, 1} /\ lapses' \in Nat
    BY WorldAssumption DEF LiveFit, Owned, Shape
  <2> QED
    BY <1>1, <2>1, <2>2
<1> QED
  BY <1>1 DEF StaleFit

LEMMA SeenWorkerStep ==
  ASSUME DomainIsKnown
  PROVE  Typed /\ BatchesDiffer /\ ListSeen /\ WorkerStep => PlanKnows' /\ LiveFit' /\ StaleFit'
<1> SUFFICES ASSUME Typed, BatchesDiffer, ListSeen, WorkerStep PROVE PlanKnows' /\ LiveFit' /\ StaleFit'
  OBVIOUS
<1>0. /\ Shape /\ JobFits /\ [WorkerNext]_workerVars /\ Tally /\ Shape'
      /\ PlanKnows /\ LiveFit /\ StaleFit /\ stale \in [Recipients -> Nat]
  BY TypedStep DEF WorkerStep, ListSeen, ListsTyped, Typed
<1>1. PlanKnows' /\ LiveFit' /\ lapses' >= lapses
  BY <1>0, KnowsStep, LiveStep
<1>2. /\ sent \in [Recipients -> Nat] /\ lapses \in Nat /\ lapses' \in Nat /\ suppressed \subseteq Recipients
      /\ suppressed' \subseteq Recipients
  BY <1>0, WorldAssumption DEF Shape
<1>3. \A r \in Recipients : r \notin suppressed \cap suppressed' => stale'[r] = 0
  BY <1>0 DEF Tally
<1>4. ASSUME NEW r \in suppressed \cap suppressed'
      PROVE  stale'[r] + Cardinality(Readers(r)') <= 1 + lapses'
  <2>1. /\ Readers(r)' \subseteq Readers(r)
        /\ \/ sent'[r] = sent[r]
           \/ sent'[r] = sent[r] + 1 /\ Readers(r)' # Readers(r)
    BY <1>0, ReadersDwindle
  <2>2. /\ r \in Recipients /\ stale[r] \in Nat /\ sent[r] \in Nat
        /\ stale'[r] = stale[r] + (sent'[r] - sent[r])
        /\ stale[r] + Cardinality(Readers(r)) <= 1 + lapses
    BY <1>0, <1>2 DEF Tally, StaleFit
  <2>3. /\ IsFiniteSet(Readers(r)) /\ Cardinality(Readers(r)) \in Nat
        /\ Cardinality(Readers(r)') \in Nat /\ Cardinality(Readers(r)') <= Cardinality(Readers(r))
        /\ Readers(r)' # Readers(r) => Cardinality(Readers(r)') < Cardinality(Readers(r))
    BY <2>1, LiveFinite, FS_Subset, FS_CardinalityType
  <2> QED
    BY <1>1, <1>2, <2>1, <2>2, <2>3
<1>5. StaleFit'
  BY <1>0, <1>1, <1>3, <1>4, StaleFitBy
<1> QED
  BY <1>1, <1>5

\* Whoever writes the list, or what else, as long as the runs and the lapsed locks stay the same
\* and nothing is sent.
LEMMA SeenTouch ==
  ASSUME Shape, Shape', ListSeen, Tally, UNCHANGED <<run, sent, lapses>>, job.st = "active" => job' = job
  PROVE  PlanKnows' /\ LiveFit' /\ StaleFit'
<1>1. PlanKnows' /\ Live' = Live /\ \A r : Readers(r)' = Readers(r)
  BY DEF ListSeen, PlanKnows, Live, Readers, Planned, May
<1>2. LiveFit'
  BY <1>1, LiveFinite, WorldAssumption DEF ListSeen, LiveFit, Owned, Shape
<1>3. sent \in [Recipients -> Nat] /\ stale \in [Recipients -> Nat] /\ suppressed \subseteq Recipients
  BY DEF Shape, ListSeen, ListsTyped
<1>4. \A r \in Recipients : r \notin suppressed \cap suppressed' => stale'[r] = 0
  BY DEF Tally
<1>5. ASSUME NEW r \in suppressed \cap suppressed'
      PROVE  stale'[r] + Cardinality(Readers(r)') <= 1 + lapses'
  <2>1. stale'[r] = stale[r] + (sent[r] - sent[r]) /\ r \in Recipients
    BY <1>3 DEF Tally
  <2>2. stale[r] \in Nat /\ sent[r] \in Nat
    BY <1>3, <2>1
  <2>3. stale[r] + Cardinality(Readers(r)) <= 1 + lapses
    BY <2>1 DEF ListSeen, StaleFit
  <2> QED
    BY <1>1, <2>1, <2>2, <2>3
<1> QED
  BY <1>1, <1>2, <1>4, <1>5, StaleFitBy

\* Nor does it matter to the list what becomes of a job that no run holds.
LEMMA SeenKept ==
  ASSUME Shape, ListSeen, UNCHANGED <<run, lapses, suppressed, listVars>>, job.st = "active" => job' = job
  PROVE  ListSeen'
<1>1. PlanKnows' /\ Live' = Live /\ (\A r : Readers(r)' = Readers(r)) /\ UNCHANGED <<listings, stale>>
  BY DEF ListSeen, PlanKnows, Live, Readers, Planned, May, listVars
<1>2. LiveFit'
  BY <1>1, LiveFinite, WorldAssumption DEF ListSeen, LiveFit, Owned, Shape
<1>3. StaleFit' /\ ListsTyped'
  BY <1>1 DEF ListSeen, StaleFit, ListsTyped
<1> QED
  BY <1>1, <1>2, <1>3 DEF ListSeen

LEMMA SeenStep ==
  ASSUME DomainIsKnown
  PROVE  CopiesCounted /\ ListSeen /\ [MailNext]_mailVars => ListSeen'
<1> SUFFICES ASSUME CopiesCounted, ListSeen, [MailNext]_mailVars PROVE ListSeen'
  OBVIOUS
<1>0. Typed /\ BatchesDiffer /\ Shape /\ Shape' /\ ListsTyped'
  BY TypedMail, ListsStep DEF CopiesCounted, ListSeen, Typed
<1>1. CASE WorkerStep
  BY <1>0, <1>1, SeenWorkerStep DEF ListSeen
<1>2. CASE ListStep
  <2>1. UNCHANGED <<run, sent, lapses, job>> /\ Tally
    BY <1>2 DEF ListStep, List, Unlist, Edit
  <2> QED
    BY <1>0, <2>1, SeenTouch DEF ListSeen
<1>3. CASE UNCHANGED mailVars
  <2>1. UNCHANGED <<run, lapses, job, suppressed, listVars>>
    BY <1>3 DEF mailVars, workerVars
  <2> QED
    BY <1>0, <2>1, SeenKept
<1> QED
  BY <1>1, <1>2, <1>3 DEF MailNext

LEMMA SeenBounds == Shape /\ ListSeen => StaleListMailsOnce
<1> SUFFICES ASSUME Shape, ListSeen, NEW r \in Recipients PROVE stale[r] <= 1 + lapses
  BY DEF StaleListMailsOnce
<1>1. stale[r] \in Nat /\ lapses \in Nat /\ Cardinality(Readers(r)) \in Nat
  BY LiveFinite, WorldAssumption DEF Shape, ListSeen, ListsTyped
<1> QED
  BY <1>1 DEF ListSeen, StaleFit

\* An address put on the suppression list, at any time and by anybody, gets at most the copy
\* of the run that had read the list before, and one more for each lock that has lapsed: none
\* from any other run, and none from a retry. DKIM is required, or every sender has a domain row.
THEOREM ListedGetOneCopyMore ==
  ASSUME DomainIsKnown PROVE Spec => []StaleListMailsOnce
<1>1. Init => ListSeen
  BY WorldAssumption, SeenInit DEF Init, Idle
<1>2. CopiesCounted /\ ListSeen => StaleListMailsOnce
  BY SeenBounds DEF CopiesCounted, Typed
<1> QED
  BY <1>1, <1>2, CountedInit, CountedMail, SeenStep, PTL DEF Spec

-----------------------------------------------------------------------------
(***************************************************************************)
(* SendPipeline: the answer "too late"                                     *)
(***************************************************************************)

\* While the window is open the entry is there, or an undo has just used it, unless the
\* job was never added, the email is undone, an undo has failed, or a restart has lost the
\* entry.  Nobody who waits for the marker has found an entry, nor will another.
UndoIsOpen ==
  /\ restarts \in Nat /\ window \in {"open", "closed"} /\ undoable \in BOOLEAN /\ marker \in BOOLEAN
  /\ undo \in [Undos -> {"idle", "reconcile", "revert", "refused"}]
  /\ \A q \in Undos : undo[q] # "idle" => post = "done"
  /\ \A q \in Undos : undo[q] = "reconcile" => ~undoable
  /\ kind = "immediate" /\ window = "open" /\ post = "done" /\ restarts = 0
     /\ "undone" \notin told /\ "unavailable" \notin told /\ "error" \notin told
       => undoable \/ \E q \in Undos : undo[q] = "revert"

LEMMA UndoInit == PipelineInit => UndoIsOpen
<1> SUFFICES ASSUME PipelineInit PROVE UndoIsOpen
  OBVIOUS
<1>1. restarts \in Nat /\ window = "open" /\ undoable = FALSE /\ marker = FALSE /\ post # "done"
  BY DEF PipelineInit
<1>2. undo = [q \in Undos |-> "idle"]
  BY DEF PipelineInit
<1> QED
  BY <1>1, <1>2 DEF UndoIsOpen

LEMMA UndoStep == UndoIsOpen /\ [PipelineNext]_vars => UndoIsOpen'
<1> SUFFICES ASSUME UndoIsOpen, [PipelineNext]_vars PROVE UndoIsOpen'
  OBVIOUS
\* A step that has nothing to do with the entry.
<1>o. ASSUME UNCHANGED <<kind, window, restarts, undoable, undo>>, marker' \in BOOLEAN, told \subseteq told',
             post' = post \/ (post # "done" /\ post' # "done")
      PROVE  UndoIsOpen'
  BY <1>o DEF UndoIsOpen
<1>1. CASE InsertEmail \/ InsertRows \/ MarkUndoable \/ RemoveJob
  <2>1. marker \in BOOLEAN
    BY DEF UndoIsOpen
  <2>2. CASE InsertEmail \/ InsertRows
    BY <1>o, <2>1, <2>2 DEF InsertEmail, InsertRows
  <2>3. CASE MarkUndoable \/ RemoveJob
    BY <1>o, <2>1, <2>3 DEF MarkUndoable, RemoveJob
  <2> QED
    BY <1>1, <2>2, <2>3
<1>2. CASE Enqueue
  BY <1>2 DEF Enqueue, Answer, UndoIsOpen
<1>3. CASE RegisterUndoable
  BY <1>3 DEF RegisterUndoable, UndoIsOpen
<1>4. CASE CloseWindow \/ Forget
  <2>1. window' = "closed" /\ (undoable' = undoable \/ undoable' = FALSE)
    BY <1>4 DEF CloseWindow, Forget
  <2>2. UNCHANGED <<post, restarts, undo, marker>>
    BY <1>4 DEF CloseWindow, Forget
  <2>3. CASE undoable' = undoable
    BY <2>1, <2>2, <2>3 DEF UndoIsOpen
  <2>4. CASE undoable' = FALSE
    BY <2>1, <2>2, <2>4 DEF UndoIsOpen
  <2> QED
    BY <2>1, <2>3, <2>4
<1>5. ASSUME NEW q \in Undos, AskUndo(q) PROVE UndoIsOpen'
  BY <1>5 DEF AskUndo, UndoIsOpen
<1>6. CASE Schedule \/ CancelSchedule
  <2>1. marker \in BOOLEAN
    BY DEF UndoIsOpen
  <2> QED
    BY <1>o, <1>6, <2>1 DEF Schedule, CancelSchedule
<1>7. CASE Restart
  <2>1. /\ restarts' = restarts + 1 /\ undoable' = FALSE /\ UNCHANGED <<window, marker>>
        /\ undo' = [q \in Undos |-> "idle"]
    BY <1>7 DEF Restart
  <2>2. restarts' \in Nat /\ restarts' # 0
    BY <2>1 DEF UndoIsOpen
  <2> QED
    BY <2>1, <2>2 DEF UndoIsOpen
<1>8. CASE UNCHANGED apiVars
  BY <1>8 DEF apiVars, UndoIsOpen
<1>9. ASSUME NEW q \in Undos, Reconcile(q) \/ RevertToDraft(q) PROVE UndoIsOpen'
  <2>1. UNCHANGED <<kind, post, undoable, window, restarts>> /\ marker' \in BOOLEAN
    BY <1>9 DEF Reconcile, RevertToDraft, FailUndo, UndoIsOpen
  <2>2. ASSUME undo' = [undo EXCEPT ![q] = "idle"], "error" \in told' \/ "undone" \in told'
        PROVE  UndoIsOpen'
    BY <2>1, <2>2 DEF UndoIsOpen
  <2>3. CASE FailUndo(q)
    BY <2>2, <2>3 DEF FailUndo
  <2>4. CASE RevertToDraft(q) /\ ~FailUndo(q)
    BY <2>2, <2>4 DEF RevertToDraft
  <2>5. CASE Reconcile(q) /\ ~FailUndo(q)
    <3>1. /\ undo[q] = "reconcile" /\ told' = told
          /\ undo' = [undo EXCEPT ![q] = IF MarkerHolds THEN "revert" ELSE "refused"]
      BY <2>5 DEF Reconcile
    <3> QED
      BY <2>1, <3>1 DEF UndoIsOpen
  <2> QED
    BY <1>9, <2>3, <2>4, <2>5
<1> QED
  BY <1>1, <1>2, <1>3, <1>4, <1>5, <1>6, <1>7, <1>8, <1>9 DEF PipelineNext, ApiNext, ApiWork, vars

\* An undo is answered "too late" only when it is: its window has closed, the email had
\* none or is undone already, or the marker is missing and the entry has been lost in a
\* restart or used up by another undo, which is under way or has failed. So it is for any
\* number of undos, however they overlap.
THEOREM TooLateIsHonest == PipelineSpec => RefusedUndoIsLate
<1> DEFINE Late == \/ window = "closed"
                   \/ kind # "immediate"
                   \/ "undone" \in told \/ "unavailable" \in told
                   \/ ~marker /\ (restarts > 0 \/ "error" \in told \/ \E p \in Undos : undo[p] = "revert")
<1>1. ASSUME UndoIsOpen, PipelineNext, NEW q \in Undos, undo[q] # "refused", undo'[q] = "refused" PROVE Late
  <2>1. ASSUME NEW p \in Undos, AskUndo(p) PROVE Late
    <3>1. p = q
      BY <1>1, <2>1 DEF AskUndo, UndoIsOpen
    <3>2. undo' = [undo EXCEPT ![q] = IF ~undoable THEN "reconcile"
                                     ELSE IF window = "open" THEN "revert" ELSE "refused"]
      BY <2>1, <3>1 DEF AskUndo
    <3> QED
      BY <1>1, <3>2 DEF UndoIsOpen
  <2>2. ASSUME NEW p \in Undos, Reconcile(p) PROVE Late
    <3>1. p = q
      BY <1>1, <2>2 DEF Reconcile, FailUndo, UndoIsOpen
    <3>2. /\ undo[q] = "reconcile"
          /\ \/ undo' = [undo EXCEPT ![q] = "idle"]
             \/ undo' = [undo EXCEPT ![q] = IF MarkerHolds THEN "revert" ELSE "refused"]
      BY <2>2, <3>1 DEF Reconcile, FailUndo
    <3>3. ~MarkerHolds /\ ~undoable /\ post = "done"
      BY <1>1, <3>2 DEF UndoIsOpen
    <3>4. ASSUME kind = "immediate", "undone" \notin told, "unavailable" \notin told, window # "closed"
          PROVE  ~marker /\ (restarts > 0 \/ "error" \in told \/ \E o \in Undos : undo[o] = "revert")
      <4>1. window = "open" /\ ~marker /\ restarts \in Nat
        BY <1>1, <3>3, <3>4 DEF UndoIsOpen, MarkerHolds
      <4>2. restarts = 0 /\ "error" \notin told => \E o \in Undos : undo[o] = "revert"
        BY <1>1, <3>3, <3>4, <4>1 DEF UndoIsOpen
      <4> QED
        BY <4>1, <4>2
    <3> QED
      BY <3>4
  <2>3. ASSUME NEW p \in Undos, RevertToDraft(p) PROVE FALSE
    <3>1. undo' = [undo EXCEPT ![p] = "idle"]
      BY <2>3 DEF RevertToDraft, FailUndo
    <3> QED
      BY <1>1, <3>1 DEF UndoIsOpen
  <2>4. ~Restart /\ ~UNCHANGED undo
    BY <1>1 DEF Restart
  <2> QED
    BY <1>1, <2>1, <2>2, <2>3, <2>4
    DEF PipelineNext, ApiNext, ApiWork, InsertEmail, InsertRows, Enqueue, RegisterUndoable, MarkUndoable,
        RemoveJob, CloseWindow, Forget, Schedule, CancelSchedule, apiVars
<1>2. UndoIsOpen /\ [PipelineNext]_vars
        => [\A q \in Undos : undo[q] # "refused" /\ undo'[q] = "refused" => Late]_vars
  BY <1>1
<1> QED
  BY <1>2, UndoInit, UndoStep, PTL DEF PipelineSpec, RefusedUndoIsLate

-----------------------------------------------------------------------------
(***************************************************************************)
(* SendPipeline: the worker's promises, whatever the API does meanwhile    *)
(***************************************************************************)

\* Until POST /v1/messages adds the job there is none, and nothing to remove.
NoJob == [st |-> "none", made |-> 0, stalls |-> 0, owner |-> None]
JobBegins == post \in {"insert", "rows", "enqueue"} => job = NoJob /\ ~removing

PipelineInv == CopiesCounted /\ Truthful /\ JobBegins

LEMMA NoJobType == NoJob \in JobType
BY AttemptAssumption DEF NoJob, JobType

LEMMA PipelineInvInit == PipelineInit => PipelineInv /\ ListSeen
<1> SUFFICES ASSUME PipelineInit PROVE PipelineInv /\ ListSeen
  OBVIOUS
<1>1. run = [w \in Runs |-> Idle] /\ job = NoJob
  BY DEF PipelineInit, NoJob
<1>2. run \in [Runs -> RunType] /\ \A w \in Runs : run[w].pc = "idle"
  BY <1>1, IdleType DEF Idle
<1>3. Shape
  BY <1>1, <1>2, NoJobType, WorldAssumption DEF PipelineInit, Shape, RowStates
<1>4. JobFits /\ VerdictsFit /\ BatchesDiffer /\ EventsAreTrue
  BY <1>1, <1>2, RunAssumption
  DEF JobFits, VerdictsFit, BatchesDiffer, EventsAreTrue, NoJob, Idle, None
<1>5. CopiesFit
  <2>1. \A r : MaySend(r) = {}
    BY <1>2 DEF MaySend, May
  <2>2. HandedOut \in Nat
    BY <1>3, HandedOutType
  <2>3. sent = [r \in Recipients |-> 0]
    BY DEF PipelineInit
  <2> QED
    BY <2>1, <2>2, <2>3, FS_EmptySet DEF CopiesFit
<1>6. DeliveredIsTrue /\ JobBegins
  BY <1>1 DEF PipelineInit, DeliveredIsTrue, JobBegins
<1>7. ListSeen
  BY <1>2, WorldAssumption, SeenInit DEF PipelineInit
<1> QED
  BY <1>3, <1>4, <1>5, <1>6, <1>7 DEF PipelineInv, CopiesCounted, Truthful, Typed

\* What the endpoints may do to what the worker works on: they write the status, queue
\* the rows before there is a job, and add or remove a job that no run holds.
JobAdded   == job = NoJob /\ job' = [job EXCEPT !.st = "delayed"]
JobRemoved == job.st # "active" /\ job' = [job EXCEPT !.st = "gone"]
ApiTouch ==
  /\ UNCHANGED <<run, sent, suppressed, lapses>>
  /\ faults' = faults \/ Fault
  /\ status' \in {status, "queued", "draft"}
  /\ result' = result \/ (job = NoJob /\ result' = Rows(Recipients, "queued"))
  /\ job' = job \/ JobAdded \/ JobRemoved

LEMMA ApiTouches == JobBegins /\ ApiNext => ApiTouch /\ JobBegins'
<1> SUFFICES ASSUME JobBegins, ApiNext PROVE ApiTouch /\ JobBegins'
  OBVIOUS
<1>1. CASE InsertEmail \/ InsertRows
  BY <1>1 DEF InsertEmail, InsertRows, ApiTouch, JobBegins
<1>2. CASE Enqueue
  BY <1>2 DEF Enqueue, ApiTouch, JobBegins, JobAdded
<1>3. CASE RegisterUndoable
  BY <1>3 DEF RegisterUndoable, ApiTouch, JobBegins, workerVars
<1>8. CASE MarkUndoable
  BY <1>8 DEF MarkUndoable, ApiTouch, JobBegins
<1>9. ASSUME NEW q \in Undos, Reconcile(q) \/ RevertToDraft(q) PROVE ApiTouch /\ JobBegins'
  BY <1>9 DEF Reconcile, RevertToDraft, FailUndo, ApiTouch, JobBegins
<1>4. CASE RemoveJob
  BY <1>4 DEF RemoveJob, ApiTouch, JobBegins, JobRemoved
<1>5. CASE CloseWindow \/ Forget \/ Restart
  BY <1>5 DEF CloseWindow, Forget, Restart, ApiTouch, JobBegins, workerVars
<1>6. ASSUME NEW q \in Undos, AskUndo(q) PROVE ApiTouch /\ JobBegins'
  BY <1>6 DEF AskUndo, ApiTouch, JobBegins, workerVars
<1>7. CASE Schedule \/ CancelSchedule
  BY <1>7 DEF Schedule, CancelSchedule, ApiTouch, JobBegins
<1> QED
  BY <1>1, <1>2, <1>3, <1>4, <1>5, <1>6, <1>7, <1>8, <1>9 DEF ApiNext, ApiWork

LEMMA TouchKeeps == PipelineInv /\ ApiTouch => CopiesCounted' /\ Truthful'
<1> SUFFICES ASSUME PipelineInv, ApiTouch PROVE CopiesCounted' /\ Truthful'
  OBVIOUS
<1>0. /\ Shape /\ JobFits /\ VerdictsFit /\ BatchesDiffer /\ CopiesFit /\ EventsAreTrue /\ DeliveredIsTrue
      /\ job \in JobType /\ None \notin Runs
  BY RunAssumption DEF PipelineInv, CopiesCounted, Truthful, Typed, Shape
<1>1. job' \in JobType /\ JobFits' /\ HandedOut' \in Nat /\ HandedOut' >= HandedOut
  <2>1. CASE job' = job
    BY <1>0, <2>1, HandedOutType DEF JobFits, HandedOut
  <2>2. CASE JobAdded
    <3>1. job' = [st |-> "delayed", made |-> 0, stalls |-> 0, owner |-> None] /\ job = NoJob
      BY <2>2 DEF JobAdded, NoJob
    <3> QED
      BY <1>0, <3>1, AttemptAssumption DEF NoJob, JobType, JobFits, HandedOut
  <2>3. CASE JobRemoved
    <3>1. /\ job' \in JobType /\ job.st # "active" /\ job'.st = "gone"
          /\ job'.made = job.made /\ job'.stalls = job.stalls /\ job'.owner = job.owner
          /\ job.made \in Nat /\ job.stalls \in Nat
      BY <1>0, <2>3, AttemptAssumption DEF JobRemoved, JobType
    <3> QED
      BY <1>0, <3>1 DEF JobFits, HandedOut
  <2> QED
    BY <2>1, <2>2, <2>3 DEF ApiTouch
<1>2. Shape'
  <2>1. status' \in Statuses \cup {"none", "draft"}
    BY <1>0 DEF ApiTouch, Shape, Statuses
  <2>2. result' \in [Recipients -> RowStates]
    BY <1>0, RowsType DEF ApiTouch, Shape, RowStates
  <2>3. faults' \in 0 .. MaxFaults
    BY <1>0, WorldAssumption DEF ApiTouch, Shape, Fault
  <2> QED
    BY <1>0, <1>1, <2>1, <2>2, <2>3 DEF ApiTouch, Shape
<1>3. VerdictsFit' /\ BatchesDiffer' /\ EventsAreTrue'
  BY <1>0 DEF ApiTouch, VerdictsFit, BatchesDiffer, EventsAreTrue
<1>4. DeliveredIsTrue'
  BY <1>0 DEF ApiTouch, DeliveredIsTrue, Rows
<1>5. CopiesFit'
  <2> SUFFICES ASSUME NEW r \in Recipients PROVE (sent[r] + Cardinality(MaySend(r)) <= HandedOut)'
    BY DEF CopiesFit
  <2>1. MaySend(r)' = MaySend(r) /\ sent'[r] = sent[r]
    BY DEF ApiTouch, MaySend, May
  <2>2. /\ sent[r] \in Nat /\ Cardinality(MaySend(r)) \in Nat /\ HandedOut \in Nat
        /\ sent[r] + Cardinality(MaySend(r)) <= HandedOut
    BY <1>0, MaySendFinite, HandedOutType DEF Shape, CopiesFit
  <2> QED
    BY <1>1, <2>1, <2>2
<1> QED
  BY <1>1, <1>2, <1>3, <1>4, <1>5 DEF CopiesCounted, Truthful, Typed

\* A worker finds no job to work on before there is one.
LEMMA WorkerWaits ==
  ASSUME PipelineInv, [WorkerNext]_workerVars, UNCHANGED apiVars
  PROVE  JobBegins'
<1> SUFFICES ASSUME post \in {"insert", "rows", "enqueue"} PROVE job' = NoJob /\ ~removing'
  BY DEF JobBegins, apiVars
<1>1. job = NoJob /\ ~removing' /\ None \notin Runs
  BY RunAssumption DEF PipelineInv, JobBegins, apiVars
<1>2. ~Due /\ ~Stall /\ \A w \in Runs : ~Claim(w)
  BY <1>1 DEF Claim, Due, Stall, NoJob
<1>3. ASSUME NEW w \in Runs, End(w) PROVE job' = job
  BY SMTT(30), <1>1, <1>3 DEF End, Ended, NoJob
<1>4. job' = job
  BY ZenonT(40), <1>2, <1>3
  DEF WorkerNext, Throw, Crash, workerVars, Work, MarkProcessing, Sign, Hold, Release, Plan, Drop,
      Pace, Relay, Relayed, Deliver, RecordVerdict, Suppress, Finish, Over, Spent, Idle
<1> QED
  BY <1>1, <1>4

LEMMA PipelineTypes == PipelineInv => Shape
BY DEF PipelineInv, CopiesCounted, Typed

LEMMA PipelineSteps ==
  PipelineInv /\ [PipelineNext]_vars =>
    \/ ApiNext /\ UNCHANGED listVars
    \/ ListTouch /\ UNCHANGED apiVars
    \/ [WorkerNext]_workerVars /\ UNCHANGED apiVars
BY PipelineTypes, MailSteps DEF PipelineNext, vars, mailVars

LEMMA PipelineInvStep == PipelineInv /\ [PipelineNext]_vars => PipelineInv'
<1>1. PipelineInv /\ ApiNext => PipelineInv'
  BY ApiTouches, TouchKeeps DEF PipelineInv
<1>2. PipelineInv /\ [WorkerNext]_workerVars /\ UNCHANGED apiVars => PipelineInv'
  BY WorkerWaits, CountedStep, TruthfulStep DEF PipelineInv
<1>3. PipelineInv /\ ListTouch /\ UNCHANGED apiVars => PipelineInv'
  BY ListKeepsCopies, ListKeepsTruth DEF PipelineInv, JobBegins, ListTouch, apiVars
<1> QED
  BY <1>1, <1>2, <1>3, PipelineSteps

\* Undo, schedule, cancel and restarts of the API never make the worker send anyone more
\* copies than the job has been handed out times.
THEOREM PipelineCopiesAreBounded == PipelineSpec => []OneCopyPerAttempt
<1>1. PipelineInv => OneCopyPerAttempt
  BY CountedBounds DEF PipelineInv
<1> QED
  BY <1>1, PipelineInvInit, PipelineInvStep, PTL DEF PipelineSpec

\* Whatever they do, no row claims a delivery to a recipient whom no copy has reached.
THEOREM PipelineRowsAreTrue == PipelineSpec => []DeliveredIsTrue
<1>1. PipelineInv => DeliveredIsTrue
  BY DEF PipelineInv, Truthful
<1> QED
  BY <1>1, PipelineInvInit, PipelineInvStep, PTL DEF PipelineSpec

LEMMA PipelineSeenStep ==
  ASSUME DomainIsKnown
  PROVE  PipelineInv /\ ListSeen /\ [PipelineNext]_vars => ListSeen'
<1> SUFFICES ASSUME PipelineInv, ListSeen, [PipelineNext]_vars PROVE ListSeen'
  OBVIOUS
<1>1. CASE ApiNext /\ UNCHANGED listVars
  <2>1. ApiTouch
    BY <1>1, ApiTouches DEF PipelineInv
  <2>2. UNCHANGED <<run, lapses, suppressed>> /\ (job.st = "active" => job' = job)
    BY <2>1 DEF ApiTouch, JobAdded, JobRemoved, NoJob
  <2> QED
    BY <1>1, <2>2, PipelineTypes, SeenKept
<1>2. CASE [MailNext]_mailVars
  BY <1>2, SeenStep DEF PipelineInv
<1> QED
  BY <1>1, <1>2 DEF PipelineNext, vars

\* Nor do they change what somebody put on the suppression list may still get; DKIM is
\* required, or every sender has a domain row.
THEOREM PipelineSparesListed ==
  ASSUME DomainIsKnown PROVE PipelineSpec => []StaleListMailsOnce
<1>1. PipelineInv /\ ListSeen => StaleListMailsOnce
  BY PipelineTypes, SeenBounds
<1> QED
  BY <1>1, PipelineInvInit, PipelineInvStep, PipelineSeenStep, PTL DEF PipelineSpec

(* what the user is told *)

\* The endpoints write no verdict, and no row once there is a job.
LEMMA TouchBooks == Shape /\ Booked /\ ApiTouch => Booked'
<1> SUFFICES ASSUME Shape, Booked, ApiTouch PROVE Booked'
  OBVIOUS
<1>1. Undecided => Undecided'
  BY DEF ApiTouch, Undecided
<1>2. StatusIsTrue'
  <2>1. CASE result' = result
    BY <2>1 DEF ApiTouch, Booked, StatusIsTrue
  <2>2. CASE job = NoJob
    BY <1>1, <2>2 DEF Booked, NoJob, StatusIsTrue, Undecided
  <2> QED
    BY <2>1, <2>2 DEF ApiTouch
<1>3. job'.st = "none" => Undecided'
  BY <1>1 DEF ApiTouch, JobAdded, JobRemoved, Shape, JobType, Booked
<1>4. ASSUME NEW w \in Runs, run'[w].pc # "idle"
      PROVE  job'.st = "active" /\ job'.owner = w /\ KeepsTheBooks(w)'
  <2>1. run' = run /\ job.st = "active" /\ job.owner = w /\ KeepsTheBooks(w)
    BY <1>4 DEF ApiTouch, Booked
  <2>2. job' = job /\ result' = result
    BY <2>1 DEF ApiTouch, JobAdded, JobRemoved, NoJob
  <2>3. KeepsTheBooks(w)'
    BY <1>1, <2>1, <2>2 DEF KeepsTheBooks, RowsMatch
  <2> QED
    BY <2>1, <2>2, <2>3
<1> QED
  BY <1>2, <1>3, <1>4 DEF Booked

LEMMA PipelineBookedStep ==
  PipelineInv /\ (lapses = 0 => Booked) /\ [PipelineNext]_vars => (lapses = 0 => Booked)'
<1>1. PipelineInv /\ (lapses = 0 => Booked) /\ ApiNext => (lapses = 0 => Booked)'
  <2>1. PipelineInv /\ ApiNext => ApiTouch /\ Shape
    BY ApiTouches, PipelineTypes DEF PipelineInv
  <2> QED
    BY <2>1, TouchBooks DEF ApiTouch
<1> QED
  BY <1>1, PipelineSteps, BookedStep, ListKeepsBooks DEF PipelineInv

LEMMA PipelineBookedInit == PipelineInit => Booked
BY DEF PipelineInit, Booked, StatusIsTrue, Undecided, Idle

\* Undo, schedule and cancel write a status of their own; what the worker writes over it or
\* before it is still what the rows say.
THEOREM PipelineStatusIsTrue == PipelineSpec => []StatusMatchesRows
  BY BookedMatches, PipelineInvInit, PipelineInvStep, PipelineBookedInit, PipelineBookedStep, PTL
  DEF PipelineSpec

(* what undo does achieve *)

\* The job is gone, and no run under way has anything left to send.
NoCopyToCome == \A w \in Runs, r \in Recipients : ~May(w, r)
Removed == job.st = "gone" /\ NoCopyToCome

LEMMA RestingSendsNothing == Resting => NoCopyToCome
BY DEF Resting, NoCopyToCome, May

LEMMA RemovedStays ==
  PipelineInv /\ Removed /\ [PipelineNext]_vars => Removed' /\ sent' = sent
<1> SUFFICES ASSUME PipelineInv, Removed, [PipelineNext]_vars PROVE Removed' /\ sent' = sent
  OBVIOUS
<1>0. /\ Typed /\ BatchesDiffer /\ job \in JobType /\ run \in [Runs -> RunType]
      /\ sent \in [Recipients -> Nat] /\ sent' \in [Recipients -> Nat]
  BY PipelineInvStep DEF PipelineInv, CopiesCounted, Typed, Shape
<1>1. CASE ApiNext
  <2>1. ApiTouch
    BY <1>1, ApiTouches DEF PipelineInv
  <2>2. job'.st = "gone"
    <3>1. CASE JobRemoved
      BY <1>0, <3>1 DEF JobRemoved, JobType
    <3> QED
      BY <2>1, <3>1 DEF ApiTouch, JobAdded, NoJob, Removed
  <2> QED
    BY <2>1, <2>2 DEF ApiTouch, Removed, NoCopyToCome, May
<1>2. ASSUME NEW w \in Runs, Work(w) PROVE Removed' /\ sent' = sent
  <2>1. Accounts(w) /\ \A u \in Runs : u # w => run'[u] = run[u]
    BY <1>0, <1>2, WorkAccounts
  <2>2. sent' = sent
    <3>1. \A r \in Recipients : sent'[r] = sent[r]
      BY <2>1 DEF Accounts, Removed, NoCopyToCome
    <3> QED
      BY <1>0, <3>1
  <2>3. NoCopyToCome'
    <3>1. \A r \in Recipients : ~May(w, r)'
      BY <2>1 DEF Accounts, Removed, NoCopyToCome
    <3>2. \A u \in Runs, r \in Recipients : u # w => ~May(u, r)'
      BY SMTT(30), <2>1 DEF Removed, NoCopyToCome, May
    <3> QED
      BY <3>1, <3>2 DEF NoCopyToCome
  <2>4. job' = job
    <3>1. CASE End(w)
      <4>1. job.owner # w
        BY <1>0 DEF Typed, JobFits, Removed
      <4> QED
        BY <3>1, <4>1 DEF End, Ended
    <3> QED
      BY ZenonT(40), <1>2, <3>1
      DEF Work, MarkProcessing, Sign, Hold, Release, Plan, Drop, Pace, Relay, Relayed, Deliver,
          RecordVerdict, Suppress, Finish, Over, Spent, Idle
  <2> QED
    BY <2>2, <2>3, <2>4 DEF Removed
<1>3. ASSUME NEW w \in Runs, Throw(w) \/ Crash(w) PROVE Removed' /\ sent' = sent
  <2>1. sent' = sent /\ job' = job
    BY <1>3 DEF Throw, Over, Spent, Idle, Crash
  <2>2. run'[w].pc \in {"end", "idle"} /\ \A u \in Runs : u # w => run'[u] = run[u]
    <3>1. CASE Throw(w)
      BY <1>0, <3>1 DEF Throw, Over, Spent, Idle, RunType
    <3>2. CASE Crash(w)
      BY <1>0, <3>2 DEF Crash, Idle
    <3> QED
      BY <1>3, <3>1, <3>2
  <2>3. NoCopyToCome'
    <3>1. \A r \in Recipients : ~May(w, r)'
      BY <2>2 DEF May
    <3>2. \A u \in Runs, r \in Recipients : u # w => ~May(u, r)'
      BY <2>2 DEF Removed, NoCopyToCome, May
    <3> QED
      BY <3>1, <3>2 DEF NoCopyToCome
  <2> QED
    BY <2>1, <2>3 DEF Removed
<1>4. (\A w \in Runs : ~Claim(w)) /\ ~Due /\ ~Stall
  BY DEF Claim, Due, Stall, Removed
<1>5. CASE UNCHANGED workerVars \/ ListTouch
  BY <1>5 DEF workerVars, ListTouch, Removed, NoCopyToCome, May
<1> QED
  BY <1>1, <1>2, <1>3, <1>4, <1>5, PipelineSteps DEF WorkerNext

\* Undo does not keep the promise its answer makes (UndoneIsNeverSent), but this one: once
\* the job is gone and no run of it has anything left to send, what has been sent by then is
\* all that is ever sent, whatever the user schedules and however often the API restarts.
THEOREM RemovedIsFinal ==
  ASSUME NEW copies PROVE PipelineSpec => [](Removed /\ sent = copies => [](sent = copies))
<1>1. PipelineInv /\ (Removed /\ sent = copies) /\ [PipelineNext]_vars => (Removed /\ sent = copies)'
  BY RemovedStays
<1>2. Removed /\ sent = copies => sent = copies
  OBVIOUS
<1> QED
  BY <1>1, <1>2, PipelineInvInit, PipelineInvStep, PTL DEF PipelineSpec

\* An undo is in time when its job.remove() is carried out before the job was first handed to
\* a run: then nobody has a copy, and by RemovedIsFinal nobody ever gets one.
UndoInTime ==
  [][RemoveJob /\ job' # job /\ HandedOut = 0 => Removed' /\ \A r \in Recipients : sent'[r] = 0]_vars

THEOREM UndoInTimeIsUnsent == PipelineSpec => UndoInTime
<1>1. ASSUME PipelineInv, RemoveJob, job' # job, HandedOut = 0
      PROVE  Removed' /\ \A r \in Recipients : sent'[r] = 0
  <2>0. job \in JobType /\ sent \in [Recipients -> Nat] /\ CopiesFit
    BY <1>1 DEF PipelineInv, CopiesCounted, Typed, Shape
  <2>1. \A r \in Recipients : sent[r] = 0 /\ Cardinality(MaySend(r)) = 0
    <3> SUFFICES ASSUME NEW r \in Recipients PROVE sent[r] = 0 /\ Cardinality(MaySend(r)) = 0
      OBVIOUS
    <3>1. sent[r] \in Nat /\ sent[r] + Cardinality(MaySend(r)) <= 0
      BY <1>1, <2>0 DEF CopiesFit
    <3> QED
      BY <3>1, MaySendFinite
  <2>2. NoCopyToCome
    <3>1. \A r \in Recipients : MaySend(r) = {}
      BY <2>1, MaySendFinite, FS_EmptySet
    <3> QED
      BY <3>1 DEF NoCopyToCome, MaySend
  <2>3. job.st # "active"
    BY <1>1, <2>0, AttemptAssumption DEF HandedOut, JobType
  <2>4. job'.st = "gone" /\ run' = run /\ sent' = sent
    BY <1>1, <2>0, <2>3 DEF RemoveJob, JobType
  <2> QED
    BY <2>1, <2>2, <2>4 DEF Removed, NoCopyToCome, May
<1>2. PipelineInv /\ [PipelineNext]_vars
        => [RemoveJob /\ job' # job /\ HandedOut = 0 => Removed' /\ \A r \in Recipients : sent'[r] = 0]_vars
  BY <1>1
<1> QED
  BY <1>2, PipelineInvInit, PipelineInvStep, PTL DEF PipelineSpec, UndoInTime

(* what an answer stands for *)

\* Each step of POST /v1/messages finds what the steps before it have saved.
Saved ==
  /\ post = "rows" => status # "none"
  /\ post \in {"enqueue", "register"} => status # "none" /\ RowsWritten
  /\ post = "register" => job.st # "none"

\* Who was told that an email is accepted has it in the database, with a row a recipient,
\* and its job was added, whatever is undone, cancelled or restarted afterwards.
AcceptedIsSaved == "accepted" \in told => status # "none" /\ RowsWritten /\ job.st # "none"

LEMMA TouchSaves ==
  ASSUME PipelineInv, ApiTouch
  PROVE  /\ status # "none" => status' # "none"
         /\ RowsWritten => RowsWritten'
         /\ job.st # "none" => job'.st # "none"
<1>1. status # "none" => status' # "none"
  BY DEF ApiTouch
<1>2. RowsWritten => RowsWritten'
  BY DEF ApiTouch, RowsWritten, Rows
<1>3. job.st # "none" => job'.st # "none"
  BY PipelineTypes DEF ApiTouch, JobAdded, JobRemoved, NoJob, Shape, JobType
<1> QED
  BY <1>1, <1>2, <1>3

LEMMA SavedStep ==
  PipelineInv /\ Saved /\ AcceptedIsSaved /\ [PipelineNext]_vars => Saved' /\ AcceptedIsSaved'
<1> SUFFICES ASSUME PipelineInv, Saved, AcceptedIsSaved, [PipelineNext]_vars PROVE Saved' /\ AcceptedIsSaved'
  OBVIOUS
<1>k. /\ status # "none" => status' # "none"
      /\ RowsWritten => RowsWritten'
      /\ job.st # "none" => job'.st # "none"
  <2>1. CASE ApiNext
    BY <2>1, ApiTouches, TouchSaves DEF PipelineInv
  <2>2. CASE [WorkerNext]_workerVars
    BY <2>2, PipelineTypes, StatusKept, RowsKept, JobKept DEF Statuses
  <2>3. CASE ListTouch
    BY <2>3 DEF ListTouch, RowsWritten
  <2> QED
    BY <2>1, <2>2, <2>3, PipelineSteps
\* Only the steps of the request change what must be there.
<1>o. ASSUME \/ post' = post /\ ("accepted" \in told' => "accepted" \in told)
             \/ post' \in {"dead", "done", "none"} /\ ("accepted" \in told' => "accepted" \in told)
      PROVE  Saved' /\ AcceptedIsSaved'
  BY <1>k, <1>o DEF Saved, AcceptedIsSaved
<1>1. CASE InsertEmail
  <2>1. CASE status' = "queued" /\ post' = "rows"
    BY <1>k, <1>1, <2>1 DEF InsertEmail, Saved, AcceptedIsSaved
  <2> QED
    BY <1>1, <1>o, <2>1 DEF InsertEmail
<1>2. CASE InsertRows
  <2>1. CASE result' = Rows(Recipients, "queued") /\ post' = "enqueue"
    <3>1. RowsWritten'
      BY <2>1 DEF Rows, RowsWritten
    <3>2. post = "rows" /\ told' = told
      BY <1>2 DEF InsertRows
    <3> QED
      BY <1>k, <2>1, <3>1, <3>2 DEF Saved, AcceptedIsSaved
  <2> QED
    BY <1>2, <1>o, <2>1 DEF InsertRows
<1>3. CASE Enqueue
  <2>1. post = "enqueue" /\ status # "none" /\ RowsWritten
    BY <1>3 DEF Enqueue, Saved
  <2>2. CASE job' = [job EXCEPT !.st = "delayed"]
    <3>1. job'.st # "none"
      BY <2>2, PipelineTypes DEF Shape, JobType
    <3>2. post' \in {"register", "done"}
      BY <1>3 DEF Enqueue
    <3> QED
      BY <1>k, <2>1, <3>1, <3>2 DEF Saved, AcceptedIsSaved
  <2>3. CASE post' = "done" /\ told' = told \cup {"unavailable"}
    BY <1>o, <2>3
  <2> QED
    BY <1>3, <2>2, <2>3 DEF Enqueue, Answer
<1>4. CASE RegisterUndoable
  <2>1. post = "register" /\ post' = "done"
    BY <1>4 DEF RegisterUndoable
  <2> QED
    BY <1>k, <2>1 DEF Saved, AcceptedIsSaved
<1>5. ASSUME \/ \E q \in Undos : AskUndo(q) \/ Reconcile(q) \/ RevertToDraft(q)
             \/ Schedule \/ CancelSchedule
      PROVE  Saved' /\ AcceptedIsSaved'
  <2>1. post' = post /\ \E x \in {"undone", "error", "scheduled", "cancelled"} : told' \subseteq told \cup {x}
    BY <1>5 DEF AskUndo, Reconcile, RevertToDraft, FailUndo, Schedule, CancelSchedule
  <2> QED
    BY <1>o, <2>1
<1>6. CASE MarkUndoable \/ RemoveJob \/ CloseWindow \/ Forget \/ UNCHANGED apiVars
  BY <1>o, <1>6 DEF MarkUndoable, RemoveJob, CloseWindow, Forget, apiVars
<1>7. CASE Restart
  BY <1>o, <1>7 DEF Restart
<1> QED
  BY <1>1, <1>2, <1>3, <1>4, <1>5, <1>6, <1>7, PipelineSteps DEF ApiNext, ApiWork

THEOREM AcceptedMailIsSaved == PipelineSpec => []AcceptedIsSaved
<1>1. PipelineInit => Saved /\ AcceptedIsSaved
  BY DEF PipelineInit, Saved, AcceptedIsSaved
<1> QED
  BY <1>1, SavedStep, PipelineInvInit, PipelineInvStep, PTL DEF PipelineSpec

\* Before anyone calls undo, schedule or cancel, only the worker takes the job away.
Uncalled ==
  /\ calls \in Nat
  /\ calls = 0 => (\A q \in Undos : undo[q] = "idle") /\ ~removing /\ (lapses = 0 => Concluded)

LEMMA UncalledStep ==
  PipelineInv /\ (lapses = 0 => Booked) /\ Uncalled /\ [PipelineNext]_vars => Uncalled'
<1> SUFFICES ASSUME PipelineInv, lapses = 0 => Booked, Uncalled, [PipelineNext]_vars PROVE Uncalled'
  OBVIOUS
<1>1. ASSUME (\E q \in Undos : AskUndo(q)) \/ Schedule \/ CancelSchedule PROVE Uncalled'
  <2>1. calls \in Nat /\ calls' = calls + 1
    BY <1>1 DEF AskUndo, Schedule, CancelSchedule, Call, Uncalled
  <2>2. calls' \in Nat /\ calls' # 0
    BY <2>1
  <2> QED
    BY <2>2 DEF Uncalled
<1>2. ASSUME (\E q \in Undos : Reconcile(q) \/ RevertToDraft(q)) \/ RemoveJob PROVE Uncalled'
  BY <1>2 DEF Reconcile, RevertToDraft, RemoveJob, Uncalled
<1>3. CASE InsertEmail \/ InsertRows \/ Enqueue
  <2>1. UNCHANGED <<calls, undo, removing, run, lapses>> /\ job = NoJob
    BY <1>3 DEF InsertEmail, InsertRows, Enqueue, PipelineInv, JobBegins
  <2>2. job'.st # "gone"
    <3>1. CASE job' = job
      BY <2>1, <3>1 DEF NoJob
    <3>2. CASE job' = [job EXCEPT !.st = "delayed"]
      BY <2>1, <3>2 DEF NoJob
    <3> QED
      BY <1>3, <3>1, <3>2 DEF InsertEmail, InsertRows, Enqueue
  <2>3. lapses = 0 => \A w \in Runs : run[w].pc = "idle"
    BY <2>1 DEF Booked, NoJob
  <2>4. (lapses = 0 => Concluded)'
    BY <2>1, <2>2, <2>3 DEF Concluded
  <2> QED
    BY <2>1, <2>4 DEF Uncalled
<1>4. CASE RegisterUndoable \/ MarkUndoable \/ CloseWindow \/ Forget \/ Restart
  <2>1. /\ UNCHANGED <<calls, run, lapses, job, status, result>>
        /\ (\A q \in Undos : undo[q] = "idle") /\ ~removing
             => (\A q \in Undos : undo'[q] = "idle") /\ ~removing'
    <3>1. CASE RegisterUndoable
      BY <3>1 DEF RegisterUndoable, workerVars
    <3>2. CASE MarkUndoable
      BY <3>2 DEF MarkUndoable
    <3>3. CASE CloseWindow
      BY <3>3 DEF CloseWindow, workerVars
    <3>4. CASE Forget
      BY <3>4 DEF Forget, workerVars
    <3>5. CASE Restart
      BY <3>5 DEF Restart, workerVars
    <3> QED
      BY <1>4, <3>1, <3>2, <3>3, <3>4, <3>5
  <2>2. (lapses = 0 => Concluded) => (lapses = 0 => Concluded)'
    BY <2>1 DEF Concluded, Settled, Held
  <2> QED
    BY <2>1, <2>2 DEF Uncalled
<1>5. CASE [WorkerNext]_workerVars /\ UNCHANGED apiVars
  <2>1. (lapses = 0 => Concluded) => (lapses = 0 => Concluded)'
    BY <1>5, PipelineTypes, ConcludedStep
  <2> QED
    BY <1>5, <2>1 DEF Uncalled, apiVars
<1>6. CASE ListTouch /\ UNCHANGED apiVars
  BY <1>6, ListKeepsEnds DEF Uncalled, apiVars
<1> QED
  BY <1>1, <1>2, <1>3, <1>4, <1>5, <1>6, PipelineSteps DEF ApiNext, ApiWork

\* An answer of success means a job: until the user asks for something else, an email the
\* API has accepted has its job in the queue while it is neither told of nor held, as long
\* as no run outlives its lock, whatever faults and restarts there are.
THEOREM AcceptedMailHasAJob ==
  PipelineSpec => [](calls = 0 /\ "accepted" \in told => RestingMailHasAJob)
<1>1. PipelineInit => Uncalled
  BY DEF PipelineInit, Uncalled, Concluded, Idle
<1>2. PipelineInit => Saved /\ AcceptedIsSaved
  BY DEF PipelineInit, Saved, AcceptedIsSaved
<1>3. PipelineInv /\ Uncalled /\ AcceptedIsSaved
        => (calls = 0 /\ "accepted" \in told => RestingMailHasAJob)
  BY PipelineTypes DEF Uncalled, AcceptedIsSaved, Shape, JobType, Concluded, Settled, RestingMailHasAJob
<1> QED
  BY <1>1, <1>2, <1>3, UncalledStep, SavedStep, PipelineInvInit, PipelineInvStep, PipelineBookedInit,
     PipelineBookedStep, PTL DEF PipelineSpec
=============================================================================
