----------------------------- MODULE SweepProofs -----------------------------
(***************************************************************************)
(* Proofs about the sweeps over what failed: DlqProcessor, for any number  *)
(* of API processes, retries, restarts, rejected commands and cleared      *)
(* records, and Dunning, for any number of events, of requests and of      *)
(* faults.                                                                 *)
(***************************************************************************)
EXTENDS DlqProcessor, Dunning, FiniteSetTheorems, TLAPS

-----------------------------------------------------------------------------
(***************************************************************************)
(* DlqProcessor: types, and nothing is lost                                *)
(***************************************************************************)

(* types *)

\* A pass record keeps its type when some of its fields get values of theirs.
PassType == [pc : {"asleep", "fetch", "next", "add", "remove"}, todo : SUBSET Jobs, at : Jobs]

LEMMA JobZero == 0 \in Jobs
BY RetryAssumption DEF Jobs

LEMMA AsleepType == Asleep \in PassType
BY JobZero DEF Asleep, PassType

LEMMA KeyOfJob == \A k \in Jobs : <<"record", k>> \in Keys /\ <<"marker", k>> \in Keys
BY DEF Keys

\* What Note writes is well typed.
LEMMA NoteType ==
  ASSUME TypeOK, NEW p \in Processes, NEW key \in Keys, NEW v \in Marks, Note(p, key, v)
  PROVE  /\ store' \in [Processes -> [Keys -> Marks]]
         /\ writes' \subseteq Processes \X Keys \X Marks
BY DEF TypeOK, Note

LEMMA TypeInit == Init => TypeOK
<1> SUFFICES ASSUME Init PROVE TypeOK
  OBVIOUS
<1>1. Nothing \in [Keys -> Marks]
  BY DEF Nothing, Marks
<1>2. pass \in [Processes -> PassType]
  BY AsleepType DEF Init
<1>3. restarts \in 0 .. MaxRestarts /\ faults \in 0 .. MaxFaults /\ clears \in 0 .. MaxClears
  BY BoundAssumption DEF Init
<1> QED
  BY <1>1, <1>2, <1>3 DEF Init, TypeOK, PassType

LEMMA TypeStep == TypeOK /\ [Next]_vars => TypeOK'
<1> SUFFICES ASSUME TypeOK, [Next]_vars PROVE TypeOK'
  OBVIOUS
<1> USE BoundAssumption
<1>0. Fault => faults' \in 0 .. MaxFaults
  BY DEF TypeOK, Fault
<1>1. ASSUME NEW p \in Processes, Hydrate(p) PROVE TypeOK'
  <2>1. Hydrated(p) \in [Keys -> Marks]
    BY DEF TypeOK, Hydrated
  <2> QED
    BY ZenonT(40), <1>0, <1>1, <2>1 DEF TypeOK, Hydrate
<1>2. ASSUME NEW p \in Processes, Fetch(p) PROVE TypeOK'
  BY ZenonT(40), <1>2 DEF TypeOK, Fetch
<1>3. ASSUME NEW p \in Processes, Examine(p) PROVE TypeOK'
  <2>1. PICK k \in pass[p].todo :
          /\ pass' \in {[pass EXCEPT ![p].todo = @ \ {k}],
                        [pass EXCEPT ![p].pc = "add", ![p].at = k, ![p].todo = @ \ {k}],
                        [pass EXCEPT ![p].pc = "remove", ![p].at = k, ![p].todo = @ \ {k}]}
          /\ \/ UNCHANGED <<store, writes>>
             \/ Note(p, <<"record", k>>, "pending_retry")
             \/ Note(p, <<"record", k>>, "permanently_failed")
    BY <1>3 DEF Examine
  <2>2. k \in Jobs
    BY DEF TypeOK
  <2>3. /\ store' \in [Processes -> [Keys -> Marks]]
        /\ writes' \subseteq Processes \X Keys \X Marks
    <3>1. CASE UNCHANGED <<store, writes>>
      BY <3>1 DEF TypeOK
    <3>2. CASE Note(p, <<"record", k>>, "pending_retry")
      BY <2>2, <3>2, KeyOfJob, NoteType DEF Marks
    <3>3. CASE Note(p, <<"record", k>>, "permanently_failed")
      BY <2>2, <3>3, KeyOfJob, NoteType DEF Marks
    <3> QED
      BY <2>1, <3>1, <3>2, <3>3
  <2>4. pass' \in [Processes -> PassType]
    BY <2>1, <2>2 DEF TypeOK, PassType
  <2> QED
    BY <1>3, <2>3, <2>4 DEF TypeOK, Examine, PassType
<1>4. ASSUME NEW p \in Processes, AddRetry(p) PROVE TypeOK'
  <2> DEFINE k == pass[p].at
  <2>1. k \in Jobs
    BY DEF TypeOK
  <2>2. /\ store' \in [Processes -> [Keys -> Marks]]
        /\ writes' \subseteq Processes \X Keys \X Marks
    BY <1>4, <2>1, KeyOfJob, NoteType DEF AddRetry, Marks
  <2>3. queue' \in [Jobs -> {"none", "waiting", "failed"}]
    BY <1>4 DEF AddRetry, WithRetryOf, TypeOK
  <2>4. faults' \in 0 .. MaxFaults
    BY <1>0, <1>4 DEF AddRetry, TypeOK
  <2>5. pass' \in [Processes -> PassType]
    <3>1. CASE pass' = [pass EXCEPT ![p].pc = "remove"]
      BY <3>1 DEF TypeOK, PassType
    <3>2. CASE pass' = [pass EXCEPT ![p].pc = "next"]
      BY ZenonT(40), <3>2 DEF TypeOK, PassType
    <3> QED
      BY <1>4, <3>1, <3>2 DEF AddRetry
  <2>6. UNCHANGED <<table, sent, restarts, clears>>
    BY <1>4 DEF AddRetry
  <2> QED
    BY <2>2, <2>3, <2>4, <2>5, <2>6 DEF TypeOK, PassType
<1>5. ASSUME NEW p \in Processes, RemoveFailed(p) PROVE TypeOK'
  BY ZenonT(40), <1>0, <1>5 DEF TypeOK, RemoveFailed
<1>6. ASSUME NEW p \in Processes, EndPass(p) PROVE TypeOK'
  BY <1>6, AsleepType DEF TypeOK, EndPass, PassType
<1>7. ASSUME NEW p \in Processes, Clear(p) PROVE TypeOK'
  <2>1. PICK k \in Jobs : Note(p, <<"record", k>>, "none")
    BY <1>7 DEF Clear
  <2>2. /\ store' \in [Processes -> [Keys -> Marks]]
        /\ writes' \subseteq Processes \X Keys \X Marks
    BY <2>1, KeyOfJob, NoteType DEF Marks
  <2> QED
    BY <1>7, <2>2 DEF TypeOK, Clear
<1>8. ASSUME NEW p \in Processes, Restart(p) PROVE TypeOK'
  <2>1. Nothing \in [Keys -> Marks]
    BY DEF Nothing, Marks
  <2> QED
    BY <1>8, <2>1, AsleepType DEF TypeOK, Restart, PassType
<1>9. CASE Persist
  <2>1. PICK x \in writes :
          /\ writes' = writes \ {x}
          /\ \/ table' = [table EXCEPT ![x[2]] = x[3]] /\ UNCHANGED faults
             \/ Fault /\ UNCHANGED table
          /\ UNCHANGED <<queue, store, pass, sent, restarts, clears>>
    BY <1>9 DEF Persist
  <2>2. x[2] \in Keys /\ x[3] \in Marks
    BY DEF TypeOK
  <2> QED
    BY <1>0, <2>1, <2>2 DEF TypeOK
<1>10. CASE Attempt
  BY ZenonT(40), <1>10 DEF TypeOK, Attempt
<1>11. CASE UNCHANGED vars
  BY <1>11 DEF TypeOK, vars
<1> QED
  BY <1>1, <1>2, <1>3, <1>4, <1>5, <1>6, <1>7, <1>8, <1>9, <1>10, <1>11 DEF Next

\* Every variable keeps its type, whatever fails, restarts or is cleared.
THEOREM TypeCorrect == Spec => []TypeOK
BY TypeInit, TypeStep, PTL DEF Spec

-----------------------------------------------------------------------------
(* no email is lost *)

\* The email has been sent, or a later job than k is in the queue.
Later(k) == sent \/ \E j \in Jobs : j > k /\ queue[j] # "none"

\* A marker, wherever it is, tells of a later job; a job is removed only after one.
MarkersAreTrue ==
  /\ \A p \in Processes, k \in Jobs : store[p][<<"marker", k>>] # "none" => Later(k)
  /\ \A k \in Jobs : table[<<"marker", k>>] # "none" => Later(k)
  /\ \A x \in writes, k \in Jobs : x[2] = <<"marker", k>> /\ x[3] # "none" => Later(k)
RemovalsAreSafe == \A p \in Processes : pass[p].pc = "remove" => Later(pass[p].at)
\* The bound of the model leaves room for the retry that is being added.
RetriesFit == \A p \in Processes : pass[p].pc = "add" => pass[p].at < MaxRetries

Kept == TypeOK /\ MarkersAreTrue /\ RemovalsAreSafe /\ RetriesFit /\ NothingLost

LEMMA KeptInit == Init => Kept
<1> SUFFICES ASSUME Init PROVE Kept
  OBVIOUS
<1>1. TypeOK
  BY TypeInit
<1>2. MarkersAreTrue
  BY KeyOfJob DEF Init, MarkersAreTrue, Nothing
<1>3. RemovalsAreSafe
  BY DEF Init, RemovalsAreSafe, Asleep
<1>4. RetriesFit /\ NothingLost
  BY JobZero DEF Init, RetriesFit, NothingLost, Asleep
<1> QED
  BY <1>1, <1>2, <1>3, <1>4 DEF Kept

\* A step that leaves every job where it is, or adds one, loses nothing.
LEMMA LaterStays ==
  ASSUME TypeOK, sent' = sent,
         \A j \in Jobs : queue[j] # "none" => queue'[j] # "none"
  PROVE  (\A k \in Jobs : Later(k) => Later(k)') /\ (NothingLost => NothingLost')
BY DEF Later, NothingLost

\* Neither does the removal of a job that has a later one.
LEMMA LaterSurvives ==
  ASSUME TypeOK, NEW k \in Jobs, Later(k), sent' = sent,
         queue' = [queue EXCEPT ![k] = "none"]
  PROVE  (\A i \in Jobs : Later(i) => Later(i)') /\ NothingLost'
<1>1. CASE sent
  BY <1>1 DEF Later, NothingLost
<1>2. CASE ~sent
  <2>1. PICK j \in Jobs : j > k /\ queue[j] # "none"
    BY <1>2 DEF Later
  <2>2. queue'[j] # "none"
    BY <2>1 DEF TypeOK, Jobs
  <2>3. ASSUME NEW i \in Jobs, Later(i) PROVE Later(i)'
    <3>1. PICK n \in Jobs : n > i /\ queue[n] # "none"
      BY <1>2, <2>3 DEF Later
    <3>2. CASE n = k
      <4>1. j > i
        BY <2>1, <3>1, <3>2 DEF Jobs
      <4> QED
        BY <2>2, <4>1 DEF Later
    <3>3. CASE n # k
      BY <3>1, <3>3 DEF Later, TypeOK
    <3> QED
      BY <3>2, <3>3
  <2> QED
    BY <2>2, <2>3 DEF NothingLost
<1> QED
  BY <1>1, <1>2

\* A step keeps the invariant if no job loses its later job, and what it writes
\* down, or is about to remove, has one.
NewMarkersAreTrue ==
  /\ \A p \in Processes, k \in Jobs :
       store'[p][<<"marker", k>>] # "none" =>
         store[p][<<"marker", k>>] # "none" \/ table[<<"marker", k>>] # "none" \/ Later(k)'
  /\ \A k \in Jobs :
       table'[<<"marker", k>>] # "none" =>
         \/ table[<<"marker", k>>] # "none"
         \/ \E x \in writes : x[2] = <<"marker", k>> /\ x[3] # "none"
  /\ \A x \in writes', k \in Jobs :
       x[2] = <<"marker", k>> /\ x[3] # "none" => x \in writes \/ Later(k)'
NewPassesAreSafe ==
  \A p \in Processes :
    \/ pass'[p].pc \notin {"remove", "add"}
    \/ pass'[p].pc = pass[p].pc /\ pass'[p].at = pass[p].at
    \/ pass'[p].pc = "remove" /\ Later(pass[p].at)'
    \/ pass'[p].pc = "add" /\ pass'[p].at < MaxRetries

LEMMA KeptBy ==
  ASSUME Kept, TypeOK', NothingLost', NewMarkersAreTrue, NewPassesAreSafe,
         \A k \in Jobs : Later(k) => Later(k)'
  PROVE  Kept'
<1>1. MarkersAreTrue'
  BY DEF Kept, MarkersAreTrue, NewMarkersAreTrue
<1>2. \A p \in Processes : pass[p].at \in Jobs
  BY DEF Kept, TypeOK
<1>3. RemovalsAreSafe'
  BY <1>2 DEF Kept, RemovalsAreSafe, NewPassesAreSafe, Later
<1>4. RetriesFit'
  BY DEF Kept, RetriesFit, NewPassesAreSafe
<1> QED
  BY <1>1, <1>3, <1>4 DEF Kept

\* A note that is no marker, or tells of a later job, keeps the markers true.
LEMMA NoteKeepsMarkers ==
  ASSUME TypeOK, NEW p \in Processes, NEW what \in {"record", "marker"}, NEW i \in Jobs, NEW v \in Marks,
         Note(p, <<what, i>>, v), UNCHANGED table,
         what = "marker" => Later(i)'
  PROVE  NewMarkersAreTrue
<1>1. \A q \in Processes, k \in Jobs :
        store'[q][<<"marker", k>>] = store[q][<<"marker", k>>] \/ (what = "marker" /\ k = i)
  BY DEF TypeOK, Note, Keys
<1>2. \A x \in writes', k \in Jobs : x[2] = <<"marker", k>> => x \in writes \/ (what = "marker" /\ k = i)
  BY DEF TypeOK, Note
<1> QED
  BY <1>1, <1>2 DEF NewMarkersAreTrue

LEMMA KeptStep == Kept /\ [Next]_vars => Kept'
<1> SUFFICES ASSUME Kept, [Next]_vars PROVE Kept'
  OBVIOUS
<1>0. TypeOK /\ TypeOK'
  BY TypeStep DEF Kept
<1> DEFINE LaterKept == \A k \in Jobs : Later(k) => Later(k)'
<1>a. ASSUME UNCHANGED <<queue, sent>> PROVE LaterKept /\ NothingLost'
  BY <1>a DEF Later, NothingLost, Kept
<1>b. UNCHANGED <<store, table, writes>> => NewMarkersAreTrue
  BY DEF NewMarkersAreTrue
<1>1. ASSUME NEW p \in Processes, Hydrate(p) PROVE Kept'
  <2>1. UNCHANGED <<queue, sent>> /\ UNCHANGED <<table, writes>>
    BY <1>1 DEF Hydrate
  <2>2. \A q \in Processes, k \in Jobs :
          store'[q][<<"marker", k>>] \in {store[q][<<"marker", k>>], table[<<"marker", k>>]}
    <3>1. store' = [store EXCEPT ![p] = Hydrated(p)] \/ store' = store
      BY <1>1 DEF Hydrate
    <3>2. \A k \in Jobs : Hydrated(p)[<<"marker", k>>]
                            \in {store[p][<<"marker", k>>], table[<<"marker", k>>]}
      BY KeyOfJob DEF Hydrated
    <3> QED
      BY <1>0, <3>1, <3>2 DEF TypeOK
  <2>3. NewMarkersAreTrue
    BY <2>1, <2>2 DEF NewMarkersAreTrue
  <2>4. NewPassesAreSafe
    BY <1>0, <1>1 DEF Hydrate, NewPassesAreSafe, TypeOK
  <2> QED
    BY <1>0, <1>a, <2>1, <2>3, <2>4, KeptBy
<1>2. ASSUME NEW p \in Processes, Fetch(p) PROVE Kept'
  <2>1. UNCHANGED <<queue, sent>> /\ UNCHANGED <<store, table, writes>>
    BY <1>2 DEF Fetch
  <2>2. NewPassesAreSafe
    BY ZenonT(40), <1>0, <1>2 DEF Fetch, NewPassesAreSafe, TypeOK
  <2> QED
    BY <1>0, <1>a, <1>b, <2>1, <2>2, KeptBy
<1>3. ASSUME NEW p \in Processes, Examine(p) PROVE Kept'
  <2>1. UNCHANGED <<queue, sent>> /\ UNCHANGED table
    BY <1>3 DEF Examine
  <2>2. PICK i \in pass[p].todo :
          \/ /\ pass' = [pass EXCEPT ![p].todo = @ \ {i}]
             /\ UNCHANGED <<store, writes>>
          \/ /\ i < MaxRetries
             /\ Note(p, <<"record", i>>, "pending_retry")
             /\ pass' = [pass EXCEPT ![p].pc = "add", ![p].at = i, ![p].todo = @ \ {i}]
          \/ /\ store[p][<<"marker", i>>] # "none"
             /\ Note(p, <<"record", i>>, "permanently_failed")
             /\ pass' = [pass EXCEPT ![p].pc = "remove", ![p].at = i, ![p].todo = @ \ {i}]
    BY <1>3 DEF Examine
  <2>3. i \in Jobs
    BY <1>0 DEF TypeOK
  <2>4. LaterKept /\ NothingLost'
    BY <1>a, <2>1
  <2>5. NewMarkersAreTrue
    <3>1. CASE UNCHANGED <<store, writes>>
      BY <1>b, <2>1, <3>1
    <3>2. CASE Note(p, <<"record", i>>, "pending_retry")
      BY <1>0, <2>1, <2>3, <3>2, NoteKeepsMarkers DEF Marks
    <3>3. CASE Note(p, <<"record", i>>, "permanently_failed")
      BY <1>0, <2>1, <2>3, <3>3, NoteKeepsMarkers DEF Marks
    <3> QED
      BY <2>2, <3>1, <3>2, <3>3
  <2>p. /\ \A q \in Processes \ {p} : pass'[q] = pass[q]
        /\ \/ pass'[p].pc = "next"
           \/ pass'[p].pc = "add" /\ pass'[p].at = i /\ i < MaxRetries
           \/ pass'[p].pc = "remove" /\ pass'[p].at = i /\ store[p][<<"marker", i>>] # "none"
    <3>1. CASE pass' = [pass EXCEPT ![p].todo = @ \ {i}]
      <4>1. pass[p].pc = "next"
        BY <1>3 DEF Examine
      <4> QED
        BY <1>0, <3>1, <4>1 DEF TypeOK
    <3>2. CASE /\ i < MaxRetries
               /\ pass' = [pass EXCEPT ![p].pc = "add", ![p].at = i, ![p].todo = @ \ {i}]
      BY <1>0, <3>2 DEF TypeOK
    <3>3. CASE /\ store[p][<<"marker", i>>] # "none"
               /\ pass' = [pass EXCEPT ![p].pc = "remove", ![p].at = i, ![p].todo = @ \ {i}]
      BY <1>0, <3>3 DEF TypeOK
    <3> QED
      BY <2>2, <3>1, <3>2, <3>3
  <2>6. RemovalsAreSafe'
    <3>1. store[p][<<"marker", i>>] # "none" => Later(i)'
      BY <2>3, <2>4 DEF Kept, MarkersAreTrue
    <3>2. ASSUME NEW q \in Processes, (pass[q].pc = "remove")' PROVE Later(pass[q].at)'
      <4>1. CASE q = p
        BY <2>p, <3>1, <3>2, <4>1 DEF Later
      <4>2. CASE q # p
        <5>1. pass'[q] = pass[q]
          BY <2>p, <4>2
        <5>2. Later(pass[q].at)
          BY <3>2, <5>1 DEF Kept, RemovalsAreSafe
        <5> QED
          BY <2>1, <5>1, <5>2 DEF Later
      <4> QED
        BY <4>1, <4>2
    <3> QED
      BY <3>2 DEF RemovalsAreSafe
  <2>7. RetriesFit'
    BY <2>p DEF Kept, RetriesFit
  <2>8. MarkersAreTrue'
    BY <2>4, <2>5 DEF Kept, MarkersAreTrue, NewMarkersAreTrue
  <2> QED
    BY <1>0, <2>4, <2>6, <2>7, <2>8 DEF Kept
<1>4. ASSUME NEW p \in Processes, AddRetry(p) PROVE Kept'
  <2>0. PICK i : i = pass[p].at
    OBVIOUS
  <2>1. i \in Jobs /\ i < MaxRetries /\ i + 1 \in Jobs
    BY <2>0, <1>0, <1>4, RetryAssumption DEF AddRetry, Kept, RetriesFit, TypeOK, Jobs
  <2>2. sent' = sent /\ UNCHANGED table
    BY <1>4 DEF AddRetry
  <2>3. \A j \in Jobs : queue[j] # "none" => queue'[j] # "none"
    BY <1>0, <1>4 DEF AddRetry, WithRetryOf, TypeOK
  <2>4. LaterKept /\ NothingLost'
    BY <1>0, <2>2, <2>3, LaterStays DEF Kept
  <2>5. CASE /\ queue' = WithRetryOf(i)
             /\ Note(p, <<"marker", i>>, "pending_retry")
             /\ pass' = [pass EXCEPT ![p].pc = "remove"]
    <3>1. queue'[i + 1] # "none"
      BY <1>0, <2>1, <2>5 DEF WithRetryOf, TypeOK
    <3>2. Later(i)'
      BY <2>1, <3>1 DEF Later, Jobs, TypeOK
    <3>3. NewMarkersAreTrue
      BY <1>0, <2>1, <2>2, <2>5, <3>2, NoteKeepsMarkers DEF Marks
    <3>4. NewPassesAreSafe
      BY <1>0, <2>0, <2>5, <3>2 DEF NewPassesAreSafe, Later, TypeOK
    <3> QED
      BY <1>0, <2>4, <3>3, <3>4, KeptBy
  <2>6. CASE /\ Note(p, <<"record", i>>, "permanently_failed")
             /\ pass' = [pass EXCEPT ![p].pc = "next"]
    <3>1. NewMarkersAreTrue
      BY <1>0, <2>1, <2>2, <2>6, NoteKeepsMarkers DEF Marks
    <3>2. NewPassesAreSafe
      BY <1>0, <2>6 DEF NewPassesAreSafe, TypeOK
    <3> QED
      BY <1>0, <2>4, <3>1, <3>2, KeptBy
  <2> QED
    BY <1>4, <2>0, <2>5, <2>6 DEF AddRetry
<1>5. ASSUME NEW p \in Processes, RemoveFailed(p) PROVE Kept'
  <2>1. pass[p].at \in Jobs /\ Later(pass[p].at)
    BY <1>0, <1>5 DEF RemoveFailed, Kept, RemovalsAreSafe, TypeOK
  <2>2. sent' = sent /\ UNCHANGED <<store, table, writes>>
    BY <1>5 DEF RemoveFailed
  <2>3. LaterKept /\ NothingLost'
    <3>1. CASE queue' = [queue EXCEPT ![pass[p].at] = "none"]
      BY <1>0, <2>1, <2>2, <3>1, LaterSurvives
    <3>2. CASE UNCHANGED queue
      BY <1>a, <2>2, <3>2
    <3> QED
      BY <1>5, <3>1, <3>2 DEF RemoveFailed
  <2>4. NewPassesAreSafe
    BY <1>0, <1>5 DEF RemoveFailed, NewPassesAreSafe, TypeOK
  <2> QED
    BY <1>0, <1>b, <2>2, <2>3, <2>4, KeptBy
<1>6. ASSUME NEW p \in Processes, EndPass(p) PROVE Kept'
  <2>1. UNCHANGED <<queue, sent>> /\ UNCHANGED <<store, table, writes>>
    BY <1>6 DEF EndPass
  <2>2. NewPassesAreSafe
    BY <1>0, <1>6 DEF EndPass, NewPassesAreSafe, Asleep, TypeOK
  <2> QED
    BY <1>0, <1>a, <1>b, <2>1, <2>2, KeptBy
<1>7. ASSUME NEW p \in Processes, Clear(p) PROVE Kept'
  <2>1. UNCHANGED <<queue, sent>> /\ UNCHANGED <<table, pass>>
    BY <1>7 DEF Clear
  <2>2. PICK k \in Jobs : Note(p, <<"record", k>>, "none")
    BY <1>7 DEF Clear
  <2>3. NewMarkersAreTrue
    BY <1>0, <2>1, <2>2, NoteKeepsMarkers DEF Marks
  <2>4. NewPassesAreSafe
    BY <2>1 DEF NewPassesAreSafe
  <2> QED
    BY <1>0, <1>a, <2>1, <2>3, <2>4, KeptBy
<1>8. ASSUME NEW p \in Processes, Restart(p) PROVE Kept'
  <2>1. UNCHANGED <<queue, sent>> /\ UNCHANGED table
    BY <1>8 DEF Restart
  <2>2. \A q \in Processes, k \in Jobs :
          store'[q][<<"marker", k>>] \in {store[q][<<"marker", k>>], "none"}
    BY <1>0, <1>8, KeyOfJob DEF Restart, Nothing, TypeOK
  <2>3. NewMarkersAreTrue
    BY <1>8, <2>1, <2>2 DEF NewMarkersAreTrue, Restart
  <2>4. NewPassesAreSafe
    BY <1>0, <1>8 DEF Restart, NewPassesAreSafe, Asleep, TypeOK
  <2> QED
    BY <1>0, <1>a, <2>1, <2>3, <2>4, KeptBy
<1>9. CASE Persist
  <2>1. PICK x \in writes :
          /\ writes' = writes \ {x}
          /\ table' = [table EXCEPT ![x[2]] = x[3]] \/ UNCHANGED table
          /\ UNCHANGED <<queue, store, pass, sent>>
    BY <1>9 DEF Persist
  <2>2. \A k \in Jobs : table'[<<"marker", k>>] = table[<<"marker", k>>]
                          \/ (x[2] = <<"marker", k>> /\ table'[<<"marker", k>>] = x[3])
    BY <1>0, <2>1, KeyOfJob DEF TypeOK
  <2>3. NewMarkersAreTrue
    BY <2>1, <2>2 DEF NewMarkersAreTrue
  <2>4. NewPassesAreSafe
    BY <2>1 DEF NewPassesAreSafe
  <2> QED
    BY <1>0, <1>a, <2>1, <2>3, <2>4, KeptBy
<1>10. CASE Attempt
  <2>1. UNCHANGED <<store, table, writes, pass>>
    BY <1>10 DEF Attempt
  <2>2. LaterKept /\ NothingLost'
    <3>1. CASE sent'
      BY <3>1 DEF Later, NothingLost
    <3>2. CASE sent' = sent /\ \A j \in Jobs : queue[j] # "none" => queue'[j] # "none"
      BY <1>0, <3>2, LaterStays DEF Kept
    <3> QED
      BY <1>0, <1>10, <3>1, <3>2 DEF Attempt, TypeOK
  <2>3. NewPassesAreSafe
    BY <2>1 DEF NewPassesAreSafe
  <2> QED
    BY <1>0, <1>b, <2>1, <2>2, <2>3, KeptBy
<1>11. CASE UNCHANGED vars
  <2>1. NewPassesAreSafe
    BY <1>11 DEF NewPassesAreSafe, vars
  <2> QED
    BY <1>0, <1>a, <1>b, <1>11, <2>1, KeptBy DEF vars
<1> QED
  BY <1>1, <1>2, <1>3, <1>4, <1>5, <1>6, <1>7, <1>8, <1>9, <1>10, <1>11 DEF Next

\* No email is lost among the dead letters: until one of its jobs has been carried out
\* one of them is in the queue, with any number of API processes, restarts, lost writes,
\* rejected commands and cleared records.
THEOREM NothingIsLost == Spec => []NothingLost
<1>1. Kept => NothingLost
  BY DEF Kept
<1> QED
  BY <1>1, KeptInit, KeptStep, PTL DEF Spec

-----------------------------------------------------------------------------
(***************************************************************************)
(* DlqProcessor: one process alone, and records of failures                *)
(***************************************************************************)

(* one process alone *)

\* The process is alone and has not restarted.
Solo(p) == Processes = {p} /\ restarts = 0

Marked(p, k) == store[p][<<"marker", k>>] # "none"

\* Retries are queued in a chain, and each leaves its marker: a job without one is the
\* last, so it alone may be waiting.
Chained(p) ==
  /\ \A k, j \in Jobs : k < j /\ (queue[j] # "none" \/ Marked(p, j)) => Marked(p, k)
  /\ \A k \in Jobs : queue[k] = "waiting" => ~Marked(p, k)
\* The table tells nothing of retries that the process does not know.
KnowsMarkers(p) ==
  /\ \A k \in Jobs : table[<<"marker", k>>] # "none" => Marked(p, k)
  /\ \A x \in writes, k \in Jobs : x[2] = <<"marker", k>> /\ x[3] # "none" => Marked(p, k)
\* The jobs of the pass are still there, as they were when it fetched them.
PassIsFresh(p) ==
  /\ \A k \in pass[p].todo : queue[k] = "failed"
  /\ pass[p].pc \in {"add", "remove"} => queue[pass[p].at] = "failed" /\ pass[p].at \notin pass[p].todo
  /\ pass[p].pc = "add" => ~Marked(p, pass[p].at) /\ pass[p].at < MaxRetries
AloneHolds(p) == Chained(p) /\ KnowsMarkers(p) /\ PassIsFresh(p)

AloneInv == \A p \in Processes : Solo(p) => AloneHolds(p)

LEMMA AloneInit == Init => AloneInv
<1> SUFFICES ASSUME Init, NEW p \in Processes PROVE AloneHolds(p)
  BY DEF AloneInv
<1>1. \A k \in Jobs : ~Marked(p, k) /\ table[<<"marker", k>>] = "none"
  BY KeyOfJob DEF Init, Marked, Nothing
<1>2. \A k, j \in Jobs : k < j => queue[j] = "none"
  BY DEF Init, Jobs
<1> QED
  BY <1>1, <1>2 DEF Init, AloneHolds, Chained, KnowsMarkers, PassIsFresh, Asleep

\* A note that is no marker changes none.
LEMMA RecordNote ==
  ASSUME TypeOK, NEW p \in Processes, NEW i \in Jobs, NEW v \in Marks, Note(p, <<"record", i>>, v)
  PROVE  /\ \A k \in Jobs : Marked(p, k)' <=> Marked(p, k)
         /\ \A x \in writes', k \in Jobs : x[2] = <<"marker", k>> => x \in writes
<1>1. \A k \in Jobs : store'[p][<<"marker", k>>] = store[p][<<"marker", k>>]
  BY DEF TypeOK, Note, Keys
<1>2. \A x \in writes', k \in Jobs : x[2] = <<"marker", k>> => x \in writes
  BY DEF TypeOK, Note
<1> QED
  BY <1>1, <1>2 DEF Marked

\* A step that touches no marker, no table and no queue leaves the chain.
LEMMA ChainStays ==
  ASSUME NEW p \in Processes, AloneHolds(p), queue' = queue, table' = table,
         \A k \in Jobs : Marked(p, k)' <=> Marked(p, k),
         \A x \in writes', k \in Jobs : x[2] = <<"marker", k>> => x \in writes
  PROVE  Chained(p)' /\ KnowsMarkers(p)'
BY DEF AloneHolds, Chained, KnowsMarkers

LEMMA AloneStep == TypeOK /\ AloneInv /\ [Next]_vars => AloneInv'
<1> SUFFICES ASSUME TypeOK, AloneInv, [Next]_vars, NEW p \in Processes, Solo(p)'
             PROVE  AloneHolds(p)'
  BY DEF AloneInv
<1>0. /\ queue \in [Jobs -> {"none", "waiting", "failed"}] /\ store \in [Processes -> [Keys -> Marks]]
      /\ table \in [Keys -> Marks] /\ pass \in [Processes -> PassType]
      /\ restarts \in Nat /\ restarts' = 0 /\ Processes = {p}
  BY DEF TypeOK, PassType, Solo
<1>1. restarts' = restarts => AloneHolds(p)
  BY <1>0 DEF AloneInv, Solo
<1>2. ASSUME UNCHANGED store PROVE \A k \in Jobs : Marked(p, k)' <=> Marked(p, k)
  BY <1>2 DEF Marked
<1>3. CASE Hydrate(p)
  <2>1. AloneHolds(p) /\ queue' = queue /\ table' = table /\ writes' = writes
    BY <1>1, <1>3 DEF Hydrate
  <2>2. \A k \in Jobs : Marked(p, k)' <=> Marked(p, k)
    <3>1. CASE UNCHANGED store
      BY <1>2, <3>1
    <3>2. CASE store' = [store EXCEPT ![p] = Hydrated(p)]
      <4>1. \A k \in Jobs : store'[p][<<"marker", k>>]
                              = IF table[<<"marker", k>>] = "none" \/ store[p][<<"marker", k>>] = "permanently_failed"
                                THEN store[p][<<"marker", k>>] ELSE table[<<"marker", k>>]
        BY <1>0, <3>2, KeyOfJob DEF Hydrated
      <4>2. \A k \in Jobs : table[<<"marker", k>>] # "none" => Marked(p, k)
        BY <2>1 DEF AloneHolds, KnowsMarkers
      <4> QED
        BY <4>1, <4>2 DEF Marked
    <3> QED
      BY <1>3, <3>1, <3>2 DEF Hydrate
  <2>3. Chained(p)' /\ KnowsMarkers(p)'
    BY <2>1, <2>2, ChainStays
  <2>4. pass'[p].pc = "fetch" /\ pass'[p].todo = pass[p].todo
    BY <1>0, <1>3 DEF Hydrate, PassType
  <2>5. PassIsFresh(p)'
    BY <2>1, <2>4 DEF AloneHolds, PassIsFresh
  <2> QED
    BY <2>3, <2>5 DEF AloneHolds
<1>4. CASE Fetch(p)
  <2>1. AloneHolds(p) /\ queue' = queue /\ table' = table /\ writes' = writes /\ store' = store
    BY <1>1, <1>4 DEF Fetch
  <2>2. Chained(p)' /\ KnowsMarkers(p)'
    BY <1>2, <2>1, ChainStays
  <2>3. pass'[p].pc = "next" /\ \A k \in pass'[p].todo : queue[k] = "failed"
    BY <1>0, <1>4 DEF Fetch, PassType
  <2>4. PassIsFresh(p)'
    BY <2>1, <2>3 DEF PassIsFresh
  <2> QED
    BY <2>2, <2>4 DEF AloneHolds
<1>5. CASE Examine(p)
  <2>1. AloneHolds(p) /\ queue' = queue /\ table' = table /\ pass[p].pc = "next"
    BY <1>1, <1>5 DEF Examine
  <2>2. PICK k \in pass[p].todo :
          \/ /\ pass' = [pass EXCEPT ![p].todo = @ \ {k}]
             /\ UNCHANGED <<store, writes>>
          \/ /\ store[p][<<"marker", k>>] = "none" /\ k < MaxRetries
             /\ Note(p, <<"record", k>>, "pending_retry")
             /\ pass' = [pass EXCEPT ![p].pc = "add", ![p].at = k, ![p].todo = @ \ {k}]
          \/ /\ Note(p, <<"record", k>>, "permanently_failed")
             /\ pass' = [pass EXCEPT ![p].pc = "remove", ![p].at = k, ![p].todo = @ \ {k}]
    BY <1>5 DEF Examine
  <2>3. k \in Jobs /\ queue[k] = "failed"
    BY <1>0, <2>1 DEF AloneHolds, PassIsFresh, PassType
  <2>4. /\ \A j \in Jobs : Marked(p, j)' <=> Marked(p, j)
        /\ \A x \in writes', j \in Jobs : x[2] = <<"marker", j>> => x \in writes
    <3>1. CASE UNCHANGED <<store, writes>>
      BY <1>2, <3>1
    <3>2. CASE Note(p, <<"record", k>>, "pending_retry")
      BY <2>3, <3>2, RecordNote DEF Marks
    <3>3. CASE Note(p, <<"record", k>>, "permanently_failed")
      BY <2>3, <3>3, RecordNote DEF Marks
    <3> QED
      BY <2>2, <3>1, <3>2, <3>3
  <2>5. Chained(p)' /\ KnowsMarkers(p)'
    BY <2>1, <2>4, ChainStays
  <2>6. /\ pass'[p].todo = pass[p].todo \ {k}
        /\ \/ pass'[p].pc = "next"
           \/ pass'[p].pc = "add" /\ pass'[p].at = k /\ ~Marked(p, k) /\ k < MaxRetries
           \/ pass'[p].pc = "remove" /\ pass'[p].at = k
    <3>1. CASE pass' = [pass EXCEPT ![p].todo = @ \ {k}]
      BY <1>0, <2>1, <3>1 DEF PassType
    <3>2. CASE /\ store[p][<<"marker", k>>] = "none" /\ k < MaxRetries
               /\ pass' = [pass EXCEPT ![p].pc = "add", ![p].at = k, ![p].todo = @ \ {k}]
      BY <1>0, <3>2 DEF PassType, Marked
    <3>3. CASE pass' = [pass EXCEPT ![p].pc = "remove", ![p].at = k, ![p].todo = @ \ {k}]
      BY <1>0, <3>3 DEF PassType
    <3> QED
      BY <2>2, <3>1, <3>2, <3>3
  <2>7. PassIsFresh(p)'
    <3>1. \A j \in pass'[p].todo : queue'[j] = "failed"
      BY <2>1, <2>6 DEF AloneHolds, PassIsFresh
    <3>2. k \notin pass'[p].todo /\ queue'[k] = "failed"
      BY <2>1, <2>3, <2>6
    <3> QED
      BY <2>3, <2>4, <2>6, <3>1, <3>2 DEF PassIsFresh
  <2> QED
    BY <2>5, <2>7 DEF AloneHolds
<1>6. CASE AddRetry(p)
  <2>1. AloneHolds(p) /\ table' = table /\ pass[p].pc = "add"
    BY <1>1, <1>6 DEF AddRetry
  <2>2. PICK i \in Jobs : i = pass[p].at
    BY <1>0 DEF PassType
  <2>3. /\ queue[i] = "failed" /\ i \notin pass[p].todo /\ ~Marked(p, i) /\ i < MaxRetries
        /\ \A k \in pass[p].todo : queue[k] = "failed"
    BY <2>1, <2>2 DEF AloneHolds, PassIsFresh
  <2>4. CASE /\ Note(p, <<"record", i>>, "permanently_failed")
             /\ pass' = [pass EXCEPT ![p].pc = "next"] /\ queue' = queue
    <3>1. /\ \A j \in Jobs : Marked(p, j)' <=> Marked(p, j)
          /\ \A x \in writes', j \in Jobs : x[2] = <<"marker", j>> => x \in writes
      BY <2>4, RecordNote DEF Marks
    <3>2. Chained(p)' /\ KnowsMarkers(p)'
      BY <2>1, <2>4, <3>1, ChainStays
    <3>3. pass'[p].pc = "next" /\ pass'[p].todo = pass[p].todo
      BY <1>0, <2>4 DEF PassType
    <3>4. PassIsFresh(p)'
      BY <2>3, <2>4, <3>3 DEF PassIsFresh
    <3> QED
      BY <3>2, <3>4 DEF AloneHolds
  <2>5. CASE /\ queue' = WithRetryOf(i) /\ Note(p, <<"marker", i>>, "pending_retry")
             /\ pass' = [pass EXCEPT ![p].pc = "remove"]
    <3>1. PICK n \in Jobs : n = i + 1
      BY <2>3, RetryAssumption DEF Jobs
    <3>2. \A j \in Jobs : i < j => queue[j] = "none" /\ ~Marked(p, j)
      BY <2>1, <2>3 DEF AloneHolds, Chained
    <3>3. queue' = [queue EXCEPT ![n] = "waiting"]
      BY <2>5, <3>1, <3>2 DEF WithRetryOf, Jobs
    <3>4. \A j \in Jobs : Marked(p, j)' <=> Marked(p, j) \/ j = i
      <4>1. \A j \in Jobs : store'[p][<<"marker", j>>]
                              = IF j = i THEN "pending_retry" ELSE store[p][<<"marker", j>>]
        BY <1>0, <2>5, KeyOfJob DEF Note
      <4> QED
        BY <4>1 DEF Marked
    <3>5. \A k, j \in Jobs : k < j /\ (queue'[j] # "none" \/ Marked(p, j)') => Marked(p, k)'
      <4> SUFFICES ASSUME NEW k \in Jobs, NEW j \in Jobs, k < j, queue'[j] # "none" \/ Marked(p, j)', k # i
                   PROVE  Marked(p, k)
        BY <3>4
      <4>1. CASE queue[j] # "none" \/ Marked(p, j)
        BY <2>1, <4>1 DEF AloneHolds, Chained
      <4>2. CASE j = n \/ j = i
        <5>1. k < i
          BY <3>1, <4>2 DEF Jobs
        <5> QED
          BY <2>1, <2>3, <5>1 DEF AloneHolds, Chained
      <4> QED
        BY <1>0, <3>3, <3>4, <4>1, <4>2
    <3>6. \A k \in Jobs : queue'[k] = "waiting" => ~Marked(p, k)'
      <4> SUFFICES ASSUME NEW k \in Jobs, queue'[k] = "waiting" PROVE ~Marked(p, k)'
        OBVIOUS
      <4>1. CASE k = n
        BY <3>1, <3>2, <3>4, <4>1 DEF Jobs
      <4>2. CASE k # n
        <5>1. queue[k] = "waiting"
          BY <1>0, <3>3, <4>2
        <5> QED
          BY <2>1, <2>3, <3>4, <5>1 DEF AloneHolds, Chained
      <4> QED
        BY <4>1, <4>2
    <3>7. KnowsMarkers(p)'
      <4>1. \A x \in writes' : x \in writes \/ x = <<p, <<"marker", i>>, "pending_retry">>
        BY <2>5 DEF Note
      <4>2. \A x \in writes', k \in Jobs : x[2] = <<"marker", k>> => x \in writes \/ k = i
        BY <4>1
      <4> QED
        BY <2>1, <3>4, <4>2 DEF AloneHolds, KnowsMarkers
    <3>8. pass'[p].pc = "remove" /\ pass'[p].at = i /\ pass'[p].todo = pass[p].todo
      BY <1>0, <2>2, <2>5 DEF PassType
    <3>9. \A k \in Jobs : queue[k] = "failed" => queue'[k] = "failed"
      BY <1>0, <3>1, <3>2, <3>3 DEF Jobs
    <3>10. pass[p].todo \subseteq Jobs
      BY <1>0 DEF PassType
    <3>11. PassIsFresh(p)'
      BY <2>3, <3>8, <3>9, <3>10 DEF PassIsFresh
    <3> QED
      BY <3>5, <3>6, <3>7, <3>11 DEF AloneHolds, Chained
  <2> QED
    BY <1>6, <2>2, <2>4, <2>5 DEF AddRetry
<1>7. CASE RemoveFailed(p)
  <2>1. AloneHolds(p) /\ table' = table /\ writes' = writes /\ store' = store /\ pass[p].pc = "remove"
    BY <1>1, <1>7 DEF RemoveFailed
  <2>2. PICK i \in Jobs : i = pass[p].at
    BY <1>0 DEF PassType
  <2>3. queue' = [queue EXCEPT ![i] = "none"] \/ queue' = queue
    BY <1>7, <2>2 DEF RemoveFailed
  <2>4. \A k \in Jobs : queue'[k] = queue[k] \/ (k = i /\ queue'[k] = "none")
    BY <1>0, <2>3
  <2>5. Chained(p)' /\ KnowsMarkers(p)'
    BY <1>2, <2>1, <2>4 DEF AloneHolds, Chained, KnowsMarkers
  <2>6. pass'[p].pc = "next" /\ pass'[p].todo = pass[p].todo /\ pass[p].todo \subseteq Jobs
    BY <1>0, <1>7 DEF RemoveFailed, PassType
  <2>7. i \notin pass[p].todo /\ \A k \in pass[p].todo : queue[k] = "failed"
    BY <2>1, <2>2 DEF AloneHolds, PassIsFresh
  <2>8. PassIsFresh(p)'
    BY <2>4, <2>6, <2>7 DEF PassIsFresh
  <2> QED
    BY <2>5, <2>8 DEF AloneHolds
<1>8. CASE EndPass(p)
  <2>1. AloneHolds(p) /\ queue' = queue /\ table' = table /\ writes' = writes /\ store' = store
    BY <1>1, <1>8 DEF EndPass
  <2>2. Chained(p)' /\ KnowsMarkers(p)'
    BY <1>2, <2>1, ChainStays
  <2>3. PassIsFresh(p)'
    BY <1>0, <1>8 DEF EndPass, PassIsFresh, Asleep
  <2> QED
    BY <2>2, <2>3 DEF AloneHolds
<1>9. CASE Clear(p)
  <2>1. AloneHolds(p) /\ queue' = queue /\ table' = table /\ pass' = pass
    BY <1>1, <1>9 DEF Clear
  <2>2. PICK k \in Jobs : Note(p, <<"record", k>>, "none")
    BY <1>9 DEF Clear
  <2>3. /\ \A j \in Jobs : Marked(p, j)' <=> Marked(p, j)
        /\ \A x \in writes', j \in Jobs : x[2] = <<"marker", j>> => x \in writes
    BY <2>2, RecordNote DEF Marks
  <2>4. Chained(p)' /\ KnowsMarkers(p)'
    BY <2>1, <2>3, ChainStays
  <2>5. pass[p].at \in Jobs
    BY <1>0 DEF PassType
  <2>6. PassIsFresh(p)'
    BY <2>1, <2>3, <2>5 DEF AloneHolds, PassIsFresh
  <2> QED
    BY <2>4, <2>6 DEF AloneHolds
<1>10. CASE Restart(p)
  BY <1>0, <1>10 DEF Restart
<1>11. CASE Persist
  <2>1. PICK x \in writes :
          /\ writes' = writes \ {x}
          /\ table' = [table EXCEPT ![x[2]] = x[3]] \/ UNCHANGED table
          /\ UNCHANGED <<queue, store, pass, restarts>>
    BY <1>11 DEF Persist
  <2>2. AloneHolds(p)
    BY <1>1, <2>1
  <2>3. \A k \in Jobs : Marked(p, k)' <=> Marked(p, k)
    BY <1>2, <2>1
  <2>4. \A k \in Jobs : table'[<<"marker", k>>] = table[<<"marker", k>>]
                          \/ (x[2] = <<"marker", k>> /\ table'[<<"marker", k>>] = x[3])
    BY <1>0, <2>1, KeyOfJob
  <2>5. KnowsMarkers(p)'
    BY <2>1, <2>2, <2>3, <2>4 DEF AloneHolds, KnowsMarkers
  <2>6. Chained(p)' /\ PassIsFresh(p)'
    BY <2>1, <2>2 DEF AloneHolds, Chained, PassIsFresh, Marked
  <2> QED
    BY <2>5, <2>6 DEF AloneHolds
<1>12. CASE Attempt
  <2>1. AloneHolds(p) /\ UNCHANGED <<store, table, writes, pass>>
    BY <1>1, <1>12 DEF Attempt
  <2>2. PICK i \in Jobs : /\ queue[i] = "waiting"
                          /\ queue' = [queue EXCEPT ![i] = "failed"] \/ queue' = [queue EXCEPT ![i] = "none"]
    BY <1>12 DEF Attempt
  <2>3. /\ \A k \in Jobs : queue'[k] # "none" => queue[k] # "none"
        /\ \A k \in Jobs : queue'[k] = "waiting" => queue[k] = "waiting"
        /\ \A k \in Jobs : queue[k] = "failed" => queue'[k] = "failed"
    BY <1>0, <2>2
  <2>4. Chained(p)' /\ KnowsMarkers(p)'
    BY <1>2, <2>1, <2>3 DEF AloneHolds, Chained, KnowsMarkers
  <2>5. pass[p].at \in Jobs /\ pass[p].todo \subseteq Jobs
    BY <1>0 DEF PassType
  <2>6. PassIsFresh(p)'
    BY <1>2, <2>1, <2>3, <2>5 DEF AloneHolds, PassIsFresh
  <2> QED
    BY <2>4, <2>6 DEF AloneHolds
<1>13. CASE UNCHANGED vars
  BY <1>1, <1>13 DEF vars, AloneHolds, Chained, KnowsMarkers, PassIsFresh, Marked
<1> QED
  BY <1>0, <1>3, <1>4, <1>5, <1>6, <1>7, <1>8, <1>9, <1>10, <1>11, <1>12, <1>13 DEF Next

\* One process that does not restart never has two retries of an email in the queue,
\* however many retries, rejected commands, lost writes and cleared records there are.
THEOREM NoSecondRetry == Spec => []OneRetryAtATime
<1>1. TypeOK /\ AloneInv => OneRetryAtATime
  <2> SUFFICES ASSUME TypeOK, AloneInv, Cardinality(Processes) = 1, restarts = 0
               PROVE  Cardinality({k \in Jobs : queue[k] = "waiting"}) <= 1
    BY DEF OneRetryAtATime
  <2>1. PICK p : Processes = {p}
    BY FS_Singleton, ProcessAssumption
  <2>2. Chained(p)
    BY <2>1 DEF AloneInv, Solo, AloneHolds
  <2>3. \A i, j \in Jobs : queue[i] = "waiting" /\ queue[j] = "waiting" => i = j
    <3> SUFFICES ASSUME NEW i \in Jobs, NEW j \in Jobs, queue[i] = "waiting", queue[j] = "waiting", i < j
                 PROVE  FALSE
      BY DEF Jobs
    <3> QED
      BY <2>2 DEF Chained
  <2>4. CASE {k \in Jobs : queue[k] = "waiting"} = {}
    BY <2>4, FS_EmptySet
  <2>5. ASSUME NEW i \in Jobs, queue[i] = "waiting"
        PROVE  Cardinality({k \in Jobs : queue[k] = "waiting"}) <= 1
    <3>1. {k \in Jobs : queue[k] = "waiting"} = {i}
      BY <2>3, <2>5
    <3>2. Cardinality({i}) = 1
      BY FS_Singleton
    <3> QED
      BY <3>1, <3>2
  <2> QED
    BY <2>4, <2>5
<1> QED
  BY <1>1, TypeInit, TypeStep, AloneInit, AloneStep, PTL DEF Spec

\* What a process knows to have failed for good stays so, until it restarts or the
\* administrator clears it.
THEOREM FailuresStay == Spec => NeverDowngraded
<1>1. ASSUME TypeOK, [Next]_vars, NEW p \in Processes, NEW k \in Jobs,
             store[p][<<"record", k>>] = "permanently_failed", restarts' = restarts, clears' = clears
      PROVE  store'[p][<<"record", k>>] = "permanently_failed"
  <2>0. /\ store \in [Processes -> [Keys -> Marks]] /\ restarts \in Nat /\ clears \in Nat
        /\ <<"record", k>> \in Keys
    <3>1. store \in [Processes -> [Keys -> Marks]] /\ restarts \in Nat /\ clears \in Nat
      BY <1>1 DEF TypeOK
    <3> QED
      BY <3>1, KeyOfJob
  <2>1. ASSUME NEW q \in Processes, NEW what \in {"record", "marker"}, NEW i \in Jobs, NEW v \in Marks,
               Note(q, <<what, i>>, v),
               q = p /\ what = "record" /\ i = k => v = "permanently_failed"
        PROVE  store'[p][<<"record", k>>] = "permanently_failed"
    BY <1>1, <2>0, <2>1 DEF Note, Keys
  <2>2. ASSUME NEW q \in Processes, Hydrate(q) PROVE store'[p][<<"record", k>>] = "permanently_failed"
    BY <1>1, <2>0, <2>2 DEF Hydrate, Hydrated
  <2>3. ASSUME NEW q \in Processes, Examine(q) PROVE store'[p][<<"record", k>>] = "permanently_failed"
    <3>1. PICK i \in pass[q].todo :
            \/ UNCHANGED store
            \/ store[q][<<"record", i>>] # "permanently_failed" /\ Note(q, <<"record", i>>, "pending_retry")
            \/ Note(q, <<"record", i>>, "permanently_failed")
      BY <2>3 DEF Examine
    <3>2. i \in Jobs
      BY <1>1 DEF TypeOK
    <3> QED
      BY <1>1, <2>1, <3>1, <3>2 DEF Marks
  <2>4. ASSUME NEW q \in Processes, AddRetry(q) PROVE store'[p][<<"record", k>>] = "permanently_failed"
    <3>1. pass[q].at \in Jobs
      BY <1>1 DEF TypeOK
    <3>2. \/ Note(q, <<"marker", pass[q].at>>, "pending_retry")
          \/ Note(q, <<"record", pass[q].at>>, "permanently_failed")
      BY <2>4 DEF AddRetry
    <3> QED
      BY <2>1, <3>1, <3>2 DEF Marks
  <2>5. ASSUME NEW q \in Processes, Clear(q) \/ Restart(q) PROVE FALSE
    BY <1>1, <2>0, <2>5 DEF Clear, Restart
  <2>6. ASSUME NEW q \in Processes, Fetch(q) \/ RemoveFailed(q) \/ EndPass(q) PROVE store' = store
    BY <2>6 DEF Fetch, RemoveFailed, EndPass
  <2>7. Persist \/ Attempt \/ UNCHANGED vars => store' = store
    BY DEF Persist, Attempt, vars
  <2> QED
    BY <1>1, <2>2, <2>3, <2>4, <2>5, <2>6, <2>7 DEF Next
<1>2. TypeOK /\ [Next]_vars =>
        \A p \in Processes, k \in Jobs :
          store[p][<<"record", k>>] = "permanently_failed" /\ restarts' = restarts /\ clears' = clears
            => store'[p][<<"record", k>>] = "permanently_failed"
  BY <1>1
<1> QED
  BY <1>2, TypeCorrect, PTL DEF Spec, NeverDowngraded

-----------------------------------------------------------------------------
(***************************************************************************)
(* Dunning: the plan of an account and its record                          *)
(***************************************************************************)

Plans  == PaidPlans \cup {"free"}
States == {"active", "past_due", "downgraded"}
HandlerPcs == {"idle", "dedup", "setplan", "account", "record", "open", "restore", "close", "free"}
HandlerType == [pc : HandlerPcs, event : StripeEvents \cup {NoEvent}, plan : Plans,
                state : States, atRisk : Plans]
RecordType == [state : States, attempts : Nat, atRisk : Plans, over : BOOLEAN]

-----------------------------------------------------------------------------
(* types *)

\* A handler that is busy has an event, and sets the plan only if that is what it says.
HandlerFits(h) ==
  /\ handler[h].pc # "idle" => handler[h].event \in StripeEvents
  /\ handler[h].pc = "setplan" => kind[handler[h].event] \in PaidPlans
  /\ handler[h].pc = "open" => kind[handler[h].event] = "failed"
BusyHasEvent == \A h \in Handlers : HandlerFits(h)
DunTypes == DunTypeOK /\ BusyHasEvent

LEMMA DunTypeInit == DunInit => DunTypes
<1> SUFFICES ASSUME DunInit PROVE DunTypes
  OBVIOUS
<1>1. DunTypeOK
  <2>1. NoHandler \in HandlerType /\ NoRecord \in RecordType
    BY DEF NoHandler, HandlerType, HandlerPcs, NoRecord, RecordType, Plans, States, PaidPlans
  <2>2. handler \in [Handlers -> HandlerType]
    BY <2>1 DEF DunInit
  <2>3. plan \in Plans
    BY DEF DunInit, Plans, PaidPlans
  <2>4. dunFaults \in 0 .. DunMaxFaults
    BY HandlerAssumption DEF DunInit
  <2> QED
    BY <2>1, <2>2, <2>3, <2>4 DEF DunInit, DunTypeOK, HandlerType, HandlerPcs, RecordType, Plans, States
<1>2. BusyHasEvent
  BY DEF DunInit, BusyHasEvent, HandlerFits, NoHandler
<1> QED
  BY <1>1, <1>2 DEF DunTypes

\* The shapes a step of handler h leaves: at another label, with what it has read, or done.
LEMMA HandlerMoves ==
  ASSUME DunTypes, NEW h \in Handlers
  PROVE  /\ handler \in [Handlers -> HandlerType]
         /\ [handler EXCEPT ![h] = NoHandler] \in [Handlers -> HandlerType]
         /\ \A pc \in HandlerPcs : [handler EXCEPT ![h].pc = pc] \in [Handlers -> HandlerType]
BY DEF DunTypes, DunTypeOK, HandlerType, HandlerPcs, NoHandler, Plans, States, PaidPlans

LEMMA DunTypeStep == DunTypes /\ [DunNext]_dunVars => DunTypes'
<1> SUFFICES ASSUME DunTypes, [DunNext]_dunVars PROVE DunTypes'
  OBVIOUS
<1> USE HandlerAssumption
<1>0. /\ handler \in [Handlers -> HandlerType] /\ record \in RecordType /\ plan \in Plans
      /\ kind \in [StripeEvents -> EventKinds]
  BY DEF DunTypes, DunTypeOK, HandlerType, HandlerPcs, RecordType, Plans, States
<1>1. DunFault => dunFaults' \in 0 .. DunMaxFaults
  BY DEF DunFault, DunTypes, DunTypeOK
<1>2. ASSUME kind' = kind, plan' \in Plans, record' \in RecordType, seen' \in SUBSET StripeEvents,
             handler' \in [Handlers -> HandlerType], BusyHasEvent', sweep' \in {"idle", "free", "downgrade"},
             lastInvoice' \in {"paid", "failed"}, overlap' \in BOOLEAN, dunFaults' \in 0 .. DunMaxFaults
      PROVE  DunTypes'
  BY <1>0, <1>2 DEF DunTypes, DunTypeOK, HandlerType, HandlerPcs, RecordType, Plans, States
<1>3. ASSUME NEW h \in Handlers, NEW pc \in HandlerPcs \ {"setplan", "open"}, At(h, pc), handler[h].pc # "idle", kind' = kind
      PROVE  handler' \in [Handlers -> HandlerType] /\ BusyHasEvent'
  BY <1>3, HandlerMoves DEF At, DunTypes, BusyHasEvent, HandlerFits, HandlerType
<1>4. ASSUME NEW h \in Handlers, handler' = [handler EXCEPT ![h] = NoHandler], kind' = kind
      PROVE  handler' \in [Handlers -> HandlerType] /\ BusyHasEvent'
  BY <1>4, HandlerMoves DEF DunTypes, BusyHasEvent, HandlerFits, HandlerType, NoHandler
<1>5. ASSUME NEW h \in Handlers, Done(h), kind' = kind
      PROVE  /\ handler' \in [Handlers -> HandlerType] /\ BusyHasEvent'
             /\ lastInvoice' \in {"paid", "failed"}
  BY <1>4, <1>5 DEF Done, DunTypes, DunTypeOK
<1>6. ASSUME NEW h \in Handlers, NEW e \in StripeEvents, Deliver(h, e) PROVE DunTypes'
  <2>1. handler' \in [Handlers -> HandlerType] /\ BusyHasEvent'
    BY <1>0, <1>6 DEF Deliver, HandlerType, HandlerPcs, NoHandler, Plans, States, DunTypes, BusyHasEvent, HandlerFits
  <2> QED
    BY <1>0, <1>2, <1>6, <2>1 DEF Deliver, DunTypes, DunTypeOK
<1>7. ASSUME NEW h \in Handlers, Dedup(h) PROVE DunTypes'
  <2>1. handler[h].event \in StripeEvents /\ FirstStep(handler[h].event) \in HandlerPcs
    BY <1>7 DEF Dedup, DunTypes, BusyHasEvent, HandlerFits, FirstStep, HandlerPcs
  <2>2. ASSUME At(h, FirstStep(handler[h].event))
        PROVE  handler' \in [Handlers -> HandlerType] /\ BusyHasEvent'
    <3>1. /\ kind[handler[h].event] \in PaidPlans \/ FirstStep(handler[h].event) # "setplan"
          /\ FirstStep(handler[h].event) # "open"
      BY DEF FirstStep
    <3>2. handler' \in [Handlers -> HandlerType]
      BY <2>1, <2>2, HandlerMoves DEF At
    <3>3. BusyHasEvent'
      BY <1>0, <1>7, <2>1, <2>2, <3>1 DEF At, Dedup, DunTypes, BusyHasEvent, HandlerFits, HandlerType
    <3> QED
      BY <3>2, <3>3
  <2>3. handler' \in [Handlers -> HandlerType] /\ BusyHasEvent'
    BY <1>4, <1>7, <2>2 DEF Dedup
  <2> QED
    BY <1>0, <1>1, <1>2, <1>7, <2>1, <2>3 DEF Dedup, DunTypes, DunTypeOK
<1>8. ASSUME NEW h \in Handlers, SetPlan(h) PROVE DunTypes'
  <2>1. kind[handler[h].event] \in PaidPlans
    BY <1>8 DEF SetPlan, DunTypes, BusyHasEvent, HandlerFits
  <2> QED
    BY <1>0, <1>2, <1>5, <1>8, <2>1 DEF SetPlan, DunTypes, DunTypeOK, Plans
<1>9. ASSUME NEW h \in Handlers, ReadAccount(h) PROVE DunTypes'
  <2>1. /\ handler' \in [Handlers -> HandlerType] /\ BusyHasEvent'
        /\ lastInvoice' \in {"paid", "failed"}
    <3>1. CASE Done(h)
      BY <1>5, <1>9, <3>1 DEF ReadAccount
    <3>2. CASE handler' = [handler EXCEPT ![h].pc = "record", ![h].plan = plan] /\ lastInvoice' = lastInvoice
      <4>1. handler' \in [Handlers -> HandlerType]
        BY ZenonT(40), <1>0, <3>2 DEF HandlerType, HandlerPcs
      <4>2. BusyHasEvent'
        BY <1>0, <1>9, <3>2 DEF ReadAccount, HandlerType, DunTypes, BusyHasEvent, HandlerFits
      <4> QED
        BY <3>2, <4>1, <4>2 DEF DunTypes, DunTypeOK
    <3> QED
      BY <1>9, <3>1, <3>2 DEF ReadAccount
  <2> QED
    BY <1>0, <1>2, <1>9, <2>1 DEF ReadAccount, DunTypes, DunTypeOK
<1>10. ASSUME NEW h \in Handlers, ReadRecord(h) PROVE DunTypes'
  <2>1. /\ handler' \in [Handlers -> HandlerType] /\ BusyHasEvent'
        /\ lastInvoice' \in {"paid", "failed"}
    <3>1. CASE Done(h)
      BY <1>5, <1>10, <3>1 DEF ReadRecord
    <3>2. CASE /\ handler' = [handler EXCEPT ![h].pc = AfterRecord(h), ![h].state = record.state,
                                             ![h].atRisk = record.atRisk]
               /\ lastInvoice' = lastInvoice
      <4>1. /\ AfterRecord(h) \in HandlerPcs \ {"setplan"}
            /\ AfterRecord(h) = "open" => kind[handler[h].event] = "failed"
        BY DEF AfterRecord, HandlerPcs
      <4>2. record.state \in States /\ record.atRisk \in Plans
        BY <1>0 DEF RecordType
      <4>3. handler' \in [Handlers -> HandlerType]
        BY ZenonT(40), <1>0, <3>2, <4>1, <4>2 DEF HandlerType
      <4>4. BusyHasEvent'
        BY <1>0, <1>10, <3>2, <4>1 DEF ReadRecord, HandlerType, DunTypes, BusyHasEvent, HandlerFits
      <4> QED
        BY <3>2, <4>3, <4>4 DEF DunTypes, DunTypeOK
    <3> QED
      BY <1>10, <3>1, <3>2 DEF ReadRecord
  <2> QED
    BY <1>0, <1>2, <1>10, <2>1 DEF ReadRecord, DunTypes, DunTypeOK
<1>11. ASSUME NEW h \in Handlers, OpenCycle(h) PROVE DunTypes'
  <2>1. record' \in RecordType
    BY <1>0, <1>11 DEF OpenCycle, RecordType, HandlerType, States
  <2> QED
    BY <1>0, <1>2, <1>5, <1>11, <2>1 DEF OpenCycle, DunTypes, DunTypeOK
<1>12. ASSUME NEW h \in Handlers, Restore(h) PROVE DunTypes'
  <2>1. plan' \in Plans
    BY <1>0, <1>12 DEF Restore, HandlerType
  <2> QED
    BY <1>0, <1>2, <1>3, <1>12, <2>1 DEF Restore, DunTypes, DunTypeOK, HandlerPcs
<1>13. ASSUME NEW h \in Handlers, CloseCycle(h) PROVE DunTypes'
  <2>1. record' \in RecordType
    BY <1>0, <1>13 DEF CloseCycle, RecordType, NoRecord, States, Plans
  <2> QED
    BY <1>0, <1>2, <1>5, <1>13, <2>1 DEF CloseCycle, DunTypes, DunTypeOK
<1>14. ASSUME NEW h \in Handlers, DropPlan(h) PROVE DunTypes'
  <2>1. /\ handler' \in [Handlers -> HandlerType] /\ BusyHasEvent'
        /\ lastInvoice' \in {"paid", "failed"}
    BY <1>3, <1>5, <1>14 DEF DropPlan, HandlerPcs, DunTypes, DunTypeOK
  <2> QED
    BY <1>0, <1>2, <1>14, <2>1 DEF DropPlan, DunTypes, DunTypeOK, Plans
<1>15. ASSUME NEW h \in Handlers, Drop500(h) PROVE DunTypes'
  BY <1>0, <1>1, <1>2, <1>4, <1>15 DEF Drop500, DunTypes, DunTypeOK
<1>16. CASE GraceOver \/ SweepRecord
  <2>1. record' \in RecordType
    BY <1>0, <1>16 DEF GraceOver, SweepRecord, Downgraded, RecordType, States
  <2> QED
    BY <1>0, <1>2, <1>16, <2>1 DEF GraceOver, SweepRecord, DunTypes, DunTypeOK, BusyHasEvent, HandlerFits
<1>17. CASE SelectExpired \/ SweepPlan \/ SweepFails
  BY ZenonT(40), <1>0, <1>1, <1>2, <1>17 DEF SelectExpired, SweepPlan, SweepFails, DunTypes, DunTypeOK, BusyHasEvent, HandlerFits, Plans
<1>18. CASE UNCHANGED dunVars
  BY <1>18 DEF dunVars, DunTypes, DunTypeOK, BusyHasEvent, HandlerFits
<1> QED
  BY <1>6, <1>7, <1>8, <1>9, <1>10, <1>11, <1>12, <1>13, <1>14, <1>15, <1>16, <1>17, <1>18
  DEF DunNext, Handle, Sweep

\* Every variable of the account keeps its shape, in whatever order Stripe's events come.
THEOREM DunTypeCorrect == DunSpec => []DunTypeOK
<1>1. DunTypes => DunTypeOK
  BY DEF DunTypes
<1> QED
  BY <1>1, DunTypeInit, DunTypeStep, PTL DEF DunSpec

\* What a step may do to the history: nothing is unseen, no fault unmade.
LEMMA OnlyGrows ==
  ASSUME [DunNext]_dunVars
  PROVE  /\ overlap => overlap'
         /\ dunFaults' = dunFaults \/ DunFault
         /\ seen \subseteq seen' /\ kind' = kind
<1>1. ASSUME NEW h \in Handlers, NEW e \in StripeEvents, Deliver(h, e)
      PROVE  (overlap => overlap') /\ UNCHANGED <<dunFaults, seen, kind>>
  BY <1>1 DEF Deliver
<1>2. ASSUME NEW h \in Handlers, Dedup(h) \/ Drop500(h)
      PROVE  overlap' = overlap /\ (dunFaults' = dunFaults \/ DunFault) /\ seen \subseteq seen' /\ kind' = kind
  BY <1>2 DEF Dedup, Drop500
<1>3. ASSUME NEW h \in Handlers,
             \/ SetPlan(h) \/ ReadAccount(h) \/ ReadRecord(h) \/ OpenCycle(h)
             \/ Restore(h) \/ CloseCycle(h) \/ DropPlan(h)
      PROVE  UNCHANGED <<overlap, dunFaults, seen, kind>>
  BY <1>3 DEF SetPlan, ReadAccount, ReadRecord, OpenCycle, Restore, CloseCycle, DropPlan
<1>4. CASE GraceOver \/ SweepPlan \/ SweepRecord \/ UNCHANGED dunVars
  BY <1>4 DEF GraceOver, SweepPlan, SweepRecord, dunVars
<1>5. CASE SelectExpired
  BY <1>5 DEF SelectExpired
<1>6. CASE SweepFails
  BY <1>6 DEF SweepFails
<1> QED
  BY <1>1, <1>2, <1>3, <1>4, <1>5, <1>6 DEF DunNext, Handle, Sweep

-----------------------------------------------------------------------------
(* attempts *)

\* Failures that have been recorded as seen, and handlers on their way to count one.
SeenFailures == {e \in seen : kind[e] = "failed"}
Failing == {h \in Handlers : /\ handler[h].pc \in {"account", "record", "open"}
                             /\ kind[handler[h].event] = "failed"}

\* An event is seen before it is counted, and only the first to see it goes on to count it.
AttemptInv ==
  /\ DunTypes
  /\ dunFaults = 0 => record.attempts + Cardinality(Failing) <= Cardinality(SeenFailures)

LEMMA FailuresAreFinite ==
  DunTypes => /\ IsFiniteSet(Failing) /\ Cardinality(Failing) \in Nat
              /\ IsFiniteSet(SeenFailures) /\ Cardinality(SeenFailures) \in Nat
<1> SUFFICES ASSUME DunTypes
             PROVE  /\ IsFiniteSet(Failing) /\ Cardinality(Failing) \in Nat
                    /\ IsFiniteSet(SeenFailures) /\ Cardinality(SeenFailures) \in Nat
  OBVIOUS
<1>1. IsFiniteSet(Failing) /\ IsFiniteSet(SeenFailures)
  BY HandlerAssumption, FS_Subset DEF Failing, SeenFailures, DunTypes, DunTypeOK
<1> QED
  BY <1>1, FS_CardinalityType

LEMMA AttemptInit == DunInit => AttemptInv
<1> SUFFICES ASSUME DunInit PROVE AttemptInv
  OBVIOUS
<1>1. Failing = {} /\ SeenFailures = {} /\ record.attempts = 0
  BY DEF DunInit, Failing, SeenFailures, NoHandler, NoRecord
<1> QED
  BY <1>1, DunTypeInit, FS_EmptySet DEF AttemptInv

\* A step that sees no new failure and counts none leaves the balance no worse.
LEMMA NoNewAttempt ==
  ASSUME AttemptInv, DunTypes', kind' = kind, seen' = seen, dunFaults' = 0 => dunFaults = 0,
         record'.attempts <= record.attempts, Failing' \subseteq Failing
  PROVE  AttemptInv'
<1> USE HandlerAssumption
<1>1. SeenFailures' = SeenFailures
  BY DEF SeenFailures
<1>2. /\ Cardinality(Failing') \in Nat /\ Cardinality(Failing') <= Cardinality(Failing)
      /\ Cardinality(Failing) \in Nat /\ Cardinality(SeenFailures) \in Nat
  BY FailuresAreFinite, FS_Subset, FS_CardinalityType DEF AttemptInv
<1>3. record.attempts \in Nat /\ record'.attempts \in Nat
  BY DEF AttemptInv, DunTypes, DunTypeOK
<1> QED
  BY <1>1, <1>2, <1>3 DEF AttemptInv

LEMMA AttemptStep == AttemptInv /\ [DunNext]_dunVars => AttemptInv'
<1> SUFFICES ASSUME AttemptInv, [DunNext]_dunVars PROVE AttemptInv'
  OBVIOUS
<1> USE HandlerAssumption
<1>0. /\ DunTypes /\ DunTypes' /\ record.attempts \in Nat /\ dunFaults \in Nat
      /\ handler \in [Handlers -> HandlerType] /\ record \in RecordType
  BY DunTypeStep DEF AttemptInv, DunTypes, DunTypeOK, HandlerType, HandlerPcs, RecordType, Plans, States
<1>1. dunFaults' = dunFaults \/ DunFault
  BY OnlyGrows
<1>2. dunFaults' = 0 => dunFaults = 0 /\ ~DunFault
  BY <1>0, <1>1 DEF DunFault
<1>3. ASSUME NEW h \in Handlers, NEW e \in StripeEvents, Deliver(h, e) PROVE AttemptInv'
  <2>1. Failing' \subseteq Failing
    BY <1>0, <1>3 DEF Deliver, Failing, HandlerType, NoHandler
  <2> QED
    BY <1>0, <1>2, <1>3, <2>1, NoNewAttempt DEF Deliver
<1>4. ASSUME NEW h \in Handlers, Dedup(h) PROVE AttemptInv'
  <2> DEFINE e == handler[h].event
  <2>1. e \in StripeEvents /\ h \notin Failing /\ record' = record /\ kind' = kind
    BY <1>0, <1>4 DEF Dedup, Failing, DunTypes, BusyHasEvent, HandlerFits
  <2>2. CASE dunFaults' # 0
    BY <1>0, <2>2 DEF AttemptInv
  <2>3. CASE dunFaults' = 0 /\ e \in seen
    <3>1. handler' = [handler EXCEPT ![h] = NoHandler] /\ seen' = seen
      BY <1>2, <1>4, <2>3 DEF Dedup, Duplicate
    <3>2. Failing' \subseteq Failing
      BY <1>0, <2>1, <3>1 DEF Failing, HandlerType, NoHandler
    <3> QED
      BY <1>0, <1>2, <2>1, <3>1, <3>2, NoNewAttempt
  <2>4. CASE dunFaults' = 0 /\ e \notin seen
    <3>1. At(h, FirstStep(e)) /\ seen' = seen \cup {e}
      BY <1>2, <1>4, <2>4 DEF Dedup, Duplicate
    <3>2. CASE kind[e] = "failed"
      <4>1. SeenFailures' = SeenFailures \cup {e} /\ e \notin SeenFailures
        BY <2>1, <2>4, <3>1, <3>2 DEF SeenFailures
      <4>2. Failing' \subseteq Failing \cup {h}
        BY <1>0, <2>1, <3>1 DEF Failing, HandlerType, At
      <4>3. /\ Cardinality(SeenFailures') = Cardinality(SeenFailures) + 1
            /\ Cardinality(SeenFailures) \in Nat /\ Cardinality(Failing) \in Nat
        BY <1>0, <4>1, FailuresAreFinite, FS_AddElement
      <4>4. Cardinality(Failing') \in Nat /\ Cardinality(Failing') <= Cardinality(Failing) + 1
        <5>1. /\ IsFiniteSet(Failing \cup {h})
              /\ Cardinality(Failing \cup {h}) = Cardinality(Failing) + 1
          BY <1>0, <2>1, FailuresAreFinite, FS_AddElement
        <5> QED
          BY <4>2, <5>1, FS_Subset, FS_CardinalityType
      <4> QED
        BY <1>0, <1>2, <2>1, <2>4, <4>3, <4>4 DEF AttemptInv
    <3>3. CASE kind[e] # "failed"
      <4>1. SeenFailures' = SeenFailures
        BY <2>1, <3>1, <3>3 DEF SeenFailures
      <4>2. Failing' \subseteq Failing
        BY <1>0, <2>1, <3>1, <3>3 DEF Failing, HandlerType, At
      <4>3. /\ Cardinality(SeenFailures) \in Nat /\ Cardinality(Failing) \in Nat
            /\ Cardinality(Failing') \in Nat /\ Cardinality(Failing') <= Cardinality(Failing)
        BY <1>0, <4>2, FailuresAreFinite, FS_Subset, FS_CardinalityType
      <4> QED
        BY <1>0, <1>2, <2>1, <2>4, <4>1, <4>3 DEF AttemptInv
    <3> QED
      BY <3>2, <3>3
  <2> QED
    BY <2>2, <2>3, <2>4
<1>5. ASSUME NEW h \in Handlers, SetPlan(h) \/ ReadAccount(h) \/ ReadRecord(h) \/ DropPlan(h) \/ Drop500(h)
      PROVE  AttemptInv'
  <2>1. /\ kind' = kind /\ seen' = seen /\ record' = record
        /\ \A g \in Handlers \ {h} : handler'[g] = handler[g]
        /\ \/ handler'[h] = NoHandler
           \/ handler'[h].pc = "close"
           \/ handler[h].pc \in {"account", "record"} /\ handler'[h].event = handler[h].event
    BY <1>0, <1>5 DEF SetPlan, ReadAccount, ReadRecord, DropPlan, Drop500, At, Done, HandlerType
  <2>2. Failing' \subseteq Failing
    BY <2>1 DEF Failing, NoHandler
  <2> QED
    BY <1>0, <1>2, <2>1, <2>2, NoNewAttempt
<1>6. ASSUME NEW h \in Handlers, OpenCycle(h) PROVE AttemptInv'
  <2>1. /\ handler' = [handler EXCEPT ![h] = NoHandler] /\ kind' = kind /\ seen' = seen
        /\ record'.attempts <= record.attempts + 1 /\ record'.attempts \in Nat
    BY <1>0, <1>6 DEF OpenCycle, Done, RecordType
  <2>2. Failing' = Failing \ {h} /\ SeenFailures' = SeenFailures
    BY <1>0, <2>1 DEF Failing, HandlerType, NoHandler, SeenFailures
  <2>3. h \in Failing
    BY <1>6 DEF OpenCycle, Failing, AttemptInv, DunTypes, BusyHasEvent, HandlerFits
  <2>4. /\ Cardinality(Failing') = Cardinality(Failing) - 1 /\ Cardinality(Failing) \in Nat
        /\ Cardinality(SeenFailures) \in Nat
    BY <1>0, <2>2, <2>3, FailuresAreFinite, FS_RemoveElement
  <2> QED
    BY <1>0, <1>2, <2>1, <2>2, <2>4 DEF AttemptInv
<1>7. ASSUME NEW h \in Handlers, Restore(h) \/ CloseCycle(h) PROVE AttemptInv'
  <2>1. /\ kind' = kind /\ seen' = seen /\ record'.attempts <= record.attempts
        /\ \A g \in Handlers \ {h} : handler'[g] = handler[g]
        /\ handler'[h] = NoHandler \/ handler'[h].pc = "close"
    BY <1>0, <1>7 DEF Restore, CloseCycle, At, Done, HandlerType, RecordType, NoRecord
  <2>2. Failing' \subseteq Failing
    BY <2>1 DEF Failing, NoHandler
  <2> QED
    BY <1>0, <1>2, <2>1, <2>2, NoNewAttempt
<1>8. ASSUME UNCHANGED <<kind, seen, handler>>, record'.attempts = record.attempts PROVE AttemptInv'
  <2>1. Failing' \subseteq Failing
    BY <1>8 DEF Failing
  <2> QED
    BY <1>0, <1>2, <1>8, <2>1, NoNewAttempt
<1>9. CASE GraceOver \/ SweepRecord
  BY <1>0, <1>8, <1>9 DEF GraceOver, SweepRecord, Downgraded, RecordType
<1>10. CASE SelectExpired \/ SweepPlan \/ SweepFails \/ UNCHANGED dunVars
  BY <1>8, <1>10 DEF SelectExpired, SweepPlan, SweepFails, dunVars
<1> QED
  BY <1>3, <1>4, <1>5, <1>6, <1>7, <1>9, <1>10 DEF DunNext, Handle, Sweep

\* While nothing fails, a failed payment is counted once, however often it is delivered.
THEOREM NoAttemptTwice == DunSpec => []AttemptsAreReal
<1>1. AttemptInv => AttemptsAreReal
  BY FailuresAreFinite DEF AttemptInv, AttemptsAreReal, DunTypes, DunTypeOK, SeenFailures
<1> QED
  BY <1>1, AttemptInit, AttemptStep, PTL DEF DunSpec

-----------------------------------------------------------------------------
(* the plan of who has paid *)

\* Nothing has failed, nobody has met anybody, and no subscription has been cancelled.
Calm == ~overlap /\ dunFaults = 0 /\ \A e \in seen : kind[e] # "deleted"

\* Then one handler at a time runs, or the sweep.
Alone ==
  /\ \A g, h \in Handlers : handler[g].pc # "idle" /\ handler[h].pc # "idle" => g = h
  /\ \A h \in Handlers : handler[h].pc # "idle" => sweep = "idle"

\* A cycle that is open or has ended badly was opened by a failure and remembers a paid plan;
\* only one that has ended badly, or is about to, goes with the free plan.
CycleIsTrue ==
  /\ record.state # "active" => record.atRisk # "free" /\ lastInvoice = "failed"
  /\ sweep # "idle" => record.state = "past_due"
  /\ plan = "free" => record.state = "downgraded" \/ sweep = "downgrade"

\* What handler h has read is still so, and what it is about to write is right.
KnowsWell(h) ==
  LET k == kind[handler[h].event]  s == handler[h] IN
  /\ s.pc # "idle" /\ s.pc # "dedup" => s.event \in seen
  /\ s.pc \in {"account", "record", "open", "restore", "close"} => k \in {"paid", "failed"}
  /\ s.pc # "free"
  /\ s.pc = "record" => s.plan = plan /\ (k = "failed" => plan # "free")
  /\ s.pc = "open" => k = "failed" /\ plan # "free" /\ s.plan = plan /\ s.state = record.state
  /\ s.pc = "restore" => k = "paid" /\ s.atRisk # "free"
  /\ s.pc = "close" => k = "paid" /\ plan # "free"

PlanInv == DunTypes /\ (Calm => Alone /\ CycleIsTrue /\ \A h \in Handlers : KnowsWell(h))

LEMMA PlanInit == DunInit => PlanInv
<1> SUFFICES ASSUME DunInit PROVE Alone /\ CycleIsTrue /\ \A h \in Handlers : KnowsWell(h)
  BY DunTypeInit DEF PlanInv
<1> QED
  BY DEF DunInit, Alone, CycleIsTrue, KnowsWell, NoHandler, NoRecord

LEMMA PlanStep == PlanInv /\ [DunNext]_dunVars => PlanInv'
<1> SUFFICES ASSUME PlanInv, [DunNext]_dunVars, Calm'
             PROVE  Alone' /\ CycleIsTrue' /\ \A h \in Handlers : KnowsWell(h)'
  BY DunTypeStep DEF PlanInv
<1>0. /\ DunTypes /\ dunFaults \in Nat /\ handler \in [Handlers -> HandlerType] /\ record \in RecordType
      /\ kind \in [StripeEvents -> EventKinds]
  BY DEF PlanInv, DunTypes, DunTypeOK, HandlerType, HandlerPcs, RecordType, Plans, States
<1>1. /\ overlap => overlap'
      /\ dunFaults' = dunFaults \/ DunFault
      /\ seen \subseteq seen' /\ kind' = kind
  BY OnlyGrows
<1>2. ~DunFault /\ dunFaults' = dunFaults
  BY <1>0, <1>1 DEF Calm, DunFault
<1>3. Calm
  BY <1>1, <1>2 DEF Calm
<1>4. Alone /\ CycleIsTrue /\ \A h \in Handlers : KnowsWell(h)
  BY <1>3 DEF PlanInv
<1>5. /\ plan \in Plans /\ lastInvoice \in {"paid", "failed"} /\ record.state \in States
      /\ \A e \in seen' : kind[e] # "deleted"
  BY <1>0, <1>1 DEF DunTypes, DunTypeOK, Plans, RecordType, Calm
\* A step of handler h, alone: the others are idle and stay so.
<1>6. ASSUME NEW h \in Handlers, handler[h].pc # "idle",
             \A g \in Handlers \ {h} : handler'[g] = handler[g],
             CycleIsTrue', KnowsWell(h)', sweep' = sweep
      PROVE  Alone' /\ CycleIsTrue' /\ \A g \in Handlers : KnowsWell(g)'
  <2>1. \A g \in Handlers \ {h} : handler'[g].pc = "idle"
    BY <1>4, <1>6 DEF Alone
  <2>2. sweep' = "idle"
    BY <1>4, <1>6 DEF Alone
  <2>3. Alone'
    BY <2>1, <2>2 DEF Alone
  <2>4. \A g \in Handlers \ {h} : KnowsWell(g)'
    BY <2>1 DEF KnowsWell
  <2> QED
    BY <1>6, <2>3, <2>4
<1>7. ASSUME NEW h \in Handlers, handler'[h] = NoHandler PROVE KnowsWell(h)'
  BY <1>7 DEF KnowsWell, NoHandler
<1>8. ASSUME NEW h \in Handlers, NEW e \in StripeEvents, Deliver(h, e)
      PROVE  Alone' /\ CycleIsTrue' /\ \A g \in Handlers : KnowsWell(g)'
  <2>1. sweep = "idle" /\ sweep' = "idle" /\ \A g \in Handlers : handler[g].pc = "idle"
    BY <1>3, <1>8 DEF Deliver, Calm
  <2>2. handler'[h].pc = "dedup" /\ \A g \in Handlers \ {h} : handler'[g].pc = "idle"
    BY <1>0, <1>8, <2>1 DEF Deliver, HandlerType
  <2>3. Alone' /\ \A g \in Handlers : KnowsWell(g)'
    BY <2>1, <2>2 DEF Alone, KnowsWell
  <2> QED
    BY <1>4, <1>8, <2>3 DEF Deliver, CycleIsTrue
<1>9. ASSUME NEW h \in Handlers, Dedup(h)
      PROVE  Alone' /\ CycleIsTrue' /\ \A g \in Handlers : KnowsWell(g)'
  <2> DEFINE e == handler[h].event
  <2>1. e \in StripeEvents /\ seen' = seen \cup {e}
    BY <1>2, <1>9 DEF Dedup, PlanInv, DunTypes, BusyHasEvent, HandlerFits
  <2>2. CycleIsTrue' /\ sweep' = sweep
    BY <1>4, <1>9 DEF Dedup, CycleIsTrue
  <2>3. handler' = [handler EXCEPT ![h] = NoHandler] \/ At(h, FirstStep(e))
    BY <1>9 DEF Dedup
  <2>4. \A g \in Handlers \ {h} : handler'[g] = handler[g]
    BY <1>0, <2>3 DEF At
  <2>5. CASE At(h, FirstStep(e))
    <3>1. handler'[h].pc = FirstStep(e) /\ handler'[h].event = e
      BY <1>0, <2>5 DEF At, HandlerType
    <3>2. kind[e] # "deleted" /\ kind[e] \in EventKinds
      BY <1>0, <1>5, <2>1
    <3>3. \/ FirstStep(e) = "setplan"
          \/ FirstStep(e) = "account" /\ kind[e] \in {"paid", "failed"}
      <4>1. kind[e] \in PaidPlans \/ kind[e] \in {"paid", "failed"}
        BY <3>2 DEF EventKinds
      <4> QED
        BY <3>2, <4>1 DEF FirstStep
    <3>4. KnowsWell(h)'
      BY <1>1, <2>1, <3>1, <3>3 DEF KnowsWell
    <3> QED
      BY <1>6, <1>9, <2>2, <2>4, <3>4 DEF Dedup
  <2>6. CASE handler' = [handler EXCEPT ![h] = NoHandler]
    BY <1>0, <1>6, <1>7, <1>9, <2>2, <2>4, <2>6 DEF Dedup
  <2> QED
    BY <2>3, <2>5, <2>6
<1>10. ASSUME NEW h \in Handlers, SetPlan(h)
       PROVE  Alone' /\ CycleIsTrue' /\ \A g \in Handlers : KnowsWell(g)'
  <2>1. plan' # "free" /\ kind[handler[h].event] \in PaidPlans
    BY <1>10 DEF SetPlan, PlanInv, DunTypes, BusyHasEvent, HandlerFits, PaidPlans
  <2>2. lastInvoice' = lastInvoice /\ handler' = [handler EXCEPT ![h] = NoHandler]
    BY <1>10, <2>1 DEF SetPlan, Done, PaidPlans
  <2>3. CycleIsTrue'
    BY <1>4, <1>10, <2>1, <2>2 DEF SetPlan, CycleIsTrue
  <2> QED
    BY <1>0, <1>6, <1>7, <1>10, <2>2, <2>3 DEF SetPlan
<1>11. ASSUME NEW h \in Handlers, ReadAccount(h)
       PROVE  Alone' /\ CycleIsTrue' /\ \A g \in Handlers : KnowsWell(g)'
  <2> DEFINE k == kind[handler[h].event]
  <2>1. k \in {"paid", "failed"} /\ handler[h].event \in seen /\ sweep = "idle"
    BY <1>4, <1>11 DEF ReadAccount, KnowsWell, Alone
  <2>2. CASE plan = "free" /\ k = "failed"
    <3>1. lastInvoice' = "failed" /\ handler' = [handler EXCEPT ![h] = NoHandler]
      BY <1>11, <2>2 DEF ReadAccount, Done
    <3>2. CycleIsTrue'
      BY <1>4, <1>11, <3>1 DEF ReadAccount, CycleIsTrue
    <3> QED
      BY <1>0, <1>6, <1>7, <1>11, <3>1, <3>2 DEF ReadAccount
  <2>3. CASE ~(plan = "free" /\ k = "failed")
    <3>1. handler' = [handler EXCEPT ![h].pc = "record", ![h].plan = plan] /\ lastInvoice' = lastInvoice
      BY <1>11, <2>3 DEF ReadAccount
    <3>2. /\ handler'[h].pc = "record" /\ handler'[h].plan = plan /\ handler'[h].event = handler[h].event
          /\ \A g \in Handlers \ {h} : handler'[g] = handler[g]
      BY <1>0, <3>1 DEF HandlerType
    <3>3. KnowsWell(h)'
      BY <1>1, <1>11, <2>1, <2>3, <3>2 DEF ReadAccount, KnowsWell
    <3>4. CycleIsTrue'
      BY <1>4, <1>11, <3>1 DEF ReadAccount, CycleIsTrue
    <3> QED
      BY <1>6, <1>11, <3>2, <3>3, <3>4 DEF ReadAccount
  <2> QED
    BY <2>2, <2>3
<1>12. ASSUME NEW h \in Handlers, ReadRecord(h)
       PROVE  Alone' /\ CycleIsTrue' /\ \A g \in Handlers : KnowsWell(g)'
  <2> DEFINE k == kind[handler[h].event]
  <2>1. /\ k \in {"paid", "failed"} /\ handler[h].event \in seen /\ sweep = "idle"
        /\ handler[h].plan = plan /\ (k = "failed" => plan # "free")
    BY <1>4, <1>12 DEF ReadRecord, KnowsWell, Alone
  <2>2. CASE k = "paid" /\ record.state = "active"
    <3>1. lastInvoice' = "paid" /\ handler' = [handler EXCEPT ![h] = NoHandler]
      BY <1>12, <2>2 DEF ReadRecord, Done
    <3>2. CycleIsTrue'
      BY <1>4, <1>12, <2>1, <2>2, <3>1 DEF ReadRecord, CycleIsTrue
    <3> QED
      BY <1>0, <1>6, <1>7, <1>12, <3>1, <3>2 DEF ReadRecord
  <2>3. CASE ~(k = "paid" /\ record.state = "active")
    <3>1. /\ handler' = [handler EXCEPT ![h].pc = AfterRecord(h), ![h].state = record.state,
                                        ![h].atRisk = record.atRisk]
          /\ lastInvoice' = lastInvoice
      BY <1>12, <2>3 DEF ReadRecord
    <3>2. /\ handler'[h].pc = AfterRecord(h) /\ handler'[h].plan = plan
          /\ handler'[h].event = handler[h].event /\ handler'[h].state = record.state
          /\ handler'[h].atRisk = record.atRisk
          /\ \A g \in Handlers \ {h} : handler'[g] = handler[g]
      BY <1>0, <2>1, <3>1 DEF HandlerType
    <3>3. CycleIsTrue' /\ plan' = plan /\ record' = record /\ sweep' = sweep /\ seen' = seen
      BY <1>4, <1>12, <3>1 DEF ReadRecord, CycleIsTrue
    <3>4. CASE k = "failed"
      <4>1. AfterRecord(h) = "open"
        BY <3>4 DEF AfterRecord
      <4>2. KnowsWell(h)'
        BY <1>1, <2>1, <3>2, <3>3, <3>4, <4>1 DEF KnowsWell
      <4> QED
        BY <1>6, <1>12, <3>2, <3>3, <4>2 DEF ReadRecord
    <3>5. CASE k = "paid"
      <4>1. record.state # "active" /\ record.atRisk # "free"
        BY <1>4, <2>3, <3>5 DEF CycleIsTrue
      <4>2. \/ AfterRecord(h) = "restore"
            \/ AfterRecord(h) = "close" /\ plan # "free"
        BY <1>4, <2>1, <3>5, <4>1 DEF AfterRecord, CycleIsTrue
      <4>3. KnowsWell(h)'
        BY <1>1, <2>1, <3>2, <3>3, <3>5, <4>1, <4>2 DEF KnowsWell
      <4> QED
        BY <1>6, <1>12, <3>2, <3>3, <4>3 DEF ReadRecord
    <3> QED
      BY <2>1, <3>4, <3>5
  <2> QED
    BY <2>2, <2>3
<1>13. ASSUME NEW h \in Handlers, OpenCycle(h)
       PROVE  Alone' /\ CycleIsTrue' /\ \A g \in Handlers : KnowsWell(g)'
  <2>1. /\ kind[handler[h].event] = "failed" /\ plan # "free" /\ handler[h].plan = plan
        /\ handler[h].state = record.state /\ sweep = "idle"
    BY <1>4, <1>13 DEF OpenCycle, KnowsWell, Alone
  <2>2. lastInvoice' = "failed" /\ handler' = [handler EXCEPT ![h] = NoHandler]
    BY <1>13, <2>1 DEF OpenCycle, Done
  <2>3. record'.state = "past_due" /\ record'.atRisk # "free"
    BY <1>0, <1>4, <1>13, <2>1 DEF OpenCycle, CycleIsTrue, RecordType
  <2>4. CycleIsTrue'
    BY <1>4, <1>13, <2>1, <2>2, <2>3 DEF OpenCycle, CycleIsTrue
  <2> QED
    BY <1>0, <1>6, <1>7, <1>13, <2>2, <2>4 DEF OpenCycle
<1>14. ASSUME NEW h \in Handlers, Restore(h)
       PROVE  Alone' /\ CycleIsTrue' /\ \A g \in Handlers : KnowsWell(g)'
  <2>1. /\ kind[handler[h].event] = "paid" /\ handler[h].atRisk # "free"
        /\ handler[h].event \in seen /\ sweep = "idle"
    BY <1>4, <1>14 DEF Restore, KnowsWell, Alone
  <2>2. /\ handler'[h].pc = "close" /\ handler'[h].event = handler[h].event
        /\ \A g \in Handlers \ {h} : handler'[g] = handler[g]
    BY <1>0, <1>14 DEF Restore, At, HandlerType
  <2>3. KnowsWell(h)' /\ CycleIsTrue'
    BY <1>1, <1>4, <1>14, <2>1, <2>2 DEF Restore, KnowsWell, CycleIsTrue
  <2> QED
    BY <1>6, <1>14, <2>2, <2>3 DEF Restore
<1>15. ASSUME NEW h \in Handlers, CloseCycle(h)
       PROVE  Alone' /\ CycleIsTrue' /\ \A g \in Handlers : KnowsWell(g)'
  <2>1. kind[handler[h].event] = "paid" /\ plan # "free" /\ sweep = "idle"
    BY <1>4, <1>15 DEF CloseCycle, KnowsWell, Alone
  <2>2. lastInvoice' = "paid" /\ handler' = [handler EXCEPT ![h] = NoHandler] /\ record' = NoRecord
    BY <1>15, <2>1 DEF CloseCycle, Done
  <2>3. CycleIsTrue'
    BY <1>15, <2>1, <2>2 DEF CloseCycle, CycleIsTrue, NoRecord
  <2> QED
    BY <1>0, <1>6, <1>7, <1>15, <2>2, <2>3 DEF CloseCycle
<1>16. ASSUME NEW h \in Handlers PROVE ~DropPlan(h) /\ ~Drop500(h)
  BY <1>2, <1>4 DEF DropPlan, Drop500, KnowsWell
<1>17. ~SweepFails
  BY <1>2 DEF SweepFails
\* What leaves the handlers alone: the timer and the sweep.
<1>18. ASSUME handler' = handler, CycleIsTrue', seen' = seen,
              \A h \in Handlers : handler[h].pc # "idle" =>
                 sweep' = "idle" /\ plan' = plan /\ record'.state = record.state
       PROVE  Alone' /\ \A h \in Handlers : KnowsWell(h)'
  BY <1>1, <1>4, <1>18 DEF Alone, KnowsWell
<1>19. CASE GraceOver
  <2>1. record'.state = record.state /\ record'.atRisk = record.atRisk
    BY <1>0, <1>19 DEF GraceOver, RecordType
  <2> QED
    BY <1>4, <1>18, <1>19, <2>1 DEF GraceOver, CycleIsTrue, Alone
<1>20. CASE SelectExpired
  <2>1. \A h \in Handlers : handler[h].pc = "idle"
    BY <1>20 DEF SelectExpired, Calm
  <2> QED
    BY <1>4, <1>18, <1>20, <2>1 DEF SelectExpired, CycleIsTrue, Expired
<1>21. CASE SweepPlan
  <2>1. \A h \in Handlers : handler[h].pc = "idle"
    BY <1>4, <1>21 DEF SweepPlan, Alone
  <2> QED
    BY <1>4, <1>18, <1>21, <2>1 DEF SweepPlan, CycleIsTrue
<1>22. CASE SweepRecord
  <2>1. \A h \in Handlers : handler[h].pc = "idle"
    BY <1>4, <1>22 DEF SweepRecord, Alone
  <2>2. record'.state = "downgraded" /\ record'.atRisk = record.atRisk
    BY <1>0, <1>22 DEF SweepRecord, Downgraded, RecordType
  <2>3. record.state = "past_due"
    BY <1>4, <1>22 DEF SweepRecord, CycleIsTrue
  <2> QED
    BY <1>4, <1>18, <1>22, <2>1, <2>2, <2>3 DEF SweepRecord, CycleIsTrue
<1>23. CASE UNCHANGED dunVars
  BY <1>4, <1>23 DEF dunVars, Alone, CycleIsTrue, KnowsWell
<1> QED
  BY <1>8, <1>9, <1>10, <1>11, <1>12, <1>13, <1>14, <1>15, <1>16, <1>17, <1>19, <1>20, <1>21, <1>22, <1>23
  DEF DunNext, Handle, Sweep

\* A customer whose last invoice was paid is not left on the free plan, as long as nothing
\* fails, no two of handlers and sweep overlap, and no subscription was cancelled.
THEOREM PayingIsNotFree == DunSpec => []PaidUpIsNotFree
<1>1. PlanInv => PaidUpIsNotFree
  <2> SUFFICES ASSUME PlanInv, lastInvoice = "paid", ~overlap, dunFaults = 0,
                      \A e \in seen : kind[e] # "deleted"
               PROVE  plan # "free"
    BY DEF PaidUpIsNotFree
  <2>1. CycleIsTrue
    BY DEF PlanInv, Calm
  <2> QED
    BY <2>1 DEF CycleIsTrue
<1> QED
  BY <1>1, PlanInit, PlanStep, PTL DEF DunSpec

=============================================================================
