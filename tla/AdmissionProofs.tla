--------------------------- MODULE AdmissionProofs ---------------------------
(***************************************************************************)
(* Proofs about the limits on sending: SendAdmission, for any number of    *)
(* messages, of requests in flight and of requests ever made, and any      *)
(* quota; DomainWarmup, for any number of requests, orders, days and       *)
(* sessions, and any schedule that never shrinks; and DomainThrottle, for  *)
(* any number of deliveries, any hosts and limits.                         *)
(***************************************************************************)
EXTENDS SendAdmission, DomainWarmup, DomainThrottle, FiniteSetTheorems, WellFoundedInduction, TLAPS

-----------------------------------------------------------------------------
(***************************************************************************)
(* SendAdmission: one email a key, a bounded count                         *)
(***************************************************************************)

PostType == [pc : {"idle", "lookup", "quota", "gate", "save", "enqueue", "cache"},
             message : Messages \cup {NoMessage}, key : BOOLEAN]

-----------------------------------------------------------------------------
(* types *)

LEMMA AdmittedIsCounted == Cardinality(Admitted) \in Nat
<1>1. IsFiniteSet(Admitted)
  BY AdmAssumption, FS_Subset DEF Admitted
<1> QED
  BY <1>1, FS_CardinalityType

LEMMA MovedPost ==
  ASSUME post \in [Posts -> PostType], NEW q \in Posts,
         NEW pc \in {"idle", "lookup", "quota", "gate", "save", "enqueue", "cache"}, PostAt(q, pc)
  PROVE  post' \in [Posts -> PostType]
BY DEF PostAt, PostType

LEMMA AnsweredPost ==
  ASSUME post \in [Posts -> PostType], NEW q \in Posts, Answered(q)
  PROVE  post' \in [Posts -> PostType]
BY DEF Answered, PostType, NoPost

LEMMA EntersType ==
  ASSUME crowd \in [Messages -> Nat], NEW m, Enters(m)
  PROVE  crowd' \in [Messages -> Nat]
<1>1. IsFiniteSet(Past(m))
  BY AdmAssumption, FS_Subset DEF Past
<1>2. Cardinality(Past(m)) + 1 \in Nat
  BY <1>1, FS_CardinalityType
<1> QED
  BY <1>2 DEF Enters

LEMMA AdmTypeInit == AdmInit => AdmTypeOK
BY AdmAssumption DEF AdmInit, AdmTypeOK, NoPost

LEMMA AdmTypeStep == AdmTypeOK /\ [AdmNext]_admVars => AdmTypeOK'
<1> SUFFICES ASSUME AdmTypeOK, [AdmNext]_admVars PROVE AdmTypeOK'
  OBVIOUS
<1> USE AdmAssumption
<1>0. post \in [Posts -> PostType]
  BY DEF AdmTypeOK, PostType
<1>1. AdmFault => admFaults' \in 0 .. AdmMaxFaults
  BY DEF AdmTypeOK, AdmFault
<1>2. ASSUME NEW n \in Nat, Reaches(n) PROVE peak' \in Nat
  BY <1>2 DEF AdmTypeOK, Reaches
<1>3. ASSUME post' \in [Posts -> PostType], cache' \in [Messages -> BOOLEAN], used' \in Nat,
             jobs' \in [Messages -> Nat], owed' \in Nat, crowd' \in [Messages -> Nat], peak' \in Nat,
             submits' \in Nat, admFaults' \in 0 .. AdmMaxFaults
      PROVE AdmTypeOK'
  BY <1>3 DEF AdmTypeOK, PostType
<1>4. ASSUME NEW q \in Posts, NEW m \in Messages, Submit(q, m) PROVE AdmTypeOK'
  <2>1. post' \in [Posts -> PostType]
    BY <1>0, <1>4 DEF Submit, PostType, HasKey
  <2>2. crowd' \in [Messages -> Nat]
    BY <1>4, EntersType DEF Submit, AdmTypeOK
  <2> QED
    BY <1>3, <1>4, <2>1, <2>2 DEF Submit, AdmTypeOK
<1>5. ASSUME NEW q \in Posts, Replay(q) PROVE AdmTypeOK'
  <2>1. post' \in [Posts -> PostType]
    BY <1>0, <1>5, MovedPost, AnsweredPost DEF Replay
  <2>2. crowd' \in [Messages -> Nat]
    BY <1>5, EntersType DEF Replay, AdmTypeOK
  <2> QED
    BY <1>1, <1>3, <1>5, <2>1, <2>2 DEF Replay, AdmTypeOK
<1>6. ASSUME NEW q \in Posts, CheckQuota(q) PROVE AdmTypeOK'
  <2>1. post' \in [Posts -> PostType]
    BY <1>0, <1>6, MovedPost, AnsweredPost DEF CheckQuota
  <2>2. Outstanding + 1 \in Nat
    BY AdmittedIsCounted DEF Outstanding, AdmTypeOK
  <2>3. peak' \in Nat
    BY <1>2, <1>6, <2>2 DEF CheckQuota, AdmTypeOK
  <2> QED
    BY <1>1, <1>3, <1>6, <2>1, <2>3 DEF CheckQuota, AdmTypeOK
<1>7. ASSUME NEW q \in Posts, Gate(q) PROVE AdmTypeOK'
  <2>1. post' \in [Posts -> PostType]
    BY <1>0, <1>7, MovedPost, AnsweredPost DEF Gate
  <2> QED
    BY <1>1, <1>3, <1>7, <2>1 DEF Gate, AdmTypeOK
<1>8. ASSUME NEW q \in Posts, Save(q) PROVE AdmTypeOK'
  <2>1. post' \in [Posts -> PostType]
    BY <1>0, <1>8, MovedPost DEF Save
  <2> QED
    BY <1>3, <1>8, <2>1 DEF Save, AdmTypeOK
<1>9. ASSUME NEW q \in Posts, EnqueueJob(q) PROVE AdmTypeOK'
  <2>1. post' \in [Posts -> PostType]
    BY <1>0, <1>9, MovedPost, AnsweredPost DEF EnqueueJob
  <2>2. jobs' \in [Messages -> Nat] /\ owed' \in Nat
    BY <1>9 DEF EnqueueJob, AdmTypeOK, Counting
  <2> QED
    BY <1>1, <1>3, <1>9, <2>1, <2>2 DEF EnqueueJob, AdmTypeOK
<1>10. ASSUME NEW q \in Posts, Keep(q) PROVE AdmTypeOK'
  <2>1. post' \in [Posts -> PostType]
    BY <1>0, <1>10, AnsweredPost DEF Keep
  <2>2. cache' \in [Messages -> BOOLEAN]
    BY <1>10 DEF Keep, AdmTypeOK
  <2> QED
    BY <1>1, <1>3, <1>10, <2>1, <2>2 DEF Keep, AdmTypeOK
<1>11. ASSUME NEW q \in Posts, LosePost(q) PROVE AdmTypeOK'
  <2>1. post' \in [Posts -> PostType]
    BY <1>0, <1>11, AnsweredPost DEF LosePost
  <2> QED
    BY <1>1, <1>3, <1>11, <2>1 DEF LosePost, AdmTypeOK
<1>12. CASE Count
  BY <1>0, <1>1, <1>3, <1>12 DEF Count, AdmTypeOK
<1>13. ASSUME NEW m \in Messages, ForgetAnswer(m) PROVE AdmTypeOK'
  BY <1>0, <1>1, <1>3, <1>13 DEF ForgetAnswer, AdmTypeOK
<1>14. CASE UNCHANGED admVars
  BY <1>14 DEF admVars, AdmTypeOK
<1> QED
  BY <1>4, <1>5, <1>6, <1>7, <1>8, <1>9, <1>10, <1>11, <1>12, <1>13, <1>14 DEF AdmNext

\* Every variable of the admission of a send keeps its shape, whatever commands are rejected
\* and processes die.
THEOREM AdmTypeCorrect == AdmSpec => []AdmTypeOK
BY AdmTypeInit, AdmTypeStep, PTL DEF AdmSpec

-----------------------------------------------------------------------------
(* one job a key *)

\* A slot has a message exactly while it is busy.
SlotsAreClear == \A q \in Posts : post[q].pc = "idle" <=> post[q].message = NoMessage

\* The requests for m that are at one of the places K.
In(m, K)    == {q \in Posts : post[q].message = m /\ post[q].pc \in K}
Handled(m)  == In(m, {"quota", "gate", "save", "enqueue"})
Finished(m) == In(m, {"cache"})

\* As long as nothing fails, whoever has a job and no answer in the cache is about to put one
\* there; and once there is one, no job comes but from requests that are past the cache by then.
KeyFacts(m) ==
  /\ \A q \in Posts : post[q].message = m => post[q].key
  /\ Cardinality(Past(m)) <= crowd[m]
  /\ ~cache[m] => jobs[m] <= Cardinality(Finished(m))
  /\ cache[m] => jobs[m] + Cardinality(Handled(m)) <= crowd[m]

KeyInv == AdmTypeOK /\ SlotsAreClear /\ (admFaults = 0 => \A m \in KeyInHeader : KeyFacts(m))

\* Only slot q moves: every count changes by what q joins and leaves.
Moves(q) == \A p \in Posts : p # q => post'[p] = post[p]
One(b)   == IF b THEN 1 ELSE 0

LEMMA InIsCounted ==
  ASSUME NEW m, NEW K PROVE IsFiniteSet(In(m, K)) /\ Cardinality(In(m, K)) \in Nat
<1>1. IsFiniteSet(In(m, K))
  BY AdmAssumption, FS_Subset DEF In
<1> QED
  BY <1>1, FS_CardinalityType

LEMMA SlotCount ==
  ASSUME NEW q \in Posts, Moves(q), NEW m, NEW K
  PROVE  Cardinality(In(m, K)') = Cardinality(In(m, K)) + One(q \in In(m, K)') - One(q \in In(m, K))
<1>0. IsFiniteSet(In(m, K)) /\ Cardinality(In(m, K)) \in Nat
  BY InIsCounted
<1>1. CASE q \in In(m, K)' /\ q \notin In(m, K)
  <2>1. In(m, K)' = In(m, K) \cup {q}
    BY <1>1 DEF In, Moves
  <2> QED
    BY <1>0, <1>1, <2>1, FS_AddElement DEF One
<1>2. CASE q \notin In(m, K)' /\ q \in In(m, K)
  <2>1. In(m, K)' = In(m, K) \ {q}
    BY <1>2 DEF In, Moves
  <2> QED
    BY <1>0, <1>2, <2>1, FS_RemoveElement DEF One
<1>3. CASE q \in In(m, K)' <=> q \in In(m, K)
  <2>1. In(m, K)' = In(m, K)
    BY <1>3 DEF In, Moves
  <2> QED
    BY <1>0, <1>3, <2>1 DEF One
<1> QED
  BY <1>1, <1>2, <1>3

LEMMA Halves ==
  ASSUME NEW S, NEW T, NEW P \in SUBSET Posts, P = S \cup T, S \cap T = {}
  PROVE  /\ Cardinality(S) \in Nat /\ Cardinality(T) \in Nat
         /\ Cardinality(P) = Cardinality(S) + Cardinality(T)
<1>1. IsFiniteSet(S) /\ IsFiniteSet(T)
  BY AdmAssumption, FS_Subset
<1>2. Cardinality(S \cup T) = Cardinality(S) + Cardinality(T) - Cardinality(S \cap T)
  BY <1>1, FS_Union
<1>3. Cardinality(S \cap T) = 0
  BY FS_EmptySet
<1>4. Cardinality(S) \in Nat /\ Cardinality(T) \in Nat
  BY <1>1, FS_CardinalityType
<1> QED
  BY <1>2, <1>3, <1>4

LEMMA PastIsBoth ==
  ASSUME AdmTypeOK, SlotsAreClear, NEW m \in Messages
  PROVE  /\ Cardinality(Handled(m)) \in Nat /\ Cardinality(Finished(m)) \in Nat
         /\ Cardinality(Past(m)) = Cardinality(Handled(m)) + Cardinality(Finished(m))
<1>1. Past(m) \in SUBSET Posts /\ Past(m) = Handled(m) \cup Finished(m) /\ Handled(m) \cap Finished(m) = {}
  BY AdmAssumption DEF Past, Handled, Finished, In, SlotsAreClear, AdmTypeOK
<1> QED
  BY <1>1, Halves

LEMMA EntersCounts ==
  ASSUME AdmTypeOK, NEW n \in Messages, NEW m \in Messages, NEW k \in Nat, Cardinality(Past(n)) = k, Enters(n)
  PROVE  /\ crowd'[m] >= crowd[m]
         /\ m = n => crowd'[m] >= k + 1
         /\ m # n => crowd'[m] = crowd[m]
BY DEF Enters, AdmTypeOK

LEMMA KeyInit == AdmInit => KeyInv
<1> SUFFICES ASSUME AdmInit PROVE KeyInv
  OBVIOUS
<1>1. SlotsAreClear
  BY DEF AdmInit, SlotsAreClear, NoPost
<1>2. ASSUME NEW m \in KeyInHeader PROVE KeyFacts(m)
  <2>1. Past(m) = {} /\ Finished(m) = {}
    BY <1>2, AdmAssumption DEF AdmInit, Past, Finished, In, NoPost
  <2>2. Cardinality(Past(m)) = 0 /\ Cardinality(Finished(m)) = 0
    BY <2>1, FS_EmptySet
  <2> QED
    BY <1>2, <2>2, AdmAssumption DEF AdmInit, KeyFacts, NoPost
<1> QED
  BY <1>1, <1>2, AdmTypeInit DEF KeyInv

\* Where request q for m is.
HandledAt(q, m) == post[q].message = m /\ post[q].pc \in {"quota", "gate", "save", "enqueue"}
DoneAt(q, m)    == post[q].message = m /\ post[q].pc = "cache"
PastAt(q, m)    == HandledAt(q, m) \/ DoneAt(q, m)

\* What a step of slot q owes message m.
LEMMA KeyKept ==
  ASSUME AdmTypeOK, AdmTypeOK', SlotsAreClear, SlotsAreClear', NEW q \in Posts, Moves(q),
         NEW m \in KeyInHeader, KeyFacts(m),
         post'[q].message = m => post'[q].key,
         crowd'[m] >= crowd[m],
         ~PastAt(q, m) /\ PastAt(q, m)' => ~cache[m] /\ crowd'[m] >= Cardinality(Past(m)) + 1,
         cache'[m] <=> cache[m] \/ (DoneAt(q, m) /\ ~DoneAt(q, m)'),
         jobs'[m] = jobs[m] + One(~DoneAt(q, m) /\ DoneAt(q, m)'),
         DoneAt(q, m)' => PastAt(q, m),
         HandledAt(q, m)' => ~DoneAt(q, m)
  PROVE  KeyFacts(m)'
<1> USE AdmAssumption
<1> DEFINE h == Cardinality(Handled(m))
           d == Cardinality(Finished(m))
<1>1. /\ h \in Nat /\ d \in Nat /\ Cardinality(Past(m)) = h + d
      /\ h' \in Nat /\ d' \in Nat /\ Cardinality(Past(m))' = h' + d'
  <2>1. Past(m)' \in SUBSET Posts /\ Past(m)' = Handled(m)' \cup Finished(m)' /\ Handled(m)' \cap Finished(m)' = {}
    BY DEF Past, Handled, Finished, In, SlotsAreClear, AdmTypeOK
  <2> QED
    BY <2>1, PastIsBoth, Halves
<1>2. /\ h' = h + One(HandledAt(q, m)') - One(HandledAt(q, m))
      /\ d' = d + One(DoneAt(q, m)') - One(DoneAt(q, m))
  <2>1. /\ h' = h + One(q \in Handled(m)') - One(q \in Handled(m))
        /\ d' = d + One(q \in Finished(m)') - One(q \in Finished(m))
    BY SlotCount DEF Handled, Finished
  <2>2. /\ q \in Handled(m)' <=> HandledAt(q, m)'
        /\ q \in Handled(m) <=> HandledAt(q, m)
        /\ q \in Finished(m)' <=> DoneAt(q, m)'
        /\ q \in Finished(m) <=> DoneAt(q, m)
    BY DEF Handled, Finished, In, HandledAt, DoneAt
  <2> QED
    BY <2>1, <2>2 DEF One
<1>3. ~(HandledAt(q, m) /\ DoneAt(q, m)) /\ ~(HandledAt(q, m) /\ DoneAt(q, m))'
  BY DEF HandledAt, DoneAt
<1>4. jobs[m] \in Nat /\ crowd[m] \in Nat /\ crowd'[m] \in Nat /\ cache[m] \in BOOLEAN
  BY DEF AdmTypeOK
<1>5. /\ h + d <= crowd[m]
      /\ ~cache[m] => jobs[m] <= d
      /\ cache[m] => jobs[m] + h <= crowd[m]
  BY <1>1 DEF KeyFacts
<1>6. h' + d' <= crowd'[m]
  <2>1. CASE PastAt(q, m)
    <3>1. h' + d' <= h + d
      BY <1>1, <1>2, <1>3, <2>1 DEF One, PastAt
    <3> QED
      BY <1>1, <1>4, <1>5, <3>1
  <2>2. CASE ~PastAt(q, m)
    <3>1. h' + d' = h + d + One(PastAt(q, m)')
      BY <1>1, <1>2, <1>3, <2>2 DEF One, PastAt
    <3> QED
      BY <1>1, <1>4, <1>5, <2>2, <3>1 DEF One
  <2> QED
    BY <2>1, <2>2
<1>7. ~cache'[m] => jobs'[m] <= d'
  <2>1. CASE DoneAt(q, m)
    BY <1>1, <1>2, <1>4, <1>5, <2>1 DEF One
  <2>2. CASE ~DoneAt(q, m)
    BY <1>1, <1>2, <1>4, <1>5, <2>2 DEF One
  <2> QED
    BY <2>1, <2>2
<1>8. cache'[m] => jobs'[m] + h' <= crowd'[m]
  BY <1>1, <1>2, <1>3, <1>4, <1>5 DEF One, PastAt
<1>9. \A p \in Posts : post'[p].message = m => post'[p].key
  BY DEF KeyFacts, Moves
<1> QED
  BY <1>1, <1>6, <1>7, <1>8, <1>9 DEF KeyFacts

LEMMA KeyStep == KeyInv /\ [AdmNext]_admVars => KeyInv'
<1> SUFFICES ASSUME KeyInv, [AdmNext]_admVars PROVE KeyInv'
  OBVIOUS
<1> USE AdmAssumption DEF KeyInv
<1>0. \A m \in KeyInHeader : m \in Messages /\ cache[m] \in BOOLEAN /\ jobs[m] \in Nat /\ crowd[m] \in Nat
  BY DEF AdmTypeOK
<1>1. AdmTypeOK'
  BY AdmTypeStep
<1>2. ASSUME SlotsAreClear', admFaults' = 0 => admFaults = 0 /\ \A m \in KeyInHeader : KeyFacts(m) => KeyFacts(m)'
      PROVE KeyInv'
  BY <1>1, <1>2
<1>3. AdmFault => admFaults' # 0
  BY DEF AdmFault, AdmTypeOK
<1>4. ASSUME NEW q \in Posts, NEW n \in Messages, Submit(q, n) PROVE KeyInv'
  <2>1. SlotsAreClear' /\ Moves(q)
    BY <1>4 DEF Submit, SlotsAreClear, Moves, AdmTypeOK
  <2>2. ASSUME NEW m \in KeyInHeader, KeyFacts(m) PROVE KeyFacts(m)'
    <3>1. post[q].message # m /\ jobs' = jobs /\ cache' = cache
      BY <1>4 DEF Submit, SlotsAreClear
    <3>2. CASE n # m
      <4>1. post'[q].message # m /\ crowd'[m] = crowd[m]
        <5>1. post'[q].message = n
          BY <1>4 DEF Submit, AdmTypeOK
        <5>2. crowd'[m] = crowd[m]
          BY <1>4, <3>2 DEF Submit, Enters, AdmTypeOK
        <5> QED
          BY <3>2, <5>1, <5>2
      <4> QED
        BY <1>0, <1>1, <2>1, <2>2, <3>1, <4>1, KeyKept DEF PastAt, HandledAt, DoneAt, One
    <3>3. CASE n = m
      <4>1. post'[q] = [pc |-> "lookup", message |-> m, key |-> TRUE] /\ crowd' = crowd
        BY <1>4, <3>3 DEF Submit, HasKey, AdmTypeOK
      <4> QED
        BY <1>0, <1>1, <2>1, <2>2, <3>1, <4>1, KeyKept DEF PastAt, HandledAt, DoneAt, One
    <3> QED
      BY <3>2, <3>3
  <2> QED
    BY <1>2, <1>4, <2>1, <2>2 DEF Submit
<1>5. ASSUME NEW q \in Posts, Replay(q) PROVE KeyInv'
  <2>1. SlotsAreClear' /\ Moves(q)
    BY <1>5 DEF Replay, PostAt, Answered, NoPost, SlotsAreClear, Moves, AdmTypeOK
  <2>2. ASSUME admFaults' = 0, NEW m \in KeyInHeader, KeyFacts(m) PROVE KeyFacts(m)'
    <3>1. jobs' = jobs /\ cache' = cache /\ post[q].pc = "lookup" /\ jobs[m] \in Nat
      BY <1>5 DEF Replay, AdmTypeOK
    <3>2. CASE Answered(q) /\ UNCHANGED crowd
      <4>1. post'[q].message # m
        BY <3>2 DEF Answered, NoPost, AdmTypeOK
      <4> QED
        BY <1>0, <1>1, <2>1, <2>2, <3>1, <3>2, <4>1, KeyKept DEF PastAt, HandledAt, DoneAt, One
    <3>3. CASE ~cache[post[q].message] /\ PostAt(q, "quota") /\ Enters(post[q].message)
      <4>0. post[q].message \in Messages
        BY <3>1 DEF SlotsAreClear, AdmTypeOK
      <4>1. post'[q].message = post[q].message /\ post'[q].key = post[q].key /\ post'[q].pc = "quota"
        BY <3>3 DEF PostAt, AdmTypeOK
      <4>2. Cardinality(Past(post[q].message)) \in Nat
        BY <4>0, PastIsBoth
      <4>3. /\ crowd'[m] >= crowd[m]
            /\ post[q].message = m => crowd'[m] >= Cardinality(Past(m)) + 1
        BY <3>3, <4>0, <4>2, EntersCounts
      <4>4. CASE post[q].message = m
        BY <1>0, <1>1, <2>1, <2>2, <3>1, <3>3, <4>1, <4>3, <4>4, KeyKept DEF PastAt, HandledAt, DoneAt, One, KeyFacts
      <4>5. CASE post[q].message # m
        BY <1>0, <1>1, <2>1, <2>2, <3>1, <4>1, <4>3, <4>5, KeyKept DEF PastAt, HandledAt, DoneAt, One
      <4> QED
        BY <4>4, <4>5
    <3> QED
      BY <1>3, <1>5, <2>2, <3>2, <3>3 DEF Replay
  <2> QED
    BY <1>2, <1>3, <1>5, <2>1, <2>2 DEF Replay
<1>6. ASSUME NEW q \in Posts, CheckQuota(q) \/ Gate(q) \/ Save(q) PROVE KeyInv'
  <2>1. \/ Answered(q)
        \/ \E pc \in {"gate", "save", "enqueue"} : PostAt(q, pc)
    BY <1>6 DEF CheckQuota, Gate, Save
  <2>2. jobs' = jobs /\ cache' = cache /\ crowd' = crowd /\ post[q].pc \in {"quota", "gate", "save"}
    BY <1>6 DEF CheckQuota, Gate, Save
  <2>3. SlotsAreClear' /\ Moves(q)
    BY <2>1, <2>2 DEF PostAt, Answered, NoPost, SlotsAreClear, Moves, AdmTypeOK
  <2>4. ASSUME NEW m \in KeyInHeader, KeyFacts(m) PROVE KeyFacts(m)'
    <3>1. jobs[m] \in Nat /\ crowd[m] \in Nat
      BY DEF AdmTypeOK
    <3>2. CASE Answered(q)
      <4>1. post'[q].message # m
        BY <3>2 DEF Answered, NoPost, AdmTypeOK
      <4> QED
        BY <1>0, <1>1, <2>2, <2>3, <2>4, <3>1, <4>1, KeyKept DEF PastAt, HandledAt, DoneAt, One
    <3>3. ASSUME NEW pc \in {"gate", "save", "enqueue"}, PostAt(q, pc) PROVE KeyFacts(m)'
      <4>1. post'[q].message = post[q].message /\ post'[q].key = post[q].key /\ post'[q].pc = pc
        BY <3>3 DEF PostAt, AdmTypeOK
      <4> QED
        BY <1>0, <1>1, <2>2, <2>3, <2>4, <3>1, <4>1, KeyKept DEF PastAt, HandledAt, DoneAt, One, KeyFacts
    <3> QED
      BY <2>1, <3>2, <3>3
  <2>5. admFaults' = 0 => admFaults = 0
    BY <1>3, <1>6 DEF CheckQuota, Gate, Save
  <2> QED
    BY <1>2, <2>3, <2>4, <2>5
<1>7. ASSUME NEW q \in Posts, EnqueueJob(q) PROVE KeyInv'
  <2>1. SlotsAreClear' /\ Moves(q)
    BY <1>7 DEF EnqueueJob, PostAt, Answered, NoPost, SlotsAreClear, Moves, AdmTypeOK
  <2>2. ASSUME admFaults' = 0, NEW m \in KeyInHeader, KeyFacts(m) PROVE KeyFacts(m)'
    <3>1. PostAt(q, "cache") /\ jobs' = [jobs EXCEPT ![post[q].message] = @ + 1]
      BY <1>3, <1>7, <2>2 DEF EnqueueJob
    <3>2. post'[q].message = post[q].message /\ post'[q].key = post[q].key /\ post'[q].pc = "cache"
      BY <3>1 DEF PostAt, AdmTypeOK
    <3>3. cache' = cache /\ crowd' = crowd /\ post[q].pc = "enqueue" /\ jobs[m] \in Nat /\ crowd[m] \in Nat
      BY <1>7 DEF EnqueueJob, AdmTypeOK
    <3>4. jobs'[m] = IF post[q].message = m THEN jobs[m] + 1 ELSE jobs[m]
      BY <3>1 DEF AdmTypeOK
    <3>5. CASE post[q].message = m
      BY <1>0, <1>1, <2>1, <2>2, <3>2, <3>3, <3>4, <3>5, KeyKept DEF PastAt, HandledAt, DoneAt, One, KeyFacts
    <3>6. CASE post[q].message # m
      BY <1>0, <1>1, <2>1, <2>2, <3>2, <3>3, <3>4, <3>6, KeyKept DEF PastAt, HandledAt, DoneAt, One
    <3> QED
      BY <3>5, <3>6
  <2> QED
    BY <1>2, <1>3, <1>7, <2>1, <2>2 DEF EnqueueJob
<1>8. ASSUME NEW q \in Posts, Keep(q) PROVE KeyInv'
  <2>1. SlotsAreClear' /\ Moves(q)
    BY <1>8 DEF Keep, Answered, NoPost, SlotsAreClear, Moves, AdmTypeOK
  <2>2. ASSUME admFaults' = 0, NEW m \in KeyInHeader, KeyFacts(m) PROVE KeyFacts(m)'
    <3>1. cache' = IF post[q].key THEN [cache EXCEPT ![post[q].message] = TRUE] ELSE cache
      BY <1>3, <1>8, <2>2 DEF Keep
    <3>2. post'[q].message # m
      BY <1>8 DEF Keep, Answered, NoPost, AdmTypeOK
    <3>3. jobs' = jobs /\ crowd' = crowd /\ post[q].pc = "cache" /\ jobs[m] \in Nat /\ crowd[m] \in Nat
      BY <1>8 DEF Keep, AdmTypeOK
    <3>4. cache'[m] <=> cache[m] \/ post[q].message = m
      BY <2>2, <3>1 DEF KeyFacts, AdmTypeOK
    <3> QED
      BY <1>0, <1>1, <2>1, <2>2, <3>2, <3>3, <3>4, KeyKept DEF PastAt, HandledAt, DoneAt, One
  <2> QED
    BY <1>2, <1>3, <1>8, <2>1, <2>2 DEF Keep
<1>9. ASSUME NEW q \in Posts, LosePost(q) PROVE KeyInv'
  <2>1. SlotsAreClear'
    BY <1>9 DEF LosePost, Answered, NoPost, SlotsAreClear, AdmTypeOK
  <2> QED
    BY <1>2, <1>3, <1>9, <2>1 DEF LosePost
<1>10. CASE Count
  <2>1. admFaults' = 0 => admFaults = 0
    BY <1>3, <1>10 DEF Count
  <2> QED
    BY <1>2, <1>10, <2>1 DEF Count, SlotsAreClear, KeyFacts, Past, Finished, Handled, In
<1>11. ASSUME NEW m \in Messages, ForgetAnswer(m) PROVE KeyInv'
  BY <1>2, <1>3, <1>11 DEF ForgetAnswer, SlotsAreClear
<1>12. CASE UNCHANGED admVars
  BY <1>2, <1>12 DEF admVars, SlotsAreClear, KeyFacts, Past, Finished, Handled, In
<1> QED
  BY <1>4, <1>5, <1>6, <1>7, <1>8, <1>9, <1>10, <1>11, <1>12 DEF AdmNext

\* However often a request with an Idempotency-Key is repeated, no more emails come of it
\* than the most of its requests that ran the handler at once, while nothing fails.
THEOREM OneEmailPerKey == AdmSpec => []OneJobPerKey
<1>1. ASSUME KeyInv, admFaults = 0, NEW m \in KeyInHeader PROVE jobs[m] <= crowd[m]
  <2>1. m \in Messages /\ jobs[m] \in Nat /\ crowd[m] \in Nat /\ KeyFacts(m)
    BY <1>1, AdmAssumption DEF KeyInv, AdmTypeOK
  <2>2. /\ Cardinality(Handled(m)) \in Nat /\ Cardinality(Finished(m)) \in Nat
        /\ Cardinality(Past(m)) = Cardinality(Handled(m)) + Cardinality(Finished(m))
    BY <1>1, <2>1, PastIsBoth DEF KeyInv
  <2> QED
    BY <2>1, <2>2 DEF KeyFacts
<1>2. KeyInv => OneJobPerKey
  BY <1>1 DEF OneJobPerKey
<1> QED
  BY <1>2, KeyInit, KeyStep, PTL DEF AdmSpec

-----------------------------------------------------------------------------
(* the quota *)

\* What is counted, about to be counted, or admitted and on its way to be.
Claimed == used + Outstanding
CountInv == AdmTypeOK /\ (admFaults = 0 => Claimed <= Quota - 1 + peak)

LEMMA PeakGrows ==
  ASSUME AdmTypeOK, NEW n \in Nat, Reaches(n)
  PROVE  peak' >= peak /\ peak' >= n
BY DEF Reaches, AdmTypeOK

LEMMA FewerAdmitted ==
  ASSUME AdmTypeOK, NEW q \in Posts, post'[q].pc \notin {"gate", "save", "enqueue"},
         \A p \in Posts : p # q => post'[p] = post[p]
  PROVE  Cardinality(Admitted') = Cardinality(Admitted) - IF q \in Admitted THEN 1 ELSE 0
<1>1. Admitted' = Admitted \ {q}
  BY DEF Admitted
<1>2. IsFiniteSet(Admitted)
  BY AdmAssumption, FS_Subset DEF Admitted
<1> QED
  BY <1>1, <1>2, FS_RemoveElement, FS_CardinalityType

LEMMA SameAdmitted ==
  ASSUME AdmTypeOK, NEW q \in Admitted, post'[q].pc \in {"gate", "save", "enqueue"},
         \A p \in Posts : p # q => post'[p] = post[p]
  PROVE  Admitted' = Admitted
BY DEF Admitted

LEMMA OneMoreAdmitted ==
  ASSUME AdmTypeOK, NEW q \in Posts \ Admitted, post'[q].pc \in {"gate", "save", "enqueue"},
         \A p \in Posts : p # q => post'[p] = post[p]
  PROVE  Cardinality(Admitted') = Cardinality(Admitted) + 1
<1>1. Admitted' = Admitted \cup {q}
  BY DEF Admitted
<1>2. IsFiniteSet(Admitted)
  BY AdmAssumption, FS_Subset DEF Admitted
<1> QED
  BY <1>1, <1>2, FS_AddElement

LEMMA CountInit == AdmInit => CountInv
<1> SUFFICES ASSUME AdmInit PROVE CountInv
  OBVIOUS
<1>1. Admitted = {}
  BY DEF AdmInit, Admitted, NoPost
<1>2. Cardinality(Admitted) = 0
  BY <1>1, FS_EmptySet
<1> QED
  BY <1>2, AdmTypeInit, AdmAssumption DEF AdmInit, CountInv, Claimed, Outstanding

LEMMA CountStep == CountInv /\ [AdmNext]_admVars => CountInv'
<1> SUFFICES ASSUME CountInv, [AdmNext]_admVars, admFaults' = 0 PROVE Claimed' <= Quota - 1 + peak'
  BY AdmTypeStep DEF CountInv
<1> USE AdmAssumption
<1>1. AdmTypeOK /\ AdmTypeOK'
  BY AdmTypeStep DEF CountInv
<1>2. ~AdmFault
  BY <1>1 DEF AdmFault, AdmTypeOK
<1>3. Cardinality(Admitted) \in Nat /\ used \in Nat /\ owed \in Nat /\ peak \in Nat
  BY <1>1, AdmittedIsCounted DEF AdmTypeOK
<1>4. ASSUME admFaults' = admFaults PROVE Claimed <= Quota - 1 + peak
  BY <1>4 DEF CountInv
<1>5. ASSUME admFaults' = admFaults, UNCHANGED <<used, owed, peak>>, NEW q \in Posts,
             \A p \in Posts : p # q => post'[p] = post[p],
             post'[q].pc \in {"gate", "save", "enqueue"} => q \in Admitted
      PROVE Claimed' <= Quota - 1 + peak'
  <2>1. Cardinality(Admitted') <= Cardinality(Admitted)
    BY <1>1, <1>3, <1>5, FewerAdmitted, SameAdmitted
  <2>2. Cardinality(Admitted') \in Nat
    BY <1>1, <1>3, <1>5, FewerAdmitted, SameAdmitted, <2>1, FS_CardinalityType, FS_Subset DEF Admitted
  <2>3. Claimed' = used + Cardinality(Admitted') + owed
    BY <1>3, <1>5, <2>2 DEF Claimed, Outstanding
  <2> QED
    BY <1>3, <1>4, <1>5, <2>1, <2>2, <2>3 DEF Claimed, Outstanding
<1>6. ASSUME NEW q \in Posts, NEW m \in Messages, Submit(q, m) PROVE Claimed' <= Quota - 1 + peak'
  BY <1>1, <1>5, <1>6 DEF Submit, AdmTypeOK
<1>7. ASSUME NEW q \in Posts, Replay(q) \/ Gate(q) \/ Save(q) \/ Keep(q) \/ LosePost(q)
      PROVE Claimed' <= Quota - 1 + peak'
  <2>1. UNCHANGED <<used, owed, peak, admFaults>>
    BY <1>2, <1>7 DEF Replay, Gate, Save, Keep, LosePost
  <2>2. \/ Answered(q)
        \/ PostAt(q, "quota")
        \/ q \in Admitted /\ \E pc \in {"save", "enqueue"} : PostAt(q, pc)
    BY <1>7 DEF Replay, Gate, Save, Keep, LosePost, Admitted
  <2>3. /\ \A p \in Posts : p # q => post'[p] = post[p]
        /\ post'[q].pc \in {"gate", "save", "enqueue"} => q \in Admitted
    BY <1>1, <2>2 DEF PostAt, Answered, NoPost, AdmTypeOK
  <2>4. /\ \A p \in Posts : p # q => post'[p] = post[p]
        /\ UNCHANGED <<used, owed, peak>>
    BY <2>1, <2>3
  <2> QED
    BY <1>5, <2>1, <2>3, <2>4
<1>8. ASSUME NEW q \in Posts, CheckQuota(q) PROVE Claimed' <= Quota - 1 + peak'
  <2>1. CASE Answered(q) /\ UNCHANGED peak
    BY <1>1, <1>2, <1>5, <1>8, <2>1 DEF CheckQuota, Answered, NoPost, AdmTypeOK
  <2>2. CASE used < Quota /\ PostAt(q, "gate") /\ Reaches(Outstanding + 1)
    <3>0. /\ q \in Posts \ Admitted /\ post'[q].pc = "gate"
          /\ \A p \in Posts : p # q => post'[p] = post[p]
      BY <1>1, <1>8, <2>2 DEF CheckQuota, PostAt, Admitted, AdmTypeOK
    <3>1. Cardinality(Admitted') = Cardinality(Admitted) + 1
      BY <1>1, <3>0, OneMoreAdmitted
    <3>2. peak' >= Outstanding + 1 /\ Outstanding \in Nat
      BY <1>1, <1>3, <2>2, PeakGrows DEF Outstanding
    <3>3. Claimed' = used + Outstanding + 1
      BY <1>3, <1>8, <3>1 DEF CheckQuota, Claimed, Outstanding
    <3>4. peak' \in Nat /\ used <= Quota - 1
      BY <1>1, <1>3, <2>2 DEF AdmTypeOK
    <3>5. ASSUME NEW u \in Nat, NEW o \in Nat, NEW k \in Nat, u <= Quota - 1, k >= o + 1
          PROVE  u + o + 1 <= Quota - 1 + k
      BY <3>5
    <3>6. used + Outstanding + 1 <= Quota - 1 + peak'
      BY <1>3, <3>2, <3>4, <3>5
    <3> QED
      BY <3>3, <3>6
  <2> QED
    BY <1>2, <1>8, <2>1, <2>2 DEF CheckQuota, WithinQuota
<1>9. ASSUME NEW q \in Posts, EnqueueJob(q) PROVE Claimed' <= Quota - 1 + peak'
  <2>1. PostAt(q, "cache") /\ owed' = owed + 1 /\ UNCHANGED <<used, peak, admFaults>>
    BY <1>2, <1>9 DEF EnqueueJob, Counting
  <2>2. Cardinality(Admitted') = Cardinality(Admitted) - 1
    BY <1>1, <1>9, <2>1, FewerAdmitted DEF EnqueueJob, PostAt, Admitted, AdmTypeOK
  <2>3. Claimed' = used + (Cardinality(Admitted) - 1) + (owed + 1)
    BY <1>3, <2>1, <2>2 DEF Claimed, Outstanding
  <2> QED
    BY <1>3, <1>4, <2>1, <2>3 DEF Claimed, Outstanding
<1>10. CASE Count
  <2>1. used' = used + 1 /\ owed' = owed - 1 /\ admFaults' = admFaults /\ UNCHANGED <<post, peak>>
    BY <1>2, <1>10 DEF Count
  <2>2. Admitted' = Admitted
    BY <2>1 DEF Admitted
  <2>3. Claimed' = (used + 1) + (Cardinality(Admitted) + (owed - 1))
    BY <2>1, <2>2 DEF Claimed, Outstanding
  <2> QED
    BY <1>3, <1>4, <2>1, <2>3 DEF Claimed, Outstanding
<1>11. ASSUME NEW m \in Messages, ForgetAnswer(m) PROVE FALSE
  BY <1>2, <1>11 DEF ForgetAnswer
<1>12. CASE UNCHANGED admVars
  BY <1>4, <1>12 DEF admVars, Claimed, Outstanding, Admitted
<1> QED
  BY <1>6, <1>7, <1>8, <1>9, <1>10, <1>11, <1>12 DEF AdmNext

\* As long as nothing fails, what the counter reaches, with all that is on its way to it,
\* exceeds the quota by less than the most requests that were ever admitted at once: the
\* check before the send and the count behind it let no more through.
THEOREM CountIsBounded == AdmSpec => [](admFaults = 0 => used + owed < Quota + peak)
<1>1. CountInv => (admFaults = 0 => used + owed < Quota + peak)
  BY AdmittedIsCounted, AdmAssumption DEF CountInv, Claimed, Outstanding, AdmTypeOK
<1> QED
  BY <1>1, CountInit, CountStep, PTL DEF AdmSpec

\* An email is the i-th one of its message.
LEMMA EmailsAre ==
  \A e : e \in Emails <=> \E m \in Messages : \E i \in 1 .. jobs[m] : e = <<m, i>>
BY DEF Emails

\* One more job for message m is one more email.
LEMMA OneMoreEmail ==
  ASSUME AdmTypeOK, AdmTypeOK', IsFiniteSet(Emails), NEW m \in Messages,
         jobs' = [jobs EXCEPT ![m] = @ + 1]
  PROVE  IsFiniteSet(Emails') /\ Sent' = Sent + 1
<1> DEFINE new == <<m, jobs[m] + 1>>
<1>1. jobs \in [Messages -> Nat] /\ jobs'[m] = jobs[m] + 1 /\ \A n \in Messages : n # m => jobs'[n] = jobs[n]
  BY DEF AdmTypeOK
<1>2. new \notin Emails
  <2>1. ASSUME NEW i \in 1 .. jobs[m], new = <<m, i>> PROVE FALSE
    BY <1>1, <2>1
  <2> QED
    BY <2>1, EmailsAre
<1>3. \A e : e \in Emails' <=> \E n \in Messages : \E i \in 1 .. jobs'[n] : e = <<n, i>>
  BY DEF Emails
<1>4. ASSUME NEW e \in Emails' PROVE e \in Emails \cup {new}
  <2>1. PICK n \in Messages : \E i \in 1 .. jobs'[n] : e = <<n, i>>
    BY <1>3, <1>4
  <2>2. PICK i \in 1 .. jobs'[n] : e = <<n, i>>
    BY <2>1
  <2>3. (n = m /\ i = jobs[m] + 1) \/ i \in 1 .. jobs[n]
    BY <1>1
  <2>4. n = m /\ i = jobs[m] + 1 => e = new
    BY <2>2
  <2>5. i \in 1 .. jobs[n] => e \in Emails
    BY <2>2, EmailsAre
  <2> QED
    BY <2>3, <2>4, <2>5
<1>5. ASSUME NEW e \in Emails PROVE e \in Emails'
  <2>1. PICK n \in Messages : \E i \in 1 .. jobs[n] : e = <<n, i>>
    BY <1>5, EmailsAre
  <2>2. PICK i \in 1 .. jobs[n] : e = <<n, i>>
    BY <2>1
  <2>3. i \in 1 .. jobs'[n]
    BY <1>1
  <2> QED
    BY <1>3, <2>2, <2>3
<1>6. new \in Emails'
  <2>1. jobs[m] + 1 \in 1 .. jobs'[m]
    BY <1>1
  <2> QED
    BY <1>3, <2>1
<1>7. Emails' = Emails \cup {new}
  BY <1>4, <1>5, <1>6
<1> QED
  BY <1>2, <1>7, FS_AddElement DEF Sent

\* As long as nothing fails, every email is counted, or about to be.
EmailInv == AdmTypeOK /\ IsFiniteSet(Emails) /\ (admFaults = 0 => Sent = used + owed)

LEMMA EmailInit == AdmInit => EmailInv
<1> SUFFICES ASSUME AdmInit PROVE EmailInv
  OBVIOUS
<1>1. \A m \in Messages : jobs[m] = 0
  BY DEF AdmInit
<1>2. \A e : e \notin Emails
  BY <1>1, EmailsAre
<1>3. IsFiniteSet(Emails) /\ Sent = 0
  <2>1. Emails = {}
    BY <1>2
  <2> QED
    BY <2>1, FS_EmptySet DEF Sent
<1> QED
  BY <1>3, AdmTypeInit DEF AdmInit, EmailInv

LEMMA EmailStep == KeyInv /\ EmailInv /\ [AdmNext]_admVars => EmailInv'
<1> SUFFICES ASSUME KeyInv, EmailInv, [AdmNext]_admVars PROVE EmailInv'
  OBVIOUS
<1>1. AdmTypeOK /\ AdmTypeOK'
  BY AdmTypeStep DEF EmailInv
<1>2. AdmFault => admFaults' # 0
  BY <1>1, AdmAssumption DEF AdmFault, AdmTypeOK
<1>3. used \in Nat /\ owed \in Nat
  BY <1>1 DEF AdmTypeOK
<1>4. ASSUME UNCHANGED jobs,
             admFaults' # 0 \/ (UNCHANGED admFaults /\ used' + owed' = used + owed)
      PROVE  EmailInv'
  <2>1. Emails' = Emails
    BY <1>4 DEF Emails
  <2>2. Sent' = Sent
    BY <2>1 DEF Sent
  <2> QED
    BY <1>1, <1>4, <2>1, <2>2 DEF EmailInv
<1>5. ASSUME NEW q \in Posts, NEW m \in Messages, Submit(q, m) PROVE EmailInv'
  BY <1>4, <1>5 DEF Submit
<1>6. ASSUME NEW q \in Posts,
             Replay(q) \/ CheckQuota(q) \/ Gate(q) \/ Save(q) \/ Keep(q) \/ LosePost(q)
      PROVE  EmailInv'
  <2>1. UNCHANGED <<jobs, used, owed>> /\ (AdmFault \/ UNCHANGED admFaults)
    BY <1>6 DEF Replay, CheckQuota, Gate, Save, Keep, LosePost
  <2> QED
    BY <1>2, <1>4, <2>1
<1>7. ASSUME NEW q \in Posts, EnqueueJob(q) PROVE EmailInv'
  <2>1. CASE AdmFault /\ UNCHANGED <<jobs, owed>>
    BY <1>2, <1>4, <2>1
  <2>2. CASE /\ jobs' = [jobs EXCEPT ![post[q].message] = @ + 1]
             /\ owed' = owed + 1 /\ UNCHANGED admFaults
    <3>1. UNCHANGED used
      BY <1>7 DEF EnqueueJob
    <3>2. post[q].message \in Messages
      <4>1. post[q].pc = "enqueue"
        BY <1>7 DEF EnqueueJob
      <4>2. post[q].message # NoMessage
        BY <4>1 DEF KeyInv, SlotsAreClear
      <4> QED
        BY <1>1, <4>2 DEF AdmTypeOK
    <3>3. IsFiniteSet(Emails') /\ Sent' = Sent + 1
      BY <1>1, <2>2, <3>2, OneMoreEmail DEF EmailInv
    <3> QED
      BY <1>1, <1>3, <2>2, <3>1, <3>3 DEF EmailInv
  <2> QED
    BY <1>7, <2>1, <2>2 DEF EnqueueJob, Counting
<1>8. CASE Count
  <2>1. UNCHANGED jobs
    BY <1>8 DEF Count
  <2>2. AdmFault \/ (UNCHANGED admFaults /\ used' = used + 1 /\ owed' = owed - 1)
    BY <1>8 DEF Count
  <2>3. used' = used + 1 /\ owed' = owed - 1 => used' + owed' = used + owed
    BY <1>3
  <2> QED
    BY <1>2, <1>4, <2>1, <2>2, <2>3
<1>9. ASSUME NEW m \in Messages, ForgetAnswer(m) PROVE EmailInv'
  BY <1>2, <1>4, <1>9 DEF ForgetAnswer
<1>10. CASE UNCHANGED admVars
  BY <1>4, <1>10 DEF admVars
<1> QED
  BY <1>5, <1>6, <1>7, <1>8, <1>9, <1>10 DEF AdmNext

\* As long as nothing fails, the emails that were sent exceed the quota by less than the
\* most requests that were ever between its check and its count.
THEOREM OvershootStaysBounded == AdmSpec => []OvershootIsBounded
<1>1. CountInv /\ EmailInv => OvershootIsBounded
  <2> SUFFICES ASSUME CountInv, EmailInv, admFaults = 0 PROVE Sent <= Quota - 1 + peak
    BY DEF OvershootIsBounded
  <2>1. Sent = used + owed
    BY DEF EmailInv
  <2>2. used \in Nat /\ owed \in Nat /\ peak \in Nat /\ Cardinality(Admitted) \in Nat
    BY AdmittedIsCounted DEF EmailInv, AdmTypeOK
  <2>3. used + (Cardinality(Admitted) + owed) <= Quota - 1 + peak
    BY DEF CountInv, Claimed, Outstanding
  <2> QED
    BY <2>1, <2>2, <2>3, AdmAssumption
<1> QED
  BY <1>1, CountInit, CountStep, EmailInit, EmailStep, KeyInit, KeyStep, PTL DEF AdmSpec

-----------------------------------------------------------------------------
(***************************************************************************)
(* DomainWarmup: one session a domain, a bounded overshoot                 *)
(***************************************************************************)

(* days, steps and rows of a warm-up *)

\* The last of a set of places up to n.
LEMMA LastPlace ==
  ASSUME NEW n \in Nat, NEW S \in SUBSET (0 .. n), S # {}
  PROVE  Max(S) \in S /\ \A i \in S : i <= Max(S)
<1> DEFINE T == {x .. n : x \in S}
<1>1. T \subseteq FiniteSubsetsOf(Nat) /\ T # {}
  <2>1. ASSUME NEW x \in S PROVE x .. n \in FiniteSubsetsOf(Nat)
    BY FS_Interval DEF FiniteSubsetsOf
  <2> QED
    BY <2>1
<1>2. PICK u \in T : \A v \in T : ~(<<v, u>> \in StrictSubsetOrdering(Nat))
  <2> HIDE DEF T
  <2> QED
    BY <1>1, FS_StrictSubsetOrderingWellFounded, WFMin
<1>3. PICK x \in S : u = x .. n
  BY <1>2
<1>4. ASSUME NEW y \in S PROVE x >= y
  <2>1. ~(<<y .. n, x .. n>> \in StrictSubsetOrdering(Nat))
    BY <1>2, <1>3
  <2>2. CASE x < y
    <3>1. y .. n \subseteq x .. n /\ x \in x .. n /\ x \notin y .. n
      BY <2>2
    <3>2. y .. n \subseteq Nat /\ x .. n \subseteq Nat
      OBVIOUS
    <3>3. <<y .. n, x .. n>> \in StrictSubsetOrdering(Nat)
      BY <3>1, <3>2 DEF StrictSubsetOrdering
    <3> QED
      BY <2>1, <3>3
  <2> QED
    BY <2>2
<1>5. PICK m \in S : m = Max(S) /\ \A y \in S : m >= y
  BY <1>4 DEF Max
<1> QED
  BY <1>5

LEMMA StepsAreDays == 1 \in StepDays /\ \A s \in StepDays : s \in Nat /\ s >= 1
BY StepAssumption

\* The step of a day is a step that has begun, and never goes back from day to day.
LEMMA StepOfDay ==
  ASSUME NEW d \in Nat \ {0}
  PROVE  AutoStep(d) \in StepDays /\ AutoStep(d) \in 1 .. d
<1> DEFINE S == {s \in StepDays : s <= d}
<1>0. 1 \in StepDays /\ \A s \in StepDays : s \in Nat \ {0}
  BY StepAssumption
<1>1. S \in SUBSET (0 .. d) /\ 1 \in S
  BY <1>0
<1>2. Max(S) \in S
  <2> HIDE DEF S
  <2> QED
    BY <1>1, LastPlace
<1>3. AutoStep(d) \in S
  BY <1>2 DEF AutoStep
<1> QED
  BY <1>0, <1>3

LEMMA StepsGrow ==
  ASSUME NEW d \in Nat \ {0}, NEW e \in Nat \ {0}, d <= e
  PROVE  /\ Limit[AutoStep(d)] \in Nat \ {0} /\ Limit[AutoStep(e)] \in Nat \ {0}
         /\ Limit[AutoStep(d)] <= Limit[AutoStep(e)]
<1> DEFINE S == {s \in StepDays : s <= e}
<1>1. AutoStep(d) \in StepDays /\ AutoStep(d) \in 1 .. d /\ AutoStep(e) \in StepDays
  BY StepOfDay
<1>0. \A s \in StepDays : s \in Nat \ {0}
  BY StepAssumption
<1>2. S \in SUBSET (0 .. e) /\ AutoStep(d) \in S
  BY <1>0, <1>1
<1>3. AutoStep(d) <= Max(S)
  <2> HIDE DEF S
  <2> QED
    BY <1>2, LastPlace
<1>4. AutoStep(d) <= AutoStep(e)
  BY <1>3 DEF AutoStep
<1> QED
  BY <1>1, <1>4, StepAssumption

SendPcs  == {"idle", "look", "look2", "create", "again", "again2", "wrong", "reset", "advance", "compare",
             "record", "recount", "count"}
SendType == [pc : SendPcs, id : Nat, n : Nat, day : Nat, bouncy : BOOLEAN, on : 0 .. MaxToday]

\* A request that has read a row keeps the number of one, and no date to come.
HasRow == {"reset", "advance", "compare", "record", "recount", "count"}
SaneSend(r, n, t) == r.n <= MaxBatch /\ r.on <= t /\ (r.pc \in HasRow => r.id \in 1 .. n)

\* A row has begun, no later than today, covers no date to come, and is on no day to come.
SaneRow(row, t) == row.started \in 1 .. t /\ row.on <= t /\ row.day \in 1 .. (t - row.started + 1)

SendsAreSane == \A c \in Sends : SaneSend(send[c], Len(session), today)
RowsAreSane  == \A i \in 1 .. Len(session) : SaneRow(session[i], today)
OrderIsSane  ==
  /\ order.pc # "idle" /\ order.kind # "start" => order.id \in 1 .. Len(session)
  /\ order.pc = "reset" => order.kind = "status"
NothingAhead ==
  Len(session) <= MaxSessions /\ \A i \in 1 .. MaxSessions : i > Len(session) => accepted[i] = 0

DomInv == DomTypeOK /\ SendsAreSane /\ RowsAreSane /\ OrderIsSane /\ NothingAhead

LEMMA DomTypes ==
  ASSUME DomTypeOK
  PROVE  /\ today \in 1 .. MaxToday /\ today \in Nat \ {0} /\ session \in Seq(Rows) /\ Len(session) \in Nat
         /\ Ids = 1 .. Len(session) /\ (\A i \in Ids : session[i] \in Rows)
         /\ send \in [Sends -> SendType] /\ accepted \in [1 .. MaxSessions -> Nat]
         /\ lost \in BOOLEAN /\ excused \in SUBSET Sends
BY DomAssumption DEF DomTypeOK, SendType, SendPcs, Ids

LEMMA NewRow == today \in 1 .. MaxToday => NewSession \in Rows /\ SaneRow(NewSession, today)
BY DomAssumption, StepAssumption DEF NewSession, Rows, SaneRow

LEMMA NoRowType == today \in 1 .. MaxToday => NoRow \in Rows
<1> SUFFICES ASSUME today \in 1 .. MaxToday PROVE NoRow \in Rows
  OBVIOUS
<1>1. PICK x \in Rows : x = NewSession
  BY NewRow
<1>2. 0 \in 0 .. MaxToday
  BY DomAssumption
<1>3. [x EXCEPT !.started = 0, !.on = 0] \in Rows
  BY <1>2 DEF Rows
<1> QED
  BY <1>1, <1>3 DEF NoRow

LEMMA NoSendType == NoSend \in SendType /\ \A n, t \in Nat : SaneSend(NoSend, n, t)
BY DomAssumption DEF NoSend, SendType, SendPcs, SaneSend, HasRow

LEMMA DomInitInv == DomInit => DomInv
<1> SUFFICES ASSUME DomInit PROVE DomInv
  OBVIOUS
<1>1. today = 1 /\ today \in 1 .. MaxToday /\ session = << >> /\ Len(session) = 0
  BY DomAssumption DEF DomInit
<1>2. NoRow \in Rows
  BY <1>1, NoRowType
<1>3. send \in [Sends -> SendType] /\ SendsAreSane
  BY <1>1, NoSendType DEF DomInit, SendsAreSane
<1>4. order \in [pc : {"idle", "reset", "write"}, id : Nat, kind : Kinds, row : Rows] /\ order.pc = "idle"
  BY <1>2 DEF DomInit, NoOrder, Kinds
<1>5. /\ asks \in 0 .. MaxAsks /\ orders \in 0 .. MaxOrders
      /\ accepted \in [1 .. MaxSessions -> Nat] /\ \A i \in 1 .. MaxSessions : accepted[i] = 0
  BY DomAssumption DEF DomInit
<1>7. lost \in BOOLEAN /\ excused \subseteq Sends
  BY DEF DomInit
<1>6. DomTypeOK
  BY <1>1, <1>3, <1>4, <1>5, <1>7 DEF DomTypeOK, SendType, SendPcs
<1> QED
  BY <1>1, <1>3, <1>4, <1>5, <1>6, DomAssumption DEF DomInv, RowsAreSane, OrderIsSane, NothingAhead

\* One row changes.
LEMMA RowChanges ==
  ASSUME DomInv, NEW i \in Ids, NEW row \in Rows, SaneRow(row, today), Update(i, row), UNCHANGED today
  PROVE  /\ session' \in Seq(Rows) /\ Len(session') = Len(session) /\ RowsAreSane'
         /\ session'[i] = row /\ \A j \in Ids : j # i => session'[j] = session[j]
<1>1. session \in Seq(Rows) /\ Ids = 1 .. Len(session) /\ Len(session) \in Nat
  BY DomTypes DEF DomInv
<1>2. session' = [session EXCEPT ![i] = row]
  BY DEF Update
<1>3. session' \in Seq(Rows) /\ Len(session') = Len(session) /\ session'[i] = row /\ \A j \in Ids : j # i => session'[j] = session[j]
  BY <1>1, <1>2
<1>4. RowsAreSane'
  BY <1>1, <1>3 DEF DomInv, RowsAreSane
<1> QED
  BY <1>3, <1>4

\* A session is inserted, or there is one.
LEMMA RowIsAdded ==
  ASSUME DomInv, InsertSession, UNCHANGED today
  PROVE  /\ session' \in Seq(Rows) /\ Len(session') >= Len(session) /\ Len(session') <= MaxSessions
         /\ RowsAreSane' /\ \A j \in Ids : session'[j] = session[j]
         /\ \/ UNCHANGED session
            \/ Len(session') = Len(session) + 1 /\ session'[Len(session) + 1] = NewSession
<1>1. session \in Seq(Rows) /\ Ids = 1 .. Len(session) /\ Len(session) \in Nat /\ Len(session) <= MaxSessions
  BY DomTypes DEF DomInv, NothingAhead
<1>2. NewSession \in Rows /\ SaneRow(NewSession, today)
  BY DomTypes, NewRow DEF DomInv
<1>3. CASE session' = Append(session, NewSession) /\ Len(session) < MaxSessions
  <2>1. session' \in Seq(Rows) /\ Len(session') = Len(session) + 1 /\ session'[Len(session) + 1] = NewSession
    BY <1>1, <1>2, <1>3
  <2>2. \A j \in Ids : session'[j] = session[j]
    BY <1>1, <1>3
  <2>3. RowsAreSane'
    BY <1>1, <1>2, <2>1, <2>2 DEF DomInv, RowsAreSane
  <2> QED
    BY <1>1, <1>3, <2>1, <2>2, <2>3, DomAssumption
<1>4. CASE UNCHANGED session
  <2>1. RowsAreSane'
    BY <1>4 DEF DomInv, RowsAreSane
  <2> QED
    BY <1>1, <1>4, <2>1
<1> QED
  BY <1>3, <1>4 DEF InsertSession

\* One request moves.
LEMMA SendMoves ==
  ASSUME DomInv, NEW c \in Sends, NEW r \in SendType, send' = [send EXCEPT ![c] = r],
         SaneSend(r, Len(session'), today), UNCHANGED today, Len(session') \in Nat, Len(session') >= Len(session)
  PROVE  /\ send' \in [Sends -> SendType] /\ SendsAreSane'
         /\ send'[c] = r /\ \A b \in Sends : b # c => send'[b] = send[b]
<1>1. send \in [Sends -> SendType] /\ Len(session) \in Nat
  BY DomTypes DEF DomInv
<1>2. send' \in [Sends -> SendType] /\ send'[c] = r /\ \A b \in Sends : b # c => send'[b] = send[b]
  BY <1>1
<1>3. \A b \in Sends : send[b].pc \in HasRow => send[b].id \in 1 .. Len(session')
  BY <1>1 DEF DomInv, SendsAreSane, SaneSend
<1> QED
  BY <1>2, <1>3 DEF DomInv, SendsAreSane, SaneSend

LEMMA SendGoesOn ==
  ASSUME DomInv, NEW c \in Sends, NEW pc \in SendPcs, SendAt(c, pc), pc \in HasRow => send[c].pc \in HasRow,
         UNCHANGED today, Len(session') \in Nat, Len(session') >= Len(session)
  PROVE  /\ send' \in [Sends -> SendType] /\ SendsAreSane'
         /\ send'[c].pc = pc /\ send'[c].id = send[c].id /\ send'[c].n = send[c].n
         /\ \A b \in Sends : b # c => send'[b] = send[b]
<1>1. send \in [Sends -> SendType] /\ Len(session) \in Nat
  BY DomTypes DEF DomInv
<1>2. PICK r \in SendType : r = [send[c] EXCEPT !.pc = pc]
  BY <1>1 DEF SendType
<1>3. r.pc = pc /\ r.id = send[c].id /\ r.n = send[c].n /\ r.on = send[c].on
  BY <1>1, <1>2 DEF SendType
<1>4. SaneSend(send[c], Len(session), today)
  BY DEF DomInv, SendsAreSane
<1>5. SaneSend(r, Len(session'), today)
  BY <1>1, <1>3, <1>4 DEF SaneSend
<1>6. send' = [send EXCEPT ![c] = r]
  BY <1>1, <1>2 DEF SendAt
<1> QED
  BY <1>3, <1>5, <1>6, SendMoves

\* What a request keeps of the row it has read.
LEMMA JudgeKeeps ==
  ASSUME DomInv, NEW c \in Sends, NEW i \in Ids, Judge(c, i), UNCHANGED <<today, session>>
  PROVE  /\ send' \in [Sends -> SendType] /\ SendsAreSane'
         /\ send'[c].pc \in {"reset", "advance"} /\ \A b \in Sends : b # c => send'[b] = send[b]
<1>1. /\ send \in [Sends -> SendType] /\ Len(session) \in Nat /\ Ids = 1 .. Len(session)
      /\ today \in 1 .. MaxToday /\ today \in Nat /\ session[i] \in Rows
  BY DomTypes DEF DomInv
<1>2. session[i].day \in Nat
  <2>1. session[i].day \in StepDays \cup 1 .. MaxToday
    BY <1>1 DEF Rows
  <2> QED
    BY <2>1, StepsAreDays
<1>3. session[i].bouncy \in BOOLEAN
  BY <1>1 DEF Rows
<1>4. Len(session') \in Nat /\ Len(session') >= Len(session)
  BY <1>1
<1>5. PICK b \in BOOLEAN : b = session[i].bouncy
  BY <1>3
<1>6. PICK x \in SendType : x = send[c]
  BY <1>1
<1>7. PICK pc \in {"advance", "reset"} : pc = IF session[i].on = today THEN "advance" ELSE "reset"
  OBVIOUS
<1>8. PICK day \in Nat : day = session[i].day
  BY <1>2
<1>9. i \in Nat /\ today \in 0 .. MaxToday
  BY <1>1
<1>10. PICK r : r = [x EXCEPT !.pc = pc, !.id = i, !.day = day, !.bouncy = b, !.on = today]
  OBVIOUS
<1>11. /\ r \in SendType /\ r.pc \in {"advance", "reset"} /\ r.id = i /\ r.on = today /\ r.n = send[c].n
  BY ZenonT(40), <1>10, <1>6, <1>7, <1>8, <1>9 DEF SendType, SendPcs
<1>12. send[c].n <= MaxBatch
  BY DEF DomInv, SendsAreSane, SaneSend
<1>13. SaneSend(r, Len(session'), today)
  BY <1>1, <1>11, <1>12 DEF SaneSend
<1>14. send' = [send EXCEPT ![c] = r]
  BY <1>1, <1>5, <1>6, <1>7, <1>8, <1>10 DEF Judge
<1>15. /\ send' \in [Sends -> SendType] /\ SendsAreSane'
       /\ send'[c] = r /\ \A a \in Sends : a # c => send'[a] = send[a]
  BY <1>4, <1>11, <1>13, <1>14, SendMoves
<1> QED
  BY <1>11, <1>15

\* A request about to compare keeps the number of its row and its size.
Compared(c) == [send[c] EXCEPT !.pc = "compare", !.day = 1, !.bouncy = FALSE]

LEMMA ComparedKeeps ==
  ASSUME DomInv, NEW c \in Sends, send[c].pc = "advance", send' = [send EXCEPT ![c] = Compared(c)],
         UNCHANGED today, Len(session') \in Nat, Len(session') >= Len(session)
  PROVE  /\ send' \in [Sends -> SendType] /\ SendsAreSane'
         /\ send'[c].pc = "compare" /\ send'[c].id = send[c].id /\ send'[c].n = send[c].n
         /\ \A b \in Sends : b # c => send'[b] = send[b]
<1>1. send \in [Sends -> SendType] /\ Len(session) \in Nat
  BY DomTypes DEF DomInv
<1>2. PICK x \in SendType : x = send[c]
  BY <1>1
<1>3. PICK r : r = [x EXCEPT !.pc = "compare", !.day = 1, !.bouncy = FALSE]
  OBVIOUS
<1>4. r \in SendType /\ r.pc = "compare" /\ r.id = x.id /\ r.n = x.n /\ r.on = x.on
  BY ZenonT(40), <1>2, <1>3 DEF SendType, SendPcs
<1>5. SaneSend(x, Len(session), today) /\ x.pc \in HasRow
  BY <1>2 DEF DomInv, SendsAreSane, HasRow
<1>6. SaneSend(r, Len(session'), today)
  BY <1>1, <1>4, <1>5 DEF SaneSend
<1>7. send' = [send EXCEPT ![c] = r]
  BY <1>2, <1>3 DEF Compared
<1> QED
  BY <1>2, <1>4, <1>6, <1>7, SendMoves

\* The last session of a status is one there is.
LEMMA LastHaving ==
  ASSUME DomInv, NEW st, Having(st) # {}
  PROVE  Max(Having(st)) \in Having(st) /\ Max(Having(st)) \in Ids /\ Max(Having(st)) \in Nat \ {0}
<1>1. Ids = 1 .. Len(session) /\ Len(session) \in Nat
  BY DomTypes DEF DomInv
<1>2. Having(st) \in SUBSET (0 .. Len(session)) /\ Having(st) \subseteq Ids
  BY <1>1 DEF Having
<1>3. Max(Having(st)) \in Having(st)
  BY <1>1, <1>2, LastPlace
<1> QED
  BY <1>1, <1>2, <1>3

\* The session that is looked for is one there is, or none.
LEMMA ActiveIsThere ==
  ASSUME DomInv
  PROVE  /\ ActiveSession \in 0 .. Len(session)
         /\ ActiveSession = 0 <=> Having("active") = {} /\ Having("paused") = {}
<1>1. Ids = 1 .. Len(session) /\ Len(session) \in Nat
  BY DomTypes DEF DomInv
<1>2. \A st : Having(st) \in SUBSET (0 .. Len(session)) /\ 0 \notin Having(st) /\ Having(st) \subseteq Ids
  BY <1>1 DEF Having
<1>3. ASSUME NEW st, Having(st) # {} PROVE Max(Having(st)) \in Ids /\ Max(Having(st)) # 0
  BY <1>1, <1>2, <1>3, LastPlace
<1> QED
  BY <1>1, <1>3 DEF ActiveSession

\* The calls of the user are about a session there is, except a start.
LEMMA TargetIsThere ==
  ASSUME DomInv, NEW k \in Kinds
  PROVE  Target(k) \in 0 .. Len(session)
<1>1. Ids = 1 .. Len(session) /\ Len(session) \in Nat
  BY DomTypes DEF DomInv
<1>2. Having("paused") \in SUBSET (0 .. Len(session))
  BY <1>1 DEF Having
<1>3. Having("paused") # {} => Max(Having("paused")) \in 0 .. Len(session)
  BY <1>1, <1>2, LastPlace
<1> QED
  BY <1>1, <1>3, ActiveIsThere DEF Target

\* The days of a session, whichever hour it is.
LEMMA ElapsedIsDay ==
  ASSUME DomInv, NEW i \in Ids, NEW e \in ElapsedDays(session[i].started)
  PROVE  /\ Elapsed(session[i].started) = today - session[i].started + 1
         /\ e \in 1 .. Elapsed(session[i].started) /\ e \in 1 .. MaxToday
<1>1. SaneRow(session[i], today) /\ today \in 1 .. MaxToday /\ today \in Nat
  BY DomTypes DEF DomInv, RowsAreSane
<1> DEFINE n == today - session[i].started + 1
<1>2. Elapsed(session[i].started) = n /\ n \in 1 .. today
  BY <1>1 DEF Elapsed, SaneRow
<1> HIDE DEF n
<1>3. Max({1, n - 1}) \in {1, n - 1} /\ Max({1, n - 1}) \in 1 .. n
  <2>1. {1, n - 1} \in SUBSET (0 .. n) /\ n \in Nat
    BY <1>1, <1>2
  <2>2. Max({1, n - 1}) \in {1, n - 1} /\ 1 <= Max({1, n - 1})
    BY <2>1, LastPlace
  <2> QED
    BY <1>2, <2>2
<1>4. e = n \/ e = Max({1, n - 1})
  BY <1>2 DEF ElapsedDays
<1>5. e \in 1 .. n
  BY <1>2, <1>3, <1>4
<1>6. e \in 1 .. MaxToday
  BY <1>1, <1>2, <1>5, DomAssumption
<1> QED
  BY <1>2, <1>5, <1>6 DEF n

\* An advance puts the session on a step that has begun.
LEMMA NextDayIsStep ==
  ASSUME DomInv, NEW c \in Sends, NEW i \in Ids, NEW e \in ElapsedDays(session[i].started), NextDay(c, e) # send[c].day
  PROVE  NextDay(c, e) \in StepDays /\ NextDay(c, e) \in 1 .. Elapsed(session[i].started)
<1>1. e \in 1 .. Elapsed(session[i].started) /\ e \in Nat \ {0}
  BY ElapsedIsDay
<1>2. NextDay(c, e) = AutoStep(e)
  BY DEF NextDay
<1>3. AutoStep(e) \in StepDays /\ AutoStep(e) \in 1 .. e
  BY <1>1, StepOfDay
<1>4. Elapsed(session[i].started) \in Int
  BY DomTypes DEF DomInv, RowsAreSane, SaneRow, Elapsed
<1> QED
  BY <1>1, <1>2, <1>3, <1>4

\* The parts of the invariant that a step may disturb.
LEMMA DomInvNext ==
  ASSUME DomInv, today' \in 1 .. MaxToday, session' \in Seq(Rows), RowsAreSane',
         send' \in [Sends -> SendType], SendsAreSane',
         order' \in [pc : {"idle", "reset", "write"}, id : Nat, kind : Kinds, row : Rows], OrderIsSane',
         asks' \in 0 .. MaxAsks, orders' \in 0 .. MaxOrders,
         accepted' \in [1 .. MaxSessions -> Nat], NothingAhead', lost' \in BOOLEAN, excused' \in SUBSET Sends
  PROVE  DomInv'
BY DEF DomInv, DomTypeOK, SendType, SendPcs

\* A step of a request: it may change rows and its own record, but no call of the user.
LEMMA ServeKeeps ==
  ASSUME DomInv, NEW c \in Sends, Serve(c) PROVE DomInv'
<1>1. /\ today \in 1 .. MaxToday /\ today \in Nat /\ session \in Seq(Rows) /\ Len(session) \in Nat
      /\ Ids = 1 .. Len(session) /\ (\A i \in Ids : session[i] \in Rows)
      /\ send \in [Sends -> SendType] /\ accepted \in [1 .. MaxSessions -> Nat]
      /\ RowsAreSane /\ NothingAhead /\ OrderIsSane
  BY DomTypes DEF DomInv
<1>2. /\ order \in [pc : {"idle", "reset", "write"}, id : Nat, kind : Kinds, row : Rows]
      /\ asks \in 0 .. MaxAsks /\ orders \in 0 .. MaxOrders
  BY DEF DomInv, DomTypeOK
<1>3. lost \in BOOLEAN /\ excused \in SUBSET Sends
  BY SMTT(30) DEF DomInv, DomTypeOK
<1>4. UNCHANGED <<today, order, orders>>
  BY ZenonT(40) DEF Serve, Ask, LookActive, LookPaused, Create, RefuseWrong, ResetFirst, Advance, Compare, Record, ResetBefore, CountSend, Abandon
<1>5. lost' \in BOOLEAN
  BY ZenonT(40), <1>3 DEF Serve, Ask, LookActive, LookPaused, Create, RefuseWrong, ResetFirst, Advance, Compare, Record, ResetBefore, CountSend, Abandon, Reset
<1>24. excused' \in SUBSET Sends
  BY ZenonT(40), <1>3 DEF Serve, Ask, LookActive, LookPaused, Create, RefuseWrong, ResetFirst, Advance, Compare, Record, ResetBefore, CountSend, Abandon
<1>6. asks' \in 0 .. MaxAsks
  <2>1. CASE Ask(c)
    <3>1. asks' = asks + 1 /\ asks < MaxAsks
      BY <2>1 DEF Ask
    <3> QED
      BY <1>2, <3>1, DomAssumption
  <2>2. CASE ~Ask(c)
    <3>1. UNCHANGED asks
      BY <2>2 DEF Serve, LookActive, LookPaused, Create, RefuseWrong, ResetFirst, Advance, Compare, Record, ResetBefore, CountSend, Abandon
    <3> QED
      BY <1>2, <3>1
  <2> QED
    BY <2>1, <2>2
<1>7. ASSUME session' \in Seq(Rows), RowsAreSane', Len(session') >= Len(session), Len(session') <= MaxSessions,
             send' \in [Sends -> SendType], SendsAreSane',
             accepted' \in [1 .. MaxSessions -> Nat], \A i \in 1 .. MaxSessions : i \notin Ids => accepted'[i] = accepted[i]
      PROVE  DomInv'
  <2>1. OrderIsSane'
    BY <1>1, <1>4, <1>7 DEF OrderIsSane
  <2>2. NothingAhead'
    BY <1>1, <1>7 DEF NothingAhead
  <2> QED
    BY <1>1, <1>2, <1>4, <1>5, <1>6, <1>7, <1>24, <2>1, <2>2, DomInvNext
<1>8. ASSUME UNCHANGED <<session, accepted>>, send' \in [Sends -> SendType], SendsAreSane'
      PROVE  DomInv'
  <2>1. RowsAreSane'
    BY <1>1, <1>4, <1>8 DEF RowsAreSane
  <2> QED
    BY <1>1, <1>7, <1>8, <2>1 DEF NothingAhead
<1>9. ASSUME NEW i \in Ids, NEW row \in Rows, SaneRow(row, today), Update(i, row), UNCHANGED accepted,
             send' \in [Sends -> SendType], SendsAreSane'
      PROVE  DomInv'
  <2>1. session' \in Seq(Rows) /\ Len(session') = Len(session) /\ RowsAreSane'
    BY <1>4, <1>9, RowChanges
  <2> QED
    BY <1>1, <1>7, <1>9, <2>1 DEF NothingAhead
<1>10. ASSUME send' = [send EXCEPT ![c] = NoSend], Len(session') \in Nat, Len(session') >= Len(session)
       PROVE  send' \in [Sends -> SendType] /\ SendsAreSane'
  <2>1. NoSend \in SendType /\ SaneSend(NoSend, Len(session'), today)
    BY <1>1, <1>10, NoSendType
  <2> QED
    BY <1>4, <1>10, <2>1, SendMoves
<1>11. ASSUME NEW pc \in SendPcs, SendAt(c, pc), pc \in HasRow => send[c].pc \in HasRow,
              Len(session') \in Nat, Len(session') >= Len(session)
       PROVE  send' \in [Sends -> SendType] /\ SendsAreSane'
  BY <1>4, <1>11, SendGoesOn
<1>12. CASE Ask(c)
  <2>1. PICK n \in 1 .. MaxBatch : send' = [send EXCEPT ![c] = [NoSend EXCEPT !.pc = "look", !.n = n]]
    BY <1>12 DEF Ask
  <2>2. PICK r : r = [NoSend EXCEPT !.pc = "look", !.n = n]
    OBVIOUS
  <2>3. n \in Nat /\ n <= MaxBatch
    BY DomAssumption
  <2>4. NoSend \in SendType /\ NoSend.on <= today
    BY <1>1, NoSendType DEF NoSend
  <2>5. r \in SendType /\ r.pc = "look" /\ r.n = n /\ r.on = NoSend.on
    BY <2>2, <2>3, <2>4 DEF SendType, SendPcs
  <2>6. SaneSend(r, Len(session'), today)
    BY <2>3, <2>4, <2>5 DEF SaneSend, HasRow
  <2>7. UNCHANGED <<session, accepted>> /\ Len(session') \in Nat /\ Len(session') >= Len(session)
    BY <1>1, <1>12 DEF Ask
  <2>8. send' \in [Sends -> SendType] /\ SendsAreSane'
    BY <1>4, <2>1, <2>2, <2>5, <2>6, <2>7, SendMoves
  <2> QED
    BY <1>8, <2>7, <2>8
<1>13. CASE LookActive(c) \/ LookPaused(c)
  <2>1. UNCHANGED <<session, accepted>> /\ Len(session') \in Nat /\ Len(session') >= Len(session)
    BY <1>1, <1>13 DEF LookActive, LookPaused
  <2>2. \/ \E pc \in {"look2", "again2", "create", "wrong"} : SendAt(c, pc)
        \/ send' = [send EXCEPT ![c] = NoSend]
        \/ Having("active") # {} /\ Judge(c, Max(Having("active")))
    BY <1>13 DEF LookActive, LookPaused
  <2>3. CASE \E pc \in {"look2", "again2", "create", "wrong"} : SendAt(c, pc)
    BY <1>8, <1>11, <2>1, <2>3 DEF SendPcs, HasRow
  <2>4. CASE Having("active") # {} /\ Judge(c, Max(Having("active")))
    BY <1>4, <1>8, <2>1, <2>4, LastHaving, JudgeKeeps
  <2>5. CASE send' = [send EXCEPT ![c] = NoSend]
    BY <1>8, <1>10, <2>1, <2>5
  <2> QED
    BY <2>2, <2>3, <2>4, <2>5
<1>14. CASE Create(c)
  <2>1. InsertSession \/ UNCHANGED session
    BY <1>14 DEF Create
  <2>4. SendAt(c, "again") /\ UNCHANGED accepted
    BY <1>14 DEF Create
  <2>5. Len(session) <= MaxSessions
    BY <1>1 DEF NothingAhead
  <2>2. /\ session' \in Seq(Rows) /\ Len(session') >= Len(session) /\ Len(session') <= MaxSessions /\ RowsAreSane'
    <3>1. CASE UNCHANGED session
      BY <1>1, <1>4, <2>5, <3>1 DEF RowsAreSane
    <3> QED
      BY <1>4, <2>1, <3>1, RowIsAdded
  <2>3. send' \in [Sends -> SendType] /\ SendsAreSane'
    BY <1>11, <2>2, <2>4 DEF SendPcs, HasRow
  <2> QED
    BY <1>1, <1>7, <2>2, <2>3, <2>4
<1>15. CASE RefuseWrong(c) \/ Abandon(c)
  BY <1>1, <1>8, <1>10, <1>15 DEF RefuseWrong, Abandon
<1>16. ASSUME send[c].pc \in {"reset", "advance", "compare", "record", "recount", "count"} PROVE send[c].id \in Ids /\ send[c].id \in Nat
  BY <1>1, <1>16 DEF DomInv, SendsAreSane, SaneSend, HasRow
<1>17. send[c].on \in 0 .. MaxToday /\ send[c].on <= today /\ send[c].n \in Nat
  BY <1>1 DEF DomInv, SendsAreSane, SaneSend, SendType
<1>18. ASSUME NEW i \in Ids
       PROVE  /\ session[i] \in Rows /\ session[i].sent \in Nat /\ session[i].on \in 0 .. MaxToday
              /\ SaneRow(session[i], today) /\ session[i].started \in 1 .. today
  BY <1>1 DEF RowsAreSane, Rows, SaneRow
<1>19. CASE ResetFirst(c) \/ ResetBefore(c)
  <2>1. /\ send[c].pc \in {"reset", "recount"} /\ UNCHANGED accepted
        /\ Update(send[c].id, [session[send[c].id] EXCEPT !.sent = 0, !.on = send[c].on])
        /\ SendAt(c, "advance") \/ SendAt(c, "count")
    BY <1>19 DEF ResetFirst, ResetBefore, Reset
  <2>2. send[c].id \in Ids
    BY <1>16, <2>1
  <2>3. PICK x \in Rows : x = session[send[c].id]
    BY <1>18, <2>2
  <2>4. PICK row : row = [x EXCEPT !.sent = 0, !.on = send[c].on]
    OBVIOUS
  <2>5. row \in Rows /\ row.on = send[c].on /\ row.started = x.started /\ row.day = x.day
    BY <1>17, <2>4 DEF Rows
  <2>6. SaneRow(row, today)
    BY <1>17, <1>18, <2>2, <2>3, <2>5 DEF SaneRow
  <2>7. Len(session') = Len(session)
    BY <1>4, <2>1, <2>2, <2>3, <2>4, <2>5, <2>6, RowChanges
  <2>8. send' \in [Sends -> SendType] /\ SendsAreSane'
    BY <1>1, <1>11, <2>1, <2>7 DEF SendPcs, HasRow
  <2> QED
    BY <1>9, <2>1, <2>2, <2>3, <2>4, <2>5, <2>6, <2>8
<1>20. CASE Advance(c)
  <2>1. /\ send[c].pc = "advance" /\ UNCHANGED accepted /\ send' = [send EXCEPT ![c] = Compared(c)]
    BY <1>20 DEF Advance, Compared
  <2>2. send[c].id \in Ids
    BY <1>16, <2>1
  <2>3. CASE UNCHANGED session
    <3>2. UNCHANGED today /\ Len(session') \in Nat /\ Len(session') >= Len(session)
      BY <1>1, <1>4, <2>3
    <3>1. send' \in [Sends -> SendType] /\ SendsAreSane'
      BY <2>1, <3>2, ComparedKeeps
    <3> QED
      BY <1>8, <2>1, <2>3, <3>1
  <2>4. CASE ~UNCHANGED session
    <3>1. PICK e \in ElapsedDays(session[send[c].id].started) :
            /\ NextDay(c, e) # send[c].day
            /\ Update(send[c].id, [session[send[c].id] EXCEPT !.day = NextDay(c, e)])
      BY <1>20, <2>4 DEF Advance
    <3>2. NextDay(c, e) \in StepDays /\ NextDay(c, e) \in 1 .. Elapsed(session[send[c].id].started)
      BY <2>2, <3>1, NextDayIsStep
    <3>3. PICK x \in Rows : x = session[send[c].id]
      BY <1>18, <2>2
    <3>4. PICK row : row = [x EXCEPT !.day = NextDay(c, e)]
      OBVIOUS
    <3>5. row \in Rows /\ row.on = x.on /\ row.started = x.started /\ row.day = NextDay(c, e)
      BY <3>2, <3>4 DEF Rows
    <3>6. SaneRow(row, today)
      BY <1>18, <2>2, <3>2, <3>3, <3>5 DEF SaneRow, Elapsed
    <3>7. Len(session') = Len(session)
      BY <1>4, <2>2, <3>1, <3>3, <3>4, <3>5, <3>6, RowChanges
    <3>9. UNCHANGED today /\ Len(session') \in Nat /\ Len(session') >= Len(session)
      BY <1>1, <1>4, <3>7
    <3>8. send' \in [Sends -> SendType] /\ SendsAreSane'
      BY <2>1, <3>9, ComparedKeeps
    <3> QED
      BY <1>9, <2>1, <2>2, <3>1, <3>3, <3>4, <3>5, <3>6, <3>8
  <2> QED
    BY <2>3, <2>4
<1>21. CASE Compare(c)
  <2>1. send[c].pc = "compare" /\ UNCHANGED session
    BY <1>21 DEF Compare
  <2>2. send[c].id \in Ids /\ Len(session') \in Nat /\ Len(session') >= Len(session)
    BY <1>1, <1>16, <2>1
  <2>3. CASE SendAt(c, "record") /\ accepted' = [accepted EXCEPT ![send[c].id] = @ + send[c].n]
    <3>1. send' \in [Sends -> SendType] /\ SendsAreSane'
      BY <1>11, <2>1, <2>2, <2>3 DEF SendPcs, HasRow
    <3>2. accepted' \in [1 .. MaxSessions -> Nat] /\ \A i \in 1 .. MaxSessions : i \notin Ids => accepted'[i] = accepted[i]
      <4>1. send[c].id \in 1 .. MaxSessions
        BY <1>1, <2>2, DomAssumption DEF NothingAhead
      <4>2. PICK m \in Nat : m = accepted[send[c].id] + send[c].n
        BY <1>1, <1>17, <4>1
      <4>3. accepted' = [accepted EXCEPT ![send[c].id] = m]
        BY <1>1, <2>3, <4>1, <4>2
      <4> QED
        BY <1>1, <2>2, <4>1, <4>3
    <3>3. RowsAreSane'
      BY <1>1, <1>4, <2>1 DEF RowsAreSane
    <3> QED
      BY <1>1, <1>7, <2>1, <2>2, <3>1, <3>2, <3>3 DEF NothingAhead
  <2>4. CASE send' = [send EXCEPT ![c] = NoSend] /\ UNCHANGED accepted
    BY <1>8, <1>10, <2>1, <2>2, <2>4
  <2> QED
    BY <1>21, <2>3, <2>4 DEF Compare
<1>22. CASE Record(c)
  <2>1. UNCHANGED <<session, accepted>> /\ Len(session') \in Nat /\ Len(session') >= Len(session)
    BY <1>1, <1>22 DEF Record
  <2>2. CASE send' = [send EXCEPT ![c] = NoSend]
    BY <1>8, <1>10, <2>1, <2>2
  <2>3. CASE /\ Having("active") # {}
             /\ send' = [send EXCEPT ![c].pc = IF session[Max(Having("active"))].on = today THEN "count" ELSE "recount",
                                     ![c].id = Max(Having("active")), ![c].on = today]
    <3>1. Max(Having("active")) \in Ids /\ Max(Having("active")) \in Nat
      BY <2>3, LastHaving
    <3>2. PICK pc \in {"count", "recount"} : pc = IF session[Max(Having("active"))].on = today THEN "count" ELSE "recount"
      OBVIOUS
    <3>3. PICK x \in SendType : x = send[c]
      BY <1>1
    <3>4. PICK r : r = [x EXCEPT !.pc = pc, !.id = Max(Having("active")), !.on = today]
      OBVIOUS
    <3>5. today \in 0 .. MaxToday
      BY <1>1
    <3>6. r \in SendType /\ r.pc = pc /\ r.id = Max(Having("active")) /\ r.on = today /\ r.n = send[c].n
      BY <3>1, <3>3, <3>4, <3>5 DEF SendType, SendPcs
    <3>7. SaneSend(r, Len(session'), today)
      BY <1>1, <2>1, <3>1, <3>6 DEF SaneSend, DomInv, SendsAreSane
    <3>8. send' = [send EXCEPT ![c] = r]
      BY <1>1, <2>3, <3>2, <3>3, <3>4
    <3>9. send' \in [Sends -> SendType] /\ SendsAreSane'
      BY <1>4, <2>1, <3>6, <3>7, <3>8, SendMoves
    <3> QED
      BY <1>8, <2>1, <3>9
  <2> QED
    BY <1>22, <2>2, <2>3 DEF Record
<1>23. CASE CountSend(c)
  <2>1. /\ send[c].pc = "count" /\ UNCHANGED accepted /\ send' = [send EXCEPT ![c] = NoSend]
        /\ Update(send[c].id, [session[send[c].id] EXCEPT !.sent = @ + send[c].n])
    BY <1>23 DEF CountSend
  <2>2. send[c].id \in Ids
    BY <1>16, <2>1
  <2>3. PICK x \in Rows : x = session[send[c].id]
    BY <1>18, <2>2
  <2>4. PICK m \in Nat : m = x.sent + send[c].n
    BY <1>17, <1>18, <2>2, <2>3
  <2>5. PICK row : row = [x EXCEPT !.sent = m]
    OBVIOUS
  <2>6. row \in Rows /\ row.on = x.on /\ row.started = x.started /\ row.day = x.day
    BY <2>5 DEF Rows
  <2>7. SaneRow(row, today)
    BY <1>18, <2>2, <2>3, <2>6 DEF SaneRow
  <2>8. Update(send[c].id, row)
    BY <2>1, <2>3, <2>4, <2>5
  <2>9. Len(session') = Len(session)
    BY <1>4, <2>2, <2>6, <2>7, <2>8, RowChanges
  <2>10. send' \in [Sends -> SendType] /\ SendsAreSane'
    BY <1>1, <1>10, <2>1, <2>9
  <2> QED
    BY <1>9, <2>1, <2>2, <2>6, <2>7, <2>8, <2>10
<1> QED
  BY <1>12, <1>13, <1>14, <1>15, <1>19, <1>20, <1>21, <1>22, <1>23 DEF Serve

OrderType == [pc : {"idle", "reset", "write"}, id : Nat, kind : Kinds, row : Rows]

\* What the invariant says of the row a call of the user is about.
LEMMA OrderTypes ==
  ASSUME DomInv
  PROVE  /\ order \in OrderType /\ asks \in 0 .. MaxAsks /\ orders \in 0 .. MaxOrders
         /\ OrderIsSane /\ RowsAreSane /\ SendsAreSane /\ NothingAhead
         /\ \A i \in Ids : SaneRow(session[i], today) /\ session[i].on \in 0 .. MaxToday
<1>1. \A i \in Ids : session[i] \in Rows
  BY DomTypes DEF DomInv
<1> QED
  BY <1>1, DomTypes DEF DomInv, DomTypeOK, OrderType, RowsAreSane, Rows

\* A call that changes at most one row and leaves the requests alone.
LEMMA OrderChanges ==
  ASSUME DomInv, UNCHANGED <<today, send, asks, accepted>>, orders' \in 0 .. MaxOrders,
         order' \in OrderType, OrderIsSane', lost' \in BOOLEAN, excused' \in SUBSET Sends,
         session' \in Seq(Rows), RowsAreSane', Len(session') >= Len(session), Len(session') <= MaxSessions
  PROVE  DomInv'
<1>1. send \in [Sends -> SendType] /\ Len(session) \in Nat /\ Len(session') \in Nat
  BY DomTypes DEF DomInv
<1>2. SendsAreSane'
  BY <1>1, OrderTypes DEF SendsAreSane, SaneSend
<1>3. NothingAhead'
  BY <1>1, OrderTypes, DomAssumption DEF NothingAhead
<1> QED
  BY <1>1, <1>2, <1>3, DomInvNext, DomTypes, OrderTypes DEF OrderType, DomInv

LEMMA OrderKeeps ==
  ASSUME DomInv, NEW k \in Kinds, Order(k) PROVE DomInv'
<1>1. /\ today \in 1 .. MaxToday /\ session \in Seq(Rows) /\ Len(session) \in Nat /\ Ids = 1 .. Len(session)
      /\ (\A i \in Ids : session[i] \in Rows) /\ lost \in BOOLEAN /\ excused \in SUBSET Sends
      /\ orders \in 0 .. MaxOrders /\ Len(session) <= MaxSessions /\ RowsAreSane
  BY DomTypes, OrderTypes DEF DomInv, NothingAhead
<1>2. /\ orders' = orders + 1 /\ orders < MaxOrders /\ UNCHANGED <<today, session, send, asks, accepted, lost, excused>>
      /\ (Target(k) = 0) = (k = "start")
  BY DEF Order
<1>3. orders' \in 0 .. MaxOrders
  BY <1>1, <1>2, DomAssumption
<1>4. PICK pc \in {"reset", "write"} :
        /\ pc = IF k = "status" /\ session[Target(k)].on # today THEN "reset" ELSE "write"
        /\ pc = "reset" => k = "status"
  OBVIOUS
<1>5. PICK i \in 0 .. Len(session) : i = Target(k) /\ i \in Nat
  BY <1>1, TargetIsThere
<1>6. PICK row \in Rows : row = IF k \in {"status", "signals"} THEN session[i] ELSE NoRow
  BY <1>1, <1>2, <1>5, NoRowType
<1>7. order' = [pc |-> pc, kind |-> k, id |-> i, row |-> row]
  BY <1>4, <1>5, <1>6 DEF Order
<1>8. order' \in OrderType /\ order'.pc = pc /\ order'.kind = k /\ order'.id = i
  BY <1>4, <1>5, <1>7 DEF OrderType
<1>9. OrderIsSane'
  BY <1>1, <1>2, <1>4, <1>5, <1>8 DEF OrderIsSane
<1>10. RowsAreSane'
  BY <1>1, <1>2 DEF RowsAreSane
<1> QED
  BY <1>1, <1>2, <1>3, <1>8, <1>9, <1>10, OrderChanges

LEMMA OrderResetKeeps ==
  ASSUME DomInv, OrderReset PROVE DomInv'
<1>1. /\ today \in 1 .. MaxToday /\ session \in Seq(Rows) /\ Len(session) \in Nat /\ Ids = 1 .. Len(session)
      /\ (\A i \in Ids : session[i] \in Rows) /\ lost \in BOOLEAN /\ excused \in SUBSET Sends
      /\ orders \in 0 .. MaxOrders /\ Len(session) <= MaxSessions
      /\ order \in OrderType /\ OrderIsSane
  BY DomTypes, OrderTypes DEF DomInv, NothingAhead
<1>2. /\ order.pc = "reset" /\ UNCHANGED <<today, send, asks, orders, accepted, excused>>
      /\ Update(order.id, [session[order.id] EXCEPT !.sent = 0, !.on = today])
      /\ lost' \in BOOLEAN
  BY <1>1 DEF OrderReset, Reset
<1>3. order.id \in Ids
  BY <1>1, <1>2 DEF OrderIsSane
<1>4. PICK x \in Rows : x = session[order.id]
  BY <1>1, <1>3
<1>5. PICK row : row = [x EXCEPT !.sent = 0, !.on = today]
  OBVIOUS
<1>12. today \in 0 .. MaxToday
  BY <1>1
<1>6. row \in Rows /\ row.on = today /\ row.started = x.started /\ row.day = x.day
  BY <1>5, <1>12 DEF Rows
<1>7. SaneRow(row, today)
  BY <1>1, <1>3, <1>4, <1>6, OrderTypes DEF SaneRow
<1>8. session' \in Seq(Rows) /\ Len(session') = Len(session) /\ RowsAreSane'
  BY <1>2, <1>3, <1>4, <1>5, <1>6, <1>7, RowChanges
<1>9. order' = [order EXCEPT !.pc = "write"]
  BY DEF OrderReset
<1>10. order' \in OrderType /\ order'.pc = "write" /\ order'.id = order.id
  BY <1>1, <1>9 DEF OrderType
<1>11. OrderIsSane'
  BY <1>1, <1>3, <1>8, <1>10 DEF OrderIsSane
<1> QED
  BY <1>1, <1>2, <1>8, <1>10, <1>11, OrderChanges

\* What a call of the user writes: one row at most, and nothing of its count.
WritesOneRow ==
  \/ UNCHANGED session
  \/ InsertSession
  \/ \E row \in Rows :
       /\ Update(order.id, row) /\ SaneRow(row, today)
       /\ row.started = session[order.id].started /\ row.on = session[order.id].on /\ row.sent = session[order.id].sent

LEMMA OneRowIsWritten ==
  ASSUME DomInv, OrderWrite PROVE WritesOneRow /\ (order.kind # "start" => order.id \in Ids)
<1> DEFINE i == order.id
<1>1. /\ today \in 1 .. MaxToday /\ session \in Seq(Rows) /\ Len(session) \in Nat /\ Ids = 1 .. Len(session)
      /\ (\A j \in Ids : session[j] \in Rows /\ SaneRow(session[j], today))
      /\ order \in OrderType /\ OrderIsSane
  BY DomTypes, OrderTypes DEF DomInv
<1>2. CASE order.kind = "start"
  BY <1>2 DEF OrderWrite, WritesOneRow
<1>3. CASE order.kind # "start"
  <2>1. i \in Ids
    BY <1>1, <1>3 DEF OrderWrite, OrderIsSane
  <2>2. PICK x \in Rows : x = session[i] /\ SaneRow(x, today)
    BY <1>1, <2>1
  <2>3. ASSUME NEW row \in Rows, Update(i, row), row.started = x.started, row.on = x.on, row.sent = x.sent, row.day = x.day
        PROVE  WritesOneRow
    BY <2>2, <2>3 DEF WritesOneRow, SaneRow
  <2>4. ASSUME NEW st \in {"active", "paused", "cancelled"}, Become(i, st) PROVE WritesOneRow
    <3>1. CASE UNCHANGED session
      BY <3>1 DEF WritesOneRow
    <3>2. CASE Update(i, [x EXCEPT !.status = st])
      <4>1. PICK row : row = [x EXCEPT !.status = st]
        OBVIOUS
      <4>2. row \in Rows /\ row.started = x.started /\ row.on = x.on /\ row.sent = x.sent /\ row.day = x.day
        BY <4>1 DEF Rows
      <4> QED
        BY <2>3, <3>2, <4>1, <4>2
    <3> QED
      BY <2>2, <2>4, <3>1, <3>2 DEF Become
  <2>5. ASSUME NEW e \in ElapsedDays(session[i].started), CatchUp(i, order.row, e) PROVE WritesOneRow
    <3>1. e \in 1 .. MaxToday /\ e \in 1 .. (today - x.started + 1)
      BY <2>1, <2>2, <2>5, ElapsedIsDay
    <3>2. CASE UNCHANGED session
      BY <3>2 DEF WritesOneRow
    <3>3. ASSUME NEW row \in Rows, Update(i, row), row.started = x.started, row.on = x.on, row.sent = x.sent, row.day = e
          PROVE  WritesOneRow
      BY <2>2, <3>1, <3>3 DEF WritesOneRow, SaneRow
    <3>4. CASE Update(i, [x EXCEPT !.day = e])
      <4>1. PICK row : row = [x EXCEPT !.day = e]
        OBVIOUS
      <4>2. row \in Rows /\ row.started = x.started /\ row.on = x.on /\ row.sent = x.sent /\ row.day = e
        BY <3>1, <4>1 DEF Rows
      <4> QED
        BY <3>3, <3>4, <4>1, <4>2
    <3>5. CASE Update(i, [x EXCEPT !.status = "completed", !.day = e])
      <4>1. PICK row : row = [x EXCEPT !.status = "completed", !.day = e]
        OBVIOUS
      <4>2. row \in Rows /\ row.started = x.started /\ row.on = x.on /\ row.sent = x.sent /\ row.day = e
        BY <3>1, <4>1 DEF Rows
      <4> QED
        BY <3>3, <3>5, <4>1, <4>2
    <3> QED
      BY <2>2, <2>5, <3>2, <3>4, <3>5 DEF CatchUp
  <2>6. ASSUME Adjust(i, order.row) PROVE WritesOneRow
    <3>1. PICK bouncy \in BOOLEAN, st \in {session[i].status, "paused"}, last \in {order.row.last, order.row.last + 2, order.row.last - 1} :
            /\ last < order.row.last => ~bouncy /\ order.row.last > 2
            /\ Update(i, [session[i] EXCEPT !.bouncy = bouncy, !.status = st, !.last = last])
      BY ZenonT(40), <2>6 DEF Adjust
    <3>2. order.row.last \in Nat
      BY <1>1 DEF OrderType, Rows
    <3>3. last \in Nat
      BY <3>1, <3>2
    <3>4. st \in {"active", "paused", "completed", "cancelled"}
      BY <2>2, <3>1 DEF Rows
    <3>5. PICK row : row = [x EXCEPT !.bouncy = bouncy, !.status = st, !.last = last]
      OBVIOUS
    <3>6. row \in Rows /\ row.started = x.started /\ row.on = x.on /\ row.sent = x.sent /\ row.day = x.day
      BY <3>3, <3>4, <3>5 DEF Rows
    <3> QED
      BY <2>2, <2>3, <3>1, <3>5, <3>6
  <2> QED
    BY <1>3, <2>1, <2>4, <2>5, <2>6 DEF OrderWrite
<1> QED
  BY <1>2, <1>3

LEMMA OrderWriteLengthens ==
  ASSUME DomInv, OrderWrite
  PROVE  /\ session' \in Seq(Rows) /\ RowsAreSane' /\ Len(session') \in Nat /\ Ids' = 1 .. Len(session')
         /\ Len(session') >= Len(session) /\ Len(session') <= MaxSessions
<1>1. /\ session \in Seq(Rows) /\ Len(session) \in Nat /\ Len(session) <= MaxSessions /\ RowsAreSane
  BY DomTypes, OrderTypes DEF DomInv, NothingAhead
<1>2. UNCHANGED today
  BY DEF OrderWrite
<1>3. session' \in Seq(Rows) /\ RowsAreSane' /\ Len(session') >= Len(session) /\ Len(session') <= MaxSessions
  <2>1. CASE UNCHANGED session
    BY <1>1, <1>2, <2>1 DEF RowsAreSane
  <2>2. CASE InsertSession
    BY <1>2, <2>2, RowIsAdded
  <2>3. ASSUME NEW row \in Rows, Update(order.id, row), SaneRow(row, today), order.id \in Ids
        PROVE  session' \in Seq(Rows) /\ RowsAreSane' /\ Len(session') >= Len(session) /\ Len(session') <= MaxSessions
    BY <1>1, <1>2, <2>3, RowChanges
  <2>4. CASE order.kind = "start"
    BY <2>2, <2>4 DEF OrderWrite
  <2> QED
    BY <2>1, <2>2, <2>3, <2>4, OneRowIsWritten DEF WritesOneRow
<1> QED
  BY <1>3 DEF Ids

LEMMA OrderWriteKeeps ==
  ASSUME DomInv, OrderWrite PROVE DomInv'
<1>1. /\ today \in 1 .. MaxToday /\ session \in Seq(Rows) /\ Len(session) \in Nat /\ Ids = 1 .. Len(session)
      /\ lost \in BOOLEAN /\ excused \in SUBSET Sends /\ orders \in 0 .. MaxOrders /\ Len(session) <= MaxSessions /\ RowsAreSane
  BY DomTypes, OrderTypes DEF DomInv, NothingAhead
<1>2. UNCHANGED <<today, send, asks, orders, accepted, lost>> /\ order' = NoOrder
  BY DEF OrderWrite
<1>3. excused' \in SUBSET Sends
  BY <1>1 DEF OrderWrite
<1>4. NoOrder \in OrderType /\ OrderIsSane'
  <2>1. NoRow \in Rows
    BY <1>1, NoRowType
  <2> QED
    BY <1>2, <2>1 DEF NoOrder, OrderType, Kinds, OrderIsSane
<1>5. session' \in Seq(Rows) /\ RowsAreSane' /\ Len(session') >= Len(session) /\ Len(session') <= MaxSessions
  BY OrderWriteLengthens
<1> QED
  BY <1>1, <1>2, <1>3, <1>4, <1>5, OrderChanges

LEMMA OrderFailsKeeps ==
  ASSUME DomInv, OrderFails PROVE DomInv'
<1>1. /\ today \in 1 .. MaxToday /\ session \in Seq(Rows) /\ Len(session) \in Nat
      /\ lost \in BOOLEAN /\ excused \in SUBSET Sends /\ Len(session) <= MaxSessions /\ RowsAreSane
  BY DomTypes, OrderTypes DEF DomInv, NothingAhead
<1>2. UNCHANGED <<today, session, send, asks, orders, accepted, lost, excused>> /\ order' = NoOrder
  BY DEF OrderFails
<1>3. NoOrder \in OrderType /\ OrderIsSane'
  <2>1. NoRow \in Rows
    BY <1>1, NoRowType
  <2> QED
    BY <1>2, <2>1 DEF NoOrder, OrderType, Kinds, OrderIsSane
<1>4. RowsAreSane'
  BY <1>1, <1>2 DEF RowsAreSane
<1> QED
  BY <1>1, <1>2, <1>3, <1>4, OrderTypes, OrderChanges

LEMMA MidnightKeeps ==
  ASSUME DomInv, Midnight PROVE DomInv'
<1>1. /\ today \in 1 .. MaxToday /\ session \in Seq(Rows) /\ Len(session) \in Nat /\ Ids = 1 .. Len(session)
      /\ (\A i \in Ids : session[i] \in Rows) /\ send \in [Sends -> SendType]
      /\ lost \in BOOLEAN /\ excused \in SUBSET Sends /\ Len(session) <= MaxSessions
  BY DomTypes DEF DomInv, NothingAhead
<1>2. /\ today' = today + 1 /\ today < MaxToday /\ UNCHANGED <<session, send, order, asks, orders, lost, excused>>
      /\ accepted' = [i \in 1 .. MaxSessions |-> 0]
  BY DEF Midnight
<1>3. today' \in 1 .. MaxToday
  BY <1>1, <1>2, DomAssumption
<1>4. RowsAreSane'
  <2>1. ASSUME NEW i \in Ids PROVE SaneRow(session[i], today')
    <3>1. session[i].started \in 1 .. today /\ session[i].on <= today /\ session[i].day \in 1 .. (today - session[i].started + 1)
      BY OrderTypes DEF SaneRow
    <3>2. session[i].on \in Int
      BY OrderTypes
    <3> QED
      BY SMTT(30), <1>1, <1>2, <3>1, <3>2 DEF SaneRow
  <2> QED
    BY <1>1, <1>2, <2>1 DEF RowsAreSane
<1>5. SendsAreSane'
  <2>1. \A c \in Sends : send[c].on \in 0 .. MaxToday
    BY <1>1 DEF SendType
  <2> QED
    BY <1>1, <1>2, <2>1, OrderTypes DEF SendsAreSane, SaneSend
<1>6. NothingAhead' /\ accepted' \in [1 .. MaxSessions -> Nat]
  BY <1>1, <1>2, DomAssumption DEF NothingAhead
<1>7. OrderIsSane'
  BY <1>2, OrderTypes DEF OrderIsSane
<1> QED
  BY <1>1, <1>2, <1>3, <1>4, <1>5, <1>6, <1>7, DomInvNext, OrderTypes DEF OrderType

LEMMA DomStep == DomInv /\ [DomNext]_domVars => DomInv'
<1> SUFFICES ASSUME DomInv, [DomNext]_domVars PROVE DomInv'
  OBVIOUS
<1>1. CASE UNCHANGED domVars
  BY <1>1 DEF domVars, DomInv, DomTypeOK, SendsAreSane, RowsAreSane, OrderIsSane, NothingAhead
<1>2. CASE DomNext
  BY <1>2, ServeKeeps, OrderKeeps, OrderResetKeeps, OrderWriteKeeps, OrderFailsKeeps, MidnightKeeps DEF DomNext
<1> QED
  BY <1>1, <1>2

LEMMA DomInvHolds == DomSpec => []DomInv
BY DomInitInv, DomStep, PTL DEF DomSpec

\* Every variable keeps its shape: orchestrator.ts, all calls, at any interleaving of their statements.
THEOREM DomTypeCorrect == DomSpec => []DomTypeOK
<1>1. DomInv => DomTypeOK
  BY DEF DomInv
<1> QED
  BY <1>1, DomInvHolds, PTL

-----------------------------------------------------------------------------
(* nobody is refused for want of a session *)

\* Whoever looks again after an insert, its own or the winner's, has a session to find,
\* unless it is excused.
Finds(c) ==
  c \notin excused =>
    /\ send[c].pc = "again" => Unclosed # {}
    /\ send[c].pc = "again2" => Having("paused") # {}
    /\ send[c].pc # "wrong"
Findable == \A c \in Sends : Finds(c)

\* What a request writes keeps the status of every row; a row it adds is active.
LEMMA StatusIsKept ==
  ASSUME DomInv, NEW c \in Sends, Serve(c)
  PROVE  /\ \A i \in Ids : i \in Ids' /\ session'[i].status = session[i].status
         /\ \A i \in Ids' : i \notin Ids => session'[i].status = "active"
<1>1. /\ session \in Seq(Rows) /\ Len(session) \in Nat /\ Ids = 1 .. Len(session)
      /\ \A i \in Ids : session[i] \in Rows
  BY DomTypes DEF DomInv
<1>2. CASE UNCHANGED session
  BY <1>2 DEF Ids
<1>3. CASE Create(c) /\ ~UNCHANGED session
  <2>1. InsertSession /\ UNCHANGED today
    BY <1>3 DEF Create
  <2>2. /\ session' \in Seq(Rows) /\ Len(session') >= Len(session) /\ \A j \in Ids : session'[j] = session[j]
        /\ \/ UNCHANGED session
           \/ Len(session') = Len(session) + 1 /\ session'[Len(session) + 1] = NewSession
    BY <2>1, RowIsAdded
  <2>3. Ids' = 1 .. Len(session')
    BY <2>2 DEF Ids
  <2>4. NewSession.status = "active"
    BY DEF NewSession
  <2> QED
    BY <1>1, <2>2, <2>3, <2>4
<1>4. ASSUME NEW i \in Ids, NEW row, session' = [session EXCEPT ![i] = row], row.status = session[i].status
      PROVE  /\ \A j \in Ids : j \in Ids' /\ session'[j].status = session[j].status
             /\ \A j \in Ids' : j \notin Ids => session'[j].status = "active"
  <2>1. Ids' = Ids
    BY <1>1, <1>4 DEF Ids
  <2> QED
    BY <1>1, <1>4, <2>1 DEF Ids
<1>5. CASE ResetFirst(c) \/ ResetBefore(c) \/ Advance(c) \/ CountSend(c)
  <2> DEFINE i == send[c].id
  <2>1. i \in Ids
    BY <1>1, <1>5, OrderTypes DEF SendsAreSane, SaneSend, HasRow, ResetFirst, ResetBefore, Advance, CountSend
  <2>2. CASE ResetFirst(c) \/ ResetBefore(c)
    <3>1. session' = [session EXCEPT ![i] = [session[i] EXCEPT !.sent = 0, !.on = send[c].on]]
      BY <2>2 DEF ResetFirst, ResetBefore, Reset, Update
    <3>2. [session[i] EXCEPT !.sent = 0, !.on = send[c].on].status = session[i].status
      BY <1>1, <2>1 DEF Rows
    <3> QED
      BY <1>4, <2>1, <3>1, <3>2
  <2>3. CASE Advance(c)
    <3>1. CASE UNCHANGED session
      BY <1>2, <3>1
    <3>2. CASE ~UNCHANGED session
      <4>1. PICK e : session' = [session EXCEPT ![i] = [session[i] EXCEPT !.day = e]]
        BY <2>3, <3>2 DEF Advance, Update
      <4>2. [session[i] EXCEPT !.day = e].status = session[i].status
        BY <1>1, <2>1 DEF Rows
      <4> QED
        BY <1>4, <2>1, <4>1, <4>2
    <3> QED
      BY <3>1, <3>2
  <2>4. CASE CountSend(c)
    <3>1. session' = [session EXCEPT ![i] = [session[i] EXCEPT !.sent = @ + send[c].n]]
      BY <2>4 DEF CountSend, Update
    <3>2. [session[i] EXCEPT !.sent = @ + send[c].n].status = session[i].status
      BY <1>1, <2>1 DEF Rows
    <3> QED
      BY <1>4, <2>1, <3>1, <3>2
  <2> QED
    BY <1>5, <2>2, <2>3, <2>4
<1> QED
  BY <1>2, <1>3, <1>5 DEF Serve, Ask, LookActive, LookPaused, RefuseWrong, Compare, Record, Abandon

LEMMA FindableInit == DomInit => Findable
BY DEF DomInit, Findable, Finds, NoSend

\* A request that looks again finds a session, and one that inserts leaves one.
LEMMA FindableServe ==
  ASSUME DomInv, Findable, NEW c \in Sends, Serve(c) PROVE Findable'
<1>1. /\ session \in Seq(Rows) /\ Len(session) \in Nat /\ Ids = 1 .. Len(session) /\ send \in [Sends -> SendType]
  BY DomTypes DEF DomInv
<1>2. Having("active") \subseteq Having("active")' /\ Having("paused") \subseteq Having("paused")'
  BY StatusIsKept DEF Having
<1>3. \A b \in Sends : b # c => send'[b] = send[b]
  BY <1>1 DEF Serve, Ask, LookActive, LookPaused, Create, RefuseWrong, ResetFirst, Advance, Compare, Record, ResetBefore,
              CountSend, Abandon, SendAt, Judge
<1>4. \A b \in Sends : b # c => (b \in excused' <=> b \in excused)
  BY DEF Serve, Ask, LookActive, LookPaused, Create, RefuseWrong, ResetFirst, Advance, Compare, Record, ResetBefore,
         CountSend, Abandon
<1>5. ASSUME Finds(c)' PROVE Findable'
  <2>1. ASSUME NEW b \in Sends, b # c PROVE Finds(b)'
    <3>1. Unclosed \subseteq Unclosed'
      BY <1>2 DEF Unclosed
    <3>2. Finds(b)
      BY DEF Findable
    <3>3. send'[b] = send[b] /\ (b \in excused' <=> b \in excused)
      BY <1>3, <1>4, <2>1
    <3> QED
      BY <1>2, <3>1, <3>2, <3>3 DEF Finds
  <2> QED
    BY <1>5, <2>1 DEF Findable
<1>6. ASSUME send'[c].pc \notin {"again", "again2", "wrong"} PROVE Findable'
  BY <1>5, <1>6 DEF Finds
<1>7. ASSUME NEW pc, send' = [send EXCEPT ![c].pc = pc] PROVE send'[c].pc = pc
  BY <1>1, <1>7 DEF SendType
<1>8. ASSUME send' = [send EXCEPT ![c] = NoSend] PROVE send'[c].pc = "idle"
  BY <1>1, <1>8 DEF NoSend
<1>9. CASE Ask(c)
  <2>1. PICK n \in 1 .. MaxBatch : send' = [send EXCEPT ![c] = [NoSend EXCEPT !.pc = "look", !.n = n]]
    BY <1>9 DEF Ask
  <2>2. send'[c].pc = "look"
    BY <1>1, <2>1 DEF NoSend
  <2> QED
    BY <1>6, <2>2
<1>10. CASE LookActive(c)
  <2>1. UNCHANGED <<today, session>>
    BY <1>10 DEF LookActive
  <2>2. CASE Having("active") # {}
    <3>1. Judge(c, Max(Having("active")))
      BY <1>10, <2>2 DEF LookActive
    <3>2. send'[c].pc \in {"reset", "advance"}
      BY <2>1, <2>2, <3>1, LastHaving, JudgeKeeps
    <3> QED
      BY <1>6, <3>2
  <2>3. CASE Having("active") = {}
    <3>1. /\ send[c].pc \in {"look", "again"} /\ excused' = excused
          /\ SendAt(c, IF send[c].pc = "look" THEN "look2" ELSE "again2")
      BY <1>10, <2>3 DEF LookActive
    <3>2. send'[c].pc = IF send[c].pc = "look" THEN "look2" ELSE "again2"
      BY <1>7, <3>1 DEF SendAt
    <3>3. send[c].pc = "again" /\ c \notin excused => Having("paused") # {}
      BY <2>3 DEF Findable, Finds, Unclosed
    <3>4. c \notin excused' /\ send'[c].pc = "again2" => Having("paused")' # {}
      BY <1>2, <3>1, <3>2, <3>3
    <3> QED
      BY <1>5, <3>1, <3>2, <3>4 DEF Finds
  <2> QED
    BY <2>2, <2>3
<1>11. CASE LookPaused(c)
  <2>1. CASE Having("paused") # {}
    BY <1>6, <1>8, <1>11, <2>1 DEF LookPaused
  <2>2. CASE Having("paused") = {}
    <3>1. /\ send[c].pc \in {"look2", "again2"} /\ excused' = excused
          /\ SendAt(c, IF send[c].pc = "look2" THEN "create" ELSE "wrong")
      BY <1>11, <2>2 DEF LookPaused
    <3>2. send'[c].pc = IF send[c].pc = "look2" THEN "create" ELSE "wrong"
      BY <1>7, <3>1 DEF SendAt
    <3>3. send[c].pc = "again2" => c \in excused
      BY <2>2 DEF Findable, Finds
    <3> QED
      BY <1>5, <3>1, <3>2, <3>3 DEF Finds
  <2> QED
    BY <2>1, <2>2
<1>12. CASE Create(c)
  <2>1. send'[c].pc = "again"
    BY <1>7, <1>12 DEF Create, SendAt
  <2>2. CASE c \in excused'
    BY <1>5, <2>2 DEF Finds
  <2>3. CASE c \notin excused'
    <3>1. InsertSession /\ UNCHANGED today
      BY <1>12, <2>3 DEF Create
    <3>2. Having("active")' # {}
      <4>1. CASE Having("active") # {}
        BY <1>2, <4>1
      <4>2. CASE Having("active") = {}
        <5>1. session' = Append(session, NewSession)
          BY <3>1, <4>2 DEF InsertSession
        <5>2. NewSession \in Rows /\ NewSession.status = "active"
          BY DomTypes, NewRow DEF DomInv, NewSession
        <5>3. Len(session') = Len(session) + 1 /\ session'[Len(session) + 1] = NewSession /\ session' \in Seq(Rows)
          BY <1>1, <5>1, <5>2
        <5>4. Len(session) + 1 \in Ids'
          BY <1>1, <5>3 DEF Ids
        <5>5. Len(session) + 1 \in Having("active")'
          BY <5>2, <5>3, <5>4 DEF Having
        <5> QED
          BY <5>5
      <4> QED
        BY <4>1, <4>2
    <3>3. Unclosed' # {}
      BY <3>2 DEF Unclosed
    <3> QED
      BY <1>5, <2>1, <3>3 DEF Finds
  <2> QED
    BY <2>2, <2>3
<1>13. CASE RefuseWrong(c) \/ CountSend(c) \/ Abandon(c)
  BY <1>6, <1>8, <1>13 DEF RefuseWrong, CountSend, Abandon
<1>14. CASE ResetFirst(c) \/ ResetBefore(c)
  BY <1>6, <1>7, <1>14 DEF ResetFirst, ResetBefore, SendAt
<1>15. CASE Advance(c)
  <2>1. send' = [send EXCEPT ![c] = Compared(c)]
    BY <1>15 DEF Advance, Compared
  <2>2. send'[c].pc = "compare"
    BY <1>1, <2>1 DEF Compared, SendType
  <2> QED
    BY <1>6, <2>2
<1>16. CASE Compare(c)
  BY <1>6, <1>7, <1>8, <1>16 DEF Compare, SendAt
<1>17. CASE Record(c)
  <2>1. CASE send' = [send EXCEPT ![c] = NoSend]
    BY <1>6, <1>8, <2>1
  <2>2. CASE send' = [send EXCEPT ![c].pc = IF session[Max(Having("active"))].on = today THEN "count" ELSE "recount",
                                  ![c].id = Max(Having("active")), ![c].on = today]
    <3>1. send'[c].pc \in {"count", "recount"}
      BY <1>1, <2>2 DEF SendType
    <3> QED
      BY <1>6, <3>1
  <2> QED
    BY <1>17, <2>1, <2>2 DEF Record
<1> QED
  BY <1>9, <1>10, <1>11, <1>12, <1>13, <1>14, <1>15, <1>16, <1>17 DEF Serve

LEMMA FindableStep == DomInv /\ Findable /\ [DomNext]_domVars => Findable'
<1> SUFFICES ASSUME DomInv, Findable, [DomNext]_domVars PROVE Findable'
  OBVIOUS
<1>1. CASE OrderWrite
  <2>1. UNCHANGED send /\ excused' = excused \cup {c \in Sends : Emptied(c)}
    BY <1>1 DEF OrderWrite
  <2>2. ASSUME NEW c \in Sends PROVE Finds(c)'
    <3>1. Finds(c)
      BY DEF Findable
    <3>2. c \notin excused' => c \notin excused /\ ~Emptied(c)
      BY <2>1
    <3> QED
      BY <2>1, <3>1, <3>2 DEF Finds, Emptied
  <2> QED
    BY <2>2 DEF Findable
<1>2. ASSUME UNCHANGED <<send, excused>>, Having("active")' = Having("active"), Having("paused")' = Having("paused")
      PROVE  Findable'
  BY <1>2 DEF Findable, Finds, Unclosed
<1>3. CASE OrderReset
  <2>1. session \in Seq(Rows) /\ Ids = 1 .. Len(session) /\ order.id \in Ids /\ \A i \in Ids : session[i] \in Rows
    BY <1>3, DomTypes, OrderTypes DEF DomInv, OrderReset, OrderIsSane
  <2>2. session' = [session EXCEPT ![order.id] = [session[order.id] EXCEPT !.sent = 0, !.on = today]]
    BY <1>3 DEF OrderReset, Reset, Update
  <2>3. [session[order.id] EXCEPT !.sent = 0, !.on = today].status = session[order.id].status
    BY <2>1 DEF Rows
  <2>4. Ids' = Ids /\ \A i \in Ids : session'[i].status = session[i].status
    BY <2>1, <2>2, <2>3 DEF Ids
  <2>5. \A st \in {"active", "paused"} : Having(st)' = Having(st)
    BY <2>4 DEF Having
  <2>6. UNCHANGED <<send, excused>>
    BY <1>3 DEF OrderReset
  <2> QED
    BY <1>2, <2>5, <2>6
<1>4. CASE UNCHANGED <<send, session, excused>>
  BY <1>4 DEF Findable, Finds, Unclosed, Having, Ids
<1> QED
  BY <1>1, <1>3, <1>4, FindableServe DEF DomNext, domVars, Order, OrderFails, Midnight

\* ensureWarmupAndCheck gives up for want of a session only if its insert failed for another
\* reason than a race, or a call closed or resumed a session while it looked again.
THEOREM SessionsAreFound == DomSpec => []SessionIsEstablished
<1>1. Findable => SessionIsEstablished
  BY DEF Findable, Finds, SessionIsEstablished
<1> QED
  BY <1>1, DomInvHolds, FindableInit, FindableStep, PTL DEF DomSpec

-----------------------------------------------------------------------------
(* a day exceeds its limit by what is in flight, and no more *)

\* One pair per recipient that a request in flight has let through and not counted.
Passed   == {"record", "recount", "count"}
Debts(i) == {p \in Sends \X (1 .. MaxBatch) :
               send[p[1]].pc \in Passed /\ send[p[1]].id = i /\ p[2] <= send[p[1]].n}

CountedToday(i) == IF session[i].on = today THEN session[i].sent ELSE 0
MayBeOut   == Cardinality(Sends) * MaxBatch
Ceiling(i) == Limit[AutoStep(Elapsed(session[i].started))] - 1 + MayBeOut

\* What was let through is counted or in flight, and it passed while the count was below the limit.
Explained(i) == accepted[i] <= CountedToday(i) + Cardinality(Debts(i)) /\ accepted[i] <= Ceiling(i)
AllExplained == ~lost => \A i \in Ids : Explained(i)

LEMMA DebtsAreFew ==
  ASSUME NEW i
  PROVE  /\ IsFiniteSet(Debts(i)) /\ Cardinality(Debts(i)) \in Nat
         /\ MayBeOut \in Nat /\ Cardinality(Debts(i)) <= MayBeOut
<1>1. IsFiniteSet(Sends) /\ IsFiniteSet(1 .. MaxBatch) /\ Cardinality(1 .. MaxBatch) = MaxBatch
  BY FS_Interval, DomAssumption
<1>2. IsFiniteSet(Sends \X (1 .. MaxBatch)) /\ Cardinality(Sends \X (1 .. MaxBatch)) = MayBeOut
  BY <1>1, FS_Product DEF MayBeOut
<1>3. Debts(i) \subseteq Sends \X (1 .. MaxBatch)
  BY DEF Debts
<1> QED
  BY <1>2, <1>3, FS_Subset, FS_CardinalityType

LEMMA CountedIsNat ==
  ASSUME DomInv, NEW i \in Ids
  PROVE  /\ CountedToday(i) \in Nat /\ accepted[i] \in Nat /\ session[i].sent \in Nat
         /\ Elapsed(session[i].started) \in Nat \ {0} /\ session[i].day \in Nat \ {0}
         /\ session[i].day <= Elapsed(session[i].started)
<1>1. session[i] \in Rows /\ SaneRow(session[i], today) /\ today \in Nat
  BY DomTypes, OrderTypes DEF DomInv
<1>2. session[i].sent \in Nat
  BY <1>1 DEF Rows
<1>3. i \in 1 .. MaxSessions /\ accepted \in [1 .. MaxSessions -> Nat]
  BY SMTT(30), DomTypes, OrderTypes, DomAssumption DEF DomInv, NothingAhead
<1> QED
  BY SMTT(30), <1>1, <1>2, <1>3 DEF CountedToday, SaneRow, Elapsed

\* At the limit of the day or below there is room for all that is in flight.
LEMMA CeilingIsHigh ==
  ASSUME DomInv, NEW i \in Ids
  PROVE  /\ Ceiling(i) \in Nat /\ MayBeOut <= Ceiling(i)
         /\ Limit[AutoStep(session[i].day)] \in Nat \ {0}
         /\ Limit[AutoStep(session[i].day)] - 1 + MayBeOut <= Ceiling(i)
<1>1. PICK d \in Nat \ {0} : d = session[i].day
  BY CountedIsNat
<1>2. PICK e \in Nat \ {0} : e = Elapsed(session[i].started) /\ d <= e
  BY <1>1, CountedIsNat
<1>3. /\ Limit[AutoStep(d)] \in Nat \ {0} /\ Limit[AutoStep(e)] \in Nat \ {0}
      /\ Limit[AutoStep(d)] <= Limit[AutoStep(e)]
  BY <1>2, StepsGrow
<1>4. MayBeOut \in Nat
  BY DebtsAreFew
<1> QED
  BY <1>1, <1>2, <1>3, <1>4 DEF Ceiling

\* A request that was not in flight for a session, or still is with as many, changes no debt.
LEMMA DebtsAreKept ==
  ASSUME NEW c \in Sends, \A b \in Sends : b # c => send'[b] = send[b],
         \/ send[c].pc \notin Passed /\ send'[c].pc \notin Passed
         \/ /\ send[c].pc \in Passed /\ send'[c].pc \in Passed
            /\ send'[c].id = send[c].id /\ send'[c].n = send[c].n,
         NEW i
  PROVE  Debts(i)' = Debts(i)
<1>1. ASSUME NEW b \in Sends
      PROVE  /\ send'[b].pc \in Passed <=> send[b].pc \in Passed
             /\ send[b].pc \in Passed => send'[b].id = send[b].id /\ send'[b].n = send[b].n
  OBVIOUS
<1> QED
  BY <1>1 DEF Debts

\* The debt of one request is as large as the request.
LEMMA OneDebt ==
  ASSUME NEW c \in Sends, NEW n \in 0 .. MaxBatch, NEW S, NEW T, IsFiniteSet(S),
         T = S \cup ({c} \X (1 .. n)), \A p \in S : p[1] # c
  PROVE  Cardinality(T) = Cardinality(S) + n /\ Cardinality(S) \in Nat /\ IsFiniteSet(T)
<1>0. n \in Nat
  BY DomAssumption
<1>1. IsFiniteSet(1 .. n) /\ Cardinality(1 .. n) = n
  BY <1>0, FS_Interval
<1>2. IsFiniteSet({c}) /\ Cardinality({c}) = 1
  BY FS_Singleton
<1>3. IsFiniteSet({c} \X (1 .. n)) /\ Cardinality({c} \X (1 .. n)) = n
  <2>1. IsFiniteSet({c} \X (1 .. n)) /\ Cardinality({c} \X (1 .. n)) = 1 * n
    <3>1. PICK A : A = {c}
      OBVIOUS
    <3>2. PICK B : B = 1 .. n
      OBVIOUS
    <3>3. IsFiniteSet(A \X B) /\ Cardinality(A \X B) = Cardinality(A) * Cardinality(B)
      BY <1>1, <1>2, <3>1, <3>2, FS_Product
    <3> QED
      BY <1>1, <1>2, <3>1, <3>2, <3>3
  <2> QED
    BY <1>0, <2>1
<1>4. S \cap ({c} \X (1 .. n)) = {}
  OBVIOUS
<1>5. Cardinality({}) = 0
  BY FS_EmptySet
<1>6. Cardinality(S) \in Nat
  BY FS_CardinalityType
<1>7. IsFiniteSet(T) /\ Cardinality(T) = Cardinality(S) + n - 0
  BY <1>3, <1>4, <1>5, FS_Union
<1> QED
  BY <1>0, <1>6, <1>7

\* What a request adds to the debt of its session when it passes, and takes off when it is counted.
LEMMA DebtOfOne ==
  ASSUME DomInv, NEW c \in Sends, NEW i, \A b \in Sends : b # c => send'[b] = send[b],
         send[c].n \in Nat, send[c].n <= MaxBatch
  PROVE  /\ send[c].pc \notin Passed /\ send'[c].pc \in Passed /\ send'[c].id = i /\ send'[c].n = send[c].n
              => Cardinality(Debts(i)') = Cardinality(Debts(i)) + send[c].n
         /\ send[c].pc \in Passed /\ send[c].id = i /\ send'[c].pc \notin Passed
              => Cardinality(Debts(i)) = Cardinality(Debts(i)') + send[c].n
         /\ IsFiniteSet(Debts(i)')
         /\ send[c].pc \in Passed /\ send[c].id # i /\ send'[c].pc \notin Passed => Debts(i)' = Debts(i)
         /\ send[c].pc \notin Passed /\ send'[c].pc \in Passed /\ send'[c].id # i => Debts(i)' = Debts(i)
<1> DEFINE n == send[c].n
<1>1. PICK m \in 0 .. MaxBatch : m = n
  BY DomAssumption
<1>2. IsFiniteSet(Debts(i)) /\ IsFiniteSet(Debts(i)')
  <2>1. Debts(i)' \subseteq Sends \X (1 .. MaxBatch)
    BY DEF Debts
  <2>2. IsFiniteSet(Sends \X (1 .. MaxBatch))
    <3>1. IsFiniteSet(Sends) /\ IsFiniteSet(1 .. MaxBatch)
      BY FS_Interval, DomAssumption
    <3> QED
      BY <3>1, FS_Product
  <2> QED
    BY <2>1, <2>2, FS_Subset, DebtsAreFew
<1>3. ASSUME send[c].pc \notin Passed, send'[c].pc \in Passed, send'[c].id = i, send'[c].n = n
      PROVE  Cardinality(Debts(i)') = Cardinality(Debts(i)) + n
  <2>1. PICK S : S = Debts(i)
    OBVIOUS
  <2>2. PICK T : T = Debts(i)'
    OBVIOUS
  <2>3. T = S \cup ({c} \X (1 .. m)) /\ \A p \in S : p[1] # c
    BY <1>1, <1>3, <2>1, <2>2, DomAssumption DEF Debts
  <2> QED
    BY <1>1, <1>2, <2>1, <2>2, <2>3, OneDebt
<1>4. ASSUME send[c].pc \in Passed, send[c].id = i, send'[c].pc \notin Passed
      PROVE  Cardinality(Debts(i)) = Cardinality(Debts(i)') + n
  <2>1. PICK S : S = Debts(i)'
    OBVIOUS
  <2>2. PICK T : T = Debts(i)
    OBVIOUS
  <2>3. T = S \cup ({c} \X (1 .. m)) /\ \A p \in S : p[1] # c
    BY <1>1, <1>4, <2>1, <2>2, DomAssumption DEF Debts
  <2> QED
    BY <1>1, <1>2, <2>1, <2>2, <2>3, OneDebt
<1>5. ASSUME send[c].pc \in Passed, send[c].id # i, send'[c].pc \notin Passed PROVE Debts(i)' = Debts(i)
  BY <1>5 DEF Debts
<1>6. ASSUME send[c].pc \notin Passed, send'[c].pc \in Passed, send'[c].id # i PROVE Debts(i)' = Debts(i)
  BY <1>6 DEF Debts
<1> QED
  BY <1>2, <1>3, <1>4, <1>5, <1>6

\* Where nothing was let through there is nothing to explain.
NothingOwed == \A i \in Ids : accepted[i] = 0 => Explained(i)

LEMMA NothingIsExplained == DomInv => NothingOwed
<1> SUFFICES ASSUME DomInv, NEW i \in Ids, accepted[i] = 0 PROVE Explained(i)
  BY DEF NothingOwed
<1>1. CountedToday(i) \in Nat /\ Ceiling(i) \in Nat /\ Cardinality(Debts(i)) \in Nat
  BY CountedIsNat, CeilingIsHigh, DebtsAreFew
<1> QED
  BY <1>1 DEF Explained

\* A row whose start, date and count are those it had: its ceiling and its count stay.
LEMMA CountIsKept ==
  ASSUME UNCHANGED today, NEW j, session'[j].started = session[j].started,
         session'[j].on = session[j].on, session'[j].sent = session[j].sent
  PROVE  CountedToday(j)' = CountedToday(j) /\ Ceiling(j)' = Ceiling(j)
BY DEF CountedToday, Ceiling, Elapsed

\* A reset that wipes nothing of today changes no count of today.
LEMMA ResetKeepsCounts ==
  ASSUME DomInv, NEW i \in Ids, NEW d \in 0 .. MaxToday, d <= today, Reset(i, d), ~lost', UNCHANGED today, NEW j \in Ids
  PROVE  ~lost /\ CountedToday(j)' = CountedToday(j) /\ Ceiling(j)' = Ceiling(j)
<1>1. /\ session \in Seq(Rows) /\ Ids = 1 .. Len(session) /\ session[i] \in Rows /\ today \in Nat
      /\ lost \in BOOLEAN /\ session[i].on \in 0 .. MaxToday /\ session[i].on <= today /\ session[i].sent \in Nat
  BY DomTypes, OrderTypes, CountedIsNat DEF DomInv, SaneRow
<1>2. ~lost /\ ~(session[i].sent > 0 /\ session[i].on >= d)
  BY DEF Reset
<1>3. session' = [session EXCEPT ![i] = [session[i] EXCEPT !.sent = 0, !.on = d]]
  BY DEF Reset, Update
<1>4. CASE j = i
  <2>1. PICK x \in Rows : x = session[i]
    BY <1>1
  <2>2. PICK row : row = [x EXCEPT !.sent = 0, !.on = d]
    OBVIOUS
  <2>3. row.sent = 0 /\ row.on = d /\ row.started = x.started
    BY <2>1, <2>2 DEF Rows
  <2>4. session'[i] = row
    <3>1. session' = [session EXCEPT ![i] = row]
      BY <1>3, <2>1, <2>2
    <3> QED
      BY <1>1, <3>1
  <2>5. CountedToday(i)' = 0
    BY <2>3, <2>4 DEF CountedToday
  <2>6. CountedToday(i) = 0
    <3>1. CASE session[i].on = today
      BY <1>1, <1>2, <3>1 DEF CountedToday
    <3> QED
      BY <3>1 DEF CountedToday
  <2>7. Ceiling(i)' = Ceiling(i)
    BY <2>1, <2>3, <2>4 DEF Ceiling, Elapsed
  <2> QED
    BY <1>2, <1>4, <2>5, <2>6, <2>7
<1>5. CASE j # i
  <2>1. session'[j] = session[j]
    BY <1>1, <1>3, <1>5
  <2> QED
    BY <1>2, <2>1, CountIsKept
<1> QED
  BY <1>4, <1>5

\* A request changes a count of today when it counts, and not otherwise.
LEMMA ServeKeepsCounts ==
  ASSUME DomInv, NEW c \in Sends, Serve(c), ~CountSend(c), ~lost', NEW j \in Ids
  PROVE  ~lost /\ CountedToday(j)' = CountedToday(j) /\ Ceiling(j)' = Ceiling(j)
<1>1. /\ session \in Seq(Rows) /\ Ids = 1 .. Len(session) /\ send \in [Sends -> SendType]
      /\ \A i \in Ids : session[i] \in Rows
  BY SMTT(30), DomTypes DEF DomInv
<1>2. UNCHANGED today
  BY ZenonT(40) DEF Serve, Ask, LookActive, LookPaused, Create, RefuseWrong, ResetFirst, Advance, Compare, Record, ResetBefore, CountSend, Abandon
<1>3. CASE UNCHANGED session
  <2>1. ~lost
    BY ZenonT(40) DEF Serve, Ask, LookActive, LookPaused, Create, RefuseWrong, ResetFirst, Advance, Compare, Record, ResetBefore, CountSend, Abandon, Reset
  <2> QED
    BY SMTT(30), <1>2, <1>3, <2>1, CountIsKept
<1>4. CASE Create(c)
  <2>1. session'[j] = session[j]
    <3>1. CASE InsertSession
      BY <1>2, <3>1, RowIsAdded
    <3> QED
      BY <1>4, <3>1 DEF Create
  <2>2. ~lost
    BY <1>4 DEF Create
  <2> QED
    BY <1>2, <2>1, <2>2, CountIsKept
<1>5. ASSUME send[c].pc \in HasRow
      PROVE  send[c].id \in Ids /\ send[c].on \in 0 .. MaxToday /\ send[c].on <= today
  BY <1>1, <1>5, OrderTypes DEF SendsAreSane, SaneSend, SendType
<1>6. CASE ResetFirst(c) \/ ResetBefore(c)
  <2>1. send[c].pc \in HasRow /\ Reset(send[c].id, send[c].on)
    BY <1>6 DEF ResetFirst, ResetBefore, HasRow
  <2> QED
    BY <1>2, <1>5, <2>1, ResetKeepsCounts
<1>7. CASE Advance(c) /\ ~UNCHANGED session
  <2>1. send[c].id \in Ids /\ ~lost
    BY <1>5, <1>7 DEF Advance, HasRow
  <2>2. PICK e : session' = [session EXCEPT ![send[c].id] = [session[send[c].id] EXCEPT !.day = e]]
    BY <1>7 DEF Advance, Update
  <2>3. PICK x \in Rows : x = session[send[c].id]
    BY <1>1, <2>1
  <2>4. PICK row : row = [x EXCEPT !.day = e]
    OBVIOUS
  <2>5. row.sent = x.sent /\ row.on = x.on /\ row.started = x.started
    BY <2>3, <2>4 DEF Rows
  <2>6. session' = [session EXCEPT ![send[c].id] = row]
    BY <2>2, <2>3, <2>4
  <2>7. session'[j].started = session[j].started /\ session'[j].on = session[j].on /\ session'[j].sent = session[j].sent
    BY <1>1, <2>1, <2>3, <2>5, <2>6
  <2> QED
    BY <1>2, <2>1, <2>7, CountIsKept
<1>8. Ask(c) \/ LookActive(c) \/ LookPaused(c) \/ RefuseWrong(c) \/ Compare(c) \/ Record(c) \/ Abandon(c) => UNCHANGED session
  BY DEF Ask, LookActive, LookPaused, RefuseWrong, Compare, Record, Abandon
<1> QED
  BY <1>3, <1>4, <1>6, <1>7, <1>8 DEF Serve

\* Nor does a call of the user, whatever it writes.
LEMMA OrdersKeepCounts ==
  ASSUME DomInv, OrderReset \/ OrderWrite, ~lost', NEW j \in Ids
  PROVE  ~lost /\ CountedToday(j)' = CountedToday(j) /\ Ceiling(j)' = Ceiling(j)
<1>1. /\ session \in Seq(Rows) /\ Ids = 1 .. Len(session) /\ today \in 1 .. MaxToday /\ today \in Nat
      /\ UNCHANGED today
  BY DomTypes DEF DomInv, OrderReset, OrderWrite
<1>2. CASE OrderReset
  <2>1. order.id \in Ids /\ Reset(order.id, today)
    BY <1>1, <1>2, OrderTypes DEF OrderReset, OrderIsSane
  <2>2. today \in 0 .. MaxToday /\ today <= today
    BY <1>1
  <2> QED
    BY <1>1, <2>1, <2>2, ResetKeepsCounts
<1>3. CASE OrderWrite
  <2>1. ~lost
    BY <1>3 DEF OrderWrite
  <2>2. CASE UNCHANGED session
    BY <1>1, <2>1, <2>2, CountIsKept
  <2>3. CASE InsertSession
    <3>1. session'[j] = session[j]
      BY <1>1, <2>3, RowIsAdded
    <3> QED
      BY <1>1, <2>1, <3>1, CountIsKept
  <2>4. ASSUME NEW row \in Rows, Update(order.id, row), order.id \in Ids,
               row.started = session[order.id].started, row.on = session[order.id].on, row.sent = session[order.id].sent
        PROVE  CountedToday(j)' = CountedToday(j) /\ Ceiling(j)' = Ceiling(j)
    <3>1. session'[j].started = session[j].started /\ session'[j].on = session[j].on /\ session'[j].sent = session[j].sent
      BY <1>1, <2>4 DEF Update
    <3> QED
      BY <1>1, <3>1, CountIsKept
  <2>5. CASE order.kind = "start"
    BY <1>3, <2>3, <2>5 DEF OrderWrite
  <2> QED
    BY <1>3, <2>1, <2>2, <2>3, <2>4, <2>5, OneRowIsWritten DEF WritesOneRow
<1> QED
  BY <1>2, <1>3

LEMMA ExplainedServe ==
  ASSUME DomInv, AllExplained, NEW c \in Sends, Serve(c), ~lost', NEW i \in Ids PROVE Explained(i)'
<1>1. /\ Ids = 1 .. Len(session) /\ Len(session) \in Nat /\ session \in Seq(Rows) /\ today \in Nat
      /\ send \in [Sends -> SendType] /\ accepted \in [1 .. MaxSessions -> Nat]
      /\ send[c].n \in Nat /\ send[c].n <= MaxBatch /\ UNCHANGED today
  BY ZenonT(40), DomTypes, OrderTypes DEF DomInv, SendsAreSane, SaneSend, SendType, Serve, Ask, LookActive, LookPaused, Create, RefuseWrong,
     ResetFirst, Advance, Compare, Record, ResetBefore, CountSend, Abandon
<1>2. ~lost
  BY ZenonT(40) DEF Serve, Ask, LookActive, LookPaused, Create, RefuseWrong, ResetFirst, Advance, Compare, Record, ResetBefore, CountSend, Abandon, Reset
<1>3. Explained(i)
  BY <1>2 DEF AllExplained
<1>4. /\ CountedToday(i) \in Nat /\ accepted[i] \in Nat /\ session[i].sent \in Nat /\ MayBeOut \in Nat
      /\ Cardinality(Debts(i)) \in Nat /\ Ceiling(i) \in Nat /\ Cardinality(Debts(i)) <= MayBeOut
  BY SMTT(30), CountedIsNat, DebtsAreFew, CeilingIsHigh
<1>5. \A b \in Sends : b # c => send'[b] = send[b]
  BY <1>1 DEF Serve, Ask, LookActive, LookPaused, Create, RefuseWrong, ResetFirst, Advance, Compare, Record, ResetBefore,
              CountSend, Abandon, SendAt, Judge
<1>6. ASSUME accepted'[i] = accepted[i], CountedToday(i)' = CountedToday(i), Ceiling(i)' = Ceiling(i), Debts(i)' = Debts(i)
      PROVE  Explained(i)'
  BY <1>3, <1>6 DEF Explained
<1>7. ~CountSend(c) => CountedToday(i)' = CountedToday(i) /\ Ceiling(i)' = Ceiling(i)
  BY ServeKeepsCounts
<1>8. ASSUME ~CountSend(c), accepted'[i] = accepted[i], send[c].pc \notin Passed, send'[c].pc \notin Passed
      PROVE  Explained(i)'
  <2>1. Debts(i)' = Debts(i)
    BY <1>5, <1>8, DebtsAreKept
  <2> QED
    BY <1>6, <1>7, <1>8, <2>1
<1>9. ASSUME send' = [send EXCEPT ![c] = NoSend] PROVE send'[c].pc \notin Passed
  BY <1>1, <1>9 DEF NoSend, Passed
<1>10. ASSUME NEW pc, SendAt(c, pc) PROVE send'[c].pc = pc /\ send'[c].id = send[c].id /\ send'[c].n = send[c].n
  BY <1>1, <1>10 DEF SendAt, SendType
<1>11. CASE Ask(c)
  <2>1. PICK n \in 1 .. MaxBatch : send' = [send EXCEPT ![c] = [NoSend EXCEPT !.pc = "look", !.n = n]]
    BY <1>11 DEF Ask
  <2>2. send'[c].pc = "look"
    BY <1>1, <2>1 DEF NoSend
  <2>3. ~CountSend(c) /\ send[c].pc = "idle" /\ UNCHANGED accepted
    BY <1>11 DEF Ask, CountSend
  <2> QED
    BY <1>8, <2>2, <2>3 DEF Passed
<1>12. CASE LookActive(c) \/ LookPaused(c)
  <2>1. send[c].pc \in {"look", "look2", "again", "again2"} /\ UNCHANGED <<session, accepted>> /\ ~CountSend(c)
    BY <1>12 DEF LookActive, LookPaused, CountSend
  <2>2. send'[c].pc \notin Passed
    <3>1. CASE \E pc \in {"look2", "again2", "create", "wrong"} : SendAt(c, pc)
      BY <1>10, <3>1 DEF Passed
    <3>2. CASE Having("active") # {} /\ Judge(c, Max(Having("active")))
      BY <1>1, <2>1, <3>2, LastHaving, JudgeKeeps DEF Passed
    <3>3. CASE send' = [send EXCEPT ![c] = NoSend]
      BY <1>9, <3>3
    <3> QED
      BY <1>12, <3>1, <3>2, <3>3 DEF LookActive, LookPaused
  <2> QED
    BY <1>8, <2>1, <2>2 DEF Passed
<1>13. CASE Create(c) \/ ResetFirst(c)
  <2>1. /\ send[c].pc \in {"create", "reset"} /\ UNCHANGED accepted /\ ~CountSend(c)
        /\ SendAt(c, "again") \/ SendAt(c, "advance")
    BY <1>13 DEF Create, ResetFirst, CountSend
  <2> QED
    BY <1>8, <1>10, <2>1 DEF Passed
<1>20. CASE Advance(c)
  <2>1. send[c].pc = "advance" /\ UNCHANGED accepted /\ ~CountSend(c) /\ send' = [send EXCEPT ![c] = Compared(c)]
    BY <1>20 DEF Advance, CountSend, Compared
  <2>2. send'[c].pc = "compare"
    BY <1>1, <2>1 DEF Compared, SendType
  <2> QED
    BY <1>8, <2>1, <2>2 DEF Passed
<1>14. CASE RefuseWrong(c)
  <2>1. send[c].pc = "wrong" /\ UNCHANGED accepted /\ ~CountSend(c) /\ send' = [send EXCEPT ![c] = NoSend]
    BY <1>14 DEF RefuseWrong, CountSend
  <2> QED
    BY <1>8, <1>9, <2>1 DEF Passed
<1>15. CASE Compare(c)
  <2>1. send[c].pc = "compare" /\ ~CountSend(c) /\ UNCHANGED session
    BY <1>15 DEF Compare, CountSend
  <2>2. CASE send' = [send EXCEPT ![c] = NoSend] /\ UNCHANGED accepted
    BY <1>8, <1>9, <2>1, <2>2 DEF Passed
  <2>3. CASE /\ BelowLimit(send[c].id) /\ SendAt(c, "record")
             /\ accepted' = [accepted EXCEPT ![send[c].id] = @ + send[c].n]
    <3>1. send'[c].pc = "record" /\ send'[c].id = send[c].id /\ send'[c].n = send[c].n
      BY <1>10, <2>3
    <3>2. CASE send[c].id # i
      <4>1. Debts(i)' = Debts(i)
        BY <1>1, <1>5, <2>1, <3>1, <3>2, DebtOfOne DEF Passed
      <4>2. accepted'[i] = accepted[i]
        BY <1>1, <2>3, <3>2
      <4> QED
        BY <1>6, <1>7, <2>1, <4>1, <4>2
    <3>3. CASE send[c].id = i
      <4>1. Cardinality(Debts(i)') = Cardinality(Debts(i)) + send[c].n /\ IsFiniteSet(Debts(i)')
        BY <1>1, <1>5, <2>1, <3>1, <3>3, DebtOfOne DEF Passed
      <4>2. i \in 1 .. MaxSessions
        BY <1>1, OrderTypes, DomAssumption DEF NothingAhead
      <4>3. accepted'[i] = accepted[i] + send[c].n
        BY <1>1, <2>3, <3>3, <4>2
      <4>4. PICK m \in Nat \ {0} : m = Limit[AutoStep(session[i].day)]
        BY CeilingIsHigh
      <4>5. session[i].sent < m /\ m - 1 + MayBeOut <= Ceiling(i)
        BY <2>3, <3>3, <4>4, CeilingIsHigh DEF BelowLimit
      <4>6. CountedToday(i) <= m - 1
        BY <1>4, <4>4, <4>5 DEF CountedToday
      <4>7. Cardinality(Debts(i)') <= MayBeOut
        <5>1. Debts(i)' \subseteq Sends \X (1 .. MaxBatch)
          BY DEF Debts
        <5>2. IsFiniteSet(Sends) /\ IsFiniteSet(1 .. MaxBatch) /\ Cardinality(1 .. MaxBatch) = MaxBatch
          BY FS_Interval, DomAssumption
        <5>3. IsFiniteSet(Sends \X (1 .. MaxBatch)) /\ Cardinality(Sends \X (1 .. MaxBatch)) = MayBeOut
          BY ZenonT(40), <5>2, FS_Product DEF MayBeOut
        <5> QED
          BY <5>1, <5>3, FS_Subset
      <4>8. accepted[i] <= CountedToday(i) + Cardinality(Debts(i))
        BY <1>3 DEF Explained
      <4>9. accepted'[i] <= CountedToday(i) + Cardinality(Debts(i)')
        BY SMTT(30), <1>1, <1>4, <4>1, <4>3, <4>8
      <4>10. Cardinality(Debts(i)') \in Nat /\ accepted'[i] \in Nat
        BY SMTT(30), <1>1, <1>4, <4>1, <4>3
      <4>11. accepted'[i] <= Ceiling(i)
        BY <1>4, <4>4, <4>5, <4>6, <4>7, <4>9, <4>10
      <4>12. CountedToday(i)' = CountedToday(i) /\ Ceiling(i)' = Ceiling(i)
        BY <1>7, <2>1
      <4> QED
        BY <4>9, <4>11, <4>12 DEF Explained
    <3> QED
      BY <3>2, <3>3
  <2> QED
    BY <1>15, <2>2, <2>3 DEF Compare
<1>16. CASE Record(c)
  <2>1. send[c].pc = "record" /\ UNCHANGED <<session, accepted>> /\ ~CountSend(c)
    BY <1>16 DEF Record, CountSend
  <2>2. PICK pc \in {"count", "recount"} : pc = IF session[Max(Having("active"))].on = today THEN "count" ELSE "recount"
    OBVIOUS
  <2>3. send' = [send EXCEPT ![c].pc = pc, ![c].id = Max(Having("active")), ![c].on = today] /\ Max(Having("active")) = send[c].id
    BY <1>16, <2>2 DEF Record
  <2>4. send'[c].pc = pc /\ send'[c].id = send[c].id /\ send'[c].n = send[c].n
    <3>1. PICK x \in SendType : x = send[c]
      BY <1>1
    <3>2. PICK r : r = [x EXCEPT !.pc = pc, !.id = Max(Having("active")), !.on = today]
      OBVIOUS
    <3>3. r.pc = pc /\ r.id = Max(Having("active")) /\ r.n = x.n
      BY <3>1, <3>2 DEF SendType
    <3>4. send' = [send EXCEPT ![c] = r]
      BY <1>1, <2>3, <3>1, <3>2
    <3> QED
      BY <1>1, <2>3, <3>1, <3>3, <3>4
  <2>5. Debts(i)' = Debts(i)
    BY <1>5, <2>1, <2>4, DebtsAreKept DEF Passed
  <2> QED
    BY <1>6, <1>7, <2>1, <2>5
<1>17. CASE ResetBefore(c)
  <2>1. send[c].pc = "recount" /\ UNCHANGED accepted /\ ~CountSend(c) /\ SendAt(c, "count")
    BY <1>17 DEF ResetBefore, CountSend
  <2>2. Debts(i)' = Debts(i)
    BY <1>5, <1>10, <2>1, DebtsAreKept DEF Passed
  <2> QED
    BY <1>6, <1>7, <2>1, <2>2
<1>18. CASE CountSend(c)
  <2>1. /\ send[c].pc = "count" /\ UNCHANGED accepted /\ send' = [send EXCEPT ![c] = NoSend]
        /\ session' = [session EXCEPT ![send[c].id] = [session[send[c].id] EXCEPT !.sent = @ + send[c].n]]
        /\ session[send[c].id].on = today
    BY <1>18 DEF CountSend, Update
  <2>2. send'[c].pc \notin Passed
    BY <1>9, <2>1
  <2>3. send[c].id \in Ids
    BY <1>1, <2>1, OrderTypes DEF SendsAreSane, SaneSend, HasRow
  <2>4. PICK x \in Rows : x = session[send[c].id]
    BY <2>3, DomTypes DEF DomInv
  <2>5. PICK m \in Nat : m = x.sent + send[c].n
    <3>1. x.sent \in Nat
      BY <2>4 DEF Rows
    <3> QED
      BY <1>1, <3>1
  <2>6. PICK row : row = [x EXCEPT !.sent = m]
    OBVIOUS
  <2>7. row.sent = m /\ row.on = x.on /\ row.started = x.started
    BY <2>4, <2>6 DEF Rows
  <2>8. session' = [session EXCEPT ![send[c].id] = row]
    BY <2>1, <2>4, <2>5, <2>6
  <2>9. CASE send[c].id # i
    <3>1. Debts(i)' = Debts(i)
      BY <1>1, <1>5, <2>1, <2>2, <2>9, DebtOfOne DEF Passed
    <3>2. session'[i] = session[i]
      BY <1>1, <2>8, <2>9
    <3>3. CountedToday(i)' = CountedToday(i) /\ Ceiling(i)' = Ceiling(i)
      BY <1>1, <3>2, CountIsKept
    <3> QED
      BY <1>6, <2>1, <3>1, <3>3
  <2>10. CASE send[c].id = i
    <3>1. Cardinality(Debts(i)) = Cardinality(Debts(i)') + send[c].n /\ IsFiniteSet(Debts(i)')
      BY <1>1, <1>5, <2>1, <2>2, <2>10, DebtOfOne DEF Passed
    <3>2. session'[i] = row
      BY <1>1, <2>8, <2>10
    <3>3. CountedToday(i)' = m /\ CountedToday(i) = x.sent /\ Ceiling(i)' = Ceiling(i)
      BY <1>1, <2>1, <2>4, <2>7, <2>10, <3>2 DEF CountedToday, Ceiling, Elapsed
    <3>4. Cardinality(Debts(i)') \in Nat
      BY <3>1, FS_CardinalityType
    <3>5. accepted[i] <= x.sent + Cardinality(Debts(i)) /\ accepted[i] <= Ceiling(i)
      BY <1>3, <3>3 DEF Explained
    <3>6. x.sent \in Nat
      BY <2>4 DEF Rows
    <3>7. accepted[i] <= m + Cardinality(Debts(i)')
      BY SMTT(30), <1>1, <1>4, <2>5, <3>1, <3>4, <3>5, <3>6
    <3>8. accepted'[i] = accepted[i]
      BY <2>1
    <3> QED
      BY <3>3, <3>5, <3>7, <3>8 DEF Explained
  <2> QED
    BY <2>9, <2>10
<1>19. CASE Abandon(c)
  <2>1. send[c].pc \notin Passed /\ UNCHANGED accepted /\ ~CountSend(c) /\ send' = [send EXCEPT ![c] = NoSend]
    BY <1>19 DEF Abandon, CountSend, Passed
  <2> QED
    BY <1>8, <1>9, <2>1
<1> QED
  BY SMTT(30), <1>11, <1>12, <1>13, <1>14, <1>15, <1>16, <1>17, <1>18, <1>19, <1>20 DEF Serve

LEMMA ExplainedStep == DomInv /\ DomInv' /\ AllExplained /\ [DomNext]_domVars => AllExplained'
<1> SUFFICES ASSUME DomInv, DomInv', AllExplained, [DomNext]_domVars, ~lost', NEW i \in Ids' PROVE Explained(i)'
  BY DEF AllExplained
<1>1. accepted'[i] = 0 => Explained(i)'
  <2>1. (DomInv => NothingOwed)'
    BY NothingIsExplained, PTL
  <2> QED
    BY <2>1 DEF NothingOwed
<1>2. /\ Ids = 1 .. Len(session) /\ Len(session) \in Nat /\ Len(session) <= MaxSessions
      /\ (\A j \in 1 .. MaxSessions : j > Len(session) => accepted[j] = 0)
  BY DomTypes, OrderTypes DEF DomInv, NothingAhead
<1>3. i \in 1 .. MaxSessions /\ Len(session') \in Nat
  <2>1. DomTypeOK' /\ NothingAhead'
    BY DEF DomInv
  <2>2. session' \in Seq(Rows) /\ Len(session') <= MaxSessions
    BY <2>1 DEF DomTypeOK, NothingAhead
  <2> QED
    BY <2>2, DomAssumption DEF Ids
<1>4. CASE Midnight
  <2>1. accepted'[i] = 0
    BY <1>3, <1>4 DEF Midnight
  <2> QED
    BY <1>1, <2>1
<1>5. CASE UNCHANGED <<session, send, today, accepted, lost>>
  <2>1. i \in Ids /\ ~lost
    BY <1>5 DEF Ids
  <2>2. Explained(i)
    BY <2>1 DEF AllExplained
  <2>3. CountedToday(i)' = CountedToday(i) /\ Ceiling(i)' = Ceiling(i) /\ Debts(i)' = Debts(i)
    BY <1>5 DEF CountedToday, Ceiling, Elapsed, Debts
  <2> QED
    BY <1>5, <2>2, <2>3 DEF Explained
<1>6. CASE OrderReset \/ OrderWrite
  <2>1. UNCHANGED <<send, accepted>>
    BY <1>6 DEF OrderReset, OrderWrite
  <2>2. CASE i \in Ids
    <3>1. ~lost /\ CountedToday(i)' = CountedToday(i) /\ Ceiling(i)' = Ceiling(i)
      BY <1>6, <2>2, OrdersKeepCounts
    <3>2. Debts(i)' = Debts(i) /\ Explained(i)
      BY <2>1, <2>2, <3>1 DEF Debts, AllExplained
    <3> QED
      BY <2>1, <3>1, <3>2 DEF Explained
  <2>3. CASE i \notin Ids
    BY <1>1, <1>2, <1>3, <2>1, <2>3
  <2> QED
    BY <2>2, <2>3
<1>7. ASSUME NEW c \in Sends, Serve(c) PROVE Explained(i)'
  <2>1. CASE i \in Ids
    BY <1>7, <2>1, ExplainedServe
  <2>2. CASE i \notin Ids
    <3>1. UNCHANGED accepted
      <4>1. CASE Compare(c)
        <5>1. UNCHANGED session
          BY <4>1 DEF Compare
        <5> QED
          BY <2>2, <5>1 DEF Ids
      <4> QED
        BY ZenonT(40), <1>7, <4>1 DEF Serve, Ask, LookActive, LookPaused, Create, RefuseWrong, ResetFirst, Advance, Record, ResetBefore, CountSend, Abandon
    <3> QED
      BY <1>1, <1>2, <1>3, <2>2, <3>1
  <2> QED
    BY <2>1, <2>2
<1>8. OrderFails \/ (\E k \in Kinds : Order(k)) => UNCHANGED <<session, send, today, accepted, lost>>
  BY DEF Order, OrderFails
<1> QED
  BY <1>4, <1>5, <1>6, <1>7, <1>8 DEF DomNext, domVars

\* checkWarmup before the send and recordSend after it: a day of a warm-up exceeds its limit
\* by what the requests in flight carry at the most, unless a late reset wipes a count.
THEOREM WarmupHolds == DomSpec => []WarmupOvershootIsBounded
<1>1. AllExplained => WarmupOvershootIsBounded
  BY DEF AllExplained, Explained, WarmupOvershootIsBounded, Ceiling, MayBeOut
<1>2. DomInit => AllExplained
  BY DEF DomInit, AllExplained, Ids
<1> QED
  BY <1>1, <1>2, DomInvHolds, ExplainedStep, PTL DEF DomSpec

-----------------------------------------------------------------------------
(***************************************************************************)
(* DomainThrottle: one record and one pool for a recipient domain          *)
(***************************************************************************)

(* types *)

PaceType == [hour : Nat, day : Nat, last : Nat \cup {Never}, until : Nat \cup {Never}]
PoolType == [active : Nat, idle : Nat]

LEMMA TodayIsNat == ThrottleTypeOK => Today \in Nat
BY SMTT(30), ThrottleAssumption DEF ThrottleTypeOK, Today

LEMMA CheckedType ==
  ASSUME ThrottleTypeOK
  PROVE  /\ Checked \in PaceType
         /\ Checked.hour = pace.hour /\ Checked.day = pace.day
         /\ Checked.until = Never => Checked.hour < PerHour /\ Checked.day < PerDay
<1> USE ThrottleAssumption
<1>1. pace \in PaceType /\ clock \in Nat
  BY DEF ThrottleTypeOK, PaceType
<1>2. Lifted \in PaceType /\ Lifted.hour = pace.hour /\ Lifted.day = pace.day
  BY <1>1 DEF Lifted, PaceType
<1>3. clock + HourLength \in Nat /\ clock + HourLength # Never
  BY <1>1 DEF Never
<1>4. (Today + 1) * DayLength \in Nat
  BY TodayIsNat
<1>5. (Today + 1) * DayLength # Never
  BY <1>4 DEF Never
<1> QED
  BY <1>2, <1>3, <1>4, <1>5 DEF Checked, PaceType

LEMMA CountedType ==
  ASSUME NEW p \in PaceType, clock \in Nat
  PROVE  /\ Counted(p) \in PaceType
         /\ Counted(p).hour = p.hour + 1 /\ Counted(p).day = p.day + 1
<1>1. PICK hour \in Nat, day \in Nat : hour = p.hour + 1 /\ day = p.day + 1
  BY DEF PaceType
<1> QED
  BY <1>1 DEF Counted, PaceType

\* What a connection that is taken or given back does to the pool.
LEMMA PoolMoves ==
  ASSUME pool \in [Hosts -> PoolType], NEW h \in Hosts
  PROVE  /\ Acquired(h) \in [Hosts -> PoolType]
         /\ Acquired(h)[h].active = pool[h].active + 1
         /\ \A g \in Hosts \ {h} : Acquired(h)[g] = pool[g]
         /\ Released(h) \in [Hosts -> PoolType]
         /\ pool[h].active > 0 => Released(h)[h].active = pool[h].active - 1
         /\ \A g \in Hosts \ {h} : Released(h)[g] = pool[g]
<1>1. pool[h] \in PoolType
  OBVIOUS
<1>2. PICK more \in Nat, less \in Nat :
        more = pool[h].active + 1 /\ less = IF pool[h].idle > 0 THEN pool[h].idle - 1 ELSE pool[h].idle
  BY <1>1 DEF PoolType
<1>3. PICK fewer \in Nat, back \in Nat :
        /\ fewer = IF pool[h].active > 0 THEN pool[h].active - 1 ELSE pool[h].active
        /\ back = pool[h].idle + 1
  BY <1>1 DEF PoolType
<1>4. Acquired(h) = [pool EXCEPT ![h].active = more, ![h].idle = less]
  BY <1>2 DEF Acquired
<1>5. Released(h) = [pool EXCEPT ![h].active = fewer, ![h].idle = back]
  BY <1>3 DEF Released
<1> QED
  BY <1>1, <1>2, <1>3, <1>4, <1>5 DEF PoolType

LEMMA IdleForgotten ==
  ASSUME pool \in [Hosts -> PoolType], NEW S
  PROVE  LET forgotten == [h \in Hosts |-> IF h \in S THEN [pool[h] EXCEPT !.idle = 0] ELSE pool[h]]
         IN  forgotten \in [Hosts -> PoolType] /\ \A h \in Hosts : forgotten[h].active = pool[h].active
BY DEF PoolType

LEMMA ThrottleTypeInit == ThrottleInit => ThrottleTypeOK
BY ThrottleAssumption DEF ThrottleInit, ThrottleTypeOK, Never

LEMMA ThrottleTypeStep == ThrottleTypeOK /\ [ThrottleNext]_throttleVars => ThrottleTypeOK'
<1> SUFFICES ASSUME ThrottleTypeOK, [ThrottleNext]_throttleVars PROVE ThrottleTypeOK'
  OBVIOUS
<1> USE ThrottleAssumption
<1>1. ASSUME NEW j \in Deliveries, HostAnswers(j) PROVE ThrottleTypeOK'
  <2>1. on[j] \in Hosts
    BY <1>1 DEF HostAnswers, ThrottleTypeOK
  <2>2. Counted(pace) \in PaceType
    BY CountedType DEF ThrottleTypeOK, PaceType
  <2>3. Released(on[j]) \in [Hosts -> PoolType]
    BY <2>1, PoolMoves DEF ThrottleTypeOK, PoolType
  <2> QED
    BY <1>1, <2>2, <2>3 DEF HostAnswers, ThrottleTypeOK, PaceType, PoolType
<1>2. ASSUME NEW j \in Deliveries, NEW h \in Hosts, TryHost(j, h) PROVE ThrottleTypeOK'
  <2>1. Acquired(h) \in [Hosts -> PoolType]
    BY PoolMoves DEF ThrottleTypeOK, PoolType
  <2> QED
    BY SMTT(30), <1>2, <2>1, CheckedType DEF TryHost, ThrottleTypeOK, PaceType, PoolType
<1>3. CASE EachHour
  <2>1. pace' \in PaceType
    BY <1>3 DEF EachHour, ThrottleTypeOK, PaceType
  <2>2. pool' \in [Hosts -> PoolType]
    BY <1>3, IdleForgotten DEF EachHour, ThrottleTypeOK, PoolType
  <2> QED
    BY <1>3, <2>1, <2>2 DEF EachHour, ThrottleTypeOK, PaceType, PoolType
<1>4. CASE EachDay
  BY <1>4, TodayIsNat DEF EachDay, ThrottleTypeOK
<1>5. CASE Pass
  BY <1>5 DEF Pass, ThrottleTypeOK
<1>6. CASE UNCHANGED throttleVars
  BY <1>6 DEF throttleVars, ThrottleTypeOK
<1> QED
  BY <1>1, <1>2, <1>3, <1>4, <1>5, <1>6 DEF ThrottleNext

\* Every variable of the throttle keeps its shape: an answer or a reset of the timers never
\* takes a counter below zero.
THEOREM ThrottleTypeCorrect == ThrottleSpec => []ThrottleTypeOK
BY ThrottleTypeInit, ThrottleTypeStep, PTL DEF ThrottleSpec

-----------------------------------------------------------------------------
(* slots *)

LEMMA OnIsFinite == \A h : IsFiniteSet(On(h)) /\ Cardinality(On(h)) \in Nat
<1> TAKE h
<1>1. IsFiniteSet(On(h))
  BY ThrottleAssumption, FS_Subset DEF On
<1> QED
  BY <1>1, FS_CardinalityType

SlotInv == ThrottleTypeOK /\ SlotsAreExact

\* Slots move with the host a job is sending to, and with nothing else.
LEMMA SameHostsSameSlots ==
  ASSUME SlotInv, on' = on, \A h \in Hosts : pool'[h].active = pool[h].active
  PROVE  SlotsAreExact'
BY DEF SlotInv, SlotsAreExact, On

LEMMA SlotInit == ThrottleInit => SlotsAreExact
<1> SUFFICES ASSUME ThrottleInit, NEW h \in Hosts
             PROVE  pool[h].active = Cardinality(On(h)) /\ pool[h].active <= PoolMax
  BY DEF SlotsAreExact
<1>1. On(h) = {}
  BY ThrottleAssumption DEF ThrottleInit, On
<1> QED
  BY <1>1, FS_EmptySet, ThrottleAssumption DEF ThrottleInit

LEMMA SlotGivenBack ==
  ASSUME SlotInv, NEW j \in Deliveries, HostAnswers(j)
  PROVE  SlotsAreExact'
<1> USE ThrottleAssumption
<1>0. on \in [Deliveries -> Hosts \cup {NoHost}] /\ on' = [on EXCEPT ![j] = NoHost]
  BY DEF SlotInv, ThrottleTypeOK, HostAnswers
<1>1. PICK h \in Hosts : on[j] = h /\ j \in On(h)
  BY <1>0 DEF HostAnswers, On
<1>2. On(h)' = On(h) \ {j} /\ \A g \in Hosts \ {h} : On(g)' = On(g)
  BY <1>0, <1>1 DEF On
<1>3. Cardinality(On(h)) > 0 /\ Cardinality(On(h)') = Cardinality(On(h)) - 1
  <2>1. Cardinality(On(h) \ {j}) = Cardinality(On(h)) - 1
    BY <1>1, OnIsFinite, FS_RemoveElement
  <2>2. Cardinality(On(h)) # 0
    BY <1>1, OnIsFinite, FS_EmptySet
  <2> QED
    BY <1>2, <2>1, <2>2, OnIsFinite
<1>4. pool[h].active > 0
  BY <1>1, <1>3 DEF SlotInv, SlotsAreExact
<1>5. pool' = Released(h)
  BY <1>1 DEF HostAnswers
<1>6. /\ pool'[h].active = pool[h].active - 1
      /\ \A g \in Hosts \ {h} : pool'[g] = pool[g]
  BY <1>1, <1>4, <1>5, PoolMoves DEF SlotInv, ThrottleTypeOK, PoolType
<1>7. SUFFICES ASSUME NEW g \in Hosts
               PROVE  pool'[g].active = Cardinality(On(g)') /\ pool'[g].active <= PoolMax
  BY DEF SlotsAreExact
<1>8. pool[g].active = Cardinality(On(g)) /\ pool[g].active <= PoolMax /\ pool[g].active \in Nat
  BY DEF SlotInv, SlotsAreExact, ThrottleTypeOK
<1>9. CASE g = h
  BY <1>3, <1>6, <1>8, <1>9
<1>10. CASE g # h
  BY <1>2, <1>6, <1>8, <1>10
<1> QED
  BY <1>9, <1>10

LEMMA SlotTaken ==
  ASSUME SlotInv, NEW j \in Deliveries, NEW h \in Hosts, TryHost(j, h)
  PROVE  SlotsAreExact'
<1> USE ThrottleAssumption
<1>1. CASE MayPass /\ HasRoom(h)
  <2>1. j \notin On(h)
    BY DEF TryHost, On
  <2>2. On(h)' = On(h) \cup {j} /\ \A g \in Hosts \ {h} : On(g)' = On(g)
    BY <1>1 DEF SlotInv, ThrottleTypeOK, TryHost, On
  <2>3. Cardinality(On(h)') = Cardinality(On(h)) + 1
    BY ZenonT(40), <2>1, <2>2, OnIsFinite, FS_AddElement
  <2>4. /\ pool'[h].active = pool[h].active + 1
        /\ \A g \in Hosts \ {h} : pool'[g] = pool[g]
    BY <1>1, PoolMoves DEF TryHost, SlotInv, ThrottleTypeOK, PoolType
  <2>5. SUFFICES ASSUME NEW g \in Hosts
                 PROVE  pool'[g].active = Cardinality(On(g)') /\ pool'[g].active <= PoolMax
    BY DEF SlotsAreExact
  <2>6. pool[g].active = Cardinality(On(g)) /\ pool[g].active <= PoolMax /\ pool[g].active \in Nat
    BY DEF SlotInv, SlotsAreExact, ThrottleTypeOK
  <2>7. pool[h].active < PoolMax
    BY <1>1 DEF HasRoom
  <2> QED
    BY <2>2, <2>3, <2>4, <2>6, <2>7
<1>2. CASE ~(MayPass /\ HasRoom(h))
  BY <1>2, SameHostsSameSlots DEF TryHost
<1> QED
  BY <1>1, <1>2

LEMMA SlotStep == SlotInv /\ [ThrottleNext]_throttleVars => SlotInv'
<1> SUFFICES ASSUME SlotInv, [ThrottleNext]_throttleVars PROVE SlotsAreExact'
  BY ThrottleTypeStep DEF SlotInv
<1>1. CASE EachHour
  <2>1. \A h \in Hosts : pool'[h].active = pool[h].active
    BY <1>1, IdleForgotten DEF EachHour, SlotInv, ThrottleTypeOK, PoolType
  <2> QED
    BY <1>1, <2>1, SameHostsSameSlots DEF EachHour
<1>2. CASE EachDay \/ Pass \/ UNCHANGED throttleVars
  BY <1>2, SameHostsSameSlots DEF EachDay, Pass, throttleVars
<1> QED
  BY <1>1, <1>2, SlotGivenBack, SlotTaken DEF ThrottleNext

-----------------------------------------------------------------------------
(* the pace *)

InFlight == {j \in Deliveries : on[j] # NoHost}
AllSlots == Cardinality(Hosts) * PoolMax

\* As many jobs are sending as there are slots, at most: number the jobs of each host, and a
\* job is known by its host and its number.
LEMMA JobsFitSlots ==
  ASSUME NEW f \in [Deliveries -> Hosts \cup {NoHost}],
         \A h \in Hosts : Cardinality({j \in Deliveries : f[j] = h}) <= PoolMax
  PROVE  /\ IsFiniteSet({j \in Deliveries : f[j] # NoHost})
         /\ Cardinality({j \in Deliveries : f[j] # NoHost}) <= AllSlots
<1> USE ThrottleAssumption
<1> DEFINE Of(h) == {j \in Deliveries : f[j] = h}
           Number(h) == CHOOSE b : b \in Bijection(1 .. Cardinality(Of(h)), Of(h))
           Sending == {j \in Deliveries : f[j] # NoHost}
           Named == Hosts \X (1 .. PoolMax)
           NumberOf(j) == CHOOSE k \in 1 .. Cardinality(Of(f[j])) : Number(f[j])[k] = j
           Name == [j \in Sending |-> <<f[j], NumberOf(j)>>]
<1>1. ASSUME NEW h \in Hosts
      PROVE  Cardinality(Of(h)) \in Nat /\ Number(h) \in Bijection(1 .. Cardinality(Of(h)), Of(h))
  <2>1. IsFiniteSet(Of(h))
    BY FS_Subset
  <2> QED
    BY <2>1, FS_CardinalityType DEF ExistsBijection
<1>2. ASSUME NEW j \in Sending
      PROVE  /\ f[j] \in Hosts
             /\ NumberOf(j) \in 1 .. Cardinality(Of(f[j])) /\ Number(f[j])[NumberOf(j)] = j
  <2>1. f[j] \in Hosts /\ j \in Of(f[j])
    OBVIOUS
  <2> HIDE DEF Of, Number
  <2>2. \E k \in 1 .. Cardinality(Of(f[j])) : Number(f[j])[k] = j
    BY <1>1, <2>1 DEF Bijection, Surjection
  <2> QED
    BY <2>1, <2>2
<1> HIDE DEF NumberOf, Number
<1>3. ASSUME NEW j \in Sending PROVE <<f[j], NumberOf(j)>> \in Named
  <2>1. Cardinality(Of(f[j])) \in Nat /\ Cardinality(Of(f[j])) <= PoolMax
    BY <1>1, <1>2
  <2>2. NumberOf(j) \in 1 .. PoolMax
    BY <1>2, <2>1
  <2> QED
    BY <1>2, <2>2
<1>4. ASSUME NEW i \in Sending, NEW j \in Sending, Name[i] = Name[j] PROVE i = j
  <2>1. f[i] = f[j] /\ NumberOf(i) = NumberOf(j)
    BY <1>4
  <2> QED
    BY <1>2, <2>1
<1>5. Name \in Injection(Sending, Named)
  <2>1. Name \in [Sending -> Named]
    BY <1>3
  <2>2. \A i, j \in Sending : Name[i] = Name[j] => i = j
    BY <1>4
  <2> HIDE DEF Name, Sending, Named
  <2> QED
    BY <2>1, <2>2 DEF Injection, IsInjective
<1>6. IsFiniteSet(Named) /\ Cardinality(Named) = AllSlots
  <2>1. IsFiniteSet(1 .. PoolMax) /\ Cardinality(1 .. PoolMax) = PoolMax
    BY FS_Interval
  <2> QED
    BY <2>1, FS_Product DEF AllSlots
<1> QED
  BY <1>5, <1>6, FS_Injection

\* What is sent this hour and what is about to be stay together within the limit and one
\* round of the slots: only an answer turns the one into the other, and a job is let through
\* while the hour is below its limit.
PaceClaimed(n) == n + Cardinality(InFlight)
PaceInv ==
  /\ SlotInv
  /\ PaceClaimed(pace.hour) < PerHour + AllSlots
  /\ PaceClaimed(pace.day) < PerDay + AllSlots

LEMMA FlightsFit == SlotInv => IsFiniteSet(InFlight) /\ Cardinality(InFlight) <= AllSlots
<1> SUFFICES ASSUME SlotInv PROVE IsFiniteSet(InFlight) /\ Cardinality(InFlight) <= AllSlots
  OBVIOUS
<1>1. \A h \in Hosts : Cardinality({j \in Deliveries : on[j] = h}) <= PoolMax
  BY DEF SlotInv, SlotsAreExact, On
<1> QED
  BY <1>1, JobsFitSlots DEF SlotInv, ThrottleTypeOK, InFlight

LEMMA FlightsAreCounted == IsFiniteSet(InFlight) /\ Cardinality(InFlight) \in Nat /\ AllSlots \in Nat
<1>1. IsFiniteSet(InFlight)
  BY ThrottleAssumption, FS_Subset DEF InFlight
<1> QED
  BY <1>1, FS_CardinalityType, ThrottleAssumption DEF AllSlots

LEMMA PaceInit == ThrottleInit => PaceInv
<1> SUFFICES ASSUME ThrottleInit PROVE PaceInv
  OBVIOUS
<1>1. Cardinality(InFlight) = 0
  BY FS_EmptySet DEF ThrottleInit, InFlight
<1> QED
  BY <1>1, ThrottleTypeInit, SlotInit, FlightsAreCounted, ThrottleAssumption
  DEF PaceInv, SlotInv, ThrottleInit, PaceClaimed

\* What does not touch the jobs leaves the claims no higher.
LEMMA SameFlights ==
  ASSUME PaceInv, ThrottleTypeOK', on' = on, pace'.hour <= pace.hour, pace'.day <= pace.day
  PROVE  PaceClaimed(pace.hour)' < PerHour + AllSlots /\ PaceClaimed(pace.day)' < PerDay + AllSlots
<1>1. Cardinality(InFlight)' = Cardinality(InFlight)
  BY DEF InFlight
<1> QED
  BY <1>1, FlightsAreCounted, ThrottleAssumption DEF PaceInv, SlotInv, PaceClaimed, ThrottleTypeOK

LEMMA PaceStep == PaceInv /\ [ThrottleNext]_throttleVars => PaceInv'
<1> SUFFICES ASSUME PaceInv, [ThrottleNext]_throttleVars
             PROVE  PaceClaimed(pace.hour)' < PerHour + AllSlots /\ PaceClaimed(pace.day)' < PerDay + AllSlots
  BY SlotStep DEF PaceInv, AllSlots
<1>1. SlotInv' /\ ThrottleTypeOK'
  BY SlotStep DEF PaceInv, SlotInv
<1>2. Cardinality(InFlight)' <= AllSlots
  <2>1. (SlotInv => IsFiniteSet(InFlight) /\ Cardinality(InFlight) <= AllSlots)'
    BY FlightsFit, PTL
  <2> QED
    BY <1>1, <2>1 DEF AllSlots
<1>3. pace \in PaceType /\ pace.hour \in Nat /\ pace.day \in Nat /\ ThrottleTypeOK
  BY DEF PaceInv, SlotInv, ThrottleTypeOK, PaceType
<1>4. ASSUME NEW j \in Deliveries, HostAnswers(j)
      PROVE  PaceClaimed(pace.hour)' < PerHour + AllSlots /\ PaceClaimed(pace.day)' < PerDay + AllSlots
  <2>1. j \in InFlight /\ InFlight' = InFlight \ {j}
    BY <1>3, <1>4 DEF HostAnswers, InFlight, ThrottleTypeOK
  <2>2. Cardinality(InFlight)' = Cardinality(InFlight) - 1
    BY <2>1, FlightsAreCounted, FS_RemoveElement
  <2>3. pace'.hour \in {pace.hour, pace.hour + 1} /\ pace'.day \in {pace.day, pace.day + 1}
    BY <1>3, <1>4, CountedType DEF HostAnswers, ThrottleTypeOK
  <2> QED
    BY <1>3, <2>2, <2>3, FlightsAreCounted, ThrottleAssumption DEF PaceInv, PaceClaimed
<1>5. ASSUME NEW j \in Deliveries, NEW h \in Hosts, TryHost(j, h)
      PROVE  PaceClaimed(pace.hour)' < PerHour + AllSlots /\ PaceClaimed(pace.day)' < PerDay + AllSlots
  <2>1. pace' = Checked
    BY <1>5 DEF TryHost
  <2>2. CASE MayPass /\ HasRoom(h)
    <3>1. pace'.hour < PerHour /\ pace'.day < PerDay /\ pace'.hour \in Nat /\ pace'.day \in Nat
      BY <1>3, <2>1, <2>2, CheckedType DEF MayPass
    <3>2. (IsFiniteSet(InFlight) /\ Cardinality(InFlight) \in Nat /\ AllSlots \in Nat)'
      BY FlightsAreCounted, PTL
    <3> QED
      BY <1>2, <3>1, <3>2, FlightsAreCounted, ThrottleAssumption DEF PaceClaimed
  <2>3. CASE ~(MayPass /\ HasRoom(h))
    BY <1>1, <1>3, <1>5, <2>1, <2>3, CheckedType, SameFlights DEF TryHost
  <2> QED
    BY <2>2, <2>3
<1>6. CASE EachHour
  BY <1>1, <1>3, <1>6, SameFlights DEF EachHour, PaceType
<1>7. CASE EachDay
  BY <1>1, <1>3, <1>7, SameFlights DEF EachDay, PaceType
<1>8. CASE Pass \/ UNCHANGED throttleVars
  BY <1>1, <1>3, <1>8, SameFlights DEF Pass, throttleVars
<1> QED
  BY <1>4, <1>5, <1>6, <1>7, <1>8 DEF ThrottleNext

\* However deliveries end and the timers reset, no slot is leaked or given back twice, and the
\* limits of the hour and the day are exceeded by no more than the slots hold.
THEOREM PaceHolds == ThrottleSpec => []ThrottleHolds
<1>1. PaceInv => ThrottleHolds
  BY FlightsAreCounted, ThrottleAssumption
  DEF PaceInv, SlotInv, ThrottleTypeOK, ThrottleHolds, PaceIsBounded, PaceClaimed, AllSlots
<1> QED
  BY <1>1, PaceInit, PaceStep, PTL DEF ThrottleSpec
=============================================================================
