---------------------------- MODULE ClientProofs -----------------------------
(***************************************************************************)
(* Proofs about what is shared with someone outside: MailboxSync, for any  *)
(* number of syncs at once, any size of a page, and any number of changes  *)
(* and of faults; SessionTabs with the RefreshTokens it extends, for any   *)
(* number of tabs, requests, tokens and lost answers; CollabRooms, for any *)
(* number of sockets, rooms, saves and faults; and the instances of the    *)
(* three together (MCClients).                                             *)
(***************************************************************************)
EXTENDS MCClients, FiniteSetTheorems, SequenceTheorems,
        WellFoundedInduction, TLAPS

-----------------------------------------------------------------------------
(***************************************************************************)
(* MailboxSync: the cursor is honest                                       *)
(***************************************************************************)

SyncType == [pc : {"idle", "pause", "fetch", "list", "apply", "limit", "persist"}, base : Nat,
             todo : SUBSET (1 .. MaxChanges), gone : SUBSET MailIds, left : SUBSET (1 .. MaxChanges),
             seen : Nat, new : Nat \cup {NoCursor}, failed : BOOLEAN, added : BOOLEAN]
ChangeType == [kind : {"add", "delete"}, msg : MailIds]
LocalType  == {"absent", "inbox", "trash"}

\* The first of a set of places in the log.
LEMMA FirstPlace ==
  ASSUME NEW S \in SUBSET Nat, S # {}
  PROVE  Min(S) \in S /\ \A i \in S : Min(S) <= i
<1> DEFINE T == {0 .. x : x \in S}
<1>1. T \subseteq FiniteSubsetsOf(Nat) /\ T # {}
  <2>1. ASSUME NEW x \in S PROVE 0 .. x \in FiniteSubsetsOf(Nat)
    BY FS_Interval DEF FiniteSubsetsOf
  <2> QED
    BY <2>1
<1>2. PICK u \in T : \A v \in T : ~(<<v, u>> \in StrictSubsetOrdering(Nat))
  <2> HIDE DEF T
  <2> QED
    BY <1>1, FS_StrictSubsetOrderingWellFounded, WFMin
<1>3. PICK x \in S : u = 0 .. x
  BY <1>2
<1>4. ASSUME NEW y \in S PROVE x <= y
  <2>1. ~(<<0 .. y, 0 .. x>> \in StrictSubsetOrdering(Nat))
    BY <1>2, <1>3
  <2>2. CASE y < x
    <3>1. 0 .. y \subseteq 0 .. x /\ x \in 0 .. x /\ x \notin 0 .. y
      BY <2>2
    <3>2. <<0 .. y, 0 .. x>> \in StrictSubsetOrdering(Nat)
      BY <3>1 DEF StrictSubsetOrdering
    <3> QED
      BY <2>1, <3>2
  <2> QED
    BY <2>2
<1> QED
  BY <1>4 DEF Min

-----------------------------------------------------------------------------
(* the log *)

\* Messages are numbered in the order of their arrival, and arrive once.
LogInv ==
  /\ changes \in Seq(ChangeType) /\ Len(changes) <= MaxChanges
  /\ \E k \in 0 .. Len(changes) : Known = 1 .. k
  /\ \A i, j \in Log : j < i /\ Added(i) => Message(j) # Message(i)

\* What a further entry leaves as it is, and what it adds.
LEMMA LogGrows ==
  ASSUME changes \in Seq(ChangeType), NEW c \in ChangeType, changes' = Append(changes, c)
  PROVE  /\ changes' \in Seq(ChangeType) /\ Len(changes') = Len(changes) + 1 /\ Len(changes) \in Nat
         /\ Log = 1 .. Len(changes) /\ Log' = Log \cup {Len(changes) + 1}
         /\ \A i \in Log : changes'[i] = changes[i]
         /\ changes'[Len(changes) + 1] = c
BY DEF Log

LEMMA LogInit == SyncInit => LogInv
<1> SUFFICES ASSUME SyncInit PROVE LogInv
  OBVIOUS
<1> USE SyncAssumption DEF SyncInit
<1>1. Known = {} /\ 1 .. 0 = {}
  BY SMTT(30) DEF Known, Log
<1> QED
  BY <1>1 DEF LogInv, Log

LEMMA LogStep == LogInv /\ [SyncNext]_syncVars => LogInv'
<1> SUFFICES ASSUME LogInv, [SyncNext]_syncVars PROVE LogInv'
  OBVIOUS
<1>1. CASE UNCHANGED changes
  BY <1>1 DEF LogInv, Known, Log, Added, Message
<1>2. PICK k \in 0 .. Len(changes) : Known = 1 .. k
  BY DEF LogInv
<1>3. changes \in Seq(ChangeType) /\ Len(changes) \in Nat
  BY DEF LogInv
<1>4. CASE Arrive
  <2> DEFINE c == [kind |-> "add", msg |-> Cardinality(Known) + 1]
  <2>1. Cardinality(Known) = k
    BY <1>2, FS_Interval
  <2>2. Len(changes) < MaxChanges /\ changes' = Append(changes, c)
    BY <1>4 DEF Arrive, Change
  <2>3. c \in ChangeType /\ c.msg = k + 1
    BY <1>3, <2>1, <2>2, SyncAssumption DEF ChangeType, MailIds
  <2> HIDE DEF c
  <2>4. /\ changes' \in Seq(ChangeType) /\ Len(changes') = Len(changes) + 1
        /\ Log = 1 .. Len(changes) /\ Log' = Log \cup {Len(changes) + 1}
        /\ \A i \in Log : changes'[i] = changes[i]
        /\ changes'[Len(changes) + 1] = c
    BY <1>3, <2>2, <2>3, LogGrows
  <2>5. Known' = Known \cup {k + 1}
    BY <2>3, <2>4 DEF Known, Message
  <2>6. Known' = 1 .. (k + 1)
    BY <1>2, <2>5
  <2>7. ASSUME NEW i \in Log', NEW j \in Log', j < i, Added(i)' PROVE Message(j)' # Message(i)'
    <3>1. j \in Log
      BY <2>4, <2>7
    <3>2. CASE i \in Log
      BY <2>4, <2>7, <3>1, <3>2 DEF LogInv, Added, Message
    <3>3. CASE i = Len(changes) + 1
      <4>1. Message(j) \in 1 .. k
        BY <1>2, <3>1 DEF Known
      <4> QED
        BY <2>3, <2>4, <3>1, <3>3, <4>1 DEF Message
    <3> QED
      BY <2>4, <3>2, <3>3
  <2>8. k + 1 \in 0 .. Len(changes') /\ Len(changes') <= MaxChanges
    BY <1>3, <2>2, <2>4, SyncAssumption
  <2> QED
    BY <2>4, <2>6, <2>7, <2>8 DEF LogInv
<1>5. ASSUME NEW m \in MailIds, Delete(m) PROVE LogInv'
  <2> DEFINE c == [kind |-> "delete", msg |-> m]
  <2>1. Len(changes) < MaxChanges /\ changes' = Append(changes, c) /\ m \in Alive
    BY <1>5 DEF Delete, Change
  <2>2. c \in ChangeType /\ c.msg = m /\ c.kind = "delete"
    BY DEF ChangeType
  <2> HIDE DEF c
  <2>3. /\ changes' \in Seq(ChangeType) /\ Len(changes') = Len(changes) + 1
        /\ Log = 1 .. Len(changes) /\ Log' = Log \cup {Len(changes) + 1}
        /\ \A i \in Log : changes'[i] = changes[i]
        /\ changes'[Len(changes) + 1] = c
    BY <1>3, <2>1, <2>2, LogGrows
  <2>4. Known' = Known \cup {m} /\ m \in Known
    BY <2>1, <2>2, <2>3 DEF Known, Message, Alive
  <2>5. ASSUME NEW i \in Log', NEW j \in Log', j < i, Added(i)' PROVE Message(j)' # Message(i)'
    <3>1. i \in Log /\ j \in Log
      BY <2>2, <2>3, <2>5 DEF Added
    <3> QED
      BY <2>3, <2>5, <3>1 DEF LogInv, Added, Message
  <2>6. k \in 0 .. Len(changes') /\ Known' = 1 .. k /\ Len(changes') <= MaxChanges
    BY <1>2, <1>3, <2>1, <2>3, <2>4, SyncAssumption
  <2> QED
    BY <2>3, <2>5, <2>6 DEF LogInv
<1> QED
  BY ZenonT(40), <1>1, <1>4, <1>5 DEF SyncNext, Start, SweepSelect, SyncByHand, SyncStep, CheckPause, FetchPage, NeedsFull, List, Apply,
     ApplyFails, EndPage, RequestRefused, RecordLimit, Persist, LoseSync, PauseOver, syncVars

\* A message that is known and gone does not come back, and its entries stay.
LEMMA GoneStaysGone ==
  ASSUME LogInv, [SyncNext]_syncVars
  PROVE  /\ Len(changes) \in Nat /\ Len(changes') \in Nat /\ Len(changes) <= Len(changes')
         /\ Log = 1 .. Len(changes) /\ Log' = 1 .. Len(changes') /\ Log \subseteq Log'
         /\ \A i \in Log : changes'[i] = changes[i]
         /\ Known \subseteq Known' /\ \A m \in Known : m \in Alive' => m \in Alive
<1>1. changes \in Seq(ChangeType) /\ changes' \in Seq(ChangeType)
  BY LogStep DEF LogInv
<1>2. Len(changes) \in Nat /\ Len(changes') \in Nat /\ Log = 1 .. Len(changes) /\ Log' = 1 .. Len(changes')
  BY <1>1 DEF Log
<1>3. \/ UNCHANGED changes
      \/ \E c : changes' = Append(changes, c)
  BY ZenonT(40) DEF SyncNext, Arrive, Delete, Change, Start, SweepSelect, SyncByHand, SyncStep, CheckPause, FetchPage, NeedsFull, List,
     Apply, ApplyFails, EndPage, RequestRefused, RecordLimit, Persist, LoseSync, PauseOver, syncVars
<1>4. Len(changes) <= Len(changes') /\ \A i \in Log : changes'[i] = changes[i]
  <2>1. CASE UNCHANGED changes
    BY <1>2, <2>1
  <2>2. ASSUME NEW c, changes' = Append(changes, c) PROVE Len(changes) <= Len(changes') /\ \A i \in Log : changes'[i] = changes[i]
    BY <1>1, <1>2, <2>2
  <2> QED
    BY <1>3, <2>1, <2>2
<1>5. Log \subseteq Log'
  BY <1>2, <1>4
<1>6. Known \subseteq Known' /\ \A m \in Known : m \in Alive' => m \in Alive
  BY <1>4, <1>5 DEF Known, Alive, Message, Added
<1> QED
  BY <1>2, <1>4, <1>5, <1>6

-----------------------------------------------------------------------------
(* where a sync is, and what it has read *)

Record(s) ==
  /\ sync[s].base <= Len(changes) /\ sync[s].seen <= Len(changes) /\ sync[s].new <= Len(changes)
  /\ sync[s].todo \subseteq Log /\ sync[s].left \subseteq Log
  /\ sync[s].gone \subseteq Known /\ \A m \in sync[s].gone : m \notin Alive
  /\ sync[s].pc \in {"idle", "pause", "fetch", "list", "limit"} => sync[s].new = NoCursor
  /\ sync[s].pc = "list" => provider = "gmail"
  /\ sync[s].pc = "apply" /\ provider = "outlook" =>
       /\ sync[s].new # NoCursor
       /\ \A i \in sync[s].todo : i > sync[s].base /\ \A j \in Log : j >= i /\ j <= sync[s].new => j \in sync[s].todo

\* Until two syncs overlap there is one at most, and it started from the cursor in the row.
OneSync ==
  ~overlapped => \A s \in Syncs : sync[s].pc # "idle" =>
    sync[s].base = row.cursor /\ \A t \in Syncs : t # s => sync[t].pc = "idle"

ShapeInv ==
  /\ SyncTypeOK /\ LogInv /\ OneSync
  /\ row.cursor <= Len(changes)
  /\ \A s \in Syncs : Record(s)

LEMMA ShapeTypes ==
  ASSUME ShapeInv
  PROVE  /\ sync \in [Syncs -> SyncType] /\ changes \in Seq(ChangeType)
         /\ Len(changes) \in Nat /\ Log = 1 .. Len(changes) /\ Len(changes) <= MaxChanges
         /\ row \in [cursor : Nat, status : {"active", "error"}] /\ row.cursor \in Nat
         /\ local \in [MailIds -> LocalType] /\ overlapped \in BOOLEAN /\ skipped \subseteq 1 .. MaxChanges
         /\ provider \in {"gmail", "outlook"}
BY DEF ShapeInv, SyncTypeOK, LogInv, SyncType, ChangeType, LocalType, Log

\* A sync that does not move stays well-formed, whatever else happens.
LEMMA RecordStays ==
  ASSUME ShapeInv, [SyncNext]_syncVars, NEW t \in Syncs, sync'[t] = sync[t], UNCHANGED provider
  PROVE  Record(t)'
<1>1. /\ Len(changes) \in Nat /\ Len(changes') \in Nat /\ Len(changes) <= Len(changes')
      /\ Log = 1 .. Len(changes) /\ Log' = 1 .. Len(changes') /\ Log \subseteq Log'
      /\ Known \subseteq Known' /\ \A m \in Known : m \in Alive' => m \in Alive
  BY GoneStaysGone DEF ShapeInv
<1>2. Record(t) /\ sync[t] \in SyncType
  BY ShapeTypes DEF ShapeInv
<1>3. sync[t].base \in Nat /\ sync[t].seen \in Nat /\ sync[t].new \in Nat \cup {NoCursor}
  BY <1>2 DEF SyncType
<1>4. sync'[t].base <= Len(changes') /\ sync'[t].seen <= Len(changes') /\ sync'[t].new <= Len(changes')
  BY <1>1, <1>2, <1>3 DEF Record, NoCursor
<1>5. sync'[t].gone \subseteq Known' /\ \A m \in sync'[t].gone : m \notin Alive'
  BY <1>1, <1>2 DEF Record
<1>6. sync'[t].todo \subseteq Log' /\ sync'[t].left \subseteq Log'
  BY <1>1, <1>2 DEF Record
<1>7. ASSUME sync'[t].pc = "apply", provider' = "outlook", NEW i \in sync'[t].todo
      PROVE  i > sync'[t].base /\ \A j \in Log' : j >= i /\ j <= sync'[t].new => j \in sync'[t].todo
  BY <1>1, <1>2, <1>3, <1>7 DEF Record, NoCursor
<1>8. sync'[t].pc = "apply" /\ provider' = "outlook" => sync'[t].new # NoCursor
  BY <1>2 DEF Record
<1>9. /\ sync'[t].pc \in {"idle", "pause", "fetch", "list", "limit"} => sync'[t].new = NoCursor
      /\ sync'[t].pc = "list" => provider' = "gmail"
  BY <1>2 DEF Record
<1> QED
  BY <1>4, <1>5, <1>6, <1>7, <1>8, <1>9 DEF Record

LEMMA SetTo ==
  ASSUME ShapeInv, NEW s \in Syncs, NEW r \in SyncType, sync' = [sync EXCEPT ![s] = r]
  PROVE  sync' \in [Syncs -> SyncType] /\ sync'[s] = r /\ \A t \in Syncs : t # s => sync'[t] = sync[t]
BY ShapeTypes

\* What each step makes of its sync.
Moves(s, r) == r \in SyncType /\ sync' = [sync EXCEPT ![s] = r]

LEMMA NoSyncType == NoSync \in SyncType
BY DEF NoSync, SyncType, NoCursor

LEMMA Moved ==
  ASSUME ShapeInv, NEW s \in Syncs
  PROVE  /\ \A pc \in {"pause", "fetch"} : Start(s, pc) => Moves(s, [NoSync EXCEPT !.pc = pc, !.base = row.cursor])
         /\ CheckPause(s) => Moves(s, NoSync) \/ (sync[s].pc = "pause" /\ Moves(s, [sync[s] EXCEPT !.pc = "fetch"]))
         /\ NeedsFull(s) => Moves(s, [sync[s] EXCEPT !.pc = "list"])
         /\ RecordLimit(s) => Moves(s, [sync[s] EXCEPT !.pc = "persist"])
         /\ Persist(s) \/ LoseSync(s) => Moves(s, NoSync)
         /\ RequestRefused(s) => \E pc \in {"limit", "persist"}, failed \in BOOLEAN :
              Moves(s, [sync[s] EXCEPT !.pc = pc, !.failed = failed])
<1>1. sync \in [Syncs -> SyncType] /\ row.cursor \in Nat /\ sync[s] \in SyncType
  BY ShapeTypes
<1>2. \A pc \in {"pause", "fetch"} : [NoSync EXCEPT !.pc = pc, !.base = row.cursor] \in SyncType
  BY <1>1 DEF NoSync, SyncType, NoCursor
<1>3. \A pc \in {"fetch", "list", "limit", "persist"}, failed \in BOOLEAN :
        [sync[s] EXCEPT !.pc = pc] \in SyncType /\ [sync[s] EXCEPT !.pc = pc, !.failed = failed] \in SyncType
  BY <1>1 DEF SyncType
<1>4. \A pc \in {"pause", "fetch"} : Start(s, pc) => Moves(s, [NoSync EXCEPT !.pc = pc, !.base = row.cursor])
  BY <1>2 DEF Start, Moves
<1>5. CheckPause(s) => Moves(s, NoSync) \/ (sync[s].pc = "pause" /\ Moves(s, [sync[s] EXCEPT !.pc = "fetch"]))
  BY <1>1, <1>3, NoSyncType DEF CheckPause, Moves
<1>6. NeedsFull(s) => Moves(s, [sync[s] EXCEPT !.pc = "list"])
  BY <1>1, <1>3 DEF NeedsFull, Moves
<1>7. RecordLimit(s) => Moves(s, [sync[s] EXCEPT !.pc = "persist"])
  BY <1>1, <1>3 DEF RecordLimit, Moves
<1>8. Persist(s) \/ LoseSync(s) => Moves(s, NoSync)
  BY NoSyncType DEF Persist, LoseSync, Moves
<1>9. ASSUME RequestRefused(s)
      PROVE  \E pc \in {"limit", "persist"}, failed \in BOOLEAN : Moves(s, [sync[s] EXCEPT !.pc = pc, !.failed = failed])
  <2>1. PICK limited \in BOOLEAN :
          sync' = [sync EXCEPT ![s].pc = IF limited THEN "limit" ELSE "persist",
                               ![s].failed = @ \/ sync[s].pc # "apply"]
    BY <1>9 DEF RequestRefused
  <2>2. (sync[s].failed \/ sync[s].pc # "apply") \in BOOLEAN
    BY <1>1 DEF SyncType
  <2>3. sync' = [sync EXCEPT ![s] = [sync[s] EXCEPT !.pc = IF limited THEN "limit" ELSE "persist",
                                                   !.failed = sync[s].failed \/ sync[s].pc # "apply"]]
    BY <1>1, <2>1
  <2> QED
    BY <1>3, <2>2, <2>3 DEF Moves
<1> QED
  BY <1>4, <1>5, <1>6, <1>7, <1>8, <1>9

\* The same of the steps that read a page or apply it.
PageOf(s, last) ==
  [sync[s] EXCEPT !.pc = "apply", !.todo = (sync[s].base + 1) .. last,
     !.gone = IF provider = "outlook" THEN Known \ Alive ELSE {},
     !.new = IF provider = "outlook" THEN last ELSE Len(changes),
     !.left = IF provider = "outlook" THEN {} ELSE (last + 1) .. Len(changes)]

ListOf(s) ==
  [sync[s] EXCEPT !.pc = IF Alive = {} THEN "persist" ELSE "apply", !.seen = Len(changes),
     !.todo = {i \in Log : Added(i) /\ Message(i) \in FirstPage},
     !.left = {i \in Log : IF Added(i) THEN Message(i) \in Alive \ FirstPage ELSE i > sync[s].base}]

EndOf(s) ==
  [sync[s] EXCEPT !.pc = "persist", !.new = IF Full(s) THEN Len(changes) ELSE @,
     !.left = IF Full(s) THEN @ \cup (sync[s].seen + 1) .. Len(changes) ELSE @]

LEMMA MessagesKnown ==
  ASSUME ShapeInv
  PROVE  /\ Known \subseteq MailIds /\ \A i \in Log : Message(i) \in Known /\ changes[i].kind \in {"add", "delete"}
         /\ Log \subseteq 1 .. MaxChanges
<1>1. \A i \in Log : changes[i] \in ChangeType
  BY ShapeTypes
<1> QED
  BY <1>1, ShapeTypes, SyncAssumption DEF Known, Message, ChangeType

LEMMA PageMoves ==
  ASSUME ShapeInv, NEW s \in Syncs, FetchPage(s)
  PROVE  \E last \in Nat : sync[s].base <= last /\ last <= Len(changes) /\ Moves(s, PageOf(s, last))
<1> DEFINE last == Upto(sync[s].base, Page)
<1>1. sync[s] \in SyncType /\ sync[s].base \in Nat /\ sync[s].base <= Len(changes) /\ Len(changes) \in Nat
  BY ShapeTypes DEF ShapeInv, Record, SyncType
<1>2. last \in Nat /\ sync[s].base <= last /\ last <= Len(changes)
  BY <1>1, SyncAssumption DEF Upto
<1>3. sync' = [sync EXCEPT ![s] = PageOf(s, last)]
  BY ShapeTypes DEF FetchPage, PageOf
<1> HIDE DEF last
<1>4. (sync[s].base + 1) .. last \subseteq 1 .. MaxChanges /\ (last + 1) .. Len(changes) \subseteq 1 .. MaxChanges
  BY <1>1, <1>2, ShapeTypes, SyncAssumption
<1>5. PageOf(s, last) \in SyncType
  BY <1>1, <1>2, <1>4, MessagesKnown DEF PageOf, SyncType
<1> QED
  BY <1>2, <1>3, <1>5 DEF Moves

LEMMA ListMoves ==
  ASSUME ShapeInv, NEW s \in Syncs, List(s)
  PROVE  Moves(s, ListOf(s))
<1>1. sync[s] \in SyncType /\ Len(changes) \in Nat
  BY ShapeTypes
<1>2. ListOf(s) \in SyncType
  BY <1>1, MessagesKnown DEF ListOf, SyncType
<1>3. sync' = [sync EXCEPT ![s] = ListOf(s)]
  BY ZenonT(40), ShapeTypes DEF List, ListOf
<1> QED
  BY <1>2, <1>3 DEF Moves

LEMMA ApplyMoves ==
  ASSUME ShapeInv, NEW s \in Syncs, Apply(s)
  PROVE  \E added \in BOOLEAN : Moves(s, [sync[s] EXCEPT !.todo = @ \ {Min(sync[s].todo)}, !.added = added])
<1>1. sync[s] \in SyncType
  BY ShapeTypes
<1>2. sync[s].added \in BOOLEAN
  BY <1>1 DEF SyncType
<1>3. \A added \in BOOLEAN : [sync[s] EXCEPT !.todo = @ \ {Min(sync[s].todo)}, !.added = added] \in SyncType
  BY <1>1 DEF SyncType
<1>4. \/ sync' = [sync EXCEPT ![s].todo = @ \ {Min(sync[s].todo)}, ![s].added = TRUE]
      \/ sync' = [sync EXCEPT ![s].todo = @ \ {Min(sync[s].todo)}]
  BY DEF Apply
<1>5. CASE sync' = [sync EXCEPT ![s].todo = @ \ {Min(sync[s].todo)}, ![s].added = TRUE]
  <2>1. sync' = [sync EXCEPT ![s] = [sync[s] EXCEPT !.todo = @ \ {Min(sync[s].todo)}, !.added = TRUE]]
    BY <1>5, ShapeTypes
  <2> QED
    BY <1>3, <2>1 DEF Moves
<1>6. CASE sync' = [sync EXCEPT ![s].todo = @ \ {Min(sync[s].todo)}]
  <2>1. [sync[s] EXCEPT !.todo = @ \ {Min(sync[s].todo)}, !.added = sync[s].added]
          = [sync[s] EXCEPT !.todo = @ \ {Min(sync[s].todo)}]
    BY <1>1 DEF SyncType
  <2>2. sync' = [sync EXCEPT ![s] = [sync[s] EXCEPT !.todo = @ \ {Min(sync[s].todo)}]]
    BY <1>6, ShapeTypes
  <2>3. sync' = [sync EXCEPT ![s] = [sync[s] EXCEPT !.todo = @ \ {Min(sync[s].todo)}, !.added = sync[s].added]]
    BY <2>1, <2>2
  <2> QED
    BY <1>2, <1>3, <2>3 DEF Moves
<1> QED
  BY <1>4, <1>5, <1>6

LEMMA FailMoves ==
  ASSUME ShapeInv, NEW s \in Syncs, ApplyFails(s)
  PROVE  \/ Full(s) /\ Moves(s, [sync[s] EXCEPT !.failed = TRUE, !.todo = @ \ {Min(sync[s].todo)},
                                               !.left = @ \cup {Min(sync[s].todo)}])
         \/ Moves(s, [sync[s] EXCEPT !.failed = TRUE, !.pc = "persist", !.new = NoCursor])
<1> DEFINE r == [sync[s] EXCEPT !.failed = TRUE, !.todo = @ \ {Min(sync[s].todo)}, !.left = @ \cup {Min(sync[s].todo)}]
           q == [sync[s] EXCEPT !.failed = TRUE, !.pc = "persist", !.new = NoCursor]
<1>1. sync[s] \in SyncType /\ sync[s].todo \subseteq 1 .. MaxChanges
  BY ShapeTypes DEF SyncType
<1>2. Min(sync[s].todo) \in 1 .. MaxChanges
  BY <1>1, FirstPlace, SyncAssumption DEF ApplyFails
<1>3. r \in SyncType /\ q \in SyncType
  BY <1>1, <1>2 DEF SyncType, NoCursor
<1>4. sync' = [sync EXCEPT ![s] = IF Full(s) THEN r ELSE q]
  BY ShapeTypes DEF ApplyFails, NewAfterError
<1> HIDE DEF r, q
<1>5. (Full(s) /\ Moves(s, r)) \/ Moves(s, q)
  BY <1>3, <1>4 DEF Moves
<1> QED
  BY <1>5 DEF r, q

LEMMA EndMoves ==
  ASSUME ShapeInv, NEW s \in Syncs, EndPage(s)
  PROVE  Moves(s, EndOf(s))
<1>1. sync[s] \in SyncType /\ Len(changes) \in Nat /\ sync[s].seen \in Nat
  BY ShapeTypes DEF SyncType
<1>2. (sync[s].seen + 1) .. Len(changes) \subseteq 1 .. MaxChanges
  BY <1>1, ShapeTypes, SyncAssumption
<1>3. EndOf(s) \in SyncType
  BY <1>1, <1>2 DEF EndOf, SyncType
<1>4. sync' = [sync EXCEPT ![s] = EndOf(s)]
  BY ShapeTypes DEF EndPage, EndOf
<1> QED
  BY <1>3, <1>4 DEF Moves

\* The steps that move a sync, and the others.
MovesOne(s) == SweepSelect(s) \/ SyncByHand(s) \/ SyncStep(s) \/ LoseSync(s)

LEMMA OneMoves ==
  ASSUME ShapeInv, NEW s \in Syncs, MovesOne(s)
  PROVE  /\ UNCHANGED <<changes, provider>>
         /\ sync' \in [Syncs -> SyncType] /\ \A t \in Syncs : t # s => sync'[t] = sync[t]
<1>1. UNCHANGED <<changes, provider>>
  BY ZenonT(40) DEF MovesOne, SweepSelect, SyncByHand, Start, SyncStep, LoseSync, CheckPause, FetchPage, NeedsFull, List, Apply,
     ApplyFails, EndPage, RequestRefused, RecordLimit, Persist
<1>2. \E r \in SyncType : sync' = [sync EXCEPT ![s] = r]
  <2>1. CASE SweepSelect(s) \/ SyncByHand(s) \/ LoseSync(s) \/ CheckPause(s) \/ NeedsFull(s) \/ RecordLimit(s)
             \/ Persist(s) \/ RequestRefused(s)
    BY ZenonT(40), <2>1, Moved DEF Moves, SweepSelect, SyncByHand
  <2>2. CASE FetchPage(s)
    BY <2>2, PageMoves DEF Moves
  <2>3. CASE List(s)
    BY <2>3, ListMoves DEF Moves
  <2>4. CASE Apply(s)
    BY <2>4, ApplyMoves DEF Moves
  <2>5. CASE ApplyFails(s)
    BY <2>5, FailMoves DEF Moves
  <2>6. CASE EndPage(s)
    BY <2>6, EndMoves DEF Moves
  <2> QED
    BY <2>1, <2>2, <2>3, <2>4, <2>5, <2>6 DEF MovesOne, SyncStep
<1> QED
  BY ZenonT(40), <1>1, <1>2, SetTo

\* A sync that only changes its place, its failures, or drops its cursor.
LEMMA RecordKept ==
  ASSUME ShapeInv, NEW s \in Syncs, UNCHANGED <<changes, provider>>,
         sync'[s].base = sync[s].base, sync'[s].seen = sync[s].seen, sync'[s].gone = sync[s].gone,
         sync'[s].todo \subseteq sync[s].todo, sync'[s].left \subseteq Log,
         sync'[s].new = sync[s].new \/ sync'[s].new = NoCursor,
         sync'[s].pc # "apply", sync'[s].pc = "list" => provider = "gmail",
         sync'[s].pc \in {"idle", "pause", "fetch", "list", "limit"} => sync'[s].new = NoCursor
  PROVE  Record(s)'
<1>1. Record(s) /\ NoCursor <= Len(changes)
  BY ShapeTypes DEF ShapeInv, NoCursor
<1>2. (Log' = Log) /\ (Known' = Known) /\ (Alive' = Alive)
  BY DEF Log, Known, Alive, Message, Added
<1> QED
  BY <1>1, <1>2 DEF Record

LEMMA RecordMoves ==
  ASSUME ShapeInv, NEW s \in Syncs, MovesOne(s)
  PROVE  Record(s)'
<1>1. UNCHANGED <<changes, provider>>
  BY OneMoves
<1>2. /\ sync[s] \in SyncType /\ Record(s) /\ Len(changes) \in Nat /\ Log = 1 .. Len(changes)
      /\ row.cursor \in Nat /\ row.cursor <= Len(changes)
      /\ sync[s].base \in Nat /\ sync[s].seen \in Nat /\ sync[s].new \in Nat \cup {NoCursor}
  BY ShapeTypes DEF ShapeInv, SyncType
<1>3. (Log' = Log) /\ (Known' = Known) /\ (Alive' = Alive)
  BY <1>1 DEF Log, Known, Alive, Message, Added
<1>4. ASSUME NEW pc \in {"pause", "fetch"}, Start(s, pc) PROVE Record(s)'
  <2>1. sync'[s] = [NoSync EXCEPT !.pc = pc, !.base = row.cursor]
    <3>1. Moves(s, [NoSync EXCEPT !.pc = pc, !.base = row.cursor])
      BY <1>4, Moved
    <3> QED
      BY <3>1, SetTo DEF Moves
  <2>2. /\ sync'[s].pc = pc /\ sync'[s].base = row.cursor /\ sync'[s].todo = {} /\ sync'[s].left = {}
        /\ sync'[s].gone = {} /\ sync'[s].seen = 0 /\ sync'[s].new = NoCursor
    BY <2>1 DEF NoSync
  <2> QED
    BY <1>1, <1>2, <2>2 DEF Record, NoCursor
<1>5. ASSUME Moves(s, NoSync) PROVE Record(s)'
  <2>1. /\ sync'[s].pc = "idle" /\ sync'[s].base = 0 /\ sync'[s].todo = {} /\ sync'[s].left = {}
        /\ sync'[s].gone = {} /\ sync'[s].seen = 0 /\ sync'[s].new = NoCursor
    BY <1>5, SetTo DEF Moves, NoSync
  <2> QED
    BY <1>1, <1>2, <2>1 DEF Record, NoCursor
<1>6. ASSUME NEW pc \in {"fetch", "list", "limit", "persist"}, NEW failed \in BOOLEAN,
             Moves(s, [sync[s] EXCEPT !.pc = pc]) \/ Moves(s, [sync[s] EXCEPT !.pc = pc, !.failed = failed]),
             pc = "list" => provider = "gmail", pc # "persist" => sync[s].new = NoCursor
      PROVE  Record(s)'
  <2>1. sync'[s] = [sync[s] EXCEPT !.pc = pc] \/ sync'[s] = [sync[s] EXCEPT !.pc = pc, !.failed = failed]
    BY <1>6, SetTo DEF Moves
  <2>2. /\ sync'[s].pc = pc /\ sync'[s].base = sync[s].base /\ sync'[s].todo = sync[s].todo
        /\ sync'[s].left = sync[s].left /\ sync'[s].gone = sync[s].gone /\ sync'[s].seen = sync[s].seen
        /\ sync'[s].new = sync[s].new
    BY <1>2, <2>1 DEF SyncType
  <2>3. sync[s].left \subseteq Log
    BY <1>2 DEF Record
  <2> QED
    BY <1>1, <1>6, <2>2, <2>3, RecordKept
<1>7. CASE CheckPause(s) \/ NeedsFull(s) \/ RecordLimit(s)
  <2>1. sync[s].new = NoCursor
    BY <1>2, <1>7 DEF CheckPause, NeedsFull, RecordLimit, Record
  <2>2. NeedsFull(s) => provider = "gmail"
    BY DEF NeedsFull
  <2>3. \/ Moves(s, NoSync)
        \/ \E pc \in {"fetch", "persist"} : Moves(s, [sync[s] EXCEPT !.pc = pc])
        \/ NeedsFull(s) /\ Moves(s, [sync[s] EXCEPT !.pc = "list"])
    BY <1>7, Moved
  <2> QED
    BY <1>5, <1>6, <2>1, <2>2, <2>3
<1>8. CASE RequestRefused(s)
  <2>1. PICK pc \in {"limit", "persist"}, failed \in BOOLEAN : Moves(s, [sync[s] EXCEPT !.pc = pc, !.failed = failed])
    BY <1>8, Moved
  <2>2. sync[s].new = NoCursor
    BY <1>2, <1>8 DEF RequestRefused, Record, Full
  <2> QED
    BY <1>6, <2>1, <2>2
<1>9. CASE FetchPage(s)
  <2>1. PICK last \in Nat : sync[s].base <= last /\ last <= Len(changes) /\ Moves(s, PageOf(s, last))
    BY <1>9, PageMoves
  <2>2. sync'[s] = PageOf(s, last)
    BY <2>1, SetTo DEF Moves
  <2>3. /\ sync'[s].pc = "apply" /\ sync'[s].base = sync[s].base /\ sync'[s].todo = (sync[s].base + 1) .. last
        /\ sync'[s].left = (IF provider = "outlook" THEN {} ELSE (last + 1) .. Len(changes))
        /\ sync'[s].gone = (IF provider = "outlook" THEN Known \ Alive ELSE {}) /\ sync'[s].seen = sync[s].seen
        /\ sync'[s].new = (IF provider = "outlook" THEN last ELSE Len(changes))
    BY <1>2, <2>2 DEF PageOf, SyncType
  <2>4. sync'[s].todo \subseteq Log /\ sync'[s].left \subseteq Log
    BY <1>2, <2>1, <2>3
  <2>5. sync'[s].gone \subseteq Known /\ \A m \in sync'[s].gone : m \notin Alive
    BY <2>3
  <2>6. sync'[s].new # NoCursor /\ sync'[s].new <= Len(changes)
    BY <1>2, <2>1, <2>3 DEF NoCursor
  <2>7. provider = "outlook" => \A i \in sync'[s].todo : i > sync'[s].base /\
          \A j \in Log : j >= i /\ j <= sync'[s].new => j \in sync'[s].todo
    BY <1>2, <2>1, <2>3
  <2> QED
    BY <1>1, <1>2, <1>3, <2>3, <2>4, <2>5, <2>6, <2>7 DEF Record
<1>10. CASE List(s)
  <2>1. sync'[s] = ListOf(s) /\ sync[s].pc = "list"
    BY ZenonT(40), <1>10, ListMoves, SetTo DEF Moves, List
  <2>2. /\ sync'[s].pc \in {"persist", "apply"} /\ sync'[s].base = sync[s].base /\ sync'[s].seen = Len(changes)
        /\ sync'[s].todo \subseteq Log /\ sync'[s].left \subseteq Log
        /\ sync'[s].gone = sync[s].gone /\ sync'[s].new = sync[s].new
    BY <1>2, <2>1 DEF ListOf, SyncType
  <2>3. provider = "gmail" /\ sync[s].new = NoCursor
    BY <1>2, <2>1 DEF Record
  <2> QED
    BY SMTT(30), <1>1, <1>2, <1>3, <2>2, <2>3 DEF Record
<1>11. CASE Apply(s)
  <2>1. PICK added \in BOOLEAN : Moves(s, [sync[s] EXCEPT !.todo = @ \ {Min(sync[s].todo)}, !.added = added])
    BY <1>11, ApplyMoves
  <2>2. /\ sync'[s].pc = "apply" /\ sync'[s].base = sync[s].base /\ sync'[s].seen = sync[s].seen
        /\ sync'[s].todo = sync[s].todo \ {Min(sync[s].todo)} /\ sync'[s].left = sync[s].left
        /\ sync'[s].gone = sync[s].gone /\ sync'[s].new = sync[s].new
    BY <1>2, <1>11, <2>1, SetTo DEF Moves, SyncType, Apply
  <2>3. sync[s].pc = "apply" /\ sync[s].todo # {} /\ sync[s].todo \subseteq Log
    BY <1>2, <1>11 DEF Apply, Record
  <2>4. \A i \in sync[s].todo : Min(sync[s].todo) <= i /\ Min(sync[s].todo) \in Nat
    BY <1>2, <2>3, FirstPlace
  <2>5. ASSUME provider = "outlook", NEW i \in sync'[s].todo
        PROVE  i > sync'[s].base /\ \A j \in Log : j >= i /\ j <= sync'[s].new => j \in sync'[s].todo
    <3>1. i \in sync[s].todo /\ i # Min(sync[s].todo)
      BY <2>2, <2>5
    <3>2. i > Min(sync[s].todo) /\ i \in Nat
      BY <1>2, <2>3, <2>4, <3>1
    <3>3. i > sync[s].base /\ \A j \in Log : j >= i /\ j <= sync[s].new => j \in sync[s].todo
      BY SMTT(30), <1>2, <2>3, <2>5, <3>1 DEF Record
    <3> QED
      BY <1>2, <2>2, <2>4, <3>2, <3>3
  <2> QED
    BY <1>1, <1>2, <1>3, <2>2, <2>3, <2>5 DEF Record
<1>12. CASE ApplyFails(s)
  <2>1. sync[s].pc = "apply" /\ sync[s].todo # {} /\ sync[s].todo \subseteq Log /\ sync[s].left \subseteq Log
    BY <1>2, <1>12 DEF ApplyFails, Record
  <2>2. Min(sync[s].todo) \in Log
    BY <1>2, <2>1, FirstPlace
  <2>3. CASE Full(s) /\ Moves(s, [sync[s] EXCEPT !.failed = TRUE, !.todo = @ \ {Min(sync[s].todo)},
                                                 !.left = @ \cup {Min(sync[s].todo)}])
    <3>1. /\ sync'[s].pc = "apply" /\ sync'[s].base = sync[s].base /\ sync'[s].seen = sync[s].seen
          /\ sync'[s].todo = sync[s].todo \ {Min(sync[s].todo)}
          /\ sync'[s].left = sync[s].left \cup {Min(sync[s].todo)}
          /\ sync'[s].gone = sync[s].gone /\ sync'[s].new = sync[s].new
      BY ZenonT(40), <1>2, <2>1, <2>3, SetTo DEF Moves, SyncType
    <3>2. provider = "gmail"
      BY <2>3 DEF Full
    <3> QED
      BY SMTT(30), <1>1, <1>2, <1>3, <2>1, <2>2, <3>1, <3>2 DEF Record
  <2>4. CASE Moves(s, [sync[s] EXCEPT !.failed = TRUE, !.pc = "persist", !.new = NoCursor])
    <3>1. /\ sync'[s].pc = "persist" /\ sync'[s].base = sync[s].base /\ sync'[s].seen = sync[s].seen
          /\ sync'[s].todo = sync[s].todo /\ sync'[s].left = sync[s].left
          /\ sync'[s].gone = sync[s].gone /\ sync'[s].new = NoCursor
      BY ZenonT(40), <1>2, <2>4, SetTo DEF Moves, SyncType
    <3> QED
      BY <1>1, <2>1, <3>1, RecordKept
  <2> QED
    BY <1>12, <2>3, <2>4, FailMoves
<1>13. CASE EndPage(s)
  <2>1. sync'[s] = EndOf(s)
    BY <1>13, EndMoves, SetTo DEF Moves
  <2>2. /\ sync'[s].pc = "persist" /\ sync'[s].base = sync[s].base /\ sync'[s].seen = sync[s].seen
        /\ sync'[s].todo = sync[s].todo /\ sync'[s].gone = sync[s].gone
        /\ sync'[s].left = (IF Full(s) THEN sync[s].left \cup (sync[s].seen + 1) .. Len(changes) ELSE sync[s].left)
        /\ sync'[s].new = (IF Full(s) THEN Len(changes) ELSE sync[s].new)
    BY <1>2, <2>1 DEF EndOf, SyncType
  <2>3. sync'[s].left \subseteq Log /\ sync'[s].new <= Len(changes)
    BY <1>2, <2>2 DEF Record
  <2> QED
    BY <1>1, <1>2, <1>3, <2>2, <2>3 DEF Record
<1>14. CASE SweepSelect(s) \/ SyncByHand(s)
  BY <1>4, <1>14 DEF SweepSelect, SyncByHand
<1>15. CASE Persist(s) \/ LoseSync(s)
  BY <1>5, <1>15, Moved
<1> QED
  BY <1>7, <1>8, <1>9, <1>10, <1>11, <1>12, <1>13, <1>14, <1>15 DEF MovesOne, SyncStep

LEMMA ShapeInit == SyncInit => ShapeInv
<1> SUFFICES ASSUME SyncInit PROVE ShapeInv
  OBVIOUS
<1>1. LogInv
  BY LogInit
<1>2. SyncTypeOK
  <2>1. sync \in [Syncs -> SyncType]
    BY NoSyncType DEF SyncInit
  <2>2. /\ provider \in {"gmail", "outlook"} /\ timer \in BOOLEAN /\ row \in [cursor : Nat, status : {"active", "error"}]
        /\ pause \in {"none", "redis", "memory"} /\ overlapped \in BOOLEAN /\ skipped \subseteq 1 .. MaxChanges
        /\ local \in [MailIds -> {"absent", "inbox", "trash"}]
    BY DEF SyncInit
  <2>3. syncFaults \in 0 .. SyncMaxFaults
    BY SyncAssumption DEF SyncInit
  <2> QED
    BY <1>1, <2>1, <2>2, <2>3 DEF SyncTypeOK, SyncType, LogInv, ChangeType
<1>3. OneSync
  BY DEF SyncInit, OneSync, NoSync
<1>4. row.cursor <= Len(changes) /\ Len(changes) = 0
  BY DEF SyncInit
<1>5. \A s \in Syncs : Record(s)
  BY <1>4 DEF SyncInit, Record, NoSync, NoCursor
<1> QED
  BY <1>1, <1>2, <1>3, <1>4, <1>5 DEF ShapeInv

LEMMA OneSyncStep ==
  ASSUME ShapeInv, [SyncNext]_syncVars
  PROVE  OneSync'
<1>1. sync \in [Syncs -> SyncType] /\ overlapped \in BOOLEAN
  BY ShapeTypes
<1>2. CASE UNCHANGED <<overlapped, row, sync>>
  BY <1>2 DEF ShapeInv, OneSync
<1>3. ASSUME NEW s \in Syncs, SweepSelect(s) \/ SyncByHand(s) PROVE OneSync'
  <2>1. PICK pc \in {"pause", "fetch"} : Start(s, pc)
    BY <1>3 DEF SweepSelect, SyncByHand
  <2>2. /\ \A t \in Syncs : t # s => sync'[t] = sync[t]
        /\ sync'[s].base = row.cursor /\ sync'[s].pc # "idle"
    <3>1. Moves(s, [NoSync EXCEPT !.pc = pc, !.base = row.cursor])
      BY <2>1, Moved
    <3> QED
      BY <3>1, SetTo DEF Moves, NoSync
  <2>3. /\ sync[s].pc = "idle" /\ UNCHANGED row
        /\ ~overlapped' => ~overlapped /\ \A t \in Syncs : sync[t].pc = "idle"
    BY <2>1 DEF Start
  <2> QED
    BY <2>2, <2>3 DEF OneSync
<1>4. ASSUME NEW s \in Syncs, sync'[s].pc = "idle", \A t \in Syncs : t # s => sync'[t] = sync[t],
             sync[s].pc # "idle", UNCHANGED overlapped
      PROVE  OneSync'
  BY <1>4 DEF ShapeInv, OneSync
<1>5. ASSUME NEW s \in Syncs, sync'[s].base = sync[s].base, \A t \in Syncs : t # s => sync'[t] = sync[t],
             sync[s].pc # "idle", UNCHANGED <<overlapped, row>>
      PROVE  OneSync'
  BY <1>5 DEF ShapeInv, OneSync
<1>6. ASSUME NEW s \in Syncs, SyncStep(s) \/ LoseSync(s) PROVE OneSync'
  <2>1. sync[s].pc # "idle" /\ UNCHANGED overlapped /\ \A t \in Syncs : t # s => sync'[t] = sync[t]
    <3>1. \A t \in Syncs : t # s => sync'[t] = sync[t]
      BY <1>6, OneMoves DEF MovesOne
    <3> QED
      BY ZenonT(40), <1>6, <3>1 DEF SyncStep, LoseSync, CheckPause, FetchPage, NeedsFull, List, Apply, ApplyFails, EndPage,
         RequestRefused, RecordLimit, Persist
  <2>2. CASE Persist(s) \/ LoseSync(s) \/ Moves(s, NoSync)
    <3>1. sync'[s].pc = "idle"
      <4>1. Moves(s, NoSync)
        BY <2>2, Moved
      <4> QED
        BY <4>1, SetTo DEF Moves, NoSync
    <3> QED
      BY <1>4, <2>1, <3>1
  <2>3. CASE SyncStep(s) /\ ~Persist(s) /\ ~Moves(s, NoSync)
    <3>1. UNCHANGED row
      BY ZenonT(40), <2>3 DEF SyncStep, CheckPause, FetchPage, NeedsFull, List, Apply, ApplyFails, EndPage, RequestRefused, RecordLimit, Persist
    <3>2. sync[s] \in SyncType
      BY <1>1
    <3>3. CASE CheckPause(s) \/ NeedsFull(s) \/ RecordLimit(s)
      <4>1. \E pc \in {"fetch", "list", "persist"} : Moves(s, [sync[s] EXCEPT !.pc = pc])
        BY <2>3, <3>3, Moved
      <4>2. sync'[s].base = sync[s].base
        BY <3>2, <4>1, SetTo DEF Moves, SyncType
      <4> QED
        BY <1>5, <2>1, <3>1, <4>2
    <3>4. CASE RequestRefused(s)
      <4>1. \E pc \in {"limit", "persist"}, failed \in BOOLEAN : Moves(s, [sync[s] EXCEPT !.pc = pc, !.failed = failed])
        BY <3>4, Moved
      <4>2. sync'[s].base = sync[s].base
        BY <3>2, <4>1, SetTo DEF Moves, SyncType
      <4> QED
        BY <1>5, <2>1, <3>1, <4>2
    <3>5. CASE FetchPage(s)
      <4>1. PICK last \in Nat : Moves(s, PageOf(s, last))
        BY <3>5, PageMoves
      <4>2. sync'[s].base = sync[s].base
        <5>1. sync'[s] = PageOf(s, last)
          BY <4>1, SetTo DEF Moves
        <5> QED
          BY <3>2, <5>1 DEF SyncType, PageOf
      <4> QED
        BY <1>5, <2>1, <3>1, <4>2
    <3>6. CASE List(s) \/ EndPage(s)
      <4>1. Moves(s, ListOf(s)) \/ Moves(s, EndOf(s))
        BY <3>6, ListMoves, EndMoves
      <4>2. sync'[s].base = sync[s].base
        <5>1. sync'[s] = ListOf(s) \/ sync'[s] = EndOf(s)
          BY <4>1, SetTo DEF Moves
        <5> QED
          BY <3>2, <5>1 DEF SyncType, ListOf, EndOf
      <4> QED
        BY <1>5, <2>1, <3>1, <4>2
    <3>7. CASE Apply(s)
      <4>1. PICK added \in BOOLEAN : Moves(s, [sync[s] EXCEPT !.todo = @ \ {Min(sync[s].todo)}, !.added = added])
        BY <3>7, ApplyMoves
      <4>2. sync'[s].base = sync[s].base
        BY SMTT(30), <3>2, <4>1, SetTo DEF Moves, SyncType
      <4> QED
        BY <1>5, <2>1, <3>1, <4>2
    <3>8. CASE ApplyFails(s)
      <4>1. \/ Moves(s, [sync[s] EXCEPT !.failed = TRUE, !.todo = @ \ {Min(sync[s].todo)},
                                        !.left = @ \cup {Min(sync[s].todo)}])
            \/ Moves(s, [sync[s] EXCEPT !.failed = TRUE, !.pc = "persist", !.new = NoCursor])
        BY <3>8, FailMoves
      <4>2. sync'[s].base = sync[s].base
        <5>1. \/ sync'[s] = [sync[s] EXCEPT !.failed = TRUE, !.todo = @ \ {Min(sync[s].todo)},
                                            !.left = @ \cup {Min(sync[s].todo)}]
              \/ sync'[s] = [sync[s] EXCEPT !.failed = TRUE, !.pc = "persist", !.new = NoCursor]
          BY <4>1, SetTo DEF Moves
        <5> QED
          BY <3>2, <5>1 DEF SyncType
      <4> QED
        BY <1>5, <2>1, <3>1, <4>2
    <3> QED
      BY SMTT(30), <2>3, <3>3, <3>4, <3>5, <3>6, <3>7, <3>8 DEF SyncStep
  <2> QED
    BY <1>6, <2>2, <2>3
<1> QED
  BY <1>2, <1>3, <1>6 DEF SyncNext, Arrive, Delete, Change, PauseOver, syncVars

LEMMA SyncTypeStep ==
  ASSUME ShapeInv, [SyncNext]_syncVars
  PROVE  SyncTypeOK' /\ row'.cursor <= Len(changes') /\ UNCHANGED provider
<1>1. LogInv' /\ changes' \in Seq(ChangeType)
  BY LogStep DEF ShapeInv, LogInv
<1>2. /\ timer \in BOOLEAN /\ pause \in {"none", "redis", "memory"} /\ syncFaults \in 0 .. SyncMaxFaults
      /\ sync \in [Syncs -> SyncType] /\ Len(changes) \in Nat
      /\ row \in [cursor : Nat, status : {"active", "error"}] /\ row.cursor \in Nat /\ row.cursor <= Len(changes)
      /\ local \in [MailIds -> LocalType] /\ overlapped \in BOOLEAN /\ skipped \subseteq 1 .. MaxChanges
      /\ provider \in {"gmail", "outlook"}
  BY ShapeTypes DEF ShapeInv, SyncTypeOK
<1>3. SyncFault => syncFaults' \in 0 .. SyncMaxFaults
  BY <1>2, SyncAssumption DEF SyncFault
<1>4. Len(changes') \in Nat /\ Len(changes) <= Len(changes')
  BY GoneStaysGone DEF ShapeInv
<1>5. ASSUME UNCHANGED provider, timer' \in BOOLEAN, pause' \in {"none", "redis", "memory"},
             syncFaults' \in 0 .. SyncMaxFaults, sync' \in [Syncs -> SyncType],
             row' \in [cursor : Nat, status : {"active", "error"}], row'.cursor <= Len(changes'),
             local' \in [MailIds -> LocalType], overlapped' \in BOOLEAN, skipped' \subseteq 1 .. MaxChanges
      PROVE  SyncTypeOK' /\ row'.cursor <= Len(changes') /\ UNCHANGED provider
  BY <1>1, <1>2, <1>5 DEF SyncTypeOK, SyncType, ChangeType, LocalType
<1>6. CASE UNCHANGED syncVars
  BY <1>2, <1>5, <1>6 DEF syncVars
<1>7. CASE Arrive \/ (\E m \in MailIds : Delete(m)) \/ PauseOver
  <2>1. row'.cursor <= Len(changes')
    <3>1. UNCHANGED row
      BY <1>7 DEF Arrive, Delete, Change, PauseOver
    <3> QED
      BY <1>2, <1>4, <3>1
  <2> QED
    BY <1>2, <1>5, <1>7, <2>1 DEF Arrive, Delete, Change, PauseOver
<1>8. ASSUME NEW s \in Syncs, MovesOne(s)
      PROVE  SyncTypeOK' /\ row'.cursor <= Len(changes') /\ UNCHANGED provider
  <2>1. UNCHANGED <<changes, provider>> /\ sync' \in [Syncs -> SyncType]
    BY <1>8, OneMoves
  <2>2. sync[s] \in SyncType /\ Record(s)
    BY <1>2 DEF ShapeInv
  <2>3. CASE Apply(s)
    <3>1. sync[s].todo # {} /\ sync[s].todo \subseteq Log /\ Log \subseteq Nat
      BY <2>2, <2>3, ShapeTypes DEF Apply, Record
    <3>2. Message(Min(sync[s].todo)) \in MailIds
      BY <3>1, FirstPlace, MessagesKnown
    <3>3. local' \in [MailIds -> LocalType]
      BY <1>2, <2>3, <3>2 DEF Apply, Inserted, Trashed, LocalType
    <3> QED
      BY <1>2, <1>5, <2>1, <2>3, <3>3 DEF Apply
  <2>4. CASE Persist(s)
    <3>1. sync[s].new \in Nat \cup {NoCursor} /\ sync[s].new <= Len(changes) /\ sync[s].left \subseteq 1 .. MaxChanges
      BY <2>2 DEF SyncType, Record
    <3>2. row' \in [cursor : Nat, status : {"active", "error"}] /\ row'.cursor <= Len(changes')
      BY <1>2, <2>1, <2>4, <3>1 DEF Persist
    <3>3. skipped' \subseteq 1 .. MaxChanges
      BY <1>2, <2>4, <3>1 DEF Persist
    <3> QED
      BY <1>2, <1>5, <2>1, <2>4, <3>2, <3>3 DEF Persist
  <2>5. CASE RecordLimit(s)
    BY <1>2, <1>3, <1>5, <2>1, <2>5 DEF RecordLimit
  <2>6. CASE SweepSelect(s) \/ SyncByHand(s)
    BY <1>2, <1>5, <2>1, <2>6 DEF SweepSelect, SyncByHand, Start
  <2>7. CASE CheckPause(s)
    <3>1. syncFaults' \in 0 .. SyncMaxFaults
      BY <1>2, <1>3, <2>7 DEF CheckPause
    <3> QED
      BY <1>2, <1>5, <2>1, <2>7, <3>1 DEF CheckPause
  <2>8. CASE LoseSync(s) \/ FetchPage(s) \/ NeedsFull(s) \/ List(s) \/ ApplyFails(s) \/ EndPage(s) \/ RequestRefused(s)
    BY <1>2, <1>3, <1>5, <2>1, <2>8 DEF LoseSync, FetchPage, NeedsFull, List, ApplyFails, EndPage, RequestRefused
  <2> QED
    BY <1>8, <2>3, <2>4, <2>5, <2>6, <2>7, <2>8 DEF MovesOne, SyncStep
<1> QED
  BY <1>6, <1>7, <1>8 DEF SyncNext, MovesOne

LEMMA ShapeStep == ShapeInv /\ [SyncNext]_syncVars => ShapeInv'
<1> SUFFICES ASSUME ShapeInv, [SyncNext]_syncVars PROVE ShapeInv'
  OBVIOUS
<1>1. SyncTypeOK' /\ row'.cursor <= Len(changes') /\ UNCHANGED provider /\ LogInv' /\ OneSync'
  BY SyncTypeStep, LogStep, OneSyncStep DEF ShapeInv
<1>2. ASSUME NEW t \in Syncs PROVE Record(t)'
  <2>1. CASE sync'[t] = sync[t]
    BY <1>1, <2>1, RecordStays
  <2>2. ASSUME NEW s \in Syncs, MovesOne(s) PROVE Record(t)'
    <3>1. CASE t = s
      BY <2>2, <3>1, RecordMoves
    <3>2. CASE t # s
      BY <2>1, <2>2, <3>2, OneMoves
    <3> QED
      BY <3>1, <3>2
  <2> QED
    BY <2>1, <2>2 DEF SyncNext, MovesOne, Arrive, Delete, Change, PauseOver, syncVars
<1> QED
  BY <1>1, <1>2 DEF ShapeInv

\* Every variable of the mailbox keeps its shape, whatever fails and however syncs overlap.
THEOREM SyncTypeCorrect == SyncSpec => []SyncTypeOK
<1>1. ShapeInv => SyncTypeOK
  BY SMTT(30) DEF ShapeInv
<1> QED
  BY <1>1, ShapeInit, ShapeStep, PTL DEF SyncSpec

-----------------------------------------------------------------------------
(* what a sync vouches for *)

\* The changes a sync would put behind the cursor if it ended now.
CanReach(s) == IF Full(s) THEN sync[s].seen ELSE sync[s].new

ClaimedBy(s, i) ==
  \/ sync[s].pc # "idle" /\ i <= sync[s].base
  \/ sync[s].pc = "apply" /\ i <= CanReach(s) /\ i \notin sync[s].todo \cup sync[s].left
  \/ sync[s].pc = "persist" /\ i <= sync[s].new /\ i \notin sync[s].left

Claimed(i) == i <= row.cursor \/ \E s \in Syncs : ClaimedBy(s, i)
Settled(i) == i \in skipped \/ Applied(i)

\* Syncs overwrite each other's cursor, so each must be right about its own.
HonestInv == ShapeInv /\ \A i \in Log : Claimed(i) => Settled(i)

\* What the table loses or gains in a step.
LEMMA LocalMoves ==
  ASSUME ShapeInv, [SyncNext]_syncVars
  PROVE  /\ skipped \subseteq skipped' /\ (overlapped => overlapped')
         /\ \A m \in MailIds : local[m] # "absent" => local'[m] # "absent"
         /\ \/ \A m \in MailIds : local'[m] = "inbox" => local[m] = "inbox"
            \/ \E s \in Syncs : LET i == Min(sync[s].todo) IN
                 /\ Apply(s) /\ Added(i) /\ (provider = "gmail" => Message(i) \in Alive)
                 /\ \A m \in MailIds : m # Message(i) => local'[m] = local[m]
<1>1. local \in [MailIds -> LocalType]
  BY ShapeTypes
<1>2. CASE UNCHANGED <<skipped, overlapped, local>>
  BY <1>2
<1>3. CASE \E s \in Syncs : SweepSelect(s) \/ SyncByHand(s)
  BY <1>3 DEF SweepSelect, SyncByHand, Start
<1>4. CASE \E s \in Syncs : Persist(s)
  BY <1>4 DEF Persist
<1>5. ASSUME NEW s \in Syncs, Apply(s)
      PROVE  /\ UNCHANGED <<skipped, overlapped>>
             /\ \A m \in MailIds : local[m] # "absent" => local'[m] # "absent"
             /\ \/ \A m \in MailIds : local'[m] = "inbox" => local[m] = "inbox"
                \/ LET i == Min(sync[s].todo) IN
                     /\ Added(i) /\ (provider = "gmail" => Message(i) \in Alive)
                     /\ \A m \in MailIds : m # Message(i) => local'[m] = local[m]
  <2> DEFINE n == Message(Min(sync[s].todo))
  <2>1. UNCHANGED <<skipped, overlapped>>
    BY <1>5 DEF Apply
  <2>2. CASE /\ Added(Min(sync[s].todo)) /\ (provider = "gmail" => n \in Alive)
             /\ local' = [local EXCEPT ![n] = IF @ = "absent" THEN "inbox" ELSE @]
    BY <1>1, <2>1, <2>2
  <2>3. CASE local' = [local EXCEPT ![n] = IF @ = "inbox" THEN "trash" ELSE @]
    BY <1>1, <2>1, <2>3
  <2> QED
    BY <1>5, <2>2, <2>3 DEF Apply, Inserted, Trashed
<1>6. CASE \E s \in Syncs : Apply(s)
  BY <1>5, <1>6
<1> QED
  BY ZenonT(40), <1>2, <1>3, <1>4, <1>6 DEF SyncNext, Arrive, Delete, Change, SyncStep, CheckPause, FetchPage, NeedsFull, List,
     ApplyFails, EndPage, RequestRefused, RecordLimit, LoseSync, PauseOver, syncVars

\* A deletion a lone sync vouches for does not come before the arrival it is about to apply.
LEMMA NoReturn ==
  ASSUME HonestInv, NEW s \in Syncs, Apply(s), Added(Min(sync[s].todo)), ~overlapped, provider = "outlook",
         NEW i \in Log, Claimed(i), ~Added(i), Message(i) = Message(Min(sync[s].todo))
  PROVE  FALSE
<1> DEFINE j == Min(sync[s].todo)
<1>1. sync[s].pc = "apply" /\ sync[s].todo # {} /\ sync[s].todo \subseteq Log
  BY DEF Apply, HonestInv, ShapeInv, Record
<1>2. Log = 1 .. Len(changes) /\ Len(changes) \in Nat /\ row.cursor \in Nat /\ sync[s] \in SyncType
  BY ShapeTypes DEF HonestInv
<1>3. j \in sync[s].todo
  BY <1>1, <1>2, FirstPlace
<1>4. j \in Log /\ sync[s].base \in Nat /\ sync[s].new \in Nat \cup {NoCursor}
  BY <1>1, <1>2, <1>3 DEF SyncType
<1> HIDE DEF j
<1>5. j # i /\ ~(i < j)
  BY <1>4 DEF HonestInv, ShapeInv, LogInv, j
<1>6. j < i
  BY <1>2, <1>4, <1>5
<1>7. sync[s].base = row.cursor /\ \A t \in Syncs : t # s => sync[t].pc = "idle"
  BY <1>1 DEF HonestInv, ShapeInv, OneSync
<1>8. sync[s].new # NoCursor /\ j > sync[s].base /\ (i <= sync[s].new => i \in sync[s].todo)
  BY <1>1, <1>2, <1>3, <1>4, <1>6 DEF HonestInv, ShapeInv, Record
<1>9. ~ClaimedBy(s, i)
  BY <1>1, <1>2, <1>4, <1>6, <1>8 DEF ClaimedBy, CanReach, Full
<1>10. \A t \in Syncs : ~ClaimedBy(t, i)
  BY <1>7, <1>9 DEF ClaimedBy
<1> QED
  BY <1>2, <1>4, <1>6, <1>7, <1>8, <1>10 DEF Claimed

\* What was right stays right.
LEMMA SettledStays ==
  ASSUME HonestInv, [SyncNext]_syncVars, NEW i \in Log, Claimed(i)
  PROVE  Settled(i)'
<1>1. ShapeInv /\ Settled(i)
  BY DEF HonestInv
<1>2. /\ i \in Log' /\ changes'[i] = changes[i] /\ Message(i) \in Known /\ Message(i) \in MailIds
      /\ (Message(i) \in Alive' => Message(i) \in Alive)
  BY <1>1, GoneStaysGone, MessagesKnown DEF ShapeInv
<1>3. Message(i)' = Message(i) /\ (Added(i)' <=> Added(i))
  BY <1>2 DEF Message, Added
<1>4. /\ skipped \subseteq skipped' /\ (overlapped => overlapped')
      /\ (local[Message(i)] # "absent" => local'[Message(i)] # "absent")
  BY <1>1, <1>2, LocalMoves
<1>5. CASE i \in skipped
  BY <1>4, <1>5 DEF Settled
<1>6. CASE Added(i) /\ Applied(i)
  BY <1>2, <1>3, <1>4, <1>6 DEF Settled, Applied
<1>7. CASE ~Added(i) /\ overlapped
  BY <1>3, <1>4, <1>7 DEF Settled, Applied
<1>8. CASE ~Added(i) /\ ~overlapped /\ Applied(i)
  <2>1. local[Message(i)] # "inbox"
    BY <1>8 DEF Applied
  <2>2. SUFFICES local'[Message(i)] # "inbox"
    BY <1>3, <1>8 DEF Settled, Applied
  <2>3. CASE \A m \in MailIds : local'[m] = "inbox" => local[m] = "inbox"
    BY <1>2, <2>1, <2>3
  <2>4. ASSUME NEW s \in Syncs, Apply(s), Added(Min(sync[s].todo)),
               provider = "gmail" => Message(Min(sync[s].todo)) \in Alive,
               \A m \in MailIds : m # Message(Min(sync[s].todo)) => local'[m] = local[m]
        PROVE  local'[Message(i)] # "inbox"
    <3>1. CASE Message(i) # Message(Min(sync[s].todo))
      BY <1>2, <2>1, <2>4, <3>1
    <3>2. CASE Message(i) = Message(Min(sync[s].todo))
      <4>1. Message(i) \notin Alive
        BY <1>8 DEF Alive
      <4>2. provider = "outlook"
        BY <1>1, <2>4, <3>2, <4>1, ShapeTypes
      <4> QED
        BY <1>8, <2>4, <3>2, <4>2, NoReturn
    <3> QED
      BY <3>1, <3>2
  <2> QED
    BY <1>1, <2>3, <2>4, LocalMoves
<1> QED
  BY <1>1, <1>5, <1>6, <1>7, <1>8 DEF Settled

\* What a sync vouches for after a step, it or the row vouched for before, or is right.
LEMMA ClaimsStay ==
  ASSUME ShapeInv, NEW t \in Syncs, sync'[t] = sync[t], UNCHANGED provider, NEW i, ClaimedBy(t, i)'
  PROVE  ClaimedBy(t, i)
BY DEF ClaimedBy, CanReach, Full

LEMMA ClaimsMove ==
  ASSUME ShapeInv, NEW s \in Syncs, MovesOne(s), NEW i \in Log, ClaimedBy(s, i)'
  PROVE  ClaimedBy(s, i) \/ i <= row.cursor \/ Settled(i)'
<1>1. UNCHANGED <<changes, provider>>
  BY OneMoves
<1>2. /\ sync[s] \in SyncType /\ Record(s) /\ Len(changes) \in Nat /\ Log = 1 .. Len(changes)
      /\ row.cursor \in Nat /\ row.cursor <= Len(changes) /\ i \in Nat /\ i >= 1
      /\ sync[s].base \in Nat /\ sync[s].seen \in Nat /\ sync[s].new \in Nat \cup {NoCursor}
      /\ local \in [MailIds -> LocalType]
  BY ShapeTypes DEF ShapeInv, SyncType
<1>3. /\ (Log' = Log) /\ (Known' = Known) /\ (Alive' = Alive) /\ (Added(i)' <=> Added(i)) /\ (Message(i)' = Message(i))
  BY <1>1 DEF Log, Known, Alive, Message, Added
<1>4. ASSUME NEW pc \in {"pause", "fetch"}, Start(s, pc) PROVE i <= row.cursor
  <2>1. sync'[s] = [NoSync EXCEPT !.pc = pc, !.base = row.cursor]
    <3>1. Moves(s, [NoSync EXCEPT !.pc = pc, !.base = row.cursor])
      BY <1>4, Moved
    <3> QED
      BY <3>1, SetTo DEF Moves
  <2>2. sync'[s].pc = pc /\ sync'[s].base = row.cursor
    BY <2>1 DEF NoSync
  <2> QED
    BY <2>2 DEF ClaimedBy
<1>5. ASSUME Moves(s, NoSync) PROVE FALSE
  <2>1. sync'[s].pc = "idle"
    BY <1>5, SetTo DEF Moves, NoSync
  <2> QED
    BY <2>1 DEF ClaimedBy
<1>6. ASSUME sync'[s].base = sync[s].base, sync'[s].new = NoCursor, sync'[s].pc # "apply", sync[s].pc # "idle"
      PROVE  ClaimedBy(s, i)
  BY <1>2, <1>6 DEF ClaimedBy, NoCursor
<1>7. CASE CheckPause(s) \/ NeedsFull(s) \/ RecordLimit(s)
  <2>1. sync[s].new = NoCursor /\ sync[s].pc # "idle"
    BY <1>2, <1>7 DEF CheckPause, NeedsFull, RecordLimit, Record
  <2>2. \/ Moves(s, NoSync)
        \/ \E pc \in {"fetch", "list", "persist"} : Moves(s, [sync[s] EXCEPT !.pc = pc])
    BY <1>7, Moved
  <2>3. ASSUME NEW pc \in {"fetch", "list", "persist"}, Moves(s, [sync[s] EXCEPT !.pc = pc]) PROVE ClaimedBy(s, i)
    <3>1. sync'[s] = [sync[s] EXCEPT !.pc = pc]
      BY <2>3, SetTo DEF Moves
    <3>2. sync'[s].base = sync[s].base /\ sync'[s].new = sync[s].new /\ sync'[s].pc = pc
      BY <1>2, <3>1 DEF SyncType
    <3> QED
      BY <1>6, <2>1, <3>2
  <2> QED
    BY <1>5, <2>2, <2>3
<1>8. CASE RequestRefused(s)
  <2>1. PICK pc \in {"limit", "persist"}, failed \in BOOLEAN : Moves(s, [sync[s] EXCEPT !.pc = pc, !.failed = failed])
    BY <1>8, Moved
  <2>2. sync[s].new = NoCursor /\ sync[s].pc # "idle"
    BY <1>2, <1>8 DEF RequestRefused, Record, Full
  <2>3. sync'[s] = [sync[s] EXCEPT !.pc = pc, !.failed = failed]
    BY <2>1, SetTo DEF Moves
  <2>4. sync'[s].base = sync[s].base /\ sync'[s].new = sync[s].new /\ sync'[s].pc = pc
    BY <1>2, <2>3 DEF SyncType
  <2> QED
    BY <1>6, <2>2, <2>4
<1>9. CASE FetchPage(s)
  <2>1. PICK last \in Nat : sync[s].base <= last /\ last <= Len(changes) /\ Moves(s, PageOf(s, last))
    BY <1>9, PageMoves
  <2>2. sync'[s] = PageOf(s, last)
    BY <2>1, SetTo DEF Moves
  <2>3. /\ sync'[s].pc = "apply" /\ sync'[s].base = sync[s].base /\ sync'[s].todo = (sync[s].base + 1) .. last
        /\ sync'[s].left = (IF provider = "outlook" THEN {} ELSE (last + 1) .. Len(changes))
        /\ sync'[s].new = (IF provider = "outlook" THEN last ELSE Len(changes))
    BY <1>2, <2>2 DEF PageOf, SyncType
  <2>4. sync[s].pc = "fetch" /\ CanReach(s)' = sync'[s].new
    BY <1>2, <1>9, <2>1, <2>3 DEF FetchPage, CanReach, Full, NoCursor
  <2>5. i <= sync[s].base
    BY <1>2, <2>1, <2>3, <2>4 DEF ClaimedBy
  <2> QED
    BY <2>4, <2>5 DEF ClaimedBy
<1>10. CASE List(s)
  <2>1. sync'[s] = ListOf(s) /\ sync[s].pc = "list"
    BY ZenonT(40), <1>10, ListMoves, SetTo DEF Moves, List
  <2>2. /\ sync'[s].pc \in {"persist", "apply"} /\ sync'[s].base = sync[s].base /\ sync'[s].new = sync[s].new
        /\ sync'[s].todo = {j \in Log : Added(j) /\ Message(j) \in FirstPage}
        /\ sync'[s].left = {j \in Log : IF Added(j) THEN Message(j) \in Alive \ FirstPage ELSE j > sync[s].base}
    BY <1>2, <2>1 DEF ListOf, SyncType
  <2>3. sync'[s].new = NoCursor
    BY <1>2, <2>1, <2>2 DEF Record
  <2>4. CASE i <= sync[s].base
    BY <2>1, <2>4 DEF ClaimedBy
  <2>5. CASE ~(i <= sync[s].base)
    <3>1. i \notin sync'[s].todo \cup sync'[s].left
      BY <1>2, <2>2, <2>3, <2>5 DEF ClaimedBy, NoCursor
    <3>2. Added(i)
      BY <1>2, <2>2, <2>5, <3>1
    <3>3. Message(i) \notin Alive
      BY <2>2, <3>1, <3>2
    <3> QED
      BY <1>3, <3>2, <3>3 DEF Settled, Applied
  <2> QED
    BY SMTT(30), <2>4, <2>5
<1>11. CASE Apply(s)
  <2> DEFINE n == Min(sync[s].todo)
  <2>1. PICK added \in BOOLEAN : Moves(s, [sync[s] EXCEPT !.todo = @ \ {n}, !.added = added])
    BY <1>11, ApplyMoves
  <2>2. /\ sync'[s].pc = "apply" /\ sync[s].pc = "apply" /\ sync'[s].base = sync[s].base /\ sync'[s].seen = sync[s].seen
        /\ sync'[s].todo = sync[s].todo \ {n} /\ sync'[s].left = sync[s].left /\ sync'[s].new = sync[s].new
    BY <1>2, <1>11, <2>1, SetTo DEF Moves, SyncType, Apply
  <2>3. CanReach(s)' = CanReach(s)
    BY <1>1, <2>2 DEF CanReach, Full
  <2>4. CASE i # n
    BY <2>2, <2>3, <2>4 DEF ClaimedBy
  <2>5. CASE i = n
    <3>1. Message(i) \in MailIds
      BY MessagesKnown
    <3>2. CASE Added(i) /\ Message(i) \notin sync[s].gone
      <4>1. local'[Message(i)] # "absent"
        BY <1>2, <1>11, <2>5, <3>1, <3>2 DEF Apply, Inserted
      <4> QED
        BY <1>3, <3>2, <4>1 DEF Settled, Applied
    <3>3. CASE Added(i) /\ Message(i) \in sync[s].gone
      <4>1. Message(i) \notin Alive
        BY <1>2, <3>3 DEF Record
      <4> QED
        BY <1>3, <3>3, <4>1 DEF Settled, Applied
    <3>4. CASE ~Added(i)
      <4>1. local'[Message(i)] # "inbox"
        BY SMTT(30), <1>2, <1>11, <2>5, <3>1, <3>4 DEF Apply, Trashed
      <4> QED
        BY <1>3, <3>4, <4>1 DEF Settled, Applied
    <3> QED
      BY <3>2, <3>3, <3>4
  <2> QED
    BY <2>4, <2>5
<1>12. CASE ApplyFails(s)
  <2>1. sync[s].pc = "apply"
    BY <1>12 DEF ApplyFails
  <2>2. CASE Full(s) /\ Moves(s, [sync[s] EXCEPT !.failed = TRUE, !.todo = @ \ {Min(sync[s].todo)},
                                                 !.left = @ \cup {Min(sync[s].todo)}])
    <3>1. /\ sync'[s].pc = "apply" /\ sync'[s].base = sync[s].base /\ sync'[s].seen = sync[s].seen
          /\ sync'[s].todo = sync[s].todo \ {Min(sync[s].todo)} /\ sync'[s].new = sync[s].new
          /\ sync'[s].left = sync[s].left \cup {Min(sync[s].todo)}
      BY ZenonT(40), <1>2, <2>1, <2>2, SetTo DEF Moves, SyncType
    <3>2. CanReach(s)' = CanReach(s)
      BY <1>1, <3>1 DEF CanReach, Full
    <3> QED
      BY SMTT(30), <2>1, <3>1, <3>2 DEF ClaimedBy
  <2>3. CASE Moves(s, [sync[s] EXCEPT !.failed = TRUE, !.pc = "persist", !.new = NoCursor])
    <3>1. sync'[s].pc = "persist" /\ sync'[s].base = sync[s].base /\ sync'[s].new = NoCursor
      BY <1>2, <2>3, SetTo DEF Moves, SyncType
    <3> QED
      BY <1>6, <2>1, <3>1
  <2> QED
    BY <1>12, <2>2, <2>3, FailMoves
<1>13. CASE EndPage(s)
  <2>1. sync'[s] = EndOf(s) /\ sync[s].pc = "apply" /\ sync[s].todo = {}
    BY <1>13, EndMoves, SetTo DEF Moves, EndPage
  <2>2. /\ sync'[s].pc = "persist" /\ sync'[s].base = sync[s].base
        /\ sync'[s].left = (IF Full(s) THEN sync[s].left \cup (sync[s].seen + 1) .. Len(changes) ELSE sync[s].left)
        /\ sync'[s].new = (IF Full(s) THEN Len(changes) ELSE sync[s].new)
    BY <1>2, <2>1 DEF EndOf, SyncType
  <2>3. CASE i <= sync[s].base
    BY <2>1, <2>3 DEF ClaimedBy
  <2>4. CASE ~(i <= sync[s].base)
    <3>1. i <= sync'[s].new /\ i \notin sync'[s].left
      BY <2>2, <2>4 DEF ClaimedBy
    <3>2. i <= CanReach(s) /\ i \notin sync[s].left
      BY <1>2, <2>2, <3>1 DEF CanReach
    <3> QED
      BY <2>1, <3>2 DEF ClaimedBy
  <2> QED
    BY <2>3, <2>4
<1>14. CASE SweepSelect(s) \/ SyncByHand(s)
  BY <1>4, <1>14 DEF SweepSelect, SyncByHand
<1>15. CASE Persist(s) \/ LoseSync(s)
  BY ZenonT(40), <1>5, <1>15, Moved
<1> QED
  BY <1>7, <1>8, <1>9, <1>10, <1>11, <1>12, <1>13, <1>14, <1>15 DEF MovesOne, SyncStep

\* The cursor in the row moves to what the sync that moves it vouched for.
LEMMA CursorMoves ==
  ASSUME ShapeInv, [SyncNext]_syncVars, NEW i \in Log, i <= row'.cursor
  PROVE  Claimed(i) \/ Settled(i)'
<1>1. CASE UNCHANGED row
  BY <1>1 DEF Claimed
<1>2. ASSUME NEW s \in Syncs, Persist(s) PROVE Claimed(i) \/ Settled(i)'
  <2>1. CASE sync[s].new = NoCursor
    BY <1>2, <2>1 DEF Persist, Claimed
  <2>2. CASE sync[s].new # NoCursor /\ i \in sync[s].left
    BY <1>2, <2>2 DEF Persist, Settled
  <2>3. CASE sync[s].new # NoCursor /\ i \notin sync[s].left
    BY <1>2, <2>3 DEF Persist, Claimed, ClaimedBy
  <2> QED
    BY <2>1, <2>2, <2>3
<1> QED
  BY ZenonT(40), <1>1, <1>2 DEF SyncNext, Arrive, Delete, Change, SweepSelect, SyncByHand, Start, SyncStep, CheckPause, FetchPage,
     NeedsFull, List, Apply, ApplyFails, EndPage, RequestRefused, RecordLimit, LoseSync, PauseOver, syncVars

\* Nothing vouches for a change that is not in the log.
LEMMA ClaimsAreOld ==
  ASSUME ShapeInv, NEW i \in Nat, i > Len(changes)
  PROVE  ~Claimed(i)
<1>1. ASSUME NEW s \in Syncs PROVE ~ClaimedBy(s, i)
  <2>1. /\ sync[s] \in SyncType /\ Record(s) /\ Len(changes) \in Nat
        /\ sync[s].base \in Nat /\ sync[s].seen \in Nat /\ sync[s].new \in Nat \cup {NoCursor}
    BY ShapeTypes DEF ShapeInv, SyncType
  <2> QED
    BY <2>1 DEF Record, ClaimedBy, CanReach, NoCursor
<1> QED
  BY <1>1, ShapeTypes DEF Claimed, ShapeInv

LEMMA HonestStep == HonestInv /\ [SyncNext]_syncVars => HonestInv'
<1> SUFFICES ASSUME HonestInv, [SyncNext]_syncVars PROVE HonestInv'
  OBVIOUS
<1>1. ShapeInv /\ ShapeInv' /\ UNCHANGED provider
  BY ShapeStep, SyncTypeStep DEF HonestInv
<1>2. /\ Len(changes) \in Nat /\ Len(changes') \in Nat /\ Log = 1 .. Len(changes) /\ Log' = 1 .. Len(changes')
  BY <1>1, GoneStaysGone DEF ShapeInv
<1>3. ASSUME NEW i \in Log, Claimed(i)' PROVE Settled(i)'
  <2>1. CASE Claimed(i)
    BY <2>1, SettledStays
  <2>2. CASE i <= row'.cursor
    BY <1>1, <2>1, <2>2, CursorMoves
  <2>3. ASSUME NEW t \in Syncs, ClaimedBy(t, i)' PROVE Settled(i)'
    <3>1. CASE sync'[t] = sync[t]
      BY <1>1, <2>1, <2>3, <3>1, ClaimsStay DEF Claimed
    <3>2. ASSUME NEW s \in Syncs, MovesOne(s) PROVE Settled(i)'
      <4>1. CASE t = s
        BY <1>1, <2>1, <2>3, <3>2, <4>1, ClaimsMove DEF Claimed
      <4>2. CASE t # s
        BY <1>1, <3>1, <3>2, <4>2, OneMoves
      <4> QED
        BY <4>1, <4>2
    <3> QED
      BY <3>1, <3>2 DEF SyncNext, MovesOne, Arrive, Delete, Change, PauseOver, syncVars
  <2> QED
    BY <1>3, <2>2, <2>3 DEF Claimed
<1>4. ASSUME NEW i \in Log', i \notin Log, Claimed(i)' PROVE FALSE
  <2>1. i \in Nat /\ i > Len(changes)
    BY <1>2, <1>4
  <2>2. UNCHANGED <<row, sync, provider>>
    BY <1>1, <1>2, <1>4, OneMoves DEF SyncNext, MovesOne, Arrive, Delete, Change, PauseOver, syncVars
  <2>3. Claimed(i)
    BY <1>4, <2>2 DEF Claimed, ClaimedBy, CanReach, Full
  <2> QED
    BY <1>1, <2>1, <2>3, ClaimsAreOld
<1> QED
  BY <1>1, <1>3, <1>4 DEF HonestInv

\* The cursor is never ahead of the copy: whatever lies behind it was applied, or is known to
\* have been passed over, however syncs overlap, fail and overwrite each other's cursor.
THEOREM CursorStaysHonest == SyncSpec => []CursorIsHonest
<1>1. SyncInit => HonestInv
  <2>1. ASSUME SyncInit PROVE Log = {}
    BY <2>1 DEF SyncInit, Log
  <2> QED
    BY <2>1, ShapeInit DEF HonestInv
<1>2. HonestInv => CursorIsHonest
  BY DEF HonestInv, Claimed, Settled, CursorIsHonest
<1> QED
  BY <1>1, <1>2, HonestStep, PTL DEF SyncSpec

-----------------------------------------------------------------------------
(***************************************************************************)
(* SessionTabs and RefreshTokens: families of tokens and the one stored    *)
(***************************************************************************)

Row == [family : 1 .. MaxTokens, used : BOOLEAN, revoked : BOOLEAN, expired : BOOLEAN]
RotatePcs == {"find", "revoke", "mark", "lookup", "insert"}
RequestPcs == RotatePcs \cup {"idle", "done"}
Answers == {"none", "ok", "refused", "lost"}
RequestType(T) == [pc : RequestPcs, token : {0} \cup T, answer : Answers, new : {0} \cup T]

-----------------------------------------------------------------------------
(* types *)

\* What is stored is a token, a request under way is about one, and families have the
\* numbers of tokens that exist.
Points ==
  /\ stored \in {0} \cup Tokens /\ raced \in BOOLEAN
  /\ \A r \in Requests : request[r].pc \in RotatePcs => request[r].token \in Tokens
  /\ \A t \in Tokens : token[t].family <= Len(token)
TokenTypes == TokenTypeOK /\ Points

LEMMA TokenShapes ==
  TokenTypes => /\ token \in [Tokens -> Row] /\ Tokens = 1 .. Len(token) /\ Len(token) \in 0 .. MaxTokens
                /\ request \in [Requests -> RequestType(Tokens)]
                /\ MaxTokens \in Nat /\ upsets \in Nat
<1> SUFFICES ASSUME TokenTypes PROVE /\ token \in [Tokens -> Row] /\ Tokens = 1 .. Len(token)
                                     /\ Len(token) \in 0 .. MaxTokens
                                     /\ request \in [Requests -> RequestType(Tokens)]
                                     /\ MaxTokens \in Nat /\ upsets \in Nat
  OBVIOUS
<1>1. token \in Seq(Row)
  BY DEF TokenTypes, TokenTypeOK, Row
<1>2. Len(token) \in Nat /\ token \in [1 .. Len(token) -> Row]
  BY <1>1, LenProperties
<1>3. Tokens = 1 .. Len(token)
  BY <1>2 DEF Tokens
<1>4. Len(token) <= MaxTokens /\ MaxTokens \in Nat /\ upsets \in Nat
  BY TokenAssumption DEF TokenTypes, TokenTypeOK
<1>5. request \in [Requests -> RequestType(Tokens)]
  BY DEF TokenTypes, TokenTypeOK, RequestType, RequestPcs, RotatePcs, Answers
<1> QED
  BY <1>2, <1>3, <1>4, <1>5

\* A table of as many rows.
LEMMA SameLength ==
  ASSUME TokenTypes, NEW g \in [Tokens -> Row]
  PROVE  g \in Seq(Row) /\ DOMAIN g = Tokens /\ Len(g) = Len(token)
<1>1. Tokens = 1 .. Len(token) /\ Len(token) \in Nat
  BY TokenShapes
<1>2. g \in Seq(Row) /\ DOMAIN g = 1 .. Len(token)
  BY <1>1, SeqDef
<1> QED
  BY <1>1, <1>2, LenProperties

\* A table of one more.
LEMMA OneMore ==
  ASSUME TokenTypes, Len(token) < MaxTokens, NEW f \in 1 .. MaxTokens, token' = Append(token, Fresh(f))
  PROVE  /\ token' \in Seq(Row) /\ Len(token') = Len(token) + 1
         /\ Tokens' = Tokens \cup {Len(token) + 1} /\ Len(token) + 1 \notin Tokens
         /\ token'[Len(token) + 1] = Fresh(f)
         /\ \A t \in Tokens : token'[t] = token[t]
<1>1. Fresh(f) \in Row
  BY DEF Fresh, Row
<1>2. token \in Seq(Row) /\ Tokens = 1 .. Len(token) /\ Len(token) \in Nat
  BY TokenShapes DEF TokenTypes, TokenTypeOK, Row
<1>3. /\ token' \in Seq(Row) /\ Len(token') = Len(token) + 1
      /\ token'[Len(token) + 1] = Fresh(f)
      /\ \A t \in 1 .. Len(token) : token'[t] = token[t]
  BY <1>1, <1>2
<1>4. DOMAIN token' = 1 .. Len(token')
  BY <1>3, LenProperties
<1> QED
  BY <1>2, <1>3, <1>4 DEF Tokens

LEMMA TokenTypeInit == SessionInit => TokenTypes
<1> SUFFICES ASSUME SessionInit PROVE TokenTypes
  OBVIOUS
<1>1. token = << >> /\ Tokens = {} /\ Len(token) = 0 /\ token \in Seq(Row)
  BY EmptySeq DEF SessionInit, TokenInit, Tokens
<1>2. request \in [Requests -> RequestType(Tokens)] /\ \A r \in Requests : request[r].pc = "idle"
  BY DEF SessionInit, TokenInit, NoRequest, RequestType, RequestPcs, Answers
<1>3. Points
  BY <1>1, <1>2 DEF SessionInit, Points, RotatePcs
<1>4. budget \in [1 .. MaxTokens -> Nat] /\ upsets = 0 /\ member = TRUE
  BY DEF SessionInit, TokenInit
<1> QED
  BY <1>1, <1>2, <1>3, <1>4, TokenAssumption
  DEF TokenTypes, TokenTypeOK, Row, RequestType, RequestPcs, RotatePcs, Answers

LEMMA TokenTypeStep == TokenTypes /\ [SessionNext]_sessionVars => TokenTypes'
<1> SUFFICES ASSUME TokenTypes, [SessionNext]_sessionVars PROVE TokenTypes'
  OBVIOUS
<1> USE TokenAssumption, TabAssumption
<1>0. /\ token \in [Tokens -> Row] /\ Tokens = 1 .. Len(token) /\ Len(token) \in 0 .. MaxTokens
      /\ request \in [Requests -> RequestType(Tokens)] /\ token \in Seq(Row)
      /\ member \in BOOLEAN /\ budget \in [1 .. MaxTokens -> Nat] /\ upsets \in 0 .. MaxUpsets
      /\ stored \in {0} \cup Tokens /\ raced \in BOOLEAN
  BY TokenShapes DEF TokenTypes, TokenTypeOK, Points, Row
<1>1. Upset => upsets' \in 0 .. MaxUpsets
  BY <1>0 DEF Upset
<1>2. ASSUME token' \in Seq(Row), Len(token') <= MaxTokens, request' \in [Requests -> RequestType(Tokens')],
             member' \in BOOLEAN, budget' \in [1 .. MaxTokens -> Nat], upsets' \in 0 .. MaxUpsets, Points'
      PROVE  TokenTypes'
  BY <1>2 DEF TokenTypes, TokenTypeOK, Row, RequestType, RequestPcs, RotatePcs, Answers
\* The table is left alone.
<1>3. ASSUME token' = token, request' \in [Requests -> RequestType(Tokens)],
             \A r \in Requests : request'[r].pc \in RotatePcs => request'[r].token \in Tokens,
             member' \in BOOLEAN, budget' = budget, upsets' \in 0 .. MaxUpsets,
             stored' \in {0} \cup Tokens, raced' \in BOOLEAN
      PROVE  TokenTypes'
  <2>1. Tokens' = Tokens
    BY <1>3 DEF Tokens
  <2>2. Points'
    BY <1>3, <2>1 DEF Points, TokenTypes
  <2> QED
    BY <1>0, <1>2, <1>3, <2>1, <2>2
\* Rows are changed, their families are not.
<1>4. ASSUME token' \in [Tokens -> Row], \A t \in Tokens : token'[t].family = token[t].family,
             request' \in [Requests -> RequestType(Tokens)],
             \A r \in Requests : request'[r].pc \in RotatePcs => request'[r].token \in Tokens,
             member' \in BOOLEAN, budget' \in [1 .. MaxTokens -> Nat], upsets' \in 0 .. MaxUpsets,
             stored' \in {0} \cup Tokens, raced' \in BOOLEAN
      PROVE  TokenTypes'
  <2>1. token' \in Seq(Row) /\ Tokens' = Tokens /\ Len(token') = Len(token)
    BY <1>4, SameLength DEF Tokens
  <2>2. Points'
    BY <1>4, <2>1 DEF Points, TokenTypes
  <2> QED
    BY <1>0, <1>2, <1>4, <2>1, <2>2
\* Request r moves on, answers, or is a new one.
<1>5. ASSUME NEW r \in Requests, NEW pc \in RotatePcs, Reach(r, pc), request[r].pc \in RotatePcs
      PROVE  /\ request' \in [Requests -> RequestType(Tokens)]
             /\ \A q \in Requests : request'[q].pc \in RotatePcs => request'[q].token \in Tokens
  BY ZenonT(40), <1>0, <1>5 DEF Reach, RequestType, RequestPcs, TokenTypes, Points
<1>6. ASSUME NEW r \in Requests, NEW answer \in Answers, Reply(r, answer)
      PROVE  /\ request' \in [Requests -> RequestType(Tokens)]
             /\ \A q \in Requests : request'[q].pc \in RotatePcs => request'[q].token \in Tokens
  <2>1. \A q \in Requests : q # r => request'[q] = request[q]
    BY <1>0, <1>6 DEF Reply
  <2>2. request'[r].pc = "done"
    BY <1>0, <1>6 DEF Reply, RequestType
  <2>3. "done" \in RequestPcs
    BY DEF RequestPcs
  <2>4. request' = [request EXCEPT ![r] = [request[r] EXCEPT !.pc = "done", !.answer = answer]]
    BY <1>0, <1>6 DEF Reply
  <2>5. request[r] \in RequestType(Tokens)
    BY <1>0
  <2>6. [request[r] EXCEPT !.pc = "done", !.answer = answer] \in RequestType(Tokens)
    BY <2>3, <2>5 DEF RequestType
  <2>7. request' \in [Requests -> RequestType(Tokens)]
    BY <1>0, <2>4, <2>6
  <2> QED
    BY <2>1, <2>2, <2>7 DEF RotatePcs, TokenTypes, Points
<1>7. ASSUME NEW r \in Requests, request' = [request EXCEPT ![r] = NoRequest]
      PROVE  /\ request' \in [Requests -> RequestType(Tokens)]
             /\ \A q \in Requests : request'[q].pc \in RotatePcs => request'[q].token \in Tokens
  BY <1>0, <1>7 DEF NoRequest, RequestType, RequestPcs, RotatePcs, Answers, TokenTypes, Points
<1>8. ASSUME NEW r \in Requests, NEW t, Present(r, t)
      PROVE  /\ request' \in [Requests -> RequestType(Tokens)]
             /\ \A q \in Requests : request'[q].pc \in RotatePcs => request'[q].token \in Tokens
  BY <1>0, <1>8 DEF Present, NoRequest, RequestType, RequestPcs, RotatePcs, Answers, TokenTypes, Points
<1>9. ASSUME NEW S, Revoke(S)
      PROVE  /\ token' \in [Tokens -> Row] /\ \A t \in Tokens : token'[t].family = token[t].family
             /\ budget' \in [1 .. MaxTokens -> Nat]
  <2>1. \A f : Cardinality(Passing(f)) \in Nat
    BY FS_Subset, FS_CardinalityType DEF Passing
  <2> QED
    BY ZenonT(40), <1>0, <1>9, <2>1 DEF Revoke, Row
<1>10. CASE Login
  <2>1. PICK n \in 1 .. MaxTokens : n = Len(token) + 1
    BY <1>0, <1>10 DEF Login, Issue
  <2>2. /\ token' \in Seq(Row) /\ Len(token') = n /\ Tokens' = Tokens \cup {n} /\ n \notin Tokens
        /\ token'[n] = Fresh(n) /\ \A t \in Tokens : token'[t] = token[t]
    BY <1>10, <2>1, OneMore DEF Login, Issue
  <2>3. request' \in [Requests -> RequestType(Tokens')]
    BY <1>0, <1>10, <2>2 DEF Login, Issue, RequestType
  <2>4. budget' \in [1 .. MaxTokens -> Nat]
    BY <1>0, <1>10, <2>1 DEF Login, Issue
  <2>5. stored' = n /\ raced' = raced /\ request' = request /\ member' = member /\ upsets' = upsets
    BY <1>10, <2>2 DEF Login, Issue
  <2>6. \A t \in Tokens' : token'[t].family <= Len(token')
    <3>1. token'[n].family = n
      BY <2>2 DEF Fresh
    <3>2. \A t \in Tokens : token[t].family <= Len(token) /\ token[t].family \in Nat
      <4>1. \A t \in Tokens : token[t].family <= Len(token)
        BY <1>0 DEF Points, TokenTypes
      <4>2. \A t \in Tokens : token[t].family \in Nat
        <5>1. \A t \in Tokens : token[t] \in Row
          BY <1>0
        <5>2. \A x \in Row : x.family \in Nat
          BY TokenAssumption DEF Row
        <5> QED
          BY <5>1, <5>2
      <4> QED
        BY <4>1, <4>2
    <3>3. \A t \in Tokens : token'[t].family <= Len(token) /\ token'[t].family \in Nat
      BY <2>2, <3>2
    <3> QED
      BY <1>0, <2>1, <2>2, <3>1, <3>3
  <2>7. Points'
    BY <1>0, <2>2, <2>5, <2>6 DEF Points, TokenTypes
  <2>8. Len(token') <= MaxTokens
    BY <2>1, <2>2
  <2> QED
    BY <1>0, <1>2, <2>2, <2>3, <2>4, <2>5, <2>7, <2>8
<1>11. CASE Logout
  BY <1>0, <1>1, <1>4, <1>9, <1>11 DEF Logout, RevokeAll, TokenTypes, Points
<1>12. ASSUME NEW p \in Tabs, Refresh(p) PROVE TokenTypes'
  <2>1. Overlap \in BOOLEAN
    BY DEF Overlap
  <2> QED
    BY <1>0, <1>3, <1>8, <1>12, <2>1 DEF Refresh, Present
<1>13. ASSUME NEW p \in Tabs, Receive(p) PROVE TokenTypes'
  <2>1. stored' \in {0} \cup Tokens
    BY <1>0, <1>13 DEF Receive, StoredAfter, RequestType
  <2> QED
    BY <1>0, <1>3, <1>7, <1>13, <2>1 DEF Receive
<1>14. ASSUME NEW r \in Requests, Elsewhere(r), stored' = stored PROVE TokenTypes'
  BY <1>0, <1>3, <1>7, <1>8, <1>14 DEF Elsewhere, Present
<1>15. ASSUME NEW r \in Requests, Find(r) \/ Lookup(r), UNCHANGED <<stored, raced>> PROVE TokenTypes'
  <2>1. \/ \E pc \in RotatePcs : Reach(r, pc) /\ request[r].pc \in RotatePcs
        \/ Reply(r, "refused")
    BY <1>15 DEF Find, Lookup, RotatePcs
  <2>2. /\ request' \in [Requests -> RequestType(Tokens)]
        /\ \A q \in Requests : request'[q].pc \in RotatePcs => request'[q].token \in Tokens
    BY <1>5, <1>6, <2>1 DEF Answers
  <2> QED
    BY <1>0, <1>3, <1>15, <2>2 DEF Find, Lookup
<1>16. ASSUME NEW r \in Requests, RevokeFamily(r), UNCHANGED <<stored, raced>> PROVE TokenTypes'
  BY <1>0, <1>4, <1>6, <1>9, <1>16 DEF RevokeFamily, Answers
<1>17. ASSUME NEW r \in Requests, Mark(r), UNCHANGED <<stored, raced>> PROVE TokenTypes'
  <2>1. request[r].token \in Tokens /\ request[r].pc \in RotatePcs
    BY <1>17 DEF Mark, RotatePcs, TokenTypes, Points
  <2>2. token' \in [Tokens -> Row] /\ \A t \in Tokens : token'[t].family = token[t].family
    BY ZenonT(40), <1>0, <1>17, <2>1 DEF Mark, Row
  <2>3. budget' \in [1 .. MaxTokens -> Nat]
    BY SMTT(30), <1>0, <1>17, <2>1 DEF Mark, Row
  <2>4. /\ request' \in [Requests -> RequestType(Tokens)]
        /\ \A q \in Requests : request'[q].pc \in RotatePcs => request'[q].token \in Tokens
    BY <1>5, <1>17, <2>1 DEF Mark, RotatePcs
  <2> QED
    BY <1>0, <1>4, <1>17, <2>2, <2>3, <2>4 DEF Mark
<1>18. ASSUME NEW r \in Requests, InsertToken(r), UNCHANGED <<stored, raced>> PROVE TokenTypes'
  <2>1. PICK n \in 1 .. MaxTokens : n = Len(token) + 1
    BY <1>0, <1>18 DEF InsertToken
  <2>2. request[r].token \in Tokens
    BY <1>18 DEF InsertToken, RotatePcs, TokenTypes, Points
  <2>3. FamilyName(r) \in 1 .. MaxTokens /\ FamilyName(r) <= Len(token)
    BY <1>0, <2>2 DEF FamilyName, Row, TokenTypes, Points
  <2>4. /\ token' \in Seq(Row) /\ Len(token') = n /\ Tokens' = Tokens \cup {n}
        /\ token'[n] = Fresh(FamilyName(r)) /\ \A t \in Tokens : token'[t] = token[t]
    BY <1>18, <2>1, <2>3, OneMore DEF InsertToken
  <2>5. request' = [request EXCEPT ![r].pc = "done", ![r].answer = "ok", ![r].new = n] /\ n \in Tokens'
    BY <1>18, <2>1, <2>4 DEF InsertToken
  <2>6. request \in [Requests -> RequestType(Tokens')]
    BY <1>0, <2>4 DEF RequestType
  <2>7. request' \in [Requests -> RequestType(Tokens')]
    BY ZenonT(40), <2>5, <2>6 DEF RequestType, RequestPcs, Answers
  <2>8. request'[r].pc = "done" /\ \A q \in Requests : q # r => request'[q] = request[q]
    BY <2>5, <2>6 DEF RequestType
  <2>9. \A t \in Tokens' : token'[t].family <= Len(token')
    <3>1. token'[n].family = FamilyName(r)
      BY <2>4 DEF Fresh
    <3>2. \A t \in Tokens : token'[t] = token[t] /\ token[t] \in Row /\ token[t].family <= Len(token)
      BY <1>0, <2>4 DEF Points, TokenTypes
    <3>3. \A t \in Tokens : token'[t].family <= Len(token) /\ token'[t].family \in Nat
      BY <3>2 DEF Row
    <3> QED
      BY <1>0, <2>1, <2>3, <2>4, <3>1, <3>3
  <2>10. Points'
    BY <1>0, <1>18, <2>4, <2>8, <2>9 DEF Points, TokenTypes, RotatePcs
  <2>11. member' = member /\ budget' = budget /\ upsets' = upsets /\ Len(token') <= MaxTokens
    BY <1>18, <2>1, <2>4 DEF InsertToken
  <2> QED
    BY <1>0, <1>2, <2>4, <2>7, <2>10, <2>11
<1>19. ASSUME NEW r \in Requests, RejectToken(r) \/ LoseRequest(r), UNCHANGED <<stored, raced>> PROVE TokenTypes'
  BY <1>0, <1>1, <1>3, <1>6, <1>19 DEF RejectToken, LoseRequest, Answers
<1>20. ASSUME LeaveWorkspace, UNCHANGED <<stored, raced>> PROVE TokenTypes'
  BY <1>0, <1>1, <1>3, <1>20 DEF LeaveWorkspace, TokenTypes, Points
<1>21. ASSUME NEW t \in Tokens, ExpireToken(t), UNCHANGED <<stored, raced>> PROVE TokenTypes'
  <2>1. token' \in [Tokens -> Row] /\ \A u \in Tokens : token'[u].family = token[u].family
    BY ZenonT(40), <1>0, <1>21 DEF ExpireToken, Row
  <2> QED
    BY <1>0, <1>1, <1>4, <1>21, <2>1 DEF ExpireToken, TokenTypes, Points
<1>22. CASE UNCHANGED sessionVars
  BY <1>0, <1>3, <1>22 DEF sessionVars, TokenTypes, Points
<1> QED
  BY <1>10, <1>11, <1>12, <1>13, <1>14, <1>15, <1>16, <1>17, <1>18, <1>19, <1>20, <1>21, <1>22
  DEF SessionNext, Serve, Rotate

\* Every variable of the tokens and the tabs keeps its shape: a request is always about a token
\* that was issued, and an answer carries one that was.
THEOREM TokenTypeCorrect == SessionSpec => []TokenTypeOK
<1>1. TokenTypes => TokenTypeOK
  BY DEF TokenTypes
<1> QED
  BY <1>1, TokenTypeInit, TokenTypeStep, PTL DEF SessionSpec

-----------------------------------------------------------------------------
(* lines of descent *)

LEMMA LinesAreFinite ==
  ASSUME TokenTypes, NEW f
  PROVE  /\ IsFiniteSet(Live(f)) /\ Cardinality(Live(f)) \in Nat
         /\ IsFiniteSet(Passing(f)) /\ Cardinality(Passing(f)) \in Nat
<1>1. Tokens = 1 .. Len(token) /\ Len(token) \in Nat
  BY TokenShapes
<1>2. IsFiniteSet(Tokens)
  BY <1>1, FS_Interval
<1>3. IsFiniteSet(Live(f)) /\ IsFiniteSet(Passing(f))
  BY <1>2, FS_Subset, TokenAssumption DEF Live, Passing
<1> QED
  BY <1>3, FS_CardinalityType

\* No token becomes good, and no rotation reaches the point where it stores one.
LEMMA FewerLines ==
  ASSUME TokenTypes, NEW f \in 1 .. MaxTokens, Lines(f) <= budget[f],
         Live(f)' \subseteq Live(f), Passing(f)' \subseteq Passing(f), budget'[f] = budget[f]
  PROVE  Lines(f)' <= budget'[f]
<1>1. Cardinality(Live(f)') \in Nat /\ Cardinality(Live(f)') <= Cardinality(Live(f))
  BY LinesAreFinite, FS_Subset, FS_CardinalityType
<1>2. Cardinality(Passing(f)') \in Nat /\ Cardinality(Passing(f)') <= Cardinality(Passing(f))
  BY LinesAreFinite, FS_Subset, FS_CardinalityType
<1>3. budget[f] \in Nat
  BY DEF TokenTypes, TokenTypeOK
<1> QED
  BY <1>1, <1>2, <1>3, LinesAreFinite DEF Lines

\* A revocation of whole families leaves them the rotations under way.
LEMMA RevokedLines ==
  ASSUME TokenTypes, NEW f \in 1 .. MaxTokens, Lines(f) <= budget[f],
         NEW S \in SUBSET Tokens, Revoke(S),
         \A t \in S, u \in Tokens : token[t].family = token[u].family => u \in S,
         \A q \in Requests : \/ request'[q] = request[q]
                               \/ request'[q].pc \notin {"lookup", "insert"}
  PROVE  Lines(f)' <= budget'[f]
<1>1. token \in [Tokens -> Row]
  BY TokenShapes
<1>2. Tokens' = Tokens /\ \A t \in Tokens : token'[t] = [token[t] EXCEPT !.revoked = @ \/ t \in S]
  BY DEF Revoke, Tokens
<1>3. \A t \in Tokens : token'[t].family = token[t].family /\ token'[t].used = token[t].used
  <2> SUFFICES ASSUME NEW t \in Tokens
               PROVE  token'[t].family = token[t].family /\ token'[t].used = token[t].used
    OBVIOUS
  <2>1. PICK b \in BOOLEAN : b = (token[t].revoked \/ t \in S)
    OBVIOUS
  <2>2. token[t] \in Row /\ token'[t] = [token[t] EXCEPT !.revoked = b]
    BY <1>1, <1>2, <2>1
  <2> QED
    BY <2>2 DEF Row
<1>8. \A t \in Tokens : token[t].revoked => token'[t].revoked
  BY <1>1, <1>2 DEF Row
<1>9. \A t \in S : token'[t].revoked
  <2> SUFFICES ASSUME NEW t \in S PROVE token'[t].revoked
    OBVIOUS
  <2>1. token[t] \in Row /\ token'[t] = [token[t] EXCEPT !.revoked = TRUE]
    BY <1>1, <1>2
  <2> QED
    BY <2>1 DEF Row
<1>4. Live(f)' \subseteq Live(f)
  BY <1>2, <1>3, <1>8 DEF Live
<1>5. Passing(f)' \subseteq Passing(f)
  <2>1. \A q \in Requests : request[q].pc \in {"lookup", "insert"} => request[q].token \in Tokens
    BY DEF TokenTypes, Points, RotatePcs
  <2> QED
    BY <1>3, <2>1 DEF Passing
<1>6. ASSUME NEW t \in S, token[t].family = f PROVE Lines(f)' <= budget'[f]
  <2>1. Live(f)' = {}
    <3>1. \A u \in Tokens : token[u].family = f => u \in S
      BY <1>6
    <3>2. \A u \in Tokens : token'[u].family = f => token'[u].revoked
      BY <1>3, <1>9, <3>1
    <3> QED
      BY <1>2, <3>2 DEF Live
  <2>2. budget'[f] = Cardinality(Passing(f))
    BY <1>6 DEF Revoke
  <2>3. Cardinality(Passing(f)') <= Cardinality(Passing(f)) /\ Cardinality(Passing(f)') \in Nat
    BY <1>5, LinesAreFinite, FS_Subset, FS_CardinalityType
  <2> QED
    BY <2>1, <2>2, <2>3, FS_EmptySet DEF Lines
<1>7. CASE \A t \in S : token[t].family # f
  <2>1. budget'[f] = budget[f]
    BY <1>7 DEF Revoke
  <2> QED
    BY <1>4, <1>5, <2>1, FewerLines
<1> QED
  BY <1>6, <1>7

LEMMA LinesStep ==
  TokenTypes /\ LinesAreAccountedFor /\ [SessionNext]_sessionVars => LinesAreAccountedFor'
<1> SUFFICES ASSUME TokenTypes, LinesAreAccountedFor, [SessionNext]_sessionVars,
                    NEW f \in 1 .. MaxTokens
             PROVE  Lines(f)' <= budget'[f]
  BY DEF LinesAreAccountedFor
<1> USE TabAssumption
<1>0. /\ token \in [Tokens -> Row] /\ Tokens = 1 .. Len(token) /\ Len(token) \in 0 .. MaxTokens
      /\ request \in [Requests -> RequestType(Tokens)]
      /\ Lines(f) <= budget[f] /\ budget \in [1 .. MaxTokens -> Nat]
      /\ \A q \in Requests : request[q].pc \in {"lookup", "insert"} => request[q].token \in Tokens
      /\ \A t \in Tokens : token[t].family <= Len(token)
  BY TokenShapes DEF LinesAreAccountedFor, TokenTypes, TokenTypeOK, Points, RotatePcs
\* Requests move without storing or marking anything.
<1>1. ASSUME token' = token, budget' = budget,
             \A q \in Requests : \/ request'[q] = request[q]
                                   \/ request'[q].pc \notin {"lookup", "insert"}
                                   \/ /\ request[q].pc = "lookup"
                                      /\ request'[q].token = request[q].token
      PROVE  Lines(f)' <= budget'[f]
  <2>1. Live(f)' = Live(f)
    BY <1>1 DEF Live, Tokens
  <2>2. Passing(f)' \subseteq Passing(f)
    BY <1>1 DEF Passing
  <2> QED
    BY <1>0, <1>1, <2>1, <2>2, FewerLines
<1>2. ASSUME NEW r \in Requests, NEW answer, Reply(r, answer)
      PROVE  \A q \in Requests : \/ request'[q] = request[q]
                                  \/ request'[q].pc \notin {"lookup", "insert"}
  BY <1>0, <1>2 DEF Reply, RequestType
<1>3. ASSUME NEW r \in Requests, request' = [request EXCEPT ![r] = NoRequest]
      PROVE  \A q \in Requests : \/ request'[q] = request[q]
                                  \/ request'[q].pc \notin {"lookup", "insert"}
  BY <1>0, <1>3 DEF NoRequest
<1>4. ASSUME NEW r \in Requests, NEW t, Present(r, t) PROVE Lines(f)' <= budget'[f]
  <2>1. \A q \in Requests : \/ request'[q] = request[q]
                             \/ request'[q].pc \notin {"lookup", "insert"}
    BY <1>0, <1>4 DEF Present, NoRequest
  <2> QED
    BY <1>1, <1>4, <2>1 DEF Present
<1>5. CASE Login
  <2>1. PICK n \in 1 .. MaxTokens : n = Len(token) + 1
    BY <1>0, <1>5, TokenAssumption DEF Login, Issue
  <2>2. /\ Tokens' = Tokens \cup {n} /\ n \notin Tokens
        /\ token'[n] = Fresh(n) /\ \A t \in Tokens : token'[t] = token[t]
    BY <1>5, <2>1, OneMore DEF Login, Issue
  <2>3. request' = request /\ budget' = [budget EXCEPT ![n] = 1]
    BY <1>5, <2>1 DEF Login, Issue
  <2>4. CASE f = n
    <3>1. \A t \in Tokens : token[t].family # n
      <4>1. \A t \in Tokens : token[t].family \in Nat
        BY <1>0 DEF Row
      <4> QED
        BY <1>0, <2>1, <4>1
    <3>2. Live(n)' \subseteq {n}
      BY <2>2, <3>1 DEF Live
    <3>3. Passing(n)' = {}
      BY <1>0, <2>2, <2>3, <3>1 DEF Passing
    <3>4. Cardinality(Live(n)') <= 1 /\ Cardinality(Live(n)') \in Nat
      <4>1. IsFiniteSet({n}) /\ Cardinality({n}) = 1
        BY FS_Singleton
      <4> QED
        BY <3>2, <4>1, FS_Subset, FS_CardinalityType
    <3> QED
      BY <1>0, <2>3, <2>4, <3>3, <3>4, FS_EmptySet DEF Lines
  <2>5. CASE f # n
    <3>1. Live(f)' \subseteq Live(f)
      BY <2>2, <2>5 DEF Live, Fresh
    <3>2. Passing(f)' \subseteq Passing(f)
      BY <1>0, <2>2, <2>3 DEF Passing
    <3> QED
      BY <1>0, <2>3, <2>5, <3>1, <3>2, FewerLines
  <2> QED
    BY <2>4, <2>5
<1>6. CASE Logout
  BY <1>0, <1>6, RevokedLines DEF Logout, RevokeAll
<1>7. ASSUME NEW p \in Tabs, Refresh(p) PROVE Lines(f)' <= budget'[f]
  BY <1>4, <1>7 DEF Refresh
<1>8. ASSUME NEW p \in Tabs, Receive(p) PROVE Lines(f)' <= budget'[f]
  BY <1>1, <1>3, <1>8 DEF Receive
<1>9. ASSUME NEW r \in Requests, Elsewhere(r) PROVE Lines(f)' <= budget'[f]
  BY <1>1, <1>3, <1>4, <1>9 DEF Elsewhere
<1>10. ASSUME NEW r \in Requests, Find(r) PROVE Lines(f)' <= budget'[f]
  <2>1. \A q \in Requests : \/ request'[q] = request[q]
                             \/ request'[q].pc \notin {"lookup", "insert"}
    BY <1>0, <1>10 DEF Find, Reach, Reply, RequestType
  <2> QED
    BY <1>1, <1>10, <2>1 DEF Find
<1>11. ASSUME NEW r \in Requests, Lookup(r) PROVE Lines(f)' <= budget'[f]
  <2>1. \A q \in Requests : \/ request'[q] = request[q]
                             \/ request'[q].pc \notin {"lookup", "insert"}
                             \/ /\ request[q].pc = "lookup"
                                /\ request'[q].token = request[q].token
    BY <1>0, <1>11 DEF Lookup, Reach, Reply, RequestType
  <2> QED
    BY <1>1, <1>11, <2>1 DEF Lookup
<1>12. ASSUME NEW r \in Requests, RevokeFamily(r) PROVE Lines(f)' <= budget'[f]
  <2>1. FamilyOf(r) \in SUBSET Tokens
    BY DEF FamilyOf
  <2>2. \A t \in FamilyOf(r), u \in Tokens : token[t].family = token[u].family => u \in FamilyOf(r)
    BY DEF FamilyOf
  <2> QED
    BY <1>0, <1>2, <1>12, <2>1, <2>2, RevokedLines DEF RevokeFamily
<1>13. ASSUME NEW r \in Requests, Mark(r) PROVE Lines(f)' <= budget'[f]
  <2>1. PICK t \in Tokens : t = request[r].token
    BY <1>13 DEF Mark, TokenTypes, Points, RotatePcs
  <2>2. token' = [token EXCEPT ![t].used = TRUE] /\ Tokens' = Tokens
    BY <1>0, <1>13, <2>1 DEF Mark, Tokens
  <2>3. /\ \A u \in Tokens : token'[u].family = token[u].family /\ token'[u].revoked = token[u].revoked
        /\ \A u \in Tokens : u # t => token'[u] = token[u]
        /\ token'[t].used
    BY <1>0, <2>2 DEF Row
  <2>4. request' = [request EXCEPT ![r].pc = "lookup"] /\ \A q \in Requests : request'[q].token = request[q].token
    BY <1>0, <1>13 DEF Mark, Reach, RequestType
  <2>5. Live(f)' \subseteq Live(f) \ {t}
    BY <2>2, <2>3 DEF Live
  <2>6. CASE f # token[t].family
    <3>1. Passing(f)' \subseteq Passing(f)
      <4>1. SUFFICES ASSUME NEW q \in Passing(f)' PROVE q \in Passing(f)
        OBVIOUS
      <4>2. q \in Requests /\ request'[q].pc \in {"lookup", "insert"} /\ token'[request'[q].token].family = f
        BY <4>1 DEF Passing
      <4>3. q # r
        BY <2>1, <2>3, <2>4, <2>6, <4>2
      <4>4. request'[q] = request[q]
        BY <1>0, <2>4, <4>2, <4>3
      <4> QED
        BY <1>0, <2>3, <4>2, <4>4 DEF Passing
    <3>2. budget'[f] = budget[f]
      BY <1>0, <1>13, <2>1, <2>6 DEF Mark
    <3> QED
      BY <1>0, <2>5, <3>1, <3>2, FewerLines
  <2>7. CASE f = token[t].family
    <3>1. Passing(f)' \subseteq Passing(f) \cup {r}
      <4>1. SUFFICES ASSUME NEW q \in Passing(f)', q # r PROVE q \in Passing(f)
        OBVIOUS
      <4>2. q \in Requests /\ request'[q].pc \in {"lookup", "insert"} /\ token'[request'[q].token].family = f
        BY <4>1 DEF Passing
      <4>3. request'[q] = request[q]
        BY <1>0, <2>4, <4>1, <4>2
      <4> QED
        BY <1>0, <2>3, <4>2, <4>3 DEF Passing
    <3>2. r \notin Passing(f)
      BY <1>13 DEF Mark, Passing
    <3>3. /\ IsFiniteSet(Passing(f) \cup {r})
          /\ Cardinality(Passing(f) \cup {r}) = Cardinality(Passing(f)) + 1
      BY <3>2, LinesAreFinite, FS_AddElement
    <3>4. Cardinality(Passing(f)') <= Cardinality(Passing(f)) + 1 /\ Cardinality(Passing(f)') \in Nat
      BY <3>1, <3>3, FS_Subset, FS_CardinalityType
    <3>5. IsFiniteSet(Live(f) \ {t}) /\ Cardinality(Live(f)') <= Cardinality(Live(f) \ {t})
      BY <2>5, LinesAreFinite, FS_Subset
    <3>6. Cardinality(Live(f)') \in Nat
      BY <2>5, <3>5, FS_Subset, FS_CardinalityType
    <3>7. CASE t \in Live(f)
      <4>1. Cardinality(Live(f) \ {t}) = Cardinality(Live(f)) - 1
        BY <3>7, LinesAreFinite, FS_RemoveElement
      <4>2. budget' = budget
        BY <1>13, <2>1, <2>7, <3>7 DEF Mark
      <4> QED
        BY SMTT(30), <1>0, <3>4, <3>5, <3>6, <4>1, <4>2, LinesAreFinite DEF Lines
    <3>8. CASE t \notin Live(f)
      <4>1. Cardinality(Live(f)') <= Cardinality(Live(f))
        <5>1. Live(f) \ {t} = Live(f)
          BY <3>8
        <5> QED
          BY <3>5, <5>1
      <4>2. budget'[f] = budget[f] + 1
        BY <1>0, <1>13, <2>1, <2>7, <3>8 DEF Mark
      <4> QED
        <5>1. Cardinality(Live(f)) \in Nat /\ Cardinality(Passing(f)) \in Nat
          BY LinesAreFinite
        <5>2. /\ Lines(f) = Cardinality(Live(f)) + Cardinality(Passing(f))
              /\ Lines(f)' = Cardinality(Live(f)') + Cardinality(Passing(f)')
          BY DEF Lines
        <5>3. Lines(f) <= budget[f] /\ budget[f] \in Nat
          BY <1>0
        <5>4. Lines(f)' <= Lines(f) + 1
          BY <3>4, <3>6, <4>1, <5>1, <5>2
        <5> QED
          BY <3>4, <3>6, <4>2, <5>1, <5>2, <5>3, <5>4
    <3> QED
      BY <3>7, <3>8
  <2> QED
    BY <2>6, <2>7
<1>14. ASSUME NEW r \in Requests, InsertToken(r) PROVE Lines(f)' <= budget'[f]
  <2>1. PICK n \in 1 .. MaxTokens : n = Len(token) + 1
    BY <1>0, <1>14, TokenAssumption DEF InsertToken
  <2>2. PICK t \in Tokens : t = request[r].token
    BY <1>0, <1>14 DEF InsertToken
  <2>3. FamilyName(r) = token[t].family /\ FamilyName(r) \in 1 .. MaxTokens
    BY <1>0, <2>2 DEF FamilyName, Row
  <2>4. /\ Tokens' = Tokens \cup {n} /\ n \notin Tokens
        /\ token'[n] = Fresh(FamilyName(r)) /\ \A u \in Tokens : token'[u] = token[u]
    BY <1>14, <2>1, <2>3, OneMore DEF InsertToken
  <2>5. request'[r].pc = "done" /\ \A q \in Requests : q # r => request'[q] = request[q]
    BY <1>0, <1>14 DEF InsertToken, RequestType
  <2>6. Passing(f)' \subseteq Passing(f) \ {r}
    BY <1>0, <2>4, <2>5 DEF Passing
  <2>7. budget' = budget
    BY <1>14 DEF InsertToken
  <2>8. CASE f # FamilyName(r)
    <3>1. Live(f)' \subseteq Live(f)
      BY <2>4, <2>8 DEF Live, Fresh
    <3> QED
      BY <1>0, <2>6, <2>7, <3>1, FewerLines
  <2>9. CASE f = FamilyName(r)
    <3>1. Live(f)' \subseteq Live(f) \cup {n} /\ n \notin Live(f)
      BY <2>4 DEF Live
    <3>2. /\ IsFiniteSet(Live(f) \cup {n})
          /\ Cardinality(Live(f) \cup {n}) = Cardinality(Live(f)) + 1
      BY <3>1, LinesAreFinite, FS_AddElement
    <3>3. Cardinality(Live(f)') <= Cardinality(Live(f)) + 1 /\ Cardinality(Live(f)') \in Nat
      BY <3>1, <3>2, FS_Subset, FS_CardinalityType
    <3>4. r \in Passing(f)
      BY <1>14, <2>2, <2>3, <2>9 DEF Passing, InsertToken
    <3>5. IsFiniteSet(Passing(f) \ {r}) /\ Cardinality(Passing(f) \ {r}) = Cardinality(Passing(f)) - 1
      BY <3>4, LinesAreFinite, FS_RemoveElement, FS_Subset
    <3>6. Cardinality(Passing(f)') <= Cardinality(Passing(f)) - 1 /\ Cardinality(Passing(f)') \in Nat
      BY <2>6, <3>5, FS_Subset, FS_CardinalityType
    <3> QED
      BY SMTT(30), <1>0, <2>7, <3>3, <3>6, LinesAreFinite DEF Lines
  <2> QED
    BY <2>8, <2>9
<1>15. ASSUME NEW r \in Requests, RejectToken(r) \/ LoseRequest(r) PROVE Lines(f)' <= budget'[f]
  BY <1>1, <1>2, <1>15 DEF RejectToken, LoseRequest
<1>16. CASE LeaveWorkspace
  BY <1>1, <1>16 DEF LeaveWorkspace
<1>17. ASSUME NEW t \in Tokens, ExpireToken(t) PROVE Lines(f)' <= budget'[f]
  <2>1. Tokens' = Tokens /\ token' = [token EXCEPT ![t].expired = TRUE]
    BY <1>0, <1>17 DEF ExpireToken, Tokens
  <2>2. \A u \in Tokens : /\ token'[u].family = token[u].family /\ token'[u].used = token[u].used
                           /\ token'[u].revoked = token[u].revoked
    BY ZenonT(40), <1>0, <2>1 DEF Row
  <2>3. request' = request /\ budget' = budget
    BY <1>17 DEF ExpireToken
  <2>4. Live(f)' \subseteq Live(f)
    BY <2>1, <2>2 DEF Live
  <2>5. Passing(f)' \subseteq Passing(f)
    BY <1>0, <2>2, <2>3 DEF Passing
  <2> QED
    BY <1>0, <2>3, <2>4, <2>5, FewerLines
<1>18. CASE UNCHANGED sessionVars
  BY <1>1, <1>18 DEF sessionVars
<1> QED
  BY <1>5, <1>6, <1>7, <1>8, <1>9, <1>10, <1>11, <1>12, <1>13, <1>14, <1>15, <1>16, <1>17, <1>18
  DEF SessionNext, Serve, Rotate

\* A family lives on along one line, and splits only when a token that was used or
\* revoked since it was read is marked; a reuse or a logout leaves only the rotations
\* that were under way: for any number of requests and tokens.
THEOREM FamiliesDoNotSplit == SessionSpec => []LinesAreAccountedFor
<1>1. SessionInit => LinesAreAccountedFor
  <2> SUFFICES ASSUME SessionInit, NEW f \in 1 .. MaxTokens PROVE Lines(f) <= budget[f]
    BY DEF LinesAreAccountedFor
  <2>1. Live(f) = {} /\ Passing(f) = {}
    BY TokenTypeInit, TokenShapes DEF SessionInit, TokenInit, Live, Passing, NoRequest, Tokens
  <2> QED
    BY <2>1, FS_EmptySet DEF Lines, SessionInit, TokenInit
<1> QED
  BY <1>1, TokenTypeInit, TokenTypeStep, LinesStep, PTL DEF SessionSpec

-----------------------------------------------------------------------------
(* the stored token *)

\* Nothing has happened that may end a session.
Quiet == ~raced /\ upsets = 0

\* Then one tab at most is refreshing, with the stored token, and it is not refused.
Undisturbed == member /\ \A t \in Tokens : ~token[t].revoked /\ ~token[t].expired
OneTab ==
  /\ \A r \in Requests \ Tabs : request[r].pc = "idle"
  /\ \A p, q \in Tabs : request[p].pc # "idle" /\ request[q].pc # "idle" => p = q
Refreshing(p) ==
  request[p].pc # "idle" =>
    /\ stored \in Tokens /\ request[p].token = stored /\ request[p].pc # "revoke"
    /\ request[p].pc \in {"find", "mark"} => ~token[stored].used
    /\ request[p].pc # "done" => request[p].answer = "none"
    /\ request[p].pc = "done" => /\ request[p].answer = "ok"
                                 /\ request[p].new \in Tokens /\ ~token[request[p].new].used
AtRest == stored \in Tokens /\ (\A p \in Tabs : request[p].pc = "idle") => ~token[stored].used
SessionHolds == Undisturbed /\ OneTab /\ (\A p \in Tabs : Refreshing(p)) /\ AtRest

SessionInv == Quiet => SessionHolds

\* Only tab p is about: it decides what holds next.
LEMMA OnlyOneMoves ==
  ASSUME TokenTypes, TokenTypes', NEW p \in Tabs,
         \A q \in Requests : q # p => request'[q].pc = "idle",
         Undisturbed', Refreshing(p)',
         request'[p].pc = "idle" /\ stored' \in Tokens' => ~token'[stored'].used
  PROVE  SessionHolds'
<1>1. OneTab'
  BY TabAssumption DEF OneTab
<1>2. \A q \in Tabs : Refreshing(q)'
  BY TabAssumption DEF Refreshing
<1>3. AtRest'
  BY DEF AtRest
<1> QED
  BY <1>1, <1>2, <1>3 DEF SessionHolds

LEMMA SessionStep ==
  TokenTypes /\ TokenTypes' /\ SessionInv /\ [SessionNext]_sessionVars => SessionInv'
<1> SUFFICES ASSUME TokenTypes, TokenTypes', SessionInv, [SessionNext]_sessionVars, Quiet'
             PROVE  SessionHolds'
  BY DEF SessionInv
<1> USE TabAssumption
<1>0. /\ token \in [Tokens -> Row] /\ Tokens = 1 .. Len(token) /\ Len(token) \in 0 .. MaxTokens
      /\ request \in [Requests -> RequestType(Tokens)] /\ upsets \in Nat /\ MaxTokens \in Nat
      /\ stored \in {0} \cup Tokens /\ ~raced' /\ upsets' = 0 /\ 0 \notin Tokens
  BY TokenShapes DEF Quiet, TokenTypes, Points
<1>1. ~Upset
  BY <1>0 DEF Upset
<1>2. ASSUME raced' = raced \/ raced' = (raced \/ Overlap), upsets' = upsets PROVE SessionHolds
  BY <1>0, <1>2 DEF SessionInv, Quiet
<1>3. ASSUME SessionHolds, NEW r \in Requests, request[r].pc # "idle"
      PROVE  /\ r \in Tabs /\ \A q \in Requests : q # r => request[q].pc = "idle"
             /\ Refreshing(r) /\ Undisturbed
  BY <1>3 DEF SessionHolds, OneTab
<1>4. CASE Login
  <2>1. SessionHolds /\ request' = request /\ member' = member
    BY <1>2, <1>4 DEF Login, Issue
  <2>2. \A r \in Requests : request'[r].pc = "idle"
    BY <1>0, <1>4, <2>1 DEF Login, SessionHolds, OneTab, Refreshing
  <2>3. PICK n \in 1 .. MaxTokens : n = Len(token) + 1
    BY <1>0, <1>4 DEF Login, Issue
  <2>4. /\ Tokens' = Tokens \cup {n} /\ token'[n] = Fresh(n) /\ \A t \in Tokens : token'[t] = token[t]
        /\ Len(token') = n
    BY <1>4, <2>3, OneMore DEF Login, Issue
  <2>5. stored' = n
    BY <1>4, <2>4 DEF Login
  <2>6. Undisturbed'
    BY <2>1, <2>4 DEF SessionHolds, Undisturbed, Fresh
  <2>7. AtRest'
    BY <2>4, <2>5 DEF AtRest, Fresh
  <2> QED
    BY <2>2, <2>6, <2>7 DEF SessionHolds, OneTab, Refreshing
<1>5. CASE Logout
  BY <1>1, <1>5 DEF Logout, RevokeAll
<1>6. ASSUME NEW p \in Tabs, Refresh(p) PROVE SessionHolds'
  <2>1. SessionHolds /\ token' = token /\ member' = member /\ stored' = stored
    BY <1>2, <1>6 DEF Refresh, Present
  <2>2. request'[p] = [NoRequest EXCEPT !.pc = "find", !.token = stored] /\ \A q \in Requests : q # p => request'[q] = request[q]
    BY <1>0, <1>6 DEF Refresh, Present
  <2>3. /\ request'[p].pc = "find" /\ request'[p].token = stored /\ request'[p].answer = "none"
        /\ stored \in Tokens
    BY ZenonT(40), <1>6, <2>2 DEF NoRequest, Refresh, Present
  <2>4. \A q \in Tabs : q # p => request'[q].pc = "idle"
    <3>1. ~Overlap
      BY <1>0, <1>6 DEF Refresh
    <3> QED
      BY <2>3, <3>1 DEF Overlap
  <2>5. \A q \in Requests : q # p => request'[q].pc = "idle"
    BY <2>1, <2>2, <2>4 DEF SessionHolds, OneTab
  <2>6. \A q \in Tabs : request[q].pc = "idle"
    BY <1>6, <2>2, <2>4 DEF Refresh, Present
  <2>7. ~token[stored].used
    BY <2>1, <2>3, <2>6 DEF SessionHolds, AtRest
  <2>8. Undisturbed' /\ Tokens' = Tokens
    BY <2>1 DEF SessionHolds, Undisturbed, Tokens
  <2>9. Refreshing(p)'
    BY <2>1, <2>3, <2>7, <2>8 DEF Refreshing
  <2> QED
    BY <2>3, <2>5, <2>8, <2>9, OnlyOneMoves
<1>7. ASSUME NEW p \in Tabs, Receive(p) PROVE SessionHolds'
  <2>1. SessionHolds /\ token' = token /\ member' = member /\ request[p].pc = "done"
    BY <1>2, <1>7 DEF Receive
  <2>2. Refreshing(p) /\ Undisturbed /\ \A q \in Requests : q # p => request[q].pc = "idle"
    BY <1>3, <2>1
  <2>3. /\ request'[p].pc = "idle" /\ \A q \in Requests : q # p => request'[q] = request[q]
    BY <1>0, <1>7 DEF Receive, NoRequest
  <2>4. stored' = request[p].new /\ ~token[stored'].used
    BY <1>7, <2>1, <2>2 DEF Receive, StoredAfter, Refreshing
  <2>5. Undisturbed' /\ Refreshing(p)'
    BY <2>1, <2>2, <2>3 DEF Undisturbed, Tokens, Refreshing
  <2> QED
    BY <2>1, <2>2, <2>3, <2>4, <2>5, OnlyOneMoves
<1>8. ASSUME NEW r \in Requests \ Tabs, Elsewhere(r) PROVE SessionHolds'
  BY <1>0, <1>2, <1>3, <1>8 DEF Elsewhere
<1>9. ASSUME NEW r \in Requests, Find(r), UNCHANGED <<stored, raced>> PROVE SessionHolds'
  <2>1. SessionHolds /\ token' = token /\ member' = member /\ request[r].pc = "find"
    BY <1>2, <1>9 DEF Find
  <2>2. r \in Tabs /\ Refreshing(r) /\ Undisturbed /\ \A q \in Requests : q # r => request[q].pc = "idle"
    BY <1>3, <2>1
  <2>3. request[r].token = stored /\ stored \in Tokens /\ request[r].answer = "none" /\ ~token[stored].used
    BY <2>1, <2>2 DEF Refreshing
  <2>4. request' = [request EXCEPT ![r].pc = "mark"]
    BY <1>9, <2>2, <2>3 DEF Find, Undisturbed, Reach
  <2>5. /\ request'[r].pc = "mark" /\ request'[r].token = stored /\ request'[r].answer = "none"
        /\ \A q \in Requests : q # r => request'[q] = request[q]
    BY <1>0, <2>3, <2>4 DEF RequestType
  <2>6. Undisturbed' /\ Tokens' = Tokens
    BY <2>1, <2>2 DEF Undisturbed, Tokens
  <2>7. Refreshing(r)'
    BY <1>9, <2>1, <2>3, <2>5, <2>6 DEF Refreshing
  <2> QED
    BY <2>2, <2>5, <2>6, <2>7, OnlyOneMoves
<1>10. ASSUME NEW r \in Requests, Mark(r), UNCHANGED <<stored, raced>> PROVE SessionHolds'
  <2>1. SessionHolds /\ member' = member /\ request[r].pc = "mark"
    BY <1>2, <1>10 DEF Mark
  <2>2. r \in Tabs /\ Refreshing(r) /\ Undisturbed /\ \A q \in Requests : q # r => request[q].pc = "idle"
    BY <1>3, <2>1
  <2>3. request[r].token = stored /\ stored \in Tokens /\ request[r].answer = "none"
    BY <2>1, <2>2 DEF Refreshing
  <2>4. /\ request'[r].pc = "lookup" /\ request'[r].token = stored /\ request'[r].answer = "none"
        /\ \A q \in Requests : q # r => request'[q] = request[q]
    BY <1>0, <1>10, <2>3 DEF Mark, Reach, RequestType
  <2>5. Tokens' = Tokens /\ token' = [token EXCEPT ![stored].used = TRUE]
    BY <1>0, <1>10, <2>3 DEF Mark, Tokens
  <2>6. \A t \in Tokens : token'[t].revoked = token[t].revoked /\ token'[t].expired = token[t].expired
    BY <1>0, <2>3, <2>5 DEF Row
  <2>7. Undisturbed'
    BY <2>1, <2>2, <2>5, <2>6 DEF Undisturbed
  <2>8. Refreshing(r)'
    BY <1>10, <2>3, <2>4, <2>5 DEF Refreshing
  <2> QED
    BY <2>2, <2>4, <2>7, <2>8, OnlyOneMoves
<1>11. ASSUME NEW r \in Requests, Lookup(r), UNCHANGED <<stored, raced>> PROVE SessionHolds'
  <2>1. SessionHolds /\ token' = token /\ member' = member /\ request[r].pc = "lookup"
    BY <1>2, <1>11 DEF Lookup
  <2>2. r \in Tabs /\ Refreshing(r) /\ Undisturbed /\ \A q \in Requests : q # r => request[q].pc = "idle"
    BY <1>3, <2>1
  <2>3. request[r].token = stored /\ stored \in Tokens /\ request[r].answer = "none"
    BY <2>1, <2>2 DEF Refreshing
  <2>4. request' = [request EXCEPT ![r].pc = "insert"]
    BY <1>11, <2>2 DEF Lookup, Undisturbed, Reach
  <2>5. /\ request'[r].pc = "insert" /\ request'[r].token = stored /\ request'[r].answer = "none"
        /\ \A q \in Requests : q # r => request'[q] = request[q]
    BY <1>0, <2>3, <2>4 DEF RequestType
  <2>6. Undisturbed' /\ Tokens' = Tokens
    BY <2>1, <2>2 DEF Undisturbed, Tokens
  <2>7. Refreshing(r)'
    BY <1>11, <2>3, <2>5, <2>6 DEF Refreshing
  <2> QED
    BY <2>2, <2>5, <2>6, <2>7, OnlyOneMoves
<1>12. ASSUME NEW r \in Requests, InsertToken(r), UNCHANGED <<stored, raced>> PROVE SessionHolds'
  <2>1. SessionHolds /\ member' = member /\ request[r].pc = "insert"
    BY <1>2, <1>12 DEF InsertToken
  <2>2. r \in Tabs /\ Refreshing(r) /\ Undisturbed /\ \A q \in Requests : q # r => request[q].pc = "idle"
    BY <1>3, <2>1
  <2>3. request[r].token = stored /\ stored \in Tokens
    BY <2>1, <2>2 DEF Refreshing
  <2>4. PICK n \in 1 .. MaxTokens : n = Len(token) + 1
    BY <1>0, <1>12 DEF InsertToken
  <2>5. FamilyName(r) \in 1 .. MaxTokens
    BY <1>0, <2>3 DEF FamilyName, Row
  <2>6. /\ Tokens' = Tokens \cup {n} /\ token'[n] = Fresh(FamilyName(r))
        /\ \A t \in Tokens : token'[t] = token[t]
    BY <1>12, <2>4, <2>5, OneMore DEF InsertToken
  <2>7. request' = [request EXCEPT ![r].pc = "done", ![r].answer = "ok", ![r].new = n]
    BY <1>12, <2>4 DEF InsertToken
  <2>8. /\ request'[r].pc = "done" /\ request'[r].token = stored /\ request'[r].answer = "ok"
        /\ request'[r].new = n
        /\ \A q \in Requests : q # r => request'[q] = request[q]
    BY <1>0, <2>3, <2>7 DEF RequestType
  <2>9. Undisturbed'
    BY <2>1, <2>2, <2>6 DEF Undisturbed, Fresh
  <2>10. Refreshing(r)'
    BY <1>12, <2>3, <2>6, <2>8 DEF Refreshing, Fresh
  <2> QED
    BY <2>2, <2>8, <2>9, <2>10, OnlyOneMoves
<1>13. ASSUME NEW r \in Requests, RevokeFamily(r), UNCHANGED <<stored, raced>> PROVE SessionHolds'
  BY <1>2, <1>3, <1>13 DEF RevokeFamily, Refreshing
<1>14. ASSUME NEW r \in Requests, RejectToken(r) \/ LoseRequest(r) PROVE SessionHolds'
  BY <1>1, <1>14 DEF RejectToken, LoseRequest
<1>15. CASE LeaveWorkspace
  BY <1>1, <1>15 DEF LeaveWorkspace
<1>16. ASSUME NEW t \in Tokens, ExpireToken(t) PROVE SessionHolds'
  BY <1>1, <1>16 DEF ExpireToken
<1>17. CASE UNCHANGED sessionVars
  <2>1. SessionHolds
    BY <1>2, <1>17 DEF sessionVars
  <2> QED
    BY <1>17, <2>1 DEF sessionVars, SessionHolds, Undisturbed, OneTab, Refreshing, AtRest, Tokens
<1> QED
  BY <1>4, <1>5, <1>6, <1>7, <1>8, <1>9, <1>10, <1>11, <1>12, <1>13, <1>14, <1>15, <1>16, <1>17
  DEF SessionNext, Serve, Rotate

\* While no two clients refresh at once, no command fails, no answer is lost and nobody
\* logs out, the stored token is good or its successor is on its way, for any number
\* of tabs and of refreshes.
THEOREM SessionSurvivesQuiet == SessionSpec => []StoredTokenIsLive
<1>1. SessionInit => SessionInv
  BY TokenTypeInit, TokenShapes, TabAssumption
  DEF SessionInit, TokenInit, SessionInv, SessionHolds, Undisturbed, OneTab, Refreshing, AtRest, NoRequest, Tokens
<1>2. TokenTypes /\ SessionInv => StoredTokenIsLive
  <2> SUFFICES ASSUME TokenTypes, SessionHolds, stored # 0
               PROVE  \/ stored \in Live(token[stored].family)
                      \/ \E p \in Tabs : request[p].token = stored /\ request[p].answer \in {"none", "ok"}
    BY DEF SessionInv, Quiet, StoredTokenIsLive
  <2>1. stored \in Tokens
    BY DEF TokenTypes, Points
  <2>2. CASE \A p \in Tabs : request[p].pc = "idle"
    BY <2>1, <2>2 DEF SessionHolds, AtRest, Undisturbed, Live
  <2>3. ASSUME NEW p \in Tabs, request[p].pc # "idle"
        PROVE  request[p].token = stored /\ request[p].answer \in {"none", "ok"}
    BY <2>3 DEF SessionHolds, Refreshing
  <2> QED
    BY <2>2, <2>3
<1> QED
  BY <1>1, <1>2, TokenTypeInit, TokenTypeStep, SessionStep, PTL DEF SessionSpec

-----------------------------------------------------------------------------
(***************************************************************************)
(* CollabRooms.  A room nobody shared with another has every edit, and     *)
(* what is saved of it comes in the order of the versions.                 *)
(***************************************************************************)

(* shapes *)

RoomType   == [clients : SUBSET Sockets, doc : SUBSET Sockets, version : Nat]
SocketType == [pc : {"out", "load", "create", "in"}, open : BOOLEAN, doc : SUBSET Sockets, version : Nat]
Thens      == {"nothing", "remove", "close"}
SaveType   == [pc : {"idle", "insert", "bump"}, room : Nat, doc : SUBSET Sockets, version : Nat, then : Thens]
RowType    == [version : Nat, doc : SUBSET Sockets]

RoomShape ==
  /\ room \in Seq(RoomType) /\ rooms \in 0 .. Len(room) /\ pending \in 0 .. Len(room)
  /\ socket \in [Sockets -> SocketType]
  /\ save \in [Saves -> SaveType]
  /\ \A s \in Saves : save[s].room <= Len(room) /\ (s \in Saving => save[s].room # 0)
  /\ snapshots \subseteq RowType
  /\ opens \in 0 .. MaxOpens /\ kicks \in 0 .. MaxKicks /\ roomFaults \in 0 .. RoomMaxFaults
  /\ mixed \in BOOLEAN /\ tied \in BOOLEAN

LEMMA RoomShapeIsType == RoomShape => RoomTypeOK
<1> SUFFICES ASSUME RoomShape PROVE RoomTypeOK
  OBVIOUS
<1>1. /\ room \in Seq([clients : SUBSET Sockets, doc : SUBSET Sockets, version : Nat]) /\ Len(room) \in Nat
      /\ rooms \in 0 .. Len(room) /\ pending \in 0 .. Len(room)
  BY DEF RoomShape, RoomType
<1>2. socket \in [Sockets -> [pc : {"out", "load", "create", "in"}, open : BOOLEAN, doc : SUBSET Sockets, version : Nat]]
  BY DEF RoomShape, SocketType
<1>3. save \in [Saves -> [pc : {"idle", "insert", "bump"}, room : 0 .. Len(room), doc : SUBSET Sockets,
                          version : Nat, then : {"nothing", "remove", "close"}]]
  <2>1. ASSUME NEW s \in Saves
        PROVE  save[s] \in [pc : {"idle", "insert", "bump"}, room : 0 .. Len(room), doc : SUBSET Sockets,
                            version : Nat, then : {"nothing", "remove", "close"}]
    <3>1. save[s] \in SaveType /\ save[s].room <= Len(room)
      BY DEF RoomShape
    <3>2. save[s].room \in 0 .. Len(room)
      BY <1>1, <3>1 DEF SaveType
    <3> QED
      BY <3>1, <3>2 DEF SaveType, Thens
  <2> QED
    BY <2>1 DEF RoomShape
<1>4. snapshots \subseteq [version : Nat, doc : SUBSET Sockets]
  BY DEF RoomShape, RowType
<1>5. /\ opens \in 0 .. MaxOpens /\ kicks \in 0 .. MaxKicks /\ roomFaults \in 0 .. RoomMaxFaults
  BY DEF RoomShape
<1>6. mixed \in BOOLEAN /\ tied \in BOOLEAN
  BY DEF RoomShape
<1> QED
  BY <1>1, <1>2, <1>3, <1>4, <1>5, <1>6 DEF RoomTypeOK

LEMMA OutAndIdle == Out \in SocketType /\ Idle \in SaveType
BY DEF Out, Idle, SocketType, SaveType, Thens

LEMMA RoomShapeInit == RoomInit => RoomShape
<1> SUFFICES ASSUME RoomInit PROVE RoomShape
  OBVIOUS
<1>1. room \in Seq(RoomType) /\ Len(room) = 0 /\ rooms = 0 /\ pending = 0 /\ snapshots = {}
  BY DEF RoomInit
<1>2. socket \in [Sockets -> SocketType] /\ save \in [Saves -> SaveType]
  BY OutAndIdle DEF RoomInit
<1>3. \A s \in Saves : save[s].room = 0 /\ s \notin Saving
  BY DEF RoomInit, Idle, Saving
<1>4. opens \in 0 .. MaxOpens /\ kicks \in 0 .. MaxKicks /\ roomFaults \in 0 .. RoomMaxFaults
  BY RoomAssumption DEF RoomInit
<1>5. mixed \in BOOLEAN /\ tied \in BOOLEAN
  BY DEF RoomInit
<1> QED
  BY <1>1, <1>2, <1>3, <1>4, <1>5 DEF RoomShape

LEMMA RoomTypes ==
  ASSUME RoomShape
  PROVE  /\ room \in Seq(RoomType) /\ Len(room) \in Nat /\ DOMAIN room = 1 .. Len(room)
         /\ (\A i \in 1 .. Len(room) : room[i] \in RoomType)
         /\ rooms \in 0 .. Len(room) /\ pending \in 0 .. Len(room)
         /\ socket \in [Sockets -> SocketType] /\ save \in [Saves -> SaveType]
         /\ \A s \in Saving : s \in Saves /\ save[s].room \in 1 .. Len(room)
         /\ snapshots \subseteq RowType /\ roomFaults \in Nat
<1>1. /\ room \in Seq(RoomType) /\ Len(room) \in Nat /\ DOMAIN room = 1 .. Len(room)
      /\ \A i \in 1 .. Len(room) : room[i] \in RoomType
  BY DEF RoomShape
<1>2. ASSUME NEW s \in Saving PROVE s \in Saves /\ save[s].room \in 1 .. Len(room)
  BY <1>1 DEF RoomShape, Saving, SaveType
<1> QED
  BY <1>1, <1>2, RoomAssumption DEF RoomShape

\* One room changes.
LEMMA OneRoomChanges ==
  ASSUME RoomShape, NEW i \in 1 .. Len(room), NEW x \in RoomType, room' = [room EXCEPT ![i] = x]
  PROVE  /\ room' \in Seq(RoomType) /\ Len(room') = Len(room) /\ DOMAIN room' = DOMAIN room
         /\ room'[i] = x /\ \A j \in DOMAIN room : j # i => room'[j] = room[j]
<1>1. room \in Seq(RoomType)
  BY DEF RoomShape
<1> QED
  BY <1>1

\* Somebody joins or leaves: no document changes.
LEMMA ClientsChange ==
  ASSUME RoomShape, NEW i \in 1 .. Len(room), NEW C \in SUBSET Sockets, room' = [room EXCEPT ![i].clients = C]
  PROVE  /\ room' \in Seq(RoomType) /\ Len(room') = Len(room) /\ DOMAIN room' = DOMAIN room
         /\ \A j \in DOMAIN room : room'[j].doc = room[j].doc /\ room'[j].version = room[j].version
<1>1. PICK y \in RoomType : y = room[i]
  BY RoomTypes
<1>2. PICK x : x = [y EXCEPT !.clients = C]
  OBVIOUS
<1>3. x \in RoomType /\ x.doc = y.doc /\ x.version = y.version
  BY <1>1, <1>2 DEF RoomType
<1>4. room' = [room EXCEPT ![i] = x]
  BY <1>1, <1>2
<1> QED
  BY <1>1, <1>3, <1>4, OneRoomChanges

\* An edit is merged into the document of a room.
LEMMA DocumentGrows ==
  ASSUME RoomShape, NEW i \in 1 .. Len(room), NEW c \in Sockets, room' = [room EXCEPT ![i].doc = @ \cup {c}]
  PROVE  /\ room' \in Seq(RoomType) /\ Len(room') = Len(room) /\ DOMAIN room' = DOMAIN room
         /\ \A j \in DOMAIN room : room'[j].version = room[j].version
         /\ room'[i].doc = room[i].doc \cup {c} /\ \A j \in DOMAIN room : j # i => room'[j].doc = room[j].doc
<1>1. PICK y \in RoomType : y = room[i]
  BY RoomTypes
<1>2. PICK x : x = [y EXCEPT !.doc = y.doc \cup {c}]
  OBVIOUS
<1>3. x \in RoomType /\ x.doc = y.doc \cup {c} /\ x.version = y.version
  BY <1>1, <1>2 DEF RoomType
<1>4. room' = [room EXCEPT ![i] = x]
  BY <1>1, <1>2
<1> QED
  BY <1>1, <1>3, <1>4, OneRoomChanges

\* A room learns the version of its snapshot.
LEMMA VersionChanges ==
  ASSUME RoomShape, NEW i \in 1 .. Len(room), NEW v \in Nat, room' = [room EXCEPT ![i].version = v]
  PROVE  /\ room' \in Seq(RoomType) /\ Len(room') = Len(room) /\ DOMAIN room' = DOMAIN room
         /\ \A j \in DOMAIN room : room'[j].doc = room[j].doc
         /\ room'[i].version = v /\ \A j \in DOMAIN room : j # i => room'[j].version = room[j].version
<1>1. PICK y \in RoomType : y = room[i]
  BY RoomTypes
<1>2. PICK x : x = [y EXCEPT !.version = v]
  OBVIOUS
<1>3. x \in RoomType /\ x.doc = y.doc /\ x.version = v
  BY <1>1, <1>2 DEF RoomType
<1>4. room' = [room EXCEPT ![i] = x]
  BY <1>1, <1>2
<1> QED
  BY <1>1, <1>3, <1>4, OneRoomChanges

\* What a flush of room i does.
Begun(s, i, then) ==
  /\ s \in Saves \ Saving
  /\ save' \in [Saves -> SaveType]
  /\ save'[s].pc = "insert" /\ save'[s].room = i /\ save'[s].doc = room[i].doc
  /\ save'[s].version = room[i].version + 1 /\ save'[s].then = then
  /\ \A t \in Saves : t # s => save'[t] = save[t]
  /\ Saving' = Saving \cup {s}
  /\ pending' = 0
  /\ tied' = (tied \/ Saving # {})

LEMMA FlushBegins ==
  ASSUME RoomShape, NEW i \in 1 .. Len(room), NEW then \in Thens, Flush(i, room[i].doc, then)
  PROVE  \E s \in Saves : Begun(s, i, then)
<1>1. /\ room[i] \in RoomType /\ save \in [Saves -> SaveType] /\ i \in Nat
  BY RoomTypes
<1>2. PICK s \in Saves \ Saving :
        save' = [save EXCEPT ![s] = [pc |-> "insert", room |-> i, doc |-> room[i].doc,
                                     version |-> room[i].version + 1, then |-> then]]
  BY DEF Flush
<1>3. PICK v \in Nat : v = room[i].version + 1
  BY <1>1 DEF RoomType
<1>4. PICK d \in SUBSET Sockets : d = room[i].doc
  BY <1>1 DEF RoomType
<1>5. PICK r : r = [pc |-> "insert", room |-> i, doc |-> d, version |-> v, then |-> then]
  OBVIOUS
<1>6. r \in SaveType /\ r.pc = "insert" /\ r.room = i /\ r.doc = d /\ r.version = v /\ r.then = then
  BY <1>1, <1>5 DEF SaveType
<1>7. save' = [save EXCEPT ![s] = r]
  BY <1>2, <1>3, <1>4, <1>5
<1>8. save' \in [Saves -> SaveType] /\ save'[s] = r /\ \A t \in Saves : t # s => save'[t] = save[t]
  BY <1>1, <1>6, <1>7
<1>9. Saving' = Saving \cup {s}
  BY <1>6, <1>8 DEF Saving
<1>10. pending' = 0 /\ tied' = (tied \/ Saving # {})
  BY DEF Flush
<1> QED
  BY <1>3, <1>4, <1>6, <1>8, <1>9, <1>10 DEF Begun

\* What happens to the room and its saves when a client leaves it.
LEMMA ClientLeaves ==
  ASSUME RoomShape, NEW c \in Sockets, rooms # 0, RemoveClient(c)
  PROVE  /\ room' \in Seq(RoomType) /\ Len(room') = Len(room) /\ DOMAIN room' = DOMAIN room
         /\ \A j \in DOMAIN room : room'[j].doc = room[j].doc /\ room'[j].version = room[j].version
         /\ (\E s \in Saves : Begun(s, rooms, "remove")) \/ UNCHANGED <<save, pending, tied>>
<1>1. rooms \in 1 .. Len(room) /\ room[rooms] \in RoomType
  BY RoomTypes
<1>2. PICK C \in SUBSET Sockets : C = room[rooms].clients \ {c}
  BY <1>1 DEF RoomType
<1>3. room' = [room EXCEPT ![rooms].clients = C]
  BY <1>1, <1>2 DEF RemoveClient
<1>4. (\E s \in Saves : Begun(s, rooms, "remove")) \/ UNCHANGED <<save, pending, tied>>
  BY <1>1, FlushBegins DEF RemoveClient, Thens
<1> QED
  BY <1>1, <1>2, <1>3, <1>4, ClientsChange

\* A save whose row is in, and one that is over.
LEMMA SaveIsStored ==
  ASSUME RoomShape, NEW s \in Saves, save[s].pc = "insert", save' = [save EXCEPT ![s].pc = "bump"]
  PROVE  /\ save' \in [Saves -> SaveType] /\ Saving' = Saving
         /\ save'[s].pc = "bump" /\ \A t \in Saves : t # s => save'[t] = save[t]
         /\ \A t \in Saves : /\ save'[t].room = save[t].room /\ save'[t].doc = save[t].doc
                             /\ save'[t].version = save[t].version /\ save'[t].then = save[t].then
<1>1. save \in [Saves -> SaveType]
  BY RoomTypes
<1>2. PICK x \in SaveType : x = save[s]
  BY <1>1
<1>3. PICK r : r = [x EXCEPT !.pc = "bump"]
  OBVIOUS
<1>4. /\ r \in SaveType /\ r.pc = "bump" /\ r.room = x.room /\ r.doc = x.doc
      /\ r.version = x.version /\ r.then = x.then
  BY <1>2, <1>3 DEF SaveType
<1>5. save' = [save EXCEPT ![s] = r]
  BY <1>1, <1>2, <1>3
<1>6. save' \in [Saves -> SaveType] /\ save'[s] = r /\ \A t \in Saves : t # s => save'[t] = save[t]
  BY <1>1, <1>4, <1>5
<1>7. Saving' = Saving
  BY <1>4, <1>6 DEF Saving
<1>8. ASSUME NEW t \in Saves
      PROVE  /\ save'[t].room = save[t].room /\ save'[t].doc = save[t].doc
             /\ save'[t].version = save[t].version /\ save'[t].then = save[t].then
  BY <1>2, <1>4, <1>6
<1> QED
  BY <1>4, <1>6, <1>7, <1>8

LEMMA SaveIsOver ==
  ASSUME RoomShape, NEW s \in Saves, save' = [save EXCEPT ![s] = Idle]
  PROVE  /\ save' \in [Saves -> SaveType] /\ Saving' = Saving \ {s}
         /\ save'[s] = Idle /\ \A t \in Saves : t # s => save'[t] = save[t]
<1>1. save' \in [Saves -> SaveType] /\ save'[s] = Idle /\ \A t \in Saves : t # s => save'[t] = save[t]
  BY RoomTypes, OutAndIdle
<1> QED
  BY <1>1 DEF Saving, Idle

\* One socket changes.
LEMMA SocketChanges ==
  ASSUME RoomShape, NEW c \in Sockets, NEW r \in SocketType, socket' = [socket EXCEPT ![c] = r]
  PROVE  /\ socket' \in [Sockets -> SocketType] /\ socket'[c] = r
         /\ \A b \in Sockets : b # c => socket'[b] = socket[b]
BY RoomTypes

\* The parts of the shape that a step may disturb.
LEMMA RoomShapeNext ==
  ASSUME RoomShape, room' \in Seq(RoomType), Len(room') >= Len(room), rooms' \in 0 .. Len(room'), pending' \in 0 .. Len(room'),
         socket' \in [Sockets -> SocketType], save' \in [Saves -> SaveType],
         \A s \in Saves : save'[s].room <= Len(room') /\ (s \in Saving' => save'[s].room # 0),
         snapshots' \subseteq RowType,
         opens' \in 0 .. MaxOpens, kicks' \in 0 .. MaxKicks, roomFaults' \in 0 .. RoomMaxFaults, mixed' \in BOOLEAN, tied' \in BOOLEAN
  PROVE  RoomShape'
BY DEF RoomShape

\* A flush, or none, of the room that is there or of the one the timer is for.
LEMMA SavesAreSane ==
  ASSUME RoomShape, Len(room') \in Nat, Len(room') >= Len(room),
         \/ \E s \in Saves, i \in 1 .. Len(room), then \in Thens : Begun(s, i, then)
         \/ UNCHANGED <<save, pending, tied>>
  PROVE  /\ save' \in [Saves -> SaveType] /\ pending' \in 0 .. Len(room') /\ tied' \in BOOLEAN
         /\ \A s \in Saves : save'[s].room <= Len(room') /\ (s \in Saving' => save'[s].room # 0)
<1>1. /\ save \in [Saves -> SaveType] /\ pending \in 0 .. Len(room) /\ tied \in BOOLEAN /\ Len(room) \in Nat
      /\ \A s \in Saves : save[s].room \in Nat /\ save[s].room <= Len(room) /\ (s \in Saving => save[s].room # 0)
  BY RoomTypes DEF RoomShape, SaveType
<1>2. CASE UNCHANGED <<save, pending, tied>>
  BY <1>1, <1>2 DEF Saving
<1>3. ASSUME NEW s \in Saves, NEW i \in 1 .. Len(room), NEW then \in Thens, Begun(s, i, then)
      PROVE  /\ save' \in [Saves -> SaveType] /\ pending' \in 0 .. Len(room') /\ tied' \in BOOLEAN
             /\ \A t \in Saves : save'[t].room <= Len(room') /\ (t \in Saving' => save'[t].room # 0)
  <2>1. save' \in [Saves -> SaveType] /\ pending' \in 0 .. Len(room') /\ tied' \in BOOLEAN
    BY <1>1, <1>3 DEF Begun
  <2>2. ASSUME NEW t \in Saves PROVE save'[t].room <= Len(room') /\ (t \in Saving' => save'[t].room # 0)
    <3>1. CASE t = s
      BY <1>1, <1>3, <3>1 DEF Begun
    <3>2. CASE t # s
      BY <1>1, <1>3, <3>2 DEF Begun
    <3> QED
      BY <3>1, <3>2
  <2> QED
    BY <2>1, <2>2
<1> QED
  BY <1>2, <1>3

LEMMA RoomShapeStep == RoomShape /\ [RoomNext]_roomVars => RoomShape'
<1> SUFFICES ASSUME RoomShape, [RoomNext]_roomVars PROVE RoomShape'
  OBVIOUS
<1>1. /\ room \in Seq(RoomType) /\ Len(room) \in Nat /\ DOMAIN room = 1 .. Len(room)
      /\ (\A i \in 1 .. Len(room) : room[i] \in RoomType)
      /\ rooms \in 0 .. Len(room) /\ pending \in 0 .. Len(room)
      /\ socket \in [Sockets -> SocketType] /\ save \in [Saves -> SaveType] /\ snapshots \subseteq RowType
  BY RoomTypes
<1>2. /\ opens \in 0 .. MaxOpens /\ kicks \in 0 .. MaxKicks /\ roomFaults \in 0 .. RoomMaxFaults
      /\ MaxOpens \in Nat /\ MaxKicks \in Nat /\ RoomMaxFaults \in Nat
  BY RoomAssumption DEF RoomShape
<1>3. mixed \in BOOLEAN /\ tied \in BOOLEAN
  BY DEF RoomShape
<1>4. ASSUME UNCHANGED save, Len(room') \in Nat, Len(room') >= Len(room)
      PROVE  \A s \in Saves : save'[s].room <= Len(room') /\ (s \in Saving' => save'[s].room # 0)
  <2>1. ASSUME NEW s \in Saves PROVE save[s].room <= Len(room) /\ (s \in Saving => save[s].room # 0) /\ save[s].room \in Nat
    BY <1>1 DEF RoomShape, SaveType
  <2> QED
    BY <1>1, <1>4, <2>1 DEF Saving
<1>5. CASE UNCHANGED roomVars
  BY <1>5 DEF RoomShape, roomVars, Saving
<1>6. ASSUME NEW c \in Sockets, Connect(c) PROVE RoomShape'
  <2>1. opens' \in 0 .. MaxOpens
    BY <1>2, <1>6 DEF Connect
  <2>2. mixed' \in BOOLEAN /\ UNCHANGED <<rooms, pending, save, snapshots, kicks, roomFaults, tied>>
    BY <1>3, <1>6 DEF Connect
  <2>3. PICK pc \in {"in", "load"} : socket' = [socket EXCEPT ![c].pc = pc, ![c].open = TRUE]
    BY <1>6 DEF Connect
  <2>4. socket' \in [Sockets -> SocketType]
    <3>1. PICK x \in SocketType : x = socket[c]
      BY <1>1
    <3>2. [x EXCEPT !.pc = pc, !.open = TRUE] \in SocketType
      BY DEF SocketType
    <3> QED
      BY <1>1, <2>3, <3>1, <3>2
  <2>5. room' \in Seq(RoomType) /\ Len(room') = Len(room)
    <3>1. CASE rooms = 0
      BY <1>1, <1>6, <3>1 DEF Connect
    <3>2. CASE rooms # 0
      <4>1. rooms \in 1 .. Len(room) /\ room[rooms].clients \cup {c} \in SUBSET Sockets
        BY <1>1, <3>2 DEF RoomType
      <4>2. room' = [room EXCEPT ![rooms].clients = room[rooms].clients \cup {c}]
        BY <1>6, <3>2 DEF Connect, Join
      <4> QED
        BY <4>1, <4>2, ClientsChange
    <3> QED
      BY <3>1, <3>2
  <2> QED
    BY <1>1, <1>2, <1>3, <1>4, <2>1, <2>2, <2>4, <2>5, RoomShapeNext
<1>7. ASSUME NEW c \in Sockets, Load(c) PROVE RoomShape'
  <2>1. UNCHANGED <<rooms, room, pending, save, snapshots, opens, kicks, roomFaults, mixed, tied>>
    BY <1>7 DEF Load
  <2>2. PICK r \in RowType : socket' = [socket EXCEPT ![c].pc = "create", ![c].doc = r.doc, ![c].version = r.version]
    BY <1>1, <1>7 DEF Load, Newest, NoRow, RowType
  <2>3. PICK d \in SUBSET Sockets, v \in Nat : d = r.doc /\ v = r.version
    BY DEF RowType
  <2>4. socket' \in [Sockets -> SocketType]
    <3>1. PICK x \in SocketType : x = socket[c]
      BY <1>1
    <3>2. PICK y : y = [x EXCEPT !.pc = "create", !.doc = d, !.version = v]
      OBVIOUS
    <3>3. y \in SocketType
      BY <3>2 DEF SocketType
    <3>4. socket' = [socket EXCEPT ![c] = y]
      BY <1>1, <2>2, <2>3, <3>1, <3>2
    <3> QED
      BY <1>1, <3>3, <3>4
  <2> QED
    BY <1>1, <1>2, <1>3, <1>4, <2>1, <2>4, RoomShapeNext
<1>8. ASSUME NEW c \in Sockets, CreateRoom(c) PROVE RoomShape'
  <2>1. UNCHANGED <<pending, save, snapshots, opens, kicks, roomFaults, mixed, tied>>
    BY <1>8 DEF CreateRoom
  <2>2. PICK x : x = [clients |-> {c}, doc |-> socket[c].doc, version |-> socket[c].version]
    OBVIOUS
  <2>3. x \in RoomType
    BY <1>1, <2>2 DEF RoomType, SocketType
  <2>4. room' \in Seq(RoomType) /\ Len(room') = Len(room) + 1 /\ rooms' = Len(room) + 1
    BY <1>1, <1>8, <2>2, <2>3 DEF CreateRoom
  <2>5. socket' \in [Sockets -> SocketType]
    <3>1. PICK o \in BOOLEAN : o = socket[c].open
      BY <1>1 DEF SocketType
    <3>2. [Out EXCEPT !.pc = "in", !.open = o] \in SocketType
      BY OutAndIdle DEF SocketType
    <3> QED
      BY <1>1, <1>8, <3>1, <3>2 DEF CreateRoom
  <2> QED
    BY <1>1, <1>2, <1>3, <1>4, <2>1, <2>4, <2>5, RoomShapeNext
<1>9. ASSUME NEW c \in Sockets, Edit(c) PROVE RoomShape'
  <2>1. UNCHANGED <<rooms, socket, save, snapshots, opens, kicks, roomFaults, tied>> /\ pending' = rooms /\ mixed' \in BOOLEAN
    BY <1>3, <1>9 DEF Edit
  <2>2. rooms \in 1 .. Len(room) /\ room' = [room EXCEPT ![rooms].doc = @ \cup {c}]
    BY <1>1, <1>9 DEF Edit
  <2>3. room' \in Seq(RoomType) /\ Len(room') = Len(room)
    BY <2>2, DocumentGrows
  <2> QED
    BY <1>1, <1>2, <1>3, <1>4, <2>1, <2>3, RoomShapeNext
<1>10. ASSUME NEW c \in Sockets, Disconnect(c) PROVE RoomShape'
  <2>1. UNCHANGED <<rooms, snapshots, opens, kicks, roomFaults, mixed>>
    BY <1>10 DEF Disconnect
  <2>2. /\ room' \in Seq(RoomType) /\ Len(room') = Len(room)
        /\ \/ rooms # 0 /\ \E s \in Saves : Begun(s, rooms, "remove")
           \/ UNCHANGED <<save, pending, tied>>
    BY <1>1, <1>10, ClientLeaves DEF Disconnect
  <2>3. socket' \in [Sockets -> SocketType]
    <3>1. PICK x \in SocketType : x = socket[c]
      BY <1>1
    <3>2. PICK pc \in {"out", "load", "create", "in"} : pc = IF x.pc = "in" THEN "out" ELSE x.pc
      BY DEF SocketType
    <3>3. PICK y : y = [x EXCEPT !.open = FALSE, !.pc = pc]
      OBVIOUS
    <3>4. y \in SocketType
      BY <3>3 DEF SocketType
    <3>5. socket' = [socket EXCEPT ![c] = y]
      BY <1>1, <1>10, <3>1, <3>2, <3>3 DEF Disconnect
    <3> QED
      BY <1>1, <3>4, <3>5
  <2>5. /\ save' \in [Saves -> SaveType] /\ pending' \in 0 .. Len(room') /\ tied' \in BOOLEAN
        /\ \A s \in Saves : save'[s].room <= Len(room') /\ (s \in Saving' => save'[s].room # 0)
    <3>1. rooms # 0 => rooms \in 1 .. Len(room)
      BY <1>1
    <3> QED
      BY <1>1, <2>2, <3>1, SavesAreSane DEF Thens
  <2> QED
    BY <1>1, <1>2, <1>3, <2>1, <2>2, <2>3, <2>5, RoomShapeNext
<1>11. ASSUME NEW c \in Sockets, Kick(c) PROVE RoomShape'
  <2>1. UNCHANGED <<rooms, socket, snapshots, opens, roomFaults, mixed>> /\ kicks' \in 0 .. MaxKicks
    BY <1>2, <1>11 DEF Kick
  <2>2. /\ room' \in Seq(RoomType) /\ Len(room') = Len(room) /\ rooms \in 1 .. Len(room)
        /\ (\E s \in Saves : Begun(s, rooms, "remove")) \/ UNCHANGED <<save, pending, tied>>
    BY <1>1, <1>11, ClientLeaves DEF Kick
  <2>3. /\ save' \in [Saves -> SaveType] /\ pending' \in 0 .. Len(room') /\ tied' \in BOOLEAN
        /\ \A s \in Saves : save'[s].room <= Len(room') /\ (s \in Saving' => save'[s].room # 0)
    BY <1>1, <2>2, SavesAreSane DEF Thens
  <2> QED
    BY <1>1, <1>2, <1>3, <2>1, <2>2, <2>3, RoomShapeNext
<1>12. CASE TimerFires \/ CloseRoom
  <2>1. UNCHANGED <<rooms, room, socket, snapshots, opens, roomFaults, mixed>> /\ kicks' \in 0 .. MaxKicks
    BY <1>2, <1>12 DEF TimerFires, CloseRoom
  <2>2. \E s \in Saves, i \in 1 .. Len(room), then \in Thens : Begun(s, i, then)
    <3>1. CASE TimerFires
      <4>1. pending \in 1 .. Len(room) /\ Flush(pending, room[pending].doc, "nothing") /\ "nothing" \in Thens
        BY <1>1, <3>1 DEF TimerFires, Thens
      <4> QED
        BY <4>1, FlushBegins
    <3>2. CASE CloseRoom
      <4>1. rooms \in 1 .. Len(room) /\ Flush(rooms, room[rooms].doc, "close") /\ "close" \in Thens
        BY <1>1, <3>2 DEF CloseRoom, Thens
      <4> QED
        BY <4>1, FlushBegins
    <3> QED
      BY <1>12, <3>1, <3>2
  <2>3. /\ save' \in [Saves -> SaveType] /\ pending' \in 0 .. Len(room') /\ tied' \in BOOLEAN
        /\ \A s \in Saves : save'[s].room <= Len(room') /\ (s \in Saving' => save'[s].room # 0)
    BY <1>1, <2>1, <2>2, SavesAreSane
  <2> QED
    BY <1>1, <1>2, <1>3, <2>1, <2>3, RoomShapeNext
<1>13. ASSUME NEW s \in Saves, InsertSnapshot(s) PROVE RoomShape'
  <2>1. /\ UNCHANGED <<rooms, room, socket, pending, opens, kicks, roomFaults, mixed, tied>>
        /\ save[s].pc = "insert" /\ save' = [save EXCEPT ![s].pc = "bump"]
    BY <1>13 DEF InsertSnapshot
  <2>2. snapshots' \subseteq RowType
    <3>1. [version |-> save[s].version, doc |-> save[s].doc] \in RowType
      BY <1>1 DEF RowType, SaveType
    <3> QED
      BY <1>1, <1>13, <3>1 DEF InsertSnapshot
  <2>3. save' \in [Saves -> SaveType] /\ Saving' = Saving /\ \A t \in Saves : save'[t].room = save[t].room
    BY <2>1, SaveIsStored
  <2>4. \A t \in Saves : save'[t].room <= Len(room') /\ (t \in Saving' => save'[t].room # 0)
    BY <2>1, <2>3 DEF RoomShape
  <2> QED
    BY <1>1, <1>2, <1>3, <2>1, <2>2, <2>3, <2>4, RoomShapeNext
<1>14. ASSUME NEW s \in Saves, save' = [save EXCEPT ![s] = Idle], Len(room') = Len(room)
       PROVE  \A t \in Saves : save'[t].room <= Len(room') /\ (t \in Saving' => save'[t].room # 0)
  <2>1. Saving' = Saving \ {s} /\ save'[s] = Idle /\ \A t \in Saves : t # s => save'[t] = save[t]
    BY <1>14, SaveIsOver
  <2> QED
    BY <1>1, <1>14, <2>1 DEF RoomShape, Idle
<1>15. ASSUME NEW s \in Saves, EndSave(s) PROVE RoomShape'
  <2>1. UNCHANGED <<socket, pending, snapshots, opens, kicks, roomFaults, mixed, tied>> /\ save' = [save EXCEPT ![s] = Idle]
    BY <1>15 DEF EndSave
  <2>2. s \in Saving
    BY <1>15 DEF EndSave, Saving
  <2>3. save[s].room \in 1 .. Len(room) /\ save[s].version \in Nat
    BY <1>1, <2>2, RoomTypes DEF SaveType
  <2>4. room' \in Seq(RoomType) /\ Len(room') = Len(room)
    BY <1>15, <2>3, VersionChanges DEF EndSave, Bumped
  <2>5. rooms' \in 0 .. Len(room')
    BY <1>1, <1>15, <2>4 DEF EndSave
  <2>6. save' \in [Saves -> SaveType]
    BY <2>1, SaveIsOver
  <2>7. \A t \in Saves : save'[t].room <= Len(room') /\ (t \in Saving' => save'[t].room # 0)
    BY <1>14, <2>1, <2>4
  <2> QED
    BY <1>1, <1>2, <1>3, <2>1, <2>4, <2>5, <2>6, <2>7, RoomShapeNext
<1>16. ASSUME NEW s \in Saves, RejectSnapshot(s) PROVE RoomShape'
  <2>1. UNCHANGED <<room, socket, pending, snapshots, opens, kicks, mixed, tied>> /\ save' = [save EXCEPT ![s] = Idle]
    BY <1>16 DEF RejectSnapshot
  <2>2. rooms' \in 0 .. Len(room') /\ roomFaults' \in 0 .. RoomMaxFaults
    BY <1>1, <1>2, <1>16, <2>1 DEF RejectSnapshot, RoomFault
  <2>3. save' \in [Saves -> SaveType]
    BY <2>1, SaveIsOver
  <2>4. \A t \in Saves : save'[t].room <= Len(room') /\ (t \in Saving' => save'[t].room # 0)
    BY <1>14, <2>1
  <2> QED
    BY <1>1, <1>2, <1>3, <2>1, <2>2, <2>3, <2>4, RoomShapeNext
<1>17. CASE RestartCollab
  <2>1. UNCHANGED <<room, snapshots, opens, kicks, mixed, tied>> /\ rooms' = 0 /\ pending' = 0
    BY <1>17 DEF RestartCollab
  <2>2. roomFaults' \in 0 .. RoomMaxFaults
    BY <1>2, <1>17 DEF RestartCollab, RoomFault
  <2>3. socket' \in [Sockets -> SocketType] /\ save' \in [Saves -> SaveType]
    BY <1>17, OutAndIdle DEF RestartCollab
  <2>4. \A t \in Saves : save'[t].room <= Len(room') /\ (t \in Saving' => save'[t].room # 0)
    BY <1>1, <1>17, <2>1 DEF RestartCollab, Idle, Saving
  <2> QED
    BY <1>1, <1>2, <1>3, <2>1, <2>2, <2>3, <2>4, RoomShapeNext
<1> QED
  BY <1>5, <1>6, <1>7, <1>8, <1>9, <1>10, <1>11, <1>12, <1>13, <1>15, <1>16, <1>17 DEF RoomNext

LEMMA RoomShapeHolds == RoomSpec => []RoomShape
BY RoomShapeInit, RoomShapeStep, PTL DEF RoomSpec

\* Every variable of the rooms of a draft keeps its shape.
THEOREM RoomTypeCorrect == RoomSpec => []RoomTypeOK
BY RoomShapeHolds, RoomShapeIsType, PTL

-----------------------------------------------------------------------------
(* one room at a time *)

\* What both properties suppose: no fault, and no client that met another one's opening.
Served == ~mixed /\ roomFaults = 0

\* The timer is the room's, which is not on its way out; who opens the draft is alone;
\* what is saved is the room's.
OneRoom ==
  Served => /\ pending # 0 => pending = rooms /\ ~Doomed(rooms)
            /\ \A c \in Opening : rooms = 0 /\ pending = 0 /\ Saving = {} /\ Opening = {c}
            /\ rooms # 0 => \A s \in Saving : save[s].room = rooms

\* The steps that are left when there is no fault.
Faultless ==
  \/ \E c \in Sockets : Connect(c) \/ Load(c) \/ CreateRoom(c) \/ Edit(c) \/ Disconnect(c) \/ Kick(c)
  \/ \E s \in Saves : InsertSnapshot(s) \/ EndSave(s)
  \/ TimerFires \/ CloseRoom

LEMMA ServedBefore ==
  ASSUME RoomShape, [RoomNext]_roomVars, Served' PROVE Served /\ (Faultless \/ UNCHANGED roomVars)
<1>1. roomFaults \in Nat /\ mixed \in BOOLEAN
  BY RoomTypes DEF RoomShape
<1>2. ~RoomFault
  BY <1>1 DEF RoomFault, Served
<1>3. Faultless \/ UNCHANGED roomVars
  BY SMTT(30), <1>2 DEF RoomNext, Faultless, RejectSnapshot, RestartCollab
<1>4. UNCHANGED roomFaults
  BY <1>3 DEF Faultless, roomVars, Connect, Load, CreateRoom, Edit, Disconnect, Kick, InsertSnapshot, EndSave, TimerFires, CloseRoom
<1>5. ASSUME NEW c \in Sockets, Connect(c) \/ Edit(c) PROVE ~mixed
  BY <1>5 DEF Connect, Edit, Served
<1>6. ASSUME ~\E c \in Sockets : Connect(c) \/ Edit(c) PROVE UNCHANGED mixed
  BY <1>3, <1>6 DEF Faultless, roomVars, Load, CreateRoom, Disconnect, Kick, InsertSnapshot, EndSave, TimerFires, CloseRoom
<1>7. ~mixed
  BY <1>5, <1>6 DEF Served
<1> QED
  BY <1>3, <1>4, <1>7 DEF Served

\* A flush of the room that is there, or of the one the timer is for, which is the same.
LEMMA FlushOfTheRoom ==
  ASSUME RoomShape, OneRoom, Served,
         \/ \E c \in Sockets : Kick(c)
         \/ \E c \in Sockets : rooms # 0 /\ Disconnect(c)
         \/ TimerFires \/ CloseRoom
  PROVE  /\ rooms \in 1 .. Len(room) /\ (pending = 0 \/ pending = rooms)
         /\ room' \in Seq(RoomType) /\ Len(room') = Len(room) /\ DOMAIN room' = DOMAIN room
         /\ \A j \in DOMAIN room : room'[j].doc = room[j].doc /\ room'[j].version = room[j].version
         /\ UNCHANGED <<rooms, snapshots>>
         /\ (\E s \in Saves, then \in Thens : Begun(s, rooms, then)) \/ UNCHANGED <<save, pending, tied>>
<1>1. rooms \in 0 .. Len(room) /\ Len(room) \in Nat /\ (pending # 0 => pending = rooms) /\ room \in Seq(RoomType) /\ pending \in 0 .. Len(room)
  BY RoomTypes DEF OneRoom
<1>2. ASSUME NEW c \in Sockets, rooms # 0, RemoveClient(c), UNCHANGED <<rooms, snapshots>>
      PROVE  /\ room' \in Seq(RoomType) /\ Len(room') = Len(room) /\ DOMAIN room' = DOMAIN room
             /\ \A j \in DOMAIN room : room'[j].doc = room[j].doc /\ room'[j].version = room[j].version
             /\ (\E s \in Saves, then \in Thens : Begun(s, rooms, then)) \/ UNCHANGED <<save, pending, tied>>
  BY <1>2, ClientLeaves DEF Thens
<1>3. CASE \E c \in Sockets : Kick(c)
  BY <1>1, <1>2, <1>3 DEF Kick
<1>4. CASE \E c \in Sockets : rooms # 0 /\ Disconnect(c)
  BY <1>1, <1>2, <1>4 DEF Disconnect
<1>5. CASE TimerFires \/ CloseRoom
  <2>1. UNCHANGED <<room, rooms, snapshots>> /\ rooms \in 1 .. Len(room)
    BY <1>1, <1>5 DEF TimerFires, CloseRoom
  <2>2. PICK then \in Thens : Flush(rooms, room[rooms].doc, then)
    BY <1>1, <1>5 DEF TimerFires, CloseRoom, Thens
  <2>3. \E s \in Saves : Begun(s, rooms, then)
    BY <2>1, <2>2, FlushBegins
  <2> QED
    BY <1>1, <2>1, <2>3
<1> QED
  BY <1>3, <1>4, <1>5

\* Who opens the draft, before and after.
LEMMA OpeningChanges ==
  ASSUME RoomShape, NEW c \in Sockets
  PROVE  /\ Load(c) \/ Disconnect(c) => Opening' = Opening
         /\ Connect(c) /\ rooms # 0 => Opening' = Opening
         /\ Connect(c) /\ rooms = 0 => Opening' = Opening \cup {c}
         /\ CreateRoom(c) => c \in Opening /\ Opening' = Opening \ {c}
<1>1. socket \in [Sockets -> SocketType]
  BY RoomTypes
<1>2. ASSUME Load(c) PROVE Opening' = Opening
  <2>1. PICK d, v : socket' = [socket EXCEPT ![c].pc = "create", ![c].doc = d, ![c].version = v]
    BY <1>2 DEF Load
  <2>2. socket'[c].pc = "create" /\ socket[c].pc = "load" /\ \A b \in Sockets : b # c => socket'[b] = socket[b]
    BY <1>1, <1>2, <2>1 DEF Load, SocketType
  <2> QED
    BY <2>2 DEF Opening
<1>3. ASSUME Disconnect(c) PROVE Opening' = Opening
  <2>1. PICK x \in SocketType : x = socket[c]
    BY <1>1
  <2>2. PICK pc : pc = (IF x.pc = "in" THEN "out" ELSE x.pc)
    OBVIOUS
  <2>3. PICK y : y = [x EXCEPT !.open = FALSE, !.pc = pc]
    OBVIOUS
  <2>4. y.pc = pc
    BY <2>1, <2>3 DEF SocketType
  <2>5. socket' = [socket EXCEPT ![c] = y]
    BY <1>1, <1>3, <2>1, <2>2, <2>3 DEF Disconnect
  <2>6. socket'[c] = y /\ \A b \in Sockets : b # c => socket'[b] = socket[b]
    BY <1>1, <2>5
  <2> QED
    BY <2>1, <2>2, <2>4, <2>6 DEF Opening
<1>4. ASSUME Connect(c), NEW pc, socket' = [socket EXCEPT ![c].pc = pc, ![c].open = TRUE]
      PROVE  socket[c].pc = "out" /\ socket'[c].pc = pc /\ \A b \in Sockets : b # c => socket'[b] = socket[b]
  BY <1>1, <1>4 DEF Connect, SocketType
<1>5. ASSUME Connect(c), rooms # 0 PROVE Opening' = Opening
  <2>1. socket[c].pc = "out" /\ socket'[c].pc = "in" /\ \A b \in Sockets : b # c => socket'[b] = socket[b]
    BY <1>4, <1>5 DEF Connect
  <2> QED
    BY <2>1 DEF Opening
<1>6. ASSUME Connect(c), rooms = 0 PROVE Opening' = Opening \cup {c}
  <2>1. socket[c].pc = "out" /\ socket'[c].pc = "load" /\ \A b \in Sockets : b # c => socket'[b] = socket[b]
    BY <1>4, <1>6 DEF Connect
  <2> QED
    BY <2>1 DEF Opening
<1>7. ASSUME CreateRoom(c) PROVE c \in Opening /\ Opening' = Opening \ {c}
  <2>1. socket[c].pc = "create" /\ socket'[c].pc = "in" /\ \A b \in Sockets : b # c => socket'[b] = socket[b]
    BY <1>1, <1>7 DEF CreateRoom, Out
  <2> QED
    BY <2>1 DEF Opening
<1> QED
  BY <1>2, <1>3, <1>5, <1>6, <1>7

LEMMA OneRoomInit == RoomInit => OneRoom
BY DEF RoomInit, OneRoom, Opening, Out

LEMMA OneRoomStep == RoomShape /\ OneRoom /\ [RoomNext]_roomVars => OneRoom'
<1> SUFFICES ASSUME RoomShape, OneRoom, [RoomNext]_roomVars, Served'
             PROVE  /\ pending' # 0 => pending' = rooms' /\ ~Doomed(rooms)'
                    /\ \A c \in Opening' : rooms' = 0 /\ pending' = 0 /\ Saving' = {} /\ Opening' = {c}
                    /\ rooms' # 0 => \A s \in Saving' : save'[s].room = rooms'
  BY DEF OneRoom
<1>1. Served /\ (Faultless \/ UNCHANGED roomVars)
  BY ServedBefore
<1>2. /\ pending # 0 => pending = rooms /\ ~Doomed(rooms)
      /\ \A c \in Opening : rooms = 0 /\ pending = 0 /\ Saving = {} /\ Opening = {c}
      /\ rooms # 0 => \A s \in Saving : save[s].room = rooms
  BY <1>1 DEF OneRoom
<1>3. UNCHANGED <<rooms, save>> => Doomed(rooms)' = Doomed(rooms) /\ Saving' = Saving
  BY DEF Doomed, Saving
<1>4. CASE UNCHANGED roomVars
  BY <1>2, <1>3, <1>4 DEF roomVars, Opening
<1>5. ASSUME NEW c \in Sockets, Connect(c)
      PROVE  /\ pending' # 0 => pending' = rooms' /\ ~Doomed(rooms)'
             /\ \A b \in Opening' : rooms' = 0 /\ pending' = 0 /\ Saving' = {} /\ Opening' = {b}
             /\ rooms' # 0 => \A s \in Saving' : save'[s].room = rooms'
  <2>1. UNCHANGED <<rooms, pending, save>> /\ ~mixed'
    BY <1>5 DEF Connect, Served
  <2>2. CASE rooms # 0
    BY <1>2, <1>3, <1>5, <2>1, <2>2, OpeningChanges
  <2>3. CASE rooms = 0
    <3>1. Opening = {} /\ pending = 0 /\ Saving = {}
      BY <1>5, <2>1, <2>3 DEF Connect
    <3> QED
      BY <1>3, <1>5, <2>1, <2>3, <3>1, OpeningChanges
  <2> QED
    BY <2>2, <2>3
<1>6. ASSUME NEW c \in Sockets, Load(c)
      PROVE  /\ pending' # 0 => pending' = rooms' /\ ~Doomed(rooms)'
             /\ \A b \in Opening' : rooms' = 0 /\ pending' = 0 /\ Saving' = {} /\ Opening' = {b}
             /\ rooms' # 0 => \A s \in Saving' : save'[s].room = rooms'
  BY <1>2, <1>3, <1>6, OpeningChanges DEF Load
<1>7. ASSUME NEW c \in Sockets, CreateRoom(c)
      PROVE  /\ pending' # 0 => pending' = rooms' /\ ~Doomed(rooms)'
             /\ \A b \in Opening' : rooms' = 0 /\ pending' = 0 /\ Saving' = {} /\ Opening' = {b}
             /\ rooms' # 0 => \A s \in Saving' : save'[s].room = rooms'
  <2>1. c \in Opening /\ Opening' = Opening \ {c}
    BY <1>7, OpeningChanges
  <2>2. Opening' = {} /\ pending' = 0 /\ Saving' = {}
    BY <1>2, <1>7, <2>1 DEF CreateRoom, Saving
  <2> QED
    BY <2>2
<1>8. ASSUME NEW c \in Sockets, Edit(c)
      PROVE  /\ pending' # 0 => pending' = rooms' /\ ~Doomed(rooms)'
             /\ \A b \in Opening' : rooms' = 0 /\ pending' = 0 /\ Saving' = {} /\ Opening' = {b}
             /\ rooms' # 0 => \A s \in Saving' : save'[s].room = rooms'
  <2>1. rooms # 0 /\ pending' = rooms /\ ~Doomed(rooms) /\ UNCHANGED <<rooms, save, socket>>
    BY <1>8 DEF Edit, Served
  <2>2. Opening' = Opening
    BY <2>1 DEF Opening
  <2> QED
    BY <1>2, <1>3, <2>1, <2>2
<1>9. ASSUME \/ \E c \in Sockets : Kick(c)
             \/ \E c \in Sockets : rooms # 0 /\ Disconnect(c)
             \/ TimerFires \/ CloseRoom
      PROVE  /\ pending' # 0 => pending' = rooms' /\ ~Doomed(rooms)'
             /\ \A b \in Opening' : rooms' = 0 /\ pending' = 0 /\ Saving' = {} /\ Opening' = {b}
             /\ rooms' # 0 => \A s \in Saving' : save'[s].room = rooms'
  <2>1. /\ rooms \in 1 .. Len(room) /\ UNCHANGED rooms
        /\ (\E s \in Saves, then \in Thens : Begun(s, rooms, then)) \/ UNCHANGED <<save, pending, tied>>
    BY <1>1, <1>9, FlushOfTheRoom
  <2>2. rooms # 0
    BY <2>1
  <2>3. Opening' = Opening
    BY <1>9, OpeningChanges DEF Kick, TimerFires, CloseRoom, Opening
  <2>4. CASE UNCHANGED <<save, pending, tied>>
    BY <1>2, <1>3, <2>1, <2>2, <2>3, <2>4
  <2>5. ASSUME NEW s \in Saves, NEW then \in Thens, Begun(s, rooms, then)
        PROVE  pending' = 0 /\ \A t \in Saving' : save'[t].room = rooms
    <3>1. Saving' = Saving \cup {s} /\ save'[s].room = rooms /\ pending' = 0 /\ \A t \in Saves : t # s => save'[t] = save[t]
      BY <2>5 DEF Begun
    <3> QED
      BY <1>2, <2>2, <3>1 DEF Saving
  <2> QED
    BY <1>2, <2>1, <2>2, <2>3, <2>4, <2>5
<1>10. ASSUME NEW c \in Sockets, Disconnect(c), rooms = 0
       PROVE  /\ pending' # 0 => pending' = rooms' /\ ~Doomed(rooms)'
              /\ \A b \in Opening' : rooms' = 0 /\ pending' = 0 /\ Saving' = {} /\ Opening' = {b}
              /\ rooms' # 0 => \A s \in Saving' : save'[s].room = rooms'
  <2>1. UNCHANGED <<rooms, save, pending>> /\ Opening' = Opening
    BY <1>10, OpeningChanges DEF Disconnect
  <2> QED
    BY <1>2, <1>3, <2>1
<1>11. ASSUME NEW s \in Saves, InsertSnapshot(s)
       PROVE  /\ pending' # 0 => pending' = rooms' /\ ~Doomed(rooms)'
              /\ \A b \in Opening' : rooms' = 0 /\ pending' = 0 /\ Saving' = {} /\ Opening' = {b}
              /\ rooms' # 0 => \A t \in Saving' : save'[t].room = rooms'
  <2>1. /\ UNCHANGED <<rooms, pending, socket>> /\ Saving' = Saving
        /\ \A t \in Saves : save'[t].room = save[t].room /\ save'[t].then = save[t].then
    BY <1>11, SaveIsStored DEF InsertSnapshot
  <2>2. Doomed(rooms)' <=> Doomed(rooms)
    BY <2>1 DEF Doomed, Saving
  <2>3. Opening' = Opening
    BY <2>1 DEF Opening
  <2> QED
    BY <1>2, <2>1, <2>2, <2>3 DEF Saving
<1>12. ASSUME NEW s \in Saves, EndSave(s)
       PROVE  /\ pending' # 0 => pending' = rooms' /\ ~Doomed(rooms)'
              /\ \A b \in Opening' : rooms' = 0 /\ pending' = 0 /\ Saving' = {} /\ Opening' = {b}
              /\ rooms' # 0 => \A t \in Saving' : save'[t].room = rooms'
  <2>1. /\ UNCHANGED <<pending, socket>> /\ s \in Saving
        /\ rooms' = (IF save[s].then = "nothing" THEN rooms ELSE 0)
        /\ Saving' = Saving \ {s} /\ \A t \in Saves : t # s => save'[t] = save[t]
    BY <1>12, SaveIsOver DEF EndSave, Saving
  <2>2. Opening' = Opening
    BY <2>1 DEF Opening
  <2>3. ASSUME NEW i, Doomed(i)' PROVE Doomed(i)
    BY <2>1, <2>3 DEF Doomed, Saving
  <2>4. CASE save[s].then = "nothing"
    <3>1. rooms' = rooms /\ (Doomed(rooms)' => Doomed(rooms))
      BY <2>1, <2>4 DEF Doomed, Saving
    <3> QED
      BY <1>2, <2>1, <2>2, <3>1 DEF Saving
  <2>5. CASE save[s].then # "nothing"
    <3>1. rooms # 0 => Doomed(rooms)
      BY <1>2, <2>1, <2>5 DEF Doomed
    <3>2. pending = 0
      BY <1>2, <3>1
    <3> QED
      BY <1>2, <2>1, <2>2, <2>5, <3>2
  <2> QED
    BY <2>4, <2>5
<1> QED
  BY <1>1, <1>4, <1>5, <1>6, <1>7, <1>8, <1>9, <1>10, <1>11, <1>12 DEF Faultless

-----------------------------------------------------------------------------
(* what is typed is kept *)

\* An edit is stored or on the way; a save that is in is stored; what is loaded was stored.
Kept ==
  Served => /\ Merged \subseteq Stored \cup OnTheWay
            /\ \A s \in Saves : save[s].pc = "bump" => save[s].doc \subseteq Stored
            /\ \A c \in Sockets : socket[c].pc = "create" => socket[c].doc \subseteq Stored

LEMMA KeptInit == RoomInit => Kept
<1> SUFFICES ASSUME RoomInit PROVE Kept
  OBVIOUS
<1>1. DOMAIN room = {}
  BY DEF RoomInit
<1>2. Merged = {}
  BY <1>1 DEF Merged
<1>3. (\A s \in Saves : save[s].pc = "idle") /\ \A c \in Sockets : socket[c].pc = "out"
  BY DEF RoomInit, Idle, Out
<1> QED
  BY <1>2, <1>3 DEF Kept

\* What a connection has loaded, before and after.
LEMMA LoadedStays ==
  ASSUME RoomShape, NEW c \in Sockets, Connect(c) \/ CreateRoom(c) \/ Disconnect(c), NEW b \in Sockets, socket'[b].pc = "create"
  PROVE  socket[b].pc = "create" /\ socket'[b].doc = socket[b].doc /\ socket'[b].version = socket[b].version
<1>1. socket \in [Sockets -> SocketType]
  BY RoomTypes
<1>2. PICK x \in SocketType : x = socket[c]
  BY <1>1
<1>3. ASSUME NEW y, socket' = [socket EXCEPT ![c] = y], y.pc = "create" => x.pc = "create" /\ y.doc = x.doc /\ y.version = x.version
      PROVE  socket[b].pc = "create" /\ socket'[b].doc = socket[b].doc /\ socket'[b].version = socket[b].version
  <2>1. CASE b = c
    BY <1>1, <1>2, <1>3, <2>1
  <2>2. CASE b # c
    BY <1>1, <1>3, <2>2
  <2> QED
    BY <2>1, <2>2
<1>4. CASE Connect(c)
  <2>1. PICK pc \in {"in", "load"} : socket' = [socket EXCEPT ![c].pc = pc, ![c].open = TRUE]
    BY <1>4 DEF Connect
  <2>2. PICK y : y = [x EXCEPT !.pc = pc, !.open = TRUE]
    OBVIOUS
  <2>3. y.pc = pc /\ pc # "create"
    BY <1>2, <2>2 DEF SocketType
  <2>4. socket' = [socket EXCEPT ![c] = y]
    BY <1>1, <1>2, <2>1, <2>2
  <2> QED
    BY <1>3, <2>3, <2>4
<1>5. CASE CreateRoom(c)
  <2>1. socket' = [socket EXCEPT ![c] = [Out EXCEPT !.pc = "in", !.open = socket[c].open]]
    BY <1>5 DEF CreateRoom
  <2>2. [Out EXCEPT !.pc = "in", !.open = socket[c].open].pc = "in"
    BY DEF Out
  <2> QED
    BY <1>3, <2>1, <2>2
<1>6. CASE Disconnect(c)
  <2>1. PICK pc : pc = (IF x.pc = "in" THEN "out" ELSE x.pc)
    OBVIOUS
  <2>2. PICK y : y = [x EXCEPT !.open = FALSE, !.pc = pc]
    OBVIOUS
  <2>3. y.pc = pc /\ y.doc = x.doc /\ y.version = x.version
    BY <1>2, <2>2 DEF SocketType
  <2>4. socket' = [socket EXCEPT ![c] = y]
    BY <1>1, <1>2, <1>6, <2>1, <2>2 DEF Disconnect
  <2> QED
    BY <1>3, <2>1, <2>3, <2>4
<1> QED
  BY <1>4, <1>5, <1>6

\* What a connection loads: a row, the newest, or nothing when there is none.
LEMMA LoadIs ==
  ASSUME RoomShape, NEW c \in Sockets, Load(c)
  PROVE  /\ UNCHANGED <<rooms, room, pending, save, snapshots, mixed, tied>>
         /\ \A b \in Sockets : b # c => socket'[b] = socket[b]
         /\ \/ snapshots = {} /\ socket'[c].doc = {}
            \/ \E r \in Newest : socket'[c].doc = r.doc /\ socket'[c].version = r.version
<1>1. socket \in [Sockets -> SocketType]
  BY RoomTypes
<1>2. PICK x \in SocketType : x = socket[c]
  BY <1>1
<1>3. PICK r : /\ r \in (IF snapshots = {} THEN {NoRow} ELSE Newest)
               /\ socket' = [socket EXCEPT ![c].pc = "create", ![c].doc = r.doc, ![c].version = r.version]
  BY DEF Load
<1>4. PICK d, v : d = r.doc /\ v = r.version
  OBVIOUS
<1>5. PICK y : y = [x EXCEPT !.pc = "create", !.doc = d, !.version = v]
  OBVIOUS
<1>6. y.doc = d /\ y.version = v
  BY <1>2, <1>5 DEF SocketType
<1>7. socket' = [socket EXCEPT ![c] = y]
  BY <1>1, <1>2, <1>3, <1>4, <1>5
<1>8. socket'[c] = y /\ \A b \in Sockets : b # c => socket'[b] = socket[b]
  BY <1>1, <1>7
<1>9. UNCHANGED <<rooms, room, pending, save, snapshots, mixed, tied>>
  BY DEF Load
<1>10. socket'[c].doc = r.doc /\ socket'[c].version = r.version
  BY <1>4, <1>6, <1>8
<1>11. CASE snapshots = {}
  <2>1. r = NoRow
    BY <1>3, <1>11
  <2>2. NoRow.doc = {}
    BY DEF NoRow
  <2> QED
    BY <1>8, <1>9, <1>10, <1>11, <2>1, <2>2
<1>12. CASE snapshots # {}
  <2>1. r \in Newest
    BY <1>3, <1>12
  <2> QED
    BY <1>8, <1>9, <1>10, <2>1
<1> QED
  BY <1>11, <1>12

\* A new room, and what its document is.
LEMMA RoomIsCreated ==
  ASSUME RoomShape, NEW c \in Sockets, CreateRoom(c)
  PROVE  /\ Len(room') = Len(room) + 1 /\ rooms' = Len(room) + 1 /\ DOMAIN room' = DOMAIN room \cup {Len(room) + 1}
         /\ \A j \in DOMAIN room : room'[j] = room[j]
         /\ room'[Len(room) + 1].doc = socket[c].doc /\ room'[Len(room) + 1].version = socket[c].version
         /\ UNCHANGED <<pending, save, snapshots, mixed, tied>>
<1>1. room \in Seq(RoomType) /\ Len(room) \in Nat /\ DOMAIN room = 1 .. Len(room) /\ socket[c] \in SocketType
  BY RoomTypes
<1>2. PICK x : x = [clients |-> {c}, doc |-> socket[c].doc, version |-> socket[c].version]
  OBVIOUS
<1>3. x \in RoomType /\ x.doc = socket[c].doc /\ x.version = socket[c].version
  BY <1>1, <1>2 DEF RoomType, SocketType
<1>4. room' = Append(room, x)
  BY <1>2 DEF CreateRoom
<1>5. Len(room') = Len(room) + 1 /\ room'[Len(room) + 1] = x /\ (\A j \in DOMAIN room : room'[j] = room[j]) /\ room' \in Seq(RoomType)
  BY <1>1, <1>3, <1>4
<1>6. DOMAIN room' = DOMAIN room \cup {Len(room) + 1}
  BY <1>1, <1>5
<1> QED
  BY <1>3, <1>5, <1>6 DEF CreateRoom

\* The last row of a save, and the end of one.
LEMMA RowIsIn ==
  ASSUME RoomShape, NEW s \in Saves, InsertSnapshot(s)
  PROVE  /\ UNCHANGED <<rooms, room, socket, pending, mixed, tied>> /\ s \in Saving
         /\ save[s].pc = "insert" /\ save'[s].pc = "bump" /\ Saving' = Saving
         /\ \A t \in Saves : t # s => save'[t] = save[t]
         /\ \A t \in Saves : save'[t].doc = save[t].doc /\ save'[t].room = save[t].room /\ save'[t].version = save[t].version
         /\ Stored' = Stored \cup save[s].doc
         /\ snapshots' = snapshots \cup {[version |-> save[s].version, doc |-> save[s].doc]}
<1>1. snapshots' = snapshots \cup {[version |-> save[s].version, doc |-> save[s].doc]}
  BY DEF InsertSnapshot
<1>2. Stored' = Stored \cup save[s].doc
  <2>0. PICK q : q = [version |-> save[s].version, doc |-> save[s].doc]
    OBVIOUS
  <2>1. q = [version |-> save[s].version, doc |-> save[s].doc] /\ q.doc = save[s].doc
    BY <2>0
  <2>2. snapshots' = snapshots \cup {q}
    BY <1>1, <2>1
  <2>3. \A e : (\E r \in snapshots' : e \in r.doc) <=> (\E r \in snapshots : e \in r.doc) \/ e \in save[s].doc
    BY <2>1, <2>2
  <2>4. \A e : e \in Stored' <=> \E r \in snapshots' : e \in r.doc
    BY DEF Stored
  <2>5. \A e : e \in Stored <=> \E r \in snapshots : e \in r.doc
    BY DEF Stored
  <2> QED
    BY <2>3, <2>4, <2>5
<1>3. save[s].pc = "insert" /\ save' = [save EXCEPT ![s].pc = "bump"] /\ s \in Saving
  BY DEF InsertSnapshot, Saving
<1>4. UNCHANGED <<rooms, room, socket, pending, mixed, tied>>
  BY DEF InsertSnapshot
<1> QED
  BY <1>1, <1>2, <1>3, <1>4, SaveIsStored

LEMMA SaveEnds ==
  ASSUME RoomShape, NEW s \in Saves, EndSave(s)
  PROVE  /\ UNCHANGED <<socket, pending, snapshots, mixed, tied>> /\ s \in Saving /\ save[s].pc = "bump"
         /\ rooms' = (IF save[s].then = "nothing" THEN rooms ELSE 0)
         /\ Saving' = Saving \ {s} /\ save'[s] = Idle /\ \A t \in Saves : t # s => save'[t] = save[t]
         /\ DOMAIN room' = DOMAIN room /\ \A j \in DOMAIN room : room'[j].doc = room[j].doc
         /\ room'[save[s].room].version = save[s].version
<1>1. save[s].pc = "bump" /\ s \in Saving /\ room' = [room EXCEPT ![save[s].room].version = save[s].version]
  BY DEF EndSave, Saving, Bumped
<1>2. save[s].room \in 1 .. Len(room) /\ save[s].version \in Nat
  BY <1>1, RoomTypes DEF SaveType
<1>3. /\ DOMAIN room' = DOMAIN room /\ \A j \in DOMAIN room : room'[j].doc = room[j].doc
      /\ room'[save[s].room].version = save[s].version
  BY <1>1, <1>2, VersionChanges
<1>4. UNCHANGED <<socket, pending, snapshots, mixed, tied>> /\ rooms' = (IF save[s].then = "nothing" THEN rooms ELSE 0)
  BY DEF EndSave
<1>5. save' = [save EXCEPT ![s] = Idle]
  BY DEF EndSave
<1> QED
  BY <1>1, <1>3, <1>4, <1>5, SaveIsOver

LEMMA KeptStep == RoomShape /\ OneRoom /\ Kept /\ [RoomNext]_roomVars => Kept'
<1> SUFFICES ASSUME RoomShape, OneRoom, Kept, [RoomNext]_roomVars, Served'
             PROVE  /\ Merged' \subseteq Stored' \cup OnTheWay'
                    /\ \A s \in Saves : save'[s].pc = "bump" => save'[s].doc \subseteq Stored'
                    /\ \A c \in Sockets : socket'[c].pc = "create" => socket'[c].doc \subseteq Stored'
  BY DEF Kept
<1>1. Served /\ (Faultless \/ UNCHANGED roomVars)
  BY ServedBefore
<1>2. /\ Merged \subseteq Stored \cup OnTheWay
      /\ \A s \in Saves : save[s].pc = "bump" => save[s].doc \subseteq Stored
      /\ \A c \in Sockets : socket[c].pc = "create" => socket[c].doc \subseteq Stored
  BY <1>1 DEF Kept
<1>3. /\ pending # 0 => pending = rooms
      /\ rooms \in 0 .. Len(room) /\ pending \in 0 .. Len(room) /\ DOMAIN room = 1 .. Len(room) /\ Len(room) \in Nat
  BY <1>1, RoomTypes DEF OneRoom
<1>4. /\ \A e : e \in Merged <=> \E i \in DOMAIN room : e \in room[i].doc
      /\ \A e : e \in Merged' <=> \E i \in DOMAIN room' : e \in room'[i].doc
  BY DEF Merged
<1>5. /\ \A e : e \in OnTheWay <=> (\E s \in Saving : e \in save[s].doc) \/ (pending # 0 /\ e \in room[pending].doc)
      /\ \A e : e \in OnTheWay' <=> (\E s \in Saving' : e \in save'[s].doc) \/ (pending' # 0 /\ e \in room'[pending'].doc)
  <2>1. /\ \A e : e \in UNION {save[s].doc : s \in Saving} <=> \E s \in Saving : e \in save[s].doc
        /\ \A e : e \in UNION {save'[s].doc : s \in Saving'} <=> \E s \in Saving' : e \in save'[s].doc
    OBVIOUS
  <2>2. /\ \A e : e \in (IF pending = 0 THEN {} ELSE room[pending].doc) <=> pending # 0 /\ e \in room[pending].doc
        /\ \A e : e \in (IF pending' = 0 THEN {} ELSE room'[pending'].doc) <=> pending' # 0 /\ e \in room'[pending'].doc
    OBVIOUS
  <2>3. \A e : e \in OnTheWay <=> \/ e \in UNION {save[s].doc : s \in Saving}
                                 \/ e \in (IF pending = 0 THEN {} ELSE room[pending].doc)
    BY DEF OnTheWay
  <2>4. \A e : e \in OnTheWay' <=> \/ e \in UNION {save'[s].doc : s \in Saving'}
                                  \/ e \in (IF pending' = 0 THEN {} ELSE room'[pending'].doc)
    BY DEF OnTheWay
  <2>5. ASSUME NEW e PROVE e \in OnTheWay <=> (\E s \in Saving : e \in save[s].doc) \/ (pending # 0 /\ e \in room[pending].doc)
    BY <2>1, <2>2, <2>3
  <2>6. ASSUME NEW e PROVE e \in OnTheWay' <=> (\E s \in Saving' : e \in save'[s].doc) \/ (pending' # 0 /\ e \in room'[pending'].doc)
    BY <2>1, <2>2, <2>4
  <2> QED
    BY <2>5, <2>6
<1>6. UNCHANGED snapshots => Stored' = Stored
  BY DEF Stored
<1>7. CASE UNCHANGED roomVars
  BY <1>2, <1>7 DEF roomVars, Merged, Stored, OnTheWay, Saving
<1>8. ASSUME NEW c \in Sockets, Connect(c)
      PROVE  /\ Merged' \subseteq Stored' \cup OnTheWay'
             /\ \A s \in Saves : save'[s].pc = "bump" => save'[s].doc \subseteq Stored'
             /\ \A b \in Sockets : socket'[b].pc = "create" => socket'[b].doc \subseteq Stored'
  <2>1. UNCHANGED <<rooms, pending, save, snapshots>> /\ Saving' = Saving
    BY <1>8 DEF Connect, Saving
  <2>2. DOMAIN room' = DOMAIN room /\ \A j \in DOMAIN room : room'[j].doc = room[j].doc
    <3>1. CASE rooms = 0
      BY <1>8, <3>1 DEF Connect
    <3>2. CASE rooms # 0
      <4>1. rooms \in 1 .. Len(room) /\ room[rooms].clients \cup {c} \in SUBSET Sockets
        BY <1>3, <3>2, RoomTypes DEF RoomType
      <4>2. room' = [room EXCEPT ![rooms].clients = room[rooms].clients \cup {c}]
        BY <1>8, <3>2 DEF Connect, Join
      <4> QED
        BY <4>1, <4>2, ClientsChange
    <3> QED
      BY <3>1, <3>2
  <2>3. Merged' \subseteq Stored' \cup OnTheWay'
    BY <1>2, <1>3, <1>4, <1>5, <1>6, <2>1, <2>2
  <2>4. \A b \in Sockets : socket'[b].pc = "create" => socket'[b].doc \subseteq Stored'
    BY <1>2, <1>6, <1>8, <2>1, LoadedStays
  <2> QED
    BY <1>2, <1>6, <2>1, <2>3, <2>4
<1>9. ASSUME NEW c \in Sockets, Load(c)
      PROVE  /\ Merged' \subseteq Stored' \cup OnTheWay'
             /\ \A s \in Saves : save'[s].pc = "bump" => save'[s].doc \subseteq Stored'
             /\ \A b \in Sockets : socket'[b].pc = "create" => socket'[b].doc \subseteq Stored'
  <2>1. UNCHANGED <<rooms, room, pending, save, snapshots>> /\ Saving' = Saving
    BY <1>9, LoadIs DEF Saving
  <2>2. socket'[c].doc \subseteq Stored
    <3>1. CASE socket'[c].doc = {}
      BY <3>1
    <3>2. CASE \E r \in Newest : socket'[c].doc = r.doc
      BY <3>2 DEF Newest, Stored
    <3> QED
      BY <1>9, <3>1, <3>2, LoadIs
  <2>3. \A b \in Sockets : socket'[b].pc = "create" => socket'[b].doc \subseteq Stored'
    BY <1>2, <1>6, <1>9, <2>1, <2>2, LoadIs
  <2> QED
    BY <1>2, <1>4, <1>5, <1>6, <2>1, <2>3
<1>10. ASSUME NEW c \in Sockets, CreateRoom(c)
       PROVE  /\ Merged' \subseteq Stored' \cup OnTheWay'
              /\ \A s \in Saves : save'[s].pc = "bump" => save'[s].doc \subseteq Stored'
              /\ \A b \in Sockets : socket'[b].pc = "create" => socket'[b].doc \subseteq Stored'
  <2>1. /\ DOMAIN room' = DOMAIN room \cup {Len(room) + 1} /\ \A j \in DOMAIN room : room'[j] = room[j]
        /\ room'[Len(room) + 1].doc = socket[c].doc /\ UNCHANGED <<pending, save, snapshots>>
    BY <1>10, RoomIsCreated
  <2>2. socket[c].doc \subseteq Stored /\ Saving' = Saving
    BY <1>2, <1>10, <2>1 DEF CreateRoom, Saving
  <2>3. pending # 0 => pending \in DOMAIN room
    BY <1>3
  <2>4. Merged' \subseteq Stored' \cup OnTheWay'
    BY <1>2, <1>4, <1>5, <1>6, <2>1, <2>2, <2>3
  <2>5. \A b \in Sockets : socket'[b].pc = "create" => socket'[b].doc \subseteq Stored'
    BY <1>2, <1>6, <1>10, <2>1, LoadedStays
  <2> QED
    BY <1>2, <1>6, <2>1, <2>4, <2>5
<1>11. ASSUME NEW c \in Sockets, Edit(c)
       PROVE  /\ Merged' \subseteq Stored' \cup OnTheWay'
              /\ \A s \in Saves : save'[s].pc = "bump" => save'[s].doc \subseteq Stored'
              /\ \A b \in Sockets : socket'[b].pc = "create" => socket'[b].doc \subseteq Stored'
  <2>1. /\ UNCHANGED <<rooms, socket, save, snapshots>> /\ pending' = rooms /\ rooms # 0
        /\ room' = [room EXCEPT ![rooms].doc = @ \cup {c}]
    BY <1>11 DEF Edit
  <2>2. rooms \in 1 .. Len(room) /\ Saving' = Saving
    BY <1>3, <2>1 DEF Saving
  <2>3. /\ DOMAIN room' = DOMAIN room /\ room'[rooms].doc = room[rooms].doc \cup {c}
        /\ \A j \in DOMAIN room : j # rooms => room'[j].doc = room[j].doc
    BY <2>1, <2>2, DocumentGrows
  <2>4. Merged' \subseteq Stored' \cup OnTheWay'
    BY <1>2, <1>3, <1>4, <1>5, <1>6, <2>1, <2>2, <2>3
  <2> QED
    BY <1>2, <1>6, <2>1, <2>4
<1>12. ASSUME NEW c \in Sockets, Disconnect(c), rooms = 0
       PROVE  /\ Merged' \subseteq Stored' \cup OnTheWay'
              /\ \A s \in Saves : save'[s].pc = "bump" => save'[s].doc \subseteq Stored'
              /\ \A b \in Sockets : socket'[b].pc = "create" => socket'[b].doc \subseteq Stored'
  <2>1. UNCHANGED <<room, rooms, save, pending, snapshots>> /\ Saving' = Saving
    BY <1>12 DEF Disconnect, Saving
  <2>2. \A b \in Sockets : socket'[b].pc = "create" => socket'[b].doc \subseteq Stored'
    BY <1>2, <1>6, <1>12, <2>1, LoadedStays
  <2> QED
    BY <1>2, <1>4, <1>5, <1>6, <2>1, <2>2
<1>13. ASSUME \/ \E c \in Sockets : Kick(c)
              \/ \E c \in Sockets : rooms # 0 /\ Disconnect(c)
              \/ TimerFires \/ CloseRoom
       PROVE  /\ Merged' \subseteq Stored' \cup OnTheWay'
              /\ \A s \in Saves : save'[s].pc = "bump" => save'[s].doc \subseteq Stored'
              /\ \A b \in Sockets : socket'[b].pc = "create" => socket'[b].doc \subseteq Stored'
  <2>1. /\ rooms \in 1 .. Len(room) /\ (pending = 0 \/ pending = rooms) /\ UNCHANGED <<rooms, snapshots>>
        /\ DOMAIN room' = DOMAIN room /\ \A j \in DOMAIN room : room'[j].doc = room[j].doc
        /\ (\E s \in Saves, then \in Thens : Begun(s, rooms, then)) \/ UNCHANGED <<save, pending, tied>>
    BY <1>1, <1>13, FlushOfTheRoom
  <2>2. \A b \in Sockets : socket'[b].pc = "create" => socket'[b].doc \subseteq Stored'
    <3>1. CASE \E c \in Sockets : rooms # 0 /\ Disconnect(c)
      BY <1>2, <1>6, <2>1, <3>1, LoadedStays
    <3>2. CASE UNCHANGED socket
      BY <1>2, <1>6, <2>1, <3>2
    <3> QED
      BY <1>13, <3>1, <3>2 DEF Kick, TimerFires, CloseRoom
  <2>3. CASE UNCHANGED <<save, pending, tied>>
    <3>1. Saving' = Saving
      BY <2>3 DEF Saving
    <3> QED
      BY <1>2, <1>3, <1>4, <1>5, <1>6, <2>1, <2>2, <2>3, <3>1
  <2>4. ASSUME NEW s \in Saves, NEW then \in Thens, Begun(s, rooms, then)
        PROVE  /\ Merged' \subseteq Stored' \cup OnTheWay'
               /\ \A t \in Saves : save'[t].pc = "bump" => save'[t].doc \subseteq Stored'
    <3>1. /\ Saving' = Saving \cup {s} /\ s \notin Saving /\ save'[s].doc = room[rooms].doc /\ save'[s].pc = "insert"
          /\ \A t \in Saves : t # s => save'[t] = save[t]
      BY <2>4 DEF Begun
    <3>2. \A t \in Saving : save'[t] = save[t] /\ t \in Saving'
      BY <3>1 DEF Saving
    <3>3. Merged' \subseteq Stored' \cup OnTheWay'
      BY <1>2, <1>4, <1>5, <1>6, <2>1, <3>1, <3>2
    <3> QED
      BY <1>2, <1>6, <2>1, <3>1, <3>3
  <2> QED
    BY <2>1, <2>2, <2>3, <2>4
<1>14. ASSUME NEW s \in Saves, InsertSnapshot(s)
       PROVE  /\ Merged' \subseteq Stored' \cup OnTheWay'
              /\ \A t \in Saves : save'[t].pc = "bump" => save'[t].doc \subseteq Stored'
              /\ \A c \in Sockets : socket'[c].pc = "create" => socket'[c].doc \subseteq Stored'
  <2>1. /\ UNCHANGED <<room, socket, pending>> /\ Saving' = Saving /\ Stored' = Stored \cup save[s].doc
        /\ \A t \in Saves : save'[t].doc = save[t].doc /\ (t # s => save'[t] = save[t])
    BY <1>14, RowIsIn
  <2>2. Merged' \subseteq Stored' \cup OnTheWay'
    <3>1. \A t \in Saving : t \in Saves
      BY DEF Saving
    <3> QED
      BY <1>2, <1>4, <1>5, <2>1, <3>1
  <2> QED
    BY <1>2, <2>1, <2>2
<1>15. ASSUME NEW s \in Saves, EndSave(s)
       PROVE  /\ Merged' \subseteq Stored' \cup OnTheWay'
              /\ \A t \in Saves : save'[t].pc = "bump" => save'[t].doc \subseteq Stored'
              /\ \A c \in Sockets : socket'[c].pc = "create" => socket'[c].doc \subseteq Stored'
  <2>1. /\ UNCHANGED <<socket, pending, snapshots>> /\ Saving' = Saving \ {s} /\ save'[s] = Idle /\ save[s].pc = "bump"
        /\ \A t \in Saves : t # s => save'[t] = save[t]
        /\ DOMAIN room' = DOMAIN room /\ \A j \in DOMAIN room : room'[j].doc = room[j].doc
    BY <1>15, SaveEnds
  <2>2. save[s].doc \subseteq Stored /\ Stored' = Stored /\ Idle.pc # "bump"
    BY <1>2, <1>6, <2>1 DEF Idle
  <2>3. \A t \in Saving : t # s => t \in Saving' /\ save'[t] = save[t]
    BY <2>1 DEF Saving
  <2>4. Merged' \subseteq Stored' \cup OnTheWay'
    BY <1>2, <1>3, <1>4, <1>5, <2>1, <2>2, <2>3
  <2> QED
    BY <1>2, <2>1, <2>2, <2>4
<1> QED
  BY <1>1, <1>7, <1>8, <1>9, <1>10, <1>11, <1>12, <1>13, <1>14, <1>15 DEF Faultless

\* persistence.ts and room-manager.ts together lose nothing that was typed: it is in a snapshot,
\* in a save under way, or in the room the timer is set for, while one room at a time serves the draft.
THEOREM NoEditIsLost == RoomSpec => []EditsAreKept
<1>1. Kept => EditsAreKept
  BY DEF Kept, EditsAreKept, Served
<1> QED
  BY <1>1, RoomShapeHolds, OneRoomInit, OneRoomStep, KeptInit, KeptStep, PTL DEF RoomSpec

-----------------------------------------------------------------------------
(* the newest snapshot has everything *)

UpTo(v) == \A r \in snapshots : r.version <= v

\* One save at a time, of the room that is there: what is stored is in its document, no
\* row is newer than its version but the one it has just written, and a row about to be
\* written is newer than all.
OneSave ==
  /\ \A s, t \in Saving : s = t
  /\ rooms = 0 => Saving = {}
SavesAreNewer ==
  \A s \in Saving :
    /\ save[s].pc = "insert" => (\A r \in snapshots : r.version < save[s].version) /\ Stored \subseteq save[s].doc
    /\ save[s].pc = "bump" => UpTo(save[s].version)
    /\ save[s].doc \subseteq room[save[s].room].doc
RoomIsComplete ==
  rooms # 0 => /\ Stored \subseteq room[rooms].doc
               /\ (\A s \in Saving : save[s].pc # "bump") => UpTo(room[rooms].version)
LoadedIsComplete ==
  \A c \in Sockets : socket[c].pc = "create" => socket[c].doc = Stored /\ UpTo(socket[c].version)
RowsAreComplete == \A r \in Newest : r.doc = Stored

Complete ==
  Served /\ ~tied => OneSave /\ SavesAreNewer /\ RoomIsComplete /\ LoadedIsComplete /\ RowsAreComplete

LEMMA CompleteInit == RoomInit => Complete
<1> SUFFICES ASSUME RoomInit PROVE Complete
  OBVIOUS
<1>1. snapshots = {} /\ rooms = 0
  BY DEF RoomInit
<1>2. Saving = {} /\ \A c \in Sockets : socket[c].pc = "out"
  BY DEF RoomInit, Saving, Idle, Out
<1> QED
  BY <1>1, <1>2 DEF Complete, OneSave, SavesAreNewer, RoomIsComplete, LoadedIsComplete, RowsAreComplete, Newest

LEMMA CompleteStep == RoomShape /\ RoomShape' /\ OneRoom /\ OneRoom' /\ Complete /\ [RoomNext]_roomVars => Complete'
<1> SUFFICES ASSUME RoomShape, RoomShape', OneRoom, OneRoom', Complete, [RoomNext]_roomVars, Served', ~tied'
             PROVE  OneSave' /\ SavesAreNewer' /\ RoomIsComplete' /\ LoadedIsComplete' /\ RowsAreComplete'
  BY DEF Complete
<1>1. Served /\ (Faultless \/ UNCHANGED roomVars)
  BY ServedBefore
<1>2. ASSUME tied PROVE FALSE
  <2>1. CASE \E c \in Sockets : Disconnect(c) \/ Kick(c)
    BY <1>2, <2>1 DEF Disconnect, Kick, RemoveClient, Flush
  <2>2. CASE TimerFires \/ CloseRoom
    BY <1>2, <2>2 DEF TimerFires, CloseRoom, Flush
  <2> QED
    BY <1>1, <1>2, <2>1, <2>2 DEF Faultless, roomVars, Connect, Load, CreateRoom, Edit, InsertSnapshot, EndSave
<1>3. OneSave /\ SavesAreNewer /\ RoomIsComplete /\ LoadedIsComplete /\ RowsAreComplete
  BY <1>1, <1>2 DEF Complete
<1>4. /\ rooms \in 0 .. Len(room) /\ pending \in 0 .. Len(room) /\ DOMAIN room = 1 .. Len(room) /\ Len(room) \in Nat
      /\ \A s \in Saving : s \in Saves /\ save[s].room \in DOMAIN room
      /\ \A i \in DOMAIN room : room[i] \in RoomType
  BY RoomTypes
<1>5. /\ \A c \in Opening : rooms = 0 /\ pending = 0 /\ Saving = {} /\ Opening = {c}
      /\ rooms # 0 => \A s \in Saving : save[s].room = rooms
      /\ \A c \in Sockets : socket[c].pc = "create" => c \in Opening
  BY <1>1 DEF OneRoom, Opening
<1>6. /\ \A c \in Opening' : rooms' = 0 /\ pending' = 0 /\ Saving' = {} /\ Opening' = {c}
      /\ \A c \in Sockets : socket'[c].pc = "create" => c \in Opening'
  BY DEF OneRoom, Opening
<1>7. UNCHANGED snapshots => Stored' = Stored /\ Newest' = Newest /\ \A v : UpTo(v)' <=> UpTo(v)
  BY DEF Stored, Newest, UpTo
<1>8. ASSUME UNCHANGED <<rooms, save, snapshots>>, DOMAIN room \subseteq DOMAIN room',
             \A j \in DOMAIN room : room[j].doc \subseteq room'[j].doc /\ room'[j].version = room[j].version
      PROVE  OneSave' /\ SavesAreNewer' /\ RoomIsComplete' /\ RowsAreComplete'
  <2>1. Saving' = Saving
    BY <1>8 DEF Saving
  <2>2. OneSave' /\ RowsAreComplete'
    BY <1>3, <1>7, <1>8, <2>1 DEF OneSave, RowsAreComplete
  <2>3. SavesAreNewer'
    BY <1>3, <1>4, <1>7, <1>8, <2>1 DEF SavesAreNewer
  <2>4. RoomIsComplete'
    BY <1>3, <1>4, <1>7, <1>8, <2>1 DEF RoomIsComplete
  <2> QED
    BY <2>2, <2>3, <2>4
<1>9. CASE UNCHANGED roomVars
  <2>1. OneSave' /\ SavesAreNewer' /\ RoomIsComplete' /\ RowsAreComplete'
    BY <1>8, <1>9 DEF roomVars
  <2>2. LoadedIsComplete'
    BY <1>3, <1>7, <1>9 DEF roomVars, LoadedIsComplete
  <2> QED
    BY <2>1, <2>2
<1>10. ASSUME NEW c \in Sockets, Connect(c)
       PROVE  OneSave' /\ SavesAreNewer' /\ RoomIsComplete' /\ LoadedIsComplete' /\ RowsAreComplete'
  <2>1. UNCHANGED <<rooms, save, snapshots>>
    BY <1>10 DEF Connect
  <2>2. DOMAIN room' = DOMAIN room /\ \A j \in DOMAIN room : room'[j].doc = room[j].doc /\ room'[j].version = room[j].version
    <3>1. CASE rooms = 0
      BY <1>10, <3>1 DEF Connect
    <3>2. CASE rooms # 0
      <4>1. rooms \in 1 .. Len(room) /\ room[rooms].clients \cup {c} \in SUBSET Sockets
        BY <1>4, <3>2 DEF RoomType
      <4>2. room' = [room EXCEPT ![rooms].clients = room[rooms].clients \cup {c}]
        BY <1>10, <3>2 DEF Connect, Join
      <4> QED
        BY <4>1, <4>2, ClientsChange
    <3> QED
      BY <3>1, <3>2
  <2>3. LoadedIsComplete'
    BY <1>3, <1>7, <1>10, <2>1, LoadedStays DEF LoadedIsComplete
  <2> QED
    BY <1>8, <2>1, <2>2, <2>3
<1>11. ASSUME NEW c \in Sockets, Load(c)
       PROVE  OneSave' /\ SavesAreNewer' /\ RoomIsComplete' /\ LoadedIsComplete' /\ RowsAreComplete'
  <2>1. UNCHANGED <<rooms, room, save, snapshots>> /\ \A b \in Sockets : b # c => socket'[b] = socket[b]
    BY <1>11, LoadIs
  <2>2. socket'[c].doc = Stored /\ UpTo(socket'[c].version)
    <3>1. CASE snapshots = {} /\ socket'[c].doc = {}
      BY <3>1 DEF Stored, UpTo
    <3>2. ASSUME NEW r \in Newest, socket'[c].doc = r.doc, socket'[c].version = r.version
          PROVE  socket'[c].doc = Stored /\ UpTo(socket'[c].version)
      BY <1>3, <3>2 DEF RowsAreComplete, UpTo, Newest
    <3> QED
      BY <1>11, <3>1, <3>2, LoadIs
  <2>3. LoadedIsComplete'
    BY <1>3, <1>7, <2>1, <2>2 DEF LoadedIsComplete
  <2> QED
    BY <1>8, <2>1, <2>3
<1>12. ASSUME NEW c \in Sockets, CreateRoom(c)
       PROVE  OneSave' /\ SavesAreNewer' /\ RoomIsComplete' /\ LoadedIsComplete' /\ RowsAreComplete'
  <2>1. /\ rooms' = Len(room) + 1 /\ room'[Len(room) + 1].doc = socket[c].doc /\ room'[Len(room) + 1].version = socket[c].version
        /\ UNCHANGED <<save, snapshots>>
    BY <1>12, RoomIsCreated
  <2>2. c \in Opening /\ Saving = {} /\ Saving' = {}
    BY <1>5, <1>12, <2>1 DEF CreateRoom, Opening, Saving
  <2>3. OneSave' /\ SavesAreNewer' /\ RowsAreComplete'
    BY <1>3, <1>7, <2>1, <2>2 DEF OneSave, SavesAreNewer, RowsAreComplete
  <2>4. socket[c].doc = Stored /\ UpTo(socket[c].version)
    BY <1>3, <1>12 DEF CreateRoom, LoadedIsComplete
  <2>5. RoomIsComplete'
    BY <1>7, <2>1, <2>4 DEF RoomIsComplete
  <2>6. LoadedIsComplete'
    BY <1>3, <1>7, <1>12, <2>1, LoadedStays DEF LoadedIsComplete
  <2> QED
    BY <2>3, <2>5, <2>6
<1>13. ASSUME NEW c \in Sockets, Edit(c)
       PROVE  OneSave' /\ SavesAreNewer' /\ RoomIsComplete' /\ LoadedIsComplete' /\ RowsAreComplete'
  <2>1. /\ UNCHANGED <<rooms, socket, save, snapshots>> /\ rooms \in 1 .. Len(room)
        /\ room' = [room EXCEPT ![rooms].doc = @ \cup {c}]
    BY <1>4, <1>13 DEF Edit
  <2>2. /\ DOMAIN room' = DOMAIN room
        /\ \A j \in DOMAIN room : room[j].doc \subseteq room'[j].doc /\ room'[j].version = room[j].version
    BY <2>1, DocumentGrows
  <2>3. LoadedIsComplete'
    BY <1>3, <1>7, <2>1 DEF LoadedIsComplete
  <2> QED
    BY <1>8, <2>1, <2>2, <2>3
<1>14. ASSUME NEW c \in Sockets, Disconnect(c), rooms = 0
       PROVE  OneSave' /\ SavesAreNewer' /\ RoomIsComplete' /\ LoadedIsComplete' /\ RowsAreComplete'
  <2>1. UNCHANGED <<room, rooms, save, snapshots>>
    BY <1>14 DEF Disconnect
  <2>2. LoadedIsComplete'
    BY <1>3, <1>7, <1>14, <2>1, LoadedStays DEF LoadedIsComplete
  <2> QED
    BY <1>8, <2>1, <2>2
<1>15. ASSUME \/ \E c \in Sockets : Kick(c)
              \/ \E c \in Sockets : rooms # 0 /\ Disconnect(c)
              \/ TimerFires \/ CloseRoom
       PROVE  OneSave' /\ SavesAreNewer' /\ RoomIsComplete' /\ LoadedIsComplete' /\ RowsAreComplete'
  <2>1. /\ rooms \in 1 .. Len(room) /\ UNCHANGED <<rooms, snapshots>>
        /\ DOMAIN room' = DOMAIN room /\ \A j \in DOMAIN room : room'[j].doc = room[j].doc /\ room'[j].version = room[j].version
        /\ (\E s \in Saves, then \in Thens : Begun(s, rooms, then)) \/ UNCHANGED <<save, pending, tied>>
    BY <1>1, <1>15, FlushOfTheRoom
  <2>2. rooms # 0 /\ rooms' # 0
    BY <2>1
  <2>3. LoadedIsComplete'
    BY <1>6, <2>2 DEF LoadedIsComplete
  <2>4. CASE UNCHANGED <<save, pending, tied>>
    BY <1>8, <2>1, <2>3, <2>4
  <2>5. ASSUME NEW s \in Saves, NEW then \in Thens, Begun(s, rooms, then)
        PROVE  OneSave' /\ SavesAreNewer' /\ RoomIsComplete' /\ RowsAreComplete'
    <3>1. /\ Saving = {} /\ Saving' = {s} /\ save'[s].pc = "insert" /\ save'[s].room = rooms
          /\ save'[s].doc = room[rooms].doc /\ save'[s].version = room[rooms].version + 1
      BY <2>5 DEF Begun
    <3>2. Stored \subseteq room[rooms].doc /\ UpTo(room[rooms].version)
      BY <1>3, <2>2, <3>1 DEF RoomIsComplete
    <3>3. \A r \in snapshots : r.version < room[rooms].version + 1
      <4>1. ASSUME NEW r \in snapshots PROVE r.version < room[rooms].version + 1
        <5>1. r.version \in Nat /\ room[rooms].version \in Nat
          BY <1>4, <2>1, RoomTypes DEF RowType, RoomType
        <5>2. r.version <= room[rooms].version
          BY <3>2 DEF UpTo
        <5> QED
          BY <5>1, <5>2
      <4> QED
        BY <4>1
    <3>4. SavesAreNewer'
      BY <1>4, <1>7, <2>1, <3>1, <3>2, <3>3 DEF SavesAreNewer
    <3>5. RoomIsComplete'
      BY <1>4, <1>7, <2>1, <3>2 DEF RoomIsComplete
    <3> QED
      BY <1>3, <1>7, <2>1, <2>2, <3>1, <3>4, <3>5 DEF OneSave, RowsAreComplete
  <2> QED
    BY <2>1, <2>3, <2>4, <2>5
<1>16. ASSUME NEW s \in Saves, InsertSnapshot(s)
       PROVE  OneSave' /\ SavesAreNewer' /\ RoomIsComplete' /\ LoadedIsComplete' /\ RowsAreComplete'
  <2>1. /\ UNCHANGED <<rooms, room>> /\ s \in Saving /\ save[s].pc = "insert" /\ save'[s].pc = "bump" /\ Saving' = Saving
        /\ Stored' = Stored \cup save[s].doc /\ save'[s].doc = save[s].doc /\ save'[s].room = save[s].room
        /\ save'[s].version = save[s].version
        /\ snapshots' = snapshots \cup {[version |-> save[s].version, doc |-> save[s].doc]}
    BY <1>16, RowIsIn
  <2>2. /\ \A r \in snapshots : r.version < save[s].version
        /\ Stored \subseteq save[s].doc /\ save[s].doc \subseteq room[save[s].room].doc
    BY <1>3, <2>1 DEF SavesAreNewer
  <2>3. Stored' = save[s].doc
    BY <2>1, <2>2
  <2>4. PICK q : q = [version |-> save[s].version, doc |-> save[s].doc]
    OBVIOUS
  <2>5. q.version = save[s].version /\ q.doc = save[s].doc /\ snapshots' = snapshots \cup {q}
    BY <2>1, <2>4
  <2>6. save[s].version \in Nat /\ \A r \in snapshots : r.version \in Nat
    BY RoomTypes DEF SaveType, RowType
  <2>7. UpTo(save[s].version)'
    BY <2>1, <2>2, <2>5, <2>6 DEF UpTo
  <2>8. RowsAreComplete'
    <3>1. ASSUME NEW r \in Newest' PROVE r = q
      <4>1. r \in snapshots \cup {q} /\ q.version <= r.version
        BY <2>5, <3>1 DEF Newest
      <4> QED
        BY <2>2, <2>5, <2>6, <4>1
    <3> QED
      BY <2>3, <2>5, <3>1 DEF RowsAreComplete
  <2>9. OneSave' /\ \A t \in Saving' : t = s
    BY <1>3, <2>1 DEF OneSave
  <2>10. SavesAreNewer'
    BY <2>1, <2>2, <2>7, <2>9 DEF SavesAreNewer
  <2>11. RoomIsComplete'
    BY <1>5, <2>1, <2>2, <2>3 DEF RoomIsComplete
  <2>12. LoadedIsComplete'
    BY <1>6, <2>1 DEF LoadedIsComplete
  <2> QED
    BY <2>8, <2>9, <2>10, <2>11, <2>12
<1>17. ASSUME NEW s \in Saves, EndSave(s)
       PROVE  OneSave' /\ SavesAreNewer' /\ RoomIsComplete' /\ LoadedIsComplete' /\ RowsAreComplete'
  <2>1. /\ UNCHANGED <<socket, snapshots>> /\ s \in Saving /\ save[s].pc = "bump" /\ Saving' = Saving \ {s}
        /\ rooms' = (IF save[s].then = "nothing" THEN rooms ELSE 0)
        /\ DOMAIN room' = DOMAIN room /\ \A j \in DOMAIN room : room'[j].doc = room[j].doc
        /\ room'[save[s].room].version = save[s].version
    BY <1>17, SaveEnds
  <2>2. Saving' = {}
    BY <1>3, <2>1 DEF OneSave
  <2>3. OneSave' /\ SavesAreNewer' /\ RowsAreComplete'
    BY <1>3, <1>7, <2>1, <2>2 DEF OneSave, SavesAreNewer, RowsAreComplete
  <2>4. RoomIsComplete'
    <3>1. CASE rooms' # 0
      <4>1. rooms' = rooms /\ save[s].room = rooms /\ rooms \in DOMAIN room
        BY <1>4, <1>5, <2>1, <3>1
      <4>2. Stored \subseteq room[rooms].doc /\ UpTo(save[s].version)
        BY <1>3, <2>1, <3>1, <4>1 DEF RoomIsComplete, SavesAreNewer
      <4> QED
        BY <1>7, <2>1, <4>1, <4>2 DEF RoomIsComplete
    <3> QED
      BY <3>1 DEF RoomIsComplete
  <2>5. LoadedIsComplete'
    BY <1>3, <1>7, <2>1 DEF LoadedIsComplete
  <2> QED
    BY <2>3, <2>4, <2>5
<1> QED
  BY <1>1, <1>9, <1>10, <1>11, <1>12, <1>13, <1>14, <1>15, <1>16, <1>17 DEF Faultless

\* Whoever opens the draft next sees all that was stored: load takes the newest row, and
\* the newest has it all, unless two saves overlapped and gave two rows one version.
THEOREM NewestHasAll == RoomSpec => []NewestIsComplete
<1>1. Complete => NewestIsComplete
  BY DEF Complete, RowsAreComplete, NewestIsComplete, Served
<1> QED
  BY <1>1, RoomShapeHolds, OneRoomInit, OneRoomStep, CompleteInit, CompleteStep, PTL DEF RoomSpec

-----------------------------------------------------------------------------
(***************************************************************************)
(* MCClients: the three side by side                                       *)
(***************************************************************************)

\* A behaviour of the instance is one of each of the three, in which the other two stand
\* still: what holds of each of them holds there.
LEMMA InstanceIsEach == MCSpec => SessionSpec /\ RoomSpec /\ SyncSpec
<1>1. MCInit => SessionInit /\ RoomInit /\ SyncInit
  BY DEF MCInit
<1>2. [MCNext]_<<sessionVars, roomVars, syncVars, part>>
        => [SessionNext]_sessionVars /\ [RoomNext]_roomVars /\ [SyncNext]_syncVars
  BY DEF MCNext
<1> QED
  BY <1>1, <1>2, PTL DEF MCSpec, SessionSpec, RoomSpec, SyncSpec

\* Sessions, rooms and mailboxes keep the shape of their variables together as they do
\* alone, whichever of the three is at work.
THEOREM ClientTypesCorrect == MCSpec => []ClientTypeOK
<1>1. TokenTypeOK /\ RoomTypeOK /\ SyncTypeOK => ClientTypeOK
  BY DEF ClientTypeOK
<1> QED
  BY <1>1, InstanceIsEach, TokenTypeCorrect, RoomTypeCorrect, SyncTypeCorrect, PTL
=============================================================================
