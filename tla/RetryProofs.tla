----------------------------- MODULE RetryProofs -----------------------------
(***************************************************************************)
(* Proofs about what is tried again: OfflineOutbox, for any number of      *)
(* emails, of tabs, of flushes at once, of changes of the connection and   *)
(* of mishaps; and WebhookDispatcher, for any number of events, of slots,  *)
(* of attempts, of stalls and of faults.                                   *)
(***************************************************************************)
EXTENDS OfflineOutbox, WebhookDispatcher, FiniteSetTheorems, TLAPS

-----------------------------------------------------------------------------
(***************************************************************************)
(* OfflineOutbox                                                           *)
(***************************************************************************)

FlushType == [pc : {"idle", "fetch", "read", "next", "post", "posted"}, tab : Tabs \cup {NoTab},
              list : SUBSET Mails, at : Mails \cup {NoMail}, sync : BOOLEAN]
MailType  == [pc : {"new", "send", "accepted", "sent", "failed", "queue", "queued", "gone"},
              tab : Tabs \cup {NoTab}]
TabType   == [open : BOOLEAN, online : BOOLEAN, syncing : BOOLEAN]

-----------------------------------------------------------------------------
(* types *)

LEMMA OutboxTypeInit == OutboxInit => OutboxTypeOK
BY OutboxAssumption DEF OutboxInit, OutboxTypeOK, NoFlush, NoTab, NoMail

LEMMA StartedType ==
  ASSUME flush \in [Flushes -> FlushType], NEW t \in Tabs, NEW pc \in {"fetch", "read"}, NEW sync \in BOOLEAN,
         StartFlush(t, pc, sync)
  PROVE  flush' \in [Flushes -> FlushType]
<1>1. PICK f \in Flushes :
        flush' = [flush EXCEPT ![f] = [NoFlush EXCEPT !.pc = pc, !.tab = t, !.sync = sync]]
  BY DEF StartFlush
<1>2. [NoFlush EXCEPT !.pc = pc, !.tab = t, !.sync = sync] \in FlushType
  BY DEF NoFlush, FlushType
<1> QED
  BY <1>1, <1>2

LEMMA SyncingType ==
  ASSUME tab \in [Tabs -> TabType], NEW t, NEW b \in BOOLEAN
  PROVE  [tab EXCEPT ![t].syncing = b] \in [Tabs -> TabType]
<1>1. CASE t \in Tabs
  <2>1. [tab[t] EXCEPT !.syncing = b] \in TabType
    BY <1>1 DEF TabType
  <2> QED
    BY <1>1, <2>1
<1>2. CASE t \notin Tabs
  BY <1>2
<1> QED
  BY <1>1, <1>2

LEMMA AnotherType ==
  ASSUME NEW g \in [Mails -> Nat], NEW m
  PROVE  Another(g, m) \in [Mails -> Nat]
<1>1. CASE m \in Mails
  BY <1>1 DEF Another
<1>2. CASE m \notin Mails
  BY <1>2 DEF Another
<1> QED
  BY <1>1, <1>2

LEMMA ProceedType ==
  ASSUME flush \in [Flushes -> FlushType], tab \in [Tabs -> TabType], NEW f \in Flushes,
         NEW pc \in {"read", "next", "post"}, NEW list \in SUBSET Mails, NEW at \in Mails \cup {NoMail},
         Proceed(f, pc, list, at)
  PROVE  flush' \in [Flushes -> FlushType] /\ tab' \in [Tabs -> TabType]
<1>1. NoFlush \in FlushType
  BY DEF NoFlush, FlushType
<1>2. ASSUME NEW g \in [Flushes -> FlushType]
      PROVE  /\ [g EXCEPT ![f].pc = pc] \in [Flushes -> FlushType]
             /\ [g EXCEPT ![f].list = list] \in [Flushes -> FlushType]
             /\ [g EXCEPT ![f].at = at] \in [Flushes -> FlushType]
  <2>1. [g[f] EXCEPT !.pc = pc] \in FlushType
    BY SMTT(30) DEF FlushType
  <2>2. [g[f] EXCEPT !.list = list] \in FlushType
    BY DEF FlushType
  <2>3. [g[f] EXCEPT !.at = at] \in FlushType
    BY ZenonT(40) DEF FlushType
  <2> QED
    BY <2>1, <2>2, <2>3
<1>3. CASE list = {} /\ pc = "next"
  <2>1. flush' = [flush EXCEPT ![f] = NoFlush]
    BY <1>3 DEF Proceed
  <2>2. flush' \in [Flushes -> FlushType]
    BY <1>1, <2>1
  <2>3. tab' = IF flush[f].sync THEN [tab EXCEPT ![flush[f].tab].syncing = FALSE] ELSE tab
    BY <1>3 DEF Proceed
  <2>4. [tab EXCEPT ![flush[f].tab].syncing = FALSE] \in [Tabs -> TabType]
    BY SyncingType
  <2> QED
    BY <2>2, <2>3, <2>4
<1>4. CASE ~(list = {} /\ pc = "next")
  <2>1. PICK g \in [Flushes -> FlushType] : g = [flush EXCEPT ![f].pc = pc]
    BY <1>2
  <2>2. PICK h \in [Flushes -> FlushType] : h = [g EXCEPT ![f].list = list]
    BY <1>2
  <2>3. flush' = [h EXCEPT ![f].at = at] /\ tab' = tab
    BY <1>4, <2>1, <2>2 DEF Proceed
  <2> QED
    BY <1>2, <2>3
<1> QED
  BY <1>3, <1>4

LEMMA OutboxTypeStep == OutboxTypeOK /\ [OutboxNext]_outboxVars => OutboxTypeOK'
<1> SUFFICES ASSUME OutboxTypeOK, [OutboxNext]_outboxVars PROVE OutboxTypeOK'
  OBVIOUS
<1> USE OutboxAssumption
<1>0. /\ net \in BOOLEAN /\ tab \in [Tabs -> TabType] /\ outbox \subseteq Mails
      /\ mail \in [Mails -> MailType] /\ flush \in [Flushes -> FlushType]
      /\ copies \in [Mails -> Nat] /\ excused \in [Mails -> Nat]
      /\ toggles \in 0 .. MaxToggles /\ syncs \in 0 .. MaxSyncs /\ mishaps \in 0 .. MaxMishaps
  BY DEF OutboxTypeOK, TabType, MailType, FlushType
<1>1. ASSUME net' \in BOOLEAN, tab' \in [Tabs -> TabType], outbox' \subseteq Mails,
             mail' \in [Mails -> MailType], flush' \in [Flushes -> FlushType],
             copies' \in [Mails -> Nat], excused' \in [Mails -> Nat],
             toggles' \in 0 .. MaxToggles, syncs' \in 0 .. MaxSyncs, mishaps' \in 0 .. MaxMishaps
      PROVE  OutboxTypeOK'
  BY <1>1 DEF OutboxTypeOK, TabType, MailType, FlushType
<1>2. (Mishap \/ RequestFails) => mishaps' \in 0 .. MaxMishaps
  BY <1>0 DEF Mishap, RequestFails
<1>4. CASE Toggle
  BY <1>0, <1>1, <1>4 DEF Toggle
<1>5. ASSUME NEW t \in Tabs, Hear(t) PROVE OutboxTypeOK'
  <2>1. flush' \in [Flushes -> FlushType]
    BY <1>0, <1>5, StartedType DEF Hear
  <2>2. tab' \in [Tabs -> TabType]
    BY <1>0, <1>5 DEF Hear, TabType
  <2> QED
    BY <1>0, <1>1, <1>5, <2>1, <2>2 DEF Hear
<1>6. ASSUME NEW t \in Tabs, SyncNow(t) PROVE OutboxTypeOK'
  <2>1. flush' \in [Flushes -> FlushType]
    BY <1>0, <1>6, StartedType DEF SyncNow
  <2>2. tab' \in [Tabs -> TabType]
    BY <1>0, <1>6, SyncingType DEF SyncNow
  <2>3. syncs' \in 0 .. MaxSyncs
    BY <1>0, <1>6 DEF SyncNow
  <2> QED
    BY <1>0, <1>1, <1>6, <2>1, <2>2, <2>3 DEF SyncNow
<1>7. ASSUME NEW f \in Flushes, FetchNew(f) PROVE OutboxTypeOK'
  <2>1. Proceed(f, "read", {}, NoMail) \/ Proceed(f, "next", {}, NoMail)
    BY <1>7 DEF FetchNew
  <2>2. flush' \in [Flushes -> FlushType] /\ tab' \in [Tabs -> TabType]
    BY <1>0, <2>1, ProceedType
  <2> QED
    BY <1>0, <1>1, <1>2, <1>7, <2>2 DEF FetchNew
<1>8. ASSUME NEW f \in Flushes, ReadOutbox(f) PROVE OutboxTypeOK'
  <2>1. flush' \in [Flushes -> FlushType] /\ tab' \in [Tabs -> TabType]
    BY <1>0, <1>8, ProceedType DEF ReadOutbox
  <2>2. excused' \in [Mails -> Nat]
    BY <1>0, <1>8 DEF ReadOutbox
  <2> QED
    BY <1>0, <1>1, <1>8, <2>1, <2>2 DEF ReadOutbox
<1>9. ASSUME NEW f \in Flushes, SendNext(f) PROVE OutboxTypeOK'
  <2>1. PICK m \in flush[f].list : Proceed(f, "post", flush[f].list, m)
    BY <1>9 DEF SendNext
  <2>2. flush[f].list \in SUBSET Mails /\ m \in Mails
    BY <1>0 DEF FlushType
  <2>3. flush' \in [Flushes -> FlushType] /\ tab' \in [Tabs -> TabType]
    BY <1>0, <2>1, <2>2, ProceedType
  <2> QED
    BY <1>0, <1>1, <1>9, <2>3 DEF SendNext
<1>10. ASSUME NEW f \in Flushes, Accept(f) PROVE OutboxTypeOK'
  <2>1. flush' \in [Flushes -> FlushType]
    BY <1>0, <1>10 DEF Accept, FlushType
  <2> QED
    BY <1>0, <1>1, AnotherType, <1>10, <2>1 DEF Accept
<1>11. ASSUME NEW f \in Flushes, Fail(f) PROVE OutboxTypeOK'
  <2>1. Rest(f) \in SUBSET Mails
    BY <1>0 DEF Rest, FlushType
  <2>2. flush' \in [Flushes -> FlushType] /\ tab' \in [Tabs -> TabType]
    BY <1>0, <1>11, <2>1, ProceedType DEF Fail
  <2>3. excused' \in [Mails -> Nat]
    BY <1>0, AnotherType, <1>11 DEF Fail
  <2> QED
    BY <1>0, <1>1, <1>2, <1>11, <2>2, <2>3 DEF Fail
<1>12. ASSUME NEW f \in Flushes, Remove(f) PROVE OutboxTypeOK'
  <2>1. Rest(f) \in SUBSET Mails
    BY <1>0 DEF Rest, FlushType
  <2>2. flush' \in [Flushes -> FlushType] /\ tab' \in [Tabs -> TabType]
    BY <1>0, <1>12, <2>1, ProceedType DEF Remove
  <2> QED
    BY <1>0, <1>1, <1>12, <2>2 DEF Remove, Left
<1>13. ASSUME NEW m \in Mails, NEW t \in Tabs, Compose(m, t) PROVE OutboxTypeOK'
  <2>1. mail' \in [Mails -> MailType]
    BY <1>0, <1>13 DEF Compose, MailType
  <2> QED
    BY <1>0, <1>1, <1>13, <2>1 DEF Compose
<1>14. ASSUME NEW m \in Mails, AcceptMail(m) \/ ShowSent(m) \/ Queue(m) PROVE OutboxTypeOK'
  <2>1. mail' \in [Mails -> MailType]
    BY <1>0, <1>14 DEF AcceptMail, ShowSent, Queue, MailAt, MailType
  <2> QED
    BY <1>0, <1>1, AnotherType, <1>14, <2>1 DEF AcceptMail, ShowSent, Queue
<1>15. ASSUME NEW m \in Mails, FailMail(m) PROVE OutboxTypeOK'
  <2>1. mail' \in [Mails -> MailType]
    BY <1>0, <1>15 DEF FailMail, MailAt, AfterFailure, MailType
  <2> QED
    BY <1>0, <1>1, <1>2, AnotherType, <1>15, <2>1 DEF FailMail
<1>16. ASSUME NEW t \in Tabs, CloseTab(t) PROVE OutboxTypeOK'
  <2>1. tab' \in [Tabs -> TabType]
    BY <1>0, <1>16 DEF CloseTab, TabType
  <2>2. flush' \in [Flushes -> FlushType]
    BY <1>0, <1>16 DEF CloseTab, FlushType, NoFlush
  <2>3. mail' \in [Mails -> MailType]
    BY <1>0, <1>16 DEF CloseTab, MailType
  <2>4. ASSUME NEW m \in Mails
        PROVE Cardinality({f \in Flushes : flush[f].tab = t /\ flush[f].pc = "posted" /\ flush[f].at = m}) \in Nat
    BY FS_Subset, FS_CardinalityType
  <2>5. excused' \in [Mails -> Nat]
    BY <1>0, <1>16, <2>4 DEF CloseTab
  <2> QED
    BY <1>0, <1>1, <1>2, <1>16, <2>1, <2>2, <2>3, <2>5 DEF CloseTab
<1>17. ASSUME NEW t \in Tabs, OpenTab(t) PROVE OutboxTypeOK'
  <2>1. tab' \in [Tabs -> TabType]
    BY <1>0, <1>17 DEF OpenTab, TabType
  <2> QED
    BY <1>0, <1>1, <1>17, <2>1 DEF OpenTab
<1>18. CASE UNCHANGED outboxVars
  BY <1>0, <1>1, <1>18 DEF outboxVars
<1> QED
  BY <1>4, <1>5, <1>6, <1>7, <1>8, <1>9, <1>10, <1>11, <1>12, <1>13, <1>14, <1>15, <1>16, <1>17, <1>18
  DEF OutboxNext, Flushing, Composing

\* Every variable keeps its shape.
THEOREM OutboxTypeCorrect == OutboxSpec => []OutboxTypeOK
BY OutboxTypeInit, OutboxTypeStep, PTL DEF OutboxSpec

-----------------------------------------------------------------------------
(* queued mail *)

\* A flush that posts an email has it in hand, one that has posted it knows it accepted,
\* and one that has not read the outbox has nothing in hand.
FlushShape ==
  \A f \in Flushes :
    /\ flush[f].pc \in {"post", "posted"} => flush[f].at \in flush[f].list
    /\ flush[f].pc = "posted" => copies[flush[f].at] > 0
    /\ flush[f].pc \in {"idle", "fetch", "read"} => flush[f].list = {}

ShapeInv == OutboxTypeOK /\ FlushShape
KeptInv  == ShapeInv /\ QueuedMailIsKept

LEMMA Types ==
  ASSUME OutboxTypeOK
  PROVE  /\ tab \in [Tabs -> TabType] /\ outbox \subseteq Mails
         /\ mail \in [Mails -> MailType] /\ flush \in [Flushes -> FlushType]
         /\ copies \in [Mails -> Nat] /\ excused \in [Mails -> Nat]
BY DEF OutboxTypeOK, TabType, MailType, FlushType

\* What Proceed makes of flush f; the other flushes stay where they are.
LEMMA Proceeded ==
  ASSUME OutboxTypeOK, NEW f \in Flushes, NEW pc \in {"read", "next", "post"}, NEW list \in SUBSET Mails,
         NEW at \in Mails \cup {NoMail}, Proceed(f, pc, list, at)
  PROVE  /\ \A g \in Flushes : g # f => flush'[g] = flush[g]
         /\ flush'[f].list = list
         /\ \/ flush'[f].pc = "idle" /\ list = {}
            \/ flush'[f].pc = pc /\ flush'[f].at = at
<1>1. flush \in [Flushes -> FlushType]
  BY Types
<1>2. CASE list = {} /\ pc = "next"
  <2>1. flush' = [flush EXCEPT ![f] = NoFlush]
    BY <1>2 DEF Proceed
  <2>2. flush'[f] = NoFlush /\ \A g \in Flushes : g # f => flush'[g] = flush[g]
    BY <1>1, <2>1
  <2> QED
    BY <1>2, <2>2 DEF NoFlush
<1>3. CASE ~(list = {} /\ pc = "next")
  <2>1. flush' = [flush EXCEPT ![f].pc = pc, ![f].list = list, ![f].at = at]
    BY <1>3 DEF Proceed
  <2>2. flush'[f] = [flush[f] EXCEPT !.pc = pc, !.list = list, !.at = at]
    BY <1>1, <2>1
  <2>3. \A g \in Flushes : g # f => flush'[g] = flush[g]
    BY <1>1, <2>1
  <2>4. flush[f] \in FlushType
    BY <1>1
  <2> QED
    BY <2>2, <2>3, <2>4 DEF FlushType
<1> QED
  BY <1>2, <1>3

LEMMA Started ==
  ASSUME OutboxTypeOK, NEW t \in Tabs, NEW pc \in {"fetch", "read"}, NEW sync \in BOOLEAN, StartFlush(t, pc, sync)
  PROVE  \E f \in Flushes :
           /\ flush[f].pc = "idle"
           /\ flush'[f].pc = pc /\ flush'[f].list = {}
           /\ \A g \in Flushes : g # f => flush'[g] = flush[g]
<1>1. PICK f \in Flushes :
        /\ flush[f].pc = "idle"
        /\ flush' = [flush EXCEPT ![f] = [NoFlush EXCEPT !.pc = pc, !.tab = t, !.sync = sync]]
  BY DEF StartFlush
<1>2. flush'[f] = [NoFlush EXCEPT !.pc = pc, !.tab = t, !.sync = sync]
  BY <1>1, Types
<1>3. flush'[f].pc = pc /\ flush'[f].list = {}
  BY <1>2 DEF NoFlush
<1>4. \A g \in Flushes : g # f => flush'[g] = flush[g]
  BY <1>1, Types
<1> QED
  BY <1>1, <1>3, <1>4

LEMMA MoreCopies ==
  ASSUME OutboxTypeOK, NEW m \in Mails, copies' = Another(copies, m)
  PROVE  /\ copies'[m] = copies[m] + 1
         /\ \A n \in Mails : n # m => copies'[n] = copies[n]
BY Types DEF Another

\* The kinds of steps, as far as flushes and copies are concerned.
LEMMA ShapeStep == ShapeInv /\ [OutboxNext]_outboxVars => ShapeInv'
<1> SUFFICES ASSUME ShapeInv, [OutboxNext]_outboxVars PROVE FlushShape'
  BY OutboxTypeStep DEF ShapeInv
<1> USE DEF ShapeInv
<1>1. flush \in [Flushes -> FlushType] /\ copies \in [Mails -> Nat] /\ tab \in [Tabs -> TabType]
  BY Types
<1>2. ASSUME NEW f \in Flushes, \A g \in Flushes : g # f => flush'[g] = flush[g],
             \A m \in Mails : copies'[m] >= copies[m],
             /\ flush'[f].pc \in {"post", "posted"} => flush'[f].at \in flush'[f].list
             /\ flush'[f].pc = "posted" => copies'[flush'[f].at] > 0
             /\ flush'[f].pc \in {"idle", "fetch", "read"} => flush'[f].list = {}
      PROVE  FlushShape'
  <2>1. ASSUME NEW g \in Flushes, g # f, flush[g].pc = "posted" PROVE copies'[flush[g].at] > 0
    <3>1. flush[g].at \in Mails /\ copies[flush[g].at] > 0
      BY <1>1, <2>1 DEF FlushShape, FlushType
    <3>2. copies'[flush[g].at] \in Nat
      BY <3>1, OutboxTypeStep DEF OutboxTypeOK
    <3> QED
      BY <1>1, <1>2, <3>1, <3>2
  <2> QED
    BY <1>2, <2>1 DEF FlushShape
<1>3. ASSUME UNCHANGED flush, \A m \in Mails : copies'[m] >= copies[m] PROVE FlushShape'
  <2>1. CASE Flushes = {}
    BY <2>1 DEF FlushShape
  <2>2. ASSUME NEW f \in Flushes PROVE FlushShape'
    <3>1. flush[f].pc = "posted" => copies'[flush[f].at] > 0
      <4>1. SUFFICES ASSUME flush[f].pc = "posted" PROVE copies'[flush[f].at] > 0
        OBVIOUS
      <4>2. flush[f].at \in Mails /\ copies[flush[f].at] > 0
        BY <1>1, <4>1 DEF FlushShape, FlushType
      <4>3. copies'[flush[f].at] \in Nat
        BY <4>2, OutboxTypeStep DEF OutboxTypeOK
      <4> QED
        BY <1>1, <1>3, <4>2, <4>3
    <3> QED
      BY <1>2, <1>3, <3>1 DEF FlushShape
  <2> QED
    BY <2>1, <2>2
<1>4. ASSUME UNCHANGED copies PROVE \A m \in Mails : copies'[m] >= copies[m]
  BY <1>1, <1>4
<1>5. ASSUME NEW m, copies' = Another(copies, m) PROVE \A n \in Mails : copies'[n] >= copies[n]
  BY <1>1, <1>5 DEF Another
<1>6. CASE Toggle
  BY <1>3, <1>4, <1>6 DEF Toggle
<1>7. ASSUME NEW t \in Tabs, Hear(t) \/ SyncNow(t) PROVE FlushShape'
  <2>1. UNCHANGED copies
    BY <1>7 DEF Hear, SyncNow
  <2>2. UNCHANGED flush \/ \E pc \in {"fetch", "read"}, sync \in BOOLEAN : StartFlush(t, pc, sync)
    BY <1>7 DEF Hear, SyncNow
  <2>3. ASSUME NEW pc \in {"fetch", "read"}, NEW sync \in BOOLEAN, StartFlush(t, pc, sync) PROVE FlushShape'
    BY <1>2, <1>4, <2>1, <2>3, Started
  <2> QED
    BY <1>3, <1>4, <2>1, <2>2, <2>3
<1>8. ASSUME NEW f \in Flushes, UNCHANGED copies, NEW pc \in {"next", "post"}, NEW list \in SUBSET Mails,
             NEW at \in Mails \cup {NoMail}, pc = "post" => at \in list, Proceed(f, pc, list, at)
      PROVE FlushShape'
  <2>1. /\ \A g \in Flushes : g # f => flush'[g] = flush[g]
        /\ flush'[f].list = list
        /\ \/ flush'[f].pc = "idle" /\ list = {}
           \/ flush'[f].pc = pc /\ flush'[f].at = at
    BY <1>8, Proceeded
  <2> QED
    BY <1>2, <1>4, <1>8, <2>1
<1>9. ASSUME NEW f \in Flushes, FetchNew(f) PROVE FlushShape'
  <2>1. UNCHANGED copies /\ (Proceed(f, "read", {}, NoMail) \/ Proceed(f, "next", {}, NoMail))
    BY <1>9 DEF FetchNew
  <2>2. ASSUME NEW pc \in {"read", "next"}, Proceed(f, pc, {}, NoMail) PROVE FlushShape'
    BY ZenonT(40), <1>2, <1>4, <2>1, <2>2, Proceeded
  <2> QED
    BY <2>1, <2>2
<1>10. ASSUME NEW f \in Flushes, ReadOutbox(f) PROVE FlushShape'
  BY <1>8, <1>10, Types DEF ReadOutbox
<1>11. ASSUME NEW f \in Flushes, SendNext(f) PROVE FlushShape'
  <2>1. PICK m \in flush[f].list : Proceed(f, "post", flush[f].list, m)
    BY <1>11 DEF SendNext
  <2>2. flush[f].list \in SUBSET Mails /\ m \in Mails
    BY <1>1 DEF FlushType
  <2> QED
    BY <1>8, <1>11, <2>1, <2>2 DEF SendNext
<1>12. ASSUME NEW f \in Flushes, Accept(f) PROVE FlushShape'
  <2>1. flush[f].at \in flush[f].list /\ flush[f].at \in Mails
    BY <1>1, <1>12 DEF Accept, FlushShape, FlushType
  <2>2. copies'[flush[f].at] = copies[flush[f].at] + 1
    BY <1>12, <2>1, MoreCopies DEF Accept
  <2>3. copies'[flush[f].at] > 0
    BY <1>1, <2>1, <2>2
  <2>4. flush'[f].pc = "posted" /\ flush'[f].at = flush[f].at /\ flush'[f].list = flush[f].list
    BY <1>1, <1>12 DEF Accept, FlushType
  <2>5. \A g \in Flushes : g # f => flush'[g] = flush[g]
    BY <1>1, <1>12 DEF Accept
  <2> QED
    BY <1>2, <1>5, <1>12, <2>1, <2>3, <2>4, <2>5 DEF Accept
<1>13. ASSUME NEW f \in Flushes, Fail(f) \/ Remove(f) PROVE FlushShape'
  <2>1. Rest(f) \in SUBSET Mails
    BY <1>1 DEF Rest, FlushType
  <2> QED
    BY <1>8, <1>13, <2>1 DEF Fail, Remove
<1>14. ASSUME NEW m \in Mails, Composing(m) PROVE FlushShape'
  <2>1. UNCHANGED flush /\ (UNCHANGED copies \/ copies' = Another(copies, m))
    BY <1>14 DEF Composing, Compose, AcceptMail, ShowSent, FailMail, Queue
  <2> QED
    BY <1>3, <1>4, <1>5, <2>1
<1>15. ASSUME NEW t \in Tabs, CloseTab(t) PROVE FlushShape'
  <2>1. \A f \in Flushes : flush'[f] = flush[f] \/ flush'[f] = NoFlush
    BY <1>15 DEF CloseTab
  <2>2. UNCHANGED copies
    BY <1>15 DEF CloseTab
  <2> QED
    BY <2>1, <2>2 DEF FlushShape, NoFlush
<1>16. ASSUME NEW t \in Tabs, OpenTab(t) PROVE FlushShape'
  BY <1>3, <1>4, <1>16 DEF OpenTab
<1>17. CASE UNCHANGED outboxVars
  BY <1>3, <1>4, <1>17 DEF outboxVars
<1> QED
  BY <1>6, <1>7, <1>9, <1>10, <1>11, <1>12, <1>13, <1>14, <1>15, <1>16, <1>17 DEF OutboxNext, Flushing

LEMMA KeptInit == OutboxInit => KeptInv
<1> SUFFICES ASSUME OutboxInit PROVE KeptInv
  OBVIOUS
<1>1. FlushShape
  BY DEF OutboxInit, FlushShape, NoFlush
<1>2. QueuedMailIsKept
  BY DEF OutboxInit, QueuedMailIsKept
<1> QED
  BY <1>1, <1>2, OutboxTypeInit DEF KeptInv, ShapeInv

LEMMA KeptStep == KeptInv /\ [OutboxNext]_outboxVars => KeptInv'
<1> SUFFICES ASSUME KeptInv, [OutboxNext]_outboxVars, NEW m \in Mails, mail'[m].pc = "queued"
             PROVE  m \in outbox' \/ copies'[m] > 0
  BY ShapeStep DEF KeptInv, ShapeInv, QueuedMailIsKept
<1> USE DEF KeptInv, ShapeInv
<1>1. copies \in [Mails -> Nat] /\ mail \in [Mails -> MailType] /\ flush \in [Flushes -> FlushType]
  BY Types
<1>2. ASSUME mail[m].pc = "queued", outbox \subseteq outbox', copies'[m] >= copies[m], copies'[m] \in Nat
      PROVE  m \in outbox' \/ copies'[m] > 0
  BY <1>1, <1>2 DEF QueuedMailIsKept
<1>3. copies'[m] \in Nat
  BY OutboxTypeStep DEF OutboxTypeOK
<1>4. CASE UNCHANGED <<mail, outbox, copies>>
  BY <1>1, <1>2, <1>4
<1>5. ASSUME NEW f \in Flushes, Accept(f) PROVE m \in outbox' \/ copies'[m] > 0
  <2>1. copies'[m] >= copies[m]
    BY <1>1, <1>5 DEF Accept, Another
  <2> QED
    BY <1>2, <1>3, <1>5, <2>1 DEF Accept
<1>6. ASSUME NEW f \in Flushes, Remove(f) PROVE m \in outbox' \/ copies'[m] > 0
  <2>1. CASE m = flush[f].at
    BY <1>6, <2>1 DEF Remove, FlushShape
  <2>2. CASE m # flush[f].at
    BY <1>6, <2>2 DEF Remove, Left, QueuedMailIsKept
  <2> QED
    BY <2>1, <2>2
<1>7. ASSUME NEW n \in Mails, Composing(n) PROVE m \in outbox' \/ copies'[m] > 0
  <2>1. CASE Queue(n) /\ n = m
    BY <2>1 DEF Queue
  <2>2. CASE ~(Queue(n) /\ n = m)
    <3>1. mail[m].pc = "queued"
      BY <1>1, <1>7, <2>2 DEF Composing, Compose, AcceptMail, ShowSent, FailMail, Queue, MailAt, AfterFailure, MailType
    <3>2. outbox \subseteq outbox'
      BY <1>7 DEF Composing, Compose, AcceptMail, ShowSent, FailMail, Queue
    <3>3. copies'[m] >= copies[m]
      BY <1>1, <1>7 DEF Composing, Compose, AcceptMail, ShowSent, FailMail, Queue, Another
    <3> QED
      BY <1>2, <1>3, <3>1, <3>2, <3>3
  <2> QED
    BY <2>1, <2>2
<1>8. ASSUME NEW t \in Tabs, CloseTab(t) PROVE m \in outbox' \/ copies'[m] > 0
  <2>1. mail[m].pc = "queued"
    BY <1>1, <1>8 DEF CloseTab, MailType
  <2> QED
    BY <1>1, <1>2, <1>8, <2>1 DEF CloseTab
<1> QED
  BY <1>4, <1>5, <1>6, <1>7, <1>8 DEF OutboxNext, Flushing, Toggle, Hear, SyncNow, OpenTab, FetchNew,
       ReadOutbox, SendNext, Fail, outboxVars

\* Mail that is queued is never lost: it stays in the outbox until the server has it, with
\* any number of tabs and overlapping flushes, whatever requests fail and tabs close.
THEOREM QueuedMailIsNotLost == OutboxSpec => []QueuedMailIsKept
<1>1. KeptInv => QueuedMailIsKept
  BY DEF KeptInv
<1> QED
  BY <1>1, KeptInit, KeptStep, PTL DEF OutboxSpec

-----------------------------------------------------------------------------
(* copies *)

\* What may still become a copy of email m: the flushes that have yet to post it, its
\* place in the outbox while no flush has it in hand, and the compose page.
Holders(m) == {f \in Flushes : m \in flush[f].list /\ ~(flush[f].pc = "posted" /\ flush[f].at = m)}
Waiting(m) == IF m \in outbox /\ ~InHand(m) THEN 1 ELSE 0
Writing(m) == IF mail[m].pc \in {"new", "send", "queue"} THEN 1 ELSE 0
Spent(m)   == copies[m] + Cardinality(Holders(m)) + Waiting(m) + Writing(m)

BudgetInv == ShapeInv /\ \A m \in Mails : Spent(m) <= 1 + excused[m]

LEMMA OneElement ==
  ASSUME NEW S, IsFiniteSet(S), NEW T, NEW f, S \ {f} = T \ {f}
  PROVE  /\ Cardinality(S) \in Nat /\ Cardinality(T) \in Nat
         /\ Cardinality(T) = Cardinality(S) - (IF f \in S THEN 1 ELSE 0) + (IF f \in T THEN 1 ELSE 0)
<1>1. IsFiniteSet(T)
  <2>1. IsFiniteSet(S \cup {f})
    BY FS_AddElement
  <2> QED
    BY <2>1, FS_Subset
<1>2. Cardinality(S) \in Nat /\ Cardinality(T) \in Nat
  BY <1>1, FS_CardinalityType
<1>3. Cardinality(S \ {f}) = IF f \in S THEN Cardinality(S) - 1 ELSE Cardinality(S)
  BY FS_RemoveElement
<1>4. Cardinality(T \ {f}) = IF f \in T THEN Cardinality(T) - 1 ELSE Cardinality(T)
  BY <1>1, FS_RemoveElement
<1>5. ASSUME NEW s \in Nat, NEW u \in Nat, NEW p \in BOOLEAN, NEW q \in BOOLEAN,
             (IF p THEN s - 1 ELSE s) = (IF q THEN u - 1 ELSE u)
      PROVE  u = s - (IF p THEN 1 ELSE 0) + (IF q THEN 1 ELSE 0)
  BY <1>5
<1>6. (IF f \in S THEN Cardinality(S) - 1 ELSE Cardinality(S))
        = (IF f \in T THEN Cardinality(T) - 1 ELSE Cardinality(T))
  BY <1>3, <1>4
<1>7. (f \in S) \in BOOLEAN /\ (f \in T) \in BOOLEAN
  OBVIOUS
<1> QED
  BY <1>2, <1>5, <1>6, <1>7

LEMMA FewerElements ==
  ASSUME NEW S, IsFiniteSet(S), NEW T \in SUBSET S
  PROVE  /\ Cardinality(S) \in Nat /\ Cardinality(T) \in Nat /\ Cardinality(T) <= Cardinality(S)
         /\ T # S => Cardinality(T) < Cardinality(S)
<1>1. IsFiniteSet(T) /\ Cardinality(T) <= Cardinality(S) /\ (Cardinality(S) = Cardinality(T) => S = T)
  BY FS_Subset
<1>2. Cardinality(S) \in Nat /\ Cardinality(T) \in Nat
  BY <1>1, FS_CardinalityType
<1> QED
  BY <1>1, <1>2

LEMMA HoldersFinite == \A m : IsFiniteSet(Holders(m)) /\ Cardinality(Holders(m)) \in Nat
BY OutboxAssumption, FS_Subset, FS_CardinalityType DEF Holders

\* One flush moves: the holders change by that flush at most.
LEMMA OneFlushMoves ==
  ASSUME NEW f \in Flushes, \A g \in Flushes : g # f => flush'[g] = flush[g], NEW m
  PROVE  /\ Cardinality(Holders(m)) \in Nat /\ Cardinality(Holders(m)') \in Nat
         /\ Cardinality(Holders(m)') = Cardinality(Holders(m))
              - (IF f \in Holders(m) THEN 1 ELSE 0) + (IF f \in Holders(m)' THEN 1 ELSE 0)
         /\ InHand(m)' <=> m \in flush'[f].list \/ \E g \in Flushes : g # f /\ m \in flush[g].list
<1>1. Holders(m) \ {f} = Holders(m)' \ {f}
  BY DEF Holders
<1> QED
  BY <1>1, HoldersFinite, OneElement DEF InHand

LEMMA BudgetInit == OutboxInit => BudgetInv
<1> SUFFICES ASSUME OutboxInit, NEW m \in Mails PROVE Spent(m) <= 1 + excused[m]
  BY KeptInit DEF BudgetInv, KeptInv
<1>1. Holders(m) = {}
  BY DEF OutboxInit, Holders, NoFlush
<1>2. Cardinality(Holders(m)) = 0
  BY <1>1, FS_EmptySet
<1>3. Waiting(m) = 0 /\ Writing(m) = 1 /\ copies[m] = 0 /\ excused[m] = 0
  BY DEF OutboxInit, Waiting, Writing
<1> QED
  BY <1>2, <1>3 DEF Spent

\* A step of flush f that neither writes nor composes, in numbers: what email m has spent
\* grows by no more than its excuses.
LEMMA FlushBudget ==
  ASSUME BudgetInv, OutboxTypeOK', NEW m \in Mails, NEW f \in Flushes, UNCHANGED mail,
         \A g \in Flushes : g # f => flush'[g] = flush[g],
         copies'[m] + (IF f \in Holders(m)' THEN 1 ELSE 0) + Waiting(m)'
           <= copies[m] + (IF f \in Holders(m) THEN 1 ELSE 0) + Waiting(m) + (excused'[m] - excused[m])
  PROVE  Spent(m)' <= 1 + excused'[m]
<1>1. copies[m] \in Nat /\ excused[m] \in Nat /\ copies'[m] \in Nat /\ excused'[m] \in Nat
  BY DEF OutboxTypeOK, BudgetInv, ShapeInv
<1>2. Waiting(m) \in Nat /\ Waiting(m)' \in Nat /\ Writing(m) \in Nat /\ Writing(m)' = Writing(m)
  BY DEF Waiting, Writing
<1>3. Spent(m) <= 1 + excused[m]
  BY DEF BudgetInv
<1>4. Spent(m)' = copies'[m] + Cardinality(Holders(m)') + Waiting(m)' + Writing(m)'
  BY DEF Spent
<1>5. /\ Cardinality(Holders(m)) \in Nat /\ Cardinality(Holders(m)') \in Nat
      /\ Cardinality(Holders(m)') = Cardinality(Holders(m))
           - (IF f \in Holders(m) THEN 1 ELSE 0) + (IF f \in Holders(m)' THEN 1 ELSE 0)
  BY OneFlushMoves
<1>6. ASSUME NEW c \in Nat, NEW d \in Nat, NEW h \in Nat, NEW k \in Nat, NEW x \in Nat, NEW y \in Nat,
             NEW w \in Nat, NEW v \in Nat, NEW r \in Nat, NEW e \in Nat, NEW n \in Nat,
             c + h + w + r <= 1 + e, k = h - x + y, d + y + v <= c + x + w + (n - e)
      PROVE  d + k + v + r <= 1 + n
  BY <1>6
<1>7. (IF f \in Holders(m) THEN 1 ELSE 0) \in Nat /\ (IF f \in Holders(m)' THEN 1 ELSE 0) \in Nat
  OBVIOUS
<1>8. copies[m] + Cardinality(Holders(m)) + Waiting(m) + Writing(m) <= 1 + excused[m]
  BY <1>3 DEF Spent
<1>9. copies'[m] + Cardinality(Holders(m)') + Waiting(m)' + Writing(m)' <= 1 + excused'[m]
  <2> HIDE DEF Waiting, Writing, Holders
  <2> QED
    BY <1>1, <1>2, <1>5, <1>6, <1>7, <1>8
<1> QED
  BY <1>4, <1>9

\* A flush that has the same emails in hand leaves the same ones waiting.
LEMMA SameWaiting ==
  ASSUME NEW f \in Flushes, \A g \in Flushes : g # f => flush'[g] = flush[g], NEW m,
         m \in flush'[f].list <=> m \in flush[f].list, m \in outbox' <=> m \in outbox
  PROVE  Waiting(m)' = Waiting(m)
<1>1. InHand(m)' <=> InHand(m)
  BY DEF InHand
<1> QED
  BY <1>1 DEF Waiting

\* A step that leaves the flushes alone: what counts is the outbox and the compose page.
LEMMA PageBudget ==
  ASSUME BudgetInv, OutboxTypeOK', NEW m \in Mails, UNCHANGED flush,
         copies'[m] + Waiting(m)' + Writing(m)' <= copies[m] + Waiting(m) + Writing(m) + (excused'[m] - excused[m])
  PROVE  Spent(m)' <= 1 + excused'[m]
<1>1. copies[m] \in Nat /\ excused[m] \in Nat /\ copies'[m] \in Nat /\ excused'[m] \in Nat
  BY DEF OutboxTypeOK, BudgetInv, ShapeInv
<1>2. Waiting(m) \in Nat /\ Waiting(m)' \in Nat /\ Writing(m) \in Nat /\ Writing(m)' \in Nat
  BY DEF Waiting, Writing
<1>3. copies[m] + Cardinality(Holders(m)) + Waiting(m) + Writing(m) <= 1 + excused[m]
  BY DEF BudgetInv, Spent
<1>4. Cardinality(Holders(m)) \in Nat /\ Cardinality(Holders(m)') = Cardinality(Holders(m))
  BY HoldersFinite DEF Holders
<1>5. ASSUME NEW c \in Nat, NEW d \in Nat, NEW h \in Nat, NEW w \in Nat, NEW v \in Nat, NEW r \in Nat,
             NEW u \in Nat, NEW e \in Nat, NEW n \in Nat,
             c + h + w + r <= 1 + e, d + v + u <= c + w + r + (n - e)
      PROVE  d + h + v + u <= 1 + n
  BY <1>5
<1>6. copies'[m] + Cardinality(Holders(m)) + Waiting(m)' + Writing(m)' <= 1 + excused'[m]
  <2> HIDE DEF Waiting, Writing, Holders
  <2> QED
    BY <1>1, <1>2, <1>3, <1>4, <1>5
<1> QED
  BY <1>4, <1>6 DEF Spent

LEMMA ComposingBudget ==
  ASSUME BudgetInv, OutboxTypeOK', NEW m \in Mails, NEW n \in Mails, Composing(n)
  PROVE  Spent(m)' <= 1 + excused'[m]
<1>1. /\ copies \in [Mails -> Nat] /\ excused \in [Mails -> Nat] /\ mail \in [Mails -> MailType]
      /\ copies'[m] \in Nat /\ excused'[m] \in Nat
  BY Types DEF BudgetInv, ShapeInv, OutboxTypeOK
<1>2. UNCHANGED flush
  BY DEF Composing, Compose, AcceptMail, ShowSent, FailMail, Queue
<1>3. Waiting(m) \in {0, 1} /\ Waiting(m)' \in {0, 1}
  BY DEF Waiting
<1>4. InHand(m)' <=> InHand(m)
  BY <1>2 DEF InHand
<1>5. outbox' = outbox => Waiting(m)' = Waiting(m)
  BY <1>4 DEF Waiting
<1>6. CASE n # m
  <2>1. copies'[m] = copies[m] /\ excused'[m] = excused[m] /\ mail'[m] = mail[m]
    BY <1>1, <1>6 DEF Composing, Compose, AcceptMail, ShowSent, FailMail, Queue, MailAt, Another
  <2>2. m \in outbox' <=> m \in outbox
    BY <1>6 DEF Composing, Compose, AcceptMail, ShowSent, FailMail, Queue
  <2>3. Waiting(m)' = Waiting(m)
    BY <1>4, <2>2 DEF Waiting
  <2>4. Writing(m)' = Writing(m) /\ Writing(m) \in Nat
    BY <2>1 DEF Writing
  <2>5. copies'[m] + Waiting(m)' + Writing(m)' <= copies[m] + Waiting(m) + Writing(m) + (excused'[m] - excused[m])
    BY <1>1, <1>3, <2>1, <2>3, <2>4
  <2> QED
    BY <1>2, <2>5, PageBudget
<1>7. CASE n = m
  <2>1. ASSUME NEW t \in Tabs, Compose(m, t)
        PROVE copies'[m] = copies[m] /\ excused'[m] = excused[m] /\ outbox' = outbox /\ Writing(m)' = 1 /\ Writing(m) = 1
    BY <1>1, <2>1 DEF Compose, Writing
  <2>2. CASE AcceptMail(m)
    <3>1. copies'[m] = copies[m] + 1 /\ excused'[m] = excused[m] /\ outbox' = outbox
      BY <1>1, <2>2 DEF AcceptMail, Another
    <3>2. Writing(m) = 1 /\ Writing(m)' = 0
      BY <1>1, <2>2 DEF AcceptMail, Writing, MailAt, MailType
    <3>3. copies'[m] + Waiting(m)' + Writing(m)' <= copies[m] + Waiting(m) + Writing(m) + (excused'[m] - excused[m])
      BY <1>1, <1>3, <1>5, <3>1, <3>2
    <3> QED
      BY <1>2, <3>3, PageBudget
  <2>3. CASE ShowSent(m)
    <3>1. copies'[m] = copies[m] /\ excused'[m] = excused[m] /\ outbox' = outbox
      BY <2>3 DEF ShowSent
    <3>2. Writing(m) = 0 /\ Writing(m)' = 0
      BY <1>1, <2>3 DEF ShowSent, Writing, MailAt, MailType
    <3>3. copies'[m] + Waiting(m)' + Writing(m)' <= copies[m] + Waiting(m) + Writing(m) + (excused'[m] - excused[m])
      BY <1>1, <1>3, <1>5, <3>1, <3>2
    <3> QED
      BY <1>2, <3>3, PageBudget
  <2>4. CASE FailMail(m)
    <3>1. copies'[m] = copies[m] /\ outbox' = outbox
      BY <2>4 DEF FailMail
    <3>2. Writing(m) + (excused'[m] - excused[m]) = 1
      BY <1>1, <2>4 DEF FailMail, Writing, Another
    <3>3. Writing(m)' \in {0, 1} /\ Writing(m) \in {0, 1}
      BY DEF Writing
    <3>4. copies'[m] + Waiting(m)' + Writing(m)' <= copies[m] + Waiting(m) + Writing(m) + (excused'[m] - excused[m])
      BY <1>1, <1>3, <1>5, <3>1, <3>2, <3>3
    <3> QED
      BY <1>2, <3>4, PageBudget
  <2>5. CASE Queue(m)
    <3>1. copies'[m] = copies[m] /\ excused'[m] = excused[m]
      BY <2>5 DEF Queue
    <3>2. Writing(m) = 1 /\ Writing(m)' = 0
      BY <1>1, <2>5 DEF Queue, Writing, MailAt, MailType
    <3>3. copies'[m] + Waiting(m)' + Writing(m)' <= copies[m] + Waiting(m) + Writing(m) + (excused'[m] - excused[m])
      BY <1>1, <1>3, <3>1, <3>2
    <3> QED
      BY <1>2, <3>3, PageBudget
  <2>6. ASSUME NEW t \in Tabs, Compose(m, t) PROVE Spent(m)' <= 1 + excused'[m]
    <3>1. copies'[m] + Waiting(m)' + Writing(m)' <= copies[m] + Waiting(m) + Writing(m) + (excused'[m] - excused[m])
      BY <1>1, <1>3, <1>5, <2>1, <2>6
    <3> QED
      BY <1>2, <3>1, PageBudget
  <2> QED
    BY <1>7, <2>2, <2>3, <2>4, <2>5, <2>6 DEF Composing
<1> QED
  BY <1>6, <1>7

\* The steps of a flush, from reading the outbox to removing what it has sent.
LEMMA FlushingBudget ==
  ASSUME BudgetInv, OutboxTypeOK', NEW m \in Mails, NEW f \in Flushes, Flushing(f)
  PROVE  Spent(m)' <= 1 + excused'[m]
<1>1. /\ copies \in [Mails -> Nat] /\ excused \in [Mails -> Nat] /\ flush \in [Flushes -> FlushType]
      /\ OutboxTypeOK /\ FlushShape /\ copies'[m] \in Nat /\ excused'[m] \in Nat
  BY Types DEF BudgetInv, ShapeInv, OutboxTypeOK
<1>2. Waiting(m) \in {0, 1} /\ Waiting(m)' \in {0, 1}
  BY DEF Waiting
<1>3. UNCHANGED mail
  BY DEF Flushing, FetchNew, ReadOutbox, SendNext, Accept, Fail, Remove
<1>4. CASE FetchNew(f)
  <2>1. Proceed(f, "read", {}, NoMail) \/ Proceed(f, "next", {}, NoMail)
    BY <1>4 DEF FetchNew
  <2>2. flush[f].list = {} /\ flush'[f].list = {} /\ \A g \in Flushes : g # f => flush'[g] = flush[g]
    BY <1>1, <1>4, <2>1, Proceeded DEF FetchNew, FlushShape
  <2>3. copies'[m] = copies[m] /\ excused'[m] = excused[m] /\ outbox' = outbox
    BY <1>4 DEF FetchNew
  <2>4. Waiting(m)' = Waiting(m)
    BY <2>2, <2>3, SameWaiting
  <2>5. f \notin Holders(m) /\ f \notin Holders(m)'
    BY <2>2 DEF Holders
  <2>6. copies'[m] + (IF f \in Holders(m)' THEN 1 ELSE 0) + Waiting(m)'
          <= copies[m] + (IF f \in Holders(m) THEN 1 ELSE 0) + Waiting(m) + (excused'[m] - excused[m])
    BY <1>1, <1>2, <2>3, <2>4, <2>5
  <2> QED
    BY <1>3, <2>2, <2>6, FlushBudget
<1>5. CASE ReadOutbox(f)
  <2>1. outbox \in SUBSET Mails
    BY <1>1 DEF OutboxTypeOK
  <2>2. flush[f].list = {} /\ flush'[f].list = outbox /\ flush'[f].pc # "posted"
        /\ \A g \in Flushes : g # f => flush'[g] = flush[g]
    BY <1>1, <1>5, <2>1, Proceeded DEF ReadOutbox, FlushShape
  <2>3. /\ copies'[m] = copies[m] /\ outbox' = outbox
        /\ excused'[m] = excused[m] + IF m \in outbox /\ InHand(m) THEN 1 ELSE 0
    BY <1>5 DEF ReadOutbox
  <2>4. f \notin Holders(m) /\ (f \in Holders(m)' <=> m \in outbox)
    BY <2>2 DEF Holders
  <2>5. CASE m \notin outbox
    <3>1. Waiting(m) = 0 /\ Waiting(m)' = 0 /\ excused'[m] = excused[m]
      BY <1>1, <2>3, <2>5 DEF Waiting
    <3>2. copies'[m] + (IF f \in Holders(m)' THEN 1 ELSE 0) + Waiting(m)'
            <= copies[m] + (IF f \in Holders(m) THEN 1 ELSE 0) + Waiting(m) + (excused'[m] - excused[m])
      BY <1>1, <2>3, <2>4, <2>5, <3>1
    <3> QED
      BY <1>3, <2>2, <3>2, FlushBudget
  <2>6. CASE m \in outbox
    <3>1. Waiting(m)' = 0
      BY <2>2, <2>6 DEF Waiting, InHand
    <3>2. Waiting(m) + (excused'[m] - excused[m]) = 1
      BY <1>1, <2>3, <2>6 DEF Waiting
    <3>3. copies'[m] + (IF f \in Holders(m)' THEN 1 ELSE 0) + Waiting(m)'
            <= copies[m] + (IF f \in Holders(m) THEN 1 ELSE 0) + Waiting(m) + (excused'[m] - excused[m])
      BY <1>1, <1>2, <2>3, <2>4, <2>6, <3>1, <3>2
    <3> QED
      BY <1>3, <2>2, <3>3, FlushBudget
  <2> QED
    BY <2>5, <2>6
<1>6. CASE SendNext(f)
  <2>1. PICK n \in flush[f].list : Proceed(f, "post", flush[f].list, n)
    BY <1>6 DEF SendNext
  <2>2. flush[f].list \in SUBSET Mails /\ n \in Mails
    BY <1>1, <2>1 DEF FlushType
  <2>3. flush[f].pc = "next" /\ flush'[f].list = flush[f].list /\ flush'[f].pc # "posted"
        /\ \A g \in Flushes : g # f => flush'[g] = flush[g]
    BY <1>1, <1>6, <2>1, <2>2, Proceeded DEF SendNext
  <2>4. copies'[m] = copies[m] /\ excused'[m] = excused[m] /\ outbox' = outbox
    BY <1>6 DEF SendNext
  <2>5. Waiting(m)' = Waiting(m)
    BY <2>3, <2>4, SameWaiting
  <2>6. f \in Holders(m)' <=> f \in Holders(m)
    BY <2>3 DEF Holders
  <2>7. copies'[m] + (IF f \in Holders(m)' THEN 1 ELSE 0) + Waiting(m)'
          <= copies[m] + (IF f \in Holders(m) THEN 1 ELSE 0) + Waiting(m) + (excused'[m] - excused[m])
    BY <1>1, <1>2, <2>4, <2>5, <2>6
  <2> QED
    BY <1>3, <2>3, <2>7, FlushBudget
<1>7. CASE Accept(f)
  <2>1. flush'[f] = [flush[f] EXCEPT !.pc = "posted"] /\ \A g \in Flushes : g # f => flush'[g] = flush[g]
    BY <1>1, <1>7 DEF Accept
  <2>2. /\ flush[f].pc = "post" /\ flush'[f].pc = "posted" /\ flush'[f].list = flush[f].list
        /\ flush'[f].at = flush[f].at /\ flush[f].at \in flush[f].list
    BY <1>1, <1>7, <2>1 DEF Accept, FlushShape, FlushType
  <2>3. excused'[m] = excused[m] /\ outbox' = outbox
    BY <1>7 DEF Accept
  <2>4. Waiting(m)' = Waiting(m)
    BY <2>1, <2>2, <2>3, SameWaiting
  <2>5. f \in Holders(m) <=> m \in flush[f].list
    BY <2>2 DEF Holders
  <2>6. f \in Holders(m)' <=> m \in flush[f].list /\ m # flush[f].at
    BY <2>2 DEF Holders
  <2>7. copies'[m] = copies[m] + IF m = flush[f].at THEN 1 ELSE 0
    BY <1>1, <1>7 DEF Accept, Another
  <2>8. copies'[m] + (IF f \in Holders(m)' THEN 1 ELSE 0) + Waiting(m)'
          <= copies[m] + (IF f \in Holders(m) THEN 1 ELSE 0) + Waiting(m) + (excused'[m] - excused[m])
    BY <1>1, <1>2, <2>2, <2>3, <2>4, <2>5, <2>6, <2>7
  <2> QED
    BY <1>3, <2>1, <2>8, FlushBudget
<1>8. CASE Fail(f) \/ Remove(f)
  <2>1. Rest(f) \in SUBSET Mails
    BY <1>1 DEF Rest, FlushType
  <2>2. /\ flush'[f].list = flush[f].list \ {flush[f].at} /\ flush'[f].pc # "posted"
        /\ \A g \in Flushes : g # f => flush'[g] = flush[g]
    BY <1>1, <1>8, <2>1, Proceeded DEF Fail, Remove, Rest
  <2>3. copies'[m] = copies[m]
    BY <1>8 DEF Fail, Remove
  <2>4. flush[f].at \in flush[f].list
    BY <1>1, <1>8 DEF Fail, Remove, FlushShape
  <2>5. CASE m # flush[f].at
    <3>1. excused'[m] = excused[m] /\ (m \in outbox' <=> m \in outbox)
      BY <1>1, <1>8, <2>5 DEF Fail, Remove, Left, Another
    <3>2. Waiting(m)' = Waiting(m)
      BY <2>2, <2>5, <3>1, SameWaiting
    <3>3. f \in Holders(m)' <=> f \in Holders(m)
      BY <2>2, <2>5 DEF Holders
    <3>4. copies'[m] + (IF f \in Holders(m)' THEN 1 ELSE 0) + Waiting(m)'
            <= copies[m] + (IF f \in Holders(m) THEN 1 ELSE 0) + Waiting(m) + (excused'[m] - excused[m])
      BY <1>1, <1>2, <2>3, <3>1, <3>2, <3>3
    <3> QED
      BY <1>3, <2>2, <3>4, FlushBudget
  <2>6. CASE m = flush[f].at
    <3>1. Waiting(m) = 0 /\ f \notin Holders(m)'
      BY <2>2, <2>4, <2>6 DEF Waiting, InHand, Holders
    <3>2. CASE Fail(f)
      <4>1. CASE flush[f].pc = "posted"
        <5>1. excused'[m] = excused[m] + 1
          BY <1>1, <2>6, <3>2, <4>1 DEF Fail, Another
        <5>2. f \notin Holders(m)
          BY <2>6, <4>1 DEF Holders
        <5>3. copies'[m] + (IF f \in Holders(m)' THEN 1 ELSE 0) + Waiting(m)'
                <= copies[m] + (IF f \in Holders(m) THEN 1 ELSE 0) + Waiting(m) + (excused'[m] - excused[m])
          BY <1>1, <1>2, <2>3, <3>1, <5>1, <5>2
        <5> QED
          BY <1>3, <2>2, <5>3, FlushBudget
      <4>2. CASE flush[f].pc # "posted"
        <5>1. excused'[m] = excused[m]
          BY <3>2, <4>2 DEF Fail
        <5>2. f \in Holders(m)
          BY <2>4, <2>6, <4>2 DEF Holders
        <5>3. copies'[m] + (IF f \in Holders(m)' THEN 1 ELSE 0) + Waiting(m)'
                <= copies[m] + (IF f \in Holders(m) THEN 1 ELSE 0) + Waiting(m) + (excused'[m] - excused[m])
          BY <1>1, <1>2, <2>3, <3>1, <5>1, <5>2
        <5> QED
          BY <1>3, <2>2, <5>3, FlushBudget
      <4> QED
        BY <4>1, <4>2
    <3>3. CASE Remove(f)
      <4>1. excused'[m] = excused[m] /\ m \notin outbox'
        BY <2>6, <3>3 DEF Remove, Left
      <4>2. Waiting(m)' = 0 /\ f \notin Holders(m)
        BY <2>6, <3>3, <4>1 DEF Remove, Waiting, Holders
      <4>3. copies'[m] + (IF f \in Holders(m)' THEN 1 ELSE 0) + Waiting(m)'
              <= copies[m] + (IF f \in Holders(m) THEN 1 ELSE 0) + Waiting(m) + (excused'[m] - excused[m])
        BY <1>1, <2>3, <3>1, <4>1, <4>2
      <4> QED
        BY <1>3, <2>2, <4>3, FlushBudget
    <3> QED
      BY <1>8, <3>2, <3>3
  <2> QED
    BY <2>5, <2>6
<1> QED
  BY <1>4, <1>5, <1>6, <1>7, <1>8 DEF Flushing

\* A tab that closes takes its flushes with it: one that held an email, or had posted it,
\* makes room for the email to wait again.
LEMMA ClosingBudget ==
  ASSUME BudgetInv, OutboxTypeOK', NEW m \in Mails, NEW t \in Tabs, CloseTab(t)
  PROVE  Spent(m)' <= 1 + excused'[m]
<1> DEFINE P == {f \in Flushes : flush[f].tab = t /\ flush[f].pc = "posted" /\ flush[f].at = m}
<1>1. /\ excused \in [Mails -> Nat] /\ flush \in [Flushes -> FlushType] /\ mail \in [Mails -> MailType]
      /\ copies[m] \in Nat
  BY Types DEF BudgetInv, ShapeInv, OutboxTypeOK
<1>2. IsFiniteSet(P) /\ Cardinality(P) \in Nat
  BY OutboxAssumption, FS_Subset, FS_CardinalityType
<1>3. copies'[m] = copies[m] /\ outbox' = outbox /\ excused'[m] = excused[m] + Cardinality(P)
  BY <1>1 DEF CloseTab
<1>4. \A f \in Flushes : flush'[f] = IF flush[f].tab = t THEN NoFlush ELSE flush[f]
  BY DEF CloseTab
<1>5. Holders(m)' \subseteq Holders(m)
  BY <1>4 DEF Holders, NoFlush
<1>6. Cardinality(Holders(m)') \in Nat /\ Cardinality(Holders(m)) \in Nat
      /\ Cardinality(Holders(m)') <= Cardinality(Holders(m))
  BY <1>5, HoldersFinite, FewerElements
<1>7. Writing(m) \in {0, 1} /\ Writing(m)' \in {0, 1} /\ Writing(m)' <= Writing(m)
  <2>1. mail'[m] = mail[m] \/ mail'[m].pc = "gone"
    BY <1>1 DEF CloseTab, MailType
  <2> QED
    BY <2>1 DEF Writing
<1>8. Waiting(m) \in {0, 1} /\ Waiting(m)' \in {0, 1}
  BY DEF Waiting
<1>9. Cardinality(Holders(m)') + Waiting(m)' <= Cardinality(Holders(m)) + Waiting(m) + Cardinality(P)
  <2>1. CASE Waiting(m)' = 0 \/ Waiting(m) = 1
    BY <1>2, <1>6, <1>8, <2>1
  <2>2. CASE Waiting(m)' = 1 /\ Waiting(m) = 0
    <3>1. InHand(m) /\ ~InHand(m)'
      BY <1>3, <2>2 DEF Waiting
    <3>2. PICK f \in Flushes : m \in flush[f].list /\ m \notin flush'[f].list
      BY <3>1 DEF InHand
    <3>3. flush[f].tab = t
      BY <1>4, <3>2
    <3>4. CASE flush[f].pc = "posted" /\ flush[f].at = m
      <4>1. P # {}
        BY <3>3, <3>4
      <4>2. Cardinality(P) # 0
        BY <1>2, <4>1, FS_EmptySet
      <4> QED
        BY <1>2, <1>6, <2>2, <4>2
    <3>5. CASE ~(flush[f].pc = "posted" /\ flush[f].at = m)
      <4>1. f \in Holders(m) /\ f \notin Holders(m)'
        BY <3>2, <3>5 DEF Holders
      <4>2. Cardinality(Holders(m)') < Cardinality(Holders(m))
        BY <1>5, <4>1, HoldersFinite, FewerElements
      <4> QED
        BY <1>2, <1>6, <2>2, <4>2
    <3> QED
      BY <3>4, <3>5
  <2> QED
    BY <1>8, <2>1, <2>2
<1>10. copies[m] + Cardinality(Holders(m)) + Waiting(m) + Writing(m) <= 1 + excused[m]
  BY DEF BudgetInv, Spent
<1>11. excused[m] \in Nat
  BY <1>1
<1>12. copies[m] + Cardinality(Holders(m)') + Waiting(m)' + Writing(m)' <= 1 + (excused[m] + Cardinality(P))
  <2> HIDE DEF P
  <2> QED
    BY <1>1, <1>2, <1>6, <1>7, <1>8, <1>9, <1>10, <1>11
<1> QED
  BY <1>3, <1>12 DEF Spent

LEMMA BudgetStep == BudgetInv /\ [OutboxNext]_outboxVars => BudgetInv'
<1> SUFFICES ASSUME BudgetInv, [OutboxNext]_outboxVars, NEW m \in Mails PROVE Spent(m)' <= 1 + excused'[m]
  BY ShapeStep DEF BudgetInv
<1>1. OutboxTypeOK' /\ OutboxTypeOK
  BY OutboxTypeStep DEF BudgetInv, ShapeInv
<1>2. ASSUME UNCHANGED <<outbox, mail, flush, copies, excused>> PROVE Spent(m)' <= 1 + excused'[m]
  <2>1. Spent(m)' = Spent(m)
    BY <1>2 DEF Spent, Holders, Waiting, Writing, InHand
  <2> QED
    BY <1>2, <2>1 DEF BudgetInv
<1>3. ASSUME NEW t \in Tabs, Hear(t) \/ SyncNow(t) PROVE Spent(m)' <= 1 + excused'[m]
  <2>1. UNCHANGED <<outbox, mail, copies, excused>>
    BY <1>3 DEF Hear, SyncNow
  <2>2. UNCHANGED flush \/ StartFlush(t, "read", FALSE) \/ StartFlush(t, "fetch", TRUE)
    BY <1>3 DEF Hear, SyncNow
  <2>3. ASSUME NEW f \in Flushes, flush[f].pc = "idle", flush'[f].list = {},
               \A g \in Flushes : g # f => flush'[g] = flush[g]
        PROVE  Spent(m)' <= 1 + excused'[m]
    <3>1. flush[f].list = {}
      BY <2>3 DEF BudgetInv, ShapeInv, FlushShape
    <3>2. \A g \in Flushes : (g \in Holders(m)' <=> g \in Holders(m)) /\ (m \in flush'[g].list <=> m \in flush[g].list)
      BY <2>3, <3>1 DEF Holders
    <3>3. Holders(m)' = Holders(m) /\ (InHand(m)' <=> InHand(m))
      BY <3>2 DEF Holders, InHand
    <3>4. Spent(m)' = Spent(m)
      BY <2>1, <3>3 DEF Spent, Waiting, Writing
    <3> QED
      BY <2>1, <3>4 DEF BudgetInv
  <2>4. CASE StartFlush(t, "read", FALSE) \/ StartFlush(t, "fetch", TRUE)
    BY <1>1, <2>3, <2>4, Started
  <2> QED
    BY <1>2, <2>1, <2>2, <2>4
<1>4. ASSUME NEW t \in Tabs, CloseTab(t) PROVE Spent(m)' <= 1 + excused'[m]
  BY <1>1, <1>4, ClosingBudget
<1>5. ASSUME NEW f \in Flushes, Flushing(f) PROVE Spent(m)' <= 1 + excused'[m]
  BY <1>1, <1>5, FlushingBudget
<1>6. ASSUME NEW n \in Mails, Composing(n) PROVE Spent(m)' <= 1 + excused'[m]
  BY <1>1, <1>6, ComposingBudget
<1> QED
  BY <1>2, <1>3, <1>4, <1>5, <1>6 DEF OutboxNext, Toggle, OpenTab, outboxVars

\* The server gets an email once, and once more for every answer that was lost, tab that
\* closed too early and flush that picked up mail another one had in hand; never otherwise.
THEOREM NoUnexcusedCopy == OutboxSpec => []CopiesAreExcused
<1>1. BudgetInv => CopiesAreExcused
  <2> SUFFICES ASSUME BudgetInv, NEW m \in Mails PROVE copies[m] <= 1 + excused[m]
    BY DEF CopiesAreExcused
  <2>1. copies[m] \in Nat /\ excused[m] \in Nat
    BY Types DEF BudgetInv, ShapeInv
  <2>2. Cardinality(Holders(m)) \in Nat /\ Waiting(m) \in Nat /\ Writing(m) \in Nat
    BY HoldersFinite DEF Waiting, Writing
  <2>3. copies[m] + Cardinality(Holders(m)) + Waiting(m) + Writing(m) <= 1 + excused[m]
    BY DEF BudgetInv, Spent
  <2> QED
    BY <2>1, <2>2, <2>3
<1> QED
  BY <1>1, BudgetInit, BudgetStep, PTL DEF OutboxSpec

-----------------------------------------------------------------------------
(***************************************************************************)
(* WebhookDispatcher                                                       *)
(***************************************************************************)

HookStates  == {"on", "off", "deleted"}
JobType  == [st : {"new", "adding", "waiting", "active", "delayed", "failed", "done"},
             made : 0 .. HookAttempts, stalls : 0 .. (HookStalls + 1), owner : Slots \cup {Nobody}]
RunType  == [pc : {"free", "fetch", "post", "insert", "judge", "deactivate", "end"},
             event : Events \cup {Nobody}, at : Nat, ok : BOOLEAN]
OpenStates == {"new", "adding", "waiting", "active", "delayed"}

\* A job that is not settled has attempts and stalls left.
JobBounds ==
  \A e \in Events : delivery[e].st \in OpenStates =>
    delivery[e].made < HookAttempts /\ delivery[e].stalls <= HookStalls

\* A slot runs the job that is active in its name, and no other slot runs that job.
RunsItsJob ==
  \A s \in Slots :
    \/ slot[s].pc = "free" /\ slot[s].event = Nobody
    \/ /\ slot[s].pc # "free" /\ slot[s].event \in Events
       /\ delivery[slot[s].event].st = "active" /\ delivery[slot[s].event].owner = s

RunInv == HookTypeOK /\ JobBounds /\ RunsItsJob

LEMMA HookTypes ==
  ASSUME HookTypeOK
  PROVE  /\ hook \in HookStates /\ delivery \in [Events -> JobType] /\ slot \in [Slots -> RunType]
         /\ got \in [Events -> Nat] /\ missed \subseteq Events /\ hookFaults \in 0 .. HookMaxFaults
         /\ DOMAIN rows \subseteq Nat /\ (\A t \in DOMAIN rows : rows[t] \in BOOLEAN)
         /\ clock \in Nat /\ switches \in Nat
BY DEF HookTypeOK, HookStates, JobType, RunType

\* Everything but the record of deliveries, the clock and the switches.
LEMMA HookTyped ==
  ASSUME hook' \in HookStates, delivery' \in [Events -> JobType], slot' \in [Slots -> RunType],
         got' \in [Events -> Nat], missed' \subseteq Events, hookFaults' \in 0 .. HookMaxFaults,
         DOMAIN rows' \subseteq Nat, \A t \in DOMAIN rows' : rows'[t] \in BOOLEAN,
         clock' \in Nat, switches' \in Nat
  PROVE  HookTypeOK'
BY DEF HookTypeOK, HookStates, JobType, RunType

LEMMA RunInit == HookInit => RunInv
<1> SUFFICES ASSUME HookInit PROVE RunInv
  OBVIOUS
<1> USE HookAssumption, SlotAssumption DEF HookInit
<1>1. HookTypeOK
  BY DEF HookTypeOK, FreeSlot
<1>2. JobBounds
  BY DEF JobBounds
<1>3. RunsItsJob
  BY DEF RunsItsJob, FreeSlot
<1> QED
  BY <1>1, <1>2, <1>3 DEF RunInv

\* A job that moves to st keeps its attempts, its stalls and its owner.
LEMMA Moving ==
  ASSUME RunInv, NEW e \in Events, NEW st \in {"adding", "waiting", "done", "failed"},
         delivery[e].st \in OpenStates \ {"active"}, Move(e, st), UNCHANGED slot
  PROVE  delivery' \in [Events -> JobType] /\ JobBounds' /\ RunsItsJob'
<1>1. delivery \in [Events -> JobType]
  BY HookTypes DEF RunInv
<1>2. delivery' = [delivery EXCEPT ![e] = [delivery[e] EXCEPT !.st = st]]
  BY <1>1 DEF Move
<1>3. [delivery[e] EXCEPT !.st = st] \in JobType
  BY <1>1 DEF JobType
<1>4. delivery' \in [Events -> JobType]
  BY <1>1, <1>2, <1>3
<1>5. /\ delivery'[e].made = delivery[e].made /\ delivery'[e].stalls = delivery[e].stalls
      /\ \A d \in Events : d # e => delivery'[d] = delivery[d]
  BY <1>1, <1>2 DEF JobType
<1>6. JobBounds'
  BY <1>5 DEF RunInv, JobBounds
<1>7. RunsItsJob'
  BY <1>5 DEF RunInv, RunsItsJob
<1> QED
  BY <1>4, <1>6, <1>7

\* A run goes on, or ends.
LEMMA Running ==
  ASSUME RunInv, NEW s \in Slots, slot[s].pc # "free", UNCHANGED delivery,
         NEW pc \in {"fetch", "post", "insert", "judge", "deactivate", "end"}, NEW ok \in BOOLEAN, NEW at \in Nat,
         slot' = [slot EXCEPT ![s] = [slot[s] EXCEPT !.pc = pc, !.ok = ok, !.at = at]]
  PROVE  /\ slot' \in [Slots -> RunType] /\ JobBounds' /\ RunsItsJob'
         /\ slot'[s].pc = pc /\ slot'[s].ok = ok /\ slot'[s].event = slot[s].event
         /\ \A r \in Slots : r # s => slot'[r] = slot[r]
<1>1. slot \in [Slots -> RunType]
  BY HookTypes DEF RunInv
<1>2. [slot[s] EXCEPT !.pc = pc, !.ok = ok, !.at = at] \in RunType
  BY <1>1 DEF RunType
<1>3. slot' \in [Slots -> RunType]
  BY <1>1, <1>2
<1>4. /\ slot'[s].pc = pc /\ slot'[s].ok = ok /\ slot'[s].event = slot[s].event
      /\ \A r \in Slots : r # s => slot'[r] = slot[r]
  BY <1>1 DEF RunType
<1>5. RunsItsJob'
  BY <1>4 DEF RunInv, RunsItsJob
<1> QED
  BY <1>3, <1>4, <1>5 DEF RunInv, JobBounds

\* The steps of processWebhookJob, and its ends, in those terms.
RunsOn(s, pc, ok, at) == slot' = [slot EXCEPT ![s] = [slot[s] EXCEPT !.pc = pc, !.ok = ok, !.at = at]]

LEMMA GoingOn ==
  ASSUME RunInv, NEW s \in Slots
  PROVE  /\ \A pc : Go(s, pc) => RunsOn(s, pc, slot[s].ok, slot[s].at)
         /\ Return(s) => RunsOn(s, "end", TRUE, slot[s].at)
         /\ Raise(s)  => RunsOn(s, "end", FALSE, slot[s].at)
         /\ slot[s].ok \in BOOLEAN /\ slot[s].at \in Nat
<1>1. slot \in [Slots -> RunType]
  BY HookTypes DEF RunInv
<1>2. slot[s] = [pc |-> slot[s].pc, event |-> slot[s].event, at |-> slot[s].at, ok |-> slot[s].ok]
  BY <1>1 DEF RunType
<1> QED
  BY ZenonT(40), <1>1, <1>2 DEF Go, Return, Raise, RunsOn, RunType

\* The step of a run, whichever it is: where it leads, and with which result.
StepOf(s) == Process(s) \/ HookThrow(s)

LEMMA RunSteps ==
  ASSUME RunInv, NEW s \in Slots, StepOf(s), ~EndRun(s)
  PROVE  /\ slot[s].pc \notin {"free", "end"} /\ UNCHANGED delivery
         /\ \E pc \in {"post", "insert", "judge", "deactivate", "end"}, ok \in BOOLEAN, at \in Nat :
              RunsOn(s, pc, ok, at)
<1>1. slot \in [Slots -> RunType] /\ clock \in Nat
  BY HookTypes DEF RunInv
<1>2. CASE FetchHook(s) \/ Judge(s)
  BY <1>2, GoingOn DEF FetchHook, Judge
<1>3. CASE Post(s)
  <2>1. slot[s].pc = "post" /\ UNCHANGED delivery
    BY <1>3 DEF Post
  <2>2. PICK ok \in BOOLEAN : slot' = [slot EXCEPT ![s].pc = "insert", ![s].ok = ok, ![s].at = clock]
    BY <1>3 DEF Post
  <2>3. slot' = [slot EXCEPT ![s] = [slot[s] EXCEPT !.pc = "insert", !.ok = ok, !.at = clock]]
    BY <1>1, <2>2
  <2> QED
    BY <1>1, <2>1, <2>3 DEF RunsOn
<1>4. CASE Insert(s)
  <2>1. slot[s].pc = "insert" /\ UNCHANGED delivery
    BY <1>4 DEF Insert
  <2>2. Return(s) \/ Go(s, "judge") \/ Raise(s)
    BY <1>4 DEF Insert
  <2> QED
    BY <2>1, <2>2, GoingOn
<1>5. CASE Deactivate(s)
  BY <1>5, GoingOn DEF Deactivate
<1>6. CASE HookThrow(s)
  BY <1>6, GoingOn DEF HookThrow
<1> QED
  BY <1>2, <1>3, <1>4, <1>5, <1>6 DEF StepOf, Process

LEMMA EndRunStep ==
  ASSUME RunInv, NEW s \in Slots, EndRun(s)
  PROVE  /\ delivery' \in [Events -> JobType] /\ slot' \in [Slots -> RunType] /\ JobBounds' /\ RunsItsJob'
         /\ slot[s].event \in Events
         /\ delivery'[slot[s].event].st = IF slot[s].ok THEN "done"
                 ELSE IF delivery[slot[s].event].made + 1 < HookAttempts THEN "delayed" ELSE "failed"
         /\ \A d \in Events : d # slot[s].event => delivery'[d] = delivery[d]
         /\ slot'[s] = FreeSlot /\ \A r \in Slots : r # s => slot'[r] = slot[r]
<1> DEFINE e == slot[s].event
           j == delivery[e]
<1>1. delivery \in [Events -> JobType] /\ slot \in [Slots -> RunType]
  BY HookTypes DEF RunInv
<1>2. e \in Events /\ j.st = "active" /\ j.owner = s
  BY DEF EndRun, RunInv, RunsItsJob
<1>3. j.made < HookAttempts /\ j.stalls <= HookStalls /\ j \in JobType
  BY <1>1, <1>2 DEF RunInv, JobBounds, OpenStates
<1>4. Moved(s) = IF slot[s].ok THEN [j EXCEPT !.st = "done", !.owner = Nobody]
                 ELSE [j EXCEPT !.st = IF j.made + 1 < HookAttempts THEN "delayed" ELSE "failed",
                                !.owner = Nobody, !.made = @ + 1]
  BY <1>2 DEF Moved
<1>5. j.made \in Nat /\ j.made + 1 \in 0 .. HookAttempts
  BY <1>3, HookAssumption DEF JobType
<1>6. /\ Moved(s) \in JobType
      /\ Moved(s).st = IF slot[s].ok THEN "done" ELSE IF j.made + 1 < HookAttempts THEN "delayed" ELSE "failed"
      /\ Moved(s).made = IF slot[s].ok THEN j.made ELSE j.made + 1
      /\ Moved(s).stalls = j.stalls
  <2>1. CASE slot[s].ok
    BY ZenonT(40), <1>3, <1>4, <2>1, SlotAssumption DEF JobType
  <2>2. CASE ~slot[s].ok
    BY ZenonT(40), <1>3, <1>4, <1>5, <2>2, SlotAssumption DEF JobType
  <2> QED
    BY <2>1, <2>2
<1>7. delivery' = [delivery EXCEPT ![e] = Moved(s)] /\ slot' = [slot EXCEPT ![s] = FreeSlot]
  BY DEF EndRun
<1>8. delivery'[e] = Moved(s) /\ \A d \in Events : d # e => delivery'[d] = delivery[d]
  BY <1>1, <1>2, <1>7
<1>9. slot'[s] = FreeSlot /\ \A r \in Slots : r # s => slot'[r] = slot[r]
  BY <1>1, <1>7
<1>10. delivery' \in [Events -> JobType] /\ slot' \in [Slots -> RunType]
  BY <1>1, <1>6, <1>7 DEF FreeSlot, RunType
<1>11. JobBounds'
  <2>1. ASSUME NEW d \in Events, delivery'[d].st \in OpenStates
        PROVE  delivery'[d].made < HookAttempts /\ delivery'[d].stalls <= HookStalls
    <3>1. CASE d = e
      BY <1>3, <1>6, <1>8, <2>1, <3>1 DEF OpenStates
    <3>2. CASE d # e
      BY <1>8, <2>1, <3>2 DEF RunInv, JobBounds
    <3> QED
      BY <3>1, <3>2
  <2> QED
    BY <2>1 DEF JobBounds
<1>12. RunsItsJob'
  <2>1. ASSUME NEW r \in Slots, r # s, slot[r].pc # "free" PROVE slot[r].event # e
    BY <1>2, <2>1 DEF RunInv, RunsItsJob
  <2> QED
    BY <1>8, <1>9, <2>1 DEF RunInv, RunsItsJob, FreeSlot
<1> QED
  BY <1>2, <1>6, <1>8, <1>9, <1>10, <1>11, <1>12

LEMMA TakeStep ==
  ASSUME RunInv, NEW s \in Slots, NEW e \in Events, Take(s, e)
  PROVE  /\ delivery' \in [Events -> JobType] /\ slot' \in [Slots -> RunType] /\ JobBounds' /\ RunsItsJob'
         /\ delivery'[e].st = "active" /\ \A d \in Events : d # e => delivery'[d] = delivery[d]
         /\ slot'[s] = [FreeSlot EXCEPT !.pc = "fetch", !.event = e] /\ \A r \in Slots : r # s => slot'[r] = slot[r]
<1>1. delivery \in [Events -> JobType] /\ slot \in [Slots -> RunType]
  BY HookTypes DEF RunInv
<1>2. /\ delivery' = [delivery EXCEPT ![e] = [delivery[e] EXCEPT !.st = "active", !.owner = s]]
      /\ slot' = [slot EXCEPT ![s] = [FreeSlot EXCEPT !.pc = "fetch", !.event = e]]
  BY <1>1 DEF Take
<1>3. [delivery[e] EXCEPT !.st = "active", !.owner = s] \in JobType
  BY <1>1 DEF JobType
<1>4. [FreeSlot EXCEPT !.pc = "fetch", !.event = e] \in RunType
  BY DEF FreeSlot, RunType
<1>5. delivery' \in [Events -> JobType] /\ slot' \in [Slots -> RunType]
  BY <1>1, <1>2, <1>3, <1>4
<1>6. /\ delivery'[e].st = "active" /\ delivery'[e].owner = s
      /\ delivery'[e].made = delivery[e].made /\ delivery'[e].stalls = delivery[e].stalls
      /\ \A d \in Events : d # e => delivery'[d] = delivery[d]
  BY <1>1, <1>2 DEF JobType
<1>7. /\ slot'[s] = [FreeSlot EXCEPT !.pc = "fetch", !.event = e]
      /\ \A r \in Slots : r # s => slot'[r] = slot[r]
  BY <1>1, <1>2
<1>8. JobBounds'
  BY <1>6 DEF RunInv, JobBounds, Take, OpenStates
<1>9. RunsItsJob'
  <2>1. ASSUME NEW r \in Slots, slot[r].pc # "free" PROVE slot[r].event # e
    BY <2>1 DEF RunInv, RunsItsJob, Take
  <2>2. slot'[s].pc = "fetch" /\ slot'[s].event = e
    BY <1>7 DEF FreeSlot
  <2>3. ASSUME NEW r \in Slots, r # s
        PROVE  \/ slot'[r].pc = "free" /\ slot'[r].event = Nobody
               \/ /\ slot'[r].pc # "free" /\ slot'[r].event \in Events
                  /\ delivery'[slot'[r].event].st = "active" /\ delivery'[slot'[r].event].owner = r
    BY <1>6, <1>7, <2>1, <2>3 DEF RunInv, RunsItsJob
  <2> QED
    BY <1>6, <2>2, <2>3 DEF RunsItsJob
<1> QED
  BY <1>5, <1>6, <1>7, <1>8, <1>9

LEMMA StalledStep ==
  ASSUME RunInv, NEW e \in Events, FindStalled(e)
  PROVE  /\ delivery' \in [Events -> JobType] /\ JobBounds' /\ RunsItsJob'
         /\ delivery[e].st = "active" /\ delivery'[e].st \in {"waiting", "failed"}
         /\ \A d \in Events : d # e => delivery'[d] = delivery[d]
<1> DEFINE j == delivery[e]
           k == [j EXCEPT !.st = IF j.stalls < HookStalls THEN "waiting" ELSE "failed",
                          !.owner = Nobody, !.stalls = @ + 1]
<1>1. delivery \in [Events -> JobType] /\ slot \in [Slots -> RunType] /\ j.st = "active"
  BY HookTypes DEF RunInv, FindStalled
<1>2. j.made < HookAttempts /\ j.stalls <= HookStalls /\ j \in JobType
  BY <1>1 DEF RunInv, JobBounds, OpenStates
<1>3. j.stalls \in Nat /\ j.stalls + 1 \in 0 .. (HookStalls + 1)
  BY <1>2, HookAssumption DEF JobType
<1>4. /\ k \in JobType /\ k.made = j.made /\ k.stalls = j.stalls + 1
      /\ k.st = IF j.stalls < HookStalls THEN "waiting" ELSE "failed"
  BY <1>2, <1>3, SlotAssumption DEF JobType
<1>5. delivery' = [delivery EXCEPT ![e] = k]
  BY DEF FindStalled
<1>6. delivery'[e] = k /\ \A d \in Events : d # e => delivery'[d] = delivery[d]
  BY <1>1, <1>5
<1>7. delivery' \in [Events -> JobType]
  BY <1>1, <1>4, <1>5
<1>6a. /\ delivery'[e].made = j.made /\ delivery'[e].stalls = j.stalls + 1
       /\ delivery'[e].st = IF j.stalls < HookStalls THEN "waiting" ELSE "failed"
  BY <1>4, <1>6
<1>8. JobBounds'
  <2>1. ASSUME NEW d \in Events, delivery'[d].st \in OpenStates
        PROVE  delivery'[d].made < HookAttempts /\ delivery'[d].stalls <= HookStalls
    <3>1. CASE d = e
      <4>1. j.stalls < HookStalls
        BY <1>6a, <2>1, <3>1 DEF OpenStates
      <4>2. j.stalls + 1 <= HookStalls
        BY <1>3, <4>1, HookAssumption
      <4> QED
        BY <1>2, <1>6a, <3>1, <4>2
    <3>2. CASE d # e
      BY <1>6, <2>1, <3>2 DEF RunInv, JobBounds
    <3> QED
      BY <3>1, <3>2
  <2> QED
    BY <2>1 DEF JobBounds
<1>9. RunsItsJob'
  <2>1. UNCHANGED slot
    BY DEF FindStalled
  <2>2. ASSUME NEW r \in Slots, slot[r].pc # "free" PROVE slot[r].event # e
    BY <2>2 DEF RunInv, RunsItsJob, FindStalled
  <2> QED
    BY <1>6, <2>1, <2>2 DEF RunInv, RunsItsJob
<1> QED
  BY <1>1, <1>4, <1>6, <1>7, <1>8, <1>9

LEMMA CrashStep ==
  ASSUME RunInv, NEW s \in Slots, HookCrash(s)
  PROVE  slot' \in [Slots -> RunType] /\ RunsItsJob' /\ slot'[s] = FreeSlot /\ \A r \in Slots : r # s => slot'[r] = slot[r]
<1>1. slot \in [Slots -> RunType]
  BY HookTypes DEF RunInv
<1>2. slot' = [slot EXCEPT ![s] = FreeSlot]
  BY DEF HookCrash
<1>3. slot'[s] = FreeSlot /\ \A r \in Slots : r # s => slot'[r] = slot[r]
  BY <1>1, <1>2
<1>4. slot' \in [Slots -> RunType]
  BY <1>1, <1>2 DEF FreeSlot, RunType
<1>5. RunsItsJob'
  BY <1>3 DEF RunInv, RunsItsJob, HookCrash, FreeSlot
<1> QED
  BY <1>3, <1>4, <1>5

-----------------------------------------------------------------------------
(* types *)

\* What is left besides jobs and runs: the webhook, the rows, the histories, the bounds.
LEMMA OtherTypes ==
  ASSUME RunInv, [HookNext]_hookVars
  PROVE  /\ hook' \in HookStates /\ got' \in [Events -> Nat] /\ missed' \subseteq Events
         /\ hookFaults' \in 0 .. HookMaxFaults /\ clock' \in Nat /\ switches' \in Nat
         /\ DOMAIN rows' \subseteq Nat /\ \A t \in DOMAIN rows' : rows'[t] \in BOOLEAN
<1>1. /\ hook \in HookStates /\ got \in [Events -> Nat] /\ missed \subseteq Events
      /\ hookFaults \in 0 .. HookMaxFaults /\ clock \in Nat /\ switches \in Nat
      /\ DOMAIN rows \subseteq Nat /\ \A t \in DOMAIN rows : rows[t] \in BOOLEAN
      /\ slot \in [Slots -> RunType]
  BY HookTypes DEF RunInv
<1>2. HookFault => hookFaults' \in 0 .. HookMaxFaults
  BY <1>1, HookAssumption DEF HookFault
<1>3. UnderWay \subseteq Events
  BY DEF UnderWay
<1>4. \A st \in HookStates : SetHook(st) => hook' \in HookStates /\ missed' \subseteq Events
  BY <1>1, <1>3 DEF SetHook
<1>5. CASE UNCHANGED hookVars
  BY <1>1, <1>5 DEF hookVars
<1>6. ASSUME NEW e \in Events, Select(e) \/ SelectTest(e) \/ Add(e) \/ BackoffOver(e) \/ FindStalled(e)
      PROVE  /\ hook' \in HookStates /\ got' \in [Events -> Nat] /\ missed' \subseteq Events
             /\ hookFaults' \in 0 .. HookMaxFaults /\ clock' \in Nat /\ switches' \in Nat
             /\ DOMAIN rows' \subseteq Nat /\ \A t \in DOMAIN rows' : rows'[t] \in BOOLEAN
  BY <1>1, <1>2, <1>6 DEF Select, SelectTest, Add, BackoffOver, FindStalled
<1>7. ASSUME NEW s \in Slots, (\E e \in Events : Take(s, e)) \/ HookThrow(s) \/ HookCrash(s)
             \/ FetchHook(s) \/ Judge(s) \/ EndRun(s)
      PROVE  /\ hook' \in HookStates /\ got' \in [Events -> Nat] /\ missed' \subseteq Events
             /\ hookFaults' \in 0 .. HookMaxFaults /\ clock' \in Nat /\ switches' \in Nat
             /\ DOMAIN rows' \subseteq Nat /\ \A t \in DOMAIN rows' : rows'[t] \in BOOLEAN
  BY <1>1, <1>2, <1>7 DEF Take, HookThrow, HookCrash, FetchHook, Judge, EndRun
<1>8. ASSUME NEW s \in Slots, Post(s)
      PROVE  /\ hook' \in HookStates /\ got' \in [Events -> Nat] /\ missed' \subseteq Events
             /\ hookFaults' \in 0 .. HookMaxFaults /\ clock' \in Nat /\ switches' \in Nat
             /\ DOMAIN rows' \subseteq Nat /\ \A t \in DOMAIN rows' : rows'[t] \in BOOLEAN
  <2>1. slot[s].event \in Events
    BY <1>8 DEF Post, RunInv, RunsItsJob
  <2>2. got' \in [Events -> Nat]
    BY <1>1, <1>8, <2>1 DEF Post
  <2>3. UNCHANGED <<hook, rows, missed, switches>> /\ clock' = clock + 1
        /\ (UNCHANGED hookFaults \/ HookFault)
    BY <1>8 DEF Post
  <2> QED
    BY <1>1, <1>2, <2>2, <2>3
<1>9. ASSUME NEW s \in Slots, Insert(s)
      PROVE  /\ hook' \in HookStates /\ got' \in [Events -> Nat] /\ missed' \subseteq Events
             /\ hookFaults' \in 0 .. HookMaxFaults /\ clock' \in Nat /\ switches' \in Nat
             /\ DOMAIN rows' \subseteq Nat /\ \A t \in DOMAIN rows' : rows'[t] \in BOOLEAN
  <2>1. slot[s].at \in Nat /\ slot[s].ok \in BOOLEAN
    BY <1>1 DEF RunType
  <2>2. DOMAIN rows' \subseteq Nat /\ \A t \in DOMAIN rows' : rows'[t] \in BOOLEAN
    BY <1>1, <1>9, <2>1 DEF Insert
  <2> QED
    BY <1>1, <1>9, <2>2 DEF Insert
<1>10. ASSUME NEW s \in Slots, Deactivate(s)
       PROVE  /\ hook' \in HookStates /\ got' \in [Events -> Nat] /\ missed' \subseteq Events
              /\ hookFaults' \in 0 .. HookMaxFaults /\ clock' \in Nat /\ switches' \in Nat
              /\ DOMAIN rows' \subseteq Nat /\ \A t \in DOMAIN rows' : rows'[t] \in BOOLEAN
  BY <1>1, <1>4, <1>10 DEF Deactivate, HookStates
<1>11. CASE Switch
  BY <1>1, <1>4, <1>11 DEF Switch, HookStates
<1>12. CASE DeleteHook
  BY <1>1, <1>3, <1>12 DEF DeleteHook, HookStates
<1> QED
  BY <1>5, <1>6, <1>7, <1>8, <1>9, <1>10, <1>11, <1>12 DEF HookNext, Process

LEMMA RunStep == RunInv /\ [HookNext]_hookVars => RunInv'
<1> SUFFICES ASSUME RunInv, [HookNext]_hookVars
             PROVE  delivery' \in [Events -> JobType] /\ slot' \in [Slots -> RunType] /\ JobBounds' /\ RunsItsJob'
  BY OtherTypes, HookTyped DEF RunInv
<1>1. delivery \in [Events -> JobType] /\ slot \in [Slots -> RunType] /\ JobBounds /\ RunsItsJob
  BY HookTypes DEF RunInv
<1>2. ASSUME UNCHANGED <<delivery, slot>>
      PROVE  delivery' \in [Events -> JobType] /\ slot' \in [Slots -> RunType] /\ JobBounds' /\ RunsItsJob'
  BY <1>1, <1>2 DEF JobBounds, RunsItsJob
<1>3. ASSUME NEW e \in Events, Select(e) \/ SelectTest(e) \/ Add(e) \/ BackoffOver(e)
      PROVE  delivery' \in [Events -> JobType] /\ slot' \in [Slots -> RunType] /\ JobBounds' /\ RunsItsJob'
  <2>1. PICK st \in {"adding", "waiting", "done", "failed"} : Move(e, st)
    BY <1>3 DEF Select, SelectTest, Add, BackoffOver
  <2>2. delivery[e].st \in OpenStates \ {"active"} /\ UNCHANGED slot
    BY <1>3 DEF Select, SelectTest, Add, BackoffOver, OpenStates
  <2> QED
    BY <1>1, <2>1, <2>2, Moving
<1>4. ASSUME NEW e \in Events, FindStalled(e)
      PROVE  delivery' \in [Events -> JobType] /\ slot' \in [Slots -> RunType] /\ JobBounds' /\ RunsItsJob'
  BY <1>1, <1>4, StalledStep DEF FindStalled
<1>5. ASSUME NEW s \in Slots, NEW e \in Events, Take(s, e)
      PROVE  delivery' \in [Events -> JobType] /\ slot' \in [Slots -> RunType] /\ JobBounds' /\ RunsItsJob'
  BY <1>5, TakeStep
<1>6. ASSUME NEW s \in Slots, StepOf(s), ~EndRun(s)
      PROVE  delivery' \in [Events -> JobType] /\ slot' \in [Slots -> RunType] /\ JobBounds' /\ RunsItsJob'
  <2>1. slot[s].pc # "free" /\ UNCHANGED delivery
    BY <1>6, RunSteps
  <2>2. PICK pc \in {"post", "insert", "judge", "deactivate", "end"}, ok \in BOOLEAN, at \in Nat : RunsOn(s, pc, ok, at)
    BY <1>6, RunSteps
  <2> QED
    BY ZenonT(40), <1>1, <2>1, <2>2, Running DEF RunsOn
<1>7. ASSUME NEW s \in Slots, EndRun(s)
      PROVE  delivery' \in [Events -> JobType] /\ slot' \in [Slots -> RunType] /\ JobBounds' /\ RunsItsJob'
  BY <1>7, EndRunStep
<1>8. ASSUME NEW s \in Slots, HookCrash(s)
      PROVE  delivery' \in [Events -> JobType] /\ slot' \in [Slots -> RunType] /\ JobBounds' /\ RunsItsJob'
  <2>1. UNCHANGED delivery
    BY <1>8 DEF HookCrash
  <2>2. JobBounds'
    BY <1>1, <2>1 DEF JobBounds
  <2> QED
    BY <1>1, <1>8, <2>1, <2>2, CrashStep
<1> QED
  BY <1>2, <1>3, <1>4, <1>5, <1>6, <1>7, <1>8 DEF HookNext, StepOf, Switch, DeleteHook, hookVars

\* Every variable keeps its shape; a job never exceeds its attempts nor its stalls.
THEOREM HookTypeCorrect == HookSpec => []HookTypeOK
<1>1. RunInv => HookTypeOK
  BY DEF RunInv
<1> QED
  BY <1>1, RunInit, RunStep, PTL DEF HookSpec

-----------------------------------------------------------------------------
(* duplicates *)

Settled(e) == delivery[e].st \in {"done", "failed"}

\* The run of event e has had it accepted, or discards it, and is about to complete its job.
Completing(e) == \E s \in Slots : slot[s].event = e /\ slot[s].pc \in {"insert", "end"} /\ slot[s].ok
Posting(e)    == \E s \in Slots : slot[s].event = e /\ slot[s].pc = "post"

\* The receiver may get event e once more without any fault.
MayCome(e) == ~Settled(e) /\ ~Completing(e) /\ (hook # "deleted" \/ Posting(e))

BudgetOf(e) == got[e] + (IF MayCome(e) THEN 1 ELSE 0)
DuplicateInv == RunInv /\ \A e \in Events : BudgetOf(e) <= 1 + hookFaults

LEMMA OnlyRun ==
  ASSUME RunInv, NEW s \in Slots, NEW r \in Slots, slot[s].event \in Events, slot[r].event = slot[s].event
  PROVE  r = s
BY SlotAssumption DEF RunInv, RunsItsJob

LEMMA NotOnceMore ==
  ASSUME DuplicateInv, NEW e \in Events, got'[e] = got[e], UNCHANGED hookFaults, MayCome(e)' => MayCome(e)
  PROVE  BudgetOf(e)' <= 1 + hookFaults'
<1>1. got[e] \in Nat /\ hookFaults \in Nat
  BY HookAssumption, HookTypes DEF DuplicateInv, RunInv
<1>2. BudgetOf(e) <= 1 + hookFaults
  BY DEF DuplicateInv
<1>3. got[e] + (IF MayCome(e)' THEN 1 ELSE 0) <= 1 + hookFaults
  BY <1>1, <1>2 DEF BudgetOf
<1> QED
  BY <1>3 DEF BudgetOf

LEMMA OnceMoreForAFault ==
  ASSUME DuplicateInv, NEW e \in Events, HookFault,
         got'[e] = got[e] \/ (got'[e] = got[e] + 1 /\ MayCome(e))
  PROVE  BudgetOf(e)' <= 1 + hookFaults'
<1>1. got[e] \in Nat /\ hookFaults \in Nat /\ hookFaults' = hookFaults + 1
  BY HookAssumption, HookTypes DEF DuplicateInv, RunInv, HookFault
<1>2. BudgetOf(e) <= 1 + hookFaults
  BY DEF DuplicateInv
<1>3. got[e] <= 1 + hookFaults /\ (MayCome(e) => got[e] + 1 <= 1 + hookFaults)
  BY <1>1, <1>2 DEF BudgetOf
<1>4. got'[e] <= 1 + hookFaults /\ got'[e] \in Nat
  BY <1>1, <1>3
<1>5. got'[e] + (IF MayCome(e)' THEN 1 ELSE 0) <= 1 + hookFaults'
  BY <1>1, <1>4
<1> QED
  BY <1>5 DEF BudgetOf

\* A run that goes on makes e due again only where it raises, and the slots of the other
\* events do not matter.
LEMMA RunBudget ==
  ASSUME RunInv, NEW s \in Slots, NEW e \in Events, slot[s].pc # "free", UNCHANGED delivery,
         NEW pc \in {"post", "insert", "judge", "deactivate", "end"}, NEW ok \in BOOLEAN, NEW at \in Nat,
         RunsOn(s, pc, ok, at), hook = "deleted" => hook' = "deleted",
         slot[s].event = e => /\ pc = "post" => hook # "deleted" \/ slot[s].pc = "post"
                              /\ slot[s].pc \in {"insert", "end"} /\ slot[s].ok =>
                                   hook' = "deleted" \/ (pc \in {"insert", "end"} /\ ok)
                              /\ pc = "post" => ~(slot[s].pc \in {"insert", "end"} /\ slot[s].ok)
  PROVE  MayCome(e)' => MayCome(e)
<1>1. /\ slot'[s].pc = pc /\ slot'[s].ok = ok /\ slot'[s].event = slot[s].event
      /\ \A r \in Slots : r # s => slot'[r] = slot[r]
  BY ZenonT(40), Running DEF RunsOn
<1>2. slot[s].event \in Events
  BY DEF RunInv, RunsItsJob
<1>3. CASE slot[s].event # e
  <2>1. \A r \in Slots : slot[r].event = e \/ slot'[r].event = e => slot'[r] = slot[r]
    BY <1>1, <1>3
  <2>2. (Completing(e)' <=> Completing(e)) /\ (Posting(e)' <=> Posting(e))
    BY <1>1, <1>3, <2>1 DEF Completing, Posting
  <2> QED
    BY <2>2 DEF MayCome, Settled
<1>4. CASE slot[s].event = e
  <2>1. \A r \in Slots : slot[r].event = e \/ slot'[r].event = e => r = s
    BY <1>1, <1>4, OnlyRun
  <2>2. /\ Completing(e)' <=> pc \in {"insert", "end"} /\ ok
        /\ Completing(e) <=> slot[s].pc \in {"insert", "end"} /\ slot[s].ok
        /\ Posting(e)' <=> pc = "post"
        /\ Posting(e) <=> slot[s].pc = "post"
    BY <1>1, <1>4, <2>1 DEF Completing, Posting
  <2> QED
    BY <1>4, <2>2 DEF MayCome, Settled
<1> QED
  BY <1>3, <1>4

LEMMA DuplicateInit == HookInit => DuplicateInv
<1> SUFFICES ASSUME HookInit, NEW e \in Events PROVE BudgetOf(e) <= 1 + hookFaults
  BY RunInit DEF DuplicateInv
<1>1. got[e] = 0 /\ hookFaults = 0
  BY DEF HookInit
<1> QED
  BY <1>1 DEF BudgetOf

LEMMA DuplicateStep == DuplicateInv /\ [HookNext]_hookVars => DuplicateInv'
<1> SUFFICES ASSUME DuplicateInv, [HookNext]_hookVars, NEW e \in Events PROVE BudgetOf(e)' <= 1 + hookFaults'
  BY RunStep DEF DuplicateInv
<1>1. RunInv /\ RunInv' /\ delivery \in [Events -> JobType] /\ slot \in [Slots -> RunType] /\ got \in [Events -> Nat]
  BY RunStep, HookTypes DEF DuplicateInv, RunInv
<1>2. ASSUME UNCHANGED <<delivery, slot, got, hookFaults>>, hook = "deleted" => hook' = "deleted"
      PROVE  BudgetOf(e)' <= 1 + hookFaults'
  <2>1. MayCome(e)' => MayCome(e)
    BY <1>2 DEF MayCome, Settled, Completing, Posting
  <2> QED
    BY <1>2, <2>1, NotOnceMore
<1>3. ASSUME NEW d \in Events, NEW st, Move(d, st), delivery[d].st \in OpenStates, UNCHANGED <<hook, slot, got>>,
             UNCHANGED hookFaults \/ HookFault
      PROVE  BudgetOf(e)' <= 1 + hookFaults'
  <2>1. delivery'[e] = delivery[e] \/ delivery[e].st \in OpenStates
    BY <1>1, <1>3 DEF Move
  <2>2. MayCome(e)' => MayCome(e)
    BY <1>3, <2>1 DEF MayCome, Settled, Completing, Posting, OpenStates
  <2> QED
    BY <1>3, <2>2, NotOnceMore, OnceMoreForAFault
<1>4. ASSUME NEW d \in Events, Select(d) \/ SelectTest(d) \/ Add(d) \/ BackoffOver(d)
      PROVE  BudgetOf(e)' <= 1 + hookFaults'
  <2>1. \E st : Move(d, st)
    BY <1>4 DEF Select, SelectTest, Add, BackoffOver
  <2>2. /\ delivery[d].st \in OpenStates /\ UNCHANGED <<hook, slot, got>>
        /\ UNCHANGED hookFaults \/ HookFault
    BY <1>4 DEF Select, SelectTest, Add, BackoffOver, OpenStates
  <2> QED
    BY <1>3, <2>1, <2>2
<1>5. ASSUME NEW d \in Events, FindStalled(d) PROVE BudgetOf(e)' <= 1 + hookFaults'
  <2>1. delivery'[e] = delivery[e] \/ delivery[e].st = "active"
    BY <1>1, <1>5, StalledStep
  <2>2. UNCHANGED <<hook, slot, got, hookFaults>>
    BY <1>5 DEF FindStalled
  <2>3. MayCome(e)' => MayCome(e)
    BY <2>1, <2>2 DEF MayCome, Settled, Completing, Posting
  <2> QED
    BY <2>2, <2>3, NotOnceMore
<1>6. ASSUME NEW s \in Slots, NEW d \in Events, Take(s, d) PROVE BudgetOf(e)' <= 1 + hookFaults'
  <2>1. UNCHANGED <<hook, got, hookFaults>> /\ slot[s].pc = "free" /\ delivery[d].st = "waiting"
    BY <1>6 DEF Take
  <2>2. /\ slot'[s].pc = "fetch" /\ \A r \in Slots : r # s => slot'[r] = slot[r]
        /\ delivery'[e] = delivery[e] \/ (e = d /\ delivery[e].st = "waiting")
    BY ZenonT(40), <1>1, <1>6, <2>1, TakeStep DEF FreeSlot
  <2>3. slot[s].event = Nobody
    BY <1>1, <2>1 DEF RunInv, RunsItsJob
  <2>4. (Completing(e) => Completing(e)') /\ (Posting(e)' => Posting(e))
    BY <2>2, <2>3, SlotAssumption DEF Completing, Posting
  <2>5. MayCome(e)' => MayCome(e)
    BY <2>1, <2>2, <2>4 DEF MayCome, Settled
  <2> QED
    BY <2>1, <2>5, NotOnceMore
<1>7. ASSUME NEW s \in Slots, HookThrow(s) \/ HookCrash(s) PROVE BudgetOf(e)' <= 1 + hookFaults'
  BY <1>7, OnceMoreForAFault DEF HookThrow, HookCrash
<1>8. ASSUME NEW s \in Slots, EndRun(s) PROVE BudgetOf(e)' <= 1 + hookFaults'
  <2>1. UNCHANGED <<hook, got, hookFaults>> /\ slot[s].pc = "end"
    BY <1>8 DEF EndRun
  <2>2. /\ slot[s].event \in Events /\ slot'[s] = FreeSlot
        /\ \A r \in Slots : r # s => slot'[r] = slot[r]
        /\ \A d \in Events : d # slot[s].event => delivery'[d] = delivery[d]
        /\ slot[s].ok => delivery'[slot[s].event].st = "done"
    BY <1>1, <1>8, EndRunStep
  <2>3. delivery[slot[s].event].st = "active"
    BY <1>1, <2>1 DEF RunInv, RunsItsJob
  <2>4. Posting(e)' => Posting(e)
    BY <2>2, SlotAssumption DEF Posting, FreeSlot
  <2>5. CASE e = slot[s].event
    <3>1. \A r \in Slots : slot[r].event = e => r = s
      BY <1>1, <2>2, <2>5, OnlyRun
    <3>2. Completing(e) <=> slot[s].ok
      BY <2>1, <2>5, <3>1 DEF Completing
    <3>3. MayCome(e)' => MayCome(e)
      BY <2>1, <2>2, <2>3, <2>4, <2>5, <3>2 DEF MayCome, Settled
    <3> QED
      BY <2>1, <3>3, NotOnceMore
  <2>6. CASE e # slot[s].event
    <3>1. Completing(e) => Completing(e)'
      BY <2>2, <2>6 DEF Completing
    <3>2. MayCome(e)' => MayCome(e)
      BY <2>1, <2>2, <2>4, <2>6, <3>1 DEF MayCome, Settled
    <3> QED
      BY <2>1, <3>2, NotOnceMore
  <2> QED
    BY <2>5, <2>6
<1>9. ASSUME NEW s \in Slots, FetchHook(s) \/ Judge(s) \/ Deactivate(s) \/ Insert(s) PROVE BudgetOf(e)' <= 1 + hookFaults'
  <2>1. UNCHANGED <<got, hookFaults>> /\ (hook = "deleted" => hook' = "deleted")
    BY <1>9 DEF FetchHook, Judge, Deactivate, Insert, SetHook
  <2>2. slot[s].pc # "free" /\ UNCHANGED delivery
    BY <1>1, <1>9, RunSteps DEF StepOf, Process, FetchHook, Judge, Deactivate, Insert, EndRun
  <2>3. slot[s].ok \in BOOLEAN /\ slot[s].at \in Nat
    BY <1>1, GoingOn
  <2>4. MayCome(e)' => MayCome(e)
    <3>1. CASE FetchHook(s)
      <4>1. slot[s].pc = "fetch" /\ ((hook = "on" /\ Go(s, "post")) \/ Return(s))
        BY <3>1 DEF FetchHook
      <4> QED
        BY ZenonT(40), <1>1, <2>1, <2>2, <2>3, <4>1, GoingOn, RunBudget
    <3>2. CASE Judge(s)
      <4>1. slot[s].pc = "judge" /\ (Go(s, "deactivate") \/ Raise(s))
        BY <3>2 DEF Judge
      <4> QED
        BY ZenonT(40), <1>1, <2>1, <2>2, <2>3, <4>1, GoingOn, RunBudget
    <3>3. CASE Deactivate(s)
      <4>1. slot[s].pc = "deactivate" /\ Return(s)
        BY <3>3 DEF Deactivate
      <4> QED
        BY <1>1, <2>1, <2>2, <2>3, <4>1, GoingOn, RunBudget
    <3>4. CASE Insert(s)
      <4>1. /\ slot[s].pc = "insert"
            /\ \/ slot[s].ok /\ Return(s)
               \/ ~slot[s].ok /\ Go(s, "judge")
               \/ hook' = "deleted" /\ Raise(s)
        BY <3>4 DEF Insert
      <4> QED
        BY ZenonT(40), <1>1, <2>1, <2>2, <2>3, <4>1, GoingOn, RunBudget
    <3> QED
      BY <1>9, <3>1, <3>2, <3>3, <3>4
  <2> QED
    BY <2>1, <2>4, NotOnceMore
<1>10. ASSUME NEW s \in Slots, Post(s) PROVE BudgetOf(e)' <= 1 + hookFaults'
  <2>1. slot[s].pc = "post" /\ UNCHANGED <<hook, delivery>>
    BY <1>10 DEF Post
  <2>2. PICK ok \in BOOLEAN :
          /\ slot' = [slot EXCEPT ![s].pc = "insert", ![s].ok = ok, ![s].at = clock]
          /\ \/ got' = [got EXCEPT ![slot[s].event] = IF ok THEN @ + 1 ELSE @] /\ UNCHANGED hookFaults
             \/ ~ok /\ HookFault /\ got' = [got EXCEPT ![slot[s].event] = @ + 1]
    BY <1>10 DEF Post
  <2>3. clock \in Nat
    BY <1>1, HookTypes DEF RunInv
  <2>4. RunsOn(s, "insert", ok, clock)
    BY <1>1, <2>2 DEF RunsOn
  <2>5. MayCome(e)' => MayCome(e)
    BY <1>1, <2>1, <2>3, <2>4, RunBudget
  <2>6. slot[s].event \in Events /\ delivery[slot[s].event].st = "active"
    BY <1>1, <2>1 DEF RunInv, RunsItsJob
  <2>7. CASE e # slot[s].event
    <3>1. got'[e] = got[e]
      BY <1>1, <2>2, <2>6, <2>7
    <3> QED
      BY <2>2, <2>5, <3>1, NotOnceMore, OnceMoreForAFault
  <2>8. CASE e = slot[s].event
    <3>1. \A r \in Slots : slot[r].event = e => r = s
      BY <1>1, <2>6, <2>8, OnlyRun
    <3>2. MayCome(e)
      BY <2>1, <2>6, <2>8, <3>1 DEF MayCome, Settled, Completing, Posting
    <3>3. CASE ok /\ UNCHANGED hookFaults
      <4>1. got'[e] = got[e] + 1
        BY <1>1, <2>2, <2>8, <3>3
      <4>2. Completing(e)'
        <5>1. slot'[s].pc = "insert" /\ slot'[s].ok = ok /\ slot'[s].event = slot[s].event
          BY ZenonT(40), <1>1, <2>1, <2>3, <2>4, Running DEF RunsOn
        <5> QED
          BY <2>8, <3>3, <5>1 DEF Completing
      <4>3. BudgetOf(e) = got[e] + 1 /\ BudgetOf(e)' = got'[e] + 0
        BY <3>2, <4>2 DEF BudgetOf, MayCome
      <4>4. BudgetOf(e) <= 1 + hookFaults
        BY DEF DuplicateInv
      <4> QED
        BY <1>1, <3>3, <4>1, <4>3, <4>4
    <3>4. CASE ~ok /\ UNCHANGED hookFaults /\ got' = [got EXCEPT ![slot[s].event] = IF ok THEN @ + 1 ELSE @]
      <4>1. got'[e] = got[e]
        BY <1>1, <2>8, <3>4
      <4> QED
        BY <2>5, <3>4, <4>1, NotOnceMore
    <3>5. CASE HookFault /\ got' = [got EXCEPT ![slot[s].event] = @ + 1]
      <4>1. got'[e] = got[e] + 1
        BY <1>1, <2>8, <3>5
      <4> QED
        BY <3>2, <3>5, <4>1, OnceMoreForAFault
    <3> QED
      BY <2>2, <3>3, <3>4, <3>5
  <2> QED
    BY <2>7, <2>8
<1> QED
  BY <1>2, <1>4, <1>5, <1>6, <1>7, <1>8, <1>9, <1>10 DEF HookNext, Process, Switch, SetHook, DeleteHook, hookVars

\* The receiver gets an event once, and once more at most for every lost answer, rejected
\* command and dead process, whatever the slots, the retries and the stalled jobs do.
THEOREM NoIdleDuplicate == HookSpec => []DuplicateNeedsAReason
<1>1. DuplicateInv => DuplicateNeedsAReason
  <2> SUFFICES ASSUME DuplicateInv, NEW e \in Events PROVE got[e] <= 1 + hookFaults
    BY DEF DuplicateNeedsAReason
  <2>1. got[e] \in Nat /\ hookFaults \in Nat
    BY HookAssumption, HookTypes DEF DuplicateInv, RunInv
  <2>2. BudgetOf(e) <= 1 + hookFaults
    BY DEF DuplicateInv
  <2> QED
    BY <2>1, <2>2 DEF BudgetOf
<1> QED
  BY <1>1, DuplicateInit, DuplicateStep, PTL DEF HookSpec

-----------------------------------------------------------------------------
(* events that are given up *)

\* With the webhook off or gone, every event under way is known to have missed it.
MissedInv == hook # "on" => UnderWay \subseteq missed

\* A run that ends well has had its event accepted, or found the webhook off or gone.
EndsWell ==
  \A s \in Slots : slot[s].pc \in {"insert", "end"} /\ slot[s].ok =>
    got[slot[s].event] > 0 \/ slot[s].event \in missed

GivenUpInv == RunInv /\ MissedInv /\ EndsWell /\ GivenUpOnlyWhenOff

LEMMA GivenUpInit == HookInit => GivenUpInv
<1> SUFFICES ASSUME HookInit PROVE GivenUpInv
  OBVIOUS
<1>1. MissedInv /\ EndsWell /\ GivenUpOnlyWhenOff
  BY SMTT(30) DEF HookInit, MissedInv, EndsWell, GivenUpOnlyWhenOff, FreeSlot
<1> QED
  BY <1>1, RunInit DEF GivenUpInv

\* What was accepted or missed stays so.
LEMMA AcceptedStays ==
  ASSUME RunInv, [HookNext]_hookVars
  PROVE  missed \subseteq missed' /\ \A e \in Events : got[e] > 0 => got'[e] > 0
<1>1. got \in [Events -> Nat]
  BY HookTypes DEF RunInv
<1>2. ASSUME NEW s \in Slots, Post(s) PROVE missed \subseteq missed' /\ \A e \in Events : got[e] > 0 => got'[e] > 0
  BY <1>1, <1>2 DEF Post
<1>3. CASE UNCHANGED <<missed, got>>
  BY <1>3
<1> QED
  BY ZenonT(40), <1>2, <1>3 DEF HookNext, hookVars, Select, SelectTest, Add, BackoffOver, FindStalled, Take, Process, FetchHook,
     Insert, Judge, Deactivate, EndRun, HookThrow, HookCrash, Switch, DeleteHook, SetHook

LEMMA GivenUpStep == GivenUpInv /\ [HookNext]_hookVars => GivenUpInv'
<1> SUFFICES ASSUME GivenUpInv, [HookNext]_hookVars PROVE MissedInv' /\ EndsWell' /\ GivenUpOnlyWhenOff'
  BY RunStep DEF GivenUpInv
<1>1. /\ RunInv /\ RunInv' /\ delivery \in [Events -> JobType] /\ slot \in [Slots -> RunType]
      /\ MissedInv /\ EndsWell /\ GivenUpOnlyWhenOff
  BY RunStep, HookTypes DEF GivenUpInv, RunInv
<1>2. missed \subseteq missed' /\ \A e \in Events : got[e] > 0 => got'[e] > 0
  BY <1>1, AcceptedStays
<1>3. ASSUME UNCHANGED slot PROVE EndsWell'
  <2>1. \A s \in Slots : slot[s].pc \in {"insert", "end"} => slot[s].event \in Events
    BY <1>1 DEF RunInv, RunsItsJob
  <2> QED
    BY <1>1, <1>2, <1>3, <2>1 DEF EndsWell
<1>4. ASSUME UNCHANGED delivery PROVE GivenUpOnlyWhenOff'
  BY <1>1, <1>2, <1>4 DEF GivenUpOnlyWhenOff
<1>5. ASSUME NEW d \in Events, \A e \in Events : e # d => delivery'[e] = delivery[e],
             \/ delivery'[d].st \in {"done", "failed"}
             \/ delivery[d].st \notin {"new", "done", "failed"}
             \/ hook = "on" \/ d \in missed',
             UNCHANGED hook
      PROVE  MissedInv'
  BY <1>1, <1>2, <1>5 DEF MissedInv, UnderWay
<1>6. ASSUME UNCHANGED <<delivery, hook>> PROVE MissedInv'
  BY <1>1, <1>2, <1>6 DEF MissedInv, UnderWay
<1>7. ASSUME NEW d \in Events, NEW st, Move(d, st)
      PROVE  /\ \A e \in Events : e # d => delivery'[e] = delivery[e]
             /\ delivery'[d].st = st
  BY <1>1, <1>7 DEF Move, JobType
<1>8. ASSUME NEW d \in Events, \A e \in Events : e # d => delivery'[e] = delivery[e],
             delivery'[d].st = "done" => got[d] > 0 \/ d \in missed'
      PROVE  GivenUpOnlyWhenOff'
  BY <1>1, <1>2, <1>8 DEF GivenUpOnlyWhenOff
<1>9. ASSUME NEW d \in Events, Select(d) \/ SelectTest(d) PROVE MissedInv' /\ EndsWell' /\ GivenUpOnlyWhenOff'
  <2>1. PICK st \in {"adding", "done"} : Move(d, st) /\ (st = "done" => d \in missed') /\ (hook # "on" => d \in missed')
    BY <1>9 DEF Select, SelectTest
  <2>2. UNCHANGED <<hook, slot>>
    BY <1>9 DEF Select, SelectTest
  <2>3. /\ \A e \in Events : e # d => delivery'[e] = delivery[e]
        /\ delivery'[d].st = st
    BY <1>7, <2>1
  <2>4. MissedInv'
    BY <1>5, <2>1, <2>2, <2>3
  <2>5. GivenUpOnlyWhenOff'
    BY <1>8, <2>1, <2>3
  <2> QED
    BY <1>3, <2>2, <2>4, <2>5
<1>10. ASSUME NEW d \in Events, Add(d) \/ BackoffOver(d) PROVE MissedInv' /\ EndsWell' /\ GivenUpOnlyWhenOff'
  <2>1. PICK st \in {"waiting", "failed"} : Move(d, st)
    BY <1>10 DEF Add, BackoffOver
  <2>2. UNCHANGED <<hook, slot>> /\ delivery[d].st \in {"adding", "delayed"}
    BY <1>10 DEF Add, BackoffOver
  <2>3. /\ \A e \in Events : e # d => delivery'[e] = delivery[e]
        /\ delivery'[d].st = st
    BY <1>7, <2>1
  <2>4. MissedInv'
    BY <1>5, <2>2, <2>3
  <2>5. GivenUpOnlyWhenOff'
    BY <1>8, <2>3
  <2> QED
    BY <1>3, <2>2, <2>4, <2>5
<1>11. ASSUME NEW d \in Events, FindStalled(d) PROVE MissedInv' /\ EndsWell' /\ GivenUpOnlyWhenOff'
  <2>1. /\ delivery[d].st = "active" /\ delivery'[d].st \in {"waiting", "failed"}
        /\ \A e \in Events : e # d => delivery'[e] = delivery[e]
    BY <1>1, <1>11, StalledStep
  <2>2. UNCHANGED <<hook, slot>>
    BY <1>11 DEF FindStalled
  <2>3. MissedInv'
    BY <1>5, <2>1, <2>2
  <2>4. GivenUpOnlyWhenOff'
    BY <1>8, <2>1
  <2> QED
    BY <1>3, <2>2, <2>3, <2>4
<1>12. ASSUME NEW s \in Slots, \A r \in Slots : r # s => slot'[r] = slot[r],
              slot'[s].pc \in {"insert", "end"} /\ slot'[s].ok => got'[slot'[s].event] > 0 \/ slot'[s].event \in missed'
       PROVE  EndsWell'
  <2>1. \A r \in Slots : slot[r].pc \in {"insert", "end"} => slot[r].event \in Events
    BY <1>1 DEF RunInv, RunsItsJob
  <2> QED
    BY <1>1, <1>2, <1>12, <2>1 DEF EndsWell
<1>13. ASSUME NEW s \in Slots, NEW d \in Events, Take(s, d) PROVE MissedInv' /\ EndsWell' /\ GivenUpOnlyWhenOff'
  <2>1. /\ delivery'[d].st = "active" /\ \A e \in Events : e # d => delivery'[e] = delivery[e]
        /\ slot'[s].pc = "fetch" /\ \A r \in Slots : r # s => slot'[r] = slot[r]
    BY ZenonT(40), <1>1, <1>13, TakeStep DEF FreeSlot
  <2>2. UNCHANGED hook /\ delivery[d].st = "waiting"
    BY <1>13 DEF Take
  <2>3. MissedInv'
    BY <1>5, <2>1, <2>2
  <2>4. GivenUpOnlyWhenOff'
    BY <1>8, <2>1
  <2>5. EndsWell'
    BY <1>12, <2>1
  <2> QED
    BY <2>3, <2>4, <2>5
<1>14. ASSUME NEW s \in Slots, EndRun(s) PROVE MissedInv' /\ EndsWell' /\ GivenUpOnlyWhenOff'
  <2> DEFINE d == slot[s].event
  <2>1. /\ d \in Events /\ slot'[s] = FreeSlot /\ \A r \in Slots : r # s => slot'[r] = slot[r]
        /\ \A e \in Events : e # d => delivery'[e] = delivery[e]
        /\ delivery'[d].st = "done" => slot[s].ok
    BY <1>1, <1>14, EndRunStep
  <2>2. UNCHANGED hook /\ slot[s].pc = "end"
    BY <1>14 DEF EndRun
  <2>3. delivery[d].st = "active"
    BY <1>1, <2>2 DEF RunInv, RunsItsJob
  <2>4. delivery'[d].st = "done" => got[d] > 0 \/ d \in missed'
    BY <1>1, <1>2, <2>1, <2>2 DEF EndsWell
  <2>5. MissedInv'
    BY <1>5, <2>1, <2>2, <2>3
  <2>6. GivenUpOnlyWhenOff'
    BY <1>8, <2>1, <2>4
  <2>7. slot'[s].pc = "free"
    BY <2>1 DEF FreeSlot
  <2>8. EndsWell'
    BY <1>12, <2>1, <2>7
  <2> QED
    BY <2>5, <2>6, <2>8
<1>15. ASSUME NEW s \in Slots, HookCrash(s) PROVE MissedInv' /\ EndsWell' /\ GivenUpOnlyWhenOff'
  <2>1. UNCHANGED <<delivery, hook>>
    BY <1>15 DEF HookCrash
  <2>2. slot'[s].pc = "free" /\ \A r \in Slots : r # s => slot'[r] = slot[r]
    BY <1>1, <1>15, CrashStep DEF FreeSlot
  <2>3. EndsWell'
    BY <1>12, <2>2
  <2> QED
    BY <1>4, <1>6, <2>1, <2>3
<1>16. ASSUME NEW s \in Slots, NEW pc \in {"post", "insert", "judge", "deactivate", "end"}, NEW ok \in BOOLEAN,
              NEW at \in Nat, RunsOn(s, pc, ok, at), slot[s].pc # "free", UNCHANGED delivery,
              pc \in {"insert", "end"} /\ ok => got'[slot[s].event] > 0 \/ slot[s].event \in missed'
       PROVE  EndsWell' /\ GivenUpOnlyWhenOff'
  <2>1. /\ slot'[s].pc = pc /\ slot'[s].ok = ok /\ slot'[s].event = slot[s].event
        /\ \A r \in Slots : r # s => slot'[r] = slot[r]
    BY ZenonT(40), <1>1, <1>16, Running DEF RunsOn
  <2>2. EndsWell'
    BY <1>12, <1>16, <2>1
  <2> QED
    BY <1>4, <1>16, <2>2
<1>17. ASSUME NEW s \in Slots, slot[s].pc # "free"
       PROVE  /\ slot[s].event \in UnderWay /\ slot[s].event \in Events
              /\ slot[s].ok \in BOOLEAN /\ slot[s].at \in Nat
  BY <1>1, <1>17, GoingOn DEF RunInv, RunsItsJob, UnderWay
<1>18. ASSUME NEW s \in Slots, FetchHook(s) PROVE MissedInv' /\ EndsWell' /\ GivenUpOnlyWhenOff'
  <2>1. /\ slot[s].pc = "fetch" /\ UNCHANGED <<delivery, hook, missed>>
        /\ Go(s, "post") \/ (hook # "on" /\ Return(s))
    BY <1>18 DEF FetchHook
  <2>2. hook # "on" => slot[s].event \in missed'
    BY <1>1, <1>17, <2>1 DEF MissedInv
  <2>3. EndsWell' /\ GivenUpOnlyWhenOff'
    BY ZenonT(40), <1>1, <1>16, <1>17, <2>1, <2>2, GoingOn
  <2> QED
    BY <1>6, <2>1, <2>3
<1>19. ASSUME NEW s \in Slots, Judge(s) \/ HookThrow(s) PROVE MissedInv' /\ EndsWell' /\ GivenUpOnlyWhenOff'
  <2>1. /\ slot[s].pc \notin {"free", "end"} /\ UNCHANGED <<delivery, hook>>
        /\ Go(s, "deactivate") \/ Raise(s)
    BY <1>19 DEF Judge, HookThrow
  <2>2. EndsWell' /\ GivenUpOnlyWhenOff'
    BY <1>1, <1>16, <1>17, <2>1, GoingOn
  <2> QED
    BY <1>6, <2>1, <2>2
<1>20. ASSUME NEW s \in Slots, Insert(s) PROVE MissedInv' /\ EndsWell' /\ GivenUpOnlyWhenOff'
  <2>1. /\ slot[s].pc = "insert" /\ UNCHANGED <<delivery, hook, got, missed>>
        /\ (slot[s].ok /\ Return(s)) \/ Go(s, "judge") \/ Raise(s)
    BY <1>20 DEF Insert
  <2>2. slot[s].ok => got'[slot[s].event] > 0 \/ slot[s].event \in missed'
    BY <1>1, <2>1 DEF EndsWell
  <2>3. EndsWell' /\ GivenUpOnlyWhenOff'
    BY <1>1, <1>16, <1>17, <2>1, <2>2, GoingOn
  <2> QED
    BY <1>6, <2>1, <2>3
<1>21. ASSUME NEW st \in HookStates, SetHook(st), UNCHANGED delivery PROVE MissedInv' /\ (hook' # "on" => UnderWay \subseteq missed')
  <2>1. UnderWay' = UnderWay
    BY <1>21 DEF UnderWay
  <2> QED
    BY <1>21, <2>1 DEF SetHook, MissedInv
<1>22. ASSUME NEW s \in Slots, Deactivate(s) PROVE MissedInv' /\ EndsWell' /\ GivenUpOnlyWhenOff'
  <2>1. slot[s].pc = "deactivate" /\ SetHook("off") /\ Return(s) /\ UNCHANGED delivery
    BY <1>22 DEF Deactivate
  <2>2. hook' # "on"
    BY <2>1 DEF SetHook
  <2>3. MissedInv' /\ slot[s].event \in missed'
    BY <1>17, <1>21, <2>1, <2>2 DEF HookStates
  <2>4. EndsWell' /\ GivenUpOnlyWhenOff'
    BY <1>1, <1>16, <1>17, <2>1, <2>3, GoingOn
  <2> QED
    BY <2>3, <2>4
<1>23. ASSUME NEW s \in Slots, Post(s) PROVE MissedInv' /\ EndsWell' /\ GivenUpOnlyWhenOff'
  <2>1. slot[s].pc = "post" /\ UNCHANGED <<delivery, hook>>
    BY <1>23 DEF Post
  <2>2. PICK ok \in BOOLEAN :
          /\ slot' = [slot EXCEPT ![s].pc = "insert", ![s].ok = ok, ![s].at = clock]
          /\ ok => got' = [got EXCEPT ![slot[s].event] = @ + 1]
    BY <1>23 DEF Post
  <2>3. clock \in Nat /\ got \in [Events -> Nat]
    BY <1>1, HookTypes DEF RunInv
  <2>4. RunsOn(s, "insert", ok, clock)
    BY <1>1, <2>2 DEF RunsOn
  <2>5. ok => got'[slot[s].event] > 0
    BY <1>17, <2>1, <2>2, <2>3
  <2>6. EndsWell' /\ GivenUpOnlyWhenOff'
    BY <1>16, <2>1, <2>3, <2>4, <2>5
  <2> QED
    BY <1>6, <2>1, <2>6
<1>24. CASE Switch
  BY <1>3, <1>4, <1>21, <1>24 DEF Switch, HookStates
<1>25. CASE DeleteHook
  <2>1. MissedInv'
    BY <1>25 DEF DeleteHook, MissedInv, UnderWay
  <2> QED
    BY <1>3, <1>4, <1>25, <2>1 DEF DeleteHook
<1>26. CASE UNCHANGED hookVars
  BY <1>3, <1>4, <1>6, <1>26 DEF hookVars
<1> QED
  BY <1>9, <1>10, <1>11, <1>13, <1>14, <1>15, <1>18, <1>19, <1>20, <1>22, <1>23, <1>24, <1>25, <1>26
  DEF HookNext, Process

\* A job is completed only for an event that arrived, or that was under way while the
\* webhook was off or gone: no retry, stalled job or deactivation drops one silently.
THEOREM NothingGivenUpSilently == HookSpec => []GivenUpOnlyWhenOff
<1>1. GivenUpInv => GivenUpOnlyWhenOff
  BY DEF GivenUpInv
<1> QED
  BY <1>1, GivenUpInit, GivenUpStep, PTL DEF HookSpec

-----------------------------------------------------------------------------
(* outages *)

\* A run has seen its delivery fail and has yet to act on it.
Judging == \E s \in Slots : slot[s].pc \in {"judge", "deactivate"}

\* Without faults and without the user, a webhook that is still on although its last
\* deliveries all failed has a run about to notice.
WillNotice ==
  hookFaults = 0 /\ switches = 0 =>
    /\ hook \in {"on", "off"}
    /\ AllFailed /\ hook = "on" => Judging

NoticeInv == RunInv /\ IsFiniteSet(DOMAIN rows) /\ WillNotice

LEMMA NoticeInit == HookInit => NoticeInv
<1> SUFFICES ASSUME HookInit PROVE NoticeInv
  OBVIOUS
<1>1. DOMAIN rows = {}
  BY DEF HookInit
<1>2. Cardinality(DOMAIN rows) = 0 /\ IsFiniteSet(DOMAIN rows)
  BY <1>1, FS_EmptySet
<1>3. ~AllFailed
  BY <1>2, HookAssumption DEF AllFailed
<1> QED
  BY <1>2, <1>3, RunInit DEF NoticeInv, WillNotice, HookInit

\* A delivery that succeeded does not complete a row of failures, however late its row
\* arrives: either it is among the last ones, or those are the ones they were.
LEMMA SuccessIsNoOutage ==
  ASSUME RunInv, IsFiniteSet(DOMAIN rows), NEW t \in Nat,
         rows' = [u \in DOMAIN rows \cup {t} |-> IF u = t THEN TRUE ELSE rows[u]],
         AllFailed'
  PROVE  AllFailed
<1> DEFINE Later(x) == {u \in DOMAIN rows : u > x}
<1>1. /\ DOMAIN rows \subseteq Nat /\ DOMAIN rows' = DOMAIN rows \cup {t} /\ rows'[t] = TRUE
      /\ \A x \in DOMAIN rows : x # t => rows'[x] = rows[x]
  BY HookTypes DEF RunInv
<1>2. ASSUME NEW x \in Nat, x >= t PROVE {u \in DOMAIN rows' : u > x} = Later(x)
  BY <1>1, <1>2
<1>3. \A x : IsFiniteSet(Later(x)) /\ Cardinality(Later(x)) \in Nat /\ Cardinality(Later(x)) <= Cardinality(DOMAIN rows)
  <2> SUFFICES ASSUME NEW x
               PROVE  /\ IsFiniteSet(Later(x)) /\ Cardinality(Later(x)) \in Nat
                      /\ Cardinality(Later(x)) <= Cardinality(DOMAIN rows)
    OBVIOUS
  <2>1. Later(x) \subseteq DOMAIN rows
    OBVIOUS
  <2> QED
    BY <2>1, FS_Subset, FS_CardinalityType
<1>4. Cardinality(DOMAIN rows) \in Nat
  BY FS_CardinalityType DEF NoticeInv
<1>5. Cardinality(Later(t)) >= Threshold
  <2>1. t \in DOMAIN rows' /\ {u \in DOMAIN rows' : u > t} = Later(t)
    BY <1>1, <1>2
  <2>2. ~(Cardinality(Later(t)) < Threshold)
    BY <1>1, <2>1 DEF AllFailed
  <2> QED
    BY <1>3, <2>2, HookAssumption
<1>6. Cardinality(DOMAIN rows) >= Threshold
  BY <1>3, <1>4, <1>5, HookAssumption
<1>7. ASSUME NEW x \in DOMAIN rows, Cardinality(Later(x)) < Threshold PROVE ~rows[x]
  <2>1. x > t
    <3>1. ASSUME x <= t PROVE FALSE
      <4>1. Later(t) \subseteq Later(x)
        BY <1>1, <3>1
      <4>2. Cardinality(Later(t)) <= Cardinality(Later(x))
        BY <1>3, <4>1, FS_Subset
      <4> QED
        BY SMTT(30), <1>3, <1>5, <1>7, <4>2, HookAssumption
    <3> QED
      BY <1>1, <3>1
  <2>2. {u \in DOMAIN rows' : u > x} = Later(x)
    BY <1>1, <1>2, <2>1
  <2>3. ~rows'[x]
    BY <1>1, <1>7, <2>2 DEF AllFailed
  <2> QED
    BY <1>1, <2>1, <2>3
<1> QED
  BY <1>6, <1>7 DEF AllFailed

LEMMA NoticeStep == NoticeInv /\ [HookNext]_hookVars => NoticeInv'
<1> SUFFICES ASSUME NoticeInv, [HookNext]_hookVars PROVE NoticeInv'
  OBVIOUS
<1>1. RunInv' /\ hookFaults' \in Nat /\ switches \in Nat /\ slot \in [Slots -> RunType]
  <2>1. RunInv' /\ RunInv
    BY RunStep DEF NoticeInv
  <2>2. hookFaults' \in 0 .. HookMaxFaults
    BY <2>1 DEF RunInv, HookTypeOK
  <2> QED
    BY <2>1, <2>2, HookTypes, HookAssumption DEF RunInv
<1>2. hookFaults = 0 \/ hookFaults' # 0
  <2>1. hookFaults \in Nat
    BY HookTypes, HookAssumption DEF NoticeInv, RunInv
  <2>2. hookFaults' = hookFaults \/ hookFaults' = hookFaults + 1
    BY ZenonT(40) DEF HookNext, hookVars, HookFault, Select, SelectTest, Add, BackoffOver, FindStalled, Take, Process, FetchHook,
       Post, Insert, Judge, Deactivate, EndRun, HookThrow, HookCrash, Switch, DeleteHook
  <2> QED
    BY <2>1, <2>2
<1>3. \A r \in Slots : slot[r].pc \in {"judge", "deactivate"} => Judging
  BY DEF Judging
<1>4. ASSUME UNCHANGED <<rows, hook>>, switches' # 0 \/ UNCHANGED switches,
             hookFaults' = 0 => (\A r \in Slots : slot[r].pc \in {"judge", "deactivate"} => slot'[r].pc \in {"judge", "deactivate"})
      PROVE  NoticeInv'
  <2>1. AllFailed' = AllFailed
    BY <1>4 DEF AllFailed
  <2>2. hookFaults' = 0 /\ Judging => Judging'
    BY <1>4 DEF Judging
  <2> QED
    BY <1>1, <1>2, <1>4, <2>1, <2>2 DEF NoticeInv, WillNotice
<1>5. ASSUME NEW e \in Events, Select(e) \/ SelectTest(e) \/ Add(e) \/ BackoffOver(e) \/ FindStalled(e) PROVE NoticeInv'
  BY <1>4, <1>5 DEF Select, SelectTest, Add, BackoffOver, FindStalled
<1>6. ASSUME NEW s \in Slots, NEW r, slot' = [slot EXCEPT ![s] = r], UNCHANGED <<rows, hook, switches>>,
             slot[s].pc \notin {"judge", "deactivate"}
      PROVE  NoticeInv'
  BY <1>1, <1>4, <1>6
<1>7. ASSUME NEW s \in Slots, NEW e \in Events, Take(s, e) PROVE NoticeInv'
  BY <1>6, <1>7 DEF Take
<1>8. ASSUME NEW s \in Slots, FetchHook(s) PROVE NoticeInv'
  BY <1>6, <1>8 DEF FetchHook, Go, Return
<1>9. ASSUME NEW s \in Slots, Post(s) PROVE NoticeInv'
  <2>1. PICK ok \in BOOLEAN :
          slot' = [slot EXCEPT ![s] = [slot[s] EXCEPT !.pc = "insert", !.ok = ok, !.at = clock]]
    BY <1>1, <1>9 DEF Post
  <2>2. slot[s].pc = "post" /\ UNCHANGED <<rows, hook, switches>>
    BY <1>9 DEF Post
  <2> QED
    BY <1>6, <2>1, <2>2
<1>10. ASSUME NEW s \in Slots, EndRun(s) PROVE NoticeInv'
  BY <1>6, <1>10 DEF EndRun
<1>11. ASSUME NEW s \in Slots, Insert(s) PROVE NoticeInv'
  <2>1. CASE UNCHANGED rows
    BY <1>6, <1>11, <2>1 DEF Insert, Go, Return, Raise
  <2>2. CASE rows' = [t \in DOMAIN rows \cup {slot[s].at} |-> IF t = slot[s].at THEN slot[s].ok ELSE rows[t]]
             /\ (IF slot[s].ok THEN Return(s) ELSE Go(s, "judge"))
    <3>1. slot[s].at \in Nat /\ slot[s].ok \in BOOLEAN
      BY <1>1 DEF RunType
    <3>2. DOMAIN rows' = DOMAIN rows \cup {slot[s].at}
      BY <2>2
    <3>3. IsFiniteSet(DOMAIN rows')
      BY <3>2, FS_AddElement DEF NoticeInv
    <3>4. UNCHANGED <<hook, switches, hookFaults>> /\ slot[s].pc = "insert"
      BY <1>11 DEF Insert
    <3>5. CASE slot[s].ok
      <4>1. rows' = [t \in DOMAIN rows \cup {slot[s].at} |-> IF t = slot[s].at THEN TRUE ELSE rows[t]]
        BY <2>2, <3>1, <3>5
      <4>2. AllFailed' => AllFailed
        BY <3>1, <4>1, SuccessIsNoOutage DEF NoticeInv
      <4>3. \A r \in Slots : slot[r].pc \in {"judge", "deactivate"} => slot'[r].pc \in {"judge", "deactivate"}
        BY <1>1, <2>2, <3>4, <3>5 DEF Return
      <4>4. Judging => Judging'
        BY <4>3 DEF Judging
      <4> QED
        BY <1>1, <3>3, <3>4, <4>2, <4>4 DEF NoticeInv, WillNotice
    <3>6. CASE ~slot[s].ok
      <4>1. slot'[s].pc = "judge"
        <5>1. slot' = [slot EXCEPT ![s] = [slot[s] EXCEPT !.pc = "judge"]]
          BY <1>1, <2>2, <3>6 DEF Go
        <5> QED
          BY <1>1, <5>1 DEF RunType
      <4>2. Judging'
        BY <4>1 DEF Judging
      <4> QED
        BY <1>1, <3>3, <3>4, <4>2 DEF NoticeInv, WillNotice
    <3> QED
      BY <3>5, <3>6
  <2> QED
    BY <1>11, <2>1, <2>2 DEF Insert
<1>12. ASSUME NEW s \in Slots, Judge(s) PROVE NoticeInv'
  <2>1. UNCHANGED <<hook, rows, switches, hookFaults>>
    BY <1>12 DEF Judge
  <2>2. AllFailed' = AllFailed
    BY <2>1 DEF AllFailed
  <2>3. AllFailed => Judging'
    <3>1. AllFailed => slot'[s].pc = "deactivate"
      <4>1. AllFailed => slot' = [slot EXCEPT ![s] = [slot[s] EXCEPT !.pc = "deactivate"]]
        BY <1>1, <1>12 DEF Judge, Go
      <4> QED
        BY <1>1, <4>1 DEF RunType
    <3> QED
      BY <3>1 DEF Judging
  <2> QED
    BY <1>1, <2>1, <2>2, <2>3 DEF NoticeInv, WillNotice
<1>13. ASSUME NEW s \in Slots, Deactivate(s) PROVE NoticeInv'
  <2>1. UNCHANGED <<rows, switches, hookFaults>> /\ hook' = (IF hook = "deleted" THEN hook ELSE "off")
    BY <1>13 DEF Deactivate, SetHook
  <2> QED
    BY <1>1, <2>1 DEF NoticeInv, WillNotice
<1>14. ASSUME NEW s \in Slots, HookThrow(s) \/ HookCrash(s) PROVE NoticeInv'
  <2>1. hookFaults' # 0
    <3>1. hookFaults \in Nat
      BY HookTypes, HookAssumption DEF NoticeInv, RunInv
    <3> QED
      BY <1>14, <3>1 DEF HookThrow, HookCrash, HookFault
  <2> QED
    BY <1>4, <1>14, <2>1 DEF HookThrow, HookCrash
<1>15. CASE Switch \/ DeleteHook
  <2>1. switches' # 0
    BY <1>1, <1>15 DEF Switch, DeleteHook
  <2>2. IsFiniteSet(DOMAIN rows')
    <3>1. CASE DeleteHook
      <4>1. DOMAIN rows' = {}
        BY <3>1 DEF DeleteHook
      <4> QED
        BY <4>1, FS_EmptySet
    <3>2. CASE Switch
      BY <3>2 DEF Switch, NoticeInv
    <3> QED
      BY <1>15, <3>1, <3>2
  <2> QED
    BY <1>1, <2>1, <2>2 DEF NoticeInv, WillNotice
<1>16. CASE UNCHANGED hookVars
  BY <1>4, <1>16 DEF hookVars
<1> QED
  BY <1>5, <1>7, <1>8, <1>9, <1>10, <1>11, <1>12, <1>13, <1>14, <1>15, <1>16 DEF HookNext, Process

\* An outage is noticed however the rows of concurrent runs fall: without faults and
\* without the user, whoever records the failure that completes the row of them, or a
\* run after it, judges it, and switches the webhook off.
THEOREM OutagesAreNoticed == HookSpec => []AnOutageIsNoticed
<1>1. NoticeInv => AnOutageIsNoticed
  BY DEF NoticeInv, WillNotice, AnOutageIsNoticed, Judging
<1> QED
  BY <1>1, NoticeInit, NoticeStep, PTL DEF HookSpec
=============================================================================
