---------------------------- MODULE OfflineOutbox ----------------------------
(***************************************************************************)
(* The outbox of the web client: apps/web/lib/sync-engine.ts, the store    *)
(* behind it, and the compose page that fills it.  Tabs share the outbox   *)
(* (IndexedDB); each has an engine of its own, whose flushes may overlap   *)
(* within the tab as well.  A send carries no idempotency key.             *)
(*                                                                         *)
(* Nothing calls startPeriodicSync or queueAction: a flush starts when the *)
(* browser comes back online, or when the user asks for a sync.            *)
(***************************************************************************)
EXTENDS Integers, FiniteSets

CONSTANTS
  Mails,           \* emails the user writes
  Tabs,            \* tabs of the browser
  Flushes,         \* flushes that may be under way at once
  MaxToggles,      \* bound on changes of the connection
  MaxSyncs,        \* bound on syncs the user asks for
  MaxMishaps       \* bound on failures with the connection up, and on tabs closed

VARIABLES
  net,             \* navigator.onLine, the same in all tabs
  tab,             \* tab[t]: open, what its engine knows of the connection, whether it syncs
  outbox,          \* the store: emails queued for later
  mail,            \* mail[m]: where the compose page is with email m, and in which tab
  flush,           \* flush[f]: a flush, the emails it has yet to send and the one it is at
  copies,          \* copies[m]: times the server has accepted m (history)
  excused,         \* excused[m]: reasons for a further copy of m (history)
  toggles, syncs, mishaps  \* so far (bounded)

outboxVars == <<net, tab, outbox, mail, flush, copies, excused, toggles, syncs, mishaps>>

ASSUME OutboxAssumption ==
  /\ IsFiniteSet(Mails) /\ IsFiniteSet(Tabs) /\ IsFiniteSet(Flushes)
  /\ MaxToggles \in Nat /\ MaxSyncs \in Nat /\ MaxMishaps \in Nat

NoMail  == "none"
NoTab   == "none"
NoFlush == [pc |-> "idle", tab |-> NoTab, list |-> {}, at |-> NoMail, sync |-> FALSE]

OutboxInit ==
  /\ net = TRUE
  /\ tab = [t \in Tabs |-> [open |-> TRUE, online |-> TRUE, syncing |-> FALSE]]
  /\ outbox = {}
  /\ mail = [m \in Mails |-> [pc |-> "new", tab |-> NoTab]]
  /\ flush = [f \in Flushes |-> NoFlush]
  /\ copies = [m \in Mails |-> 0]
  /\ excused = [m \in Mails |-> 0]
  /\ toggles = 0 /\ syncs = 0 /\ mishaps = 0

Mishap == mishaps < MaxMishaps /\ mishaps' = mishaps + 1

\* Without a connection every request fails; with one it does so now and then.
RequestFails == IF net THEN Mishap ELSE UNCHANGED mishaps

Another(g, m) == [g EXCEPT ![m] = @ + 1]

-----------------------------------------------------------------------------
(* the connection *)

\* It changes; the open tabs hear of a change before the next one.
Toggle ==
  /\ \A t \in Tabs : tab[t].open => tab[t].online = net
  /\ toggles < MaxToggles /\ toggles' = toggles + 1
  /\ net' = ~net
  /\ UNCHANGED <<tab, outbox, mail, flush, copies, excused, syncs, mishaps>>

\* handleOnline and handleOffline: coming back online starts a flush.
StartFlush(t, pc, sync) ==
  \E f \in Flushes :
    /\ flush[f].pc = "idle"
    /\ flush' = [flush EXCEPT ![f] = [NoFlush EXCEPT !.pc = pc, !.tab = t, !.sync = sync]]

Hear(t) ==
  /\ tab[t].open /\ tab[t].online # net
  /\ tab' = [tab EXCEPT ![t].online = net]
  /\ IF net THEN StartFlush(t, "read", FALSE) ELSE UNCHANGED flush
  /\ UNCHANGED <<net, outbox, mail, copies, excused, toggles, syncs, mishaps>>

-----------------------------------------------------------------------------
(* syncNow and flushOutbox *)

\* Skipped when offline or already syncing.
MaySync(t) == tab[t].open /\ tab[t].online /\ ~tab[t].syncing

SyncNow(t) ==
  /\ MaySync(t)
  /\ syncs < MaxSyncs /\ syncs' = syncs + 1
  /\ tab' = [tab EXCEPT ![t].syncing = TRUE]
  /\ StartFlush(t, "fetch", TRUE)
  /\ UNCHANGED <<net, outbox, mail, copies, excused, toggles, mishaps>>

\* Flush f is at pc, or at its end when it has nothing left to send.
Proceed(f, pc, list, at) ==
  IF list = {} /\ pc = "next"
  THEN /\ flush' = [flush EXCEPT ![f] = NoFlush]
       /\ tab' = IF flush[f].sync THEN [tab EXCEPT ![flush[f].tab].syncing = FALSE] ELSE tab
  ELSE /\ flush' = [flush EXCEPT ![f].pc = pc, ![f].list = list, ![f].at = at]
       /\ UNCHANGED tab

\* The new emails are fetched first; if that fails the sync is over.
FetchNew(f) ==
  /\ flush[f].pc = "fetch"
  /\ \/ /\ IF tab[flush[f].tab].online THEN Proceed(f, "read", {}, NoMail) ELSE Proceed(f, "next", {}, NoMail)
        /\ UNCHANGED mishaps
     \/ RequestFails /\ Proceed(f, "next", {}, NoMail)
  /\ UNCHANGED <<net, outbox, mail, copies, excused, toggles, syncs>>

\* getOutboxEmails: an email another flush is at as well may be sent by both.
InHand(m) == \E f \in Flushes : m \in flush[f].list
ReadOutbox(f) ==
  /\ flush[f].pc = "read"
  /\ Proceed(f, "next", outbox, NoMail)
  /\ excused' = [m \in Mails |-> excused[m] + IF m \in outbox /\ InHand(m) THEN 1 ELSE 0]
  /\ UNCHANGED <<net, outbox, mail, copies, toggles, syncs, mishaps>>

MutRemoveFirst(f) ==
  /\ flush[f].pc = "next"
  /\ \E m \in flush[f].list :
       outbox' = outbox \ {m} /\ Proceed(f, "post", flush[f].list, m)
  /\ UNCHANGED <<net, mail, copies, excused, toggles, syncs, mishaps>>
SendNext(f) ==
  /\ flush[f].pc = "next"
  /\ \E m \in flush[f].list : Proceed(f, "post", flush[f].list, m)
  /\ UNCHANGED <<net, outbox, mail, copies, excused, toggles, syncs, mishaps>>

Accept(f) ==
  /\ flush[f].pc = "post" /\ net
  /\ copies' = Another(copies, flush[f].at)
  /\ flush' = [flush EXCEPT ![f].pc = "posted"]
  /\ UNCHANGED <<net, tab, outbox, mail, excused, toggles, syncs, mishaps>>

\* The request fails, or its answer is lost: the email stays, and the next one is tried.
MutStopEarly(f) == {}
Rest(f) == flush[f].list \ {flush[f].at}

Fail(f) ==
  /\ flush[f].pc \in {"post", "posted"}
  /\ RequestFails
  /\ Proceed(f, "next", Rest(f), NoMail)
  /\ excused' = IF flush[f].pc = "posted" THEN Another(excused, flush[f].at) ELSE excused
  /\ UNCHANGED <<net, outbox, mail, copies, toggles, syncs>>

\* The answer has come: the email is removed, and the next one is tried.
MutNotRemoved(f) == outbox
Left(f) == outbox \ {flush[f].at}

Remove(f) ==
  /\ flush[f].pc = "posted"
  /\ outbox' = Left(f)
  /\ Proceed(f, "next", Rest(f), NoMail)
  /\ UNCHANGED <<net, mail, copies, excused, toggles, syncs, mishaps>>

-----------------------------------------------------------------------------
(* the compose page *)

MailAt(m, pc) == mail' = [mail EXCEPT ![m].pc = pc]

\* handleSend: known to be offline, it queues instead of sending.
Compose(m, t) ==
  /\ mail[m].pc = "new" /\ tab[t].open
  /\ mail' = [mail EXCEPT ![m] = [pc |-> IF tab[t].online THEN "send" ELSE "queue", tab |-> t]]
  /\ UNCHANGED <<net, tab, outbox, flush, copies, excused, toggles, syncs, mishaps>>

AcceptMail(m) ==
  /\ mail[m].pc = "send" /\ net
  /\ copies' = Another(copies, m)
  /\ MailAt(m, "accepted")
  /\ UNCHANGED <<net, tab, outbox, flush, excused, toggles, syncs, mishaps>>

ShowSent(m) ==
  /\ mail[m].pc = "accepted"
  /\ MailAt(m, "sent")
  /\ UNCHANGED <<net, tab, outbox, flush, copies, excused, toggles, syncs, mishaps>>

\* "Fall back to queueing" when the connection is down by now; else the user sees an error.
AfterFailure == IF net THEN "failed" ELSE "queue"

FailMail(m) ==
  /\ mail[m].pc \in {"send", "accepted"}
  /\ RequestFails
  /\ MailAt(m, AfterFailure)
  /\ excused' = IF mail[m].pc = "accepted" THEN Another(excused, m) ELSE excused
  /\ UNCHANGED <<net, tab, outbox, flush, copies, toggles, syncs>>

\* queueOutboxEmail, after which the user is told that it "will send automatically when
\* you reconnect".
Queue(m) ==
  /\ mail[m].pc = "queue"
  /\ outbox' = outbox \cup {m}
  /\ MailAt(m, "queued")
  /\ UNCHANGED <<net, tab, flush, copies, excused, toggles, syncs, mishaps>>

-----------------------------------------------------------------------------
(* tabs *)

\* What goes on in the tab stops where it is.
CloseTab(t) ==
  /\ tab[t].open /\ Mishap
  /\ tab' = [tab EXCEPT ![t].open = FALSE]
  /\ flush' = [f \in Flushes |-> IF flush[f].tab = t THEN NoFlush ELSE flush[f]]
  /\ mail' = [m \in Mails |-> IF mail[m].tab = t /\ mail[m].pc \in {"send", "accepted", "queue"}
                              THEN [mail[m] EXCEPT !.pc = "gone"] ELSE mail[m]]
  /\ excused' = [m \in Mails |-> excused[m] +
                   Cardinality({f \in Flushes : flush[f].tab = t /\ flush[f].pc = "posted" /\ flush[f].at = m})]
  /\ UNCHANGED <<net, outbox, copies, toggles, syncs>>

\* A new engine knows the connection, and does not flush.
OpenTab(t) ==
  /\ ~tab[t].open
  /\ tab' = [tab EXCEPT ![t] = [open |-> TRUE, online |-> net, syncing |-> FALSE]]
  /\ UNCHANGED <<net, outbox, mail, flush, copies, excused, toggles, syncs, mishaps>>

-----------------------------------------------------------------------------

Flushing(f) ==
  FetchNew(f) \/ ReadOutbox(f) \/ SendNext(f) \/ Accept(f) \/ Fail(f) \/ Remove(f)

Composing(m) ==
  (\E t \in Tabs : Compose(m, t)) \/ AcceptMail(m) \/ ShowSent(m) \/ FailMail(m) \/ Queue(m)

OutboxNext ==
  \/ Toggle
  \/ \E t \in Tabs : Hear(t) \/ SyncNow(t) \/ CloseTab(t) \/ OpenTab(t)
  \/ \E f \in Flushes : Flushing(f)
  \/ \E m \in Mails : Composing(m)

OutboxSpec == OutboxInit /\ [][OutboxNext]_outboxVars

\* Requests end, one way or another, and the events of a tab are handled: as long as there
\* is something of that to do, something of it is done.
OutboxFairness ==
  WF_outboxVars(\/ \E f \in Flushes : Flushing(f)
                \/ \E t \in Tabs : Hear(t)
                \/ \E m \in Mails : AcceptMail(m) \/ ShowSent(m) \/ FailMail(m) \/ Queue(m))

-----------------------------------------------------------------------------
(* properties *)

\* Type invariant: the shape of every variable, and nothing else.
OutboxTypeOK ==
  /\ net \in BOOLEAN
  /\ tab \in [Tabs -> [open : BOOLEAN, online : BOOLEAN, syncing : BOOLEAN]]
  /\ outbox \subseteq Mails
  /\ mail \in [Mails -> [pc : {"new", "send", "accepted", "sent", "failed", "queue", "queued", "gone"},
                         tab : Tabs \cup {NoTab}]]
  /\ flush \in [Flushes -> [pc : {"idle", "fetch", "read", "next", "post", "posted"}, tab : Tabs \cup {NoTab},
                            list : SUBSET Mails, at : Mails \cup {NoMail}, sync : BOOLEAN]]
  /\ copies \in [Mails -> Nat] /\ excused \in [Mails -> Nat]
  /\ toggles \in 0 .. MaxToggles /\ syncs \in 0 .. MaxSyncs /\ mishaps \in 0 .. MaxMishaps

\* Mail the user was told is queued is in the outbox until the server has it: no failure,
\* closed tab or second flush makes it vanish unsent.
QueuedMailIsKept == \A m \in Mails : mail[m].pc = "queued" => m \in outbox \/ copies[m] > 0

\* A recipient gets an email twice only for a reason: an answer that was lost, a tab that
\* was closed before it could remove the email, or two flushes that both had it in hand.
CopiesAreExcused == \A m \in Mails : copies[m] <= 1 + excused[m]

\* Whatever a flush finds in the outbox it tries to send: as long as nothing goes wrong
\* the mail leaves the outbox.
FlushedMailLeaves ==
  \A m \in Mails : (InHand(m) /\ mishaps = 0) ~> (m \notin outbox \/ mishaps > 0 \/ ~net)
=============================================================================
