------------------------------ MODULE AgentSend ------------------------------
(***************************************************************************)
(* apps/api: routes/agent.ts and lib/agent-send.ts: the replies an agent   *)
(* has drafted in one run, which the user edits, rejects, or approves: one *)
(* by one, a selection, or the whole run.  Each request reads a draft,     *)
(* decides on what it has read, writes by id alone, and an approval then   *)
(* turns the draft into an email.  Every await is a step; the two inserts  *)
(* of an email are one.                                                    *)
(*                                                                         *)
(* The quota such an email uses up is SendAdmission's, of a request        *)
(* without a key; what becomes of its job is MtaWorker's.                  *)
(***************************************************************************)
EXTENDS Integers, Sequences, FiniteSets

CONSTANTS
  Drafts,          \* drafts of the run
  Asks,            \* requests in flight at once
  MaxAgentAsks,    \* bound on the requests ever made
  AgentMaxFaults   \* bound on rejected commands and dead processes

NoDraft == "no draft"

ASSUME AgentAssumption ==
  IsFiniteSet(Asks) /\ NoDraft \notin Drafts /\ MaxAgentAsks \in Nat /\ AgentMaxFaults \in Nat

VARIABLES
  draft,           \* agent_drafts: status, and the version of the body
  ask,             \* ask[q]: what request q is for, where it is, what it has read
  saved,           \* saved[d]: emails inserted for d
  letters,         \* letters[d]: bodies of the jobs added for d
  meetings,        \* meetings[d]: how often a request took up d while another had it in hand (history)
  agentAsks,       \* requests so far (bounded)
  agentFaults      \* faults so far (bounded)

agentVars == <<draft, ask, saved, letters, meetings, agentAsks, agentFaults>>

NoAsk == [kind |-> "none", pc |-> "idle", todo |-> {}, now |-> NoDraft, seen |-> [d \in Drafts |-> 0]]

AgentFault == agentFaults < AgentMaxFaults /\ agentFaults' = agentFaults + 1

AgentInit ==
  /\ draft = [d \in Drafts |-> [status |-> "pending", body |-> 0]]
  /\ ask = [q \in Asks |-> NoAsk]
  /\ saved = [d \in Drafts |-> 0]
  /\ letters = [d \in Drafts |-> << >>]
  /\ meetings = [d \in Drafts |-> 0]
  /\ agentAsks = 0
  /\ agentFaults = 0

MutAnyDraft(d) == TRUE
Open(d) == draft[d].status \in {"pending", "edited"}

\* What a request has read and not dealt with yet.
InHand(q) ==
  (IF ask[q].now = NoDraft THEN {} ELSE {ask[q].now})
    \cup (IF ask[q].kind = "run" /\ ask[q].pc # "read" THEN ask[q].todo ELSE {})

Takes(q, S) ==
  meetings' = [d \in Drafts |-> IF d \in S /\ \E p \in Asks \ {q} : d \in InHand(p)
                                THEN meetings[d] + 1 ELSE meetings[d]]

-----------------------------------------------------------------------------
(* the request *)

AskFor(q, what, S) ==
  /\ ask[q].pc = "idle" /\ agentAsks < MaxAgentAsks
  /\ ask' = [ask EXCEPT ![q] = [NoAsk EXCEPT !.kind = what, !.pc = "read", !.todo = S]]
  /\ agentAsks' = agentAsks + 1
  /\ UNCHANGED <<draft, saved, letters, meetings, agentFaults>>

UserAsks(q) ==
  \/ \E d \in Drafts, what \in {"one", "reject", "edit"} : AskFor(q, what, {d})
  \/ \E S \in SUBSET Drafts : S # {} /\ AskFor(q, "batch", S)
  \/ AskFor(q, "run", Drafts)

\* The draft in hand is dealt with: the next one is, or the request ends.
Onward(q) ==
  IF ask[q].todo = {} THEN NoAsk
  ELSE [ask[q] EXCEPT !.now = NoDraft, !.pc = IF ask[q].kind = "run" THEN "decide" ELSE "read"]

\* One draft is read; one that is neither pending nor edited is refused, or passed over.
ReadDraft(q, d) ==
  /\ ask[q].pc = "read" /\ ask[q].kind # "run" /\ d \in ask[q].todo
  /\ LET rest == ask[q].todo \ {d} IN
     ask' = [ask EXCEPT ![q] =
       IF Open(d) THEN [ask[q] EXCEPT !.pc = "decide", !.now = d, !.todo = rest, !.seen[d] = draft[d].body]
       ELSE IF rest = {} THEN NoAsk ELSE [ask[q] EXCEPT !.todo = rest]]
  /\ IF Open(d) THEN Takes(q, {d}) ELSE UNCHANGED meetings
  /\ UNCHANGED <<draft, saved, letters, agentAsks, agentFaults>>

\* The whole run is read at once, long before its last draft is dealt with.
ReadRun(q) ==
  LET open == {d \in Drafts : Open(d)} IN
  /\ ask[q].pc = "read" /\ ask[q].kind = "run"
  /\ ask' = [ask EXCEPT ![q] =
       IF open = {} THEN NoAsk
       ELSE [@ EXCEPT !.pc = "decide", !.todo = open, !.seen = [d \in Drafts |-> draft[d].body]]]
  /\ Takes(q, open)
  /\ UNCHANGED <<draft, saved, letters, agentAsks, agentFaults>>

\* The decision is written, whatever the draft is by now.
Decide(q, d) ==
  /\ ask[q].pc = "decide"
  /\ IF ask[q].now = NoDraft THEN d \in ask[q].todo ELSE d = ask[q].now
  /\ CASE ask[q].kind = "reject" ->
            /\ draft' = [draft EXCEPT ![d].status = "rejected"]
            /\ ask' = [ask EXCEPT ![q] = NoAsk]
       [] ask[q].kind = "edit" ->
            /\ draft' = [draft EXCEPT ![d] = [status |-> "edited", body |-> agentAsks]]
            /\ ask' = [ask EXCEPT ![q] = NoAsk]
       [] OTHER ->
            /\ draft' = [draft EXCEPT ![d].status = "approved"]
            /\ ask' = [ask EXCEPT ![q].now = d, ![q].todo = @ \ {d},
                                  ![q].pc = IF ask[q].kind = "one" THEN "again" ELSE "gate"]
  /\ UNCHANGED <<saved, letters, meetings, agentAsks, agentFaults>>

\* An approval of one draft reads it once more.
ReadAgain(q) ==
  /\ ask[q].pc = "again"
  /\ ask' = [ask EXCEPT ![q].pc = "gate", ![q].seen[ask[q].now] = draft[ask[q].now].body]
  /\ UNCHANGED <<draft, saved, letters, meetings, agentAsks, agentFaults>>

-----------------------------------------------------------------------------
(* enqueueAgentDraftForSend *)

\* Account, domain and the pre-send gate: a refusal leaves nothing but the approved draft.
PassGate(q) ==
  /\ ask[q].pc = "gate"
  /\ \E allowed \in BOOLEAN :
       ask' = [ask EXCEPT ![q] = IF allowed THEN [ask[q] EXCEPT !.pc = "save"] ELSE Onward(q)]
  /\ UNCHANGED <<draft, saved, letters, meetings, agentAsks, agentFaults>>

SaveLetter(q) ==
  /\ ask[q].pc = "save"
  /\ saved' = [saved EXCEPT ![ask[q].now] = @ + 1]
  /\ ask' = [ask EXCEPT ![q].pc = "add"]
  /\ UNCHANGED <<draft, letters, meetings, agentAsks, agentFaults>>

\* The body is the one the request has in hand.
AddLetter(q) ==
  LET d == ask[q].now IN
  /\ ask[q].pc = "add"
  /\ letters' = [letters EXCEPT ![d] = Append(@, ask[q].seen[d])]
  /\ ask' = [ask EXCEPT ![q].pc = "note"]
  /\ UNCHANGED <<draft, saved, meetings, agentAsks, agentFaults>>

NoteSent(q) ==
  /\ ask[q].pc = "note"
  /\ ask' = [ask EXCEPT ![q] = Onward(q)]
  /\ UNCHANGED <<draft, saved, letters, meetings, agentAsks, agentFaults>>

\* A command is rejected: within enqueueAgentDraftForSend the others of a selection or a
\* run go on, before it the request ends.
AskFails(q) ==
  /\ ask[q].pc # "idle"
  /\ AgentFault
  /\ ask' = [ask EXCEPT ![q] = IF ask[q].pc \in {"read", "decide", "again"} THEN NoAsk ELSE Onward(q)]
  /\ UNCHANGED <<draft, saved, letters, meetings, agentAsks>>

AgentCrash ==
  /\ AgentFault
  /\ ask' = [q \in Asks |-> NoAsk]
  /\ UNCHANGED <<draft, saved, letters, meetings, agentAsks>>

-----------------------------------------------------------------------------

AgentNext ==
  \/ \E q \in Asks :
       \/ UserAsks(q) \/ ReadRun(q) \/ ReadAgain(q)
       \/ \E d \in Drafts : ReadDraft(q, d) \/ Decide(q, d)
       \/ PassGate(q) \/ SaveLetter(q) \/ AddLetter(q) \/ NoteSent(q) \/ AskFails(q)
  \/ AgentCrash

AgentSpec == AgentInit /\ [][AgentNext]_agentVars

-----------------------------------------------------------------------------
(* properties *)

\* Type invariant: the shape of every variable, and nothing else.
AgentTypeOK ==
  /\ draft \in [Drafts -> [status : {"pending", "edited", "approved", "rejected"}, body : 0 .. MaxAgentAsks]]
  /\ ask \in [Asks -> [kind : {"none", "one", "batch", "run", "reject", "edit"},
                       pc : {"idle", "read", "decide", "again", "gate", "save", "add", "note"},
                       todo : SUBSET Drafts, now : Drafts \cup {NoDraft}, seen : [Drafts -> 0 .. MaxAgentAsks]]]
  /\ saved \in [Drafts -> Nat] /\ letters \in [Drafts -> Seq(0 .. MaxAgentAsks)]
  /\ meetings \in [Drafts -> Nat]
  /\ agentAsks \in 0 .. MaxAgentAsks /\ agentFaults \in 0 .. AgentMaxFaults

\* A draft that two requests never had in hand at once becomes an email with the body it has,
\* and none when it was rejected.
SentAsApproved(d) ==
  /\ draft[d].status = "approved" \/ letters[d] = << >>
  /\ letters[d] # << >> => letters[d][1] = draft[d].body

\* Requests that have saved the email of d and not yet added its job.
Adding(d) == {q \in Asks : ask[q].pc = "add" /\ ask[q].now = d}

\* "a refused draft must leave no row, no delivery_results, and no queue job behind"
\* (agent-send.ts): a row without a job means that something failed in between.
NothingIsHalfSent ==
  agentFaults = 0 => \A d \in Drafts : saved[d] = Len(letters[d]) + Cardinality(Adding(d))

\* Whatever is approved, edited and rejected, and however it fails, a draft becomes one email,
\* as the user has decided. The status is read and written in two statements (agent.ts:679), so
\* requests about one draft that meet may send it again, or what was rejected or edited since,
\* but no meeting costs more than one email.
DraftsAreSettled ==
  /\ NothingIsHalfSent
  /\ \A d \in Drafts : Len(letters[d]) <= 1 + meetings[d]
  /\ \A d \in Drafts : meetings[d] = 0 => SentAsApproved(d)
=============================================================================
