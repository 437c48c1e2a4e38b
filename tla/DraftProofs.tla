----------------------------- MODULE DraftProofs -----------------------------
(***************************************************************************)
(* Proofs about AgentSend, for any drafts, requests and faults.            *)
(***************************************************************************)
EXTENDS AgentSend, FiniteSetTheorems, TLAPS

-----------------------------------------------------------------------------
(***************************************************************************)
(* AgentSend.  A draft at which no requests met is settled as approved     *)
(* because the one that has it in hand still finds it as it read it:       *)
(* AgentInv says what that is before and after the decision is written,    *)
(* and that nobody else has it.  And each meeting costs one email at most, *)
(* because it arms one request more: BoundOK counts the armed.             *)
(***************************************************************************)

(* what a request r has in hand *)

\* Draft d is in hand.
Holds(r, d) == r.now = d \/ (r.kind = "run" /\ r.pc # "read" /\ d \in r.todo)

\* It is, and the decision is not written.
Before(r, d) == Holds(r, d) /\ (r.now # d \/ r.pc = "decide")

\* The approval is written, and the email has no job.
After(r, d) == r.now = d /\ r.pc \in {"again", "gate", "save", "add"}

ShapeOf(r) ==
  /\ r.pc \in {"idle", "read"} => r.now = NoDraft
  /\ r.pc \in {"again", "gate", "save", "add", "note"} => r.now \in Drafts
  /\ r.pc = "decide" => (r.kind = "run" <=> r.now = NoDraft)
  /\ r.now \notin r.todo

LetterOK(d) ==
  letters[d] # << >> =>
    draft[d].status = "approved" /\ Len(letters[d]) = 1 /\ letters[d][1] = draft[d].body

DraftOK(d) ==
  /\ LetterOK(d)
  /\ \A q \in Asks : Before(ask[q], d) =>
       Open(d) /\ letters[d] = << >> /\ ask[q].seen[d] = draft[d].body
  /\ \A q \in Asks : After(ask[q], d) =>
       /\ draft[d].status = "approved" /\ letters[d] = << >>
       /\ ask[q].pc # "again" => ask[q].seen[d] = draft[d].body
  /\ \A p, q \in Asks : Holds(ask[p], d) /\ Holds(ask[q], d) => p = q

Shapes == \A q \in Asks : ShapeOf(ask[q])

\* The requests that may still send d, and those of them that have written the decision.
Armed(d)   == {q \in Asks : Before(ask[q], d) \/ After(ask[q], d)}
Sending(d) == {q \in Asks : After(ask[q], d)}

BoundOK(d) ==
  /\ Len(letters[d]) + Cardinality(Armed(d)) <= 1 + meetings[d]
  /\ Open(d) => Len(letters[d]) + Cardinality(Sending(d)) <= meetings[d]

AgentInv ==
  /\ AgentTypeOK /\ Shapes
  /\ \A d \in Drafts : (meetings[d] = 0 => DraftOK(d)) /\ BoundOK(d)

AskType ==
  [kind : {"none", "one", "batch", "run", "reject", "edit"},
   pc : {"idle", "read", "decide", "again", "gate", "save", "add", "note"},
   todo : SUBSET Drafts, now : Drafts \cup {NoDraft}, seen : [Drafts -> 0 .. MaxAgentAsks]]

-----------------------------------------------------------------------------
(* the records a request becomes *)

\* No request: nothing in hand.
LEMMA NoAskFacts ==
  /\ NoAsk \in AskType /\ NoAsk.pc = "idle" /\ NoAsk.now = NoDraft /\ NoAsk.kind = "none"
  /\ ShapeOf(NoAsk)
  /\ \A d \in Drafts : ~ Holds(NoAsk, d) /\ ~ Before(NoAsk, d) /\ ~ After(NoAsk, d)
BY AgentAssumption DEF NoAsk, AskType, ShapeOf, Holds, Before, After

\* In a state of the right shape, a request is a record of its type.
LEMMA AskIsTyped ==
  ASSUME AgentTypeOK, NEW q \in Asks
  PROVE  ask[q] \in AskType
BY DEF AgentTypeOK, AskType

\* Going on to the next draft lets go of the one in hand, and of nothing else.
LEMMA OnwardFacts ==
  ASSUME AgentTypeOK, Shapes, NEW q \in Asks, ask[q].pc \in {"again", "gate", "save", "add", "note"}
  PROVE  /\ Onward(q) \in AskType /\ ShapeOf(Onward(q)) /\ Onward(q).pc # "add"
         /\ \A d \in Drafts :
              /\ Holds(Onward(q), d) => Holds(ask[q], d)
              /\ Before(Onward(q), d) => Before(ask[q], d) /\ Onward(q).seen[d] = ask[q].seen[d]
              /\ ~ After(Onward(q), d)
<1> DEFINE next == [ask[q] EXCEPT !.now = NoDraft, !.pc = IF ask[q].kind = "run" THEN "decide" ELSE "read"]
<1>1. ask[q] \in AskType /\ ShapeOf(ask[q])
  BY AskIsTyped DEF Shapes
<1>2. CASE ask[q].todo = {}
  <2>1. Onward(q) = NoAsk
    BY <1>2 DEF Onward
  <2> QED
    BY <2>1, NoAskFacts
<1>3. CASE ask[q].todo # {}
  <2>1. Onward(q) = next
    BY <1>3 DEF Onward
  <2>2. next \in AskType
    BY <1>1 DEF AskType
  <2>3. /\ next.now = NoDraft /\ next.kind = ask[q].kind /\ next.todo = ask[q].todo /\ next.seen = ask[q].seen
        /\ next.pc = IF ask[q].kind = "run" THEN "decide" ELSE "read"
    BY <1>1 DEF AskType
  <2>4. NoDraft \notin next.todo
    BY <1>1, <2>3, AgentAssumption DEF AskType
  <2> HIDE DEF next
  <2>5. ShapeOf(next) /\ next.pc # "add"
    BY <2>3, <2>4 DEF ShapeOf
  <2>6. ASSUME NEW d \in Drafts
        PROVE  /\ Holds(next, d) => Holds(ask[q], d)
               /\ Before(next, d) => Before(ask[q], d)
               /\ ~ After(next, d)
    <3>1. d # NoDraft
      BY AgentAssumption
    <3>2. Holds(next, d) => d \in ask[q].todo /\ ask[q].kind = "run"
      BY <3>1, <2>3 DEF Holds
    <3>3. d \in ask[q].todo => d # ask[q].now
      BY <1>1 DEF ShapeOf
    <3> QED
      BY <3>1, <3>2, <3>3, <2>3 DEF Holds, Before, After
  <2> QED
    BY <2>1, <2>2, <2>3, <2>5, <2>6
<1> QED
  BY <1>2, <1>3

-----------------------------------------------------------------------------
(* the type invariant, and the shape of the requests *)

LEMMA SetAsk ==
  ASSUME AgentTypeOK, Shapes, NEW q \in Asks, NEW r, ask' = [ask EXCEPT ![q] = r],
         r \in AskType, ShapeOf(r)
  PROVE  ask' \in [Asks -> AskType] /\ Shapes'
BY DEF AgentTypeOK, AskType, Shapes

LEMMA InitShape == AgentInit => AgentTypeOK /\ Shapes
<1> SUFFICES ASSUME AgentInit PROVE AgentTypeOK /\ Shapes
  OBVIOUS
<1>1. ask \in [Asks -> AskType] /\ Shapes
  BY NoAskFacts DEF AgentInit, Shapes
<1>2. AgentTypeOK
  BY <1>1, AgentAssumption DEF AgentInit, AgentTypeOK, AskType
<1> QED
  BY <1>1, <1>2

LEMMA StepShape ==
  ASSUME AgentTypeOK, Shapes, [AgentNext]_agentVars
  PROVE  AgentTypeOK' /\ Shapes'
<1> DEFINE Rest == /\ draft' \in [Drafts -> [status : {"pending", "edited", "approved", "rejected"}, body : 0 .. MaxAgentAsks]]
                   /\ saved' \in [Drafts -> Nat] /\ letters' \in [Drafts -> Seq(0 .. MaxAgentAsks)]
                   /\ meetings' \in [Drafts -> Nat]
                   /\ agentAsks' \in 0 .. MaxAgentAsks /\ agentFaults' \in 0 .. AgentMaxFaults
           Fine == ask' \in [Asks -> AskType] /\ Shapes'
<1> SUFFICES Rest /\ Fine
  BY DEF AgentTypeOK, AskType
<1>a. ASSUME NEW q \in Asks PROVE ask[q] \in AskType /\ ShapeOf(ask[q])
  BY AskIsTyped DEF Shapes
<1>n. NoAsk \in AskType /\ ShapeOf(NoAsk)
  BY NoAskFacts
<1>f. AgentFault => agentFaults' \in 0 .. AgentMaxFaults
  BY AgentAssumption DEF AgentFault, AgentTypeOK
<1>t. ASSUME NEW q, NEW S \in SUBSET Drafts, Takes(q, S) PROVE meetings' \in [Drafts -> Nat]
  BY <1>t DEF Takes, AgentTypeOK
<1>1. ASSUME NEW q \in Asks, UserAsks(q) PROVE Rest /\ Fine
  <2>1. PICK what \in {"one", "reject", "edit", "batch", "run"}, S \in SUBSET Drafts : AskFor(q, what, S)
    BY <1>1 DEF UserAsks
  <2> DEFINE r == [NoAsk EXCEPT !.kind = what, !.pc = "read", !.todo = S]
  <2>2. r \in AskType
    BY <1>n DEF AskType
  <2>3. r.pc = "read" /\ r.now = NoDraft /\ r.todo = S
    BY DEF NoAsk
  <2>4. ShapeOf(r)
    BY <2>3, AgentAssumption DEF ShapeOf
  <2> HIDE DEF r
  <2>5. ask' = [ask EXCEPT ![q] = r]
    BY <2>1 DEF AskFor, r
  <2>6. Rest
    BY <2>1, AgentAssumption DEF AskFor, AgentTypeOK
  <2> QED
    BY <2>2, <2>4, <2>5, <2>6, SetAsk
<1>2. ASSUME NEW q \in Asks, NEW d \in Drafts, ReadDraft(q, d) PROVE Rest /\ Fine
  <2> DEFINE rest == ask[q].todo \ {d}
             r1 == [ask[q] EXCEPT !.pc = "decide", !.now = d, !.todo = rest, !.seen[d] = draft[d].body]
             r2 == [ask[q] EXCEPT !.todo = rest]
  <2>1. Rest
    BY <1>2, <1>t DEF ReadDraft, AgentTypeOK
  <2>2. draft[d].body \in 0 .. MaxAgentAsks
    BY DEF AgentTypeOK
  <2>3. r1 \in AskType /\ r2 \in AskType
    BY <1>a, <2>2 DEF AskType
  <2>4. /\ r1.pc = "decide" /\ r1.kind = ask[q].kind /\ r1.now = d /\ r1.todo = rest
        /\ r2.pc = ask[q].pc /\ r2.kind = ask[q].kind /\ r2.now = ask[q].now /\ r2.todo = rest
    BY <1>a DEF AskType
  <2>5. ask[q].pc = "read" /\ ask[q].kind # "run"
    BY <1>2 DEF ReadDraft
  <2>6. ShapeOf(r1) /\ ShapeOf(r2)
    BY <1>a, <2>4, <2>5, AgentAssumption DEF ShapeOf
  <2>7. ask' = [ask EXCEPT ![q] = IF Open(d) THEN r1 ELSE IF rest = {} THEN NoAsk ELSE r2]
    BY <1>2 DEF ReadDraft
  <2> HIDE DEF r1, r2
  <2>8. Fine
    <3> DEFINE r == IF Open(d) THEN r1 ELSE IF rest = {} THEN NoAsk ELSE r2
    <3>1. r \in AskType /\ ShapeOf(r)
      BY <1>n, <2>3, <2>6
    <3> HIDE DEF r
    <3> QED
      BY <3>1, <2>7, SetAsk DEF r
  <2> QED
    BY <2>1, <2>8
<1>3. ASSUME NEW q \in Asks, ReadRun(q) PROVE Rest /\ Fine
  <2> DEFINE open == {d \in Drafts : Open(d)}
             r1 == [ask[q] EXCEPT !.pc = "decide", !.todo = open, !.seen = [d \in Drafts |-> draft[d].body]]
             r == IF open = {} THEN NoAsk ELSE r1
  <2>1. Rest
    BY <1>3, <1>t DEF ReadRun, AgentTypeOK
  <2>2. [d \in Drafts |-> draft[d].body] \in [Drafts -> 0 .. MaxAgentAsks]
    BY DEF AgentTypeOK
  <2>3. r1 \in AskType
    BY <1>a, <2>2 DEF AskType
  <2>4. r1.pc = "decide" /\ r1.kind = ask[q].kind /\ r1.now = ask[q].now /\ r1.todo = open
    BY <1>a DEF AskType
  <2>5. ask[q].pc = "read" /\ ask[q].kind = "run" /\ ask' = [ask EXCEPT ![q] = r]
    BY <1>3 DEF ReadRun
  <2>6. ShapeOf(r1)
    BY <1>a, <2>4, <2>5, AgentAssumption DEF ShapeOf
  <2>7. r \in AskType /\ ShapeOf(r)
    BY <1>n, <2>3, <2>6
  <2> HIDE DEF r
  <2> QED
    BY <2>1, <2>5, <2>7, SetAsk
<1>4. ASSUME NEW q \in Asks, NEW d \in Drafts, Decide(q, d) PROVE Rest /\ Fine
  <2> DEFINE r1 == [ask[q] EXCEPT !.now = d, !.todo = ask[q].todo \ {d},
                                 !.pc = IF ask[q].kind = "one" THEN "again" ELSE "gate"]
  <2> DEFINE DraftType == [status : {"pending", "edited", "approved", "rejected"}, body : 0 .. MaxAgentAsks]
  <2>1. draft' \in [Drafts -> DraftType]
    <3>1. \/ draft' = [draft EXCEPT ![d].status = "rejected"]
          \/ draft' = [draft EXCEPT ![d] = [status |-> "edited", body |-> agentAsks]]
          \/ draft' = [draft EXCEPT ![d].status = "approved"]
      <4>1. CASE ask[q].kind = "reject"
        BY <1>4, <4>1 DEF Decide
      <4>2. CASE ask[q].kind = "edit"
        BY <1>4, <4>2 DEF Decide
      <4>3. CASE ask[q].kind \notin {"reject", "edit"}
        BY <1>4, <4>3 DEF Decide
      <4> QED
        BY <4>1, <4>2, <4>3
    <3>2. ASSUME NEW s \in {"rejected", "approved"}, draft' = [draft EXCEPT ![d].status = s]
          PROVE  draft' \in [Drafts -> DraftType]
      BY ZenonT(40), <3>2 DEF AgentTypeOK
    <3>3. CASE draft' = [draft EXCEPT ![d] = [status |-> "edited", body |-> agentAsks]]
      BY <3>3 DEF AgentTypeOK
    <3> QED
      BY <3>1, <3>2, <3>3
  <2>2. Rest
    BY <1>4, <2>1 DEF Decide, AgentTypeOK
  <2>3. r1 \in AskType
    BY ZenonT(40), <1>a DEF AskType
  <2>4. r1.pc \in {"again", "gate"} /\ r1.now = d /\ r1.todo = ask[q].todo \ {d}
    BY <1>a DEF AskType
  <2>5. ShapeOf(r1)
    BY <2>4 DEF ShapeOf
  <2>6. ask' = [ask EXCEPT ![q] = NoAsk] \/ ask' = [ask EXCEPT ![q] = r1]
    <3>1. CASE ask[q].kind \in {"reject", "edit"}
      BY <1>4, <3>1 DEF Decide
    <3>2. CASE ask[q].kind \notin {"reject", "edit"}
      <4>1. ask' = [ask EXCEPT ![q].now = d, ![q].todo = @ \ {d},
                               ![q].pc = IF ask[q].kind = "one" THEN "again" ELSE "gate"]
        BY <1>4, <3>2 DEF Decide
      <4> QED
        BY <4>1, <1>a DEF AgentTypeOK, AskType
    <3> QED
      BY <3>1, <3>2
  <2> HIDE DEF r1
  <2> QED
    BY <1>n, <2>2, <2>3, <2>5, <2>6, SetAsk
<1>5. ASSUME NEW q \in Asks, ReadAgain(q) PROVE Rest /\ Fine
  <2> DEFINE d == ask[q].now
             r == [ask[q] EXCEPT !.pc = "gate", !.seen = [ask[q].seen EXCEPT ![d] = draft[d].body]]
  <2>1. Rest
    BY <1>5 DEF ReadAgain, AgentTypeOK
  <2>2. d \in Drafts
    BY <1>5, <1>a DEF ReadAgain, ShapeOf
  <2>3. draft[d].body \in 0 .. MaxAgentAsks
    BY <2>2 DEF AgentTypeOK
  <2>4. r \in AskType
    BY <1>a, <2>3 DEF AskType
  <2>5. r.pc = "gate" /\ r.now = d /\ r.todo = ask[q].todo
    BY <1>a DEF AskType
  <2>6. ShapeOf(r)
    BY <2>5, <2>2, <1>a DEF ShapeOf
  <2>7. ask' = [ask EXCEPT ![q] = r]
    BY <1>5, <1>a DEF ReadAgain, AgentTypeOK, AskType
  <2> HIDE DEF r
  <2> QED
    BY <2>1, <2>4, <2>6, <2>7, SetAsk
<1>6. ASSUME NEW q \in Asks, PassGate(q) PROVE Rest /\ Fine
  <2> DEFINE r == [ask[q] EXCEPT !.pc = "save"]
  <2>1. Rest /\ ask[q].pc = "gate"
    BY <1>6 DEF PassGate, AgentTypeOK
  <2>2. r \in AskType
    BY <1>a DEF AskType
  <2>3. r.pc = "save" /\ r.now = ask[q].now /\ r.todo = ask[q].todo
    BY <1>a DEF AskType
  <2>4. ShapeOf(r)
    BY <2>1, <2>3, <1>a DEF ShapeOf
  <2>5. ask' = [ask EXCEPT ![q] = r] \/ ask' = [ask EXCEPT ![q] = Onward(q)]
    BY <1>6 DEF PassGate
  <2>6. Onward(q) \in AskType /\ ShapeOf(Onward(q))
    BY <2>1, OnwardFacts
  <2> HIDE DEF r
  <2> QED
    BY <2>1, <2>2, <2>4, <2>5, <2>6, SetAsk
<1>7. ASSUME NEW q \in Asks, SaveLetter(q) \/ AddLetter(q) PROVE Rest /\ Fine
  <2> DEFINE to == IF ask[q].pc = "save" THEN "add" ELSE "note"
             r == [ask[q] EXCEPT !.pc = to]
  <2>1. ask[q].pc \in {"save", "add"} /\ to \in {"add", "note"}
    BY <1>7 DEF SaveLetter, AddLetter
  <2>2. ask[q].now \in Drafts
    BY <2>1, <1>a DEF ShapeOf
  <2>3. ask[q].seen[ask[q].now] \in 0 .. MaxAgentAsks
    BY <2>2, <1>a DEF AskType
  <2>4. Rest
    <3>1. CASE SaveLetter(q)
      BY <3>1, <2>2 DEF SaveLetter, AgentTypeOK
    <3>2. CASE AddLetter(q)
      BY SMTT(30), <3>2, <2>2, <2>3 DEF AddLetter, AgentTypeOK
    <3> QED
      BY <1>7, <3>1, <3>2
  <2>5. ask' = [ask EXCEPT ![q] = r]
    BY <1>7, <1>a DEF SaveLetter, AddLetter, AgentTypeOK, AskType
  <2>6. r \in AskType
    BY <1>a, <2>1 DEF AskType
  <2>7. r.pc = to /\ r.now = ask[q].now /\ r.todo = ask[q].todo
    BY <1>a DEF AskType
  <2>8. ShapeOf(r)
    BY <2>1, <2>2, <2>7, <1>a DEF ShapeOf
  <2> HIDE DEF r
  <2> QED
    BY <2>4, <2>5, <2>6, <2>8, SetAsk
<1>8. ASSUME NEW q \in Asks, NoteSent(q) PROVE Rest /\ Fine
  <2>1. Rest /\ ask[q].pc = "note" /\ ask' = [ask EXCEPT ![q] = Onward(q)]
    BY <1>8 DEF NoteSent, AgentTypeOK
  <2> QED
    BY <2>1, OnwardFacts, SetAsk
<1>9. ASSUME NEW q \in Asks, AskFails(q) PROVE Rest /\ Fine
  <2>1. Rest
    BY <1>9, <1>f DEF AskFails, AgentTypeOK
  <2>2. CASE ask[q].pc \in {"read", "decide", "again"}
    BY <1>9, <1>n, <2>1, <2>2, SetAsk DEF AskFails
  <2>3. CASE ask[q].pc \notin {"read", "decide", "again"}
    <3>1. ask[q].pc \in {"gate", "save", "add", "note"}
      BY <1>9, <1>a, <2>3 DEF AskFails, AskType
    <3>2. ask' = [ask EXCEPT ![q] = Onward(q)]
      BY <1>9, <2>3 DEF AskFails
    <3> QED
      BY <2>1, <3>1, <3>2, OnwardFacts, SetAsk
  <2> QED
    BY <2>2, <2>3
<1>10. CASE AgentCrash
  <2>1. Rest
    BY <1>10, <1>f DEF AgentCrash, AgentTypeOK
  <2>2. Fine
    BY <1>10, <1>n DEF AgentCrash, Shapes
  <2> QED
    BY <2>1, <2>2
<1>11. CASE UNCHANGED agentVars
  <2>1. Fine
    BY <1>11, <1>a DEF agentVars, AgentTypeOK, AskType, Shapes
  <2> QED
    BY <1>11, <2>1 DEF agentVars, AgentTypeOK
<1> QED
  BY <1>1, <1>2, <1>3, <1>4, <1>5, <1>6, <1>7, <1>8, <1>9, <1>10, <1>11 DEF AgentNext

\* Every variable keeps its shape (AgentTypeOK), with any number of drafts, requests and
\* faults.
THEOREM AgentTypeCorrect == AgentSpec => []AgentTypeOK
<1>1. AgentInit => AgentTypeOK /\ Shapes
  BY InitShape
<1>2. AgentTypeOK /\ Shapes /\ [AgentNext]_agentVars => (AgentTypeOK /\ Shapes)'
  BY StepShape
<1> QED
  BY <1>1, <1>2, PTL DEF AgentSpec

-----------------------------------------------------------------------------
(* a draft at which no requests met *)

\* InHand, draft by draft.
LEMMA InHandIs ==
  ASSUME NEW q \in Asks, NEW d \in Drafts
  PROVE  d \in InHand(q) <=> Holds(ask[q], d)
BY AgentAssumption DEF InHand, Holds

\* A step that takes up d meets whoever has it in hand.
LEMMA TakesMeet ==
  ASSUME AgentTypeOK, NEW q \in Asks, NEW S \in SUBSET Drafts, Takes(q, S), NEW d \in Drafts
  PROVE  /\ meetings[d] \in Nat /\ meetings'[d] \in {meetings[d], meetings[d] + 1}
         /\ d \in S /\ meetings'[d] = meetings[d] => \A p \in Asks \ {q} : ~ Holds(ask[p], d)
BY InHandIs DEF Takes, AgentTypeOK

\* Meetings are never undone.
LEMMA MeetingsStay ==
  ASSUME AgentTypeOK, [AgentNext]_agentVars, NEW d \in Drafts
  PROVE  meetings[d] \in Nat /\ meetings'[d] \in {meetings[d], meetings[d] + 1}
<1>0. meetings[d] \in Nat
  BY DEF AgentTypeOK
<1>1. ASSUME NEW q \in Asks, UserAsks(q) PROVE meetings' = meetings
  BY ZenonT(40), <1>1 DEF UserAsks, AskFor
<1>2. ASSUME NEW q \in Asks, ReadRun(q) PROVE meetings'[d] \in {meetings[d], meetings[d] + 1}
  <2>1. Takes(q, {x \in Drafts : Open(x)})
    BY <1>2 DEF ReadRun
  <2> QED
    BY <2>1, TakesMeet
<1>3. ASSUME NEW q \in Asks, NEW x \in Drafts, ReadDraft(q, x) PROVE meetings'[d] \in {meetings[d], meetings[d] + 1}
  <2>1. Takes(q, {x}) \/ meetings' = meetings
    BY <1>3 DEF ReadDraft
  <2> QED
    BY <1>0, <2>1, TakesMeet
<1>4. ASSUME NEW q \in Asks, NEW x \in Drafts, Decide(q, x) PROVE meetings' = meetings
  BY <1>4 DEF Decide
<1>5. ASSUME NEW q \in Asks,
             ReadAgain(q) \/ PassGate(q) \/ SaveLetter(q) \/ AddLetter(q) \/ NoteSent(q) \/ AskFails(q)
      PROVE  meetings' = meetings
  BY <1>5 DEF ReadAgain, PassGate, SaveLetter, AddLetter, NoteSent, AskFails
<1>6. AgentCrash => meetings' = meetings
  BY DEF AgentCrash
<1>7. UNCHANGED agentVars => meetings' = meetings
  BY DEF agentVars
<1> QED
  BY <1>0, <1>1, <1>2, <1>3, <1>4, <1>5, <1>6, <1>7 DEF AgentNext

\* A step of q that does not touch draft d, and leaves q no more of it than it had.
LEMMA StaysOK ==
  ASSUME NEW d \in Drafts, NEW q \in Asks, NEW r, AgentTypeOK, DraftOK(d),
         ask' = [ask EXCEPT ![q] = r], draft'[d] = draft[d], letters'[d] = letters[d],
         Holds(r, d) => Holds(ask[q], d),
         Before(r, d) => Before(ask[q], d) /\ r.seen[d] = ask[q].seen[d],
         After(r, d) => After(ask[q], d) /\ ask[q].pc # "again" /\ r.seen[d] = ask[q].seen[d]
  PROVE  DraftOK(d)'
<1>1. ask'[q] = r /\ \A p \in Asks \ {q} : ask'[p] = ask[p]
  BY DEF AgentTypeOK
<1>2. LetterOK(d)'
  BY DEF DraftOK, LetterOK
<1>3. ASSUME NEW p \in Asks, Before(ask'[p], d)
      PROVE  Open(d)' /\ letters'[d] = << >> /\ ask'[p].seen[d] = draft'[d].body
  BY <1>1, <1>3 DEF DraftOK, Open
<1>4. ASSUME NEW p \in Asks, After(ask'[p], d)
      PROVE  /\ draft'[d].status = "approved" /\ letters'[d] = << >>
             /\ ask'[p].pc # "again" => ask'[p].seen[d] = draft'[d].body
  BY <1>1, <1>4 DEF DraftOK
<1>5. ASSUME NEW p \in Asks, Holds(ask'[p], d) PROVE Holds(ask[p], d)
  BY <1>1, <1>5
<1>6. \A p, o \in Asks : Holds(ask'[p], d) /\ Holds(ask'[o], d) => p = o
  BY <1>5 DEF DraftOK
<1> QED
  BY <1>2, <1>3, <1>4, <1>6 DEF DraftOK, Holds, Before, After

\* A step of q about a draft nobody else has in hand.
LEMMA OwnOK ==
  ASSUME NEW d \in Drafts, NEW q \in Asks, NEW r, AgentTypeOK,
         ask' = [ask EXCEPT ![q] = r], \A p \in Asks \ {q} : ~ Holds(ask[p], d),
         LetterOK(d)',
         Before(r, d) => Open(d)' /\ letters'[d] = << >> /\ r.seen[d] = draft'[d].body,
         After(r, d) => /\ draft'[d].status = "approved" /\ letters'[d] = << >>
                        /\ r.pc # "again" => r.seen[d] = draft'[d].body
  PROVE  DraftOK(d)'
<1>1. ask'[q] = r /\ \A p \in Asks \ {q} : ask'[p] = ask[p]
  BY DEF AgentTypeOK
<1>2. \A p \in Asks : Holds(ask'[p], d) => p = q
  BY <1>1
<1>3. \A p \in Asks : Before(ask'[p], d) \/ After(ask'[p], d) => p = q
  BY <1>2 DEF Before, After, Holds
<1>4. ASSUME NEW p \in Asks, Before(ask'[p], d)
      PROVE  Open(d)' /\ letters'[d] = << >> /\ ask'[p].seen[d] = draft'[d].body
  BY <1>1, <1>3, <1>4
<1>5. ASSUME NEW p \in Asks, After(ask'[p], d)
      PROVE  /\ draft'[d].status = "approved" /\ letters'[d] = << >>
             /\ ask'[p].pc # "again" => ask'[p].seen[d] = draft'[d].body
  BY <1>1, <1>3, <1>5
<1> QED
  BY <1>2, <1>4, <1>5 DEF DraftOK, Holds, Before, After

LEMMA StepDraft ==
  ASSUME AgentInv, [AgentNext]_agentVars, NEW d \in Drafts, meetings'[d] = 0
  PROVE  DraftOK(d)'
<1>0. AgentTypeOK /\ Shapes
  BY DEF AgentInv
<1>s. meetings[d] = 0
  BY <1>0, MeetingsStay
<1>o. DraftOK(d) /\ LetterOK(d)
  BY <1>s DEF AgentInv, DraftOK
<1>d. d # NoDraft
  BY AgentAssumption
<1>a. ASSUME NEW q \in Asks PROVE ask[q] \in AskType /\ ShapeOf(ask[q])
  BY <1>0, AskIsTyped DEF Shapes
<1>n. ~ Holds(NoAsk, d) /\ ~ Before(NoAsk, d) /\ ~ After(NoAsk, d)
  BY NoAskFacts
\* Its only holder is the one that takes a step about it.
<1>h. ASSUME NEW q \in Asks, Holds(ask[q], d) PROVE \A p \in Asks \ {q} : ~ Holds(ask[p], d)
  BY <1>o, <1>h DEF DraftOK
\* A request that ends.
<1>e. ASSUME NEW q \in Asks, ask' = [ask EXCEPT ![q] = NoAsk], draft'[d] = draft[d], letters'[d] = letters[d]
      PROVE  DraftOK(d)'
  BY <1>0, <1>o, <1>n, <1>e, StaysOK
\* A request that goes on to its next draft.
<1>w. ASSUME NEW q \in Asks, ask' = [ask EXCEPT ![q] = Onward(q)], draft' = draft, letters' = letters,
             ask[q].pc \in {"again", "gate", "save", "add", "note"}
      PROVE  DraftOK(d)'
  <2> DEFINE r == Onward(q)
  <2>1. /\ Holds(r, d) => Holds(ask[q], d)
        /\ Before(r, d) => Before(ask[q], d) /\ r.seen[d] = ask[q].seen[d]
        /\ ~ After(r, d)
    BY <1>0, <1>w, OnwardFacts
  <2> HIDE DEF r
  <2>2. ask' = [ask EXCEPT ![q] = r]
    BY <1>w DEF r
  <2> QED
    BY <1>0, <1>o, <1>w, <2>1, <2>2, StaysOK
<1>1. ASSUME NEW q \in Asks, UserAsks(q) PROVE DraftOK(d)'
  <2>1. PICK what \in {"one", "reject", "edit", "batch", "run"}, S \in SUBSET Drafts : AskFor(q, what, S)
    BY <1>1 DEF UserAsks
  <2> DEFINE r == [NoAsk EXCEPT !.kind = what, !.pc = "read", !.todo = S]
  <2>2. r.pc = "read" /\ r.now = NoDraft
    BY DEF NoAsk
  <2>3. ~ Holds(r, d) /\ ~ Before(r, d) /\ ~ After(r, d)
    BY <2>2, <1>d DEF Holds, Before, After
  <2>4. ask' = [ask EXCEPT ![q] = r] /\ draft' = draft /\ letters' = letters
    BY <2>1 DEF AskFor
  <2> HIDE DEF r
  <2> QED
    BY <1>0, <1>o, <2>3, <2>4, StaysOK
<1>2. ASSUME NEW q \in Asks, NEW e \in Drafts, ReadDraft(q, e) PROVE DraftOK(d)'
  <2> DEFINE rest == ask[q].todo \ {e}
             r1 == [ask[q] EXCEPT !.pc = "decide", !.now = e, !.todo = rest, !.seen[e] = draft[e].body]
             r2 == [ask[q] EXCEPT !.todo = rest]
  <2>1. /\ r1.pc = "decide" /\ r1.kind = ask[q].kind /\ r1.now = e /\ r1.seen[e] = draft[e].body
        /\ r2.pc = ask[q].pc /\ r2.kind = ask[q].kind /\ r2.now = ask[q].now
    BY <1>a DEF AskType
  <2>2. /\ ask[q].pc = "read" /\ ask[q].kind # "run" /\ draft' = draft /\ letters' = letters
        /\ ask' = [ask EXCEPT ![q] = IF Open(e) THEN r1 ELSE IF rest = {} THEN NoAsk ELSE r2]
        /\ Open(e) => Takes(q, {e})
    BY <1>2 DEF ReadDraft
  <2> HIDE DEF r1, r2
  <2>3. CASE ~ Open(e) /\ rest = {}
    BY <1>e, <2>2, <2>3
  <2>4. CASE ~ Open(e) /\ rest # {}
    <3>1. ~ Holds(r2, d) /\ ~ Before(r2, d) /\ ~ After(r2, d)
      BY <1>a, <1>d, <2>1, <2>2 DEF ShapeOf, Holds, Before, After
    <3>2. ask' = [ask EXCEPT ![q] = r2]
      BY <2>2, <2>4
    <3> QED
      BY <1>0, <1>o, <2>2, <3>1, <3>2, StaysOK
  <2>5. CASE Open(e) /\ e # d
    <3>1. ~ Holds(r1, d) /\ ~ Before(r1, d) /\ ~ After(r1, d)
      BY <1>d, <2>1, <2>2, <2>5 DEF Holds, Before, After
    <3>2. ask' = [ask EXCEPT ![q] = r1]
      BY <2>2, <2>5
    <3> QED
      BY <1>0, <1>o, <2>2, <3>1, <3>2, StaysOK
  <2>6. CASE Open(e) /\ e = d
    <3>1. ask' = [ask EXCEPT ![q] = r1]
      BY <2>2, <2>6
    <3>2. \A p \in Asks \ {q} : ~ Holds(ask[p], d)
      BY <1>0, <1>s, <2>2, <2>6, TakesMeet
    <3>3. letters[d] = << >>
      BY <1>o, <2>6 DEF LetterOK, Open
    <3>4. LetterOK(d)' /\ Open(d)'
      BY <3>3, <2>2, <2>6 DEF LetterOK, Open
    <3>5. ~ After(r1, d)
      BY <2>1 DEF After
    <3> QED
      BY ZenonT(40), <1>0, <2>1, <2>2, <2>6, <3>1, <3>2, <3>3, <3>4, <3>5, OwnOK
  <2> QED
    BY <2>3, <2>4, <2>5, <2>6
<1>3. ASSUME NEW q \in Asks, ReadRun(q) PROVE DraftOK(d)'
  <2> DEFINE open == {e \in Drafts : Open(e)}
             r1 == [ask[q] EXCEPT !.pc = "decide", !.todo = open, !.seen = [e \in Drafts |-> draft[e].body]]
  <2>1. /\ r1.pc = "decide" /\ r1.now = ask[q].now /\ r1.todo = open
        /\ r1.seen = [e \in Drafts |-> draft[e].body]
    BY <1>a DEF AskType
  <2>2. /\ ask[q].pc = "read" /\ draft' = draft /\ letters' = letters /\ Takes(q, open)
        /\ ask' = [ask EXCEPT ![q] = IF open = {} THEN NoAsk ELSE r1]
    BY <1>3 DEF ReadRun
  <2>3. r1.now = NoDraft /\ r1.seen[d] = draft[d].body
    BY <1>a, <2>1, <2>2 DEF ShapeOf
  <2> HIDE DEF r1
  <2>4. CASE open = {}
    BY <1>e, <2>2, <2>4
  <2>5. CASE open # {} /\ d \notin open
    <3>1. ~ Holds(r1, d) /\ ~ Before(r1, d) /\ ~ After(r1, d)
      BY <1>d, <2>1, <2>3, <2>5 DEF Holds, Before, After
    <3>2. ask' = [ask EXCEPT ![q] = r1]
      BY <2>2, <2>5
    <3> QED
      BY <1>0, <1>o, <2>2, <3>1, <3>2, StaysOK
  <2>6. CASE d \in open
    <3>1. ask' = [ask EXCEPT ![q] = r1]
      BY <2>2, <2>6
    <3>2. \A p \in Asks \ {q} : ~ Holds(ask[p], d)
      BY <1>0, <1>s, <2>2, <2>6, TakesMeet
    <3>3. letters[d] = << >>
      BY <1>o, <2>6 DEF LetterOK, Open
    <3>4. LetterOK(d)' /\ Open(d)'
      BY <3>3, <2>2, <2>6 DEF LetterOK, Open
    <3>5. ~ After(r1, d)
      BY <2>1 DEF After
    <3> QED
      BY <1>0, <2>2, <2>3, <3>1, <3>2, <3>3, <3>4, <3>5, OwnOK
  <2> QED
    BY <2>4, <2>5, <2>6
<1>4. ASSUME NEW q \in Asks, NEW e \in Drafts, Decide(q, e) PROVE DraftOK(d)'
  <2> DEFINE r1 == [ask[q] EXCEPT !.now = e, !.todo = ask[q].todo \ {e},
                                 !.pc = IF ask[q].kind = "one" THEN "again" ELSE "gate"]
  <2>1. /\ r1.pc \in {"again", "gate"} /\ r1.now = e /\ r1.todo = ask[q].todo \ {e}
        /\ r1.kind = ask[q].kind /\ r1.seen = ask[q].seen
    BY <1>a DEF AskType
  <2>2. /\ ask[q].pc = "decide" /\ letters' = letters
        /\ IF ask[q].now = NoDraft THEN e \in ask[q].todo ELSE e = ask[q].now
    BY <1>4 DEF Decide
  <2>3. Before(ask[q], e) /\ Holds(ask[q], e)
    BY <1>a, <2>2 DEF Before, Holds, ShapeOf
  <2>4. \/ ask' = [ask EXCEPT ![q] = NoAsk] /\ draft' = [draft EXCEPT ![e].status = "rejected"]
        \/ ask' = [ask EXCEPT ![q] = NoAsk] /\ draft' = [draft EXCEPT ![e] = [status |-> "edited", body |-> agentAsks]]
        \/ ask' = [ask EXCEPT ![q] = r1] /\ draft' = [draft EXCEPT ![e].status = "approved"]
    <3>1. CASE ask[q].kind \in {"reject", "edit"}
      BY <1>4, <3>1 DEF Decide
    <3>2. CASE ask[q].kind \notin {"reject", "edit"}
      <4>1. /\ ask' = [ask EXCEPT ![q].now = e, ![q].todo = @ \ {e},
                                  ![q].pc = IF ask[q].kind = "one" THEN "again" ELSE "gate"]
            /\ draft' = [draft EXCEPT ![e].status = "approved"]
        BY <1>4, <3>2 DEF Decide
      <4>2. ask' = [ask EXCEPT ![q] = r1]
        BY <4>1, <1>0, <1>a DEF AgentTypeOK, AskType
      <4> QED
        BY <4>1, <4>2
    <3> QED
      BY <3>1, <3>2
  <2> HIDE DEF r1
  <2>5. CASE e # d
    <3>1. draft'[d] = draft[d]
      BY <1>0, <2>4, <2>5 DEF AgentTypeOK
    <3>2. CASE ask' = [ask EXCEPT ![q] = NoAsk]
      BY <1>e, <2>2, <3>1, <3>2
    <3>3. CASE ask' = [ask EXCEPT ![q] = r1]
      <4>1. ~ After(r1, d)
        BY <2>1, <2>5 DEF After
      <4>2. Holds(r1, d) => ask[q].now # d /\ Holds(ask[q], d)
        BY <1>a, <2>1, <2>2, <2>5 DEF Holds, ShapeOf
      <4>3. Before(r1, d) => Before(ask[q], d)
        BY <4>2, <2>2 DEF Before
      <4> QED
        BY <1>0, <1>o, <2>1, <2>2, <3>1, <3>3, <4>1, <4>2, <4>3, StaysOK
    <3> QED
      BY <2>4, <3>2, <3>3
  <2>6. CASE e = d
    <3>1. \A p \in Asks \ {q} : ~ Holds(ask[p], d)
      BY <1>h, <2>3, <2>6
    <3>2. letters[d] = << >> /\ ask[q].seen[d] = draft[d].body
      BY <1>o, <2>3, <2>6 DEF DraftOK
    <3>3. LetterOK(d)'
      BY <2>2, <3>2 DEF LetterOK
    <3>4. CASE ask' = [ask EXCEPT ![q] = NoAsk]
      BY <1>0, <1>n, <3>1, <3>3, <3>4, OwnOK
    <3>5. CASE ask' = [ask EXCEPT ![q] = r1] /\ draft' = [draft EXCEPT ![e].status = "approved"]
      <4>1. draft'[d].status = "approved" /\ draft'[d].body = draft[d].body
        BY <1>0, <2>6, <3>5 DEF AgentTypeOK
      <4>2. ~ Before(r1, d)
        BY <2>1, <2>6 DEF Before
      <4> QED
        BY <1>0, <2>1, <2>2, <3>1, <3>2, <3>3, <3>5, <4>1, <4>2, OwnOK
    <3> QED
      BY <2>4, <3>4, <3>5
  <2> QED
    BY <2>5, <2>6
<1>5. ASSUME NEW q \in Asks, ReadAgain(q) PROVE DraftOK(d)'
  <2> DEFINE e == ask[q].now
             r == [ask[q] EXCEPT !.pc = "gate", !.seen = [ask[q].seen EXCEPT ![e] = draft[e].body]]
  <2>1. ask[q].pc = "again" /\ draft' = draft /\ letters' = letters
    BY <1>5 DEF ReadAgain
  <2>2. e \in Drafts
    BY <2>1, <1>a DEF ShapeOf
  <2>3. /\ r.pc = "gate" /\ r.kind = ask[q].kind /\ r.now = e /\ r.todo = ask[q].todo
        /\ r.seen[e] = draft[e].body /\ \A x \in Drafts \ {e} : r.seen[x] = ask[q].seen[x]
    BY <1>a, <2>2 DEF AskType
  <2>4. ask' = [ask EXCEPT ![q] = r]
    BY <1>0, <1>5, <1>a DEF ReadAgain, AgentTypeOK, AskType
  <2> HIDE DEF r
  <2>5. CASE e # d
    <3>1. ~ After(r, d)
      BY <2>3, <2>5 DEF After
    <3>2. (Holds(r, d) => Holds(ask[q], d)) /\ (Before(r, d) => Before(ask[q], d) /\ r.seen[d] = ask[q].seen[d])
      BY <2>1, <2>3, <2>5 DEF Holds, Before
    <3> QED
      BY <1>0, <1>o, <2>1, <2>4, <3>1, <3>2, StaysOK
  <2>6. CASE e = d
    <3>1. Holds(ask[q], d) /\ After(ask[q], d)
      BY <2>1, <2>6 DEF Holds, After
    <3>2. draft[d].status = "approved" /\ letters[d] = << >>
      BY <1>o, <3>1 DEF DraftOK
    <3>3. LetterOK(d)'
      BY <2>1, <3>2 DEF LetterOK
    <3>4. ~ Before(r, d)
      BY <2>3, <2>6 DEF Before
    <3>5. \A p \in Asks \ {q} : ~ Holds(ask[p], d)
      BY <1>h, <3>1
    <3> QED
      BY <1>0, <2>1, <2>3, <2>4, <2>6, <3>2, <3>3, <3>4, <3>5, OwnOK
  <2> QED
    BY <2>5, <2>6
<1>6. ASSUME NEW q \in Asks, PassGate(q) PROVE DraftOK(d)'
  <2> DEFINE r == [ask[q] EXCEPT !.pc = "save"]
  <2>1. ask[q].pc = "gate" /\ draft' = draft /\ letters' = letters
    BY <1>6 DEF PassGate
  <2>2. r.pc = "save" /\ r.kind = ask[q].kind /\ r.now = ask[q].now /\ r.todo = ask[q].todo /\ r.seen = ask[q].seen
    BY <1>a DEF AskType
  <2>3. ask' = [ask EXCEPT ![q] = r] \/ ask' = [ask EXCEPT ![q] = Onward(q)]
    BY <1>6 DEF PassGate
  <2> HIDE DEF r
  <2>4. (Holds(r, d) <=> Holds(ask[q], d)) /\ (Before(r, d) <=> Before(ask[q], d)) /\ (After(r, d) <=> After(ask[q], d))
    BY <2>1, <2>2 DEF Holds, Before, After
  <2>5. CASE ask' = [ask EXCEPT ![q] = r]
    BY <1>0, <1>o, <2>1, <2>2, <2>4, <2>5, StaysOK
  <2> QED
    BY <1>w, <2>1, <2>3, <2>5
<1>7. ASSUME NEW q \in Asks, SaveLetter(q) PROVE DraftOK(d)'
  <2> DEFINE r == [ask[q] EXCEPT !.pc = "add"]
  <2>1. ask[q].pc = "save" /\ draft' = draft /\ letters' = letters
    BY <1>7 DEF SaveLetter
  <2>2. r.pc = "add" /\ r.kind = ask[q].kind /\ r.now = ask[q].now /\ r.todo = ask[q].todo /\ r.seen = ask[q].seen
    BY <1>a DEF AskType
  <2>3. ask' = [ask EXCEPT ![q] = r]
    BY <1>0, <1>7, <1>a DEF SaveLetter, AgentTypeOK, AskType
  <2> HIDE DEF r
  <2>4. (Holds(r, d) <=> Holds(ask[q], d)) /\ (Before(r, d) <=> Before(ask[q], d)) /\ (After(r, d) <=> After(ask[q], d))
    BY <2>1, <2>2 DEF Holds, Before, After
  <2> QED
    BY <1>0, <1>o, <2>1, <2>2, <2>3, <2>4, StaysOK
<1>8. ASSUME NEW q \in Asks, AddLetter(q) PROVE DraftOK(d)'
  <2> DEFINE e == ask[q].now
             r == [ask[q] EXCEPT !.pc = "note"]
  <2>1. ask[q].pc = "add" /\ draft' = draft /\ letters' = [letters EXCEPT ![e] = Append(@, ask[q].seen[e])]
    BY <1>8 DEF AddLetter
  <2>2. r.pc = "note" /\ r.kind = ask[q].kind /\ r.now = ask[q].now /\ r.todo = ask[q].todo /\ r.seen = ask[q].seen
    BY <1>a DEF AskType
  <2>3. ask' = [ask EXCEPT ![q] = r]
    BY <1>0, <1>8, <1>a DEF AddLetter, AgentTypeOK, AskType
  <2>4. e \in Drafts
    BY <2>1, <1>a DEF ShapeOf
  <2> HIDE DEF r
  <2>5. ~ After(r, d) /\ (Holds(r, d) => Holds(ask[q], d)) /\ (Before(r, d) => Before(ask[q], d) /\ e # d)
    BY <2>1, <2>2 DEF Holds, Before, After
  <2>6. CASE e # d
    <3>1. letters'[d] = letters[d]
      BY <1>0, <2>1, <2>6 DEF AgentTypeOK
    <3> QED
      BY <1>0, <1>o, <2>1, <2>2, <2>3, <2>5, <3>1, StaysOK
  <2>7. CASE e = d
    <3>1. Holds(ask[q], d) /\ After(ask[q], d)
      BY <2>1, <2>7 DEF Holds, After
    <3>2. draft[d].status = "approved" /\ letters[d] = << >> /\ ask[q].seen[d] = draft[d].body
      BY <1>o, <2>1, <3>1 DEF DraftOK
    <3>3. letters'[d] = << draft[d].body >>
      BY <1>0, <2>1, <2>7, <3>2 DEF AgentTypeOK
    <3>4. LetterOK(d)'
      BY <2>1, <3>2, <3>3 DEF LetterOK
    <3>5. \A p \in Asks \ {q} : ~ Holds(ask[p], d)
      BY <1>h, <3>1
    <3> QED
      BY <1>0, <2>3, <2>5, <2>7, <3>4, <3>5, OwnOK
  <2> QED
    BY <2>6, <2>7
<1>9. ASSUME NEW q \in Asks, NoteSent(q) PROVE DraftOK(d)'
  BY <1>9, <1>w DEF NoteSent
<1>10. ASSUME NEW q \in Asks, AskFails(q) PROVE DraftOK(d)'
  <2>1. ask[q].pc # "idle" /\ draft' = draft /\ letters' = letters
    BY <1>10 DEF AskFails
  <2>2. CASE ask[q].pc \in {"read", "decide", "again"}
    <3>1. ask' = [ask EXCEPT ![q] = NoAsk]
      BY <1>10, <2>2 DEF AskFails
    <3> QED
      BY <1>e, <2>1, <3>1
  <2>3. CASE ask[q].pc \notin {"read", "decide", "again"}
    <3>1. ask[q].pc \in {"gate", "save", "add", "note"}
      BY <1>a, <2>1, <2>3 DEF AskType
    <3>2. ask' = [ask EXCEPT ![q] = Onward(q)]
      BY <1>10, <2>3 DEF AskFails
    <3> QED
      BY <1>w, <2>1, <3>1, <3>2
  <2> QED
    BY <2>2, <2>3
<1>11. CASE AgentCrash
  <2>1. \A p \in Asks : ask'[p] = NoAsk
    BY <1>11 DEF AgentCrash
  <2>2. LetterOK(d)'
    BY <1>11, <1>o DEF AgentCrash, LetterOK
  <2>3. \A p \in Asks : ~ Holds(ask'[p], d) /\ ~ Before(ask'[p], d) /\ ~ After(ask'[p], d)
    BY <1>n, <2>1
  <2> QED
    BY <2>2, <2>3 DEF DraftOK, Holds, Before, After
<1>12. CASE UNCHANGED agentVars
  BY <1>12, <1>o DEF agentVars, DraftOK, LetterOK, Open, Holds, Before, After
<1> QED
  BY <1>1, <1>2, <1>3, <1>4, <1>5, <1>6, <1>7, <1>8, <1>9, <1>10, <1>11, <1>12 DEF AgentNext

-----------------------------------------------------------------------------
(* each meeting costs one email at most *)

LEMMA ArmedAreCounted ==
  ASSUME NEW d
  PROVE  /\ IsFiniteSet(Armed(d)) /\ Cardinality(Armed(d)) \in Nat
         /\ IsFiniteSet(Sending(d)) /\ Cardinality(Sending(d)) \in Nat
<1>1. Armed(d) \subseteq Asks /\ Sending(d) \subseteq Asks /\ IsFiniteSet(Asks)
  BY AgentAssumption DEF Armed, Sending
<1> QED
  BY <1>1, FS_Subset, FS_CardinalityType

\* A step of q that sends nothing of d, opens it not and arms q not.
LEMMA BoundKept ==
  ASSUME AgentTypeOK, NEW d \in Drafts, NEW q \in Asks, NEW r, ask' = [ask EXCEPT ![q] = r], BoundOK(d),
         letters'[d] = letters[d], meetings'[d] \in {meetings[d], meetings[d] + 1}, Open(d)' => Open(d),
         Before(r, d) \/ After(r, d) => Before(ask[q], d) \/ After(ask[q], d),
         After(r, d) => After(ask[q], d) \/ ~ Open(d)'
  PROVE  BoundOK(d)'
<1>1. ask'[q] = r /\ \A p \in Asks \ {q} : ask'[p] = ask[p]
  BY DEF AgentTypeOK
<1>2. Armed(d)' \subseteq Armed(d) /\ (Open(d)' => Sending(d)' \subseteq Sending(d))
  BY <1>1 DEF Armed, Sending
<1>3. /\ Cardinality(Armed(d)') \in Nat /\ Cardinality(Armed(d)') <= Cardinality(Armed(d))
      /\ Open(d)' => Cardinality(Sending(d)') \in Nat /\ Cardinality(Sending(d)') <= Cardinality(Sending(d))
  BY <1>2, ArmedAreCounted, FS_Subset, FS_CardinalityType
<1>4. /\ Len(letters[d]) \in Nat /\ meetings[d] \in Nat
      /\ Cardinality(Armed(d)) \in Nat /\ Cardinality(Sending(d)) \in Nat
  BY ArmedAreCounted DEF AgentTypeOK
<1>5. Len(letters'[d]) + Cardinality(Armed(d)') <= 1 + meetings'[d]
  BY <1>3, <1>4 DEF BoundOK
<1>6. Open(d)' => Len(letters'[d]) + Cardinality(Sending(d)') <= meetings'[d]
  BY <1>3, <1>4 DEF BoundOK
<1> QED
  BY <1>5, <1>6 DEF BoundOK

\* Request q takes up the open draft d: alone, or meeting another.
LEMMA BoundTaken ==
  ASSUME AgentTypeOK, NEW d \in Drafts, NEW q \in Asks, NEW r, ask' = [ask EXCEPT ![q] = r], BoundOK(d),
         draft'[d] = draft[d], letters'[d] = letters[d], Open(d), ~ After(r, d),
         NEW S \in SUBSET Drafts, Takes(q, S), d \in S
  PROVE  BoundOK(d)'
<1>1. ask'[q] = r /\ \A p \in Asks \ {q} : ask'[p] = ask[p]
  BY DEF AgentTypeOK
<1>2. /\ Len(letters[d]) \in Nat /\ meetings[d] \in Nat
      /\ Cardinality(Armed(d)) \in Nat /\ Cardinality(Sending(d)) \in Nat
      /\ IsFiniteSet(Armed(d)) /\ IsFiniteSet(Sending(d))
  BY ArmedAreCounted DEF AgentTypeOK
<1>3. Sending(d)' \subseteq Sending(d)
  BY <1>1 DEF Sending
<1>4. Cardinality(Sending(d)') \in Nat /\ Cardinality(Sending(d)') <= Cardinality(Sending(d))
  BY <1>2, <1>3, FS_Subset, FS_CardinalityType
<1>5. Len(letters'[d]) + Cardinality(Armed(d)') <= 1 + meetings'[d]
  <2>1. CASE meetings'[d] = meetings[d]
    <3>1. \A p \in Asks \ {q} : ~ Holds(ask[p], d)
      BY <2>1, TakesMeet
    <3>2. Armed(d)' \subseteq {q}
      BY <1>1, <3>1 DEF Armed, Before, After, Holds
    <3>3. IsFiniteSet({q}) /\ Cardinality({q}) = 1
      BY FS_Singleton
    <3>4. Cardinality(Armed(d)') \in Nat /\ Cardinality(Armed(d)') <= 1
      BY <3>2, <3>3, FS_Subset, FS_CardinalityType
    <3> QED
      BY <1>2, <2>1, <3>4 DEF BoundOK
  <2>2. CASE meetings'[d] = meetings[d] + 1
    <3>1. Armed(d)' \subseteq Armed(d) \cup {q}
      BY <1>1 DEF Armed
    <3>2. IsFiniteSet(Armed(d) \cup {q}) /\ Cardinality(Armed(d) \cup {q}) <= Cardinality(Armed(d)) + 1
      <4>1. IsFiniteSet(Armed(d))
        BY <1>2
      <4>2. /\ IsFiniteSet(Armed(d) \cup {q})
            /\ Cardinality(Armed(d) \cup {q})
                 = IF q \in Armed(d) THEN Cardinality(Armed(d)) ELSE Cardinality(Armed(d)) + 1
        BY <4>1, FS_AddElement, Zenon
      <4> QED
        BY <1>2, <4>2
    <3>3. Cardinality(Armed(d) \cup {q}) \in Nat
      BY <3>2, FS_CardinalityType
    <3>4. Cardinality(Armed(d)') \in Nat /\ Cardinality(Armed(d)') <= Cardinality(Armed(d) \cup {q})
      BY <3>1, <3>2, FS_Subset, FS_CardinalityType
    <3> QED
      BY <1>2, <2>2, <3>2, <3>3, <3>4 DEF BoundOK
  <2> QED
    BY <2>1, <2>2, TakesMeet
<1>6. Len(letters'[d]) + Cardinality(Sending(d)') <= meetings'[d]
  <2>1. meetings'[d] \in {meetings[d], meetings[d] + 1}
    BY TakesMeet
  <2> QED
    BY <1>2, <1>4, <2>1 DEF BoundOK
<1> QED
  BY <1>5, <1>6 DEF BoundOK

\* An armed request q is disarmed: by an edit, which opens the draft, or by sending it.
LEMMA BoundSpent ==
  ASSUME AgentTypeOK, NEW d \in Drafts, NEW q \in Asks, NEW r, ask' = [ask EXCEPT ![q] = r], BoundOK(d),
         meetings'[d] = meetings[d], ~ Before(r, d), ~ After(r, d),
         \/ Before(ask[q], d) /\ ~ After(ask[q], d) /\ letters'[d] = letters[d]
         \/ After(ask[q], d) /\ draft'[d] = draft[d] /\ Len(letters'[d]) = Len(letters[d]) + 1
  PROVE  BoundOK(d)'
<1>1. ask'[q] = r /\ \A p \in Asks \ {q} : ask'[p] = ask[p]
  BY DEF AgentTypeOK
<1>2. /\ Len(letters[d]) \in Nat /\ meetings[d] \in Nat
      /\ Cardinality(Armed(d)) \in Nat /\ Cardinality(Sending(d)) \in Nat
      /\ IsFiniteSet(Armed(d)) /\ IsFiniteSet(Sending(d))
  BY ArmedAreCounted DEF AgentTypeOK
<1>3. Armed(d)' = Armed(d) \ {q} /\ q \in Armed(d) /\ Sending(d)' = Sending(d) \ {q}
  BY <1>1 DEF Armed, Sending
<1>4. Cardinality(Armed(d)') = Cardinality(Armed(d)) - 1
  BY <1>2, <1>3, FS_RemoveElement
<1>5. CASE Before(ask[q], d) /\ ~ After(ask[q], d) /\ letters'[d] = letters[d]
  <2>1. Sending(d)' = Sending(d) /\ Sending(d) \subseteq Armed(d)'
    BY <1>3, <1>5 DEF Armed, Sending
  <2>2. IsFiniteSet(Armed(d)')
    BY <1>2, <1>3, FS_RemoveElement
  <2>3. Cardinality(Sending(d)') <= Cardinality(Armed(d)')
    BY <2>1, <2>2, FS_Subset
  <2>4. Cardinality(Sending(d)') \in Nat
    BY <1>2, <2>1
  <2> QED
    BY <1>2, <1>4, <1>5, <2>3, <2>4 DEF BoundOK
<1>6. CASE After(ask[q], d) /\ draft'[d] = draft[d] /\ Len(letters'[d]) = Len(letters[d]) + 1
  <2>1. q \in Sending(d)
    BY <1>6 DEF Sending
  <2>2. Cardinality(Sending(d)') = Cardinality(Sending(d)) - 1
    BY <1>2, <1>3, <2>1, FS_RemoveElement
  <2>3. Open(d)' => Open(d)
    BY <1>6 DEF Open
  <2> QED
    BY <1>2, <1>4, <1>6, <2>2, <2>3 DEF BoundOK
<1> QED
  BY <1>5, <1>6

LEMMA StepBound ==
  ASSUME AgentInv, [AgentNext]_agentVars, NEW d \in Drafts
  PROVE  BoundOK(d)'
<1>0. AgentTypeOK /\ Shapes /\ BoundOK(d)
  BY DEF AgentInv
<1>m. meetings[d] \in Nat /\ meetings'[d] \in {meetings[d], meetings[d] + 1}
  BY <1>0, MeetingsStay
<1>d. d # NoDraft
  BY AgentAssumption
<1>a. ASSUME NEW q \in Asks PROVE ask[q] \in AskType /\ ShapeOf(ask[q])
  BY <1>0, AskIsTyped DEF Shapes
<1>n. ~ Before(NoAsk, d) /\ ~ After(NoAsk, d)
  BY NoAskFacts
<1>o. draft'[d] = draft[d] => (Open(d)' <=> Open(d))
  BY DEF Open
\* A step of q that only moves it.
<1>k. ASSUME NEW q \in Asks, NEW r, ask' = [ask EXCEPT ![q] = r], draft'[d] = draft[d], letters' = letters,
             Before(r, d) \/ After(r, d) => Before(ask[q], d) \/ After(ask[q], d),
             After(r, d) => After(ask[q], d)
      PROVE  BoundOK(d)'
  BY <1>0, <1>m, <1>o, <1>k, BoundKept
<1>e. ASSUME NEW q \in Asks, ask' = [ask EXCEPT ![q] = NoAsk], draft'[d] = draft[d], letters' = letters
      PROVE  BoundOK(d)'
  BY <1>e, <1>k, <1>n
<1>w. ASSUME NEW q \in Asks, ask' = [ask EXCEPT ![q] = Onward(q)], draft' = draft, letters' = letters,
             ask[q].pc \in {"again", "gate", "save", "add", "note"}
      PROVE  BoundOK(d)'
  <2>1. (Before(Onward(q), d) => Before(ask[q], d)) /\ ~ After(Onward(q), d)
    BY <1>0, <1>w, OnwardFacts
  <2> QED
    BY <1>k, <1>w, <2>1
<1>1. ASSUME NEW q \in Asks, UserAsks(q) PROVE BoundOK(d)'
  <2>1. PICK what \in {"one", "reject", "edit", "batch", "run"}, S \in SUBSET Drafts : AskFor(q, what, S)
    BY <1>1 DEF UserAsks
  <2> DEFINE r == [NoAsk EXCEPT !.kind = what, !.pc = "read", !.todo = S]
  <2>2. r.pc = "read" /\ r.now = NoDraft
    BY DEF NoAsk
  <2>3. ~ Before(r, d) /\ ~ After(r, d)
    BY <2>2, <1>d DEF Holds, Before, After
  <2>4. ask' = [ask EXCEPT ![q] = r] /\ draft' = draft /\ letters' = letters
    BY <2>1 DEF AskFor
  <2> HIDE DEF r
  <2> QED
    BY <1>k, <2>3, <2>4
<1>2. ASSUME NEW q \in Asks, NEW e \in Drafts, ReadDraft(q, e) PROVE BoundOK(d)'
  <2> DEFINE rest == ask[q].todo \ {e}
             r1 == [ask[q] EXCEPT !.pc = "decide", !.now = e, !.todo = rest, !.seen[e] = draft[e].body]
             r2 == [ask[q] EXCEPT !.todo = rest]
  <2>1. /\ r1.pc = "decide" /\ r1.kind = ask[q].kind /\ r1.now = e
        /\ r2.pc = ask[q].pc /\ r2.kind = ask[q].kind /\ r2.now = ask[q].now
    BY <1>a DEF AskType
  <2>2. /\ ask[q].pc = "read" /\ ask[q].kind # "run" /\ draft' = draft /\ letters' = letters
        /\ ask' = [ask EXCEPT ![q] = IF Open(e) THEN r1 ELSE IF rest = {} THEN NoAsk ELSE r2]
        /\ Open(e) => Takes(q, {e})
    BY <1>2 DEF ReadDraft
  <2> HIDE DEF r1, r2
  <2>3. ~ After(r1, d) /\ ~ After(r2, d) /\ ~ Before(r2, d)
    BY <1>a, <1>d, <2>1, <2>2 DEF ShapeOf, Holds, Before, After
  <2>4. CASE ~ Open(e) /\ rest = {}
    BY <1>e, <2>2, <2>4
  <2>5. CASE ~ Open(e) /\ rest # {}
    BY <1>k, <2>2, <2>3, <2>5
  <2>6. CASE Open(e) /\ e # d
    <3>1. ~ Before(r1, d)
      BY <1>d, <2>1, <2>2, <2>6 DEF Holds, Before
    <3> QED
      BY <1>k, <2>2, <2>3, <2>6, <3>1
  <2>7. CASE Open(e) /\ e = d
    BY <1>0, <2>2, <2>3, <2>7, BoundTaken
  <2> QED
    BY <2>4, <2>5, <2>6, <2>7
<1>3. ASSUME NEW q \in Asks, ReadRun(q) PROVE BoundOK(d)'
  <2> DEFINE open == {e \in Drafts : Open(e)}
             r1 == [ask[q] EXCEPT !.pc = "decide", !.todo = open, !.seen = [e \in Drafts |-> draft[e].body]]
  <2>1. r1.pc = "decide" /\ r1.now = ask[q].now /\ r1.todo = open
    BY <1>a DEF AskType
  <2>2. /\ ask[q].pc = "read" /\ draft' = draft /\ letters' = letters /\ Takes(q, open)
        /\ ask' = [ask EXCEPT ![q] = IF open = {} THEN NoAsk ELSE r1]
    BY <1>3 DEF ReadRun
  <2>3. r1.now = NoDraft
    BY <1>a, <2>1, <2>2 DEF ShapeOf
  <2> HIDE DEF r1
  <2>4. ~ After(r1, d)
    BY <2>1 DEF After
  <2>5. CASE open = {}
    BY <1>e, <2>2, <2>5
  <2>6. CASE open # {} /\ d \notin open
    <3>1. ~ Before(r1, d)
      BY <1>d, <2>1, <2>3, <2>6 DEF Holds, Before
    <3> QED
      BY <1>k, <2>2, <2>4, <2>6, <3>1
  <2>7. CASE d \in open
    <3>1. open \in SUBSET Drafts /\ Open(d) /\ ask' = [ask EXCEPT ![q] = r1]
      BY <2>2, <2>7
    <3> QED
      BY <1>0, <2>2, <2>4, <2>7, <3>1, BoundTaken
  <2> QED
    BY <2>5, <2>6, <2>7
<1>4. ASSUME NEW q \in Asks, NEW e \in Drafts, Decide(q, e) PROVE BoundOK(d)'
  <2> DEFINE r1 == [ask[q] EXCEPT !.now = e, !.todo = ask[q].todo \ {e},
                                 !.pc = IF ask[q].kind = "one" THEN "again" ELSE "gate"]
  <2>1. /\ r1.pc \in {"again", "gate"} /\ r1.now = e /\ r1.todo = ask[q].todo \ {e}
        /\ r1.kind = ask[q].kind
    BY <1>a DEF AskType
  <2>2. /\ ask[q].pc = "decide" /\ letters' = letters /\ meetings' = meetings
        /\ IF ask[q].now = NoDraft THEN e \in ask[q].todo ELSE e = ask[q].now
    BY <1>4 DEF Decide
  <2>3. Before(ask[q], e) /\ \A x \in Drafts : ~ After(ask[q], x)
    BY <1>a, <2>2 DEF Before, After, Holds, ShapeOf
  <2>4. \/ ask' = [ask EXCEPT ![q] = NoAsk] /\ draft' = [draft EXCEPT ![e].status = "rejected"]
        \/ ask' = [ask EXCEPT ![q] = NoAsk] /\ draft' = [draft EXCEPT ![e] = [status |-> "edited", body |-> agentAsks]]
        \/ ask' = [ask EXCEPT ![q] = r1] /\ draft' = [draft EXCEPT ![e].status = "approved"]
    <3>1. CASE ask[q].kind \in {"reject", "edit"}
      BY <1>4, <3>1 DEF Decide
    <3>2. CASE ask[q].kind \notin {"reject", "edit"}
      <4>1. /\ ask' = [ask EXCEPT ![q].now = e, ![q].todo = @ \ {e},
                                  ![q].pc = IF ask[q].kind = "one" THEN "again" ELSE "gate"]
            /\ draft' = [draft EXCEPT ![e].status = "approved"]
        BY <1>4, <3>2 DEF Decide
      <4>2. ask' = [ask EXCEPT ![q] = r1]
        BY <4>1, <1>0, <1>a DEF AgentTypeOK, AskType
      <4> QED
        BY <4>1, <4>2
    <3> QED
      BY <3>1, <3>2
  <2> HIDE DEF r1
  <2>5. CASE e # d
    <3>1. draft'[d] = draft[d]
      BY <1>0, <2>4, <2>5 DEF AgentTypeOK
    <3>2. ~ After(r1, d)
      BY <2>1, <2>5 DEF After
    <3>3. Before(r1, d) => Before(ask[q], d)
      BY <1>a, <2>1, <2>2, <2>5 DEF Holds, Before, ShapeOf
    <3>4. CASE ask' = [ask EXCEPT ![q] = NoAsk]
      BY <1>e, <2>2, <3>1, <3>4
    <3>5. CASE ask' = [ask EXCEPT ![q] = r1]
      BY <1>k, <2>2, <3>1, <3>2, <3>3, <3>5
    <3> QED
      BY <2>4, <3>4, <3>5
  <2>6. CASE e = d
    <3>1. CASE ask' = [ask EXCEPT ![q] = NoAsk]
      BY <1>0, <1>n, <2>2, <2>3, <2>6, <3>1, BoundSpent
    <3>2. CASE ask' = [ask EXCEPT ![q] = r1] /\ draft' = [draft EXCEPT ![e].status = "approved"]
      <4>1. ~ Open(d)'
        BY <1>0, <2>6, <3>2 DEF AgentTypeOK, Open
      <4> QED
        BY <1>0, <1>m, <2>2, <2>3, <2>6, <3>2, <4>1, BoundKept
    <3> QED
      BY <2>4, <3>1, <3>2
  <2> QED
    BY <2>5, <2>6
<1>5. ASSUME NEW q \in Asks, ReadAgain(q) PROVE BoundOK(d)'
  <2> DEFINE e == ask[q].now
             r == [ask[q] EXCEPT !.pc = "gate", !.seen = [ask[q].seen EXCEPT ![e] = draft[e].body]]
  <2>1. ask[q].pc = "again" /\ draft' = draft /\ letters' = letters
    BY <1>5 DEF ReadAgain
  <2>2. r.pc = "gate" /\ r.kind = ask[q].kind /\ r.now = e /\ r.todo = ask[q].todo
    BY <1>a DEF AskType
  <2>3. ask' = [ask EXCEPT ![q] = r]
    BY <1>0, <1>5, <1>a DEF ReadAgain, AgentTypeOK, AskType
  <2> HIDE DEF r
  <2>4. (After(r, d) => After(ask[q], d)) /\ (Before(r, d) => Before(ask[q], d))
    BY <2>1, <2>2 DEF Holds, Before, After
  <2> QED
    BY <1>k, <2>1, <2>3, <2>4
<1>6. ASSUME NEW q \in Asks, PassGate(q) \/ SaveLetter(q) PROVE BoundOK(d)'
  <2> DEFINE to == IF ask[q].pc = "gate" THEN "save" ELSE "add"
             r == [ask[q] EXCEPT !.pc = to]
  <2>1. ask[q].pc \in {"gate", "save"} /\ draft' = draft /\ letters' = letters
    BY <1>6 DEF PassGate, SaveLetter
  <2>2. r.pc = to /\ r.kind = ask[q].kind /\ r.now = ask[q].now /\ r.todo = ask[q].todo
    BY <1>a DEF AskType
  <2>3. ask' = [ask EXCEPT ![q] = r] \/ ask' = [ask EXCEPT ![q] = Onward(q)]
    BY <1>0, <1>6, <1>a DEF PassGate, SaveLetter, AgentTypeOK, AskType
  <2> HIDE DEF r
  <2>4. (After(r, d) => After(ask[q], d)) /\ (Before(r, d) => Before(ask[q], d))
    BY <2>1, <2>2 DEF Holds, Before, After
  <2>5. CASE ask' = [ask EXCEPT ![q] = r]
    BY <1>k, <2>1, <2>4, <2>5
  <2> QED
    BY <1>w, <2>1, <2>3, <2>5
<1>7. ASSUME NEW q \in Asks, AddLetter(q) PROVE BoundOK(d)'
  <2> DEFINE e == ask[q].now
             r == [ask[q] EXCEPT !.pc = "note"]
  <2>1. /\ ask[q].pc = "add" /\ draft' = draft /\ letters' = [letters EXCEPT ![e] = Append(@, ask[q].seen[e])]
        /\ meetings' = meetings
    BY <1>7 DEF AddLetter
  <2>2. r.pc = "note" /\ r.kind = ask[q].kind /\ r.now = ask[q].now /\ r.todo = ask[q].todo
    BY <1>a DEF AskType
  <2>3. ask' = [ask EXCEPT ![q] = r]
    BY <1>0, <1>7, <1>a DEF AddLetter, AgentTypeOK, AskType
  <2>4. e \in Drafts
    BY <2>1, <1>a DEF ShapeOf
  <2> HIDE DEF r
  <2>5. ~ After(r, d) /\ (Before(r, d) => Before(ask[q], d) /\ e # d)
    BY <2>1, <2>2 DEF Holds, Before, After
  <2>6. CASE e # d
    <3>1. letters'[d] = letters[d]
      BY <1>0, <2>1, <2>6 DEF AgentTypeOK
    <3> QED
      BY <1>0, <1>m, <1>o, <2>1, <2>3, <2>5, <3>1, BoundKept
  <2>7. CASE e = d
    <3>1. After(ask[q], d)
      BY <2>1, <2>7 DEF After
    <3>2. ask[q].seen[d] \in 0 .. MaxAgentAsks
      BY <1>a DEF AskType
    <3>3. Len(letters'[d]) = Len(letters[d]) + 1
      BY <1>0, <2>1, <2>7, <3>2 DEF AgentTypeOK
    <3> QED
      BY <1>0, <2>1, <2>3, <2>5, <2>7, <3>1, <3>3, BoundSpent
  <2> QED
    BY <2>6, <2>7
<1>8. ASSUME NEW q \in Asks, NoteSent(q) PROVE BoundOK(d)'
  BY <1>8, <1>w DEF NoteSent
<1>9. ASSUME NEW q \in Asks, AskFails(q) PROVE BoundOK(d)'
  <2>1. ask[q].pc # "idle" /\ draft' = draft /\ letters' = letters
    BY <1>9 DEF AskFails
  <2>2. CASE ask[q].pc \in {"read", "decide", "again"}
    <3>1. ask' = [ask EXCEPT ![q] = NoAsk]
      BY <1>9, <2>2 DEF AskFails
    <3> QED
      BY <1>e, <2>1, <3>1
  <2>3. CASE ask[q].pc \notin {"read", "decide", "again"}
    <3>1. ask[q].pc \in {"gate", "save", "add", "note"}
      BY <1>a, <2>1, <2>3 DEF AskType
    <3>2. ask' = [ask EXCEPT ![q] = Onward(q)]
      BY <1>9, <2>3 DEF AskFails
    <3> QED
      BY <1>w, <2>1, <3>1, <3>2
  <2> QED
    BY <2>2, <2>3
<1>10. CASE AgentCrash
  <2>1. \A p \in Asks : ask'[p] = NoAsk
    BY <1>10 DEF AgentCrash
  <2>2. Armed(d)' = {} /\ Sending(d)' = {}
    BY <1>n, <2>1 DEF Armed, Sending
  <2>3. Cardinality(Armed(d)') = 0 /\ Cardinality(Sending(d)') = 0
    BY <2>2, FS_EmptySet
  <2>4. draft' = draft /\ letters' = letters /\ meetings' = meetings
    BY <1>10 DEF AgentCrash
  <2>5. /\ Len(letters[d]) \in Nat /\ Cardinality(Armed(d)) \in Nat /\ Cardinality(Sending(d)) \in Nat
    BY <1>0, ArmedAreCounted DEF AgentTypeOK
  <2> QED
    BY <1>0, <1>m, <1>o, <2>3, <2>4, <2>5 DEF BoundOK
<1>11. CASE UNCHANGED agentVars
  BY <1>0, <1>11 DEF agentVars, BoundOK, Armed, Sending, Open, Holds, Before, After
<1> QED
  BY <1>1, <1>2, <1>3, <1>4, <1>5, <1>6, <1>7, <1>8, <1>9, <1>10, <1>11 DEF AgentNext

-----------------------------------------------------------------------------
(* emails without a job *)

LEMMA SameAdding ==
  ASSUME AgentTypeOK, NEW q \in Asks, NEW r, ask' = [ask EXCEPT ![q] = r],
         ask[q].pc # "add", r.pc # "add", NEW d \in Drafts
  PROVE  Adding(d)' = Adding(d)
BY DEF AgentTypeOK, Adding

LEMMA AddingIsFinite ==
  ASSUME NEW d \in Drafts
  PROVE  IsFiniteSet(Adding(d)) /\ Cardinality(Adding(d)) \in Nat
<1>1. Adding(d) \subseteq Asks /\ IsFiniteSet(Asks)
  BY AgentAssumption DEF Adding
<1> QED
  BY <1>1, FS_Subset, FS_CardinalityType

LEMMA StepHalf ==
  ASSUME AgentTypeOK, Shapes, NothingIsHalfSent, [AgentNext]_agentVars
  PROVE  NothingIsHalfSent'
<1> SUFFICES ASSUME agentFaults' = 0, NEW d \in Drafts
             PROVE  saved'[d] = Len(letters'[d]) + Cardinality(Adding(d)')
  BY DEF NothingIsHalfSent
<1>f. ~ AgentFault
  BY DEF AgentFault, AgentTypeOK
<1>a. ASSUME NEW q \in Asks PROVE ask[q] \in AskType /\ ShapeOf(ask[q])
  BY AskIsTyped DEF Shapes
<1>t. saved[d] \in Nat /\ Len(letters[d]) \in Nat /\ Cardinality(Adding(d)) \in Nat
  BY AddingIsFinite DEF AgentTypeOK
<1>n. NoAsk.pc # "add"
  BY NoAskFacts
<1>0. agentFaults = 0 => saved[d] = Len(letters[d]) + Cardinality(Adding(d))
  BY DEF NothingIsHalfSent
\* A request that neither was about to add its job nor is now.
<1>s. ASSUME NEW q \in Asks, NEW r, ask' = [ask EXCEPT ![q] = r], ask[q].pc # "add", r.pc # "add",
             saved' = saved, letters' = letters, agentFaults' = agentFaults
      PROVE  saved'[d] = Len(letters'[d]) + Cardinality(Adding(d)')
  BY <1>0, <1>s, SameAdding
<1>1. ASSUME NEW q \in Asks, UserAsks(q) PROVE saved'[d] = Len(letters'[d]) + Cardinality(Adding(d)')
  <2>1. PICK what \in {"one", "reject", "edit", "batch", "run"}, S \in SUBSET Drafts : AskFor(q, what, S)
    BY <1>1 DEF UserAsks
  <2> DEFINE r == [NoAsk EXCEPT !.kind = what, !.pc = "read", !.todo = S]
  <2>2. r.pc # "add"
    BY DEF NoAsk
  <2>3. /\ ask' = [ask EXCEPT ![q] = r] /\ ask[q].pc # "add"
        /\ saved' = saved /\ letters' = letters /\ agentFaults' = agentFaults
    BY <2>1 DEF AskFor
  <2> HIDE DEF r
  <2> QED
    BY <1>s, <2>2, <2>3
<1>2. ASSUME NEW q \in Asks, NEW e \in Drafts, ReadDraft(q, e)
      PROVE  saved'[d] = Len(letters'[d]) + Cardinality(Adding(d)')
  <2> DEFINE rest == ask[q].todo \ {e}
             r1 == [ask[q] EXCEPT !.pc = "decide", !.now = e, !.todo = rest, !.seen[e] = draft[e].body]
             r2 == [ask[q] EXCEPT !.todo = rest]
  <2>1. r1.pc = "decide" /\ r2.pc = ask[q].pc
    BY <1>a DEF AskType
  <2>2. /\ ask[q].pc = "read" /\ saved' = saved /\ letters' = letters /\ agentFaults' = agentFaults
        /\ ask' = [ask EXCEPT ![q] = IF Open(e) THEN r1 ELSE IF rest = {} THEN NoAsk ELSE r2]
    BY <1>2 DEF ReadDraft
  <2> HIDE DEF r1, r2
  <2> DEFINE r == IF Open(e) THEN r1 ELSE IF rest = {} THEN NoAsk ELSE r2
  <2>3. r.pc # "add"
    BY <1>n, <2>1, <2>2
  <2> HIDE DEF r
  <2>4. ask' = [ask EXCEPT ![q] = r]
    BY <2>2 DEF r
  <2> QED
    BY <1>s, <2>2, <2>3, <2>4
<1>3. ASSUME NEW q \in Asks, ReadRun(q) PROVE saved'[d] = Len(letters'[d]) + Cardinality(Adding(d)')
  <2> DEFINE open == {e \in Drafts : Open(e)}
             r1 == [ask[q] EXCEPT !.pc = "decide", !.todo = open, !.seen = [e \in Drafts |-> draft[e].body]]
  <2>1. r1.pc = "decide"
    BY <1>a DEF AskType
  <2>2. /\ ask[q].pc = "read" /\ saved' = saved /\ letters' = letters /\ agentFaults' = agentFaults
        /\ ask' = [ask EXCEPT ![q] = IF open = {} THEN NoAsk ELSE r1]
    BY <1>3 DEF ReadRun
  <2> HIDE DEF r1
  <2> DEFINE r == IF open = {} THEN NoAsk ELSE r1
  <2>3. r.pc # "add"
    BY <1>n, <2>1
  <2> HIDE DEF r
  <2>4. ask' = [ask EXCEPT ![q] = r]
    BY <2>2 DEF r
  <2> QED
    BY <1>s, <2>2, <2>3, <2>4
<1>4. ASSUME NEW q \in Asks, NEW e \in Drafts, Decide(q, e)
      PROVE  saved'[d] = Len(letters'[d]) + Cardinality(Adding(d)')
  <2> DEFINE r1 == [ask[q] EXCEPT !.now = e, !.todo = ask[q].todo \ {e},
                                 !.pc = IF ask[q].kind = "one" THEN "again" ELSE "gate"]
  <2>1. r1.pc \in {"again", "gate"}
    BY <1>a DEF AskType
  <2>2. ask[q].pc = "decide" /\ saved' = saved /\ letters' = letters /\ agentFaults' = agentFaults
    BY <1>4 DEF Decide
  <2>3. ask' = [ask EXCEPT ![q] = NoAsk] \/ ask' = [ask EXCEPT ![q] = r1]
    <3>1. CASE ask[q].kind \in {"reject", "edit"}
      BY <1>4, <3>1 DEF Decide
    <3>2. CASE ask[q].kind \notin {"reject", "edit"}
      <4>1. ask' = [ask EXCEPT ![q].now = e, ![q].todo = @ \ {e},
                               ![q].pc = IF ask[q].kind = "one" THEN "again" ELSE "gate"]
        BY <1>4, <3>2 DEF Decide
      <4> QED
        BY <4>1, <1>a DEF AgentTypeOK, AskType
    <3> QED
      BY <3>1, <3>2
  <2> HIDE DEF r1
  <2> QED
    BY <1>n, <1>s, <2>1, <2>2, <2>3
<1>5. ASSUME NEW q \in Asks, ReadAgain(q) PROVE saved'[d] = Len(letters'[d]) + Cardinality(Adding(d)')
  <2> DEFINE e == ask[q].now
             r == [ask[q] EXCEPT !.pc = "gate", !.seen = [ask[q].seen EXCEPT ![e] = draft[e].body]]
  <2>1. r.pc = "gate"
    BY <1>a DEF AskType
  <2>2. /\ ask[q].pc = "again" /\ saved' = saved /\ letters' = letters /\ agentFaults' = agentFaults
        /\ ask' = [ask EXCEPT ![q] = r]
    BY <1>5, <1>a DEF ReadAgain, AgentTypeOK, AskType
  <2> HIDE DEF r
  <2> QED
    BY <1>s, <2>1, <2>2
<1>6. ASSUME NEW q \in Asks, PassGate(q) PROVE saved'[d] = Len(letters'[d]) + Cardinality(Adding(d)')
  <2> DEFINE r == [ask[q] EXCEPT !.pc = "save"]
  <2>1. r.pc = "save"
    BY <1>a DEF AskType
  <2>2. /\ ask[q].pc = "gate" /\ saved' = saved /\ letters' = letters /\ agentFaults' = agentFaults
        /\ ask' = [ask EXCEPT ![q] = r] \/ ask' = [ask EXCEPT ![q] = Onward(q)]
    BY <1>6 DEF PassGate
  <2>3. Onward(q).pc # "add"
    BY <2>2, OnwardFacts
  <2> HIDE DEF r
  <2> QED
    BY <1>s, <2>1, <2>2, <2>3
<1>7. ASSUME NEW q \in Asks, SaveLetter(q) PROVE saved'[d] = Len(letters'[d]) + Cardinality(Adding(d)')
  <2> DEFINE e == ask[q].now
  <2>1. /\ ask[q].pc = "save" /\ saved' = [saved EXCEPT ![e] = @ + 1] /\ letters' = letters
        /\ agentFaults' = agentFaults /\ ask' = [ask EXCEPT ![q].pc = "add"]
    BY <1>7 DEF SaveLetter
  <2>2. /\ \A p \in Asks \ {q} : ask'[p] = ask[p]
        /\ ask'[q].pc = "add" /\ ask'[q].now = e
    BY <2>1, <1>a DEF AgentTypeOK, AskType
  <2>3. CASE e = d
    <3>1. Adding(d)' = Adding(d) \cup {q} /\ q \notin Adding(d)
      BY <2>1, <2>2, <2>3 DEF Adding
    <3>2. Cardinality(Adding(d)') = Cardinality(Adding(d)) + 1
      BY <3>1, AddingIsFinite, FS_AddElement
    <3>3. saved'[d] = saved[d] + 1
      BY <2>1, <2>3 DEF AgentTypeOK
    <3> QED
      BY <1>0, <1>t, <2>1, <3>2, <3>3
  <2>4. CASE e # d
    <3>1. Adding(d)' = Adding(d)
      BY <2>1, <2>2, <2>4 DEF Adding
    <3>2. saved'[d] = saved[d]
      BY <2>1, <2>4 DEF AgentTypeOK
    <3> QED
      BY <1>0, <2>1, <3>1, <3>2
  <2> QED
    BY <2>3, <2>4
<1>8. ASSUME NEW q \in Asks, AddLetter(q) PROVE saved'[d] = Len(letters'[d]) + Cardinality(Adding(d)')
  <2> DEFINE e == ask[q].now
  <2>1. /\ ask[q].pc = "add" /\ saved' = saved /\ letters' = [letters EXCEPT ![e] = Append(@, ask[q].seen[e])]
        /\ agentFaults' = agentFaults /\ ask' = [ask EXCEPT ![q].pc = "note"]
    BY <1>8 DEF AddLetter
  <2>2. /\ \A p \in Asks \ {q} : ask'[p] = ask[p]
        /\ ask'[q].pc = "note"
    BY <2>1, <1>a DEF AgentTypeOK, AskType
  <2>3. CASE e = d
    <3>1. Adding(d)' = Adding(d) \ {q} /\ q \in Adding(d)
      BY <2>1, <2>2, <2>3 DEF Adding
    <3>2. Cardinality(Adding(d)') = Cardinality(Adding(d)) - 1
      BY ZenonT(40), <3>1, AddingIsFinite, FS_RemoveElement
    <3>3. ask[q].seen[d] \in 0 .. MaxAgentAsks
      BY <1>a DEF AskType
    <3>4. Len(letters'[d]) = Len(letters[d]) + 1
      BY <2>1, <2>3, <3>3 DEF AgentTypeOK
    <3> QED
      BY <1>0, <1>t, <2>1, <3>2, <3>4
  <2>4. CASE e # d
    <3>1. Adding(d)' = Adding(d)
      BY <2>1, <2>2, <2>4 DEF Adding
    <3>2. letters'[d] = letters[d]
      BY <2>1, <2>4 DEF AgentTypeOK
    <3> QED
      BY <1>0, <2>1, <3>1, <3>2
  <2> QED
    BY <2>3, <2>4
<1>9. ASSUME NEW q \in Asks, NoteSent(q) PROVE saved'[d] = Len(letters'[d]) + Cardinality(Adding(d)')
  <2>1. /\ ask[q].pc = "note" /\ saved' = saved /\ letters' = letters /\ agentFaults' = agentFaults
        /\ ask' = [ask EXCEPT ![q] = Onward(q)]
    BY <1>9 DEF NoteSent
  <2>2. Onward(q).pc # "add"
    BY <2>1, OnwardFacts
  <2> QED
    BY <1>s, <2>1, <2>2
<1>10. \A q \in Asks : ~ AskFails(q)
  BY <1>f DEF AskFails
<1>11. ~ AgentCrash
  BY <1>f DEF AgentCrash
<1>12. CASE UNCHANGED agentVars
  BY <1>0, <1>12 DEF agentVars, Adding
<1> QED
  BY <1>1, <1>2, <1>3, <1>4, <1>5, <1>6, <1>7, <1>8, <1>9, <1>10, <1>11, <1>12 DEF AgentNext

-----------------------------------------------------------------------------

LEMMA InitInv == AgentInit => AgentInv /\ NothingIsHalfSent
<1> SUFFICES ASSUME AgentInit PROVE AgentInv /\ NothingIsHalfSent
  OBVIOUS
<1>1. AgentTypeOK /\ Shapes
  BY InitShape
<1>2. \A q \in Asks : ask[q] = NoAsk
  BY DEF AgentInit
<1>3. ASSUME NEW d \in Drafts PROVE DraftOK(d)
  <2>1. letters[d] = << >>
    BY DEF AgentInit
  <2>2. \A q \in Asks : ~ Holds(ask[q], d) /\ ~ Before(ask[q], d) /\ ~ After(ask[q], d)
    BY <1>2, NoAskFacts
  <2> QED
    BY <2>1, <2>2 DEF DraftOK, LetterOK
<1>5. ASSUME NEW d \in Drafts PROVE BoundOK(d)
  <2>1. Armed(d) = {} /\ Sending(d) = {}
    BY <1>2, NoAskFacts DEF Armed, Sending
  <2>2. letters[d] = << >> /\ meetings[d] = 0
    BY DEF AgentInit
  <2> QED
    BY <2>1, <2>2, FS_EmptySet DEF BoundOK
<1>4. ASSUME NEW d \in Drafts PROVE saved[d] = Len(letters[d]) + Cardinality(Adding(d))
  <2>1. Adding(d) = {}
    BY <1>2, NoAskFacts DEF Adding
  <2>2. letters[d] = << >> /\ saved[d] = 0
    BY DEF AgentInit
  <2> QED
    BY <2>1, <2>2, FS_EmptySet
<1> QED
  BY <1>1, <1>3, <1>4, <1>5 DEF AgentInv, NothingIsHalfSent

\* What the user decides is carried out (DraftsAreSettled): a draft becomes one email at most,
\* and one more for every meeting of two requests about it; where none met it is sent as it
\* reads, and not unless it is approved; an email without a job means that something failed.
THEOREM DecisionsAreCarriedOut == AgentSpec => []DraftsAreSettled
<1>1. AgentInit => AgentInv /\ NothingIsHalfSent
  BY InitInv
<1>2. AgentInv /\ NothingIsHalfSent /\ [AgentNext]_agentVars => (AgentInv /\ NothingIsHalfSent)'
  <2> SUFFICES ASSUME AgentInv, NothingIsHalfSent, [AgentNext]_agentVars
               PROVE  AgentInv' /\ NothingIsHalfSent'
    OBVIOUS
  <2>1. AgentTypeOK /\ Shapes
    BY DEF AgentInv
  <2>2. AgentTypeOK' /\ Shapes'
    BY <2>1, StepShape
  <2>3. \A d \in Drafts : meetings'[d] = 0 => DraftOK(d)'
    BY StepDraft
  <2>4. \A d \in Drafts : BoundOK(d)'
    BY StepBound
  <2>5. NothingIsHalfSent'
    BY <2>1, StepHalf
  <2> QED
    BY <2>2, <2>3, <2>4, <2>5 DEF AgentInv
<1>3. AgentInv /\ NothingIsHalfSent => DraftsAreSettled
  <2> SUFFICES ASSUME AgentInv, NothingIsHalfSent, NEW d \in Drafts
               PROVE  Len(letters[d]) <= 1 + meetings[d] /\ (meetings[d] = 0 => SentAsApproved(d))
    BY DEF DraftsAreSettled
  <2>1. Len(letters[d]) \in Nat /\ meetings[d] \in Nat /\ Cardinality(Armed(d)) \in Nat
    BY ArmedAreCounted DEF AgentInv, AgentTypeOK
  <2>2. Len(letters[d]) <= 1 + meetings[d]
    BY <2>1 DEF AgentInv, BoundOK
  <2>3. ASSUME meetings[d] = 0 PROVE SentAsApproved(d)
    BY <2>3 DEF AgentInv, DraftOK, LetterOK, SentAsApproved
  <2> QED
    BY <2>2, <2>3
<1> QED
  BY <1>1, <1>2, <1>3, PTL DEF AgentSpec
=============================================================================
