-------------------------------- MODULE MCApi --------------------------------
(***************************************************************************)
(* Small instances of what surrounds a send: the admission of its request, *)
(* the warm-up session of its sending domain, the drafts of an agent, the  *)
(* pace of deliveries to a domain, the dead letters, and the account that  *)
(* pays.  They share no state, so a behaviour exercises one of them: part  *)
(* says which.                                                             *)
(***************************************************************************)
EXTENDS SendAdmission, DomainWarmup, AgentSend, DomainThrottle, DlqProcessor, Dunning, TLC

CONSTANTS a, b, m1, m2, p1, i1, i2, i3

VARIABLE part

\* As many sends a day as days the session has lasted.
MCLimit == [d \in StepDays |-> d]

\* Requests and calls about a domain in all: three and one, or two and two.
MCMaxTurns == 4

\* Stripe's events are interchangeable: of the orders of their kinds one is enough.
MCRank == [k \in EventKinds |-> CASE k = "paid" -> 1 [] k = "failed" -> 2 [] k = "deleted" -> 3
                                  [] k = "basic" -> 4 [] OTHER -> 5]
MCInOrder == MCRank[kind[i1]] <= MCRank[kind[i2]] /\ MCRank[kind[i2]] <= MCRank[kind[i3]]

MCInit ==
  /\ AdmInit /\ DomInit /\ AgentInit /\ ThrottleInit /\ Init /\ DunInit
  /\ part \in {"request", "domain", "drafts", "pace", "dead letters", "dunning"}
  /\ IF part = "dunning" THEN MCInOrder ELSE kind = [e \in StripeEvents |-> "paid"]

MCNext ==
  \/ part = "request" /\ AdmNext /\ UNCHANGED <<domVars, agentVars, throttleVars, vars, dunVars, part>>
  \/ part = "domain" /\ DomNext /\ asks' + orders' <= MCMaxTurns
     /\ UNCHANGED <<admVars, agentVars, throttleVars, vars, dunVars, part>>
  \/ part = "drafts" /\ AgentNext /\ UNCHANGED <<admVars, domVars, throttleVars, vars, dunVars, part>>
  \/ part = "pace" /\ ThrottleNext /\ UNCHANGED <<admVars, domVars, agentVars, vars, dunVars, part>>
  \/ part = "dead letters" /\ Next /\ UNCHANGED <<admVars, domVars, agentVars, throttleVars, dunVars, part>>
  \/ part = "dunning" /\ DunNext /\ UNCHANGED <<admVars, domVars, agentVars, throttleVars, vars, part>>

MCSpec == MCInit /\ [][MCNext]_<<admVars, domVars, agentVars, throttleVars, vars, dunVars, part>>

\* Every variable keeps its shape; those of the other parts stay as they began.
ApiTypeOK ==
  CASE part = "request" -> AdmTypeOK
    [] part = "domain"  -> DomTypeOK
    [] part = "drafts"  -> AgentTypeOK
    [] part = "pace"    -> ThrottleTypeOK
    [] part = "dunning" -> DunTypeOK
    [] OTHER            -> TypeOK

\* a and b are the requests, the sends, the jobs or the handlers of a part, which are alike.
MCSymmetry == Permutations({a, b})
=============================================================================
