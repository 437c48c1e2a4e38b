---------------------------- MODULE RefreshTokens ----------------------------
(***************************************************************************)
(* apps/api/src/lib/jwt.ts, the refresh tokens of one user: issued at      *)
(* login, rotated by POST /v1/auth/refresh, revoked by logout or when a    *)
(* used token comes back.  Every await of rotateRefreshToken is a step.    *)
(*                                                                         *)
(* A token is its number in the order of the inserts; what a client knows  *)
(* is the token itself.  A process that dies leaves its request unanswered.*)
(***************************************************************************)
EXTENDS Integers, Sequences, FiniteSets

CONSTANTS
  Requests,        \* requests in flight at once
  MaxTokens,       \* bound on the tokens issued
  MaxUpsets        \* bound on rejected commands, lost answers, expiries, logouts and lost roles

VARIABLES
  token,           \* refresh_tokens: its rows in the order of their inserts
  request,         \* request[r]: where request r is in rotateRefreshToken
  member,          \* the user still has a role in the workspace
  budget,          \* budget[f]: lines of descent family f may have (history)
  upsets           \* how many of those so far (bounded)

tokenVars == <<token, request, member, budget, upsets>>

ASSUME TokenAssumption == IsFiniteSet(Requests) /\ MaxTokens \in Nat /\ MaxUpsets \in Nat

Tokens   == DOMAIN token
NoRequest == [pc |-> "idle", token |-> 0, answer |-> "none", new |-> 0]

Upset == upsets < MaxUpsets /\ upsets' = upsets + 1

\* A family is named by its first token.
Fresh(f) == [family |-> f, used |-> FALSE, revoked |-> FALSE, expired |-> FALSE]

\* A token that would be accepted, and the requests that have marked one and not yet
\* stored its successor: together the lines along which family f lives on.
Live(f)    == {t \in Tokens : token[t].family = f /\ ~token[t].used /\ ~token[t].revoked}
Passing(f) == {r \in Requests : /\ request[r].pc \in {"lookup", "insert"}
                                /\ token[request[r].token].family = f}
Lines(f)   == Cardinality(Live(f)) + Cardinality(Passing(f))

TokenInit ==
  /\ token = << >>
  /\ request = [r \in Requests |-> NoRequest]
  /\ member = TRUE
  /\ budget = [f \in 1 .. MaxTokens |-> 0]
  /\ upsets = 0

-----------------------------------------------------------------------------
(* rotateRefreshToken *)

Reach(r, pc)     == request' = [request EXCEPT ![r].pc = pc]
Reply(r, answer) == request' = [request EXCEPT ![r].pc = "done", ![r].answer = answer]

\* A client presents a token it was given at some time.
Present(r, t) ==
  /\ request[r].pc = "idle"
  /\ t \in Tokens
  /\ request' = [request EXCEPT ![r] = [NoRequest EXCEPT !.pc = "find", !.token = t]]
  /\ UNCHANGED <<token, member, budget, upsets>>

\* The row is read, and all decisions are taken on what it says now.
Find(r) ==
  LET row == token[request[r].token] IN
  /\ request[r].pc = "find"
  /\ IF row.used THEN Reach(r, "revoke")
     ELSE IF row.revoked \/ row.expired THEN Reply(r, "refused")
     ELSE Reach(r, "mark")
  /\ UNCHANGED <<token, member, budget, upsets>>

\* The rows of S are revoked; of their families only rotations under way live on.
Revoke(S) ==
  /\ token' = [t \in Tokens |-> [token[t] EXCEPT !.revoked = @ \/ t \in S]]
  /\ budget' = [f \in 1 .. MaxTokens |->
                  IF \E t \in S : token[t].family = f THEN Cardinality(Passing(f)) ELSE budget[f]]

\* A used token has come back: all tokens of its family are revoked.
MutRevokeOne(r) == {request[r].token}
FamilyOf(r) == {t \in Tokens : token[t].family = token[request[r].token].family}

RevokeFamily(r) ==
  /\ request[r].pc = "revoke"
  /\ Revoke(FamilyOf(r))
  /\ Reply(r, "refused")
  /\ UNCHANGED <<member, upsets>>

\* The token is marked used, whatever has become of it since it was read: one that
\* is used or revoked by now opens a further line.
Mark(r) ==
  LET t == request[r].token IN
  /\ request[r].pc = "mark"
  /\ token' = [token EXCEPT ![t].used = TRUE]
  /\ budget' = IF t \in Live(token[t].family) THEN budget
               ELSE [budget EXCEPT ![token[t].family] = @ + 1]
  /\ Reach(r, "lookup")
  /\ UNCHANGED <<member, upsets>>

\* User, role and tier are read; without a role there is no successor.
Lookup(r) ==
  /\ request[r].pc = "lookup"
  /\ IF member THEN Reach(r, "insert") ELSE Reply(r, "refused")
  /\ UNCHANGED <<token, member, budget, upsets>>

\* The successor is stored in the family of the old token.
MutNoFamily(r) == 0
FamilyName(r) == token[request[r].token].family

InsertToken(r) ==
  /\ request[r].pc = "insert"
  /\ Len(token) < MaxTokens
  /\ token' = Append(token, Fresh(FamilyName(r)))
  /\ request' = [request EXCEPT ![r].pc = "done", ![r].answer = "ok", ![r].new = Len(token) + 1]
  /\ UNCHANGED <<member, budget, upsets>>

\* The database rejects the command of this step: the route answers 401 to that too.
RejectToken(r) ==
  /\ request[r].pc \in {"find", "revoke", "mark", "lookup", "insert"}
  /\ Upset
  /\ Reply(r, "refused")
  /\ UNCHANGED <<token, member, budget>>

\* The process dies, or its answer gets lost.
LoseRequest(r) ==
  /\ request[r].pc # "idle" /\ request[r].answer # "lost"
  /\ Upset
  /\ Reply(r, "lost")
  /\ UNCHANGED <<token, member, budget>>

-----------------------------------------------------------------------------
(* login, logout, and time *)

\* issueTokenPair: a family of its own.
Issue ==
  /\ Len(token) < MaxTokens
  /\ token' = Append(token, Fresh(Len(token) + 1))
  /\ budget' = [budget EXCEPT ![Len(token) + 1] = 1]
  /\ UNCHANGED <<request, member, upsets>>

\* revokeAllUserTokens.
RevokeAll ==
  /\ Tokens # {}
  /\ Upset
  /\ Revoke(Tokens)
  /\ UNCHANGED <<request, member>>

\* The user is removed from the workspace.
LeaveWorkspace ==
  /\ member
  /\ Upset
  /\ member' = FALSE
  /\ UNCHANGED <<token, request, budget>>

ExpireToken(t) ==
  /\ ~token[t].expired
  /\ Upset
  /\ token' = [token EXCEPT ![t].expired = TRUE]
  /\ UNCHANGED <<request, member, budget>>

Rotate(r) ==
  Find(r) \/ RevokeFamily(r) \/ Mark(r) \/ Lookup(r) \/ InsertToken(r)

-----------------------------------------------------------------------------
(* properties *)

\* Type invariant: the shape of every variable, and nothing else.
TokenTypeOK ==
  /\ token \in Seq([family : 1 .. MaxTokens, used : BOOLEAN, revoked : BOOLEAN, expired : BOOLEAN])
  /\ Len(token) <= MaxTokens
  /\ request \in [Requests -> [pc : {"idle", "find", "revoke", "mark", "lookup", "insert", "done"},
                               token : {0} \cup Tokens, answer : {"none", "ok", "refused", "lost"},
                               new : {0} \cup Tokens]]
  /\ member \in BOOLEAN
  /\ budget \in [1 .. MaxTokens -> Nat]
  /\ upsets \in 0 .. MaxUpsets

\* A family lives on along one line, and splits only when a token that has been used
\* or revoked since it was read is marked.  When a reuse is noticed, or the user logs
\* out, no line is left but the rotations that were under way at that moment.
LinesAreAccountedFor == \A f \in 1 .. MaxTokens : Lines(f) <= budget[f]
=============================================================================
