----------------------------- MODULE SessionTabs -----------------------------
(***************************************************************************)
(* apps/web/lib/auth-token.ts: the tabs of one browser keep one session,   *)
(* in the localStorage they share, and renew it through RefreshTokens.     *)
(* refreshInFlight is a variable of a tab: it makes the refreshes of one   *)
(* tab a single flight, not those of two tabs.                             *)
(*                                                                         *)
(* Tabs are requests of RefreshTokens; the other requests come from        *)
(* somewhere else with a token of the user, an old one perhaps.            *)
(***************************************************************************)
EXTENDS RefreshTokens

CONSTANTS
  Tabs             \* tabs of the browser

VARIABLES
  stored,          \* the refresh token in localStorage, 0 when there is none
  raced            \* refreshes of two clients have met (history)

sessionVars == <<token, request, member, budget, upsets, stored, raced>>

ASSUME TabAssumption == Tabs \subseteq Requests

SessionInit == TokenInit /\ stored = 0 /\ raced = FALSE

\* Two requests of the browser are under way at once.
Overlap == \E p, q \in Tabs : p # q /\ request'[p].pc # "idle" /\ request'[q].pc # "idle"

\* The user logs in: a new pair is stored.
Login ==
  /\ stored = 0
  /\ Issue
  /\ stored' = Len(token)'
  /\ UNCHANGED raced

\* refreshSession, up to its fetch.  A tab whose refresh is in flight waits for that one.
Refresh(p) ==
  /\ stored # 0
  /\ Present(p, stored)
  /\ raced' = (raced \/ Overlap)
  /\ UNCHANGED stored

\* What localStorage holds once the answer is in: a refusal clears the session, a
\* lost answer keeps what there is.
MutKeepOld(p) == IF request[p].answer = "refused" THEN 0 ELSE stored
StoredAfter(p) ==
  IF request[p].answer = "refused" THEN 0
  ELSE IF request[p].answer = "ok" THEN request[p].new
  ELSE stored

Receive(p) ==
  /\ request[p].pc = "done"
  /\ stored' = StoredAfter(p)
  /\ request' = [request EXCEPT ![p] = NoRequest]
  /\ UNCHANGED <<token, member, budget, upsets, raced>>

\* POST /v1/auth/logout, from this browser or another device.
Logout ==
  /\ RevokeAll
  /\ stored' \in {stored, 0}
  /\ UNCHANGED raced

\* A request that is not of this browser.
Elsewhere(r) ==
  \/ \E t \in Tokens : Present(r, t) /\ raced' = TRUE
  \/ /\ request[r].pc = "done"
     /\ request' = [request EXCEPT ![r] = NoRequest]
     /\ UNCHANGED <<token, member, budget, upsets, raced>>

\* Steps of the server and of the world.
Serve ==
  \/ \E r \in Requests : Rotate(r) \/ RejectToken(r) \/ LoseRequest(r)
  \/ LeaveWorkspace
  \/ \E t \in Tokens : ExpireToken(t)

SessionNext ==
  \/ Login
  \/ Logout
  \/ \E p \in Tabs : Refresh(p) \/ Receive(p)
  \/ (\E r \in Requests \ Tabs : Elsewhere(r)) /\ UNCHANGED stored
  \/ Serve /\ UNCHANGED <<stored, raced>>

SessionSpec == SessionInit /\ [][SessionNext]_sessionVars

-----------------------------------------------------------------------------
(* properties *)

\* A session ends only for a reason: while no two tabs refresh at once, no command
\* fails, no answer is lost and nobody else presents a token, the stored token is
\* accepted by the server, or its successor is on its way.
StoredTokenIsLive ==
  ~raced /\ upsets = 0 /\ stored # 0 =>
    \/ stored \in Live(token[stored].family)
    \/ \E p \in Tabs : request[p].token = stored /\ request[p].answer \in {"none", "ok"}
=============================================================================
