------------------------------ MODULE MCClients ------------------------------
(***************************************************************************)
(* Small instances of what is shared with someone outside: the session of  *)
(* several tabs, the room of a draft, the mailbox at a provider.  The      *)
(* three share no state, so a behaviour exercises one: part says which.    *)
(***************************************************************************)
EXTENDS SessionTabs, CollabRooms, MailboxSync, TLC

CONSTANTS c1, c2, q1, v1, v2

VARIABLE part

MCInit ==
  /\ SessionInit /\ RoomInit /\ SyncInit
  /\ part \in {"session", "room", "mailbox"}
  /\ part # "mailbox" => provider = "gmail"
  /\ timer

MCNext ==
  \/ part = "session" /\ SessionNext /\ UNCHANGED <<roomVars, syncVars, part>>
  \/ part = "room" /\ RoomNext /\ UNCHANGED <<sessionVars, syncVars, part>>
  \/ part = "mailbox" /\ SyncNext /\ UNCHANGED <<sessionVars, roomVars, part>>

MCSpec == MCInit /\ [][MCNext]_<<sessionVars, roomVars, syncVars, part>>

\* Every variable of the three keeps its shape.
ClientTypeOK == TokenTypeOK /\ RoomTypeOK /\ SyncTypeOK

\* c1 and c2 are the tabs, the sockets or the syncs of a part, which are alike.
MCSymmetry == Permutations({c1, c2}) \cup Permutations(Saves)
=============================================================================
