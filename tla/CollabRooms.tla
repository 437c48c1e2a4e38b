---------------------------- MODULE CollabRooms ----------------------------
(***************************************************************************)
(* services/collab: the rooms of one draft.  A room holds the shared       *)
(* document in memory; snapshots of it go to draft_snapshots after a pause *)
(* in the typing, and when the last client leaves.  The map of rooms and   *)
(* the pending timer are kept by draft, and every await lets others in.    *)
(*                                                                         *)
(* A room is its number in the order of creation; a document is the set of *)
(* edits merged into it (Yjs merges in any order), and an edit is named by *)
(* the socket that made it.                                                *)
(***************************************************************************)
EXTENDS Integers, Sequences, FiniteSets, FiniteSetsExt

CONSTANTS
  Sockets,         \* connections to the draft, each with one edit of its own
  Saves,           \* snapshots that may be in the making at once
  MaxRooms,        \* bound on the rooms created
  MaxOpens,        \* bound on the connections made
  MaxKicks,        \* bound on calls of the admin endpoints
  RoomMaxFaults    \* bound on rejected inserts and restarts

VARIABLES
  rooms,           \* RoomManager.rooms: the room of the draft, 0 when it has none
  room,            \* the rooms created so far
  socket,          \* socket[c]: where connection c is, and what it has loaded
  pending,         \* DraftPersistence.pending: the room its timer will save, 0 without one
  save,            \* save[s]: a flush under way
  snapshots,       \* rows of draft_snapshots
  opens, kicks, roomFaults, \* connections, calls and faults so far (bounded)
  mixed,           \* a socket has met another one's opening, or a room on its way out (history)
  tied             \* two saves have overlapped (history)

roomVars == <<rooms, room, socket, pending, save, snapshots, opens, kicks, roomFaults, mixed, tied>>

ASSUME RoomAssumption ==
  /\ IsFiniteSet(Sockets) /\ IsFiniteSet(Saves)
  /\ MaxRooms \in Nat /\ MaxOpens \in Nat /\ MaxKicks \in Nat /\ RoomMaxFaults \in Nat

Idle == [pc |-> "idle", room |-> 0, doc |-> {}, version |-> 0, then |-> "nothing"]
Out  == [pc |-> "out", open |-> FALSE, doc |-> {}, version |-> 0]

RoomInit ==
  /\ rooms = 0
  /\ room = << >>
  /\ socket = [c \in Sockets |-> Out]
  /\ pending = 0
  /\ save = [s \in Saves |-> Idle]
  /\ snapshots = {}
  /\ opens = 0 /\ kicks = 0 /\ roomFaults = 0
  /\ mixed = FALSE /\ tied = FALSE

RoomFault == roomFaults < RoomMaxFaults /\ roomFaults' = roomFaults + 1

Saving == {s \in Saves : save[s].pc # "idle"}

\* Room i is about to be destroyed, whoever has joined it since.
Doomed(i) == \E s \in Saving : save[s].room = i /\ save[s].then # "nothing"

-----------------------------------------------------------------------------
(* persistence.ts *)

\* flush, up to its insert: the timer of the draft is cleared, the document of room i encoded.
Flush(i, doc, then) ==
  \E s \in Saves \ Saving :
    /\ save' = [save EXCEPT ![s] = [pc |-> "insert", room |-> i, doc |-> doc,
                                    version |-> room[i].version + 1, then |-> then]]
    /\ pending' = 0
    /\ tied' = (tied \/ Saving # {})

TimerFires ==
  /\ pending # 0
  /\ Flush(pending, room[pending].doc, "nothing")
  /\ UNCHANGED <<rooms, room, socket, snapshots, opens, kicks, roomFaults, mixed>>

InsertSnapshot(s) ==
  /\ save[s].pc = "insert"
  /\ snapshots' = snapshots \cup {[version |-> save[s].version, doc |-> save[s].doc]}
  /\ save' = [save EXCEPT ![s].pc = "bump"]
  /\ UNCHANGED <<rooms, room, socket, pending, opens, kicks, roomFaults, mixed, tied>>

\* Once the row of the session is updated too, the room learns its version; then the
\* caller of flush goes on, and destroys the room if that is what it came for.
MutKeepVersion(s) == room
Bumped(s) == [room EXCEPT ![save[s].room].version = save[s].version]

MutClearTimer(s) ==
  /\ save[s].pc = "bump"
  /\ room' = Bumped(s)
  /\ rooms' = IF save[s].then = "nothing" THEN rooms ELSE 0
  /\ save' = [save EXCEPT ![s] = Idle]
  /\ pending' = 0
  /\ UNCHANGED <<socket, snapshots, opens, kicks, roomFaults, mixed, tied>>
EndSave(s) ==
  /\ save[s].pc = "bump"
  /\ room' = Bumped(s)
  /\ rooms' = IF save[s].then = "nothing" THEN rooms ELSE 0
  /\ save' = [save EXCEPT ![s] = Idle]
  /\ UNCHANGED <<socket, pending, snapshots, opens, kicks, roomFaults, mixed, tied>>

\* The insert is rejected: removeClient destroys the room all the same.
RejectSnapshot(s) ==
  /\ save[s].pc = "insert"
  /\ RoomFault
  /\ rooms' = IF save[s].then = "remove" THEN 0 ELSE rooms
  /\ save' = [save EXCEPT ![s] = Idle]
  /\ UNCHANGED <<room, socket, pending, snapshots, opens, kicks, mixed, tied>>

-----------------------------------------------------------------------------
(* room-manager.ts and the socket handlers of server.ts *)

Newest == {r \in snapshots : \A q \in snapshots : q.version <= r.version}

Opening == {c \in Sockets : socket[c].pc \in {"load", "create"}}

Join(c, i) == room' = [room EXCEPT ![i].clients = @ \cup {c}]

\* open: a room that is there is joined, even one whose last save is under way.
Connect(c) ==
  /\ socket[c].pc = "out"
  /\ opens < MaxOpens /\ opens' = opens + 1
  /\ IF rooms # 0
     THEN /\ Join(c, rooms)
          /\ socket' = [socket EXCEPT ![c].pc = "in", ![c].open = TRUE]
          /\ mixed' = (mixed \/ Doomed(rooms))
     ELSE /\ socket' = [socket EXCEPT ![c].pc = "load", ![c].open = TRUE]
          /\ mixed' = (mixed \/ Opening # {} \/ pending # 0 \/ Saving # {})
          /\ UNCHANGED room
  /\ UNCHANGED <<rooms, pending, save, snapshots, kicks, roomFaults, tied>>

\* The newest row is read; of rows with the same version either, without rows version 0.
NoRow    == [version |-> 0, doc |-> {}]

Load(c) ==
  /\ socket[c].pc = "load"
  /\ \E r \in IF snapshots = {} THEN {NoRow} ELSE Newest :
       socket' = [socket EXCEPT ![c].pc = "create", ![c].doc = r.doc, ![c].version = r.version]
  /\ UNCHANGED <<rooms, room, pending, save, snapshots, opens, kicks, roomFaults, mixed, tied>>

\* The room enters the map, in the place of one created meanwhile.
CreateRoom(c) ==
  /\ socket[c].pc = "create" /\ Len(room) < MaxRooms
  /\ room' = Append(room, [clients |-> {c}, doc |-> socket[c].doc, version |-> socket[c].version])
  /\ rooms' = Len(room) + 1
  /\ socket' = [socket EXCEPT ![c] = [Out EXCEPT !.pc = "in", !.open = socket[c].open]]
  /\ UNCHANGED <<pending, save, snapshots, opens, kicks, roomFaults, mixed, tied>>

\* A message goes to the room in the map, whichever room the socket has joined.  An
\* update that changes the document restarts the timer of the draft.
Edit(c) ==
  /\ socket[c].pc = "in" /\ socket[c].open /\ rooms # 0
  /\ c \notin room[rooms].doc
  /\ room' = [room EXCEPT ![rooms].doc = @ \cup {c}]
  /\ pending' = rooms
  /\ mixed' = (mixed \/ Doomed(rooms))
  /\ UNCHANGED <<rooms, socket, save, snapshots, opens, kicks, roomFaults, tied>>

\* removeClient: the last one out saves the document and destroys the room.
LastOut(c) == room[rooms].clients \subseteq {c}

RemoveClient(c) ==
  /\ room' = [room EXCEPT ![rooms].clients = @ \ {c}]
  /\ IF LastOut(c) THEN Flush(rooms, room[rooms].doc, "remove") ELSE UNCHANGED <<save, pending, tied>>

\* close: the socket is taken out of the room in the map.  One that closes while its room
\* is being loaded is added to that room later nevertheless.
Disconnect(c) ==
  /\ socket[c].open
  /\ IF rooms # 0 THEN RemoveClient(c) ELSE UNCHANGED <<room, save, pending, tied>>
  /\ socket' = [socket EXCEPT ![c].open = FALSE, ![c].pc = IF @ = "in" THEN "out" ELSE @]
  /\ UNCHANGED <<rooms, snapshots, opens, kicks, roomFaults, mixed>>

\* removeUserFromRoom: the close event of the socket comes on top of it.
Kick(c) ==
  /\ rooms # 0 /\ c \in room[rooms].clients
  /\ kicks < MaxKicks /\ kicks' = kicks + 1
  /\ RemoveClient(c)
  /\ UNCHANGED <<rooms, socket, snapshots, opens, roomFaults, mixed>>

\* closeRoom: so do those of all its sockets.
CloseRoom ==
  /\ rooms # 0
  /\ kicks < MaxKicks /\ kicks' = kicks + 1
  /\ Flush(rooms, room[rooms].doc, "close")
  /\ UNCHANGED <<rooms, room, socket, snapshots, opens, roomFaults, mixed>>

\* The process stops, on a signal or by itself: nothing is flushed.
RestartCollab ==
  /\ RoomFault
  /\ rooms' = 0 /\ pending' = 0
  /\ socket' = [c \in Sockets |-> Out]
  /\ save' = [s \in Saves |-> Idle]
  /\ UNCHANGED <<room, snapshots, opens, kicks, mixed, tied>>

RoomNext ==
  \/ \E c \in Sockets :
       Connect(c) \/ Load(c) \/ CreateRoom(c) \/ Edit(c) \/ Disconnect(c) \/ Kick(c)
  \/ \E s \in Saves : InsertSnapshot(s) \/ EndSave(s) \/ RejectSnapshot(s)
  \/ TimerFires \/ CloseRoom \/ RestartCollab

RoomSpec == RoomInit /\ [][RoomNext]_roomVars

-----------------------------------------------------------------------------
(* properties *)

\* Type invariant: the shape of every variable, and nothing else.
RoomTypeOK ==
  /\ rooms \in 0 .. Len(room)
  /\ room \in Seq([clients : SUBSET Sockets, doc : SUBSET Sockets, version : Nat])
  /\ socket \in [Sockets -> [pc : {"out", "load", "create", "in"}, open : BOOLEAN,
                             doc : SUBSET Sockets, version : Nat]]
  /\ pending \in 0 .. Len(room)
  /\ save \in [Saves -> [pc : {"idle", "insert", "bump"}, room : 0 .. Len(room), doc : SUBSET Sockets,
                         version : Nat, then : {"nothing", "remove", "close"}]]
  /\ snapshots \subseteq [version : Nat, doc : SUBSET Sockets]
  /\ opens \in 0 .. MaxOpens /\ kicks \in 0 .. MaxKicks /\ roomFaults \in 0 .. RoomMaxFaults
  /\ mixed \in BOOLEAN /\ tied \in BOOLEAN

Merged == UNION {room[i].doc : i \in DOMAIN room}
Stored == UNION {r.doc : r \in snapshots}
OnTheWay == (UNION {save[s].doc : s \in Saving}) \cup (IF pending = 0 THEN {} ELSE room[pending].doc)

\* What a user has typed is stored, or about to be: no order of timers, departures and
\* removals loses an edit, as long as one room at a time serves the draft.
EditsAreKept == ~mixed /\ roomFaults = 0 => Merged \subseteq Stored \cup OnTheWay

\* Whoever opens the draft next sees all of it: the newest snapshot has every edit that is
\* stored, unless two saves overlapped and gave two snapshots the same version.
NewestIsComplete ==
  ~mixed /\ ~tied /\ roomFaults = 0 => \A r \in Newest : r.doc = Stored
=============================================================================
