---------------------------- MODULE LegacySockets ---------------------------
(***************************************************************************)
(* The socket server of the Express example: the connection handler, which *)
(* listens for the disconnect only when it is through, the disconnection   *)
(* handler, which takes the user out of three kinds of room before it      *)
(* takes the presence keys away, and the rooms in Redis.  One action is    *)
(* the code between two awaits; a MULTI is one step.  online also stands   *)
(* for isOnline of the status hash, which both MULTIs set along with it.   *)
(* The row of a user is there: without it the handler throws at once.  A   *)
(* MULTI of 'join' that rejects is an unhandled rejection, which ends the  *)
(* process: ProcessDies.                                                   *)
(***************************************************************************)
EXTENDS Integers, FiniteSets

CONSTANTS
    Sessions,       \* sockets; an id is used once
    Members,        \* users
    UserOfSession,  \* the user of each socket
    Processes,      \* server processes
    ChatRooms, TaskRooms, Families,
    FamilyOf,       \* the family room of each user, as a set of at most one
    Nobody,
    MaxLosses       \* bound: calls that reject and processes that die

Halls == ChatRooms \cup TaskRooms \cup Families

ASSUME LegacySocketsConstants ==
    /\ UserOfSession \in [Sessions -> Members]
    /\ FamilyOf \in [Members -> SUBSET Families]
    /\ Nobody \notin Sessions \cup Members \cup Processes /\ MaxLosses \in Nat

VARIABLES
    wired,          \* sockets whose transport is up
    at,             \* the process each socket is connected to, Nobody before
    hand,           \* where the connection handler of each stands
    old,            \* the socket it found under its user
    bye,            \* where the disconnection handler of each stands
    listed,         \* the rooms that handler has read and is about to remove
    inRooms,        \* the Socket.IO rooms of each
    online, userSocket, socketUser, userRooms, roomUsers,   \* Redis
    losses,
    cut,            \* history: users a session of whom was cut short, by a transport that
                    \* closed during the handshake, a call that rejected or a crash
    slipped,        \* history: users who joined a room while another session of theirs was
                    \* between reading and removing its rooms
    overlapped      \* history: users who had two sessions at a time

presence == <<online, userSocket, socketUser>>
rooms == <<userRooms, roomUsers>>
hands == <<hand, old>>
byes == <<bye, listed>>
pasts == <<losses, cut, slipped, overlapped>>
legacyVars == <<wired, at, hands, byes, inRooms, presence, rooms, pasts>>

UserAt(s) == UserOfSession[s]
SessionsOf(u) == {s \in Sessions : UserOfSession[s] = u}

\* No handler of the socket has anything left to do.
Over(s) == s \notin wired /\ hand[s] \in {"none", "ended"} /\ bye[s] \in {"none", "done"}

-----------------------------------------------------------------------------
(* RedisStateManager *)

\* Mutant: the set of online users is forgotten.
MutOmitsOnlineSet(u, s) ==
    /\ UNCHANGED online
    /\ userSocket' = [userSocket EXCEPT ![u] = s]
    /\ socketUser' = [socketUser EXCEPT ![s] = u]

AddOnlineUser(u, s) ==
    /\ online' = online \cup {u}
    /\ userSocket' = [userSocket EXCEPT ![u] = s]
    /\ socketUser' = [socketUser EXCEPT ![s] = u]

\* joinRoom, joinTaskRoom, joinGroupRoom
Enlist(u, hs) ==
    /\ userRooms' = [userRooms EXCEPT ![u] = @ \cup hs]
    /\ roomUsers' = [r \in Halls |-> IF r \in hs THEN roomUsers[r] \cup {u} ELSE roomUsers[r]]

\* leaveRoom, leaveTaskRoom
Delist(u, hs) ==
    /\ userRooms' = [userRooms EXCEPT ![u] = @ \ hs]
    /\ roomUsers' = [r \in Halls |-> IF r \in hs THEN roomUsers[r] \ {u} ELSE roomUsers[r]]

\* removeOnlineUser empties one kind of room after the other.
Kinds == [chat |-> ChatRooms, task |-> TaskRooms, group |-> Families]
After == [chat |-> "task", task |-> "group", group |-> "keys"]
Removing == {"chat", "task", "group"}

-----------------------------------------------------------------------------
(* The connection handler. *)

Arrive(s, p) ==
    /\ hand[s] = "none"
    /\ wired' = wired \cup {s}
    /\ at' = [at EXCEPT ![s] = p]
    /\ hand' = [hand EXCEPT ![s] = "lookup"]
    /\ overlapped' = IF \E q \in SessionsOf(UserAt(s)) : ~Over(q)
                     THEN overlapped \cup {UserAt(s)} ELSE overlapped
    /\ UNCHANGED <<old, byes, inRooms, presence, rooms, losses, cut, slipped>>

\* getUserProfile, and the HGETALL of handleUserReconnection.
LookUpOld(s) ==
    /\ hand[s] = "lookup"
    /\ old' = [old EXCEPT ![s] = userSocket[UserAt(s)]]
    /\ hand' = [hand EXCEPT ![s] = "register"]
    /\ UNCHANGED <<at, wired, byes, inRooms, presence, rooms, pasts>>

\* Transports go down: the disconnection handler starts where the connection handler is
\* through, and listens.
Drop(down) ==
    /\ wired' = wired \ down
    /\ inRooms' = [s \in Sessions |-> IF s \in down THEN {} ELSE inRooms[s]]
    /\ bye' = [s \in Sessions |-> IF s \in down /\ hand[s] = "ready" THEN "chat" ELSE bye[s]]

Closed(down) == [s \in Sessions |-> IF s \in down /\ hand[s] = "ready" THEN "ended" ELSE hand[s]]

\* The old socket, if it is connected to this process.
OldHere(s) == {q \in wired : q = old[s] /\ at[q] = at[s]}

\* The rest of handleUserReconnection: a user found under another socket loses the mapping
\* of that socket, and the new one is not registered.  The caller then disconnects the old
\* socket, and joins the personal and role rooms.
Reconnect(s) ==
    /\ hand[s] = "register"
    /\ \/ old[s] = Nobody /\ AddOnlineUser(UserAt(s), s)
       \/ /\ old[s] # Nobody
          /\ socketUser' = [socketUser EXCEPT ![old[s]] = Nobody]
          /\ UNCHANGED <<online, userSocket>>
    /\ Drop(OldHere(s))
    /\ hand' = [Closed(OldHere(s)) EXCEPT ![s] = "family"]
    /\ UNCHANGED <<at, old, listed, rooms, pasts>>

\* Someone of u is between reading his rooms of a kind and removing them, and hs has more.
SlipsIn(u, hs) ==
    \E q \in SessionsOf(u) : bye[q] \in Removing /\ listed[q] # {} /\ hs \cap Kinds[bye[q]] # {}

NoteSlip(u, hs) == slipped' = IF SlipsIn(u, hs) THEN slipped \cup {u} ELSE slipped

\* autoJoinFamilyRoom; a socket that is down joins no Socket.IO room.
AutoJoinFamilyRoom(s) ==
    /\ hand[s] = "family"
    /\ Enlist(UserAt(s), FamilyOf[UserAt(s)])
    /\ NoteSlip(UserAt(s), FamilyOf[UserAt(s)])
    /\ inRooms' = [inRooms EXCEPT ![s] = IF s \in wired THEN @ \cup FamilyOf[UserAt(s)] ELSE @]
    /\ hand' = [hand EXCEPT ![s] = "notify"]
    /\ UNCHANGED <<at, wired, old, byes, presence, losses, cut, overlapped>>

\* A lookup of it rejects, or the MULTI once the socket has joined; the room is optional.
FamilyRoomFails(s) ==
    /\ hand[s] = "family" /\ losses < MaxLosses
    /\ inRooms' \in {inRooms, [inRooms EXCEPT ![s] = IF s \in wired THEN @ \cup FamilyOf[UserAt(s)] ELSE @]}
    /\ hand' = [hand EXCEPT ![s] = "notify"]
    /\ losses' = losses + 1 /\ cut' = cut \cup {UserAt(s)}
    /\ UNCHANGED <<at, wired, old, byes, presence, rooms, slipped, overlapped>>

\* The relatives are notified and the handlers attached.  The disconnect of a transport that
\* went down before this is heard by nobody.
SetupUserEventHandlers(s) ==
    /\ hand[s] = "notify"
    /\ hand' = [hand EXCEPT ![s] = IF s \in wired THEN "ready" ELSE "ended"]
    /\ cut' = IF s \in wired THEN cut ELSE cut \cup {UserAt(s)}
    /\ UNCHANGED <<at, wired, old, byes, inRooms, presence, rooms, losses, slipped, overlapped>>

\* A call of the handler rejects, applied or not: it disconnects the socket and ends.
HandshakeFails(s) ==
    /\ hand[s] \in {"lookup", "register"} /\ losses < MaxLosses
    /\ \/ UNCHANGED presence
       \/ hand[s] = "register" /\ old[s] = Nobody /\ AddOnlineUser(UserAt(s), s)
    /\ wired' = wired \ {s}
    /\ hand' = [hand EXCEPT ![s] = "ended"]
    /\ losses' = losses + 1 /\ cut' = cut \cup {UserAt(s)}
    /\ UNCHANGED <<at, old, byes, inRooms, rooms, slipped, overlapped>>

-----------------------------------------------------------------------------
(* The events of a connected socket: 'join' and 'join-task', 'leave' and 'leave-task'. *)

Listening(s) == hand[s] = "ready" /\ s \in wired

JoinHall(s, r) ==
    /\ Listening(s)
    /\ inRooms' = [inRooms EXCEPT ![s] = @ \cup {r}]
    /\ Enlist(UserAt(s), {r})
    /\ NoteSlip(UserAt(s), {r})
    /\ UNCHANGED <<at, wired, hands, byes, presence, losses, cut, overlapped>>

LeaveHall(s, r) ==
    /\ Listening(s)
    /\ inRooms' = [inRooms EXCEPT ![s] = @ \ {r}]
    /\ Delist(UserAt(s), {r})
    /\ UNCHANGED <<at, wired, hands, byes, presence, pasts>>

HandleJoin(s, c) == c \in ChatRooms /\ JoinHall(s, c)
HandleJoinTask(s, t) == t \in TaskRooms /\ JoinHall(s, t)
HandleLeave(s, c) == c \in ChatRooms /\ LeaveHall(s, c)
HandleLeaveTask(s, t) == t \in TaskRooms /\ LeaveHall(s, t)

-----------------------------------------------------------------------------
(* The disconnection handler: removeOnlineUser, then the relatives. *)

Close(s) ==
    /\ s \in wired
    /\ Drop({s})
    /\ hand' = Closed({s})
    /\ UNCHANGED <<at, old, listed, presence, rooms, pasts>>

\* The SMEMBERS of removeUserFromAllRooms and its two twins; without a room that is all.
ListRooms(s) ==
    /\ bye[s] \in Removing /\ listed[s] = {}
    /\ LET mine == userRooms[UserAt(s)] \cap Kinds[bye[s]]
       IN  /\ listed' = [listed EXCEPT ![s] = mine]
           /\ bye' = IF mine = {} THEN [bye EXCEPT ![s] = After[@]] ELSE bye
    /\ UNCHANGED <<at, wired, hands, inRooms, presence, rooms, pasts>>

\* Mutant: the list of the user's rooms stays.
MutKeepsList(s) ==
    /\ bye[s] \in Removing /\ listed[s] # {}
    /\ roomUsers' = [r \in Halls |->
                        IF r \in listed[s] THEN roomUsers[r] \ {UserAt(s)} ELSE roomUsers[r]]
    /\ bye' = [bye EXCEPT ![s] = After[@]]
    /\ listed' = [listed EXCEPT ![s] = {}]
    /\ UNCHANGED <<at, userRooms, wired, hands, inRooms, presence, pasts>>

\* Its MULTI: out of each room that was read, and the whole list of the user's rooms of this
\* kind deleted, with what was joined since.
RemoveUserFromAllRooms(s) ==
    /\ bye[s] \in Removing /\ listed[s] # {}
    /\ roomUsers' = [r \in Halls |->
                        IF r \in listed[s] THEN roomUsers[r] \ {UserAt(s)} ELSE roomUsers[r]]
    /\ userRooms' = [userRooms EXCEPT ![UserAt(s)] = @ \ Kinds[bye[s]]]
    /\ bye' = [bye EXCEPT ![s] = After[@]]
    /\ listed' = [listed EXCEPT ![s] = {}]
    /\ UNCHANGED <<at, wired, hands, inRooms, presence, pasts>>

\* The MULTI of removeOnlineUser: the user goes, whichever socket he is under.
RemoveOnlineUser(s) ==
    /\ bye[s] = "keys"
    /\ online' = online \ {UserAt(s)}
    /\ userSocket' = [userSocket EXCEPT ![UserAt(s)] = Nobody]
    /\ socketUser' = [socketUser EXCEPT ![s] = Nobody]
    /\ bye' = [bye EXCEPT ![s] = "done"]
    /\ UNCHANGED <<at, listed, wired, hands, inRooms, rooms, pasts>>

\* A call of it rejects: the rest is skipped.
DisconnectionFails(s) ==
    /\ bye[s] \in Removing \cup {"keys"} /\ losses < MaxLosses
    /\ bye' = [bye EXCEPT ![s] = "done"]
    /\ listed' = [listed EXCEPT ![s] = {}]
    /\ losses' = losses + 1 /\ cut' = cut \cup {UserAt(s)}
    /\ UNCHANGED <<at, wired, hands, inRooms, presence, rooms, slipped, overlapped>>

\* The process dies, with its sockets and its handlers.
ProcessDies(p) ==
    LET held == {s \in Sessions : at[s] = p /\ ~Over(s)}
    IN  /\ held # {} /\ losses < MaxLosses
        /\ wired' = wired \ held
        /\ hand' = [s \in Sessions |-> IF s \in held THEN "ended" ELSE hand[s]]
        /\ bye' = [s \in Sessions |-> IF s \in held THEN "done" ELSE bye[s]]
        /\ listed' = [s \in Sessions |-> IF s \in held THEN {} ELSE listed[s]]
        /\ inRooms' = [s \in Sessions |-> IF s \in held THEN {} ELSE inRooms[s]]
        /\ losses' = losses + 1 /\ cut' = cut \cup {UserAt(s) : s \in held}
        /\ UNCHANGED <<at, old, presence, rooms, slipped, overlapped>>

-----------------------------------------------------------------------------
LegacyInit ==
    /\ wired = {} /\ online = {} /\ losses = 0
    /\ cut = {} /\ slipped = {} /\ overlapped = {}
    /\ hand = [s \in Sessions |-> "none"] /\ at = [s \in Sessions |-> Nobody]
    /\ old = [s \in Sessions |-> Nobody]
    /\ bye = [s \in Sessions |-> "none"]
    /\ listed = [s \in Sessions |-> {}]
    /\ inRooms = [s \in Sessions |-> {}]
    /\ userSocket = [u \in Members |-> Nobody]
    /\ socketUser = [s \in Sessions |-> Nobody]
    /\ userRooms = [u \in Members |-> {}]
    /\ roomUsers = [r \in Halls |-> {}]

HandleConnection(s) ==
    \/ (\E p \in Processes : Arrive(s, p)) \/ LookUpOld(s) \/ Reconnect(s) \/ AutoJoinFamilyRoom(s) \/ FamilyRoomFails(s)
    \/ SetupUserEventHandlers(s) \/ HandshakeFails(s)

HandleUserDisconnection(s) ==
    ListRooms(s) \/ RemoveUserFromAllRooms(s) \/ RemoveOnlineUser(s) \/ DisconnectionFails(s)

LegacyNext ==
    \/ \E s \in Sessions :
        \/ HandleConnection(s) \/ Close(s) \/ HandleUserDisconnection(s)
        \/ \E c \in ChatRooms : HandleJoin(s, c) \/ HandleLeave(s, c)
        \/ \E t \in TaskRooms : HandleJoinTask(s, t) \/ HandleLeaveTask(s, t)
    \/ \E p \in Processes : ProcessDies(p)

LegacySpec == LegacyInit /\ [][LegacyNext]_legacyVars

-----------------------------------------------------------------------------
(* Properties *)

\* A user all of whose connections are gone leaves nothing behind in Redis, neither a presence
\* key nor a place in a room of any kind, however his sessions overlapped and replaced each
\* other, unless one of them was cut short or joined a room while another was removing them.
QuietUserIsGone ==
    \A u \in Members \ (cut \cup slipped) :
        (\A s \in SessionsOf(u) : Over(s)) =>
            /\ u \notin online /\ userSocket[u] = Nobody /\ userRooms[u] = {}
            /\ \A s \in SessionsOf(u) : socketUser[s] = Nobody
            /\ \A r \in Halls : u \notin roomUsers[r]

\* While a user connects with one socket at a time, and none is cut short, a connected socket
\* is the one Redis has him online under, the rooms Redis has him in are that socket's rooms,
\* and each of them knows him.
OrderlyStateExact ==
    \A u \in Members \ (cut \cup overlapped) : \A s \in SessionsOf(u) :
        Listening(s) =>
            /\ u \in online /\ userSocket[u] = s /\ socketUser[s] = u
            /\ userRooms[u] = inRooms[s]
            /\ {r \in Halls : u \in roomUsers[r]} = inRooms[s]
=============================================================================
