--------------------------- MODULE SocketPresence ---------------------------
(***************************************************************************)
(* Presence of users behind the Socket.IO gateway: SocketGateway's         *)
(* connection and disconnection handlers, SocketAuthService's Redis keys   *)
(* and its cleanup interval, on several Node workers.  One action per      *)
(* stretch of code between two awaits; Redis runs a MULTI atomically.      *)
(*                                                                         *)
(* Every user tells its relatives by broadcast; told[u] is the last status *)
(* they were sent.  A socket id is used once: a client that reconnects     *)
(* comes back with another element of Sockets.                             *)
(***************************************************************************)
EXTENDS Naturals

CONSTANTS
    Users,
    Sockets,
    Workers,        \* Node processes; each runs the gateway and the cleanup interval
    UserOf,         \* the user a socket's token names
    WorkerOf,       \* the process a socket is connected to
    NoSocket,
    MaxFaults       \* bound: failed Redis/Prisma calls and process crashes, together

ASSUME PresenceConstants ==
    /\ UserOf \in [Sockets -> Users]
    /\ WorkerOf \in [Sockets -> Workers]
    /\ NoSocket \notin Sockets
    /\ MaxFaults \in Nat

VARIABLES
    \* the processes and the transports
    open,           \* sockets whose transport is up
    connPc,         \* where handleConnection of the socket is
    discPc,         \* where handleDisconnect of the socket is
    replaced,       \* the earlier socket handleUserConnection found and returned
    room,           \* sockets that are in their user's personal Socket.IO room
    todo, seen,     \* the cleanup run: users left to look at, the socket judged stale
    \* Redis
    online,         \* chat:online_users
    userSocket,     \* chat:user_socket_map:<user> (the socketId field)
    socketUser,     \* sockets that have a chat:socket_user_map:<socket>
    statusOnline,   \* users whose chat:user_status:<user>.isOnline is 'true'
    old,            \* users whose connectedAt lies before the stale threshold
    \* the outside
    told,           \* what the user's relatives were last told
    faults,
    \* history
    orderly         \* sessions so far were one at a time, complete and without a fault

redis == <<online, userSocket, socketUser, statusOnline, old>>
conn  == <<open, connPc, discPc, replaced, room>>
clean == <<todo, seen>>
vars  == <<conn, clean, redis, told, faults, orderly>>

SocketsOf(u) == {s \in Sockets : UserOf[s] = u}

\* handleConnection has passed authenticateSocket: client.data.userId is set.
Identified(s) == connPc[s] \notin {"new", "auth", "rejected", "dead"}

Connecting(s) == connPc[s] \in {"auth", "check", "replace", "add", "join", "family", "announce"}

\* The socket still has a transport or a handler to run.
Engaged(s) == s \in open \/ Connecting(s) \/ discPc[s] \in {"remove", "announce"}

Disorder(u) == orderly' = [orderly EXCEPT ![u] = FALSE]

Fault == faults < MaxFaults /\ faults' = faults + 1

-----------------------------------------------------------------------------
(* Redis transactions *)

AddOnlineUser(u, s) ==
    /\ online' = online \cup {u}
    /\ userSocket' = [userSocket EXCEPT ![u] = s]
    /\ socketUser' = socketUser \cup {s}
    /\ statusOnline' = statusOnline \cup {u}
    /\ old' = old \ {u}

\* Mutant: the reverse mapping is left behind.
MutRemoveKeepsMapping(u, s) ==
    /\ online' = online \ {u}
    /\ userSocket' = [userSocket EXCEPT ![u] = NoSocket]
    /\ UNCHANGED socketUser
    /\ statusOnline' = statusOnline \ {u}
    /\ old' = old \ {u}

\* Keyed by the user alone: whatever socket is registered is forgotten.
RemoveOnlineUser(u, s) ==
    /\ online' = online \ {u}
    /\ userSocket' = [userSocket EXCEPT ![u] = NoSocket]
    /\ socketUser' = socketUser \ {s}
    /\ statusOnline' = statusOnline \ {u}
    /\ old' = old \ {u}

\* The reverse mapping of the socket that is being replaced.
ForgetReplaced(s) ==
    /\ socketUser' = socketUser \ {replaced[s]}
    /\ UNCHANGED <<online, userSocket, statusOnline, old>>

-----------------------------------------------------------------------------
(* The transport goes away, by the client, the network or client.disconnect(). *)
(* Socket.IO leaves every room and then calls handleDisconnect, which returns  *)
(* at once when client.data.userId was never set.                              *)
Shut(s) ==
    /\ open' = open \ {s}
    /\ room' = room \ {s}
    /\ discPc' = [discPc EXCEPT ![s] = IF Identified(s) THEN "remove" ELSE "done"]

Open(s) ==
    /\ connPc[s] = "new"
    /\ open' = open \cup {s}
    /\ connPc' = [connPc EXCEPT ![s] = "auth"]
    /\ orderly' = [orderly EXCEPT ![UserOf[s]] =
                      @ /\ \A t \in SocketsOf(UserOf[s]) : ~Engaged(t)]
    /\ UNCHANGED <<discPc, replaced, room, clean, redis, told, faults>>

Close(s) ==
    /\ s \in open
    /\ Shut(s)
    /\ IF connPc[s] = "up" THEN UNCHANGED orderly ELSE Disorder(UserOf[s])
    /\ UNCHANGED <<connPc, replaced, clean, redis, told, faults>>

-----------------------------------------------------------------------------
(* handleConnection *)

Authenticate(s) ==
    /\ connPc[s] = "auth"
    /\ connPc' = [connPc EXCEPT ![s] = "check"]
    /\ UNCHANGED <<open, discPc, replaced, room, clean, redis, told, faults, orderly>>

\* A bad token, an unknown user or a failed lookup: io-error, then disconnect.
Reject(s) ==
    /\ connPc[s] = "auth"
    /\ connPc' = [connPc EXCEPT ![s] = "rejected"]
    /\ IF s \in open THEN Shut(s) ELSE UNCHANGED <<open, room, discPc>>
    /\ UNCHANGED <<replaced, clean, redis, told, faults, orderly>>

CheckExisting(s) ==
    /\ connPc[s] = "check"
    /\ LET existing == userSocket[UserOf[s]]
       IN  IF existing \notin {NoSocket, s}
           THEN /\ connPc' = [connPc EXCEPT ![s] = "replace"]
                /\ replaced' = [replaced EXCEPT ![s] = existing]
           ELSE /\ connPc' = [connPc EXCEPT ![s] = "add"]
                /\ UNCHANGED replaced
    /\ UNCHANGED <<open, discPc, room, clean, redis, told, faults, orderly>>

\* Mutant: the reconnection branch skips the rest of the room joins.
MutReplaceSkipsJoin(s) ==
    /\ connPc[s] = "replace"
    /\ ForgetReplaced(s)
    /\ connPc' = [connPc EXCEPT ![s] = "family"]
    /\ UNCHANGED <<open, discPc, replaced, room, clean, told, faults, orderly>>

\* The reconnection branch: only the old reverse mapping goes, the new socket is
\* not registered, and handleConnection ignores the socket id it is handed.
DropOldMapping(s) ==
    /\ connPc[s] = "replace"
    /\ ForgetReplaced(s)
    /\ connPc' = [connPc EXCEPT ![s] = "join"]
    /\ UNCHANGED <<open, discPc, replaced, room, clean, told, faults, orderly>>

Register(s) ==
    /\ connPc[s] = "add"
    /\ AddOnlineUser(UserOf[s], s)
    /\ connPc' = [connPc EXCEPT ![s] = "join"]
    /\ UNCHANGED <<open, discPc, replaced, room, clean, told, faults, orderly>>

\* client.join does nothing once the transport is closed.
JoinRooms(s) ==
    /\ connPc[s] = "join"
    /\ room' = IF s \in open THEN room \cup {s} ELSE room
    /\ connPc' = [connPc EXCEPT ![s] = "family"]
    /\ UNCHANGED <<open, discPc, replaced, clean, redis, told, faults, orderly>>

\* autoJoinFamilyRoom swallows its errors; the family room is not modelled here.
AutoJoinFamilyRoom(s) ==
    /\ connPc[s] = "family"
    /\ connPc' = [connPc EXCEPT ![s] = "announce"]
    /\ UNCHANGED <<open, discPc, replaced, room, clean, redis, told, faults, orderly>>

AnnounceOnline(s) ==
    /\ connPc[s] = "announce"
    /\ connPc' = [connPc EXCEPT ![s] = "up"]
    /\ told' = [told EXCEPT ![UserOf[s]] = TRUE]
    /\ UNCHANGED <<open, discPc, replaced, room, clean, redis, faults, orderly>>

\* A Redis call of handleUserConnection rejects, its effect lost or not: the catch
\* block disconnects.
ConnectionError(s) ==
    /\ connPc[s] \in {"check", "replace", "add"}
    /\ Fault
    /\ \/ UNCHANGED redis
       \/ connPc[s] = "replace" /\ ForgetReplaced(s)
       \/ connPc[s] = "add" /\ AddOnlineUser(UserOf[s], s)
    /\ connPc' = [connPc EXCEPT ![s] = "failed"]
    /\ IF s \in open THEN Shut(s) ELSE UNCHANGED <<open, room, discPc>>
    /\ Disorder(UserOf[s])
    /\ UNCHANGED <<replaced, clean, told>>

-----------------------------------------------------------------------------
(* handleDisconnect *)

Deregister(s) ==
    /\ discPc[s] = "remove"
    /\ RemoveOnlineUser(UserOf[s], s)
    /\ discPc' = [discPc EXCEPT ![s] = "announce"]
    /\ UNCHANGED <<open, connPc, replaced, room, clean, told, faults, orderly>>

\* handleUserDisconnection swallows the error, of a transaction that was run or was
\* not, and the handler goes on.
DeregisterError(s) ==
    /\ discPc[s] = "remove"
    /\ Fault
    /\ UNCHANGED redis \/ RemoveOnlineUser(UserOf[s], s)
    /\ discPc' = [discPc EXCEPT ![s] = "announce"]
    /\ Disorder(UserOf[s])
    /\ UNCHANGED <<open, connPc, replaced, room, clean, told>>

AnnounceOffline(s) ==
    /\ discPc[s] = "announce"
    /\ discPc' = [discPc EXCEPT ![s] = "done"]
    /\ told' = [told EXCEPT ![UserOf[s]] = FALSE]
    /\ UNCHANGED <<open, connPc, replaced, room, clean, redis, faults, orderly>>

\* notifyRelatedUsersOnlineStatus fails, logs, and nobody is told.
AnnounceError(s) ==
    /\ Fault
    /\ \/ /\ connPc[s] = "announce"
          /\ connPc' = [connPc EXCEPT ![s] = "up"]
          /\ UNCHANGED discPc
       \/ /\ discPc[s] = "announce"
          /\ discPc' = [discPc EXCEPT ![s] = "done"]
          /\ UNCHANGED connPc
    /\ Disorder(UserOf[s])
    /\ UNCHANGED <<open, replaced, room, clean, redis, told>>

-----------------------------------------------------------------------------
(* The cleanup interval of a worker *)

CleanupStart(w) ==
    /\ todo[w] = {} /\ seen[w] = NoSocket
    /\ todo' = [todo EXCEPT ![w] = online]
    /\ UNCHANGED <<conn, seen, redis, told, faults, orderly>>

\* Mutant: no comparison with the threshold.
MutCleanupReadsAll(w, u) ==
    /\ u \in todo[w] /\ seen[w] = NoSocket
    /\ todo' = [todo EXCEPT ![w] = @ \ {u}]
    /\ seen' = [seen EXCEPT ![w] = userSocket[u]]
    /\ UNCHANGED <<conn, redis, told, faults, orderly>>

\* Mutant: the comparison with the threshold is the wrong way round.
MutCleanupReadsFresh(w, u) ==
    /\ u \in todo[w] /\ seen[w] = NoSocket
    /\ todo' = [todo EXCEPT ![w] = @ \ {u}]
    /\ seen' = [seen EXCEPT ![w] = IF u \in old THEN NoSocket ELSE userSocket[u]]
    /\ UNCHANGED <<conn, redis, told, faults, orderly>>

CleanupRead(w, u) ==
    /\ u \in todo[w] /\ seen[w] = NoSocket
    /\ todo' = [todo EXCEPT ![w] = @ \ {u}]
    /\ seen' = [seen EXCEPT ![w] = IF u \in old THEN userSocket[u] ELSE NoSocket]
    /\ UNCHANGED <<conn, redis, told, faults, orderly>>

CleanupRemove(w) ==
    /\ seen[w] # NoSocket
    /\ RemoveOnlineUser(UserOf[seen[w]], seen[w])
    /\ seen' = [seen EXCEPT ![w] = NoSocket]
    /\ Disorder(UserOf[seen[w]])
    /\ UNCHANGED <<conn, todo, told, faults>>

\* A rejected Redis call ends the run; the next interval starts over.
CleanupError(w) ==
    /\ todo[w] # {} \/ seen[w] # NoSocket
    /\ Fault
    /\ \/ UNCHANGED <<redis, orderly>>
       \/ /\ seen[w] # NoSocket
          /\ RemoveOnlineUser(UserOf[seen[w]], seen[w])
          /\ Disorder(UserOf[seen[w]])
    /\ todo' = [todo EXCEPT ![w] = {}]
    /\ seen' = [seen EXCEPT ![w] = NoSocket]
    /\ UNCHANGED <<conn, told>>

-----------------------------------------------------------------------------
(* Time and crashes *)

\* More than five minutes have passed since connectedAt was written.
Age(u) ==
    /\ userSocket[u] # NoSocket
    /\ old' = old \cup {u}
    /\ UNCHANGED <<conn, clean, online, userSocket, socketUser, statusOnline,
                   told, faults, orderly>>

\* The process dies and is restarted: its handlers and sockets are gone, no
\* handleDisconnect runs, Redis keeps what it had.
Crash(w) ==
    LET lost == {s \in Sockets : WorkerOf[s] = w /\ connPc[s] # "new"}
    IN  /\ Fault
        /\ open' = open \ lost
        /\ room' = room \ lost
        /\ connPc' = [s \in Sockets |-> IF s \in lost THEN "dead" ELSE connPc[s]]
        /\ discPc' = [s \in Sockets |-> IF s \in lost THEN "done" ELSE discPc[s]]
        /\ todo' = [todo EXCEPT ![w] = {}]
        /\ seen' = [seen EXCEPT ![w] = NoSocket]
        /\ orderly' = [u \in Users |-> orderly[u] /\ \A s \in lost : UserOf[s] # u]
        /\ UNCHANGED <<replaced, redis, told>>

-----------------------------------------------------------------------------
Init ==
    /\ open = {} /\ room = {} /\ socketUser = {}
    /\ connPc = [s \in Sockets |-> "new"]
    /\ discPc = [s \in Sockets |-> "idle"]
    /\ replaced = [s \in Sockets |-> NoSocket]
    /\ todo = [w \in Workers |-> {}]
    /\ seen = [w \in Workers |-> NoSocket]
    /\ online = {} /\ statusOnline = {} /\ old = {}
    /\ userSocket = [u \in Users |-> NoSocket]
    /\ told = [u \in Users |-> FALSE]
    /\ faults = 0
    /\ orderly = [u \in Users |-> TRUE]

HandleConnection(s) ==
    \/ Authenticate(s) \/ Reject(s) \/ CheckExisting(s) \/ DropOldMapping(s)
    \/ Register(s) \/ JoinRooms(s) \/ AutoJoinFamilyRoom(s) \/ AnnounceOnline(s)
    \/ ConnectionError(s)

HandleDisconnect(s) ==
    \/ Deregister(s) \/ DeregisterError(s) \/ AnnounceOffline(s)

Cleanup(w) ==
    \/ CleanupStart(w)
    \/ \E u \in Users : CleanupRead(w, u)
    \/ CleanupRemove(w)
    \/ CleanupError(w)

Next ==
    \/ \E s \in Sockets : Open(s) \/ Close(s) \/ HandleConnection(s)
                          \/ HandleDisconnect(s) \/ AnnounceError(s)
    \/ \E w \in Workers : Cleanup(w) \/ Crash(w)
    \/ \E u \in Users : Age(u)

\* The event loop resumes every handler, the interval keeps firing, time passes.
Fairness ==
    /\ \A s \in Sockets : WF_vars(HandleConnection(s)) /\ WF_vars(HandleDisconnect(s))
    /\ \A w \in Workers : WF_vars(Cleanup(w))
    /\ \A u \in Users : WF_vars(Age(u))

Spec == Init /\ [][Next]_vars
FairSpec == Spec /\ Fairness

-----------------------------------------------------------------------------
(* Properties *)

ConnPcs == {"new", "auth", "check", "replace", "add", "join", "family", "announce",
            "up", "rejected", "failed", "dead"}
DiscPcs == {"idle", "remove", "announce", "done"}

\* The type invariant of the presence state.
TypeOK ==
    /\ open \subseteq Sockets /\ room \subseteq Sockets /\ socketUser \subseteq Sockets
    /\ connPc \in [Sockets -> ConnPcs]
    /\ discPc \in [Sockets -> DiscPcs]
    /\ replaced \in [Sockets -> Sockets \cup {NoSocket}]
    /\ todo \in [Workers -> SUBSET Users]
    /\ seen \in [Workers -> Sockets \cup {NoSocket}]
    /\ online \subseteq Users /\ statusOnline \subseteq Users /\ old \subseteq Users
    /\ userSocket \in [Users -> Sockets \cup {NoSocket}]
    /\ told \in [Users -> BOOLEAN]
    /\ faults \in 0..MaxFaults
    /\ orderly \in [Users -> BOOLEAN]

\* The three Redis keys that answer "is the user online" never disagree, whatever
\* handlers and cleanup runs interleave, and a registration names the user's own
\* socket (addOnlineUser and removeOnlineUser change them in one MULTI).
KeysAgree ==
    \A u \in Users :
        /\ u \in online <=> userSocket[u] # NoSocket
        /\ u \in online <=> u \in statusOnline
        /\ userSocket[u] # NoSocket => UserOf[userSocket[u]] = u

Up(s) == connPc[s] = "up" /\ s \in open

\* As long as a user's sessions come one at a time, each completing its handshake
\* before it closes, with no fault, crash or stale removal: a connected socket is the
\* registered one, its relatives know, and nothing of it is left after the last one.
OrderlyPresenceExact ==
    \A u \in Users : orderly[u] =>
        /\ \A s \in SocketsOf(u) : Up(s) =>
               u \in online /\ userSocket[u] = s /\ s \in socketUser /\ told[u]
        /\ (\A s \in SocketsOf(u) : ~Engaged(s)) =>
               u \notin online /\ ~told[u] /\ SocketsOf(u) \cap socketUser = {}

\* When the cleanup run acts on what it read several awaits ago and the registration
\* is still that socket's, then that registration is past the threshold: the job never
\* takes down a fresh registration of the socket it judged (it may take down another).
CleanupJudgementStands ==
    \A w \in Workers : seen[w] # NoSocket =>
        LET u == UserOf[seen[w]]
        IN  userSocket[u] = seen[w] => u \in old

\* Delivery by personal room does not depend on the Redis keys: every socket past the
\* join is in its room, also one that reconnected without being registered, until its
\* transport closes, and no closed socket is (SocketGateway.isUserOnline, emitToUser).
RoomReachesLiveSockets ==
    \A s \in Sockets :
        s \in room <=> s \in open /\ connPc[s] \in {"family", "announce", "up"}

\* A user no socket of whom is connected does not stay online in Redis: entries left by
\* a crash, a failed removal or a handshake that outran its disconnect are reaped.
GhostsReaped ==
    \A u \in Users :
        (u \in online /\ SocketsOf(u) \cap open = {})
            ~> (u \notin online \/ SocketsOf(u) \cap open # {})

\* "Return old socket ID so caller can disconnect it" (socket-auth.service.ts:108): once
\* the handshake of the new socket is over, the one it replaces is disconnected.
ReplacedSocketDisconnected ==
    \A s \in Sockets :
        Up(s) /\ replaced[s] # NoSocket => replaced[s] \notin open

=============================================================================
