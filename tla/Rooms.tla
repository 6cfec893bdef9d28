------------------------------- MODULE Rooms -------------------------------
(***************************************************************************)
(* Conversation and task rooms of the gateway.  A room is held twice: as a *)
(* Socket.IO room of sockets in the process, and as a set of users in      *)
(* Redis.  The gateway changes the first at once and sends the MULTI that  *)
(* changes the second; MULTIs of one socket's process keep their order,    *)
(* those of different sockets do not.  The two Redis sets of a pair        *)
(* (ROOM_USERS and USER_ROOMS, TASK_ROOMS and USER_TASKS) are written in   *)
(* one MULTI, so one relation stands for both.  A socket may send messages *)
(* while handleConnection still waits for its authentication: they are     *)
(* handled for a user nobody has set.                                      *)
(***************************************************************************)
EXTENDS Integers, Sequences, FiniteSets

CONSTANTS
    Sockets, Users,
    NoUser,         \* an undefined userId, which Redis keeps as well
    Owner,          \* the user whose token each socket brings
    Convs, Tasks,   \* room names
    MaxPending,     \* bound: MULTIs of each socket on their way
    MaxFaults       \* bound: Redis calls that reject, worker calls that reject

ASSUME RoomsConstants ==
    /\ Owner \in [Sockets -> Users] /\ NoUser \notin Users
    /\ Convs \cap Tasks = {}
    /\ MaxPending \in [Sockets -> Nat] /\ MaxFaults \in Nat

VARIABLES
    phase,          \* of each socket: closed, authenticating, known (client.data.userId is set),
                    \* ready (in the room of its user)
    joined,         \* the Socket.IO rooms of each, with the user it joined them for
    pending,        \* the MULTIs sent for each, oldest first
    members,        \* pairs of a user and a room, in Redis
    disturbed,      \* history: pairs a rejected MULTI, or the leave of another socket, struck
    faults

roomVars == <<phase, joined, pending, members, disturbed, faults>>

RoomIds == Convs \cup Tasks
Pairs == (Users \cup {NoUser}) \X RoomIds

open == {s \in Sockets : phase[s] # "closed"}
UserId(s) == IF phase[s] \in {"known", "ready"} THEN Owner[s] ELSE NoUser

-----------------------------------------------------------------------------
(* handleConnection and handleDisconnect *)

Moves(s, from, to) ==
    /\ phase[s] = from /\ phase' = [phase EXCEPT ![s] = to]
    /\ UNCHANGED <<joined, pending, members, disturbed, faults>>

\* Nest starts handleConnection and subscribes the message handlers before it awaits anything.
Connect(s) == pending[s] = <<>> /\ Moves(s, "closed", "authenticating")

AuthenticateSocket(s) == Moves(s, "authenticating", "known")

\* handleUserConnection has answered: client.join of the user's own room.
JoinPersonalRoom(s) == Moves(s, "known", "ready")

\* The client goes, or handleConnection fails and disconnects it. Socket.IO forgets the
\* socket's rooms; removeUserFromAllRooms is not called.
Disconnect(s) ==
    /\ s \in open
    /\ phase' = [phase EXCEPT ![s] = "closed"]
    /\ joined' = [joined EXCEPT ![s] = {}]
    /\ UNCHANGED <<pending, members, disturbed, faults>>

-----------------------------------------------------------------------------
(* The handlers of join, leave, join-task and leave-task *)

Sent(s, op, room) ==
    /\ s \in open /\ Len(pending[s]) < MaxPending[s]
    /\ pending' = [pending EXCEPT ![s] = Append(@, [op |-> op, pair |-> <<UserId(s), room>>])]

EnterRoom(s, room) ==
    /\ Sent(s, "sadd", room)
    /\ joined' = [joined EXCEPT ![s] = @ \cup {<<UserId(s), room>>}]
    /\ UNCHANGED <<phase, members, disturbed, faults>>

\* Redis forgets the user the socket has now, Socket.IO the room.
QuitRoom(s, room) ==
    /\ Sent(s, "srem", room)
    /\ joined' = [joined EXCEPT ![s] = {pair \in @ : pair[2] # room}]
    /\ UNCHANGED <<phase, members, disturbed, faults>>

HandleJoinRoom(s, c) == c \in Convs /\ EnterRoom(s, c)
HandleLeaveRoom(s, c) == c \in Convs /\ QuitRoom(s, c)
HandleJoinTaskRoom(s, t) == t \in Tasks /\ EnterRoom(s, t)
HandleLeaveTaskRoom(s, t) == t \in Tasks /\ QuitRoom(s, t)

-----------------------------------------------------------------------------
(* SocketRoomService *)

Add(pair) ==
    /\ members' = members \cup {pair}
    /\ disturbed' = disturbed \ {pair}

\* The set is of users: whatever other socket of the user is in the room stays there.
Remove(s, pair) ==
    /\ members' = members \ {pair}
    /\ disturbed' = IF \E q \in Sockets \ {s} : pair \in joined[q]
                    THEN disturbed \cup {pair} ELSE disturbed

\* Mutant: a pipeline retried in the background, so that MULTIs overtake each other.
MutNewestFirst(s) ==
    /\ pending[s] # <<>>
    /\ LET m == pending[s][Len(pending[s])] IN
        /\ m.op = "sadd" => Add(m.pair)
        /\ m.op = "srem" => Remove(s, m.pair)
    /\ pending' = [pending EXCEPT ![s] = SubSeq(@, 1, Len(@) - 1)]
    /\ UNCHANGED <<phase, joined, faults>>

\* joinRoom, leaveRoom and their task twins reach Redis.
ApplyMulti(s) ==
    /\ pending[s] # <<>>
    /\ LET m == Head(pending[s]) IN
        /\ m.op = "sadd" => Add(m.pair)
        /\ m.op = "srem" => Remove(s, m.pair)
    /\ pending' = [pending EXCEPT ![s] = Tail(@)]
    /\ UNCHANGED <<phase, joined, faults>>

\* The MULTI rejects, applied or not: the handler answers with an error, and Socket.IO
\* keeps what it did.
MultiFails(s) ==
    /\ pending[s] # <<>> /\ faults < MaxFaults
    /\ LET m == Head(pending[s]) IN
        /\ \/ UNCHANGED members
           \/ m.op = "sadd" /\ members' = members \cup {m.pair}
           \/ m.op = "srem" /\ members' = members \ {m.pair}
        /\ disturbed' = disturbed \cup {m.pair}
    /\ pending' = [pending EXCEPT ![s] = Tail(@)]
    /\ faults' = faults + 1
    /\ UNCHANGED <<phase, joined>>

IsUserInRoom(u, room) == <<u, room>> \in members

-----------------------------------------------------------------------------
RoomsInit ==
    /\ phase = [s \in Sockets |-> "closed"] /\ members = {} /\ disturbed = {} /\ faults = 0
    /\ joined = [s \in Sockets |-> {}]
    /\ pending = [s \in Sockets |-> <<>>]

RoomsNext ==
    \E s \in Sockets :
        \/ Connect(s) \/ AuthenticateSocket(s) \/ JoinPersonalRoom(s) \/ Disconnect(s)
        \/ ApplyMulti(s) \/ MultiFails(s)
        \/ \E c \in Convs : HandleJoinRoom(s, c) \/ HandleLeaveRoom(s, c)
        \/ \E t \in Tasks : HandleJoinTaskRoom(s, t) \/ HandleLeaveTaskRoom(s, t)

RoomsSpec == RoomsInit /\ [][RoomsNext]_roomVars

-----------------------------------------------------------------------------
RoomsTypeOK ==
    /\ phase \in [Sockets -> {"closed", "authenticating", "known", "ready"}]
    /\ joined \in [Sockets -> SUBSET Pairs]
    /\ pending \in [Sockets -> Seq([op : {"sadd", "srem"}, pair : Pairs])]
    /\ members \subseteq Pairs
    /\ disturbed \subseteq Pairs
    /\ faults \in 0..MaxFaults

\* Once its calls have answered, a socket in a room finds in Redis the user it joined for among
\* the users of the room, whatever it joined and left before, how fast, and when it was
\* authenticated in between, unless the last call failed or another socket of that user left.
\* That user is its own if it had been authenticated by then, and nobody if not.
JoinedIsMember ==
    \A s \in open : \A pair \in joined[s] :
        pending[s] = <<>> => pair \in members \cup disturbed
=============================================================================
