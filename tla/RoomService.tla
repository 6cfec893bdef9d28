----------------------------- MODULE RoomService -----------------------------
(***************************************************************************)
(* SocketRoomService by itself: conversation, task and group rooms, each   *)
(* held in Redis by a pair of sets, the rooms of a user and the users of a *)
(* room.  A join or a leave writes both in one MULTI.  The removal from    *)
(* all rooms reads the first set and writes the pair a call later.         *)
(***************************************************************************)
EXTENDS Naturals

CONSTANTS
    Visitors,       \* users
    ConvRooms, TaskRooms, GroupRooms,
    FamilyRoom,     \* of each user who has one (a child its parent's, a business its own)
    MaxRemovals     \* bound: removals from all rooms

RoomNames == ConvRooms \cup TaskRooms \cup GroupRooms

ASSUME RoomServiceConstants ==
    /\ ConvRooms \cap TaskRooms = {} /\ (ConvRooms \cup TaskRooms) \cap GroupRooms = {}
    /\ DOMAIN FamilyRoom \subseteq Visitors
    /\ \A u \in DOMAIN FamilyRoom : FamilyRoom[u] \in GroupRooms
    /\ MaxRemovals \in Nat

VARIABLES
    roomsOf,        \* pairs of a user and a room: USER_ROOMS, USER_TASKS, USER_GROUPS
    usersOf,        \* the same: ROOM_USERS, TASK_ROOMS, GROUP_ROOMS
    removals,       \* removals that have read: the user, the rooms of the kind, those it read
    removed,        \* how many began
    missed          \* history: pairs that joined after a removal of their kind had read

roomServiceVars == <<roomsOf, usersOf, removals, removed, missed>>

-----------------------------------------------------------------------------
Join(u, r) ==
    /\ roomsOf' = roomsOf \cup {<<u, r>>}
    /\ usersOf' = usersOf \cup {<<u, r>>}
    /\ missed' = IF \E m \in removals : m.user = u /\ r \in m.kind \ m.read
                 THEN missed \cup {<<u, r>>} ELSE missed \ {<<u, r>>}
    /\ UNCHANGED <<removals, removed>>

Leave(u, r) ==
    /\ roomsOf' = roomsOf \ {<<u, r>>}
    /\ usersOf' = usersOf \ {<<u, r>>}
    /\ missed' = missed \ {<<u, r>>}
    /\ UNCHANGED <<removals, removed>>

JoinRoom(u, r) == r \in ConvRooms /\ Join(u, r)
LeaveRoom(u, r) == r \in ConvRooms /\ Leave(u, r)
JoinTaskRoom(u, r) == r \in TaskRooms /\ Join(u, r)
LeaveTaskRoom(u, r) == r \in TaskRooms /\ Leave(u, r)
JoinGroupRoom(u, r) == r \in GroupRooms /\ Join(u, r)
LeaveGroupRoom(u, r) == r \in GroupRooms /\ Leave(u, r)

\* A user whose row has neither part joins nothing.
AutoJoinFamily(u) == u \in DOMAIN FamilyRoom /\ JoinGroupRoom(u, FamilyRoom[u])

GetRoomUsers(r) == {u \in Visitors : <<u, r>> \in usersOf}
GetTaskRoomUsers(r) == GetRoomUsers(r)
GetGroupRoomUsers(r) == GetRoomUsers(r)

\* Of a conversation it asks the users of the room, of the others the rooms of the user.
IsUserInRoom(u, r) == u \in GetRoomUsers(r)
IsUserInTaskRoom(u, r) == <<u, r>> \in roomsOf
IsUserInGroupRoom(u, r) == <<u, r>> \in roomsOf

-----------------------------------------------------------------------------
\* The SMEMBERS; a user in no room of the kind is done with.
ReadRooms(u, kind) ==
    LET read == {r \in kind : <<u, r>> \in roomsOf}
    IN  /\ read # {} /\ removed < MaxRemovals
        /\ removals' = removals \cup {[user |-> u, kind |-> kind, read |-> read]}
        /\ removed' = removed + 1
        /\ UNCHANGED <<roomsOf, usersOf, missed>>

\* Mutant: the rooms of the user are taken out one by one.
MutKeepsOthers(m) ==
    /\ m \in removals
    /\ usersOf' = usersOf \ {<<m.user, r>> : r \in m.read}
    /\ UNCHANGED roomsOf
    /\ removals' = removals \ {m}
    /\ UNCHANGED <<removed, missed>>

\* The MULTI: out of each room that was read, and the whole set of the user deleted.
RemoveRead(m) ==
    /\ m \in removals
    /\ usersOf' = usersOf \ {<<m.user, r>> : r \in m.read}
    /\ roomsOf' = roomsOf \ {<<m.user, r>> : r \in m.kind}
    /\ missed' = missed \ {<<m.user, r>> : r \in m.read}
    /\ removals' = removals \ {m}
    /\ UNCHANGED removed

\* A MULTI that rejects was applied as a whole or not at all.
RemovalFails(m) ==
    /\ m \in removals
    /\ removals' = removals \ {m}
    /\ UNCHANGED <<roomsOf, usersOf, removed, missed>>

RemoveUserFromAllRooms(u) ==
    ReadRooms(u, ConvRooms) \/ \E m \in removals : m.user = u /\ m.kind = ConvRooms /\ RemoveRead(m)
RemoveUserFromAllTaskRooms(u) ==
    ReadRooms(u, TaskRooms) \/ \E m \in removals : m.user = u /\ m.kind = TaskRooms /\ RemoveRead(m)
RemoveUserFromAllGroupRooms(u) ==
    ReadRooms(u, GroupRooms) \/ \E m \in removals : m.user = u /\ m.kind = GroupRooms /\ RemoveRead(m)

-----------------------------------------------------------------------------
RoomServiceInit ==
    roomsOf = {} /\ usersOf = {} /\ removals = {} /\ removed = 0 /\ missed = {}

RoomServiceNext ==
    \/ \E u \in Visitors :
        \/ \E r \in RoomNames :
            \/ JoinRoom(u, r) \/ LeaveRoom(u, r) \/ JoinTaskRoom(u, r) \/ LeaveTaskRoom(u, r)
            \/ JoinGroupRoom(u, r) \/ LeaveGroupRoom(u, r)
        \/ AutoJoinFamily(u)
        \/ RemoveUserFromAllRooms(u) \/ RemoveUserFromAllTaskRooms(u) \/ RemoveUserFromAllGroupRooms(u)
    \/ \E m \in removals : RemovalFails(m)

RoomServiceSpec == RoomServiceInit /\ [][RoomServiceNext]_roomServiceVars

-----------------------------------------------------------------------------
\* Whom a task or a group says is in it, and who is told that he is, are the same users, and
\* whoever lists a conversation is known to it, in every interleaving of joins, leaves and
\* removals: except a user who joined while a removal was under way that had not read the room.
\* He stays in the room's set when the list is deleted, and the next removal does not read it.
SetsAgree ==
    \A u \in Visitors :
        /\ \A r \in ConvRooms : <<u, r>> \in roomsOf => IsUserInRoom(u, r)
        /\ \A r \in TaskRooms : IsUserInTaskRoom(u, r) => u \in GetTaskRoomUsers(r)
        /\ \A r \in GroupRooms : IsUserInGroupRoom(u, r) => u \in GetGroupRoomUsers(r)
        /\ \A r \in RoomNames : <<u, r>> \in usersOf \ roomsOf => <<u, r>> \in missed
=============================================================================
