------------------------------ MODULE Workers ------------------------------
(***************************************************************************)
(* The worker of the notify-participants queue and the gateway calls it    *)
(* makes.  One job names the participants of a conversation; the worker    *)
(* takes them one after the other and asks, for each, whether a socket is  *)
(* connected, whether Redis has the user in the room, and then emits: every *)
(* answer may be stale when the next call is made.                         *)
(***************************************************************************)
EXTENDS Rooms

CONSTANTS
    Jobs,
    Conversation,   \* the conversation of each job
    Participants,   \* its participants, read once when the job is queued
    HasToken,       \* the users with an fcmToken
    MaxStalls       \* maxStalledCount, which BullMQ has at 1

ASSUME WorkersConstants ==
    /\ Conversation \in [Jobs -> Convs]
    /\ Participants \in [Jobs -> SUBSET Users]
    /\ HasToken \subseteq Users
    /\ MaxStalls \in Nat

VARIABLES
    status,         \* of each job: none, waiting, active, done, failed
    todo,           \* participants the run of the job has not finished
    step,           \* the next call for the participant in hand
    who,            \* the participant in hand, or NoUser between two
    told,           \* what reached each participant of each job
    away,           \* history: users offline at some moment of the job, or whose call failed
    stalls          \* of each job: how often its worker was lost

workerVars == <<status, todo, step, who, told, away, stalls>>
workersVars == <<roomVars, workerVars>>

\* isUserOnline: fetchSockets of the user's own room.
IsUserOnline(u) == \E s \in Sockets : phase[s] = "ready" /\ Owner[s] = u

Offline == {u \in Users : ~IsUserOnline(u)}
Running(j) == status[j] \in {"waiting", "active"}

-----------------------------------------------------------------------------
\* notifyParticipantsInConversation: the participants travel in the job.
QueueNotifyParticipants(j) ==
    /\ status[j] = "none"
    /\ status' = [status EXCEPT ![j] = "waiting"]
    /\ away' = [away EXCEPT ![j] = Offline]
    /\ UNCHANGED <<roomVars, todo, step, who, told, stalls>>

\* Concurrency one: the worker has a single job in hand.
TakeJob(j) ==
    /\ status[j] = "waiting" /\ \A k \in Jobs : status[k] # "active"
    /\ status' = [status EXCEPT ![j] = "active"]
    /\ todo' = Participants[j]
    /\ step' = "next" /\ who' = NoUser
    /\ UNCHANGED <<roomVars, told, away, stalls>>

At(j, label) == status[j] = "active" /\ step = label
Go(label) == step' = label /\ who' = who
NextParticipant == step' = "next" /\ who' = NoUser

CheckOnline(j, u) ==
    /\ At(j, "next") /\ u \in todo
    /\ who' = u
    /\ todo' = todo \ {u}
    /\ step' = IF IsUserOnline(u) THEN "online" ELSE "offline"
    /\ UNCHANGED <<roomVars, status, told, away, stalls>>

\* Mutant: only users who look at the room are told.
MutCheckRoom(j) ==
    /\ status[j] = "active" /\ step \in {"online", "offline"}
    /\ IF IsUserInRoom(who, Conversation[j]) THEN Go("emit") ELSE NextParticipant
    /\ UNCHANGED <<roomVars, status, todo, told, away, stalls>>

\* The two branches that emit, and the third, for a user neither in the room nor online.
CheckRoom(j) ==
    /\ status[j] = "active" /\ step \in {"online", "offline"}
    /\ IF IsUserInRoom(who, Conversation[j]) \/ step = "online"
       THEN Go("emit") ELSE NextParticipant
    /\ UNCHANGED <<roomVars, status, todo, told, away, stalls>>

\* emitToUser asks again whether the user is online; an offline user with a token gets a push.
EmitToUser(j) ==
    /\ At(j, "emit")
    /\ LET way == IF IsUserOnline(who) THEN {"socket"}
                  ELSE IF who \in HasToken THEN {"push"} ELSE {} IN
        told' = [told EXCEPT ![j][who] = @ \cup way]
    /\ NextParticipant
    /\ UNCHANGED <<roomVars, status, todo, away, stalls>>

\* A call for one participant rejects, and the others are still served: fetchSockets takes the
\* participant out of the run, isMemberInRoom answers false instead, emitToUser gives up.
ParticipantFails(j, u) ==
    /\ faults < MaxFaults
    /\ \/ At(j, "next") /\ u \in todo /\ todo' = todo \ {u} /\ NextParticipant
       \/ At(j, "online") /\ u = who /\ Go("emit") /\ UNCHANGED todo
       \/ (At(j, "offline") \/ At(j, "emit")) /\ u = who /\ NextParticipant /\ UNCHANGED todo
    /\ away' = [away EXCEPT ![j] = @ \cup {u}]
    /\ faults' = faults + 1
    /\ UNCHANGED <<phase, joined, pending, members, disturbed, status, told, stalls>>

CompleteJob(j) ==
    /\ At(j, "next") /\ todo = {}
    /\ status' = [status EXCEPT ![j] = "done"]
    /\ UNCHANGED <<roomVars, todo, step, who, told, away, stalls>>

\* The worker stops renewing its lock: BullMQ hands the whole job out again, and fails it the
\* time after.
Stall(j) ==
    /\ status[j] = "active"
    /\ stalls' = [stalls EXCEPT ![j] = @ + 1]
    /\ status' = [status EXCEPT ![j] = IF stalls[j] < MaxStalls THEN "waiting" ELSE "failed"]
    /\ todo' = {} /\ NextParticipant
    /\ UNCHANGED <<roomVars, told, away>>

\* A step of the gateway, and what it means for the jobs under way.
GatewayStep ==
    /\ RoomsNext
    /\ away' = [j \in Jobs |-> IF Running(j) THEN away[j] \cup Offline' ELSE away[j]]
    /\ UNCHANGED <<status, todo, step, who, told, stalls>>

-----------------------------------------------------------------------------
WorkersInit ==
    /\ RoomsInit
    /\ status = [j \in Jobs |-> "none"]
    /\ todo = {} /\ step = "next" /\ who = NoUser
    /\ stalls = [j \in Jobs |-> 0]
    /\ told = [j \in Jobs |-> [u \in Users |-> {}]]
    /\ away = [j \in Jobs |-> {}]

WorkersNext ==
    \/ GatewayStep
    \/ \E j \in Jobs :
        \/ QueueNotifyParticipants(j) \/ TakeJob(j) \/ CheckRoom(j) \/ EmitToUser(j)
        \/ (\E u \in Users : CheckOnline(j, u) \/ ParticipantFails(j, u))
        \/ CompleteJob(j) \/ Stall(j)

WorkersSpec == WorkersInit /\ [][WorkersNext]_workersVars

-----------------------------------------------------------------------------
WorkersTypeOK ==
    /\ RoomsTypeOK
    /\ status \in [Jobs -> {"none", "waiting", "active", "done", "failed"}]
    /\ todo \subseteq Users /\ who \in Users \cup {NoUser}
    /\ step \in {"next", "online", "offline", "emit"}
    /\ told \in [Jobs -> [Users -> SUBSET {"socket", "push"}]]
    /\ away \in [Jobs -> SUBSET Users]
    /\ stalls \in [Jobs -> 0..(MaxStalls + 1)]

\* A finished job reached, by socket, every participant who stayed connected from the moment
\* it was queued and whose calls did not fail: whatever rooms were entered and left meanwhile,
\* however stale the membership in Redis, and however often the job started again.
ParticipantsTold ==
    \A j \in Jobs : status[j] = "done" =>
        \A u \in Participants[j] \ away[j] : "socket" \in told[j][u]
=============================================================================
