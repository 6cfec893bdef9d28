----------------------------- MODULE MCMessaging -----------------------------
(***************************************************************************)
(* Two sockets of one user and a worker with one job; three people, two    *)
(* requests and two conversations; one conversation of three messages.     *)
(* The three share no variable: each moves while the others are where they *)
(* began, which shows every behaviour of each.  Rooms are entered one at a *)
(* time, for they do not touch each other; while the job is under way that *)
(* is the room of its conversation, with one MULTI on its way at a time.   *)
(***************************************************************************)
EXTENDS Workers, Conversations, Messages

CONSTANTS a1, a2

MCOwner == [s \in Sockets |-> "A"]
MCMaxPending == [s \in Sockets |-> IF s = a1 THEN 2 ELSE 1]
MCConversation == [j \in Jobs |-> "c"]
MCParticipants == [j \in Jobs |-> Users]

MCInit == WorkersInit /\ ConversationsInit /\ MessagesInit

OnTheWay == UNION {{<<s, i>> : i \in DOMAIN pending[s]} : s \in Sockets}
InUse ==
    {pair[2] : pair \in members \cup disturbed \cup UNION {joined[s] : s \in Sockets}
                        \cup {pending[m[1]][m[2]].pair : m \in OnTheWay}}

OneRoom ==
    IF \A j \in Jobs : status[j] = "none" THEN Cardinality(InUse) <= 1
    ELSE InUse \subseteq Convs /\ Cardinality(OnTheWay) <= 1

MCNext ==
    \/ /\ ConversationsInit /\ MessagesInit /\ \A j \in Jobs : status[j] \notin {"done", "failed"}
       /\ WorkersNext /\ OneRoom' /\ UNCHANGED <<conversationVars, messageVars>>
    \/ /\ WorkersInit /\ MessagesInit
       /\ ConversationsNext /\ UNCHANGED <<workersVars, messageVars>>
    \/ /\ WorkersInit /\ ConversationsInit
       /\ MessagesNext /\ UNCHANGED <<workersVars, conversationVars>>

MCSpec == MCInit /\ [][MCNext]_<<workersVars, conversationVars, messageVars>>
=============================================================================
