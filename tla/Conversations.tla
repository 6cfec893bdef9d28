---------------------------- MODULE Conversations ----------------------------
(***************************************************************************)
(* ConversationService: conversations and the rows of their participants.  *)
(* Each step reads or writes one table: looking for a direct conversation, *)
(* creating one, looking for a participant and adding one are calls of     *)
(* their own, and requests overlap freely.  A participant who is removed   *)
(* keeps a row, marked deleted.                                            *)
(***************************************************************************)
EXTENDS Integers, FiniteSets, FiniteSetsExt

CONSTANTS
    People,
    ChatRequests,   \* requests that may be in flight together
    MaxThreads,     \* bound: conversations
    MaxCalls,       \* bound: creations and additions
    MaxRows         \* bound: rows of one person in one conversation

ASSUME ConversationsConstants ==
    /\ IsFiniteSet(People)
    /\ MaxThreads \in Nat /\ MaxCalls \in Nat /\ MaxRows \in Nat

VARIABLES
    threads,        \* number of conversations: ids are 1..threads
    kind,           \* direct or group, by id
    live, dead,     \* rows of each person in each, and those marked deleted
    at,             \* the next call of a request; "idle": none
    chat,           \* the conversation it works on, 0 before it is created
    adding,         \* participants it has still to add
    person,         \* the one it is about to insert
    calls,          \* creations and additions so far
    neat            \* history: creations and additions ran alone, none failed

threadVars == <<threads, kind, live, dead>>
requestVars == <<at, chat, adding, person>>
conversationVars == <<threadVars, requestVars, calls, neat>>

Threads == 1..MaxThreads
Rows(c, p) == live[c][p] + dead[c][p]

\* Mutant: the lookup leaves deleted participants out.
MutLiveOnly(ps) ==
    {c \in 1..threads : kind[c] = "direct" /\ \A p \in People : live[c][p] = IF p \in ps THEN 1 ELSE 0}

\* findExistingDirectConversation: the rows are counted whether deleted or not.
FindExistingDirectConversation(ps) ==
    {c \in 1..threads : kind[c] = "direct" /\ \A p \in People : Rows(c, p) = IF p \in ps THEN 1 ELSE 0}

Begun(r) ==
    /\ at[r] = "idle" /\ calls < MaxCalls
    /\ calls' = calls + 1
    /\ neat' = (neat /\ \A q \in ChatRequests : at[q] = "idle")

Proceed(r, call, c, ps) ==
    /\ at' = [at EXCEPT ![r] = call]
    /\ chat' = [chat EXCEPT ![r] = c]
    /\ adding' = [adding EXCEPT ![r] = ps]

Answer(r) == Proceed(r, "idle", 0, {}) /\ person' = [person EXCEPT ![r] = {}]

-----------------------------------------------------------------------------
\* createConversation: two people talk directly, in the conversation they have if it is found;
\* more are a group, and always a new one.
CreateConversation(r, ps) ==
    /\ Begun(r) /\ Cardinality(ps) >= 2
    /\ Cardinality(ps) > 2 \/ FindExistingDirectConversation(ps) = {}
    /\ Proceed(r, "create", 0, ps)
    /\ UNCHANGED <<threadVars, person>>

StoreConversation(r) ==
    /\ at[r] = "create" /\ threads < MaxThreads
    /\ threads' = threads + 1
    /\ kind' = [kind EXCEPT ![threads + 1] = IF Cardinality(adding[r]) > 2 THEN "group" ELSE "direct"]
    /\ Proceed(r, "check", threads + 1, adding[r])
    /\ UNCHANGED <<live, dead, person, calls, neat>>

\* The endpoint participants/add, for any conversation.
AddParticipants(r, c, ps) ==
    /\ Begun(r) /\ c \in 1..threads /\ ps # {}
    /\ Proceed(r, "check", c, ps)
    /\ UNCHANGED <<threadVars, person>>

\* addParticipantsToConversation: one participant after the other, in whatever order they
\* were named; one who has a live row is passed over.
CheckParticipant(r, p) ==
    /\ at[r] = "check" /\ p \in adding[r]
    /\ IF live[chat[r]][p] > 0
       THEN /\ Proceed(r, "check", chat[r], adding[r] \ {p})
            /\ UNCHANGED person
       ELSE /\ Proceed(r, "insert", chat[r], adding[r] \ {p})
            /\ person' = [person EXCEPT ![r] = {p}]
    /\ UNCHANGED <<threadVars, calls, neat>>

InsertParticipant(r) ==
    /\ at[r] = "insert"
    /\ \E p \in person[r] :
        /\ Rows(chat[r], p) < MaxRows
        /\ live' = [live EXCEPT ![chat[r]][p] = @ + 1]
    /\ person' = [person EXCEPT ![r] = {}]
    /\ Proceed(r, "check", chat[r], adding[r])
    /\ UNCHANGED <<threads, kind, dead, calls, neat>>

AllAdded(r) ==
    /\ at[r] = "check" /\ adding[r] = {}
    /\ Answer(r)
    /\ UNCHANGED <<threadVars, calls, neat>>

\* removeParticipant: every row of the person, in one update.
RemoveParticipant(c, p) ==
    /\ c \in 1..threads /\ live[c][p] > 0
    /\ live' = [live EXCEPT ![c][p] = 0]
    /\ dead' = [dead EXCEPT ![c][p] = @ + live[c][p]]
    /\ UNCHANGED <<threads, kind, requestVars, calls, neat>>

\* A call rejects or the process dies: what was written before stays.
ChatCallFails(r) ==
    /\ at[r] # "idle"
    /\ Answer(r)
    /\ neat' = FALSE
    /\ UNCHANGED <<threadVars, calls>>

-----------------------------------------------------------------------------
ConversationsInit ==
    /\ threads = 0
    /\ kind = [c \in Threads |-> "direct"]
    /\ live = [c \in Threads |-> [p \in People |-> 0]]
    /\ dead = live
    /\ at = [r \in ChatRequests |-> "idle"]
    /\ chat = [r \in ChatRequests |-> 0]
    /\ adding = [r \in ChatRequests |-> {}]
    /\ person = adding
    /\ calls = 0 /\ neat = TRUE

ConversationsNext ==
    \/ \E r \in ChatRequests :
        \/ \E ps \in SUBSET People :
            CreateConversation(r, ps) \/ \E c \in Threads : AddParticipants(r, c, ps)
        \/ StoreConversation(r) \/ (\E p \in People : CheckParticipant(r, p))
        \/ InsertParticipant(r) \/ AllAdded(r) \/ ChatCallFails(r)
    \/ \E c \in Threads, p \in People : RemoveParticipant(c, p)

ConversationsSpec == ConversationsInit /\ [][ConversationsNext]_conversationVars

-----------------------------------------------------------------------------
ConversationsTypeOK ==
    /\ threads \in 0..MaxThreads
    /\ kind \in [Threads -> {"direct", "group"}]
    /\ live \in [Threads -> [People -> 0..MaxRows]]
    /\ dead \in [Threads -> [People -> 0..MaxRows]]
    /\ at \in [ChatRequests -> {"idle", "create", "check", "insert"}]
    /\ chat \in [ChatRequests -> 0..MaxThreads]
    /\ adding \in [ChatRequests -> SUBSET People]
    /\ person \in [ChatRequests -> SUBSET People]
    /\ calls \in 0..MaxCalls /\ neat \in BOOLEAN

Between(c, ps) ==
    kind[c] = "direct" /\ \A o \in People : Rows(c, o) = IF o \in ps THEN 1 ELSE 0

\* As long as creations and additions ran alone and none failed, two people share at most
\* one direct conversation that nobody else was ever in and where each was entered once,
\* removed or not; and nobody has two live rows in one conversation.
SerialDirectUnique ==
    neat =>
        /\ \A c, d \in 1..threads, p, q \in People :
            p # q /\ Between(c, {p, q}) /\ Between(d, {p, q}) => c = d
        /\ \A c \in 1..threads, p \in People : live[c][p] <= 1
=============================================================================
