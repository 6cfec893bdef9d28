--------------------------- MODULE PresenceQueries ---------------------------
(***************************************************************************)
(* What SocketAuthService answers about presence.  getRelatedOnlineUsers   *)
(* reads the online set first, then the family, then the asker's           *)
(* conversations, then the people in them: four reads of a world that      *)
(* moves.  getSystemStats reads the number and the members apart.          *)
(***************************************************************************)
EXTENDS Naturals, FiniteSets

CONSTANTS
    Folks,          \* users
    Asker,          \* the user who is asked about
    Kin,            \* accountCreator and childAccounts of the asker; no code changes them
    Talks,          \* conversations
    MaxMoves        \* bound: changes of the world during a query

ASSUME PresenceQueriesConstants == Asker \in Folks /\ Kin \subseteq Folks /\ MaxMoves \in Nat

VARIABLES
    here,           \* chat:online_users
    takesPart,      \* pairs of a user and a conversation, rows that are not deleted
    moves,
    step,           \* the next read of the query
    listed,         \* the online users it read
    related,        \* the related users it has found so far
    talks,          \* the conversations it read
    answer,
    total,          \* of getSystemStats: the number it read
    \* history, since the query began
    hereAtStart,
    kept,           \* pairs of a user and a conversation he and the asker never left
    crossed,        \* conversations the asker was in at some moment
    met,            \* users in one of crossed, then or later
    churn           \* users who came or went since the number was read

world == <<here, takesPart, moves>>
query == <<step, listed, related, talks, answer, total>>
past == <<hereAtStart, kept, crossed, met, churn>>
presenceQueryVars == <<world, query, past>>

TalksOf(u, rows) == {c \in Talks : <<u, c>> \in rows}
Shared(rows) == {p \in rows : <<Asker, p[2]>> \in rows}
Partners(cs, rows) == {u \in Folks : TalksOf(u, rows) \cap cs # {}}

-----------------------------------------------------------------------------
\* Users come and go, join and leave conversations, before the query and during it.
WorldMoves ==
    /\ \/ /\ \E u \in Folks : here' = (here \ {u}) \cup ({u} \ here)
                               /\ churn' = IF step = "online" THEN {} ELSE churn \cup {u}
          /\ UNCHANGED takesPart
       \/ /\ \E p \in Folks \X Talks : takesPart' = (takesPart \ {p}) \cup ({p} \ takesPart)
          /\ UNCHANGED <<here, churn>>
    /\ \/ step = "online" /\ UNCHANGED <<moves, kept, crossed, met>>
       \/ /\ step # "online" /\ moves < MaxMoves /\ moves' = moves + 1
          /\ kept' = kept \cap Shared(takesPart')
          /\ crossed' = crossed \cup TalksOf(Asker, takesPart')
          /\ met' = met \cup Partners(crossed', takesPart')
    /\ UNCHANGED <<query, hereAtStart>>

-----------------------------------------------------------------------------
Answers(users) == step' = "done" /\ answer' = users

\* Mutant: the online users are read last.
MutOnlineLast ==
    /\ step = "others"
    /\ Answers(here \cap (related \cup Partners(talks, takesPart) \cup {Asker}))
    /\ UNCHANGED <<world, listed, related, talks, total, past>>

GetAllOnlineUsers ==
    /\ step = "online"
    /\ listed' = here /\ hereAtStart' = here
    /\ kept' = Shared(takesPart)
    /\ crossed' = TalksOf(Asker, takesPart)
    /\ met' = Partners(crossed', takesPart)
    /\ IF here = {} THEN Answers({}) ELSE step' = "family" /\ UNCHANGED answer
    /\ UNCHANGED <<world, related, talks, total, churn>>

\* The row of the asker may be gone: then there is no family.
ReadFamily ==
    /\ step = "family"
    /\ related' \in {Kin, {}}
    /\ step' = "talks"
    /\ UNCHANGED <<world, listed, talks, answer, total, past>>

\* Without a conversation no further read is made.
ReadParticipations ==
    /\ step = "talks"
    /\ talks' = TalksOf(Asker, takesPart)
    /\ IF talks' = {} THEN Answers(listed \cap (related \cup {Asker}))
                      ELSE step' = "others" /\ UNCHANGED answer
    /\ UNCHANGED <<world, listed, related, total, past>>

ReadOthers ==
    /\ step = "others"
    /\ Answers(listed \cap (related \cup Partners(talks, takesPart) \cup {Asker}))
    /\ UNCHANGED <<world, listed, related, talks, total, past>>

\* A read rejects: the answer is empty, and a success.
GetRelatedFails ==
    /\ step \in {"online", "family", "talks", "others"}
    /\ step' = "failed" /\ answer' = {}
    /\ UNCHANGED <<world, listed, related, talks, total, past>>

GetRelatedOnlineUsers == GetAllOnlineUsers \/ ReadFamily \/ ReadParticipations \/ ReadOthers

\* 'only-related-online-users' of the gateway; the caller's name is not compared with the asker's.
HandleGetRelatedOnlineUsers == GetRelatedOnlineUsers \/ GetRelatedFails

-----------------------------------------------------------------------------
GetOnlineUsersCount ==
    /\ step = "online"
    /\ total' = Cardinality(here)
    /\ step' = "members"
    /\ UNCHANGED <<world, listed, related, talks, answer, past>>

StatsMembers ==
    /\ step = "members"
    /\ listed' = here
    /\ step' = "stats"
    /\ UNCHANGED <<world, related, talks, answer, total, past>>

GetSystemStats == GetOnlineUsersCount \/ StatsMembers

-----------------------------------------------------------------------------
PresenceQueriesInit ==
    /\ here = {} /\ takesPart = {} /\ moves = 0
    /\ step = "online" /\ total = 0
    /\ listed = {} /\ related = {} /\ talks = {} /\ answer = {}
    /\ hereAtStart = {} /\ kept = {} /\ crossed = {} /\ met = {} /\ churn = {}

\* The answer is given; nothing of the query is kept.
Answered ==
    /\ step \in {"done", "failed", "stats"}
    /\ step' = "online" /\ total' = 0 /\ moves' = 0
    /\ listed' = {} /\ related' = {} /\ talks' = {} /\ answer' = {}
    /\ hereAtStart' = {} /\ kept' = {} /\ crossed' = {} /\ met' = {} /\ churn' = {}
    /\ UNCHANGED <<here, takesPart>>

PresenceQueriesNext == WorldMoves \/ HandleGetRelatedOnlineUsers \/ GetSystemStats \/ Answered

PresenceQueriesSpec == PresenceQueriesInit /\ [][PresenceQueriesNext]_presenceQueryVars

-----------------------------------------------------------------------------
\* getRelatedOnlineUsers lists no one who was not online when it began, and no stranger: each is
\* the asker, family, or was in a conversation after the asker had been in it, if not at the
\* same time. It misses no one who was online at the beginning and sat in one conversation with
\* the asker the whole time: who changes from one to another along with the asker is missed. The
\* number and the members of getSystemStats differ by at most those who came or went in between.
RelatedListed ==
    /\ step = "done" =>
        /\ answer \subseteq hereAtStart
        /\ answer \subseteq Kin \cup met \cup {Asker}
        /\ \A p \in kept : p[1] \in hereAtStart => p[1] \in answer
        /\ Asker \in hereAtStart => Asker \in answer
    /\ step = "stats" =>
        /\ total <= Cardinality(listed) + Cardinality(churn)
        /\ Cardinality(listed) <= total + Cardinality(churn)
=============================================================================
