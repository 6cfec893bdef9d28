--------------------------- MODULE MessagingProofs ---------------------------
(***************************************************************************)
(* Theorems about the rooms of the gateway, the worker that notifies       *)
(* participants, and the messages of a conversation, for any sockets,      *)
(* users, rooms, jobs, pages and times.                                    *)
(***************************************************************************)
EXTENDS Workers, Conversations, Messages, WellFoundedInduction, FiniteSetTheorems, TLAPS

-----------------------------------------------------------------------------
(* Calls on their way *)

Multis == [op : {"sadd", "srem"}, pair : Pairs]

\* No call of p is about the pair; the last one that is adds it.
Untouched(p, pair) == \A i \in 1..Len(p) : p[i].pair # pair
Announced(p, pair) ==
    \E i \in 1..Len(p) : /\ p[i].pair = pair /\ p[i].op = "sadd"
                         /\ \A k \in 1..Len(p) : k > i => p[k].pair # pair

LEMMA SendAdds ==
    ASSUME NEW p \in Seq(Multis), NEW m \in Multis, m.op = "sadd"
    PROVE  Announced(Append(p, m), m.pair)
<1>1. /\ Len(p) \in Nat /\ Len(Append(p, m)) = Len(p) + 1 /\ Append(p, m)[Len(p) + 1] = m
    OBVIOUS
<1>2. \A k \in 1..(Len(p) + 1) : ~(k > Len(p) + 1)
    BY <1>1
<1>. QED  BY <1>1, <1>2 DEF Announced

LEMMA SendOther ==
    ASSUME NEW p \in Seq(Multis), NEW m \in Multis, NEW pair, m.pair # pair
    PROVE  /\ Untouched(p, pair) => Untouched(Append(p, m), pair)
           /\ Announced(p, pair) => Announced(Append(p, m), pair)
<1>1. /\ Len(p) \in Nat /\ Len(Append(p, m)) = Len(p) + 1 /\ Append(p, m)[Len(p) + 1] = m
      /\ \A i \in 1..Len(p) : Append(p, m)[i] = p[i]
    OBVIOUS
<1>. QED  BY <1>1 DEF Untouched, Announced

\* The oldest call arrives.
LEMMA Arrives ==
    ASSUME NEW p \in Seq(Multis), p # <<>>, NEW pair
    PROVE  /\ Untouched(p, pair) => Head(p).pair # pair /\ Untouched(Tail(p), pair)
           /\ Announced(p, pair) => \/ Announced(Tail(p), pair)
                                    \/ /\ Head(p).pair = pair /\ Head(p).op = "sadd"
                                       /\ Untouched(Tail(p), pair)
<1>1. /\ Len(p) \in Nat \ {0} /\ Len(Tail(p)) = Len(p) - 1 /\ Head(p) = p[1]
      /\ \A i \in 1..(Len(p) - 1) : Tail(p)[i] = p[i + 1]
    OBVIOUS
<1>2. Untouched(p, pair) => Head(p).pair # pair /\ Untouched(Tail(p), pair)
    BY <1>1 DEF Untouched
<1>3. ASSUME NEW i \in 1..Len(p), p[i].pair = pair, p[i].op = "sadd",
             \A k \in 1..Len(p) : k > i => p[k].pair # pair
      PROVE  \/ Announced(Tail(p), pair)
             \/ Head(p).pair = pair /\ Head(p).op = "sadd" /\ Untouched(Tail(p), pair)
    <2>1. CASE i = 1
        BY <1>1, <1>3, <2>1 DEF Untouched
    <2>2. CASE i > 1
        <3>1. i - 1 \in 1..Len(Tail(p)) /\ Tail(p)[i - 1] = p[i]
            BY <1>1, <2>2
        <3>2. \A k \in 1..Len(Tail(p)) : k > i - 1 => Tail(p)[k].pair # pair
            BY <1>1, <1>3
        <3>. QED  BY <1>3, <3>1, <3>2 DEF Announced
    <2>. QED  BY <2>1, <2>2
<1>. QED  BY <1>2, <1>3 DEF Announced

-----------------------------------------------------------------------------
(* Rooms *)

\* A pair a socket joined for is announced by the calls of the socket, or they are silent
\* about it and Redis has it, or it was disturbed.
Known(s, pair) ==
    \/ Announced(pending[s], pair)
    \/ Untouched(pending[s], pair) /\ pair \in members \cup disturbed

RoomsInv ==
    /\ phase \in [Sockets -> {"closed", "authenticating", "known", "ready"}]
    /\ joined \in [Sockets -> SUBSET Pairs] /\ pending \in [Sockets -> Seq(Multis)]
    /\ \A s \in Sockets : \A pair \in joined[s] : Known(s, pair)

LEMMA RoomsInitInv == RoomsInit => RoomsInv
BY DEF RoomsInit, RoomsInv

LEMMA EnterOrQuit ==
    ASSUME RoomsInv, NEW s \in Sockets, NEW room \in RoomIds,
           EnterRoom(s, room) \/ QuitRoom(s, room)
    PROVE  RoomsInv'
<1> DEFINE pair == <<UserId(s), room>>
           left == {p \in joined[s] : p[2] # room}
<1>1. pair \in Pairs /\ pair[2] = room
    BY RoomsConstants DEF UserId, Pairs
<1> HIDE DEF pair
<1>2. PICK m \in Multis :
        /\ m.pair = pair /\ pending' = [pending EXCEPT ![s] = Append(@, m)]
        /\ UNCHANGED <<phase, members, disturbed>>
        /\ \/ m.op = "sadd" /\ joined' = [joined EXCEPT ![s] = @ \cup {pair}]
           \/ m.op = "srem" /\ joined' = [joined EXCEPT ![s] = left]
    <2>1. [op |-> "sadd", pair |-> pair] \in Multis /\ [op |-> "srem", pair |-> pair] \in Multis
        BY <1>1 DEF Multis
    <2>2. CASE EnterRoom(s, room)
        BY <2>1, <2>2 DEF EnterRoom, Sent, pair
    <2>3. CASE QuitRoom(s, room)
        BY <2>1, <2>3 DEF QuitRoom, Sent, pair
    <2>. QED  BY <2>2, <2>3
<1>3. /\ joined' \in [Sockets -> SUBSET Pairs] /\ pending' \in [Sockets -> Seq(Multis)]
      /\ pending'[s] = Append(pending[s], m) /\ pending[s] \in Seq(Multis)
      /\ \A q \in Sockets \ {s} : pending'[q] = pending[q] /\ joined'[q] = joined[q]
    <2>1. pending[s] \in Seq(Multis) /\ Append(pending[s], m) \in Seq(Multis)
        BY <1>2 DEF RoomsInv
    <2>2. joined' \in [Sockets -> SUBSET Pairs]
        <3>1. /\ joined \in [Sockets -> SUBSET Pairs]
              /\ joined[s] \cup {pair} \in SUBSET Pairs /\ left \in SUBSET Pairs
            BY <1>1 DEF RoomsInv
        <3>. QED  BY <1>2, <3>1
    <2>3. \A q \in Sockets \ {s} : joined'[q] = joined[q]
        BY <1>2 DEF RoomsInv
    <2>. QED  BY <1>2, <2>1, <2>2, <2>3 DEF RoomsInv
<1>4. joined'[s] = IF m.op = "sadd" THEN joined[s] \cup {pair} ELSE left
    BY <1>2 DEF RoomsInv
<1>5. ASSUME NEW x \in joined'[s] PROVE Known(s, x)'
    <2>1. CASE x = pair
        <3>1. m.op = "sadd"
            BY <1>1, <1>4, <1>5, <2>1
        <3>. QED  BY <1>2, <1>3, <2>1, <3>1, SendAdds DEF Known
    <2>2. CASE x # pair
        <3>1. x \in joined[s]
            BY <1>4, <1>5, <2>2
        <3>2. Known(s, x) /\ m.pair # x
            BY <1>2, <2>2, <3>1 DEF RoomsInv
        <3>3. Announced(pending[s], x) => Announced(pending'[s], x)
            BY <1>2, <1>3, <3>2, SendOther
        <3>4. Untouched(pending[s], x) => Untouched(pending'[s], x)
            BY <1>2, <1>3, <3>2, SendOther
        <3>. QED  BY <1>2, <3>2, <3>3, <3>4 DEF Known
    <2>. QED  BY <2>1, <2>2
<1>6. ASSUME NEW q \in Sockets \ {s}, NEW x \in joined'[q] PROVE Known(q, x)'
    BY <1>2, <1>3, <1>6 DEF RoomsInv, Known
<1>. QED  BY <1>2, <1>3, <1>5, <1>6 DEF RoomsInv

\* The oldest call of s arrives: what it does to a pair is what Known allows for the socket
\* itself and for every other one that joined for the pair.
LEMMA MultiArrives ==
    ASSUME RoomsInv, NEW s \in Sockets, pending[s] # <<>>, NEW m, m = Head(pending[s]),
           pending' = [pending EXCEPT ![s] = Tail(@)], UNCHANGED <<phase, joined>>,
           \A pair : pair # m.pair /\ pair \in members \cup disturbed
                        => pair \in members' \cup disturbed',
           m.op = "sadd" => m.pair \in members' \cup disturbed',
           m.op = "srem" => \A q \in Sockets \ {s} :
                              m.pair \in joined[q] => m.pair \in members' \cup disturbed'
    PROVE  RoomsInv'
<1>1. /\ pending[s] \in Seq(Multis) /\ Tail(pending[s]) \in Seq(Multis) /\ m \in Multis
      /\ pending' \in [Sockets -> Seq(Multis)] /\ pending'[s] = Tail(pending[s])
      /\ \A q \in Sockets \ {s} : pending'[q] = pending[q]
    BY DEF RoomsInv
<1>2. m.op \in {"sadd", "srem"}
    BY <1>1 DEF Multis
<1>3. ASSUME NEW x \in joined[s] PROVE Known(s, x)'
    <2>1. Known(s, x)
        BY DEF RoomsInv
    <2>2. CASE Untouched(pending[s], x) /\ x \in members \cup disturbed
        <3>1. m.pair # x /\ Untouched(pending'[s], x)
            BY <1>1, <2>2, Arrives
        <3>2. x \in members' \cup disturbed'
            BY <2>2, <3>1
        <3>. QED  BY <3>1, <3>2 DEF Known
    <2>3. CASE Announced(pending[s], x)
        <3>1. \/ Announced(pending'[s], x)
              \/ m.pair = x /\ m.op = "sadd" /\ Untouched(pending'[s], x)
            BY <1>1, <2>3, Arrives
        <3>. QED  BY <3>1 DEF Known
    <2>. QED  BY <2>1, <2>2, <2>3 DEF Known
<1>4. ASSUME NEW q \in Sockets \ {s}, NEW x \in joined[q] PROVE Known(q, x)'
    <2>1. Known(q, x) /\ pending'[q] = pending[q]
        BY <1>1 DEF RoomsInv
    <2>2. x \in members \cup disturbed => x \in members' \cup disturbed'
        BY <1>2, <1>4
    <2>. QED  BY <2>1, <2>2 DEF Known
<1>. QED  BY <1>1, <1>3, <1>4 DEF RoomsInv

LEMMA RoomsStep == RoomsInv /\ [RoomsNext]_roomVars => RoomsInv'
<1> SUFFICES ASSUME RoomsInv, [RoomsNext]_roomVars PROVE RoomsInv'
    OBVIOUS
<1>1. ASSUME NEW s \in Sockets, Connect(s) PROVE RoomsInv'
    BY <1>1 DEF Connect, Moves, RoomsInv, Known
<1>2. ASSUME NEW s \in Sockets, Disconnect(s) PROVE RoomsInv'
    BY <1>2 DEF Disconnect, RoomsInv, Known
<1>3. ASSUME NEW s \in Sockets, ApplyMulti(s) PROVE RoomsInv'
    <2> DEFINE m == Head(pending[s])
    <2>1. /\ pending[s] # <<>> /\ pending' = [pending EXCEPT ![s] = Tail(@)]
          /\ UNCHANGED <<phase, joined>> /\ (m.op = "sadd" => Add(m.pair))
          /\ (m.op = "srem" => Remove(s, m.pair))
        BY <1>3 DEF ApplyMulti
    <2>2. m.op \in {"sadd", "srem"}
        <3>1. pending[s] \in Seq(Multis)
            BY DEF RoomsInv
        <3>2. Head(pending[s]) \in Multis
            BY <2>1, <3>1
        <3>. QED  BY <3>2 DEF Multis
    <2>. HIDE DEF m
    <2>3. CASE m.op = "sadd"
        <3>1. Add(m.pair)
            BY <2>1, <2>3
        <3>. QED  BY <2>1, <2>3, <3>1, MultiArrives DEF Add, m
    <2>4. CASE m.op = "srem"
        <3>1. Remove(s, m.pair)
            BY <2>1, <2>4
        <3>. QED  BY <2>1, <2>4, <3>1, MultiArrives DEF Remove, m
    <2>. QED  BY <2>2, <2>3, <2>4
<1>4. ASSUME NEW s \in Sockets, MultiFails(s) PROVE RoomsInv'
    <2> DEFINE m == Head(pending[s])
    <2>1. /\ pending[s] # <<>> /\ pending' = [pending EXCEPT ![s] = Tail(@)]
          /\ UNCHANGED <<phase, joined>> /\ disturbed' = disturbed \cup {m.pair}
          /\ members' \in {members, members \cup {m.pair}, members \ {m.pair}}
        BY <1>4 DEF MultiFails
    <2>. QED  BY <2>1, MultiArrives
<1>5. ASSUME NEW s \in Sockets, NEW c \in Convs, HandleJoinRoom(s, c) \/ HandleLeaveRoom(s, c)
      PROVE  RoomsInv'
    BY <1>5, EnterOrQuit DEF HandleJoinRoom, HandleLeaveRoom, RoomIds
<1>6. ASSUME NEW s \in Sockets, NEW t \in Tasks,
             HandleJoinTaskRoom(s, t) \/ HandleLeaveTaskRoom(s, t)
      PROVE  RoomsInv'
    BY <1>6, EnterOrQuit DEF HandleJoinTaskRoom, HandleLeaveTaskRoom, RoomIds
<1>7. CASE UNCHANGED roomVars
    BY <1>7 DEF roomVars, RoomsInv, Known
<1>8. ASSUME NEW s \in Sockets, AuthenticateSocket(s) \/ JoinPersonalRoom(s) PROVE RoomsInv'
    BY <1>8 DEF AuthenticateSocket, JoinPersonalRoom, Moves, RoomsInv, Known
<1>. QED  BY <1>1, <1>2, <1>3, <1>4, <1>5, <1>6, <1>7, <1>8 DEF RoomsNext

LEMMA JoinedFollows == RoomsInv => JoinedIsMember
<1>1. \A pair : ~Announced(<<>>, pair)
    BY DEF Announced
<1>2. ASSUME RoomsInv, NEW s \in open, NEW pair \in joined[s], s \in Sockets, pending[s] = <<>>
      PROVE  pair \in members \cup disturbed
    BY <1>1, <1>2 DEF RoomsInv, Known
<1>. QED  BY <1>2 DEF open, JoinedIsMember

\* SocketGateway and SocketRoomService: a socket in a room finds the user it joined for, nobody
\* while it was not authenticated, among the users of the room when its calls have answered,
\* unless one failed or another socket of that user left.
THEOREM JoinedAreMembers == RoomsSpec => []JoinedIsMember
BY RoomsInitInv, RoomsStep, JoinedFollows, PTL DEF RoomsSpec

-----------------------------------------------------------------------------
(* The worker that notifies participants *)

\* The job in hand has reached each participant who was connected all the time, or has him
\* still to do, or is on the way to emit to him.
Covered(j, u) ==
    \/ "socket" \in told[j][u] \/ u \in todo
    \/ who = u /\ step \in {"online", "emit"}

WorkersInv ==
    /\ status \in [Jobs -> {"none", "waiting", "active", "done", "failed"}]
    /\ told \in [Jobs -> [Users -> SUBSET {"socket", "push"}]]
    /\ away \in [Jobs -> SUBSET Users]
    /\ step \in {"next", "online", "offline", "emit"} /\ (step # "next" => who \in Users)
    /\ \A i, j \in Jobs : status[i] = "active" /\ status[j] = "active" => i = j
    /\ \A j \in Jobs : Running(j) => Offline \subseteq away[j]
    /\ \A j \in Jobs : status[j] = "active" => \A u \in Participants[j] \ away[j] : Covered(j, u)
    /\ ParticipantsTold

LEMMA WorkersInitInv == WorkersInit => WorkersInv
BY DEF WorkersInit, WorkersInv, Running, ParticipantsTold

LEMMA WorkersStep == WorkersInv /\ [WorkersNext]_workersVars => WorkersInv'
<1> SUFFICES ASSUME WorkersInv, [WorkersNext]_workersVars PROVE WorkersInv'
    OBVIOUS
<1> USE WorkersConstants DEF WorkersInv, Running, ParticipantsTold, Covered
<1>1. UNCHANGED phase => UNCHANGED Offline
    BY DEF Offline, IsUserOnline
<1>2. CASE GatewayStep
    <2>1. Offline' \subseteq Users
        BY DEF Offline
    <2>2. /\ away' \in [Jobs -> SUBSET Users]
          /\ \A j \in Jobs : away'[j] = IF Running(j) THEN away[j] \cup Offline' ELSE away[j]
        BY <1>2, <2>1 DEF GatewayStep
    <2>3. UNCHANGED <<status, todo, step, who, told>>
        BY <1>2 DEF GatewayStep
    <2>. QED  BY <2>2, <2>3
<1>3. ASSUME NEW j \in Jobs, QueueNotifyParticipants(j) PROVE WorkersInv'
    <2>1. Offline \subseteq Users /\ UNCHANGED Offline
        BY <1>1, <1>3 DEF QueueNotifyParticipants, roomVars, Offline
    <2>. QED  BY <1>3, <2>1 DEF QueueNotifyParticipants
<1>4. ASSUME NEW j \in Jobs, TakeJob(j) PROVE WorkersInv'
    BY <1>1, <1>4 DEF TakeJob, roomVars
<1>5. ASSUME NEW j \in Jobs, CheckRoom(j) PROVE WorkersInv'
    BY <1>1, <1>5 DEF CheckRoom, roomVars, Go, NextParticipant
<1>6. ASSUME NEW j \in Jobs, EmitToUser(j) PROVE WorkersInv'
    BY <1>1, <1>6 DEF EmitToUser, At, roomVars, NextParticipant, Offline
<1>7. ASSUME NEW j \in Jobs, NEW u \in Users, CheckOnline(j, u) PROVE WorkersInv'
    BY <1>1, <1>7 DEF CheckOnline, At, roomVars, Offline
<1>8. ASSUME NEW j \in Jobs, NEW u \in Users, ParticipantFails(j, u) PROVE WorkersInv'
    BY <1>1, <1>8 DEF ParticipantFails, At, Go, NextParticipant
<1>9. ASSUME NEW j \in Jobs, CompleteJob(j) PROVE WorkersInv'
    BY <1>1, <1>9 DEF CompleteJob, At, roomVars
<1>10. ASSUME NEW j \in Jobs, Stall(j) PROVE WorkersInv'
    BY <1>1, <1>10 DEF Stall, roomVars, NextParticipant
<1>11. CASE UNCHANGED workersVars
    BY <1>1, <1>11 DEF workersVars, workerVars, roomVars
<1>. QED
    BY <1>2, <1>3, <1>4, <1>5, <1>6, <1>7, <1>8, <1>9, <1>10, <1>11 DEF WorkersNext

\* NotifyParticipantsProcessor: a finished job reached by socket every participant who stayed
\* connected and whose calls did not fail.
THEOREM ParticipantsAreTold == WorkersSpec => []ParticipantsTold
<1>1. WorkersInv => ParticipantsTold
    BY DEF WorkersInv
<1>. QED  BY <1>1, WorkersInitInv, WorkersStep, PTL DEF WorkersSpec

-----------------------------------------------------------------------------
(* The least and the greatest of a set of times *)

LEMMA MinIsLeast ==
    ASSUME NEW S \in SUBSET Nat, S # {}
    PROVE  Min(S) \in S /\ \A y \in S : Min(S) <= y
<1> DEFINE Less == OpToRel(<, Nat)
<1>1. IsWellFoundedOn(Less, Nat)
    BY NatLessThanWellFounded, Zenon
<1>2. \A x \in Nat, y \in Nat : x < y => <<x, y>> \in Less
    BY DEF OpToRel
<1> HIDE DEF Less
<1>3. PICK n \in S : \A m \in S : ~(<<m, n>> \in Less)
    BY <1>1, WFMin, Zenon
<1>4. ASSUME NEW m \in S PROVE n <= m
    <2>1. ~(<<m, n>> \in Less)
        BY <1>3, Zenon
    <2>2. ~(m < n)
        BY <1>2, <2>1, Zenon
    <2>. QED  BY <2>2
<1>. QED  BY <1>4 DEF Min

LEMMA MaxIsGreatest ==
    ASSUME NEW N \in Nat, NEW S \in SUBSET (0..N), S # {}
    PROVE  Max(S) \in S /\ \A y \in S : Max(S) >= y
<1> DEFINE T == {N - x : x \in S}
<1>1. T \in SUBSET Nat /\ T # {}
    <2>1. \A x \in S : N - x \in Nat
        OBVIOUS
    <2>. QED  BY <2>1
<1>2. PICK n \in S : N - n = Min(T)
    BY <1>1, MinIsLeast, Zenon
<1>3. \A m \in S : N - n <= N - m
    <2> HIDE DEF T
    <2>1. \A y \in T : Min(T) <= y
        BY <1>1, MinIsLeast
    <2>. QED  BY <1>2, <2>1 DEF T
<1>4. \A m \in S : n >= m
    BY <1>3
<1>. QED  BY <1>4 DEF Max

-----------------------------------------------------------------------------
(* Messages *)

TextInv ==
    /\ count \in 0..MaxMessages /\ deleted \subseteq 1..count /\ time \in Times
    /\ createdAt \in [Ids -> Times] /\ \A m \in 1..count : createdAt[m] <= time

\* The cursor a request is about to write belongs to the page it will answer.
ReadInv ==
    /\ readAt \in 0..MaxTime /\ shownUntil \in 0..MaxTime /\ readAt <= shownUntil
    /\ \A r \in marking : r.page \subseteq 1..count /\ r.last \in TimesOf(r.page)

Shown(m) == \E s \in walk.seen : s = m \/ createdAt[s] = createdAt[m]

\* A walk back has shown what is at its cursor or after it, a walk forth what is at its cursor
\* or before it, and a message at the cursor.
WalkInv ==
    /\ walk.cursor \in 0..MaxTime /\ walk.seen \subseteq 1..count /\ walk.upTo \in 0..count
    /\ Walking("back") => \A m \in Visible : m <= walk.upTo /\ createdAt[m] >= walk.cursor => Shown(m)
    /\ Walking("forth") =>
        /\ \A m \in Visible : createdAt[m] <= walk.cursor => Shown(m)
        /\ walk.cursor <= time
        /\ walk.cursor > 0 => \E s \in walk.seen : createdAt[s] = walk.cursor
    /\ WalkComplete

MessagesInv == TextInv /\ ReadInv /\ WalkInv

LEMMA MessagesInitInv == MessagesInit => MessagesInv
<1> SUFFICES ASSUME MessagesInit PROVE MessagesInv
    OBVIOUS
<1>1. TextInv /\ ReadInv
    BY MessagesConstants DEF MessagesInit, TextInv, ReadInv, Times, Ids
<1>2. WalkInv
    BY MessagesConstants DEF MessagesInit, WalkInv, NoWalk, Walking, Visible, WalkComplete
<1>. QED  BY <1>1, <1>2 DEF MessagesInv

LEMMA TimesOfPage ==
    ASSUME TextInv, NEW page \in SUBSET (1..count), page # {}
    PROVE  /\ Min(TimesOf(page)) \in TimesOf(page) /\ Max(TimesOf(page)) \in TimesOf(page)
           /\ \A m \in page : Min(TimesOf(page)) <= createdAt[m] /\ createdAt[m] <= Max(TimesOf(page))
           /\ TimesOf(page) \subseteq 1..MaxTime
<1>1. 1..count \subseteq Ids /\ MaxTime \in Nat
    BY MessagesConstants DEF TextInv, Ids
<1>2. TimesOf(page) \subseteq 1..MaxTime
    BY <1>1 DEF TextInv, TimesOf, Times
<1>3. TimesOf(page) \in SUBSET Nat /\ TimesOf(page) \in SUBSET (0..MaxTime) /\ TimesOf(page) # {}
    <2>1. 1..MaxTime \subseteq Nat /\ 1..MaxTime \subseteq 0..MaxTime
        BY <1>1
    <2>2. TimesOf(page) # {}
        BY DEF TimesOf
    <2>. QED  BY <1>2, <2>1, <2>2
<1>4. /\ Min(TimesOf(page)) \in TimesOf(page) /\ \A t \in TimesOf(page) : Min(TimesOf(page)) <= t
    BY <1>3, MinIsLeast
<1>5. /\ Max(TimesOf(page)) \in TimesOf(page) /\ \A t \in TimesOf(page) : Max(TimesOf(page)) >= t
    BY <1>1, <1>3, MaxIsGreatest
<1>6. \A m \in page : createdAt[m] \in TimesOf(page)
    BY DEF TimesOf
<1>. QED  BY <1>2, <1>3, <1>4, <1>5, <1>6

\* A page is full if there is more, and everything if there is not.
LEMMA PageIsCut ==
    ASSUME TextInv, NEW S \in SUBSET Visible, NEW page \in Newest(Limit, S) \cup Oldest(Limit, S)
    PROVE  /\ page \subseteq S /\ S \subseteq 1..count /\ page \subseteq 1..count
           /\ Cardinality(S) > Limit => page # {}
           /\ ~(Cardinality(S) > Limit) => page = S
<1>1. S \subseteq 1..count /\ IsFiniteSet(1..count)
    BY FS_Interval DEF TextInv, Visible
<1>2. IsFiniteSet(S) /\ Cardinality(S) \in Nat
    BY <1>1, FS_Subset, FS_CardinalityType
<1>3. page \subseteq S /\ Cardinality(page) = (IF Cardinality(S) < Limit THEN Cardinality(S) ELSE Limit)
    BY DEF Newest, Oldest
<1>4. Cardinality(S) > Limit => page # {}
    BY <1>2, <1>3, MessagesConstants, FS_EmptySet
<1>5. ~(Cardinality(S) > Limit) => Cardinality(page) = Cardinality(S)
    BY <1>2, <1>3, MessagesConstants
<1>. QED  BY <1>1, <1>2, <1>3, <1>4, <1>5, FS_Subset

\* What a request shows and marks, when it marks.
LEMMA ShowKeepsRead ==
    ASSUME MessagesInv, NEW times \in SUBSET (0..MaxTime), times # {}, Show(times),
           readAt' \in times, marking' \subseteq marking, UNCHANGED textVars
    PROVE  TextInv' /\ ReadInv'
<1> DEFINE S == times \cup {shownUntil}
<1>1. MaxTime \in Nat /\ S \in SUBSET (0..MaxTime) /\ S # {}
    BY MessagesConstants DEF MessagesInv, ReadInv
<1>2. Max(S) \in S /\ \A t \in S : Max(S) >= t
    <2> HIDE DEF S
    <2>. QED  BY <1>1, MaxIsGreatest
<1>3. shownUntil' \in 0..MaxTime /\ readAt' <= shownUntil' /\ readAt' \in 0..MaxTime
    <2>1. shownUntil' = Max(S)
        BY DEF Show
    <2>. QED  BY <1>1, <1>2, <2>1
<1>4. UNCHANGED <<count, createdAt, deleted, time>>
    BY DEF textVars
<1>5. TextInv'
    BY <1>4 DEF MessagesInv, TextInv, Ids, Times
<1>6. ReadInv'
    BY <1>3, <1>4 DEF MessagesInv, ReadInv, TimesOf
<1>. QED  BY <1>5, <1>6

LEMMA MarkKeepsRead ==
    ASSUME MessagesInv, NEW page \in SUBSET (1..count), NEW last, MarkLast(page, last),
           page # {} => last \in TimesOf(page)
    PROVE  TextInv' /\ ReadInv'
<1>1. UNCHANGED <<count, createdAt, deleted, time, readAt, shownUntil>>
    BY DEF MarkLast, textVars
<1>2. \A r \in marking' : r \in marking \/ (r.page = page /\ r.last = last /\ page # {})
    BY DEF MarkLast
<1>3. TextInv'
    BY <1>1 DEF MessagesInv, TextInv, Ids, Times
<1>4. ReadInv'
    BY <1>1, <1>2 DEF MessagesInv, ReadInv, TimesOf
<1>. QED  BY <1>3, <1>4

LEMMA TextKeepsWalk ==
    ASSUME MessagesInv, UNCHANGED <<count, createdAt, walk>>, deleted \subseteq deleted',
           time' \in Nat, time' >= time
    PROVE  WalkInv'
BY MessagesConstants
DEF MessagesInv, TextInv, WalkInv, Walking, Visible, Shown, WalkComplete, Times


\* A client that starts over has no walk to finish.
LEMMA NoWalkIsFine ==
    ASSUME TextInv', walk' = NoWalk
    PROVE  WalkInv'
<1>1. Ids' = Ids /\ \A m \in 1..count' : createdAt'[m] > 0
    BY MessagesConstants DEF TextInv, Ids, Times
<1>. QED  BY <1>1, MessagesConstants DEF TextInv, WalkInv, NoWalk, Walking, WalkComplete, Visible

\* A message that arrives belongs to no walk back, and a walk forth that is at the present
\* millisecond has shown one that shares it.
LEMMA StoreKeepsInv ==
    ASSUME MessagesInv, NEW p \in Talkers, StoreMessage(p)
    PROVE  MessagesInv'
<1>1. count + 1 \in Ids /\ 1..count \subseteq Ids /\ count \in Nat
    BY MessagesConstants DEF MessagesInv, TextInv, StoreMessage, Ids
<1>2. /\ count' = count + 1 /\ createdAt'[count + 1] = time
      /\ \A m \in 1..count : createdAt'[m] = createdAt[m]
      /\ createdAt' \in [Ids -> Times] /\ Ids' = Ids
      /\ UNCHANGED <<deleted, time, readAt, marking, shownUntil, walk>>
    BY <1>1 DEF MessagesInv, TextInv, StoreMessage, readVars, Ids
<1>3. 1..count' = (1..count) \cup {count + 1} /\ count + 1 \notin 1..count
    BY <1>1, <1>2
<1>4. TextInv'
    BY <1>1, <1>2, <1>3 DEF MessagesInv, TextInv, Times, Ids
<1>5. ReadInv'
    <2>1. \A T \in SUBSET (1..count) : TimesOf(T)' = {createdAt'[m] : m \in T}
        BY DEF TimesOf
    <2>2. \A T \in SUBSET (1..count) : {createdAt'[m] : m \in T} = {createdAt[m] : m \in T}
        BY <1>2
    <2>. QED  BY <1>2, <1>3, <2>1, <2>2 DEF MessagesInv, ReadInv, TimesOf
<1>6. WalkInv'
    <2>1. \A s \in walk.seen : createdAt'[s] = createdAt[s] /\ s \in 1..count
        BY <1>2 DEF MessagesInv, WalkInv
    <2>2. Visible' \subseteq Visible \cup {count + 1}
        BY <1>2, <1>3 DEF Visible
    <2>3. \A m \in Visible : createdAt'[m] = createdAt[m] /\ (Shown(m) => Shown(m)')
        BY <1>2, <2>1 DEF Visible, Shown
    <2>4. walk.upTo < count + 1 /\ walk.upTo \in 0..count' /\ walk.seen \subseteq 1..count'
        BY <1>1, <1>2, <1>3 DEF MessagesInv, WalkInv
    <2>5. ASSUME Walking("forth"), createdAt'[count + 1] <= walk.cursor
          PROVE  \E s \in walk.seen : createdAt'[s] = createdAt'[count + 1]
        <3>1. walk.cursor = time /\ time > 0
            BY <1>2, <2>5 DEF MessagesInv, TextInv, WalkInv, Times
        <3>2. PICK s \in walk.seen : createdAt[s] = walk.cursor
            BY <3>1, <2>5 DEF MessagesInv, WalkInv
        <3>. QED  BY <1>2, <2>1, <3>1, <3>2
    <2>6. (Walking("back") <=> Walking("back")') /\ (Walking("forth") <=> Walking("forth")')
        BY <1>2 DEF Walking
    <2>7. WalkComplete'
        <3> SUFFICES ASSUME NEW m \in Visible', walk.done, m <= walk.upTo PROVE Shown(m)'
            BY <1>2 DEF WalkComplete, Shown
        <3>1. m \in Visible
            BY <1>1, <2>2, <2>4 DEF MessagesInv, WalkInv
        <3>. QED  BY <2>3, <3>1 DEF MessagesInv, WalkInv, WalkComplete, Shown
    <2>8. Walking("back")' =>
            \A m \in Visible' : m <= walk'.upTo /\ createdAt'[m] >= walk'.cursor => Shown(m)'
        BY <1>1, <1>2, <2>2, <2>3, <2>4, <2>6 DEF MessagesInv, WalkInv
    <2>9. Walking("forth")' =>
            /\ \A m \in Visible' : createdAt'[m] <= walk'.cursor => Shown(m)'
            /\ walk'.cursor <= time'
            /\ walk'.cursor > 0 => \E s \in walk'.seen : createdAt'[s] = walk'.cursor
        <3> SUFFICES ASSUME Walking("forth")
                     PROVE  /\ \A m \in Visible' : createdAt'[m] <= walk.cursor => Shown(m)'
                            /\ walk.cursor <= time
                            /\ walk.cursor > 0 => \E s \in walk.seen : createdAt'[s] = walk.cursor
            BY <1>2, <2>6
        <3>1. ASSUME NEW m \in Visible', createdAt'[m] <= walk.cursor PROVE Shown(m)'
            <4>1. CASE m \in Visible
                BY <2>3, <3>1, <4>1 DEF MessagesInv, WalkInv
            <4>2. CASE m = count + 1
                BY <1>2, <2>5, <3>1, <4>2 DEF Shown
            <4>. QED  BY <2>2, <4>1, <4>2
        <3>. QED  BY <2>1, <3>1 DEF MessagesInv, WalkInv
    <2>. QED  BY <1>2, <2>4, <2>7, <2>8, <2>9 DEF MessagesInv, WalkInv
<1>. QED  BY <1>4, <1>5, <1>6 DEF MessagesInv

\* The first page and every next one: what the walk has shown reaches as far as its cursor.
LEMMA FirstPageKeepsWalk ==
    ASSUME MessagesInv, NEW n \in 1..2, GetMessagesByConversation(n)
    PROVE  MessagesInv'
<1>0. PICK skipped \in Newest((n - 1) * Limit, Visible) :
        \E page \in Newest(Limit, Visible \ skipped) :
          /\ MarkLast(page, Min(TimesOf(page)))
          /\ \/ UNCHANGED walk
             \/ n = 1 /\ page # {} /\ walk = NoWalk
                /\ Walk("back", page, Min(TimesOf(page)), TRUE, count)
    BY DEF GetMessagesByConversation
<1>1. PICK page \in Newest(Limit, Visible \ skipped) :
          /\ MarkLast(page, Min(TimesOf(page)))
          /\ \/ UNCHANGED walk
             \/ n = 1 /\ page # {} /\ walk = NoWalk
                /\ Walk("back", page, Min(TimesOf(page)), TRUE, count)
    BY <1>0
<1>2. TextInv /\ page \in SUBSET (1..count) /\ Visible \ skipped \in SUBSET Visible
    BY PageIsCut DEF MessagesInv
<1>3. TextInv' /\ ReadInv'
    BY <1>1, <1>2, TimesOfPage, MarkKeepsRead
<1>4. UNCHANGED textVars /\ UNCHANGED <<count, createdAt, deleted, time, Visible>>
    BY <1>1 DEF MarkLast, textVars, Visible
<1>5. CASE UNCHANGED walk
    BY <1>2, <1>3, <1>4, <1>5, TextKeepsWalk, MessagesConstants DEF MessagesInv, TextInv, Times
<1>6. CASE n = 1 /\ page # {} /\ Walk("back", page, Min(TimesOf(page)), TRUE, count)
           /\ walk = NoWalk
    <2>1. skipped = {}
        <3>1. IsFiniteSet(Visible)
            <4>1. IsFiniteSet(1..count) /\ Visible \subseteq 1..count
                BY FS_Interval DEF MessagesInv, TextInv, Visible
            <4>. QED  BY <4>1, FS_Subset
        <3>2. Cardinality(Visible) \in Nat /\ (n - 1) * Limit = 0
            BY <1>6, <3>1, FS_CardinalityType, MessagesConstants
        <3>3. skipped \subseteq Visible /\ Cardinality(skipped) = 0
            BY <3>2 DEF Newest
        <3>. QED  BY <3>1, <3>3, FS_Subset, FS_EmptySet
    <2> DEFINE c == Min(TimesOf(page))
    <2>2. /\ walk' = [dir |-> "back", done |-> FALSE, seen |-> page, upTo |-> count, cursor |-> c]
          /\ walk'.seen = page /\ walk'.upTo = count /\ walk'.cursor = c /\ walk'.done = FALSE
          /\ walk'.dir = "back"
        BY <1>6 DEF Walk, NoWalk
    <2>3. c \in 1..MaxTime /\ c \in TimesOf(page)
        BY <1>2, <1>6, TimesOfPage
    <2>4. PICK s \in page : createdAt[s] = c
        BY <2>3 DEF TimesOf
    <2>5. \A m \in Visible : createdAt[m] >= c => \E q \in page : q = m \/ createdAt[q] = createdAt[m]
        <3> SUFFICES ASSUME NEW m \in Visible, createdAt[m] >= c, m \notin page
                     PROVE  createdAt[m] = c
            BY <2>4
        <3>1. createdAt[s] >= createdAt[m]
            BY <2>1 DEF Newest
        <3>2. createdAt[m] \in Nat
            BY <1>2, MessagesConstants DEF TextInv, Visible, Ids, Times
        <3>. QED  BY <2>3, <2>4, <3>1, <3>2
    <2>6. count' \in Nat /\ c \in 0..MaxTime
        BY <2>3, <1>3, MessagesConstants DEF TextInv
    <2>. HIDE DEF c
    <2>7. WalkInv'
        BY <1>2, <1>4, <2>2, <2>5, <2>6 DEF WalkInv, Walking, Shown, WalkComplete
    <2>. QED  BY <1>3, <2>7 DEF MessagesInv
<1>. QED  BY <1>1, <1>5, <1>6

LEMMA BackPageKeepsWalk ==
    ASSUME MessagesInv, GetMessagesBefore
    PROVE  MessagesInv'
<1> DEFINE older == {m \in Visible : createdAt[m] < walk.cursor}
<1> DEFINE more == Cardinality(older) > Limit
<1>1. PICK page \in Newest(Limit, older) :
          /\ MarkLast(page, Min(TimesOf(page)))
          /\ Walk("back", page, Max(TimesOf(page)), more, walk.upTo)
    BY DEF GetMessagesBefore
<1>2. /\ TextInv /\ page \in SUBSET (1..count) /\ page \subseteq older
      /\ more => page # {}
      /\ ~more => page = older
    BY PageIsCut DEF MessagesInv
<1>3. TextInv' /\ ReadInv'
    BY <1>1, <1>2, TimesOfPage, MarkKeepsRead
<1>4. UNCHANGED <<count, createdAt, deleted, time, Visible>>
    BY <1>1 DEF MarkLast, textVars, Visible
<1> DEFINE c == Max(TimesOf(page))
<1>5. /\ walk'.seen = walk.seen \cup page /\ walk'.upTo = walk.upTo /\ walk'.dir = "back"
      /\ walk'.done = ~more /\ walk'.cursor = (IF more THEN c ELSE walk.cursor)
    BY <1>1 DEF Walk
<1>6. Walking("back") /\ \A m \in Visible : createdAt[m] \in Nat
    BY <1>2, MessagesConstants DEF GetMessagesBefore, TextInv, Visible, Ids, Times
<1>7. \A m \in Visible : m <= walk.upTo /\ createdAt[m] >= walk.cursor => Shown(m)
    BY <1>6 DEF MessagesInv, WalkInv
<1>8. \A m \in Visible : Shown(m) => Shown(m)'
    BY <1>4, <1>5 DEF Shown
<1>9. \A m \in page : Shown(m)'
    BY <1>4, <1>5 DEF Shown
<1>10. ASSUME more, NEW m \in older \ page, createdAt[m] >= c PROVE Shown(m)'
    <2>1. c \in TimesOf(page)
        BY <1>2, <1>10, TimesOfPage
    <2>2. PICK s \in page : createdAt[s] = c
        BY <2>1 DEF TimesOf
    <2>3. createdAt[s] >= createdAt[m]
        BY <1>10 DEF Newest
    <2>4. createdAt[s] = createdAt[m]
        BY <1>2, <1>6, <1>10, <2>2, <2>3
    <2>. QED  BY <1>4, <1>5, <2>4 DEF Shown
<1>11. c \in 0..MaxTime \/ ~more
    BY <1>2, TimesOfPage, MessagesConstants
<1>12. walk.cursor \in 0..MaxTime /\ walk.seen \subseteq 1..count /\ walk.upTo \in 0..count
    BY DEF MessagesInv, WalkInv
<1>13. \A m \in Visible : m \in older \/ createdAt[m] >= walk.cursor
    BY <1>6, <1>12, MessagesConstants
<1>. HIDE DEF c, more, older
<1>14. \A m \in Visible : m <= walk.upTo /\ (more => createdAt[m] >= c) => Shown(m)'
    BY <1>2, <1>7, <1>8, <1>9, <1>10, <1>13
<1>15. WalkInv'
    BY <1>2, <1>4, <1>5, <1>11, <1>12, <1>14 DEF WalkInv, Walking, WalkComplete, Shown
<1>. QED  BY <1>3, <1>15 DEF MessagesInv

LEMMA ForthPageKeepsWalk ==
    ASSUME MessagesInv, GetMessagesAfter
    PROVE  MessagesInv'
<1> DEFINE newer == {m \in Visible : createdAt[m] > walk.cursor}
<1> DEFINE more == Cardinality(newer) > Limit
<1>1. PICK page \in Oldest(Limit, newer) :
          /\ MarkLast(page, Max(TimesOf(page)))
          /\ Walk("forth", page, Max(TimesOf(page)), more, count)
    BY DEF GetMessagesAfter
<1>2. /\ TextInv /\ page \in SUBSET (1..count) /\ page \subseteq newer
      /\ more => page # {}
      /\ ~more => page = newer
    BY PageIsCut DEF MessagesInv
<1>3. TextInv' /\ ReadInv'
    BY <1>1, <1>2, TimesOfPage, MarkKeepsRead
<1>4. UNCHANGED <<count, createdAt, deleted, time, Visible>>
    BY <1>1 DEF MarkLast, textVars, Visible
<1> DEFINE c == Max(TimesOf(page))
<1>5. /\ walk'.seen = walk.seen \cup page /\ walk'.upTo = count /\ walk'.dir = "forth"
      /\ walk'.done = ~more /\ walk'.cursor = (IF more THEN c ELSE walk.cursor)
    BY <1>1 DEF Walk
<1>6. /\ \A m \in 1..count : createdAt[m] \in Nat /\ createdAt[m] > 0 /\ createdAt[m] <= time
      /\ \A m \in Visible : m \in 1..count
    BY <1>2, MessagesConstants DEF TextInv, Visible, Ids, Times
<1>7. \A m \in Visible : createdAt[m] <= walk.cursor => Shown(m)
    <2>1. CASE walk = NoWalk
        BY <1>6, <2>1 DEF NoWalk
    <2>2. CASE Walking("forth")
        BY <2>2 DEF MessagesInv, WalkInv
    <2>. QED  BY <2>1, <2>2 DEF GetMessagesAfter
<1>8. \A m \in Visible : Shown(m) => Shown(m)'
    BY <1>4, <1>5 DEF Shown
<1>9. \A m \in page : Shown(m)'
    BY <1>4, <1>5 DEF Shown
<1>10. more => c \in TimesOf(page) /\ c \in 1..MaxTime
    BY <1>2, TimesOfPage
<1>11. ASSUME more PROVE \E s \in page : createdAt[s] = c
    BY <1>10, <1>11 DEF TimesOf
<1>12. ASSUME more, NEW m \in newer \ page, createdAt[m] <= c PROVE Shown(m)'
    <2>1. PICK s \in page : createdAt[s] = c
        BY <1>11, <1>12
    <2>2. createdAt[s] <= createdAt[m]
        BY <1>12 DEF Oldest
    <2>3. createdAt[s] = createdAt[m]
        BY <1>2, <1>6, <1>12, <2>1, <2>2
    <2>. QED  BY <1>4, <1>5, <2>3 DEF Shown
<1>13. /\ walk.cursor \in 0..MaxTime /\ walk.seen \subseteq 1..count /\ count \in 0..count
       /\ MaxTime \in Nat
    BY <1>2, MessagesConstants DEF MessagesInv, WalkInv, TextInv
<1>14. \A m \in Visible : m \in newer \/ createdAt[m] <= walk.cursor
    BY <1>6, <1>13
<1>15. more => c <= time /\ \E s \in walk'.seen : createdAt[s] = c
    BY <1>2, <1>5, <1>6, <1>11
<1>. HIDE DEF c, more, newer
<1>16. \A m \in Visible : (more => createdAt[m] <= c) => Shown(m)'
    BY <1>2, <1>7, <1>8, <1>9, <1>12, <1>14
<1>17. /\ walk'.cursor \in 0..MaxTime /\ walk'.seen \subseteq 1..count' /\ walk'.upTo \in 0..count'
       /\ ~Walking("back")'
    <2>1. walk'.cursor \in 0..MaxTime
        BY <1>5, <1>10, <1>13
    <2>2. walk'.seen \subseteq 1..count' /\ walk'.upTo \in 0..count'
        BY <1>2, <1>4, <1>5, <1>13
    <2>3. ~Walking("back")'
        BY <1>5 DEF Walking
    <2>. QED  BY <2>1, <2>2, <2>3
<1>18. Walking("forth")' => more /\ walk'.cursor = c
    BY <1>5 DEF Walking
<1>19. WalkComplete'
    BY <1>4, <1>5, <1>16 DEF WalkComplete, Shown
<1>20. WalkInv'
    BY <1>4, <1>15, <1>16, <1>17, <1>18, <1>19 DEF WalkInv
<1>. QED  BY <1>3, <1>20 DEF MessagesInv

LEMMA MarkKeepsInv ==
    ASSUME MessagesInv, NEW r \in marking, MarkMessagesAsRead(r) \/ MarkFails(r)
    PROVE  MessagesInv'
<1>1. /\ UNCHANGED textVars /\ UNCHANGED <<count, createdAt, deleted, time>>
      /\ marking' \subseteq marking
    BY DEF MarkMessagesAsRead, MarkFails, textVars
<1>2. CASE MarkMessagesAsRead(r)
    <2>1. /\ TimesOf(r.page) \in SUBSET (0..MaxTime) /\ TimesOf(r.page) # {}
          /\ readAt' \in TimesOf(r.page) /\ Show(TimesOf(r.page)) /\ UNCHANGED walk
        BY <1>2, MessagesConstants
        DEF MessagesInv, TextInv, ReadInv, MarkMessagesAsRead, TimesOf, Ids, Times
    <2>2. TextInv' /\ ReadInv'
        BY <1>1, <2>1, ShowKeepsRead
    <2>3. time' \in Nat /\ time' >= time
        BY <1>1, MessagesConstants DEF MessagesInv, TextInv, Times
    <2>. QED  BY <1>1, <2>1, <2>2, <2>3, TextKeepsWalk DEF MessagesInv
<1>3. CASE MarkFails(r)
    <2>1. UNCHANGED <<readAt, shownUntil>> /\ walk' = NoWalk
        BY <1>3 DEF MarkFails
    <2>2. TextInv'
        BY <1>1 DEF MessagesInv, TextInv, Ids, Times
    <2>3. ReadInv'
        BY <1>1, <2>1 DEF MessagesInv, ReadInv, TimesOf
    <2>. QED  BY <2>1, <2>2, <2>3, NoWalkIsFine DEF MessagesInv
<1>. QED  BY <1>2, <1>3

LEMMA MessagesStep == MessagesInv /\ [MessagesNext]_messageVars => MessagesInv'
<1> SUFFICES ASSUME MessagesInv, [MessagesNext]_messageVars PROVE MessagesInv'
    OBVIOUS
<1>1. time \in Nat /\ time \in 1..MaxTime /\ MaxTime \in Nat
    BY MessagesConstants DEF MessagesInv, TextInv, Times
<1>2. ASSUME UNCHANGED <<count, createdAt, readVars, walk>>, deleted \subseteq deleted', deleted' \subseteq 1..count,
             time' \in Times, time' >= time
      PROVE  MessagesInv'
    <2>1. \A m \in 1..count : createdAt[m] \in Nat /\ createdAt[m] <= time
        BY <1>1, MessagesConstants DEF MessagesInv, TextInv, Ids, Times
    <2>2. time' \in Nat
        BY <1>1, <1>2 DEF Times
    <2>3. TextInv'
        BY <1>1, <1>2, <2>1, <2>2 DEF MessagesInv, TextInv, Ids, Times
    <2>4. ReadInv'
        BY <1>2 DEF MessagesInv, ReadInv, readVars, TimesOf
    <2>. QED  BY <1>2, <2>2, <2>3, <2>4, TextKeepsWalk DEF MessagesInv
<1>3. CASE MillisecondPasses
    BY <1>1, <1>2, <1>3 DEF MillisecondPasses, MessagesInv, TextInv, Times, readVars
<1>4. CASE MarkAsRead
    <2>1. {time} \in SUBSET (0..MaxTime) /\ UNCHANGED <<count, createdAt, deleted, time, walk>>
        BY <1>1, <1>4 DEF MarkAsRead, textVars
    <2>2. TextInv' /\ ReadInv'
        BY <1>4, <2>1, ShowKeepsRead DEF MarkAsRead
    <2>. QED  BY <1>1, <2>1, <2>2, TextKeepsWalk DEF MessagesInv
<1>5. ASSUME NEW p \in Talkers, CheckParticipantOf(p) PROVE MessagesInv'
    BY <1>1, <1>2, <1>5 DEF CheckParticipantOf, textVars, MessagesInv, TextInv
<1>6. ASSUME NEW m \in Ids, DeleteMessage(m) PROVE MessagesInv'
    BY <1>1, <1>2, <1>6 DEF DeleteMessage, Visible, MessagesInv, TextInv
<1>7. CASE UNCHANGED messageVars
    BY <1>1, <1>2, <1>7 DEF messageVars, textVars, MessagesInv, TextInv
<1>. QED
    BY <1>3, <1>4, <1>5, <1>6, <1>7, StoreKeepsInv, FirstPageKeepsWalk, BackPageKeepsWalk,
       ForthPageKeepsWalk, MarkKeepsInv DEF MessagesNext

LEMMA MessagesAlwaysInv == MessagesSpec => []MessagesInv
BY MessagesInitInv, MessagesStep, PTL DEF MessagesSpec

\* MessageService and ConversationService.markAsRead: the reader's cursor never passes what the
\* reader was shown, so a newer message is counted as unread.
THEOREM NewIsUnread == MessagesSpec => []NewStaysUnread
<1>1. MessagesInv => NewStaysUnread
    <2> SUFFICES ASSUME MessagesInv, NEW m \in Visible, author[m] # Reader, createdAt[m] > shownUntil
                 PROVE  createdAt[m] > readAt
        BY DEF NewStaysUnread, Unread
    <2>1. createdAt[m] \in Nat /\ shownUntil \in Nat /\ readAt \in Nat /\ readAt <= shownUntil
        BY MessagesConstants DEF MessagesInv, TextInv, ReadInv, Visible, Ids, Times
    <2>. QED  BY <2>1
<1>. QED  BY <1>1, MessagesAlwaysInv, PTL

\* getMessagesWithCursor: a finished walk has shown every message it had to, or one that shares
\* its millisecond.
THEOREM WalksAreComplete == MessagesSpec => []WalkComplete
<1>1. MessagesInv => WalkComplete
    BY DEF MessagesInv, WalkInv
<1>. QED  BY <1>1, MessagesAlwaysInv, PTL

-----------------------------------------------------------------------------
(* Conversations *)

\* Two people or more were entered.
Entered(c) == \E p, q \in People : p # q /\ Rows(c, p) >= 1 /\ Rows(c, q) >= 1

\* A request enters the two of a new direct conversation, and no other is between them.
EnteringTwo(r, c, p, q) ==
    /\ at[r] \in {"check", "insert"} /\ chat[r] = c
    /\ p # q /\ adding[r] \cup person[r] \subseteq {p, q} /\ adding[r] \cap person[r] = {}
    /\ \A o \in People : Rows(c, o) = IF o \in {p, q} \ (adding[r] \cup person[r]) THEN 1 ELSE 0
    /\ \A d \in 1..threads : d # c => ~Between(d, {p, q})

Entering(r, c) == \E p, q \in People : EnteringTwo(r, c, p, q)

ThreadsTyped ==
    /\ threads \in 0..MaxThreads
    /\ kind \in [Threads -> {"direct", "group"}]
    /\ live \in [Threads -> [People -> Nat]] /\ dead \in [Threads -> [People -> Nat]]
    /\ \A c \in Threads, p \in People : live[c][p] <= 1 /\ (c > threads => Rows(c, p) = 0)

RequestsTyped ==
    /\ at \in [ChatRequests -> {"idle", "create", "check", "insert"}]
    /\ chat \in [ChatRequests -> 0..MaxThreads]
    /\ adding \in [ChatRequests -> SUBSET People] /\ person \in [ChatRequests -> SUBSET People]
    /\ \A r, q \in ChatRequests : at[r] # "idle" /\ at[q] # "idle" => r = q
    /\ \A r \in ChatRequests :
        /\ at[r] \in {"check", "insert"} => chat[r] \in 1..threads
        /\ at[r] # "insert" => person[r] = {}
        /\ at[r] = "insert" => \A p \in person[r] : person[r] = {p} /\ live[chat[r]][p] = 0
        /\ at[r] = "create" =>
            Cardinality(adding[r]) >= 2
            /\ (Cardinality(adding[r]) > 2 \/ \A c \in 1..threads : ~Between(c, adding[r]))

DirectInv ==
    /\ \A c \in 1..threads :
        kind[c] = "direct" => Entered(c) \/ \E r \in ChatRequests : Entering(r, c)
    /\ \A c, d \in 1..threads, p, q \in People :
        p # q /\ Between(c, {p, q}) /\ Between(d, {p, q}) => c = d

NeatInv == neat => ThreadsTyped /\ RequestsTyped /\ DirectInv

LEMMA ConversationsInitInv == ConversationsInit => NeatInv
<1> SUFFICES ASSUME ConversationsInit PROVE NeatInv
    OBVIOUS
<1>1. ThreadsTyped
    BY ConversationsConstants DEF ConversationsInit, ThreadsTyped, Threads, Rows
<1>2. RequestsTyped
    BY ConversationsConstants DEF ConversationsInit, RequestsTyped
<1>3. DirectInv
    BY DEF ConversationsInit, DirectInv
<1>. QED  BY <1>1, <1>2, <1>3 DEF NeatInv

\* What a request that begins, proceeds or ends without writing a row leaves as it was.
LEMMA RowsStay ==
    ASSUME UNCHANGED threadVars
    PROVE  /\ UNCHANGED <<threads, kind, live, dead>> /\ Threads' = Threads
           /\ \A c, o : Rows(c, o)' = Rows(c, o)
           /\ \A c, ps : Between(c, ps)' = Between(c, ps)
           /\ \A c : Entered(c)' = Entered(c)
           /\ ThreadsTyped => ThreadsTyped'
BY DEF threadVars, Rows, Between, Entered, ThreadsTyped, Threads

LEMMA EnteringStays ==
    ASSUME UNCHANGED threadVars, NEW r, NEW c, UNCHANGED <<at[r], chat[r], adding[r], person[r]>>,
           Entering(r, c)
    PROVE  Entering(r, c)'
<1>1. PICK p \in People, q \in People : EnteringTwo(r, c, p, q)
    BY DEF Entering
<1>2. /\ UNCHANGED threads /\ \A o : Rows(c, o)' = Rows(c, o)
      /\ \A d : Between(d, {p, q})' = Between(d, {p, q})
    BY RowsStay
<1>3. EnteringTwo(r, c, p, q)'
    BY <1>1, <1>2 DEF EnteringTwo
<1>. QED  BY <1>3 DEF Entering

LEMMA BegunAlone ==
    ASSUME NeatInv, neat', NEW r \in ChatRequests, Begun(r)
    PROVE  /\ neat /\ ThreadsTyped /\ RequestsTyped /\ DirectInv
           /\ \A q \in ChatRequests : at[q] = "idle"
           /\ \A c \in 1..threads : kind[c] = "direct" => Entered(c)
BY DEF Begun, NeatInv, DirectInv, Entering, EnteringTwo

\* A request that begins and leaves the rows alone.
LEMMA BeginKeepsInv ==
    ASSUME NeatInv, NEW r \in ChatRequests, NEW ps \in SUBSET People,
           CreateConversation(r, ps) \/ \E c \in Threads : AddParticipants(r, c, ps)
    PROVE  NeatInv'
<1> SUFFICES ASSUME neat' PROVE ThreadsTyped' /\ RequestsTyped' /\ DirectInv'
    BY DEF NeatInv
<1>1. /\ neat /\ ThreadsTyped /\ RequestsTyped /\ DirectInv
      /\ \A q \in ChatRequests : at[q] = "idle"
      /\ \A c \in 1..threads : kind[c] = "direct" => Entered(c)
    BY BegunAlone DEF CreateConversation, AddParticipants
<1>2. UNCHANGED threadVars /\ UNCHANGED person
    BY DEF CreateConversation, AddParticipants
<1>3. ThreadsTyped' /\ DirectInv'
    BY <1>1, <1>2, RowsStay DEF DirectInv
<1>4. CASE CreateConversation(r, ps)
    <2>1. /\ at' = [at EXCEPT ![r] = "create"] /\ chat' = [chat EXCEPT ![r] = 0]
          /\ adding' = [adding EXCEPT ![r] = ps]
          /\ Cardinality(ps) >= 2
          /\ Cardinality(ps) > 2 \/ \A c \in 1..threads : ~Between(c, ps)
        BY <1>4 DEF CreateConversation, Proceed, FindExistingDirectConversation, Between
    <2>. QED
        BY <1>1, <1>2, <1>3, <2>1, RowsStay, ConversationsConstants DEF RequestsTyped
<1>5. ASSUME NEW c \in Threads, AddParticipants(r, c, ps) PROVE RequestsTyped'
    <2>1. /\ at' = [at EXCEPT ![r] = "check"] /\ chat' = [chat EXCEPT ![r] = c]
          /\ adding' = [adding EXCEPT ![r] = ps] /\ c \in 1..threads
        BY <1>5 DEF AddParticipants, Proceed
    <2>2. c \in 0..MaxThreads
        BY ConversationsConstants DEF Threads
    <2>. QED  BY <1>1, <1>2, <2>1, <2>2, RowsStay DEF RequestsTyped
<1>. QED  BY <1>3, <1>4, <1>5

\* The new conversation is empty; the others have been entered.
LEMMA StoreConversationKeepsInv ==
    ASSUME NeatInv, NEW r \in ChatRequests, StoreConversation(r)
    PROVE  NeatInv'
<1> SUFFICES ASSUME neat' PROVE ThreadsTyped' /\ RequestsTyped' /\ DirectInv'
    BY DEF NeatInv
<1>0. PICK new : new = threads + 1
    OBVIOUS
<1>1. neat /\ ThreadsTyped /\ RequestsTyped /\ DirectInv
    BY DEF StoreConversation, NeatInv
<1>2. /\ at[r] = "create" /\ threads < MaxThreads /\ threads' = new
      /\ kind' = [kind EXCEPT ![new] = IF Cardinality(adding[r]) > 2 THEN "group" ELSE "direct"]
      /\ at' = [at EXCEPT ![r] = "check"] /\ chat' = [chat EXCEPT ![r] = new]
      /\ adding' = [adding EXCEPT ![r] = adding[r]]
      /\ UNCHANGED <<live, dead, person>>
    BY <1>0 DEF StoreConversation, Proceed
<1>3. /\ threads \in Nat /\ MaxThreads \in Nat /\ new \in Threads /\ new \notin 1..threads
      /\ 1..threads' = (1..threads) \cup {new} /\ Threads' = Threads /\ 1..threads \subseteq Threads
      /\ new \in 0..MaxThreads
    BY <1>0, <1>1, <1>2, ConversationsConstants DEF ThreadsTyped, Threads
<1>4. /\ \A c, o : Rows(c, o)' = Rows(c, o)
      /\ \A c \in 1..threads : kind'[c] = kind[c]
      /\ \A o \in People : Rows(new, o) = 0
    BY <1>0, <1>1, <1>2, <1>3 DEF Rows, ThreadsTyped
<1>5. \A ps : \A c \in 1..threads : Between(c, ps)' = Between(c, ps)
    BY <1>4 DEF Between
<1>6. \A c \in 1..threads : kind[c] = "direct" => Entered(c) /\ Entered(c)'
    <2>1. \A c : \A q \in ChatRequests : ~Entering(q, c)
        BY <1>1, <1>2 DEF RequestsTyped, Entering, EnteringTwo
    <2>2. \A c \in 1..threads : kind[c] = "direct" => Entered(c)
        BY <1>1, <2>1 DEF DirectInv
    <2>3. \A c : Entered(c) => Entered(c)'
        BY <1>4 DEF Entered
    <2>. QED  BY <2>2, <2>3
<1>7. \A p, q \in People : ~\A o \in People : Rows(new, o)' = IF o \in {p, q} THEN 1 ELSE 0
    BY <1>4
<1>8. ThreadsTyped'
    <2>1. kind' \in [Threads -> {"direct", "group"}] /\ threads' \in 0..MaxThreads
        BY <1>1, <1>2, <1>3 DEF ThreadsTyped, Threads
    <2>2. \A c \in Threads : c > threads' => c > threads
        BY <1>2, <1>3 DEF Threads
    <2>. QED  BY <1>1, <1>2, <1>3, <1>4, <2>1, <2>2 DEF ThreadsTyped
<1>9. RequestsTyped'
    <2>1. \A q \in ChatRequests : at'[q] \in {"check", "insert"} => q = r
        BY <1>1, <1>2 DEF RequestsTyped
    <2>2. \A q \in ChatRequests : at'[q] # "create"
        BY <1>1, <1>2 DEF RequestsTyped
    <2>3. at'[r] = "check" /\ chat'[r] = new /\ person' = person
        BY <1>1, <1>2 DEF RequestsTyped
    <2>4. /\ at' \in [ChatRequests -> {"idle", "create", "check", "insert"}]
          /\ chat' \in [ChatRequests -> 0..MaxThreads]
          /\ adding' \in [ChatRequests -> SUBSET People] /\ person' \in [ChatRequests -> SUBSET People]
          /\ \A q, s \in ChatRequests : at'[q] # "idle" /\ at'[s] # "idle" => q = s
          /\ \A q \in ChatRequests : person[q] = {}
        BY <1>1, <1>2, <1>3 DEF RequestsTyped
    <2>. QED  BY <1>3, <2>1, <2>2, <2>3, <2>4 DEF RequestsTyped
<1>10. ASSUME kind'[new] = "direct" PROVE Entering(r, new)'
    <2>1. Cardinality(adding[r]) >= 2 /\ ~(Cardinality(adding[r]) > 2) /\ adding[r] \subseteq People
        BY <1>1, <1>2, <1>3, <1>10 DEF RequestsTyped, ThreadsTyped
    <2>2. IsFiniteSet(adding[r]) /\ Cardinality(adding[r]) \in Nat
        BY <2>1, ConversationsConstants, FS_Subset, FS_CardinalityType
    <2>3. PICK p \in adding[r] : TRUE
        BY <2>1, <2>2, FS_EmptySet
    <2>4. IsFiniteSet(adding[r] \ {p}) /\ Cardinality(adding[r] \ {p}) = 1
        BY <2>1, <2>2, <2>3, FS_RemoveElement
    <2>5. PICK q : adding[r] \ {p} = {q}
        BY <2>4, FS_Singleton
    <2>6. adding[r] = {p, q} /\ p # q /\ p \in People /\ q \in People
        BY <2>1, <2>3, <2>5
    <2>7. \A d \in 1..threads : ~Between(d, {p, q})
        <3>1. \A d \in 1..threads : ~Between(d, adding[r])
            BY <1>1, <1>2, <2>1 DEF RequestsTyped
        <3>. QED  BY <2>6, <3>1, Zenon
    <2>8. /\ at'[r] = "check" /\ chat'[r] = new /\ adding'[r] = {p, q} /\ person'[r] = {}
        BY <1>1, <1>2, <1>3, <2>6 DEF RequestsTyped
    <2>9. /\ adding'[r] \cup person'[r] \subseteq {p, q} /\ adding'[r] \cap person'[r] = {}
          /\ {p, q} \ (adding'[r] \cup person'[r]) = {}
        BY <2>8
    <2>10. \A o \in People : Rows(new, o) = IF o \in {p, q} \ (adding'[r] \cup person'[r]) THEN 1 ELSE 0
        BY <1>4, <2>9
    <2>11. \A d \in 1..threads' : d # new => ~Between(d, {p, q})'
        BY <1>3, <1>5, <2>7
    <2>. QED  BY <2>6, <2>8, <2>9, <2>10, <2>11, <1>4 DEF Entering, EnteringTwo
<1>11. DirectInv'
    <2>1. \A p, q \in People : ~Between(new, {p, q})'
        BY <1>7 DEF Between
    <2>2. \A c \in 1..threads' :
            kind'[c] = "direct" => Entered(c)' \/ \E q \in ChatRequests : Entering(q, c)'
        BY <1>3, <1>4, <1>6, <1>10
    <2>3. \A c, d \in 1..threads', p, q \in People :
            p # q /\ Between(c, {p, q})' /\ Between(d, {p, q})' => c = d
        BY <1>1, <1>3, <1>5, <2>1 DEF DirectInv
    <2>. QED  BY <2>2, <2>3 DEF DirectInv
<1>. QED  BY <1>8, <1>9, <1>11

\* A request that steps within its conversation without writing a row: what it still has to
\* enter, with the one it is entering, is what it had, or one less whom it passed over, and
\* who has a row.
LEMMA CheckKeepsInv ==
    ASSUME NeatInv, NEW r \in ChatRequests, NEW p \in People, CheckParticipant(r, p)
    PROVE  NeatInv'
<1> SUFFICES ASSUME neat' PROVE ThreadsTyped' /\ RequestsTyped' /\ DirectInv'
    BY DEF NeatInv
<1> DEFINE c == chat[r]
<1>1. neat /\ ThreadsTyped /\ RequestsTyped /\ DirectInv
    BY DEF CheckParticipant, NeatInv
<1>2. /\ at[r] = "check" /\ p \in adding[r] /\ UNCHANGED threadVars /\ person[r] = {}
      /\ chat' = [chat EXCEPT ![r] = chat[r]] /\ adding' = [adding EXCEPT ![r] = adding[r] \ {p}]
      /\ \/ live[chat[r]][p] > 0 /\ at' = [at EXCEPT ![r] = "check"] /\ UNCHANGED person
         \/ ~(live[chat[r]][p] > 0) /\ at' = [at EXCEPT ![r] = "insert"]
            /\ person' = [person EXCEPT ![r] = {p}]
    BY <1>1 DEF CheckParticipant, Proceed, RequestsTyped
<1>3. chat' = chat /\ chat[r] \in 1..threads /\ chat[r] \in Threads
    BY <1>1, <1>2, ConversationsConstants DEF RequestsTyped, ThreadsTyped, Threads
<1>4. ThreadsTyped'
    BY <1>1, <1>2, RowsStay
<1>5. RequestsTyped'
    <2>1. ~(live[chat[r]][p] > 0) => live[chat[r]][p] = 0
        BY <1>1, <1>3 DEF ThreadsTyped
    <2>2. UNCHANGED <<threads, live>>
        BY <1>2 DEF threadVars
    <2>3. CASE UNCHANGED person /\ at' = [at EXCEPT ![r] = "check"]
        BY <1>1, <1>2, <1>3, <2>2, <2>3 DEF RequestsTyped
    <2>4. CASE ~(live[chat[r]][p] > 0) /\ at' = [at EXCEPT ![r] = "insert"]
               /\ person' = [person EXCEPT ![r] = {p}]
        BY <1>1, <1>2, <1>3, <2>1, <2>2, <2>4 DEF RequestsTyped
    <2>. QED  BY <1>2, <2>3, <2>4
<1>6. ASSUME NEW x \in People, NEW y \in People, NEW d \in 1..threads, NEW q \in ChatRequests,
             EnteringTwo(q, d, x, y)
      PROVE  EnteringTwo(q, d, x, y)'
    <2>1. q = r /\ d = chat[r]
        BY <1>1, <1>2, <1>6 DEF RequestsTyped, EnteringTwo
    <2>2. Rows(d, p) = 0 /\ ~(live[d][p] > 0)
        BY <1>1, <1>2, <1>3, <1>6, <2>1 DEF EnteringTwo, Rows, ThreadsTyped
    <2>3. /\ at'[r] = "insert" /\ person'[r] = {p} /\ adding'[r] = adding[r] \ {p} /\ chat'[r] = d
        BY <1>1, <1>2, <1>3, <2>1, <2>2 DEF RequestsTyped
    <2>4. adding'[r] \cup person'[r] = adding[r] \cup person[r] /\ adding'[r] \cap person'[r] = {}
        BY <1>2, <2>3
    <2>5. /\ UNCHANGED threads /\ \A o : Rows(d, o)' = Rows(d, o)
          /\ \A e : Between(e, {x, y})' = Between(e, {x, y})
        BY <1>2, RowsStay
    <2>. QED  BY <1>6, <2>1, <2>3, <2>4, <2>5 DEF EnteringTwo
<1>7. DirectInv'
    <2>1. \A d \in 1..threads, q \in ChatRequests : Entering(q, d) => Entering(q, d)'
        BY <1>6 DEF Entering
    <2>. QED  BY <1>1, <1>2, <2>1, RowsStay DEF DirectInv
<1>. QED  BY <1>4, <1>5, <1>7

\* The one who is inserted is the second of the two, and completes the conversation between
\* them, or the first; or he joins a conversation that two had entered before.
LEMMA InsertKeepsInv ==
    ASSUME NeatInv, NEW r \in ChatRequests, InsertParticipant(r)
    PROVE  NeatInv'
<1> SUFFICES ASSUME neat' PROVE ThreadsTyped' /\ RequestsTyped' /\ DirectInv'
    BY DEF NeatInv
<1>1. neat /\ ThreadsTyped /\ RequestsTyped /\ DirectInv
    BY DEF InsertParticipant, NeatInv
<1>2. PICK p \in person[r] : live' = [live EXCEPT ![chat[r]][p] = @ + 1]
    BY DEF InsertParticipant
<1>3. PICK c \in Threads : c = chat[r] /\ c \in 1..threads
    BY <1>1, ConversationsConstants DEF InsertParticipant, RequestsTyped, ThreadsTyped, Threads
<1>4. /\ at[r] = "insert" /\ person[r] = {p} /\ p \in People /\ live[c][p] = 0
      /\ chat' = chat /\ adding' = adding
      /\ at' = [at EXCEPT ![r] = "check"] /\ person' = [person EXCEPT ![r] = {}]
      /\ UNCHANGED <<threads, kind, dead>>
    BY <1>1, <1>2, <1>3 DEF InsertParticipant, Proceed, RequestsTyped
<1>5. /\ \A d \in Threads, o \in People :
            live'[d][o] = IF d = c /\ o = p THEN live[d][o] + 1 ELSE live[d][o]
      /\ live' \in [Threads -> [People -> Nat]] /\ Threads' = Threads
    BY <1>1, <1>2, <1>3, <1>4 DEF ThreadsTyped, Threads
<1>6. /\ \A d \in Threads, o \in People : Rows(d, o) \in Nat /\ Rows(d, o)' \in Nat
      /\ \A d \in Threads, o \in People :
            Rows(d, o)' = IF d = c /\ o = p THEN Rows(d, o) + 1 ELSE Rows(d, o)
    BY <1>1, <1>4, <1>5 DEF Rows, ThreadsTyped
<1>7. 1..threads \subseteq Threads
    BY <1>1, ConversationsConstants DEF ThreadsTyped, Threads
<1>8. \A ps : \A d \in 1..threads : d # c => Between(d, ps)' = Between(d, ps)
    BY <1>4, <1>6, <1>7 DEF Between
<1>9. \A d \in 1..threads : Entered(d) => Entered(d)'
    BY <1>6, <1>7 DEF Entered
<1>10. ThreadsTyped'
    <2>1. ~(c > threads)
        BY <1>1, <1>3 DEF ThreadsTyped
    <2>2. ASSUME NEW d \in Threads, NEW o \in People
          PROVE  live'[d][o] <= 1 /\ (d > threads => Rows(d, o)' = 0)
        <3>1. live[d][o] \in Nat /\ live[d][o] <= 1 /\ (d > threads => Rows(d, o) = 0)
            BY <1>1 DEF ThreadsTyped
        <3>. QED  BY <1>4, <1>5, <1>6, <2>1, <3>1
    <2>. QED  BY <1>1, <1>4, <1>5, <2>2 DEF ThreadsTyped
<1>11. RequestsTyped'
    <2>1. \A q \in ChatRequests : at'[q] # "idle" => q = r
        BY <1>1, <1>4 DEF RequestsTyped
    <2>2. at'[r] = "check" /\ person'[r] = {}
        BY <1>1, <1>4 DEF RequestsTyped
    <2>3. \A q \in ChatRequests : person'[q] = {}
        BY <1>1, <1>4 DEF RequestsTyped
    <2>4. /\ at' \in [ChatRequests -> {"idle", "create", "check", "insert"}]
          /\ person' \in [ChatRequests -> SUBSET People]
        BY <1>1, <1>4 DEF RequestsTyped
    <2>. QED  BY <1>1, <1>3, <1>4, <2>1, <2>2, <2>3, <2>4 DEF RequestsTyped
<1>12. /\ \A d \in 1..threads : d # c /\ kind[d] = "direct" => Entered(d)'
       /\ kind[c] = "direct" /\ ~Entered(c) => Entering(r, c)
    <2>1. ASSUME NEW q \in ChatRequests, NEW d \in 1..threads, Entering(q, d) PROVE q = r /\ d = c
        <3>1. at[q] \in {"check", "insert"} /\ chat[q] = d
            BY <2>1 DEF Entering, EnteringTwo
        <3>2. q = r
            BY <1>1, <1>4, <3>1 DEF RequestsTyped
        <3>. QED  BY <1>3, <3>1, <3>2
    <2>. QED  BY <1>1, <1>3, <1>9, <2>1 DEF DirectInv
<1>13. CASE kind[c] = "direct" /\ Entered(c)
    <2>1. PICK x \in People, y \in People : x # y /\ Rows(c, x) >= 1 /\ Rows(c, y) >= 1
        BY <1>13 DEF Entered
    <2>2. \A u, v \in People : ~Between(c, {u, v})'
        <3> SUFFICES ASSUME NEW u \in People, NEW v \in People, Between(c, {u, v})'
                     PROVE  FALSE
            OBVIOUS
        <3>1. \A o \in People : Rows(c, o)' = IF o \in {u, v} THEN 1 ELSE 0
            BY <1>4 DEF Between
        <3>2. Rows(c, p)' = Rows(c, p) + 1
            BY <1>3, <1>4, <1>6
        <3>3. Rows(c, p) = 0 /\ p # x /\ p # y /\ p \in {u, v}
            BY <1>3, <1>4, <1>6, <2>1, <3>1, <3>2
        <3>4. Rows(c, x)' >= 1 /\ Rows(c, y)' >= 1
            BY <1>3, <1>6, <2>1, <3>3
        <3>5. x \in {u, v} /\ y \in {u, v}
            BY <3>1, <3>4
        <3>. QED  BY <2>1, <3>3, <3>5
    <2>3. \A a, b \in 1..threads, u, v \in People :
            u # v /\ Between(a, {u, v})' /\ Between(b, {u, v})' => a = b
        BY <1>1, <1>8, <2>2 DEF DirectInv
    <2>. QED  BY <1>4, <1>9, <1>10, <1>11, <1>12, <1>13, <2>3 DEF DirectInv
<1>14. CASE kind[c] = "direct" /\ ~Entered(c)
    <2>1. PICK x \in People, y \in People : EnteringTwo(r, c, x, y)
        BY <1>12, <1>14 DEF Entering
    <2>2. /\ x # y /\ p \in {x, y} /\ p \notin adding[r] /\ adding[r] \subseteq {x, y}
          /\ \A o \in People : Rows(c, o)' = IF o \in {x, y} \ adding[r] THEN 1 ELSE 0
        BY <1>3, <1>4, <1>6, <2>1 DEF EnteringTwo
    <2>3. /\ at'[r] = "check" /\ chat'[r] = c /\ adding'[r] = adding[r] /\ person'[r] = {}
        BY <1>1, <1>3, <1>4 DEF RequestsTyped
    <2>4. \A d \in 1..threads : d # c => ~Between(d, {x, y}) /\ ~Between(d, {x, y})'
        BY <1>8, <2>1 DEF EnteringTwo
    <2>5. EnteringTwo(r, c, x, y)'
        BY <1>4, <2>2, <2>3, <2>4 DEF EnteringTwo
    <2>6. \A u, v \in People : u # v /\ Between(c, {u, v})' => {u, v} = {x, y}
        <3> SUFFICES ASSUME NEW u \in People, NEW v \in People, u # v, Between(c, {u, v})'
                     PROVE  {u, v} = {x, y}
            OBVIOUS
        <3>1. Rows(c, u)' = 1 /\ Rows(c, v)' = 1
            BY DEF Between
        <3>2. u \in {x, y} /\ v \in {x, y}
            BY <2>2, <3>1
        <3>. QED  BY <3>2
    <2>7. \A a, b \in 1..threads, u, v \in People :
            u # v /\ Between(a, {u, v})' /\ Between(b, {u, v})' => a = b
        <3> SUFFICES ASSUME NEW a \in 1..threads, NEW b \in 1..threads, NEW u \in People, NEW v \in People,
                            u # v, Between(a, {u, v})', Between(b, {u, v})'
                     PROVE  a = b
            OBVIOUS
        <3>1. CASE a # c /\ b # c
            BY <1>1, <1>8, <3>1 DEF DirectInv
        <3>2. CASE a = c \/ b = c
            <4>1. {u, v} = {x, y}
                BY <2>6, <3>2
            <4>2. Between(a, {x, y})' /\ Between(b, {x, y})'
                BY <4>1, Zenon
            <4>. QED  BY <2>4, <3>2, <4>2
        <3>. QED  BY <3>1, <3>2
    <2>8. Entering(r, c)'
        BY <2>5 DEF Entering
    <2>. QED  BY <1>4, <1>10, <1>11, <1>12, <2>7, <2>8 DEF DirectInv
<1>15. CASE kind[c] # "direct"
    <2>1. \A ps : ~Between(c, ps)'
        BY <1>4, <1>15 DEF Between
    <2>2. \A a, b \in 1..threads, u, v \in People :
            u # v /\ Between(a, {u, v})' /\ Between(b, {u, v})' => a = b
        BY <1>1, <1>8, <2>1 DEF DirectInv
    <2>. QED  BY <1>4, <1>10, <1>11, <1>12, <1>15, <2>2 DEF DirectInv
<1>. QED  BY <1>13, <1>14, <1>15

LEMMA OtherCallsKeepInv ==
    ASSUME NeatInv, NEW r \in ChatRequests, AllAdded(r) \/ ChatCallFails(r)
    PROVE  NeatInv'
<1> SUFFICES ASSUME neat' PROVE ThreadsTyped' /\ RequestsTyped' /\ DirectInv'
    BY DEF NeatInv
<1>1. neat /\ ThreadsTyped /\ RequestsTyped /\ DirectInv /\ AllAdded(r)
    BY DEF AllAdded, ChatCallFails, NeatInv
<1>2. /\ at[r] = "check" /\ adding[r] = {} /\ person[r] = {} /\ UNCHANGED threadVars
      /\ at' = [at EXCEPT ![r] = "idle"] /\ chat' = [chat EXCEPT ![r] = 0]
      /\ adding' = [adding EXCEPT ![r] = {}] /\ person' = [person EXCEPT ![r] = {}]
    BY <1>1 DEF AllAdded, Answer, Proceed, RequestsTyped
<1>3. ThreadsTyped'
    BY <1>1, <1>2, RowsStay
<1>4. RequestsTyped'
    <2>1. \A q \in ChatRequests : at'[q] = "idle" /\ person'[q] = {}
        BY <1>1, <1>2 DEF RequestsTyped
    <2>2. 0 \in 0..MaxThreads
        BY ConversationsConstants
    <2>. QED  BY <1>1, <1>2, <2>1, <2>2 DEF RequestsTyped
<1>5. \A c \in 1..threads : kind[c] = "direct" => Entered(c)
    <2> SUFFICES ASSUME NEW c \in 1..threads, NEW q \in ChatRequests, Entering(q, c) PROVE Entered(c)
        BY <1>1 DEF DirectInv
    <2>1. q = r
        BY <1>1, <1>2 DEF RequestsTyped, Entering, EnteringTwo
    <2>2. PICK x \in People, y \in People : EnteringTwo(r, c, x, y)
        BY <2>1 DEF Entering
    <2>3. x # y /\ Rows(c, x) = 1 /\ Rows(c, y) = 1
        BY <1>2, <2>2 DEF EnteringTwo
    <2>. QED  BY <2>3 DEF Entered
<1>6. DirectInv'
    BY <1>1, <1>2, <1>5, RowsStay DEF DirectInv
<1>. QED  BY <1>3, <1>4, <1>6

\* A participant who is removed keeps a row.
LEMMA RemoveKeepsInv ==
    ASSUME NeatInv, NEW c \in Threads, NEW p \in People, RemoveParticipant(c, p)
    PROVE  NeatInv'
<1> SUFFICES ASSUME neat' PROVE ThreadsTyped' /\ RequestsTyped' /\ DirectInv'
    BY DEF NeatInv
<1>1. /\ neat /\ ThreadsTyped /\ RequestsTyped /\ DirectInv
      /\ live' = [live EXCEPT ![c][p] = 0] /\ dead' = [dead EXCEPT ![c][p] = dead[c][p] + live[c][p]]
      /\ UNCHANGED <<threads, kind, at, chat, adding, person>> /\ Threads' = Threads
    BY DEF RemoveParticipant, NeatInv, requestVars, Threads
<1>2. /\ live' \in [Threads -> [People -> Nat]] /\ dead' \in [Threads -> [People -> Nat]]
      /\ \A d \in Threads, o \in People :
            /\ live'[d][o] = IF d = c /\ o = p THEN 0 ELSE live[d][o]
            /\ dead'[d][o] = IF d = c /\ o = p THEN dead[d][o] + live[d][o] ELSE dead[d][o]
    BY <1>1 DEF ThreadsTyped
<1>3. \A d \in Threads, o \in People : live[d][o] \in Nat /\ dead[d][o] \in Nat
    BY <1>1 DEF ThreadsTyped
<1>4. \A d \in Threads, o \in People : Rows(d, o)' = Rows(d, o)
    BY <1>2, <1>3 DEF Rows
<1>5. 1..threads \subseteq Threads
    BY <1>1, ConversationsConstants DEF ThreadsTyped, Threads
<1>6. /\ \A ps : \A d \in 1..threads : Between(d, ps)' = Between(d, ps)
      /\ \A d \in 1..threads : Entered(d)' = Entered(d)
    BY <1>1, <1>4, <1>5 DEF Between, Entered
<1>7. ThreadsTyped'
    BY <1>1, <1>2, <1>4 DEF ThreadsTyped
<1>8. RequestsTyped'
    <2>1. \A q \in ChatRequests : at[q] = "insert" => \A o \in person[q] : live'[chat[q]][o] = 0
        BY <1>1, <1>2, <1>5 DEF RequestsTyped
    <2>2. \A q \in ChatRequests, d \in 1..threads : Between(d, adding[q])' = Between(d, adding[q])
        BY <1>1, <1>4, <1>5 DEF Between
    <2>. QED  BY <1>1, <2>1, <2>2 DEF RequestsTyped
<1>9. \A d \in 1..threads, q \in ChatRequests : Entering(q, d) => Entering(q, d)'
    <2> SUFFICES ASSUME NEW d \in 1..threads, NEW q \in ChatRequests, NEW x \in People, NEW y \in People,
                        EnteringTwo(q, d, x, y)
                 PROVE  EnteringTwo(q, d, x, y)'
        BY DEF Entering
    <2>. QED  BY <1>1, <1>4, <1>5, <1>6 DEF EnteringTwo
<1>10. DirectInv'
    BY <1>1, <1>6, <1>9 DEF DirectInv
<1>. QED  BY <1>7, <1>8, <1>10

LEMMA ConversationsStep == NeatInv /\ [ConversationsNext]_conversationVars => NeatInv'
<1> SUFFICES ASSUME NeatInv, [ConversationsNext]_conversationVars PROVE NeatInv'
    OBVIOUS
<1>1. CASE UNCHANGED conversationVars
    <2>1. UNCHANGED <<threads, kind, live, dead, at, chat, adding, person, neat>> /\ UNCHANGED threadVars
        BY <1>1 DEF conversationVars, threadVars, requestVars
    <2>2. RequestsTyped => RequestsTyped'
        BY <2>1, RowsStay DEF RequestsTyped
    <2>3. \A r, c : Entering(r, c) => Entering(r, c)'
        BY <2>1, EnteringStays
    <2>4. DirectInv => DirectInv'
        BY <2>1, <2>3, RowsStay DEF DirectInv
    <2>. QED  BY <2>1, <2>2, <2>4, RowsStay DEF NeatInv
<1>2. ASSUME NEW r \in ChatRequests, NEW ps \in SUBSET People,
             CreateConversation(r, ps) \/ \E c \in Threads : AddParticipants(r, c, ps)
      PROVE  NeatInv'
    BY <1>2, BeginKeepsInv
<1>. QED
    BY <1>1, <1>2, StoreConversationKeepsInv, CheckKeepsInv, InsertKeepsInv, OtherCallsKeepInv,
       RemoveKeepsInv DEF ConversationsNext

\* ConversationService: while creations and additions run alone and none fails, two people
\* share one direct conversation at most, and nobody has two live rows in one.
THEOREM DirectIsUnique == ConversationsSpec => []SerialDirectUnique
<1>1. NeatInv => SerialDirectUnique
    <2>1. \A c \in 1..threads : ThreadsTyped => c \in Threads
        BY ConversationsConstants DEF ThreadsTyped, Threads
    <2>. QED  BY <2>1 DEF NeatInv, DirectInv, ThreadsTyped, SerialDirectUnique
<1>. QED  BY <1>1, ConversationsInitInv, ConversationsStep, PTL DEF ConversationsSpec
=============================================================================
