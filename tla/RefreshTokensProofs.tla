------------------------- MODULE RefreshTokensProofs -------------------------
(***************************************************************************)
(* Proofs about RefreshTokens, for any number of requests, any clock bound *)
(* and any two lifetimes of which the blacklist's is not the shorter one;  *)
(* about LegacySockets, for any users, sockets, rooms and processes; and   *)
(* about LegacyTasks, for any requests, window, limits and lifetimes.      *)
(***************************************************************************)
EXTENDS RefreshTokens, LegacySockets, LegacyTasks, FiniteSetTheorems, TLAPS

\* A token is only ever handed out, presented or blacklisted after it was signed.
SignedBefore ==
    /\ \A t \in issued : t <= now
    /\ \A r \in Requests : pc[r] # "free" => token[r] \in Times /\ token[r] <= now
    /\ \A r \in Requests : pc[r] = "retire" => next[r] \in Times /\ next[r] <= now

\* So a blacklist entry always outlives its token.
Outlives == \A t \in Times : until[t] # 0 => until[t] >= t + Life

\* What makes a late request fail is still there when the check for it comes.
DeadEnd ==
    \A r \in dead :
        \/ pc[r] = "refused"
        \/ pc[r] = "verify" /\ (deleted \/ now >= token[r] + Life)
        \/ pc[r] = "load" /\ deleted

TokenInv == TypeOK /\ SignedBefore /\ Outlives /\ DeadEnd

LEMMA ConstantFacts ==
  /\ Life \in Nat /\ Life > 0 /\ BlacklistTtl \in Nat /\ BlacklistTtl >= Life
  /\ MaxTime \in Nat /\ MaxFaults \in Nat
BY RefreshConstants

LEMMA TokenInit == Init => TokenInv
<1> SUFFICES ASSUME Init PROVE TokenInv
  OBVIOUS
<1>1. TypeOK
  <2>1. 0 \in Times /\ 0 \in 0..MaxTime + BlacklistTtl /\ 0 \in 0..MaxFaults
    BY ConstantFacts DEF Times
  <2> QED BY <2>1 DEF Init, TypeOK, Pcs
<1>2. SignedBefore
  BY DEF Init, SignedBefore
<1>3. Outlives /\ DeadEnd
  BY DEF Init, Outlives, DeadEnd
<1> QED BY <1>1, <1>2, <1>3 DEF TokenInv

\* A blacklist entry set for a token that was signed keeps the map well formed.
LEMMA BlacklistKeeps ==
  ASSUME TokenInv, NEW t \in Times, t <= now, BlacklistToken(t)
  PROVE  /\ until' \in [Times -> 0..MaxTime + BlacklistTtl]
         /\ \A x \in Times : until'[x] # 0 => until'[x] >= x + Life
BY ConstantFacts DEF TokenInv, TypeOK, Outlives, BlacklistToken, Times

LEMMA TokenStep == TokenInv /\ [Next]_vars => TokenInv'
<1> SUFFICES ASSUME TokenInv, [Next]_vars PROVE TokenInv'
  OBVIOUS
<1> USE ConstantFacts
    DEF TokenInv, TypeOK, SignedBefore, Outlives, DeadEnd, Times, Pcs, Goto, Fault
<1>1. CASE LoginFindUser
  BY <1>1 DEF LoginFindUser
<1>2. CASE LoginSign
  <2>1. issued' \subseteq Times /\ \A t \in issued' : t <= now
    BY <1>2 DEF LoginSign
  <2> QED BY <1>2, <2>1 DEF LoginSign
<1>3. CASE DeleteUser
  BY <1>3 DEF DeleteUser
<1>4. CASE Tick
  <2>1. now' \in Times /\ now' = now + 1
    BY <1>4 DEF Tick
  <2>2. \A t \in Times : /\ t <= now => t <= now'
                         /\ now >= t + Life => now' >= t + Life
    BY <2>1
  <2>3. UNCHANGED <<issued, until, deleted, signingIn, pc, token, next, faults, dead>>
    BY <1>4 DEF Tick
  <2>4. SignedBefore'
    BY <2>1, <2>2, <2>3
  <2>5. DeadEnd'
    <3> SUFFICES ASSUME NEW r \in dead, pc[r] = "verify", ~deleted
                 PROVE  now' >= token[r] + Life
      BY <2>3
    <3> QED BY <2>2
  <2>6. TypeOK' /\ Outlives'
    BY <2>1, <2>3
  <2> QED BY <2>4, <2>5, <2>6
<1>5. ASSUME NEW t \in Times, Logout(t) PROVE TokenInv'
  BY <1>5, BlacklistKeeps DEF Logout
<1>6. ASSUME NEW r \in Requests, RefreshToken(r) PROVE TokenInv'
  <2>1. ASSUME NEW t \in Times, CheckBlacklist(r, t) PROVE TokenInv'
    <3>1. until[t] # 0 => Blacklisted(t) \/ now >= t + Life
      BY DEF Blacklisted
    <3> QED BY <2>1, <3>1 DEF CheckBlacklist
  <2>2. CASE Verify(r)
    BY <2>2, SMTT(20) DEF Verify
  <2>3. CASE LoadUser(r)
    BY <2>3 DEF LoadUser
  <2>4. CASE GenerateTokens(r)
    BY <2>4 DEF GenerateTokens
  <2>5. ASSUME pc[r] = "retire", BlacklistToken(token[r])
        PROVE  /\ until' \in [Times -> 0..MaxTime + BlacklistTtl]
               /\ \A x \in Times : until'[x] # 0 => until'[x] >= x + Life
    BY <2>5, BlacklistKeeps
  <2>6. CASE Retire(r)
    <3>1. r \notin dead
      BY <2>6 DEF Retire
    <3>2. issued' \subseteq Times /\ \A t \in issued' : t <= now
      BY <2>6 DEF Retire
    <3>3. pc' = [pc EXCEPT ![r] = "ok"]
      BY <2>6 DEF Retire
    <3>4. UNCHANGED <<now, deleted, signingIn, token, next, faults, dead>>
      BY <2>6 DEF Retire
    <3>5. TypeOK' /\ Outlives'
      BY <2>5, <2>6, <3>2, <3>3, <3>4 DEF Retire
    <3>6. SignedBefore' /\ DeadEnd'
      BY <2>6, <3>1, <3>2, <3>3, <3>4 DEF Retire
    <3> QED BY <3>5, <3>6
  <2>7. CASE RefreshFails(r)
    <3>1. /\ until' \in [Times -> 0..MaxTime + BlacklistTtl]
          /\ \A x \in Times : until'[x] # 0 => until'[x] >= x + Life
      BY <2>5, <2>7 DEF RefreshFails
    <3>2. pc[r] # "free" /\ pc' = [pc EXCEPT ![r] = "refused"]
      BY <2>7 DEF RefreshFails
    <3>3. UNCHANGED <<now, issued, deleted, signingIn, token, next, dead>>
      BY <2>7 DEF RefreshFails
    <3>4. faults' \in 0..MaxFaults
      BY <2>7 DEF RefreshFails
    <3>5. TypeOK' /\ Outlives'
      BY <3>1, <3>2, <3>3, <3>4
    <3>6. SignedBefore' /\ DeadEnd'
      BY <3>2, <3>3
    <3> QED BY <3>5, <3>6
  <2> QED BY <1>6, <2>1, <2>2, <2>3, <2>4, <2>6, <2>7 DEF RefreshToken
<1>7. CASE UNCHANGED vars
  BY <1>7 DEF vars
<1> QED BY <1>1, <1>2, <1>3, <1>4, <1>5, <1>6, <1>7 DEF Next

LEMMA TokenInvHolds == Spec => []TokenInv
BY TokenInit, TokenStep, PTL DEF Spec

\* The type invariant of the token state.
THEOREM TypeCorrect == Spec => []TypeOK
<1>1. TokenInv => TypeOK
  BY DEF TokenInv
<1> QED BY <1>1, TokenInvHolds, PTL

\* A revoked token stays refused until it has expired.
THEOREM RevokedForever == Spec => []RevokedStaysRevoked
<1>1. TokenInv => RevokedStaysRevoked
  BY ConstantFacts DEF TokenInv, TypeOK, Outlives, RevokedStaysRevoked, Blacklisted, Times
<1> QED BY <1>1, TokenInvHolds, PTL

\* A refresh that begins with a revoked token or a deleted user gets no new tokens.
THEOREM LateAlwaysRefused == Spec => []LateRefreshRefused
<1>1. TokenInv => LateRefreshRefused
  BY DEF TokenInv, DeadEnd, LateRefreshRefused
<1> QED BY <1>1, TokenInvHolds, PTL

\* Both together, as the runs check them.
THEOREM RevokedNeverRevives == Spec => []RevokedIsDead
BY RevokedForever, LateAlwaysRefused, PTL DEF RevokedIsDead
-----------------------------------------------------------------------------
(* LegacySockets *)

HandStages == {"none", "lookup", "register", "family", "notify", "ready", "ended"}
ByeStages == {"none", "chat", "task", "group", "keys", "done"}

\* Only a connection that is through has a disconnection handler, and a list of rooms is that
\* of the kind the handler is at.
LegacyTyped ==
    /\ wired \subseteq Sessions /\ at \in [Sessions -> Processes \cup {Nobody}]
    /\ hand \in [Sessions -> HandStages] /\ bye \in [Sessions -> ByeStages]
    /\ old \in [Sessions -> Sessions \cup {Nobody}]
    /\ listed \in [Sessions -> SUBSET Halls] /\ inRooms \in [Sessions -> SUBSET Halls]
    /\ userSocket \in [Members -> Sessions \cup {Nobody}]
    /\ socketUser \in [Sessions -> Members \cup {Nobody}]
    /\ userRooms \in [Members -> SUBSET Halls]
    /\ roomUsers \in [Halls -> SUBSET Members]
    /\ \A s \in Sessions :
        /\ bye[s] # "none" => hand[s] = "ended"
        /\ bye[s] \notin Removing => listed[s] = {}
        /\ hand[s] = "none" => s \notin wired

\* The handlers of s will still take the presence keys away, or the user out of the room r.
KeysDue(s) == hand[s] \in {"family", "notify", "ready"} \/ bye[s] \in Removing \cup {"keys"}

ToDo(b) == CASE b = "chat" -> Removing [] b = "task" -> {"task", "group"} [] b = "group" -> {"group"}
             [] OTHER -> {}

RoomDue(s, r) == hand[s] \in {"notify", "ready"} \/ \E k \in ToDo(bye[s]) : r \in Kinds[k]

\* Whatever Redis has of the user, a session of his will remove; and what a handler is about to
\* remove is all there is of the kind.
Cleared(u) ==
    /\ u \in online \/ userSocket[u] # Nobody => \E s \in SessionsOf(u) : KeysDue(s)
    /\ \A s \in SessionsOf(u) : socketUser[s] # Nobody => KeysDue(s)
    /\ \A r \in userRooms[u] : \E s \in SessionsOf(u) : RoomDue(s, r)
    /\ \A r \in Halls : u \in roomUsers[r] <=> r \in userRooms[u]
    /\ \A s \in SessionsOf(u) : bye[s] \in Removing /\ listed[s] # {} =>
        listed[s] \subseteq Kinds[bye[s]] /\ userRooms[u] \cap Kinds[bye[s]] \subseteq listed[s]

\* A user is only ever found under a socket of his own.
SocketsOwn ==
    /\ \A s \in Sessions : old[s] \in SessionsOf(UserAt(s)) \cup {Nobody}
    /\ \A u \in Members : userSocket[u] \in SessionsOf(u) \cup {Nobody}

QuietInv == \A u \in Members \ (cut \cup slipped) : Cleared(u)

\* The sessions of an orderly user follow one another, each finds Redis as the user left it, and
\* Redis knows the one he has.
Orderly(u) ==
    /\ \A s, q \in SessionsOf(u) : Over(s) \/ Over(q) \/ s = q
    /\ \A s \in SessionsOf(u) :
        /\ hand[s] \in {"lookup", "register"} => userSocket[u] = Nobody
        /\ hand[s] = "register" => old[s] = Nobody
        /\ hand[s] \in {"family", "notify", "ready"} =>
            u \in online /\ userSocket[u] = s /\ socketUser[s] = u
        /\ hand[s] \in {"lookup", "register", "family"} => userRooms[u] = {}
        /\ hand[s] \in {"none", "lookup", "register", "family"} => inRooms[s] = {}
        /\ hand[s] \in {"notify", "ready"} /\ s \in wired => userRooms[u] = inRooms[s]

OrderlyInv ==
    /\ slipped \subseteq cut \cup overlapped
    /\ \A u \in Members \ (cut \cup overlapped) : Orderly(u)

LEMMA StagesFacts ==
    ASSUME NEW b \in Removing
    PROVE  /\ After[b] \in Removing \cup {"keys"} /\ After[b] # b
           /\ b \in ToDo(b) /\ \A k \in ToDo(b) : k = b \/ k \in ToDo(After[b])
           /\ ToDo(b) \subseteq Removing /\ Kinds[b] \subseteq Halls
<1>1. CASE b = "chat" BY <1>1 DEF After, ToDo, Removing, Kinds, Halls
<1>2. CASE b = "task" BY <1>2 DEF After, ToDo, Removing, Kinds, Halls
<1>3. CASE b = "group" BY <1>3 DEF After, ToDo, Removing, Kinds, Halls
<1> QED BY <1>1, <1>2, <1>3 DEF Removing

LEMMA EveryRoomHasKind ==
    ASSUME NEW r \in Halls PROVE \E k \in ToDo("chat") : r \in Kinds[k]
BY DEF Halls, ToDo, Removing, Kinds

LEMMA LegacyTypedInit == LegacyInit => LegacyTyped
BY LegacySocketsConstants DEF LegacyInit, LegacyTyped, HandStages, ByeStages, Removing, Halls

LEMMA SessionTyped ==
    ASSUME LegacyTyped, NEW s \in Sessions
    PROVE  /\ UserAt(s) \in Members /\ s \in SessionsOf(UserAt(s)) /\ s # Nobody
           /\ FamilyOf[UserAt(s)] \subseteq Halls
           /\ \A u : s \in SessionsOf(u) <=> u = UserAt(s)
BY LegacySocketsConstants DEF UserAt, SessionsOf, Halls

\* What a reconnection does to each socket: its own goes on, those it replaces go down.
LEMMA ReconnectFrame ==
    ASSUME LegacyTyped, NEW s \in Sessions, Reconnect(s)
    PROVE  /\ hand[s] = "register" /\ OldHere(s) \subseteq wired
           /\ wired' = wired \ OldHere(s)
           /\ hand' \in [Sessions -> HandStages] /\ bye' \in [Sessions -> ByeStages]
           /\ inRooms' \in [Sessions -> SUBSET Halls]
           /\ \A q \in Sessions :
                /\ q # old[s] => q \notin OldHere(s)
                /\ bye'[q] = IF q \in OldHere(s) /\ hand[q] = "ready" THEN "chat" ELSE bye[q]
                /\ hand'[q] = IF q = s THEN "family"
                              ELSE IF q \in OldHere(s) /\ hand[q] = "ready" THEN "ended" ELSE hand[q]
                /\ inRooms'[q] = IF q \in OldHere(s) THEN {} ELSE inRooms[q]
           /\ UNCHANGED <<at, old, listed, userRooms, roomUsers, losses, cut, slipped, overlapped>>
           /\ \/ old[s] = Nobody /\ AddOnlineUser(UserAt(s), s)
              \/ /\ old[s] # Nobody
                 /\ socketUser' = [socketUser EXCEPT ![old[s]] = Nobody]
                 /\ UNCHANGED <<online, userSocket>>
<1> DEFINE down == OldHere(s)
<1>1. /\ hand[s] = "register" /\ down \subseteq wired /\ \A q \in down : q = old[s]
      /\ wired' = wired \ down
      /\ inRooms' = [q \in Sessions |-> IF q \in down THEN {} ELSE inRooms[q]]
      /\ bye' = [q \in Sessions |-> IF q \in down /\ hand[q] = "ready" THEN "chat" ELSE bye[q]]
      /\ hand' = [Closed(down) EXCEPT ![s] = "family"]
      /\ UNCHANGED <<at, old, listed, userRooms, roomUsers, losses, cut, slipped, overlapped>>
      /\ \/ old[s] = Nobody /\ AddOnlineUser(UserAt(s), s)
         \/ /\ old[s] # Nobody
            /\ socketUser' = [socketUser EXCEPT ![old[s]] = Nobody]
            /\ UNCHANGED <<online, userSocket>>
  BY DEF Reconnect, Drop, OldHere, rooms, pasts
<1>2. Closed(down) = [q \in Sessions |-> IF q \in down /\ hand[q] = "ready" THEN "ended" ELSE hand[q]]
  BY DEF Closed
<1> HIDE DEF down
<1>3. /\ hand' = [q \in Sessions |-> IF q = s THEN "family"
                     ELSE IF q \in down /\ hand[q] = "ready" THEN "ended" ELSE hand[q]]
  BY <1>1, <1>2
<1>4. hand' \in [Sessions -> HandStages] /\ bye' \in [Sessions -> ByeStages]
      /\ inRooms' \in [Sessions -> SUBSET Halls]
  <2>1. /\ hand \in [Sessions -> HandStages] /\ bye \in [Sessions -> ByeStages]
        /\ inRooms \in [Sessions -> SUBSET Halls]
        /\ {"family", "ended"} \subseteq HandStages /\ "chat" \in ByeStages
    BY DEF LegacyTyped, HandStages, ByeStages
  <2>2. hand' \in [Sessions -> HandStages]
    BY <1>3, <2>1
  <2>3. bye' \in [Sessions -> ByeStages]
    BY <1>1, <2>1
  <2>4. inRooms' \in [Sessions -> SUBSET Halls]
    BY <1>1, <2>1
  <2> QED BY <2>2, <2>3, <2>4
<1> QED BY <1>1, <1>3, <1>4 DEF down

LEMMA HandleConnectionTyped ==
    ASSUME LegacyTyped, NEW s \in Sessions, HandleConnection(s) PROVE LegacyTyped'
<1>0. UserAt(s) \in Members /\ s # Nobody /\ FamilyOf[UserAt(s)] \subseteq Halls
  BY SessionTyped
<1> USE <1>0
<1>1. ASSUME NEW p \in Processes, Arrive(s, p) PROVE LegacyTyped'
  BY <1>1 DEF Arrive, LegacyTyped, HandStages, byes, presence, rooms
<1>2. CASE LookUpOld(s)
  BY <1>2 DEF LookUpOld, LegacyTyped, HandStages, byes, presence, rooms
<1>3. CASE Reconnect(s)
  <2>1. userSocket' \in [Members -> Sessions \cup {Nobody}]
        /\ socketUser' \in [Sessions -> Members \cup {Nobody}]
    BY <1>3 DEF Reconnect, AddOnlineUser, LegacyTyped
  <2>2. /\ hand[s] = "register" /\ wired' \subseteq wired
        /\ hand' \in [Sessions -> HandStages] /\ bye' \in [Sessions -> ByeStages]
        /\ inRooms' \in [Sessions -> SUBSET Halls]
        /\ \A q \in Sessions :
            /\ hand'[q] = "none" => hand[q] = "none"
            /\ \/ bye'[q] = bye[q] /\ (hand'[q] = hand[q] \/ q = s)
               \/ bye'[q] = "chat" /\ hand'[q] = "ended" /\ hand[q] = "ready"
        /\ UNCHANGED <<at, old, listed, userRooms, roomUsers>>
    BY <1>3, ReconnectFrame
  <2> QED BY <2>1, <2>2 DEF LegacyTyped, Removing
<1>4. CASE AutoJoinFamilyRoom(s)
  BY <1>4 DEF AutoJoinFamilyRoom, Enlist, LegacyTyped, HandStages, byes, presence
<1>5. CASE FamilyRoomFails(s)
  <2>1. inRooms' \in [Sessions -> SUBSET Halls]
    BY <1>5 DEF FamilyRoomFails, LegacyTyped
  <2>2. hand' = [hand EXCEPT ![s] = "notify"] /\ hand[s] = "family"
        /\ UNCHANGED <<at, wired, old, byes, presence, rooms>>
    BY <1>5 DEF FamilyRoomFails
  <2> QED BY <2>1, <2>2 DEF LegacyTyped, HandStages, byes, presence, rooms
<1>6. CASE SetupUserEventHandlers(s)
  BY <1>6 DEF SetupUserEventHandlers, LegacyTyped, HandStages, byes, presence, rooms
<1>7. CASE HandshakeFails(s)
  BY <1>7 DEF HandshakeFails, AddOnlineUser, LegacyTyped, HandStages, byes, presence, rooms
<1> QED BY <1>1, <1>2, <1>3, <1>4, <1>5, <1>6, <1>7 DEF HandleConnection

LEMMA HandleDisconnectionTyped ==
    ASSUME LegacyTyped, NEW s \in Sessions, HandleUserDisconnection(s) PROVE LegacyTyped'
<1>0. UserAt(s) \in Members /\ s # Nobody /\ FamilyOf[UserAt(s)] \subseteq Halls
  BY SessionTyped
<1> USE <1>0
<1>1. CASE ListRooms(s)
  <2>1. /\ listed' = [listed EXCEPT ![s] = userRooms[UserAt(s)] \cap Kinds[bye[s]]]
        /\ bye[s] \in Removing /\ After[bye[s]] \in Removing \cup {"keys"}
        /\ \/ bye' = bye
           \/ listed'[s] = {} /\ bye' = [bye EXCEPT ![s] = After[bye[s]]]
        /\ UNCHANGED <<at, wired, hands, inRooms, presence, rooms>>
    BY <1>1, StagesFacts DEF ListRooms, LegacyTyped
  <2> QED BY <2>1 DEF LegacyTyped, ByeStages, Removing, hands, presence, rooms
<1>2. CASE RemoveUserFromAllRooms(s)
  <2>1. bye[s] \in Removing /\ After[bye[s]] \in Removing \cup {"keys"}
    BY <1>2, StagesFacts DEF RemoveUserFromAllRooms
  <2> QED
    BY <1>2, <2>1 DEF RemoveUserFromAllRooms, LegacyTyped, ByeStages, Removing, hands, presence
<1>3. CASE RemoveOnlineUser(s)
  BY <1>3 DEF RemoveOnlineUser, LegacyTyped, ByeStages, Removing, hands, rooms
<1>4. CASE DisconnectionFails(s)
  BY <1>4 DEF DisconnectionFails, LegacyTyped, ByeStages, Removing, hands, presence, rooms
<1> QED BY <1>1, <1>2, <1>3, <1>4 DEF HandleUserDisconnection

LEMMA EventsTyped ==
    ASSUME LegacyTyped, NEW s \in Sessions,
           \/ Close(s) \/ \E r \in Halls : JoinHall(s, r) \/ LeaveHall(s, r)
    PROVE  LegacyTyped'
<1>1. CASE Close(s)
  <2>1. /\ {s} \subseteq wired /\ Drop({s}) /\ hand' = Closed({s})
        /\ UNCHANGED <<at, old, listed, userSocket, socketUser, userRooms, roomUsers>>
    BY <1>1 DEF Close, presence, rooms
  <2>2. /\ wired' \subseteq Sessions /\ bye' \in [Sessions -> ByeStages]
        /\ inRooms' \in [Sessions -> SUBSET Halls] /\ hand' \in [Sessions -> HandStages]
        /\ \A q \in Sessions :
                /\ bye'[q] = (IF q = s /\ hand[q] = "ready" THEN "chat" ELSE bye[q])
                /\ hand'[q] = (IF q = s /\ hand[q] = "ready" THEN "ended" ELSE hand[q])
                /\ q \in wired' => q \in wired
    BY <2>1 DEF Drop, Closed, LegacyTyped, HandStages, ByeStages
  <2> QED BY <2>1, <2>2 DEF LegacyTyped, Removing
<1>2. ASSUME NEW r \in Halls, JoinHall(s, r) PROVE LegacyTyped'
  BY <1>2, SessionTyped DEF JoinHall, Listening, Enlist, LegacyTyped, hands, byes, presence
<1>3. ASSUME NEW r \in Halls, LeaveHall(s, r) PROVE LegacyTyped'
  BY <1>3, SessionTyped DEF LeaveHall, Listening, Delist, LegacyTyped, hands, byes, presence
<1> QED BY <1>1, <1>2, <1>3

LEMMA ProcessDiesTyped ==
    ASSUME LegacyTyped, NEW p \in Processes, ProcessDies(p) PROVE LegacyTyped'
BY LegacySocketsConstants
   DEF ProcessDies, Over, LegacyTyped, HandStages, ByeStages, Removing, presence, rooms

\* A step that is no business of u.
Untouched(u) ==
    /\ \A q \in SessionsOf(u) :
        /\ hand'[q] = hand[q] /\ bye'[q] = bye[q] /\ listed'[q] = listed[q] /\ old'[q] = old[q]
        /\ inRooms'[q] = inRooms[q] /\ socketUser'[q] = socketUser[q]
        /\ q \in wired' <=> q \in wired
    /\ userSocket'[u] = userSocket[u] /\ userRooms'[u] = userRooms[u]
    /\ u \in online' <=> u \in online
    /\ \A r \in Halls : u \in roomUsers'[r] <=> u \in roomUsers[r]

\* A user stays cleared while Redis keeps what it has of him and nothing due is dropped.
LEMMA ClearedFrame ==
    ASSUME LegacyTyped, NEW u \in Members, Cleared(u),
           \A q \in SessionsOf(u) :
            /\ KeysDue(q) => KeysDue(q)'
            /\ \A r \in Halls : RoomDue(q, r) => RoomDue(q, r)'
            /\ socketUser'[q] # Nobody => socketUser[q] # Nobody \/ KeysDue(q)'
            /\ bye'[q] \in Removing /\ listed'[q] # {} =>
                bye'[q] = bye[q] /\ listed'[q] = listed[q],
           u \in online' \/ userSocket'[u] # Nobody =>
            \/ u \in online \/ userSocket[u] # Nobody
            \/ \E q \in SessionsOf(u) : KeysDue(q)',
           userRooms'[u] = userRooms[u],
           \A r \in Halls : u \in roomUsers'[r] <=> u \in roomUsers[r]
    PROVE  Cleared(u)'
<1>1. userRooms[u] \subseteq Halls
  BY DEF LegacyTyped
<1>2. SessionsOf(u)' = SessionsOf(u) /\ Halls' = Halls /\ Removing' = Removing /\ Kinds' = Kinds
  BY DEF SessionsOf, Halls, Removing, Kinds
<1>3. /\ (u \in online \/ userSocket[u] # Nobody => \E s \in SessionsOf(u) : KeysDue(s))
      /\ (\A s \in SessionsOf(u) : socketUser[s] # Nobody => KeysDue(s))
      /\ (\A r \in userRooms[u] : \E s \in SessionsOf(u) : RoomDue(s, r))
      /\ (\A r \in Halls : u \in roomUsers[r] <=> r \in userRooms[u])
      /\ (\A s \in SessionsOf(u) : bye[s] \in Removing /\ listed[s] # {} =>
            listed[s] \subseteq Kinds[bye[s]] /\ userRooms[u] \cap Kinds[bye[s]] \subseteq listed[s])
  BY DEF Cleared
<1>4. /\ (u \in online' \/ userSocket'[u] # Nobody => \E s \in SessionsOf(u) : KeysDue(s)')
      /\ (\A s \in SessionsOf(u) : socketUser'[s] # Nobody => KeysDue(s)')
  BY <1>3
<1>5. \A r \in userRooms'[u] : \E s \in SessionsOf(u) : RoomDue(s, r)'
  BY <1>1, <1>3
<1>6. \A s \in SessionsOf(u) : bye'[s] \in Removing /\ listed'[s] # {} =>
        listed'[s] \subseteq Kinds[bye'[s]] /\ userRooms'[u] \cap Kinds[bye'[s]] \subseteq listed'[s]
  BY <1>3
<1> QED BY <1>2, <1>3, <1>4, <1>5, <1>6 DEF Cleared

LEMMA UntouchedKeeps ==
    ASSUME LegacyTyped, NEW u \in Members, Untouched(u)
    PROVE  (Cleared(u) => Cleared(u)') /\ (Orderly(u) => Orderly(u)')
<1>1. \A q \in SessionsOf(u) : /\ KeysDue(q)' = KeysDue(q)
                               /\ \A r : RoomDue(q, r)' = RoomDue(q, r)
                               /\ Over(q)' = Over(q)
  BY DEF Untouched, KeysDue, RoomDue, Over, ToDo, Removing, Kinds
<1>2. Cleared(u) => Cleared(u)'
  BY <1>1, ClearedFrame DEF Untouched
<1>3. Orderly(u) => Orderly(u)'
  <2>1. SessionsOf(u)' = SessionsOf(u)
    BY DEF SessionsOf
  <2> QED BY <1>1, <2>1 DEF Orderly, Untouched
<1> QED BY <1>2, <1>3

\* What a session does is no business of the other users.
LEMMA OthersUntouched ==
    ASSUME LegacyTyped, NEW s \in Sessions, NEW u \in Members, u # UserAt(s),
           old[s] \in SessionsOf(UserAt(s)) \cup {Nobody},
           \/ HandleConnection(s) \/ Close(s) \/ HandleUserDisconnection(s)
           \/ \E r \in Halls : JoinHall(s, r) \/ LeaveHall(s, r)
    PROVE  Untouched(u)
<1>0. /\ UserAt(s) \in Members /\ s \notin SessionsOf(u) /\ SessionsOf(u) \subseteq Sessions
      /\ s # Nobody /\ Nobody \notin SessionsOf(u) /\ old[s] \notin SessionsOf(u)
      /\ FamilyOf[UserAt(s)] \subseteq Halls
  BY SessionTyped, LegacySocketsConstants DEF SessionsOf, UserAt
<1> USE <1>0
<1>1. ASSUME NEW p \in Processes, Arrive(s, p) PROVE Untouched(u)
  BY <1>1 DEF Arrive, Untouched, LegacyTyped, byes, presence, rooms
<1>2. CASE LookUpOld(s)
  BY <1>2 DEF LookUpOld, Untouched, LegacyTyped, byes, presence, rooms
<1>3. CASE Reconnect(s)
  <2>1. /\ \A q \in SessionsOf(u) :
            /\ bye'[q] = bye[q] /\ hand'[q] = hand[q] /\ inRooms'[q] = inRooms[q]
            /\ q \in wired' <=> q \in wired
        /\ UNCHANGED <<old, listed, userRooms, roomUsers>>
    BY <1>3, ReconnectFrame
  <2>2. /\ \A q \in SessionsOf(u) : socketUser'[q] = socketUser[q]
        /\ userSocket'[u] = userSocket[u] /\ (u \in online' <=> u \in online)
    BY <1>3 DEF Reconnect, AddOnlineUser, LegacyTyped
  <2> QED BY <2>1, <2>2 DEF Untouched
<1>4. CASE AutoJoinFamilyRoom(s)
  BY <1>4 DEF AutoJoinFamilyRoom, Enlist, Untouched, LegacyTyped, byes, presence
<1>5. CASE FamilyRoomFails(s)
  BY <1>5 DEF FamilyRoomFails, Untouched, LegacyTyped, byes, presence, rooms
<1>6. CASE SetupUserEventHandlers(s)
  BY <1>6 DEF SetupUserEventHandlers, Untouched, LegacyTyped, byes, presence, rooms
<1>7. CASE HandshakeFails(s)
  BY <1>7 DEF HandshakeFails, AddOnlineUser, Untouched, LegacyTyped, byes, presence, rooms
<1>8. CASE Close(s)
  BY <1>8 DEF Close, Drop, Closed, Untouched, LegacyTyped, presence, rooms
<1>9. CASE ListRooms(s)
  BY <1>9 DEF ListRooms, Untouched, LegacyTyped, hands, presence, rooms
<1>10. CASE RemoveUserFromAllRooms(s)
  BY <1>10 DEF RemoveUserFromAllRooms, Untouched, LegacyTyped, hands, presence
<1>11. CASE RemoveOnlineUser(s)
  BY <1>11 DEF RemoveOnlineUser, Untouched, LegacyTyped, hands, rooms
<1>12. CASE DisconnectionFails(s)
  BY <1>12 DEF DisconnectionFails, Untouched, LegacyTyped, hands, presence, rooms
<1>13. ASSUME NEW r \in Halls, JoinHall(s, r) PROVE Untouched(u)
  BY <1>13 DEF JoinHall, Enlist, Untouched, LegacyTyped, hands, byes, presence
<1>14. ASSUME NEW r \in Halls, LeaveHall(s, r) PROVE Untouched(u)
  BY <1>14 DEF LeaveHall, Delist, Untouched, LegacyTyped, hands, byes, presence
<1> QED BY <1>1, <1>2, <1>3, <1>4, <1>5, <1>6, <1>7, <1>8, <1>9, <1>10, <1>11, <1>12, <1>13,
           <1>14 DEF HandleConnection, HandleUserDisconnection

\* A crash is the business of those it cuts short.
LEMMA SurvivorsUntouched ==
    ASSUME LegacyTyped, NEW p \in Processes, ProcessDies(p), NEW u \in Members \ cut'
    PROVE  Untouched(u)
<1> DEFINE held == {s \in Sessions : at[s] = p /\ ~Over(s)}
<1>1. /\ wired' = wired \ held
      /\ hand' = [s \in Sessions |-> IF s \in held THEN "ended" ELSE hand[s]]
      /\ bye' = [s \in Sessions |-> IF s \in held THEN "done" ELSE bye[s]]
      /\ listed' = [s \in Sessions |-> IF s \in held THEN {} ELSE listed[s]]
      /\ inRooms' = [s \in Sessions |-> IF s \in held THEN {} ELSE inRooms[s]]
      /\ cut' = cut \cup {UserAt(s) : s \in held}
      /\ UNCHANGED <<old, presence, rooms>>
  BY DEF ProcessDies
<1>2. SessionsOf(u) \subseteq Sessions /\ \A q \in SessionsOf(u) : q \notin held
  BY <1>1 DEF SessionsOf, UserAt
<1> HIDE DEF held
<1> QED BY <1>1, <1>2 DEF Untouched, presence, rooms

\* A transport that goes down leaves what was due to the disconnection handler.
LEMMA ClosingKeepsDue ==
    ASSUME LegacyTyped, NEW q \in Sessions,
           \/ hand'[q] = hand[q] /\ bye'[q] = bye[q]
           \/ hand[q] = "ready" /\ hand'[q] = "ended" /\ bye'[q] = "chat",
           listed'[q] = listed[q]
    PROVE  /\ KeysDue(q) => KeysDue(q)'
           /\ \A r \in Halls : RoomDue(q, r) => RoomDue(q, r)'
           /\ bye'[q] \in Removing /\ listed'[q] # {} => bye'[q] = bye[q] /\ listed'[q] = listed[q]
<1>1. CASE hand'[q] = hand[q] /\ bye'[q] = bye[q]
  BY <1>1 DEF KeysDue, RoomDue, ToDo, Removing, Kinds
<1>2. CASE hand[q] = "ready" /\ hand'[q] = "ended" /\ bye'[q] = "chat"
  <2>1. \A r \in Halls : RoomDue(q, r)'
    BY <1>2, EveryRoomHasKind DEF RoomDue, Kinds, ToDo, Removing
  <2>2. KeysDue(q)'
    BY <1>2 DEF KeysDue, Removing
  <2>3. listed'[q] = {}
    BY <1>2 DEF LegacyTyped, Removing
  <2> QED BY <2>1, <2>2, <2>3
<1> QED BY <1>1, <1>2

\* What the connection handler of s does keeps its own user cleared.
LEMMA HandleConnectionClears ==
    ASSUME LegacyTyped, NEW s \in Sessions, NEW u \in Members, u = UserAt(s),
           HandleConnection(s), Cleared(u), u \notin cut' \cup slipped'
    PROVE  Cleared(u)'
<1>0. /\ UserAt(s) = u /\ s \in SessionsOf(u) /\ SessionsOf(u) \subseteq Sessions /\ s # Nobody
      /\ Nobody \notin Sessions /\ FamilyOf[u] \subseteq Halls
      /\ Cleared(u) /\ u \notin cut' /\ u \notin slipped'
  BY SessionTyped, LegacySocketsConstants DEF SessionsOf, UserAt
<1>1. ASSUME \/ hand[s] = "none" /\ hand' = [hand EXCEPT ![s] = "lookup"]
             \/ hand[s] = "lookup" /\ hand' = [hand EXCEPT ![s] = "register"]
             \/ hand[s] = "notify" /\ hand' = [hand EXCEPT ![s] = "ready"],
             UNCHANGED <<byes, presence, rooms>>
      PROVE  Cleared(u)'
  <2>1. bye[s] = "none"
    BY <1>0, <1>1 DEF LegacyTyped
  <2>2. \A q \in SessionsOf(u) :
            /\ KeysDue(q) => KeysDue(q)'
            /\ \A r \in Halls : RoomDue(q, r) => RoomDue(q, r)'
    <3>1. \A q \in SessionsOf(u) : bye'[q] = bye[q] /\ (q # s => hand'[q] = hand[q])
      BY <1>0, <1>1 DEF LegacyTyped, byes
    <3>2. ToDo(bye[s]) = {} /\ bye[s] \notin Removing \cup {"keys"}
      BY <2>1 DEF ToDo, Removing
    <3>3. hand[s] \notin {"family", "notify", "ready"} \/ hand'[s] = "ready"
      BY <1>1 DEF LegacyTyped
    <3>4. (~KeysDue(s) /\ \A r \in Halls : ~RoomDue(s, r)) \/ hand'[s] = "ready"
      BY <3>2, <3>3 DEF KeysDue, RoomDue
    <3> QED BY <3>1, <3>4 DEF KeysDue, RoomDue, ToDo, Removing, Kinds
  <2> QED BY <1>0, <1>1, <2>2, ClearedFrame DEF byes, presence, rooms
<1>2. ASSUME NEW p \in Processes, Arrive(s, p) PROVE Cleared(u)'
  BY <1>1, <1>2 DEF Arrive
<1>3. CASE LookUpOld(s)
  BY <1>1, <1>3 DEF LookUpOld
<1>4. CASE Reconnect(s)
  <2>1. /\ \A q \in SessionsOf(u) \ {s} :
            /\ \/ hand'[q] = hand[q] /\ bye'[q] = bye[q]
               \/ hand[q] = "ready" /\ hand'[q] = "ended" /\ bye'[q] = "chat"
            /\ listed'[q] = listed[q]
        /\ hand[s] = "register" /\ hand'[s] = "family" /\ bye'[s] = bye[s]
        /\ UNCHANGED <<listed, userRooms, roomUsers>>
    BY <1>0, <1>4, ReconnectFrame
  <2>2. /\ \A q \in SessionsOf(u) : socketUser'[q] # Nobody => socketUser[q] # Nobody \/ q = s
        /\ (u \in online' <=> u \in online) \/ u \in online'
        /\ (userSocket'[u] = userSocket[u] /\ (u \in online' <=> u \in online)) \/ userSocket'[u] = s
    BY <1>0, <1>4 DEF Reconnect, AddOnlineUser, LegacyTyped
  <2>3. bye[s] = "none" /\ bye'[s] = "none"
    BY <1>0, <2>1 DEF LegacyTyped
  <2>4. KeysDue(s)' /\ \A r \in Halls : ~RoomDue(s, r)
    BY <2>1, <2>3 DEF KeysDue, RoomDue, ToDo
  <2>5. \A q \in SessionsOf(u) :
            /\ KeysDue(q) => KeysDue(q)'
            /\ \A r \in Halls : RoomDue(q, r) => RoomDue(q, r)'
            /\ bye'[q] \in Removing /\ listed'[q] # {} =>
                bye'[q] = bye[q] /\ listed'[q] = listed[q]
    BY <1>0, <2>1, <2>3, <2>4, ClosingKeepsDue
  <2> QED BY <1>0, <2>1, <2>2, <2>4, <2>5, ClearedFrame
<1>5. CASE AutoJoinFamilyRoom(s)
  <2>1. /\ hand[s] = "family" /\ hand' = [hand EXCEPT ![s] = "notify"]
        /\ ~SlipsIn(u, FamilyOf[u]) /\ UNCHANGED <<byes, presence>>
        /\ userRooms' = [userRooms EXCEPT ![u] = @ \cup FamilyOf[u]]
        /\ roomUsers' = [r \in Halls |-> IF r \in FamilyOf[u] THEN roomUsers[r] \cup {u} ELSE roomUsers[r]]
    BY <1>0, <1>5 DEF AutoJoinFamilyRoom, Enlist, NoteSlip
  <2>2. KeysDue(s)' /\ \A r : RoomDue(s, r)'
    BY <2>1 DEF LegacyTyped, KeysDue, RoomDue
  <2>3. \A q \in SessionsOf(u) : KeysDue(q) => KeysDue(q)'
    BY <1>0, <2>1, <2>2 DEF KeysDue, byes, LegacyTyped, Removing
  <2>4. /\ SessionsOf(u)' = SessionsOf(u) /\ userRooms'[u] = userRooms[u] \cup FamilyOf[u]
        /\ \A r \in Halls : u \in roomUsers'[r] <=> r \in FamilyOf[u] \/ u \in roomUsers[r]
    BY <1>0, <2>1 DEF SessionsOf, LegacyTyped
  <2>5. \A q \in SessionsOf(u) : bye[q] \in Removing /\ listed[q] # {} =>
            FamilyOf[u] \cap Kinds[bye[q]] = {}
    BY <2>1 DEF SlipsIn
  <2>6. \A q \in SessionsOf(u) : bye'[q] \in Removing /\ listed'[q] # {} =>
            listed'[q] \subseteq Kinds[bye'[q]] /\ userRooms'[u] \cap Kinds[bye'[q]] \subseteq listed'[q]
    BY <1>0, <2>1, <2>4, <2>5 DEF Cleared, byes
  <2>7. u \in online' \/ userSocket'[u] # Nobody => \E q \in SessionsOf(u) : KeysDue(q)'
    BY <1>0, <2>2
  <2>8. \A q \in SessionsOf(u) : socketUser'[q] # Nobody => KeysDue(q)'
    BY <1>0, <2>1, <2>3 DEF Cleared, presence
  <2>9. \A r \in userRooms'[u] : \E q \in SessionsOf(u) : RoomDue(q, r)'
    BY <1>0, <2>2
  <2>10. \A r \in Halls : u \in roomUsers'[r] <=> r \in userRooms'[u]
    BY <1>0, <2>4 DEF Cleared
  <2>11. Removing' = Removing /\ Kinds' = Kinds /\ Halls' = Halls
    BY DEF Removing, Kinds, Halls
  <2> QED BY <1>0, <2>4, <2>6, <2>7, <2>8, <2>9, <2>10, <2>11 DEF Cleared
<1>6. CASE FamilyRoomFails(s)
  BY <1>0, <1>6 DEF FamilyRoomFails
<1>7. CASE SetupUserEventHandlers(s)
  BY <1>0, <1>1, <1>7 DEF SetupUserEventHandlers
<1>8. CASE HandshakeFails(s)
  BY <1>0, <1>8 DEF HandshakeFails
<1> QED BY <1>2, <1>3, <1>4, <1>5, <1>6, <1>7, <1>8 DEF HandleConnection

\* So does its disconnection handler.
LEMMA HandleDisconnectionClears ==
    ASSUME LegacyTyped, NEW s \in Sessions, NEW u \in Members, u = UserAt(s),
           HandleUserDisconnection(s), Cleared(u), u \notin cut' \cup slipped'
    PROVE  Cleared(u)'
<1>0. /\ UserAt(s) = u /\ s \in SessionsOf(u) /\ SessionsOf(u) \subseteq Sessions
      /\ Nobody \notin Sessions /\ u \notin cut'
  BY SessionTyped, LegacySocketsConstants DEF SessionsOf, UserAt
<1>1. SessionsOf(u)' = SessionsOf(u) /\ Removing' = Removing /\ Kinds' = Kinds /\ Halls' = Halls
  BY DEF SessionsOf, Removing, Kinds, Halls
<1>2. ASSUME bye[s] \in Removing, UNCHANGED <<presence, hands>>, bye' = [bye EXCEPT ![s] = After[@]],
             userRooms'[u] = userRooms[u] \ Kinds[bye[s]]
      PROVE  /\ u \in online' \/ userSocket'[u] # Nobody => \E q \in SessionsOf(u) : KeysDue(q)'
             /\ \A q \in SessionsOf(u) : socketUser'[q] # Nobody => KeysDue(q)'
             /\ \A r \in userRooms'[u] : \E q \in SessionsOf(u) : RoomDue(q, r)'
  <2>1. /\ bye'[s] = After[bye[s]] /\ After[bye[s]] \in Removing \cup {"keys"}
        /\ \A k \in ToDo(bye[s]) : k = bye[s] \/ k \in ToDo(After[bye[s]])
        /\ \A q \in SessionsOf(u) \ {s} : bye'[q] = bye[q]
    BY <1>0, <1>2, StagesFacts DEF LegacyTyped
  <2>2. \A q \in SessionsOf(u) : KeysDue(q) => KeysDue(q)'
    BY <1>2, <2>1 DEF KeysDue, Removing, hands
  <2>3. \A q \in SessionsOf(u) : \A r : RoomDue(q, r) /\ r \notin Kinds[bye[s]] => RoomDue(q, r)'
    <3> SUFFICES ASSUME NEW q \in SessionsOf(u), NEW r, RoomDue(q, r), r \notin Kinds[bye[s]]
                 PROVE  RoomDue(q, r)'
      OBVIOUS
    <3>1. hand'[q] = hand[q]
      BY <1>2 DEF hands
    <3>2. CASE q = s
      BY <2>1, <3>1, <3>2 DEF RoomDue, Kinds, ToDo, Removing
    <3>3. CASE q # s
      BY <2>1, <3>1, <3>3 DEF RoomDue, Kinds, ToDo, Removing
    <3> QED BY <3>2, <3>3
  <2> QED BY <1>2, <2>2, <2>3 DEF Cleared, presence
<1>3. CASE ListRooms(s)
  <2> DEFINE mine == userRooms[u] \cap Kinds[bye[s]]
  <2>1. /\ bye[s] \in Removing /\ listed[s] = {} /\ listed' = [listed EXCEPT ![s] = mine]
        /\ bye' = IF mine = {} THEN [bye EXCEPT ![s] = After[@]] ELSE bye
        /\ UNCHANGED <<hands, presence, rooms>>
    BY <1>0, <1>3 DEF ListRooms
  <2> HIDE DEF mine
  <2>2. \A q \in SessionsOf(u) : bye'[q] \in Removing /\ listed'[q] # {} =>
            listed'[q] \subseteq Kinds[bye'[q]] /\ userRooms'[u] \cap Kinds[bye'[q]] \subseteq listed'[q]
    <3>1. \A q \in SessionsOf(u) \ {s} : bye'[q] = bye[q] /\ listed'[q] = listed[q]
      BY <1>0, <2>1 DEF LegacyTyped
    <3>2. listed'[s] = mine /\ (mine # {} => bye'[s] = bye[s])
      BY <1>0, <2>1 DEF LegacyTyped
    <3> QED BY <2>1, <3>1, <3>2 DEF Cleared, rooms, mine
  <2>3. CASE mine = {}
    <3>1. userRooms'[u] = userRooms[u] \ Kinds[bye[s]]
      BY <2>1, <2>3 DEF mine, rooms
    <3> QED BY <1>1, <1>2, <2>1, <2>2, <2>3, <3>1 DEF Cleared, rooms
  <2>4. CASE mine # {}
    <3>1. \A q \in SessionsOf(u) : KeysDue(q)' = KeysDue(q) /\ \A r : RoomDue(q, r)' = RoomDue(q, r)
      BY <2>1, <2>4 DEF KeysDue, RoomDue, hands, ToDo, Removing, Kinds
    <3> QED BY <1>1, <2>1, <2>2, <3>1 DEF Cleared, rooms, presence
  <2> QED BY <2>3, <2>4
<1>4. CASE RemoveUserFromAllRooms(s)
  <2>1. /\ bye[s] \in Removing /\ listed[s] # {} /\ listed'[s] = {}
        /\ bye' = [bye EXCEPT ![s] = After[@]] /\ UNCHANGED <<presence, hands>>
        /\ userRooms'[u] = userRooms[u] \ Kinds[bye[s]]
        /\ \A r \in Halls : u \in roomUsers'[r] <=> u \in roomUsers[r] /\ r \notin listed[s]
        /\ \A q \in SessionsOf(u) \ {s} : bye'[q] = bye[q] /\ listed'[q] = listed[q]
    BY <1>0, <1>4 DEF RemoveUserFromAllRooms, LegacyTyped
  <2>2. \A r \in Halls : u \in roomUsers'[r] <=> r \in userRooms'[u]
    BY <1>0, <2>1 DEF Cleared
  <2>3. \A q \in SessionsOf(u) : bye'[q] \in Removing /\ listed'[q] # {} =>
            listed'[q] \subseteq Kinds[bye'[q]] /\ userRooms'[u] \cap Kinds[bye'[q]] \subseteq listed'[q]
    BY <2>1 DEF Cleared
  <2> QED BY <1>1, <1>2, <2>1, <2>2, <2>3 DEF Cleared
<1>5. CASE RemoveOnlineUser(s)
  <2>1. /\ u \notin online' /\ userSocket'[u] = Nobody /\ bye[s] = "keys" /\ bye'[s] = "done"
        /\ socketUser'[s] = Nobody
        /\ \A q \in SessionsOf(u) \ {s} : bye'[q] = bye[q] /\ socketUser'[q] = socketUser[q]
        /\ UNCHANGED <<listed, hands, rooms>>
    BY <1>0, <1>5 DEF RemoveOnlineUser, LegacyTyped
  <2>2. \A q \in SessionsOf(u) \ {s} : KeysDue(q)' = KeysDue(q)
    BY <2>1 DEF KeysDue, Removing, hands
  <2>3. \A q \in SessionsOf(u) : \A r : RoomDue(q, r) => RoomDue(q, r)'
    BY <2>1 DEF RoomDue, ToDo, Removing, Kinds, hands
  <2>4. \A q \in SessionsOf(u) : bye'[q] \in Removing => bye'[q] = bye[q]
    BY <2>1 DEF Removing
  <2> QED BY <1>1, <2>1, <2>2, <2>3, <2>4 DEF Cleared, rooms
<1>6. CASE DisconnectionFails(s)
  BY <1>0, <1>6 DEF DisconnectionFails
<1> QED BY <1>3, <1>4, <1>5, <1>6 DEF HandleUserDisconnection

\* So do the events of its socket.
LEMMA EventsClear ==
    ASSUME LegacyTyped, NEW s \in Sessions, NEW u \in Members, u = UserAt(s), Cleared(u),
           u \notin slipped',
           \/ Close(s) \/ \E r \in Halls : JoinHall(s, r) \/ LeaveHall(s, r)
    PROVE  Cleared(u)'
<1>0. /\ UserAt(s) = u /\ s \in SessionsOf(u) /\ SessionsOf(u) \subseteq Sessions
      /\ u \notin slipped' /\ Cleared(u)
  BY SessionTyped DEF SessionsOf, UserAt
<1>1. SessionsOf(u)' = SessionsOf(u) /\ Removing' = Removing /\ Kinds' = Kinds /\ Halls' = Halls
  BY DEF SessionsOf, Removing, Kinds, Halls
<1>2. CASE Close(s)
  <2>1. /\ \A q \in SessionsOf(u) :
            /\ \/ hand'[q] = hand[q] /\ bye'[q] = bye[q]
               \/ hand[q] = "ready" /\ hand'[q] = "ended" /\ bye'[q] = "chat"
            /\ listed'[q] = listed[q]
        /\ UNCHANGED <<presence, rooms>>
    BY <1>0, <1>2 DEF Close, Drop, Closed
  <2>2. \A q \in SessionsOf(u) :
            /\ KeysDue(q) => KeysDue(q)'
            /\ \A r \in Halls : RoomDue(q, r) => RoomDue(q, r)'
            /\ bye'[q] \in Removing /\ listed'[q] # {} =>
                bye'[q] = bye[q] /\ listed'[q] = listed[q]
    BY <1>0, <2>1, ClosingKeepsDue
  <2> QED BY <1>0, <2>1, <2>2, ClearedFrame DEF presence, rooms
<1>3. ASSUME NEW r \in Halls, JoinHall(s, r) \/ LeaveHall(s, r) PROVE Cleared(u)'
  <2>1. /\ hand[s] = "ready" /\ UNCHANGED <<hands, byes, presence>>
        /\ \/ /\ userRooms'[u] = userRooms[u] \cup {r} /\ ~SlipsIn(u, {r})
              /\ \A h \in Halls : u \in roomUsers'[h] <=> h = r \/ u \in roomUsers[h]
           \/ /\ userRooms'[u] = userRooms[u] \ {r}
              /\ \A h \in Halls : u \in roomUsers'[h] <=> h # r /\ u \in roomUsers[h]
    BY <1>0, <1>3 DEF JoinHall, LeaveHall, Listening, Enlist, Delist, NoteSlip, LegacyTyped
  <2>2. \A q \in SessionsOf(u) : KeysDue(q)' = KeysDue(q) /\ \A h : RoomDue(q, h)' = RoomDue(q, h)
    BY <2>1 DEF KeysDue, RoomDue, hands, byes, ToDo, Removing, Kinds
  <2>3. \A h : RoomDue(s, h)
    BY <2>1 DEF RoomDue
  <2>4. /\ (u \in online' \/ userSocket'[u] # Nobody => \E q \in SessionsOf(u) : KeysDue(q)')
        /\ (\A q \in SessionsOf(u) : socketUser'[q] # Nobody => KeysDue(q)')
    BY <1>0, <2>1, <2>2 DEF Cleared, presence
  <2>5. \A h \in userRooms'[u] : \E q \in SessionsOf(u) : RoomDue(q, h)'
    BY <1>0, <2>2, <2>3
  <2>6. \A h \in Halls : u \in roomUsers'[h] <=> h \in userRooms'[u]
    BY <1>0, <2>1 DEF Cleared
  <2>7. \A q \in SessionsOf(u) : bye'[q] \in Removing /\ listed'[q] # {} =>
            listed'[q] \subseteq Kinds[bye'[q]] /\ userRooms'[u] \cap Kinds[bye'[q]] \subseteq listed'[q]
    <3>1. \A q \in SessionsOf(u) : bye[q] \in Removing /\ listed[q] # {} =>
            \/ userRooms'[u] = userRooms[u] \ {r}
            \/ userRooms'[u] = userRooms[u] \cup {r} /\ r \notin Kinds[bye[q]]
      BY <2>1 DEF SlipsIn
    <3> QED BY <1>0, <2>1, <3>1 DEF Cleared, byes
  <2> QED BY <1>1, <2>4, <2>5, <2>6, <2>7 DEF Cleared
<1> QED BY <1>2, <1>3

SessionStep(s) ==
    \/ HandleConnection(s) \/ Close(s) \/ HandleUserDisconnection(s)
    \/ \E r \in Halls : JoinHall(s, r) \/ LeaveHall(s, r)

LEMMA LegacySteps ==
    ASSUME LegacyNext
    PROVE  (\E s \in Sessions : SessionStep(s)) \/ \E p \in Processes : ProcessDies(p)
BY DEF LegacyNext, SessionStep, HandleJoin, HandleLeave, HandleJoinTask, HandleLeaveTask, Halls

LEMMA HistoryGrows ==
    ASSUME (\E s \in Sessions : SessionStep(s)) \/ (\E p \in Processes : ProcessDies(p))
    PROVE  cut \subseteq cut' /\ slipped \subseteq slipped' /\ overlapped \subseteq overlapped'
<1>1. ASSUME NEW s \in Sessions, HandleConnection(s)
      PROVE  cut \subseteq cut' /\ slipped \subseteq slipped' /\ overlapped \subseteq overlapped'
  <2>1. CASE Reconnect(s)
    BY <2>1 DEF Reconnect, pasts
  <2>2. CASE LookUpOld(s) \/ \E p \in Processes : Arrive(s, p)
    BY <2>2 DEF LookUpOld, Arrive, pasts
  <2>3. CASE AutoJoinFamilyRoom(s) \/ FamilyRoomFails(s)
    BY <2>3 DEF AutoJoinFamilyRoom, NoteSlip, FamilyRoomFails
  <2>4. CASE SetupUserEventHandlers(s) \/ HandshakeFails(s)
    BY <2>4 DEF SetupUserEventHandlers, HandshakeFails
  <2> QED BY <1>1, <2>1, <2>2, <2>3, <2>4 DEF HandleConnection
<1>2. ASSUME NEW s \in Sessions, HandleUserDisconnection(s)
      PROVE  cut \subseteq cut' /\ slipped \subseteq slipped' /\ overlapped \subseteq overlapped'
  BY <1>2 DEF HandleUserDisconnection, ListRooms, RemoveUserFromAllRooms, RemoveOnlineUser,
              DisconnectionFails, pasts
<1>3. ASSUME NEW s \in Sessions, Close(s)
      PROVE  cut \subseteq cut' /\ slipped \subseteq slipped' /\ overlapped \subseteq overlapped'
  BY <1>3 DEF Close, pasts
<1>4. ASSUME NEW s \in Sessions, NEW r \in Halls, JoinHall(s, r) \/ LeaveHall(s, r)
      PROVE  cut \subseteq cut' /\ slipped \subseteq slipped' /\ overlapped \subseteq overlapped'
  BY <1>4 DEF JoinHall, LeaveHall, NoteSlip, pasts
<1>5. ASSUME NEW p \in Processes, ProcessDies(p)
      PROVE  cut \subseteq cut' /\ slipped \subseteq slipped' /\ overlapped \subseteq overlapped'
  BY <1>5 DEF ProcessDies
<1> QED BY <1>1, <1>2, <1>3, <1>4, <1>5 DEF SessionStep

LEMMA SocketsOwnStep ==
    ASSUME LegacyTyped, SocketsOwn, NEW s \in Sessions, SessionStep(s) PROVE SocketsOwn'
<1> DEFINE u == UserAt(s)
<1>1. /\ u \in Members /\ s \in SessionsOf(u) /\ SessionsOf(u)' = SessionsOf(u)
      /\ old[s] \in SessionsOf(u) \cup {Nobody} /\ userSocket[u] \in SessionsOf(u) \cup {Nobody}
  BY SessionTyped DEF SessionsOf, SocketsOwn
<1>2. \A m \in Members \ {u} : Untouched(m)
  BY <1>1, OthersUntouched DEF SessionStep
<1>3. /\ \A q \in Sessions : old'[q] = old[q] \/ (q = s /\ old'[q] = userSocket[u])
      /\ userSocket'[u] \in {userSocket[u], Nobody, s}
  <2>1. CASE Reconnect(s)
    BY <1>1, <2>1 DEF Reconnect, AddOnlineUser, LegacyTyped
  <2>2. CASE LookUpOld(s) \/ \E p \in Processes : Arrive(s, p)
    BY <2>2 DEF LookUpOld, Arrive, presence, LegacyTyped
  <2>3. CASE AutoJoinFamilyRoom(s) \/ FamilyRoomFails(s)
    BY <2>3 DEF AutoJoinFamilyRoom, FamilyRoomFails, presence
  <2>4. CASE SetupUserEventHandlers(s) \/ HandshakeFails(s)
    BY <1>1, <2>4 DEF SetupUserEventHandlers, HandshakeFails, AddOnlineUser, presence, LegacyTyped
  <2>5. CASE HandleUserDisconnection(s)
    BY <1>1, <2>5 DEF HandleUserDisconnection, ListRooms, RemoveUserFromAllRooms, RemoveOnlineUser,
                DisconnectionFails, hands, presence, LegacyTyped
  <2>6. CASE Close(s) \/ \E r \in Halls : JoinHall(s, r) \/ LeaveHall(s, r)
    BY <2>6 DEF Close, JoinHall, LeaveHall, hands, presence
  <2> QED BY <2>1, <2>2, <2>3, <2>4, <2>5, <2>6 DEF SessionStep, HandleConnection
<1>4. \A m \in Members : userSocket'[m] \in SessionsOf(m) \cup {Nobody}
  BY <1>1, <1>2, <1>3 DEF SocketsOwn, Untouched
<1>5. \A q \in Sessions : old'[q] \in SessionsOf(UserAt(q)) \cup {Nobody}
  BY <1>1, <1>3 DEF SocketsOwn
<1>6. \A m : SessionsOf(m)' = SessionsOf(m)
  BY DEF SessionsOf
<1>7. \A q : UserAt(q)' = UserAt(q)
  BY DEF UserAt
<1> HIDE DEF u
<1> QED BY <1>4, <1>5, <1>6, <1>7 DEF SocketsOwn

LEMMA LegacyTypedStep ==
    ASSUME LegacyTyped, [LegacyNext]_legacyVars PROVE LegacyTyped'
<1>1. ASSUME NEW s \in Sessions, SessionStep(s) PROVE LegacyTyped'
  BY <1>1, HandleConnectionTyped, HandleDisconnectionTyped, EventsTyped DEF SessionStep
<1>2. CASE UNCHANGED legacyVars
  BY <1>2 DEF LegacyTyped, legacyVars, hands, byes, presence, rooms
<1> QED BY <1>1, <1>2, LegacySteps, ProcessDiesTyped

LEMMA QuietStep ==
    ASSUME LegacyTyped, SocketsOwn, QuietInv, [LegacyNext]_legacyVars
    PROVE  SocketsOwn' /\ QuietInv'
<1> USE DEF QuietInv
<1>1. ASSUME NEW s \in Sessions, SessionStep(s) PROVE SocketsOwn' /\ QuietInv'
  <2>1. SocketsOwn'
    BY <1>1, SocketsOwnStep
  <2>2. cut \subseteq cut' /\ slipped \subseteq slipped'
    BY <1>1, HistoryGrows
  <2>3. ASSUME NEW u \in Members \ (cut' \cup slipped') PROVE Cleared(u)'
    <3>1. Cleared(u) /\ old[s] \in SessionsOf(UserAt(s)) \cup {Nobody}
      BY <2>2, <2>3 DEF SocketsOwn
    <3>2. CASE u = UserAt(s)
      BY <1>1, <3>1, <3>2, HandleConnectionClears, HandleDisconnectionClears, EventsClear
         DEF SessionStep
    <3>3. CASE u # UserAt(s)
      <4>1. Untouched(u)
        BY <1>1, <3>1, <3>3, OthersUntouched DEF SessionStep
      <4> QED BY <3>1, <4>1, UntouchedKeeps
    <3> QED BY <3>2, <3>3
  <2> QED BY <2>1, <2>3
<1>2. ASSUME NEW p \in Processes, ProcessDies(p) PROVE SocketsOwn' /\ QuietInv'
  <2>1. SocketsOwn'
    BY <1>2 DEF ProcessDies, SocketsOwn, SessionsOf, UserAt, presence
  <2>2. cut \subseteq cut' /\ slipped \subseteq slipped'
    BY <1>2, HistoryGrows
  <2>3. ASSUME NEW u \in Members \ (cut' \cup slipped') PROVE Cleared(u)'
    BY <1>2, <2>2, <2>3, SurvivorsUntouched, UntouchedKeeps
  <2> QED BY <2>1, <2>3
<1>3. CASE UNCHANGED legacyVars
  <2>1. \A u : Cleared(u)' = Cleared(u)
    BY <1>3 DEF legacyVars, hands, byes, presence, rooms, Cleared, KeysDue, RoomDue, SessionsOf,
                Halls, ToDo, Removing, Kinds
  <2> QED
    BY <1>3, <2>1 DEF legacyVars, hands, presence, pasts, SocketsOwn, SessionsOf, UserAt
<1> QED BY <1>1, <1>2, <1>3, LegacySteps

\* A user whose connections are all gone leaves no presence key and no place in a room behind,
\* unless a session of his was cut short or joined a room behind another one's back: what Redis
\* has of him, one of his sessions is going to remove.
THEOREM QuietAlwaysGone == LegacySpec => []QuietUserIsGone
<1>1. LegacyInit => LegacyTyped /\ SocketsOwn /\ QuietInv
  <2> HAVE LegacyInit
  <2>1. LegacyTyped
    BY LegacyTypedInit
  <2>2. SocketsOwn
    BY LegacySocketsConstants DEF LegacyInit, SocketsOwn
  <2>3. ASSUME NEW u \in Members PROVE Cleared(u)
    BY <2>3 DEF LegacyInit, Cleared, SessionsOf, Removing
  <2> QED BY <2>1, <2>2, <2>3 DEF QuietInv
<1>2. LegacyTyped /\ SocketsOwn /\ QuietInv /\ [LegacyNext]_legacyVars
        => (LegacyTyped /\ SocketsOwn /\ QuietInv)'
  BY LegacyTypedStep, QuietStep
<1>3. LegacyTyped /\ QuietInv => QuietUserIsGone
  <2> SUFFICES ASSUME LegacyTyped, NEW u \in Members, Cleared(u), \A s \in SessionsOf(u) : Over(s)
               PROVE  /\ u \notin online /\ userSocket[u] = Nobody /\ userRooms[u] = {}
                      /\ \A s \in SessionsOf(u) : socketUser[s] = Nobody
                      /\ \A r \in Halls : u \notin roomUsers[r]
    BY DEF QuietInv, QuietUserIsGone
  <2>1. \A s \in SessionsOf(u) : ToDo(bye[s]) = {}
    BY DEF Over, ToDo, Removing
  <2>2. \A s \in SessionsOf(u) : ~KeysDue(s) /\ \A r : ~RoomDue(s, r)
    BY <2>1 DEF Over, KeysDue, RoomDue, Removing
  <2> QED BY <2>2 DEF Cleared
<1> QED BY <1>1, <1>2, <1>3, PTL DEF LegacySpec

LEMMA NothingDueNothingKept ==
    ASSUME LegacyTyped, NEW u \in Members, Cleared(u), \A s \in SessionsOf(u) : Over(s)
    PROVE  userSocket[u] = Nobody /\ userRooms[u] = {}
<1>1. \A s \in SessionsOf(u) : ToDo(bye[s]) = {}
  BY DEF Over, ToDo, Removing
<1>2. \A s \in SessionsOf(u) : ~KeysDue(s) /\ \A r : ~RoomDue(s, r)
  BY <1>1 DEF Over, KeysDue, RoomDue, Removing
<1> QED BY <1>2 DEF Cleared

\* A session that takes a step, once connected, is the only one its orderly user has, and it
\* leaves the others alone.
LEMMA OrderlyActor ==
    ASSUME LegacyTyped, NEW s \in Sessions, NEW u \in Members, u = UserAt(s), Orderly(u),
           SessionStep(s), ~\E p \in Processes : Arrive(s, p)
    PROVE  /\ ~Over(s)
           /\ \A q \in SessionsOf(u) \ {s} :
                Over(q)' /\ hand'[q] = hand[q] /\ inRooms'[q] = inRooms[q]
<1>0. /\ UserAt(s) = u /\ s \in SessionsOf(u) /\ SessionsOf(u) \subseteq Sessions /\ s # Nobody
      /\ Nobody \notin Sessions
  BY SessionTyped, LegacySocketsConstants DEF SessionsOf, UserAt
<1>1. /\ ~Over(s)
      /\ \A q \in SessionsOf(u) \ {s} :
            (q \in wired' => q \in wired) /\ hand'[q] = hand[q] /\ bye'[q] = bye[q]
            /\ inRooms'[q] = inRooms[q]
  <2>1. CASE LookUpOld(s)
    BY <1>0, <2>1 DEF LookUpOld, Over, LegacyTyped, byes
  <2>2. CASE Reconnect(s)
    <3>1. old[s] = Nobody
      BY <1>0, <2>2 DEF Reconnect, Orderly
    <3>2. OldHere(s) = {}
      BY <1>0, <3>1 DEF OldHere, LegacyTyped
    <3> QED BY <1>0, <2>2, <3>2, ReconnectFrame DEF Over
  <2>3. CASE AutoJoinFamilyRoom(s)
    BY <1>0, <2>3 DEF AutoJoinFamilyRoom, Over, LegacyTyped, byes
  <2>4. CASE FamilyRoomFails(s)
    BY <1>0, <2>4 DEF FamilyRoomFails, Over, LegacyTyped, byes
  <2>5. CASE SetupUserEventHandlers(s) \/ HandshakeFails(s)
    BY <1>0, <2>5 DEF SetupUserEventHandlers, HandshakeFails, Over, LegacyTyped, byes
  <2>6. CASE HandleUserDisconnection(s)
    BY <1>0, <2>6 DEF HandleUserDisconnection, ListRooms, RemoveUserFromAllRooms, RemoveOnlineUser,
                DisconnectionFails, Over, Removing, hands, LegacyTyped
  <2>7. CASE Close(s)
    BY <1>0, <2>7 DEF Close, Drop, Closed, Over, LegacyTyped
  <2>8. CASE \E r \in Halls : JoinHall(s, r) \/ LeaveHall(s, r)
    BY <1>0, <2>8 DEF JoinHall, LeaveHall, Listening, hands, byes, Over, LegacyTyped
  <2> QED BY <2>1, <2>2, <2>3, <2>4, <2>5, <2>6, <2>7, <2>8 DEF SessionStep, HandleConnection
<1>2. \A q \in SessionsOf(u) \ {s} : Over(q)
  BY <1>0, <1>1 DEF Orderly
<1> QED BY <1>1, <1>2 DEF Over

LEMMA OrderlyFrame ==
    ASSUME NEW u \in Members, NEW s \in SessionsOf(u),
           \A q \in SessionsOf(u) \ {s} : Over(q)' /\ (hand'[q] = "none" => inRooms'[q] = {}),
           hand'[s] \in {"lookup", "register"} => userSocket'[u] = Nobody,
           hand'[s] = "register" => old'[s] = Nobody,
           hand'[s] \in {"family", "notify", "ready"} =>
                u \in online' /\ userSocket'[u] = s /\ socketUser'[s] = u,
           hand'[s] \in {"lookup", "register", "family"} => userRooms'[u] = {},
           hand'[s] \in {"none", "lookup", "register", "family"} => inRooms'[s] = {},
           hand'[s] \in {"notify", "ready"} /\ s \in wired' => userRooms'[u] = inRooms'[s]
    PROVE  Orderly(u)'
<1>1. SessionsOf(u)' = SessionsOf(u)
  BY DEF SessionsOf
<1> QED BY <1>1 DEF Orderly, Over

LEMMA OrderlyOwn ==
    ASSUME LegacyTyped, NEW s \in Sessions, NEW u \in Members, u = UserAt(s), Orderly(u),
           Cleared(u), SessionStep(s), u \notin cut' \cup overlapped'
    PROVE  Orderly(u)'
<1>0. /\ UserAt(s) = u /\ s \in SessionsOf(u) /\ SessionsOf(u) \subseteq Sessions /\ s # Nobody
      /\ Nobody \notin Sessions /\ FamilyOf[u] \subseteq Halls
      /\ u \notin cut' /\ u \notin overlapped' /\ Orderly(u)
  BY SessionTyped, LegacySocketsConstants DEF SessionsOf, UserAt
<1>1. ASSUME NEW p \in Processes, Arrive(s, p) PROVE Orderly(u)'
  <2>1. /\ hand[s] = "none" /\ hand' = [hand EXCEPT ![s] = "lookup"] /\ wired' = wired \cup {s}
        /\ \A q \in SessionsOf(u) : Over(q)
        /\ UNCHANGED <<bye, inRooms, userSocket, userRooms>>
    BY <1>0, <1>1 DEF Arrive, byes, presence, rooms
  <2>2. userSocket'[u] = Nobody /\ userRooms'[u] = {} /\ inRooms'[s] = {}
    BY <1>0, <2>1, NothingDueNothingKept DEF Orderly
  <2>3. hand'[s] = "lookup" /\ \A q \in SessionsOf(u) \ {s} :
            Over(q)' /\ (hand'[q] = "none" => inRooms'[q] = {})
    BY <1>0, <2>1 DEF LegacyTyped, Over, Orderly
  <2> QED BY <1>0, <2>2, <2>3, OrderlyFrame
<1>2. CASE ~\E p \in Processes : Arrive(s, p)
  <2>1. \A q \in SessionsOf(u) \ {s} : Over(q)' /\ (hand'[q] = "none" => inRooms'[q] = {})
    BY <1>0, <1>2, OrderlyActor DEF Orderly
  <2>2. CASE LookUpOld(s)
    <3>1. /\ hand'[s] = "register" /\ old'[s] = Nobody /\ userSocket'[u] = Nobody
          /\ userRooms'[u] = {} /\ inRooms'[s] = {}
      BY <1>0, <2>2 DEF LookUpOld, Orderly, LegacyTyped, presence, rooms
    <3> QED BY <1>0, <2>1, <3>1, OrderlyFrame
  <2>3. CASE Reconnect(s)
    <3>1. hand[s] = "register" /\ old[s] = Nobody /\ userRooms[u] = {} /\ inRooms[s] = {}
      BY <1>0, <2>3 DEF Reconnect, Orderly
    <3>2. hand'[s] = "family" /\ inRooms'[s] = {} /\ userRooms' = userRooms /\ AddOnlineUser(u, s)
      BY <1>0, <2>3, <3>1, ReconnectFrame
    <3>3. u \in online' /\ userSocket'[u] = s /\ socketUser'[s] = u
      BY <1>0, <3>2 DEF AddOnlineUser, LegacyTyped
    <3> QED BY <1>0, <2>1, <3>1, <3>2, <3>3, OrderlyFrame
  <2>4. CASE AutoJoinFamilyRoom(s)
    <3>1. /\ hand[s] = "family" /\ hand'[s] = "notify" /\ userRooms'[u] = userRooms[u] \cup FamilyOf[u]
          /\ s \in wired' => inRooms'[s] = inRooms[s] \cup FamilyOf[u]
          /\ UNCHANGED presence
      BY <1>0, <2>4 DEF AutoJoinFamilyRoom, Enlist, LegacyTyped
    <3>2. /\ u \in online' /\ userSocket'[u] = s /\ socketUser'[s] = u
          /\ s \in wired' => userRooms'[u] = inRooms'[s]
      BY <1>0, <3>1 DEF Orderly, presence
    <3> QED BY <1>0, <2>1, <3>1, <3>2, OrderlyFrame
  <2>5. CASE FamilyRoomFails(s) \/ HandshakeFails(s)
    BY <1>0, <2>5 DEF FamilyRoomFails, HandshakeFails
  <2>6. CASE SetupUserEventHandlers(s)
    <3>1. /\ hand[s] = "notify" /\ hand'[s] = "ready" /\ s \in wired
          /\ UNCHANGED <<wired, inRooms, presence, rooms>>
      BY <1>0, <2>6 DEF SetupUserEventHandlers, LegacyTyped
    <3> QED BY <1>0, <2>1, <3>1, OrderlyFrame DEF Orderly, presence, rooms
  <2>7. CASE HandleUserDisconnection(s)
    <3>1. hand[s] = "ended" /\ hand' = hand
      BY <2>7 DEF HandleUserDisconnection, ListRooms, RemoveUserFromAllRooms, RemoveOnlineUser,
                  DisconnectionFails, Removing, hands, LegacyTyped
    <3> QED BY <1>0, <2>1, <3>1, OrderlyFrame
  <2>8. CASE Close(s)
    <3>1. /\ hand'[s] = IF hand[s] = "ready" THEN "ended" ELSE hand[s]
          /\ s \notin wired' /\ inRooms'[s] = {} /\ UNCHANGED <<old, presence, rooms>>
      BY <1>0, <2>8 DEF Close, Drop, Closed
    <3> QED BY <1>0, <2>1, <3>1, OrderlyFrame DEF Orderly, presence, rooms
  <2>9. ASSUME NEW r \in Halls, JoinHall(s, r) \/ LeaveHall(s, r) PROVE Orderly(u)'
    <3>1. /\ hand[s] = "ready" /\ s \in wired /\ UNCHANGED <<hand, wired, presence>>
          /\ \/ userRooms'[u] = userRooms[u] \cup {r} /\ inRooms'[s] = inRooms[s] \cup {r}
             \/ userRooms'[u] = userRooms[u] \ {r} /\ inRooms'[s] = inRooms[s] \ {r}
      BY <1>0, <2>9 DEF JoinHall, LeaveHall, Listening, Enlist, Delist, hands, LegacyTyped
    <3>2. userRooms'[u] = inRooms'[s]
      BY <1>0, <3>1 DEF Orderly
    <3> QED BY <1>0, <2>1, <3>1, <3>2, OrderlyFrame DEF Orderly, presence
  <2> QED BY <1>2, <2>2, <2>3, <2>4, <2>5, <2>6, <2>7, <2>8, <2>9
             DEF SessionStep, HandleConnection
<1> QED BY <1>1, <1>2

\* Only users with two sessions at a time slip in.
LEMMA SlippedOverlapped ==
    ASSUME LegacyTyped, OrderlyInv, NEW s \in Sessions, SessionStep(s)
    PROVE  slipped' \subseteq cut' \cup overlapped'
<1>1. ASSUME NEW hs, SlipsIn(UserAt(s), hs), hand[s] \in {"family", "ready"}, ~Over(s)
      PROVE  UserAt(s) \in cut \cup overlapped
  <2>1. PICK q \in SessionsOf(UserAt(s)) : bye[q] \in Removing
    BY <1>1 DEF SlipsIn
  <2>2. q \in Sessions /\ hand[q] = "ended" /\ ~Over(q)
    BY <2>1 DEF SessionsOf, LegacyTyped, Removing, Over
  <2>3. q # s /\ ~Orderly(UserAt(s))
    BY <1>1, <2>1, <2>2, SessionTyped DEF Orderly
  <2> QED BY <2>3, SessionTyped DEF OrderlyInv
<1>2. slipped' \subseteq slipped \/ (slipped' = slipped \cup {UserAt(s)} /\ UserAt(s) \in cut \cup overlapped)
  <2>1. CASE HandleConnection(s)
    <3>1. CASE AutoJoinFamilyRoom(s)
      BY <1>1, <3>1 DEF AutoJoinFamilyRoom, NoteSlip, Over
    <3>2. CASE ~AutoJoinFamilyRoom(s)
      BY <2>1, <3>2 DEF HandleConnection, Arrive, LookUpOld, Reconnect, FamilyRoomFails,
                  SetupUserEventHandlers, HandshakeFails, pasts
    <3> QED BY <3>1, <3>2
  <2>2. CASE HandleUserDisconnection(s) \/ Close(s)
    BY <2>2 DEF HandleUserDisconnection, ListRooms, RemoveUserFromAllRooms, RemoveOnlineUser,
                DisconnectionFails, Close, pasts
  <2>3. ASSUME NEW r \in Halls, LeaveHall(s, r) PROVE slipped' = slipped
    BY <2>3 DEF LeaveHall, pasts
  <2>4. ASSUME NEW r \in Halls, JoinHall(s, r)
        PROVE  slipped' = slipped \/ (slipped' = slipped \cup {UserAt(s)} /\ UserAt(s) \in cut \cup overlapped)
    BY <1>1, <2>4 DEF JoinHall, NoteSlip, Listening, Over
  <2> QED BY <2>1, <2>2, <2>3, <2>4 DEF SessionStep
<1> QED BY <1>2, HistoryGrows DEF OrderlyInv

LEMMA OrderlyStep ==
    ASSUME LegacyTyped, SocketsOwn, QuietInv, OrderlyInv, [LegacyNext]_legacyVars PROVE OrderlyInv'
<1>1. ASSUME NEW s \in Sessions, SessionStep(s) PROVE OrderlyInv'
  <2>1. slipped' \subseteq cut' \cup overlapped'
    BY <1>1, SlippedOverlapped
  <2>2. cut \subseteq cut' /\ overlapped \subseteq overlapped'
    BY <1>1, HistoryGrows
  <2>3. ASSUME NEW u \in Members \ (cut' \cup overlapped') PROVE Orderly(u)'
    <3>1. Orderly(u) /\ Cleared(u) /\ old[s] \in SessionsOf(UserAt(s)) \cup {Nobody}
      BY <2>2, <2>3 DEF SocketsOwn, OrderlyInv, QuietInv
    <3>2. CASE u = UserAt(s)
      BY <1>1, <3>1, <3>2, OrderlyOwn
    <3>3. CASE u # UserAt(s)
      <4>1. Untouched(u)
        BY <1>1, <3>1, <3>3, OthersUntouched DEF SessionStep
      <4> QED BY <3>1, <4>1, UntouchedKeeps
    <3> QED BY <3>2, <3>3
  <2> QED BY <2>1, <2>3 DEF OrderlyInv
<1>2. ASSUME NEW p \in Processes, ProcessDies(p) PROVE OrderlyInv'
  <2>1. cut \subseteq cut' /\ slipped' = slipped /\ overlapped' = overlapped
    BY <1>2 DEF ProcessDies
  <2>2. ASSUME NEW u \in Members \ (cut' \cup overlapped') PROVE Orderly(u)'
    BY <1>2, <2>1, <2>2, SurvivorsUntouched, UntouchedKeeps DEF OrderlyInv
  <2> QED BY <2>1, <2>2 DEF OrderlyInv
<1>3. CASE UNCHANGED legacyVars
  <2>1. \A u : Orderly(u)' = Orderly(u)
    BY <1>3 DEF legacyVars, hands, byes, presence, rooms, Orderly, Over, SessionsOf
  <2> QED
    BY <1>3, <2>1 DEF legacyVars, pasts, OrderlyInv
<1> QED BY <1>1, <1>2, <1>3, LegacySteps

\* With one socket at a time, and none cut short, Redis knows the user under the socket that is
\* connected, and has it in exactly the rooms it has joined.
THEOREM OrderlyAlwaysExact == LegacySpec => []OrderlyStateExact
<1> DEFINE IInv == LegacyTyped /\ SocketsOwn /\ QuietInv /\ OrderlyInv
<1>1. LegacyInit => IInv
  <2> HAVE LegacyInit
  <2>1. LegacyTyped
    BY LegacyTypedInit
  <2>2. SocketsOwn
    BY LegacySocketsConstants DEF LegacyInit, SocketsOwn
  <2>3. ASSUME NEW u \in Members PROVE Cleared(u) /\ Orderly(u)
    BY <2>3 DEF LegacyInit, Cleared, Orderly, Over, SessionsOf, Removing
  <2> QED BY <2>1, <2>2, <2>3 DEF QuietInv, OrderlyInv, LegacyInit
<1>2. IInv /\ [LegacyNext]_legacyVars => IInv'
  BY LegacyTypedStep, QuietStep, OrderlyStep
<1>3. IInv => OrderlyStateExact
  <2> SUFFICES ASSUME IInv, NEW u \in Members \ (cut \cup overlapped), NEW s \in SessionsOf(u),
                      Listening(s)
               PROVE  /\ u \in online /\ userSocket[u] = s /\ socketUser[s] = u
                      /\ userRooms[u] = inRooms[s]
                      /\ {r \in Halls : u \in roomUsers[r]} = inRooms[s]
    BY DEF OrderlyStateExact
  <2>1. Orderly(u) /\ Cleared(u) /\ hand[s] = "ready" /\ s \in wired /\ userRooms[u] \subseteq Halls
    BY DEF OrderlyInv, QuietInv, Listening, LegacyTyped
  <2>2. /\ u \in online /\ userSocket[u] = s /\ socketUser[s] = u
        /\ userRooms[u] = inRooms[s]
    BY <2>1 DEF Orderly
  <2>3. \A r \in Halls : u \in roomUsers[r] <=> r \in userRooms[u]
    BY <2>1 DEF Cleared
  <2> QED BY <2>1, <2>2, <2>3
<1> QED BY <1>1, <1>2, <1>3, PTL DEF LegacySpec

-----------------------------------------------------------------------------
(* LegacyTasks *)

Stages == {"none", "limiter", "permission", "count", "create", "cache", "aggregate", "store",
           "answered", "done", "refused"}

Seen == [by : TaskRequests, at : Nat]

TasksTyped ==
    /\ clock \in Nat /\ entriesGo \in Nat
    /\ doing \in [TaskRequests -> Stages] /\ stamp \in [TaskRequests -> Nat]
    /\ body \in [TaskRequests -> Bodies \cup {Reading}]
    /\ \A r \in TaskRequests : stamp[r] <= clock
    /\ entries \subseteq Seen /\ IsFiniteSet(entries)
    /\ admitted \subseteq Seen /\ IsFiniteSet(admitted)
    /\ \A e \in entries \cup admitted : doing[e.by] \notin {"none", "limiter"}
    /\ IsFiniteSet(tasks) /\ \A t \in tasks : t.since \in Nat /\ t.since <= clock
    /\ found \in [TaskRequests -> [Statuses -> Nat]]
    /\ \A c \in cached : c.value \in [Statuses -> Nat] /\ c.until \in Nat

WithStatus(ts, s) == {t \in ts : (t.body.owned \/ t.body.included) /\ t.body.status = s}
Before(ts, s, time) == {t \in WithStatus(ts, s) : t.since < time}

\* Statistics once aggregated miss no task that was older then.
StatisticsInv ==
    /\ \A r \in TaskRequests, s \in Statuses : found[r][s] <= Cardinality(WithStatus(tasks, s))
    /\ \A c \in cached, s \in Statuses : c.value[s] <= Cardinality(WithStatus(tasks, s))
    /\ \A r \in TaskRequests : doing[r] = "store" =>
        \A s \in Statuses : found[r][s] >= Cardinality(Before(tasks, s, stamp[r]))
    /\ \A c \in cached : c.until <= clock + StatisticsTtl
    /\ ~slow => \A c \in cached, s \in Statuses :
        c.value[s] >= Cardinality(Before(tasks, s, c.until - StatisticsTtl))
    /\ ~slow => \A r \in TaskRequests : doing[r] = "answered" =>
        \A s \in Statuses : found[r][s] >= Cardinality(Before(tasks, s, stamp[r] - StatisticsTtl))

OnDay(ts, day) == {t \in ts : t.body.owned /\ t.body.day = day}

\* A creation that was let through counts for its day until another one is done.
DailyInv ==
    /\ \A r \in TaskRequests : doing[r] = "create" /\ LimitedPerDay(body[r]) /\ r \notin raced =>
        Cardinality(OnDay(tasks, body[r].day)) < DailyLimit
    /\ \A t \in tasks : LimitedPerDay(t.body) /\ ~t.raced => t.before < DailyLimit

Since(es, time) == {e \in es : e.at > time}
WindowIn(as, a) == {b \in as : a.at - Window < b.at /\ b.at <= a.at}

\* The key outlives the window of every request that was let through. One of them is missing
\* from the set only when a refused request purged it; until its window is over the requests
\* that are still in the set are enough to have others refused.
LimiterInv ==
    ~misled =>
        /\ \A b \in admitted : b.at + Window <= entriesGo
        /\ \A b \in admitted \ entries, time \in Nat :
            time < b.at + Window /\ (\A a \in admitted : a.at <= time) =>
                Cardinality(Since(entries, time - Window)) >= Max
        /\ \A a \in admitted : Cardinality(WindowIn(admitted, a)) <= Max

\* EXPIREAT rounds up.
LEMMA CeilRoundsUp ==
    ASSUME NEW t \in Nat, NEW n \in Nat \ {0}
    PROVE  ((t + n - 1) \div n) * n \in Nat /\ ((t + n - 1) \div n) * n >= t
<1>1. (t + n - 1) \div n \in Nat
  OBVIOUS
<1>2. (t + n - 1) % n <= n - 1 /\ (t + n - 1) % n \in Nat
  OBVIOUS
<1>3. t + n - 1 = ((t + n - 1) \div n) * n + ((t + n - 1) % n)
  OBVIOUS
<1> DEFINE d == ((t + n - 1) \div n) * n
<1>4. d \in Nat
  BY <1>1
<1> QED BY <1>2, <1>3, <1>4

\* A request moves on: nothing of the others changes, and of its own only where it stands.
LEMMA ProceedTyped ==
    ASSUME TasksTyped, NEW r \in TaskRequests, NEW to \in Stages \ {"none", "limiter"}, Proceed(r, to)
    PROVE  /\ doing' \in [TaskRequests -> Stages] /\ doing'[r] = to
           /\ \A q \in TaskRequests \ {r} : doing'[q] = doing[q]
           /\ stamp' \in [TaskRequests -> Nat] /\ body' \in [TaskRequests -> Bodies \cup {Reading}]
           /\ \A q \in TaskRequests : stamp'[q] = stamp[q] \/ (q = r /\ stamp'[q] = 0)
           /\ \A q \in TaskRequests \ {r} : stamp'[q] = stamp[q] /\ body'[q] = body[q]
           /\ to \notin {"done", "refused"} => UNCHANGED <<body, stamp>>
<1>1. doing' = [doing EXCEPT ![r] = to]
  BY DEF Proceed
<1>2. \/ body' = [body EXCEPT ![r] = Reading] /\ stamp' = [stamp EXCEPT ![r] = 0]
      \/ UNCHANGED <<body, stamp>>
  BY DEF Proceed
<1>3. stamp' \in [TaskRequests -> Nat] /\ body' \in [TaskRequests -> Bodies \cup {Reading}]
  <2>1. stamp \in [TaskRequests -> Nat] /\ body \in [TaskRequests -> Bodies \cup {Reading}]
    BY DEF TasksTyped
  <2>2. stamp' \in [TaskRequests -> Nat]
    BY <1>2, <2>1
  <2>3. body' \in [TaskRequests -> Bodies \cup {Reading}]
    BY <1>2, <2>1
  <2> QED BY <2>2, <2>3
<1>4. /\ \A q \in TaskRequests : stamp'[q] = stamp[q] \/ (q = r /\ stamp'[q] = 0)
      /\ \A q \in TaskRequests \ {r} : stamp'[q] = stamp[q] /\ body'[q] = body[q]
  BY <1>2 DEF TasksTyped
<1>5. doing' \in [TaskRequests -> Stages] /\ doing'[r] = to
      /\ \A q \in TaskRequests \ {r} : doing'[q] = doing[q]
  BY <1>1 DEF TasksTyped
<1>6. to \notin {"done", "refused"} => UNCHANGED <<body, stamp>>
  BY DEF Proceed
<1> QED BY <1>3, <1>4, <1>5, <1>6


LEMMA CountedTyped ==
    ASSUME TasksTyped, NEW r \in TaskRequests
    PROVE  /\ Counted(r) \subseteq Seen /\ IsFiniteSet(Counted(r))
           /\ \A e \in Counted(r) : e \in entries \/ (e.by = r /\ e.at = stamp[r])
           /\ Ceil(stamp[r] + Window) \in Nat /\ Ceil(stamp[r] + Window) >= stamp[r] + Window
<1>1. Ceil(stamp[r] + Window) \in Nat /\ Ceil(stamp[r] + Window) >= stamp[r] + Window
  <2>1. stamp[r] + Window \in Nat /\ Second \in Nat \ {0}
    BY LegacyTasksConstants DEF TasksTyped
  <2> QED BY <2>1, CeilRoundsUp DEF Ceil
<1>2. /\ Counted(r) \subseteq entries \cup {[by |-> r, at |-> stamp[r]]}
      /\ [by |-> r, at |-> stamp[r]] \in Seen
  BY DEF Counted, TasksTyped, Seen
<1>3. IsFiniteSet(entries \cup {[by |-> r, at |-> stamp[r]]})
  BY FS_AddElement DEF TasksTyped
<1>4. IsFiniteSet(Counted(r))
  BY <1>2, <1>3, FS_Subset
<1> QED BY <1>1, <1>2, <1>4 DEF TasksTyped

\* What the requests have counted, created and cached stays in type while they move on.
LEMMA TypedFrame ==
    ASSUME TasksTyped, NEW r \in TaskRequests, NEW to \in Stages \ {"none", "limiter"},
           doing' = [doing EXCEPT ![r] = to],
           stamp' \in [TaskRequests -> Nat], body' \in [TaskRequests -> Bodies \cup {Reading}],
           \A q \in TaskRequests : stamp'[q] <= clock, clock' = clock,
           entriesGo' \in Nat, entries' \subseteq Seen, IsFiniteSet(entries'),
           admitted' \subseteq Seen, IsFiniteSet(admitted'),
           \A e \in entries' \cup admitted' : e \in entries \cup admitted \/ e.by = r,
           IsFiniteSet(tasks'), \A t \in tasks' : t.since \in Nat /\ t.since <= clock,
           found' \in [TaskRequests -> [Statuses -> Nat]],
           \A c \in cached' : c.value \in [Statuses -> Nat] /\ c.until \in Nat
    PROVE  TasksTyped'
<1>1. doing' \in [TaskRequests -> Stages] /\ \A q \in TaskRequests : doing'[q] = IF q = r THEN to ELSE doing[q]
  BY DEF TasksTyped
<1>2. \A e \in entries' \cup admitted' : doing'[e.by] \notin {"none", "limiter"}
  BY <1>1 DEF TasksTyped, Seen
<1> QED BY <1>1, <1>2 DEF TasksTyped, Seen, Stages, Statuses

LEMMA LimiterTyped ==
    ASSUME TasksTyped, NEW r \in TaskRequests, RateLimiter(r) \/ RateLimiterFailsOpen(r)
    PROVE  TasksTyped'
<1>1. /\ clock \in Nat /\ clock' = clock /\ \A q \in TaskRequests : stamp[q] <= clock
      /\ entries \subseteq Seen /\ IsFiniteSet(entries) /\ admitted \subseteq Seen /\ IsFiniteSet(admitted)
      /\ stamp \in [TaskRequests -> Nat] /\ entriesGo \in Nat
      /\ UNCHANGED <<tasks, cached, found>> /\ IsFiniteSet(tasks)
      /\ \A t \in tasks : t.since \in Nat /\ t.since <= clock
      /\ found \in [TaskRequests -> [Statuses -> Nat]]
      /\ \A c \in cached : c.value \in [Statuses -> Nat] /\ c.until \in Nat
  BY DEF TasksTyped, RateLimiter, RateLimiterFailsOpen
<1>2. PICK to \in Stages \ {"none", "limiter"} : Proceed(r, to)
  <2>1. {"refused", Onwards(r)} \subseteq Stages \ {"none", "limiter"}
    BY DEF Onwards, Stages
  <2> QED BY <2>1 DEF RateLimiter, RateLimiterFailsOpen
<1>3. /\ entries' \subseteq Seen /\ IsFiniteSet(entries') /\ entriesGo' \in Nat
      /\ \A e \in entries' : e \in entries \/ e.by = r
  <2>1. CheckRateLimit(r) \/ UNCHANGED <<entries, entriesGo>>
    BY DEF RateLimiter, RateLimiterFailsOpen
  <2> QED BY <1>1, <2>1, CountedTyped DEF CheckRateLimit
<1>4. /\ admitted' \subseteq Seen /\ IsFiniteSet(admitted')
      /\ \A e \in admitted' : e \in admitted \/ e.by = r
  <2>1. admitted' = admitted \/ admitted' = {} \/ admitted' = admitted \cup {[by |-> r, at |-> stamp[r]]}
    BY DEF RateLimiter, RateLimiterFailsOpen
  <2>2. IsFiniteSet(admitted \cup {[by |-> r, at |-> stamp[r]]}) /\ IsFiniteSet({})
    BY <1>1, FS_AddElement, FS_EmptySet
  <2>3. [by |-> r, at |-> stamp[r]] \in Seen
    BY <1>1 DEF Seen
  <2>4. IsFiniteSet(admitted')
    BY <1>1, <2>1, <2>2, Zenon
  <2> QED BY <1>1, <2>1, <2>3, <2>4
<1>5. /\ doing' = [doing EXCEPT ![r] = to]
      /\ stamp' \in [TaskRequests -> Nat] /\ body' \in [TaskRequests -> Bodies \cup {Reading}]
      /\ \A q \in TaskRequests : stamp'[q] <= clock
  <2>1. doing' = [doing EXCEPT ![r] = to]
    BY <1>2 DEF Proceed
  <2>2. /\ stamp' \in [TaskRequests -> Nat] /\ body' \in [TaskRequests -> Bodies \cup {Reading}]
        /\ \A q \in TaskRequests : stamp'[q] = stamp[q] \/ (q = r /\ stamp'[q] = 0)
    BY <1>2, ProceedTyped
  <2> QED BY <1>1, <2>1, <2>2
<1> QED BY <1>1, <1>3, <1>4, <1>5, TypedFrame

\* The tasks of a user by status or by day are finitely many, and a creation adds to them.
LEMMA TasksAreFinite ==
    ASSUME TasksTyped
    PROVE  /\ \A s : IsFiniteSet(WithStatus(tasks, s)) /\ Cardinality(WithStatus(tasks, s)) \in Nat
           /\ \A s, time : /\ IsFiniteSet(Before(tasks, s, time)) /\ Cardinality(Before(tasks, s, time)) \in Nat
                           /\ Cardinality(Before(tasks, s, time)) <= Cardinality(WithStatus(tasks, s))
           /\ \A day : IsFiniteSet(OwnTasksOf(day)) /\ Cardinality(OwnTasksOf(day)) \in Nat
<1>1. IsFiniteSet(tasks)
  BY DEF TasksTyped
<1>2. \A s : WithStatus(tasks, s) \subseteq tasks /\ \A time : Before(tasks, s, time) \subseteq WithStatus(tasks, s)
  BY DEF WithStatus, Before
<1>3. \A day : OwnTasksOf(day) \subseteq tasks
  BY DEF OwnTasksOf
<1>4. \A s : IsFiniteSet(WithStatus(tasks, s))
  BY <1>1, <1>2, FS_Subset
<1> QED BY <1>1, <1>2, <1>3, <1>4, FS_Subset, FS_CardinalityType

LEMMA CreationTyped ==
    ASSUME TasksTyped, NEW r \in TaskRequests,
           \/ (\E asks \in Bodies \cup {Reading} : Call(r, asks)) \/ CheckSecondaryUserPermission(r)
           \/ CheckDailyTaskLimit(r) \/ Create(r) \/ CreateTaskFails(r)
    PROVE  TasksTyped'
<1>0. /\ clock \in Nat /\ \A q \in TaskRequests : stamp[q] <= clock
      /\ entries \subseteq Seen /\ IsFiniteSet(entries) /\ admitted \subseteq Seen /\ IsFiniteSet(admitted)
      /\ stamp \in [TaskRequests -> Nat] /\ entriesGo \in Nat /\ IsFiniteSet(tasks)
      /\ \A t \in tasks : t.since \in Nat /\ t.since <= clock
      /\ found \in [TaskRequests -> [Statuses -> Nat]]
      /\ \A c \in cached : c.value \in [Statuses -> Nat] /\ c.until \in Nat
  BY DEF TasksTyped
<1>1. ASSUME NEW asks \in Bodies \cup {Reading}, Call(r, asks) PROVE TasksTyped'
  <2>1. /\ doing[r] = "none" /\ doing' = [doing EXCEPT ![r] = "limiter"]
        /\ stamp' = [stamp EXCEPT ![r] = clock] /\ body' = [body EXCEPT ![r] = asks]
        /\ UNCHANGED <<clock, entries, entriesGo, admitted, tasks, cached, found>>
    BY <1>1 DEF Call, limits
  <2>2. doing' \in [TaskRequests -> Stages] /\ stamp' \in [TaskRequests -> Nat]
    BY <1>0, <2>1 DEF TasksTyped, Stages
  <2>3. body' \in [TaskRequests -> Bodies \cup {Reading}]
    BY <2>1 DEF TasksTyped
  <2>4. \A q \in TaskRequests : stamp'[q] <= clock
    BY <1>0, <2>1
  <2>5. \A e \in entries \cup admitted : e.by \in TaskRequests /\ e.by # r
    BY <2>1 DEF TasksTyped, Seen
  <2>6. \A e \in entries \cup admitted : doing'[e.by] \notin {"none", "limiter"}
    BY <2>1, <2>5 DEF TasksTyped
  <2> QED BY <1>0, <2>1, <2>2, <2>3, <2>4, <2>6 DEF TasksTyped, Seen, Stages, Statuses
<1>2. ASSUME NEW to \in Stages \ {"none", "limiter"}, Proceed(r, to),
             UNCHANGED <<clock, limits, cached, found>>,
             IsFiniteSet(tasks'), \A t \in tasks' : t.since \in Nat /\ t.since <= clock
      PROVE  TasksTyped'
  <2>1. doing' = [doing EXCEPT ![r] = to]
    BY <1>2 DEF Proceed
  <2>2. /\ stamp' \in [TaskRequests -> Nat] /\ body' \in [TaskRequests -> Bodies \cup {Reading}]
        /\ \A q \in TaskRequests : stamp'[q] = stamp[q] \/ (q = r /\ stamp'[q] = 0)
    BY <1>2, ProceedTyped
  <2>3. /\ UNCHANGED <<clock, entries, entriesGo, admitted, cached, found>>
        /\ \A q \in TaskRequests : stamp'[q] <= clock
    BY <1>0, <1>2, <2>2 DEF limits
  <2> QED BY <1>0, <1>2, <2>1, <2>2, <2>3, TypedFrame
<1>3. CASE CheckSecondaryUserPermission(r) \/ CheckDailyTaskLimit(r) \/ CreateTaskFails(r)
  <2>1. \E to \in {"refused", "count", "create"} : Proceed(r, to)
    BY <1>3 DEF CheckSecondaryUserPermission, CheckDailyTaskLimit, CreateTaskFails
  <2>2. UNCHANGED <<clock, limits, cached, found, tasks>>
    BY <1>3 DEF CheckSecondaryUserPermission, CheckDailyTaskLimit, CreateTaskFails
  <2>3. {"refused", "count", "create"} \subseteq Stages \ {"none", "limiter"}
    BY DEF Stages
  <2> QED BY <1>0, <1>2, <2>1, <2>2, <2>3
<1>4. CASE Create(r)
  <2>1. PICK row : row.since = clock /\ tasks' = tasks \cup {row}
    BY <1>4 DEF Create
  <2>2. IsFiniteSet(tasks')
    BY <1>0, <2>1, FS_AddElement
  <2>3. Proceed(r, "done") /\ UNCHANGED <<clock, limits, cached, found>> /\ "done" \in Stages \ {"none", "limiter"}
    BY <1>4 DEF Create, Stages
  <2> QED BY <1>0, <1>2, <2>1, <2>2, <2>3
<1> QED BY <1>1, <1>3, <1>4

LEMMA ReadingTyped ==
    ASSUME TasksTyped, NEW r \in TaskRequests, GetFromCache(r) \/ GetTaskStatistics(r) \/ SetInCache(r)
    PROVE  TasksTyped'
<1>0. /\ clock \in Nat /\ \A q \in TaskRequests : stamp[q] <= clock
      /\ entries \subseteq Seen /\ IsFiniteSet(entries) /\ admitted \subseteq Seen /\ IsFiniteSet(admitted)
      /\ stamp \in [TaskRequests -> Nat] /\ entriesGo \in Nat /\ IsFiniteSet(tasks)
      /\ body \in [TaskRequests -> Bodies \cup {Reading}]
      /\ \A t \in tasks : t.since \in Nat /\ t.since <= clock
      /\ found \in [TaskRequests -> [Statuses -> Nat]]
      /\ \A c \in cached : c.value \in [Statuses -> Nat] /\ c.until \in Nat
  BY DEF TasksTyped
<1>1. /\ UNCHANGED <<clock, entries, entriesGo, admitted, tasks, body>>
      /\ stamp' = [stamp EXCEPT ![r] = clock] \/ stamp' = stamp
  BY DEF GetFromCache, GetTaskStatistics, SetInCache, limits
<1>2. PICK to \in {"answered", "aggregate", "store"} : doing' = [doing EXCEPT ![r] = to]
  BY DEF GetFromCache, GetTaskStatistics, SetInCache
<1>3. \E value \in [Statuses -> Nat] : found' = [found EXCEPT ![r] = value] \/ found' = found
  <2>1. Statistics \in [Statuses -> Nat]
    BY TasksAreFinite DEF Statistics, WithStatus, TasksWith
  <2> QED BY <1>0, <2>1 DEF GetFromCache, GetTaskStatistics, SetInCache
<1>4. found' \in [TaskRequests -> [Statuses -> Nat]]
  BY <1>0, <1>3
<1>5. \A c \in cached' : c.value \in [Statuses -> Nat] /\ c.until \in Nat
  <2>1. CASE cached' = cached
    BY <1>0, <2>1
  <2>2. CASE cached' = {[value |-> found[r], until |-> clock + StatisticsTtl]}
    BY <1>0, <2>2, LegacyTasksConstants
  <2> QED BY <2>1, <2>2 DEF GetFromCache, GetTaskStatistics, SetInCache
<1>6. stamp' \in [TaskRequests -> Nat] /\ \A q \in TaskRequests : stamp'[q] <= clock
  <2>1. CASE stamp' = stamp
    BY <1>0, <2>1
  <2>2. CASE stamp' = [stamp EXCEPT ![r] = clock]
    BY <1>0, <2>2
  <2> QED BY <1>1, <2>1, <2>2
<1>7. to \in Stages \ {"none", "limiter"}
  BY <1>2 DEF Stages
<1> QED BY <1>0, <1>1, <1>2, <1>4, <1>5, <1>6, <1>7, TypedFrame

\* A creation leaves what was there before as it was.
LEMMA CreationAdds ==
    ASSUME TasksTyped, NEW r \in TaskRequests, Create(r)
    PROVE  /\ \A s : Cardinality(WithStatus(tasks, s)) <= Cardinality(WithStatus(tasks', s))
           /\ \A s : \A time \in Int : time <= clock => Before(tasks', s, time) = Before(tasks, s, time)
<1>1. TasksTyped'
  BY CreationTyped
<1>2. PICK row : row.since = clock /\ tasks' = tasks \cup {row}
  BY DEF Create
<1>3. \A s : WithStatus(tasks, s) \subseteq WithStatus(tasks', s)
  BY <1>2 DEF WithStatus
<1>4. \A s : IsFiniteSet(WithStatus(tasks', s))
  <2>1. IsFiniteSet(tasks')
    BY <1>1 DEF TasksTyped
  <2>2. \A s : WithStatus(tasks', s) \subseteq tasks'
    BY DEF WithStatus
  <2> QED BY <2>1, <2>2, FS_Subset
<1>5. \A s : Cardinality(WithStatus(tasks, s)) <= Cardinality(WithStatus(tasks', s))
  BY <1>3, <1>4, FS_Subset
<1>6. clock \in Nat
  BY DEF TasksTyped
<1>7. \A s : \A time \in Int : time <= clock => Before(tasks', s, time) = Before(tasks, s, time)
  <2> SUFFICES ASSUME NEW s, NEW time \in Int, time <= clock
               PROVE  Before(tasks', s, time) = Before(tasks, s, time)
    OBVIOUS
  <2>1. ~(row.since < time)
    BY <1>2, <1>6
  <2> QED BY <1>2, <2>1 DEF Before, WithStatus
<1> QED BY <1>5, <1>7

\* What was aggregated and cached stays right while tasks are only added.
LEMMA StatisticsFrame ==
    ASSUME TasksTyped, StatisticsInv, UNCHANGED <<cached, found, slow>>,
           clock' \in Nat, clock <= clock',
           \A s : Cardinality(WithStatus(tasks, s)) <= Cardinality(WithStatus(tasks', s)),
           \A s : Cardinality(WithStatus(tasks', s)) \in Nat,
           \A s : \A time \in Int : time <= clock => Before(tasks', s, time) = Before(tasks, s, time),
           \A q \in TaskRequests : doing'[q] \in {"store", "answered"} =>
                doing'[q] = doing[q] /\ stamp'[q] = stamp[q]
    PROVE  StatisticsInv'
<1>0. /\ clock \in Nat /\ \A q \in TaskRequests : stamp[q] \in Nat /\ stamp[q] <= clock
      /\ \A q \in TaskRequests, s \in Statuses : found[q][s] \in Nat
      /\ \A c \in cached : c.value \in [Statuses -> Nat] /\ c.until \in Nat
      /\ StatisticsTtl \in Nat
      /\ \A s : Cardinality(WithStatus(tasks, s)) \in Nat
  <2>1. \A s : Cardinality(WithStatus(tasks, s)) \in Nat
    BY TasksAreFinite
  <2>2. StatisticsTtl \in Nat
    BY LegacyTasksConstants
  <2> QED BY <2>1, <2>2 DEF TasksTyped
<1>1. Statuses' = Statuses
  BY DEF Statuses
<1>2. /\ \A q \in TaskRequests, s \in Statuses : found'[q][s] <= Cardinality(WithStatus(tasks', s))
      /\ \A c \in cached', s \in Statuses : c.value[s] <= Cardinality(WithStatus(tasks', s))
  BY <1>0 DEF StatisticsInv
<1>3. \A q \in TaskRequests : doing'[q] = "store" =>
        \A s \in Statuses : found'[q][s] >= Cardinality(Before(tasks', s, stamp'[q]))
  <2> SUFFICES ASSUME NEW q \in TaskRequests, doing'[q] = "store", NEW s \in Statuses
               PROVE  found'[q][s] >= Cardinality(Before(tasks', s, stamp'[q]))
    OBVIOUS
  <2>1. doing[q] = "store" /\ stamp'[q] = stamp[q]
    OBVIOUS
  <2>2. Before(tasks', s, stamp'[q]) = Before(tasks, s, stamp[q])
    BY <1>0, <2>1
  <2> QED BY <2>1, <2>2 DEF StatisticsInv
<1>4. \A c \in cached' : c.until <= clock' + StatisticsTtl
  BY <1>0 DEF StatisticsInv
<1>5. ~slow' => \A c \in cached', s \in Statuses :
        c.value[s] >= Cardinality(Before(tasks', s, c.until - StatisticsTtl))
  BY <1>0 DEF StatisticsInv
<1>6. ~slow' => \A q \in TaskRequests : doing'[q] = "answered" =>
        \A s \in Statuses : found'[q][s] >= Cardinality(Before(tasks', s, stamp'[q] - StatisticsTtl))
  <2> SUFFICES ASSUME ~slow, NEW q \in TaskRequests, doing'[q] = "answered", NEW s \in Statuses
               PROVE  found'[q][s] >= Cardinality(Before(tasks', s, stamp'[q] - StatisticsTtl))
    OBVIOUS
  <2>1. doing[q] = "answered" /\ stamp'[q] = stamp[q]
    OBVIOUS
  <2>2. Before(tasks', s, stamp'[q] - StatisticsTtl) = Before(tasks, s, stamp[q] - StatisticsTtl)
    BY <1>0, <2>1
  <2> QED BY <2>1, <2>2 DEF StatisticsInv
<1> QED BY <1>1, <1>2, <1>3, <1>4, <1>5, <1>6 DEF StatisticsInv

LEMMA StatisticsStep ==
    ASSUME TasksTyped, TasksTyped', StatisticsInv, NEW r \in TaskRequests,
           GetFromCache(r) \/ GetTaskStatistics(r) \/ SetInCache(r)
    PROVE  StatisticsInv'
<1>0. /\ clock \in Nat /\ \A q \in TaskRequests : stamp[q] \in Nat /\ stamp[q] <= clock
      /\ \A q \in TaskRequests, s \in Statuses : found[q][s] \in Nat
      /\ \A c \in cached : c.value \in [Statuses -> Nat] /\ c.until \in Nat
      /\ StatisticsTtl \in Nat \ {0}
      /\ \A s, time : /\ Cardinality(WithStatus(tasks, s)) \in Nat
                      /\ Cardinality(Before(tasks, s, time)) \in Nat
                      /\ Cardinality(Before(tasks, s, time)) <= Cardinality(WithStatus(tasks, s))
      /\ Statuses' = Statuses
  <2>1. \A s, time : /\ Cardinality(WithStatus(tasks, s)) \in Nat
                     /\ Cardinality(Before(tasks, s, time)) \in Nat
                     /\ Cardinality(Before(tasks, s, time)) <= Cardinality(WithStatus(tasks, s))
    BY TasksAreFinite
  <2>2. StatisticsTtl \in Nat \ {0}
    BY LegacyTasksConstants
  <2>3. Statuses' = Statuses
    BY DEF Statuses
  <2> QED BY <2>1, <2>2, <2>3 DEF TasksTyped
<1>1. ASSUME UNCHANGED <<clock, tasks>>, slow => slow',
             \A q \in TaskRequests \ {r} : doing'[q] = doing[q] /\ stamp'[q] = stamp[q] /\ found'[q] = found[q],
             \A s \in Statuses : found'[r][s] <= Cardinality(WithStatus(tasks, s)),
             doing'[r] = "store" =>
                \A s \in Statuses : found'[r][s] >= Cardinality(Before(tasks, s, stamp'[r])),
             ~slow' /\ doing'[r] = "answered" =>
                \A s \in Statuses : found'[r][s] >= Cardinality(Before(tasks, s, stamp'[r] - StatisticsTtl)),
             \A c \in cached' : c \in cached \/
                /\ c.until = clock + StatisticsTtl
                /\ \A s \in Statuses : c.value[s] <= Cardinality(WithStatus(tasks, s))
                /\ ~slow' => \A s \in Statuses : c.value[s] >= Cardinality(Before(tasks, s, c.until - StatisticsTtl))
      PROVE  StatisticsInv'
  <2>1. /\ \A q \in TaskRequests, s \in Statuses : found'[q][s] <= Cardinality(WithStatus(tasks', s))
        /\ \A c \in cached', s \in Statuses : c.value[s] <= Cardinality(WithStatus(tasks', s))
    BY <1>0, <1>1 DEF StatisticsInv
  <2>2. \A q \in TaskRequests : doing'[q] = "store" =>
            \A s \in Statuses : found'[q][s] >= Cardinality(Before(tasks', s, stamp'[q]))
    BY <1>0, <1>1 DEF StatisticsInv
  <2>3. \A c \in cached' : c.until <= clock' + StatisticsTtl
    BY <1>0, <1>1 DEF StatisticsInv
  <2>4. ~slow' => \A c \in cached', s \in Statuses :
            c.value[s] >= Cardinality(Before(tasks', s, c.until - StatisticsTtl))
    BY <1>0, <1>1 DEF StatisticsInv
  <2>5. ~slow' => \A q \in TaskRequests : doing'[q] = "answered" =>
            \A s \in Statuses : found'[q][s] >= Cardinality(Before(tasks', s, stamp'[q] - StatisticsTtl))
    BY <1>0, <1>1 DEF StatisticsInv
  <2> QED BY <1>0, <2>1, <2>2, <2>3, <2>4, <2>5 DEF StatisticsInv
<1>2. /\ UNCHANGED <<clock, tasks>> /\ (slow => slow')
      /\ \A q \in TaskRequests \ {r} :
            doing'[q] = doing[q] /\ stamp'[q] = stamp[q] /\ found'[q] = found[q]
  <2>1. slow => slow'
    BY Zenon DEF GetFromCache, GetTaskStatistics, SetInCache
  <2>2. UNCHANGED <<clock, tasks>>
    BY DEF GetFromCache, GetTaskStatistics, SetInCache
  <2>3. /\ \E to : doing' = [doing EXCEPT ![r] = to]
        /\ stamp' = stamp \/ stamp' = [stamp EXCEPT ![r] = clock]
        /\ found' = found \/ \E value : found' = [found EXCEPT ![r] = value]
    BY DEF GetFromCache, GetTaskStatistics, SetInCache
  <2>4. \A q \in TaskRequests \ {r} : doing'[q] = doing[q]
    BY <2>3 DEF TasksTyped
  <2>5. \A q \in TaskRequests \ {r} : stamp'[q] = stamp[q]
    BY <2>3 DEF TasksTyped
  <2>6. \A q \in TaskRequests \ {r} : found'[q] = found[q]
    BY <2>3 DEF TasksTyped
  <2> QED BY <2>1, <2>2, <2>4, <2>5, <2>6
<1>3. CASE GetFromCache(r)
  <2>1. CASE doing' = [doing EXCEPT ![r] = "aggregate"] /\ found' = found
    <3>1. doing'[r] = "aggregate" /\ cached' = cached
      BY <1>3, <2>1 DEF GetFromCache, TasksTyped
    <3> QED BY <1>0, <1>1, <1>2, <2>1, <3>1 DEF StatisticsInv
  <2>2. ASSUME NEW c \in cached, clock < c.until, found' = [found EXCEPT ![r] = c.value],
               doing' = [doing EXCEPT ![r] = "answered"]
        PROVE  StatisticsInv'
    <3>1. doing'[r] = "answered" /\ found'[r] = c.value /\ stamp'[r] = clock /\ cached' = cached /\ slow' = slow
      BY <1>3, <2>2 DEF GetFromCache, TasksTyped
    <3>2. ASSUME NEW s \in Statuses, ~slow
          PROVE  c.value[s] >= Cardinality(Before(tasks, s, clock - StatisticsTtl))
      <4>1. Before(tasks, s, clock - StatisticsTtl) \subseteq Before(tasks, s, c.until - StatisticsTtl)
        BY <1>0, <2>2 DEF Before, WithStatus, TasksTyped
      <4>2. Cardinality(Before(tasks, s, clock - StatisticsTtl))
                <= Cardinality(Before(tasks, s, c.until - StatisticsTtl))
        BY <4>1, TasksAreFinite, FS_Subset
      <4>3. c.value[s] >= Cardinality(Before(tasks, s, c.until - StatisticsTtl)) /\ c.value[s] \in Nat
        BY <1>0, <3>2 DEF StatisticsInv
      <4> QED BY <1>0, <4>2, <4>3
    <3>3. \A s \in Statuses : found'[r][s] <= Cardinality(WithStatus(tasks, s))
      BY <3>1 DEF StatisticsInv
    <3>4. ~slow' => \A s \in Statuses :
            found'[r][s] >= Cardinality(Before(tasks, s, stamp'[r] - StatisticsTtl))
      BY <3>1, <3>2
    <3>5. doing'[r] # "store" /\ \A k \in cached' : k \in cached
      BY <3>1
    <3> QED BY <1>1, <1>2, <3>3, <3>4, <3>5
  <2> QED BY <1>3, <2>1, <2>2 DEF GetFromCache
<1>4. CASE GetTaskStatistics(r)
  <2>1. /\ doing'[r] = "store" /\ stamp'[r] = clock /\ cached' = cached
        /\ \A s \in Statuses : found'[r][s] = Cardinality(WithStatus(tasks, s))
    BY <1>4 DEF GetTaskStatistics, TasksTyped, Statistics, WithStatus, TasksWith
  <2>2. \A s \in Statuses : /\ found'[r][s] <= Cardinality(WithStatus(tasks, s))
                            /\ found'[r][s] >= Cardinality(Before(tasks, s, stamp'[r]))
    <3> SUFFICES ASSUME NEW s \in Statuses
                 PROVE  /\ found'[r][s] <= Cardinality(WithStatus(tasks, s))
                        /\ found'[r][s] >= Cardinality(Before(tasks, s, stamp'[r]))
      OBVIOUS
    <3>1. found'[r][s] = Cardinality(WithStatus(tasks, s)) /\ found'[r][s] \in Nat
      BY <1>0, <2>1, Zenon
    <3>2. Cardinality(Before(tasks, s, stamp'[r])) <= Cardinality(WithStatus(tasks, s))
      BY <1>0
    <3>3. Cardinality(WithStatus(tasks, s)) \in Nat /\ Cardinality(Before(tasks, s, stamp'[r])) \in Nat
      BY <1>0
    <3> QED BY <3>1, <3>2, <3>3
  <2>3. doing'[r] # "answered" /\ \A c \in cached' : c \in cached
    BY <2>1
  <2> QED BY <1>1, <1>2, <2>2, <2>3
<1>5. CASE SetInCache(r)
  <2>1. /\ doing[r] = "store" /\ doing'[r] = "answered" /\ UNCHANGED <<found, stamp>>
        /\ ~slow' => ~(clock > stamp[r])
        /\ cached' = cached \/ cached' = {[value |-> found[r], until |-> clock + StatisticsTtl]}
    <3>1. ~slow' => ~(clock > stamp[r])
      BY <1>5, Zenon DEF SetInCache
    <3> QED BY <1>5, <3>1 DEF SetInCache, TasksTyped
  <2>2. \A s \in Statuses : found[r][s] >= Cardinality(Before(tasks, s, stamp[r]))
    BY <2>1 DEF StatisticsInv
  <2>3. ~slow' => stamp[r] = clock + StatisticsTtl - StatisticsTtl
    BY <1>0, <2>1
  <2>4. \A s \in Statuses : found[r][s] >= Cardinality(Before(tasks, s, stamp[r] - StatisticsTtl))
    <3> SUFFICES ASSUME NEW s \in Statuses
                 PROVE  found[r][s] >= Cardinality(Before(tasks, s, stamp[r] - StatisticsTtl))
      OBVIOUS
    <3>1. Before(tasks, s, stamp[r] - StatisticsTtl) \subseteq Before(tasks, s, stamp[r])
      BY <1>0 DEF Before, WithStatus, TasksTyped
    <3>2. Cardinality(Before(tasks, s, stamp[r] - StatisticsTtl)) <= Cardinality(Before(tasks, s, stamp[r]))
      BY <3>1, TasksAreFinite, FS_Subset
    <3> QED BY <1>0, <2>2, <3>2
  <2>5. \A c \in cached' : c \in cached \/
            /\ c.until = clock + StatisticsTtl
            /\ \A s \in Statuses : c.value[s] <= Cardinality(WithStatus(tasks, s))
            /\ ~slow' => \A s \in Statuses : c.value[s] >= Cardinality(Before(tasks, s, c.until - StatisticsTtl))
    <3> SUFFICES ASSUME NEW c \in cached', c \notin cached
                 PROVE  /\ c.until = clock + StatisticsTtl
                        /\ \A s \in Statuses : c.value[s] <= Cardinality(WithStatus(tasks, s))
                        /\ ~slow' => \A s \in Statuses :
                            c.value[s] >= Cardinality(Before(tasks, s, c.until - StatisticsTtl))
      OBVIOUS
    <3>1. c.until = clock + StatisticsTtl /\ c.value = found[r]
      BY <2>1
    <3>2. \A s \in Statuses : c.value[s] <= Cardinality(WithStatus(tasks, s))
      BY <3>1 DEF StatisticsInv
    <3>3. ~slow' => c.until - StatisticsTtl = stamp[r]
      BY <1>0, <2>3, <3>1
    <3> QED BY <2>2, <3>1, <3>2, <3>3
  <2> QED BY <1>0, <1>1, <1>2, <2>1, <2>4, <2>5 DEF StatisticsInv
<1> QED BY <1>3, <1>4, <1>5

LEMMA TasksTypedStep ==
    ASSUME TasksTyped, [TasksNext]_taskVars PROVE TasksTyped'
<1>1. ASSUME NEW r \in TaskRequests, CreateTask(r) \/ GetStatistics(r) PROVE TasksTyped'
  BY <1>1, CreationTyped DEF CreateTask, GetStatistics
<1>2. CASE TasksTick
  <2>1. clock' \in Nat /\ clock <= clock'
    BY <1>2 DEF TasksTick, TasksTyped
  <2>2. UNCHANGED <<entries, entriesGo, admitted, tasks, cached, doing, stamp, body, found>>
    BY <1>2 DEF TasksTick, limits
  <2>3. /\ clock \in Nat /\ \A q \in TaskRequests : stamp[q] \in Nat /\ stamp[q] <= clock
        /\ \A t \in tasks : t.since \in Nat /\ t.since <= clock
    BY DEF TasksTyped
  <2>4. (\A q \in TaskRequests : stamp[q] <= clock') /\ \A t \in tasks : t.since <= clock'
    BY <2>1, <2>3
  <2> QED BY <2>1, <2>2, <2>4 DEF TasksTyped, Seen, Stages, Statuses
<1>3. CASE UNCHANGED taskVars
  BY <1>3 DEF taskVars, limits, TasksTyped, Seen, Stages, Statuses
<1> QED BY <1>1, <1>2, <1>3, LimiterTyped, CreationTyped, ReadingTyped DEF TasksNext

LEMMA StatisticsKept ==
    ASSUME TasksTyped, TasksTyped', StatisticsInv, [TasksNext]_taskVars PROVE StatisticsInv'
<1>0. /\ clock \in Nat /\ clock' \in Nat
      /\ \A s : Cardinality(WithStatus(tasks, s)) \in Nat /\ Cardinality(WithStatus(tasks', s)) \in Nat
  <2>1. IsFiniteSet(tasks) /\ IsFiniteSet(tasks')
    BY DEF TasksTyped
  <2>2. \A s : WithStatus(tasks, s) \subseteq tasks /\ WithStatus(tasks', s) \subseteq tasks'
    BY DEF WithStatus
  <2>3. \A s : Cardinality(WithStatus(tasks, s)) \in Nat /\ Cardinality(WithStatus(tasks', s)) \in Nat
    BY <2>1, <2>2, FS_Subset, FS_CardinalityType
  <2> QED BY <2>3 DEF TasksTyped
<1>1. ASSUME UNCHANGED <<tasks, cached, found, slow>>, clock <= clock',
             \A q \in TaskRequests : doing'[q] \in {"store", "answered"} =>
                doing'[q] = doing[q] /\ stamp'[q] = stamp[q]
      PROVE  StatisticsInv'
  <2>1. \A s : Cardinality(WithStatus(tasks, s)) <= Cardinality(WithStatus(tasks', s))
    BY <1>0, <1>1
  <2>2. \A s : \A time \in Int : time <= clock => Before(tasks', s, time) = Before(tasks, s, time)
    BY <1>1
  <2> QED BY <1>0, <1>1, <2>1, <2>2, StatisticsFrame
<1>2. ASSUME NEW r \in TaskRequests, NEW to \in Stages \ {"none", "limiter", "store", "answered"},
             Proceed(r, to)
      PROVE  \A q \in TaskRequests : doing'[q] \in {"store", "answered"} =>
                doing'[q] = doing[q] /\ stamp'[q] = stamp[q]
  BY <1>2, ProceedTyped
<1>3. ASSUME NEW r \in TaskRequests, NEW asks, Call(r, asks) PROVE StatisticsInv'
  <2>1. /\ UNCHANGED <<clock, tasks, cached, found, slow>>
        /\ doing' = [doing EXCEPT ![r] = "limiter"] /\ stamp' = [stamp EXCEPT ![r] = clock]
    BY <1>3 DEF Call
  <2>2. \A q \in TaskRequests : doing'[q] \in {"store", "answered"} =>
            doing'[q] = doing[q] /\ stamp'[q] = stamp[q]
    BY <2>1 DEF TasksTyped
  <2> QED BY <1>0, <1>1, <2>1, <2>2
<1>4. ASSUME NEW r \in TaskRequests,
             \/ RateLimiter(r) \/ RateLimiterFailsOpen(r) \/ CheckSecondaryUserPermission(r)
             \/ CheckDailyTaskLimit(r) \/ CreateTaskFails(r)
      PROVE  StatisticsInv'
  <2>1. UNCHANGED <<clock, tasks, cached, found, slow>>
    BY <1>4 DEF RateLimiter, RateLimiterFailsOpen, CheckSecondaryUserPermission, CheckDailyTaskLimit,
                CreateTaskFails
  <2>2. \E to \in {"cache", "permission", "refused", "count", "create"} : Proceed(r, to)
    BY <1>4 DEF RateLimiter, RateLimiterFailsOpen, CheckSecondaryUserPermission, CheckDailyTaskLimit,
                CreateTaskFails, Onwards
  <2>3. {"cache", "permission", "refused", "count", "create"}
            \subseteq Stages \ {"none", "limiter", "store", "answered"}
    BY DEF Stages
  <2> QED BY <1>0, <1>1, <1>2, <2>1, <2>2, <2>3
<1>5. ASSUME NEW r \in TaskRequests, Create(r) PROVE StatisticsInv'
  <2>1. UNCHANGED <<clock, cached, found, slow>> /\ Proceed(r, "done")
        /\ "done" \in Stages \ {"none", "limiter", "store", "answered"}
    BY <1>5 DEF Create, Stages
  <2> QED BY <1>0, <1>2, <1>5, <2>1, CreationAdds, StatisticsFrame
<1>6. CASE TasksTick
  <2>1. UNCHANGED <<tasks, cached, found, slow, doing, stamp>> /\ clock <= clock'
    BY <1>0, <1>6 DEF TasksTick
  <2> QED BY <1>1, <2>1
<1>7. CASE UNCHANGED taskVars
  <2>1. UNCHANGED <<tasks, cached, found, slow, doing, stamp, clock>>
    BY <1>7 DEF taskVars
  <2> QED BY <1>0, <1>1, <2>1
<1> QED BY <1>3, <1>4, <1>5, <1>6, <1>7, StatisticsStep DEF TasksNext, CreateTask, GetStatistics

\* The statistics a user is answered miss no task older than their time to live.
THEOREM StatisticsAlwaysRecent == TasksSpec => []StatisticsRecent
<1>1. TasksInit => TasksTyped /\ StatisticsInv
  <2> HAVE TasksInit
  <2>1. TasksTyped
    <3>1. IsFiniteSet({})
      BY FS_EmptySet
    <3> QED BY <3>1 DEF TasksInit, TasksTyped, Stages, Statuses, Seen
  <2>2. /\ \A s : WithStatus(tasks, s) = {} /\ \A time : Before(tasks, s, time) = {}
        /\ Cardinality({}) = 0
    BY FS_EmptySet DEF TasksInit, WithStatus, Before
  <2>3. /\ cached = {} /\ \A r \in TaskRequests : doing[r] = "none"
        /\ \A r \in TaskRequests, s \in Statuses : found[r][s] = 0
    BY DEF TasksInit
  <2>4. \A r \in TaskRequests, s \in Statuses : found[r][s] <= Cardinality(WithStatus(tasks, s))
    BY <2>2, <2>3
  <2> QED BY <2>1, <2>3, <2>4 DEF StatisticsInv
<1>2. TasksTyped /\ StatisticsInv /\ [TasksNext]_taskVars => (TasksTyped /\ StatisticsInv)'
  BY TasksTypedStep, StatisticsKept
<1>3. TasksTyped /\ StatisticsInv => StatisticsRecent
  <2> SUFFICES ASSUME TasksTyped, StatisticsInv, NEW r \in TaskRequests, doing[r] = "answered",
                      NEW s \in Statuses
               PROVE  /\ found[r][s] <= Cardinality(WithStatus(tasks, s))
                      /\ ~slow => found[r][s] >=
                            Cardinality({t \in WithStatus(tasks, s) : t.since + StatisticsTtl < stamp[r]})
    BY DEF StatisticsRecent, WithStatus, TasksWith
  <2>1. \A t \in tasks : t.since + StatisticsTtl < stamp[r] <=> t.since < stamp[r] - StatisticsTtl
    BY LegacyTasksConstants DEF TasksTyped
  <2>2. {t \in WithStatus(tasks, s) : t.since + StatisticsTtl < stamp[r]}
            = Before(tasks, s, stamp[r] - StatisticsTtl)
    BY <2>1 DEF Before, WithStatus
  <2> QED BY <2>2 DEF StatisticsInv
<1> QED BY <1>1, <1>2, <1>3, PTL DEF TasksSpec

LEMMA DailyStep ==
    ASSUME TasksTyped, DailyInv, [TasksNext]_taskVars PROVE DailyInv'
<1>1. ASSUME UNCHANGED <<tasks, raced>>,
             \A q \in TaskRequests : doing'[q] = "create" =>
                \/ doing[q] = "create" /\ body'[q] = body[q]
                \/ ~LimitedPerDay(body'[q])
                \/ Cardinality(OnDay(tasks, body'[q].day)) < DailyLimit
      PROVE  DailyInv'
  BY <1>1 DEF DailyInv, LimitedPerDay, NoDay
<1>2. ASSUME NEW r \in TaskRequests, NEW to \in Stages \ {"none", "limiter"}, Proceed(r, to),
             to # "create", UNCHANGED <<tasks, raced>>
      PROVE  DailyInv'
  <2>1. \A q \in TaskRequests : doing'[q] = "create" => doing[q] = "create" /\ body'[q] = body[q]
    BY <1>2, ProceedTyped
  <2> QED BY <1>1, <1>2, <2>1
<1>3. ASSUME NEW r \in TaskRequests, NEW asks, Call(r, asks) PROVE DailyInv'
  <2>1. /\ UNCHANGED <<tasks, raced>> /\ doing' = [doing EXCEPT ![r] = "limiter"]
        /\ body' = [body EXCEPT ![r] = asks]
    BY <1>3 DEF Call
  <2>2. \A q \in TaskRequests : doing'[q] = "create" => doing[q] = "create" /\ body'[q] = body[q]
    BY <2>1 DEF TasksTyped
  <2> QED BY <1>1, <2>1, <2>2
<1>4. ASSUME NEW r \in TaskRequests, RateLimiter(r) \/ RateLimiterFailsOpen(r) \/ CreateTaskFails(r)
      PROVE  DailyInv'
  <2>1. UNCHANGED <<tasks, raced>>
    BY <1>4 DEF RateLimiter, RateLimiterFailsOpen, CreateTaskFails
  <2>2. \E to \in {"cache", "permission", "refused"} : Proceed(r, to)
    BY <1>4 DEF RateLimiter, RateLimiterFailsOpen, CreateTaskFails, Onwards
  <2>3. {"cache", "permission", "refused"} \subseteq Stages \ {"none", "limiter", "create"}
    BY DEF Stages
  <2> QED BY <1>2, <2>1, <2>2, <2>3
<1>5. ASSUME NEW r \in TaskRequests, CheckSecondaryUserPermission(r) PROVE DailyInv'
  <2>1. UNCHANGED <<tasks, raced>>
    BY <1>5 DEF CheckSecondaryUserPermission
  <2>2. PICK to \in {"refused", "count", "create"} :
            Proceed(r, to) /\ (to = "create" => ~LimitedPerDay(body[r]))
    BY <1>5 DEF CheckSecondaryUserPermission
  <2>3. to \in Stages \ {"none", "limiter"}
    BY DEF Stages
  <2>4. CASE to = "create"
    <3>1. body' = body /\ doing'[r] = to /\ \A q \in TaskRequests \ {r} : doing'[q] = doing[q]
      BY <2>2, <2>3, <2>4, ProceedTyped
    <3> QED BY <1>1, <2>1, <2>2, <2>4, <3>1
  <2> QED BY <1>2, <2>1, <2>2, <2>3, <2>4
<1>6. ASSUME NEW r \in TaskRequests, CheckDailyTaskLimit(r) PROVE DailyInv'
  <2>1. UNCHANGED <<tasks, raced>>
    BY <1>6 DEF CheckDailyTaskLimit
  <2>2. OwnTasksOf(body[r].day) = OnDay(tasks, body[r].day)
    BY DEF OwnTasksOf, OnDay
  <2>3. Cardinality(OnDay(tasks, body[r].day)) \in Nat /\ DailyLimit \in Nat
    BY <2>2, TasksAreFinite, LegacyTasksConstants
  <2>4. \/ Proceed(r, "refused")
        \/ Proceed(r, "create") /\ ~(Cardinality(OnDay(tasks, body[r].day)) >= DailyLimit)
    BY <1>6, <2>2 DEF CheckDailyTaskLimit
  <2>5. {"refused", "create"} \subseteq Stages \ {"none", "limiter"}
    BY DEF Stages
  <2>6. CASE Proceed(r, "create") /\ ~(Cardinality(OnDay(tasks, body[r].day)) >= DailyLimit)
    <3>1. body' = body /\ doing'[r] = "create" /\ \A q \in TaskRequests \ {r} : doing'[q] = doing[q]
      BY <2>5, <2>6, ProceedTyped
    <3>2. Cardinality(OnDay(tasks, body[r].day)) < DailyLimit
      BY <2>3, <2>6
    <3> QED BY <1>1, <2>1, <3>1, <3>2
  <2> QED BY <1>2, <2>1, <2>4, <2>5, <2>6
<1>7. ASSUME NEW r \in TaskRequests, Create(r) PROVE DailyInv'
  <2> DEFINE row == [by |-> r, body |-> body[r], since |-> clock, raced |-> r \in raced,
                     before |-> Cardinality(OwnTasksOf(body[r].day))]
  <2>1. /\ tasks' = tasks \cup {row} /\ row.body = body[r] /\ row.raced = (r \in raced)
        /\ row.before = Cardinality(OwnTasksOf(body[r].day))
    <3>1. tasks' = tasks \cup {row}
      BY <1>7 DEF Create
    <3> QED BY <3>1
  <2> HIDE DEF row
  <2>2. OwnTasksOf(body[r].day) = OnDay(tasks, body[r].day)
    BY DEF OwnTasksOf, OnDay
  <2>3. doing[r] = "create" /\ Proceed(r, "done")
        /\ raced' = {q \in TaskRequests \ {r} : doing[q] = "create"}
    BY <1>7 DEF Create
  <2>4. doing'[r] = "done" /\ \A q \in TaskRequests \ {r} : doing'[q] = doing[q]
    BY <2>3, ProceedTyped DEF Stages
  <2>5. \A q \in TaskRequests : doing'[q] = "create" => q \in raced'
    BY <2>3, <2>4
  <2>6. LimitedPerDay(row.body) /\ ~row.raced => row.before < DailyLimit
    <3>1. LimitedPerDay(body[r]) /\ r \notin raced => Cardinality(OnDay(tasks, body[r].day)) < DailyLimit
      BY <2>3 DEF DailyInv
    <3> QED BY <2>1, <2>2, <3>1, Zenon
  <2>7. \A t \in tasks' : LimitedPerDay(t.body) /\ ~t.raced => t.before < DailyLimit
    BY <2>1, <2>6 DEF DailyInv
  <2> QED BY <2>5, <2>7 DEF DailyInv, LimitedPerDay, NoDay
<1>8. ASSUME NEW r \in TaskRequests, GetFromCache(r) \/ GetTaskStatistics(r) \/ SetInCache(r)
      PROVE  DailyInv'
  <2>1. UNCHANGED <<tasks, raced, body>>
    BY <1>8 DEF GetFromCache, GetTaskStatistics, SetInCache
  <2>2. \E to \in {"answered", "aggregate", "store"} : doing' = [doing EXCEPT ![r] = to]
    BY <1>8 DEF GetFromCache, GetTaskStatistics, SetInCache
  <2>3. \A q \in TaskRequests : doing'[q] = "create" => doing[q] = "create"
    BY <2>2 DEF TasksTyped
  <2> QED BY <1>1, <2>1, <2>3
<1>9. CASE TasksTick \/ UNCHANGED taskVars
  <2>1. UNCHANGED <<tasks, raced, body, doing>>
    BY <1>9 DEF TasksTick, taskVars
  <2> QED BY <1>1, <2>1
<1> QED BY <1>3, <1>4, <1>5, <1>6, <1>7, <1>8, <1>9 DEF TasksNext, CreateTask, GetStatistics

\* The limiter counts every request in its window that it let through, or refuses.
LEMMA LimiterStep ==
    ASSUME TasksTyped, LimiterInv, NEW r \in TaskRequests, RateLimiter(r), ~misled'
    PROVE  LimiterInv'
<1> DEFINE x == stamp[r]
           me == [by |-> r, at |-> stamp[r]]
           K == Counted(r)
<1>1. /\ ~misled /\ ~Belated(r) /\ ~(x < entriesGo /\ entriesGo <= clock)
      /\ ~\E a \in admitted : a.at > x
  <2>1. misled' = (misled \/ Misleads(r))
    BY DEF RateLimiter
  <2>2. ~misled /\ ~Misleads(r)
    BY <2>1, Zenon
  <2> QED BY <2>2 DEF Misleads
<1>2. /\ x \in Nat /\ clock \in Nat /\ entriesGo \in Nat /\ x <= clock
      /\ Window \in Nat \ {0} /\ Max \in Nat \ {0}
      /\ me.at = x /\ me \in Seen /\ me \notin entries
      /\ entries \subseteq Seen /\ IsFiniteSet(entries) /\ admitted \subseteq Seen /\ IsFiniteSet(admitted)
      /\ \A e \in Seen : e.at \in Nat
  <2>1. doing[r] = "limiter" /\ me.by = r
    BY DEF RateLimiter
  <2>2. me \notin entries
    BY <2>1 DEF TasksTyped
  <2> QED BY <2>2, LegacyTasksConstants DEF TasksTyped, Seen
<1>3. /\ K = {e \in (IF clock < entriesGo THEN entries ELSE {}) : e.at > x - Window} \cup {me}
      /\ entries' = K /\ entriesGo' = Ceil(x + Window) /\ entriesGo' >= x + Window
      /\ IsFiniteSet(K) /\ entriesGo' \in Nat
  BY <1>1, CountedTyped DEF Counted, RateLimiter, CheckRateLimit
<1>4. /\ Cardinality(K) \in Nat
      /\ \/ Cardinality(K) <= Max /\ admitted' = admitted \cup {me}
         \/ Cardinality(K) > Max /\ admitted' = admitted
  <2>1. Cardinality(K) \in Nat
    BY <1>3, FS_CardinalityType
  <2>2. admitted' = IF Cardinality(K) <= Max THEN admitted \cup {me} ELSE admitted
    BY DEF RateLimiter
  <2> QED BY <1>2, <2>1, <2>2
<1>5. /\ \A b \in admitted : b.at \in Nat /\ b.at <= x /\ b.at + Window <= entriesGo
      /\ \A b \in admitted \ entries, time \in Nat :
            time < b.at + Window /\ (\A a \in admitted : a.at <= time) =>
                Cardinality(Since(entries, time - Window)) >= Max
      /\ \A a \in admitted : Cardinality(WindowIn(admitted, a)) <= Max
  BY <1>1, <1>2 DEF LimiterInv
<1> HIDE DEF x, me, K
\* Of the requests let through in the window of r, the set still has all.
<1>6. ASSUME NEW b \in admitted, b.at > x - Window, b \in entries PROVE b \in K
  <2>1. clock < entriesGo
    BY <1>1, <1>2, <1>5, <1>6
  <2> QED BY <1>2, <1>3, <1>6, <2>1
<1>7. ASSUME clock < entriesGo, NEW time \in Nat, time >= x
      PROVE  Since(entries, time - Window) \subseteq Since(K, time - Window)
  BY <1>2, <1>3, <1>7 DEF Since
<1>8. \A es, time : IsFiniteSet(es) => IsFiniteSet(Since(es, time)) /\ Cardinality(Since(es, time)) \in Nat
  <2>1. \A es, time : Since(es, time) \subseteq es
    BY DEF Since
  <2> QED BY <2>1, FS_Subset, FS_CardinalityType
<1>9. \A b \in admitted' : b.at + Window <= entriesGo'
  BY <1>2, <1>3, <1>4, <1>5
<1>10. ASSUME NEW b \in admitted' \ entries', NEW time \in Nat, time < b.at + Window,
              \A a \in admitted' : a.at <= time
       PROVE  Cardinality(Since(entries', time - Window)) >= Max
  <2>1. b \in admitted /\ b \notin K /\ b.at \in Nat /\ (\A a \in admitted : a.at <= time)
    BY <1>3, <1>4, <1>5, <1>10
  <2>2. CASE time >= x
    <3>1. b.at > x - Window
      BY <1>2, <1>10, <2>1, <2>2
    <3>2. b \notin entries /\ clock < entriesGo
      BY <1>1, <1>2, <1>5, <1>6, <2>1, <3>1
    <3>3. Cardinality(Since(entries, time - Window)) >= Max
      BY <1>5, <1>10, <2>1, <3>2
    <3>4. Cardinality(Since(entries, time - Window)) <= Cardinality(Since(K, time - Window))
      BY <1>3, <1>7, <1>8, <2>2, <3>2, FS_Subset
    <3> QED BY <1>2, <1>3, <1>8, <3>3, <3>4
  <2>3. CASE time < x
    <3>1. Cardinality(K) > Max
      <4>1. me \notin admitted'
        BY <1>2, <1>10, <2>3
      <4> QED BY <1>4, <4>1
    <3>2. \A e \in K : e.at > time - Window
      BY <1>2, <1>3, <2>3
    <3>3. Since(K, time - Window) = K
      BY <3>2 DEF Since
    <3>4. Cardinality(Since(entries', time - Window)) = Cardinality(K)
      BY <1>3, <3>3, Zenon
    <3> QED BY <1>2, <1>4, <3>1, <3>4
  <2> QED BY <1>2, <2>2, <2>3
<1>11. ASSUME NEW a \in admitted' PROVE Cardinality(WindowIn(admitted', a)) <= Max
  <2>1. CASE admitted' = admitted
    BY <1>5, <1>11, <2>1
  <2>2. CASE Cardinality(K) <= Max /\ admitted' = admitted \cup {me}
    <3>1. ASSUME NEW b \in admitted, b.at > x - Window PROVE b \in K
      <4>1. CASE b \in entries
        BY <1>6, <3>1, <4>1
      <4>2. CASE b \notin entries
        <5>1. x < b.at + Window /\ \A q \in admitted : q.at <= x
          BY <1>2, <1>5, <3>1
        <5>2. Cardinality(Since(entries, x - Window)) >= Max
          BY <1>2, <1>5, <4>2, <5>1
        <5>3. clock < entriesGo
          BY <1>1, <1>2, <1>5, <5>1
        <5>4. K = Since(entries, x - Window) \cup {me} /\ me \notin Since(entries, x - Window)
          BY <1>2, <1>3, <5>3 DEF Since
        <5>5. Cardinality(K) = Cardinality(Since(entries, x - Window)) + 1
          BY <1>2, <1>8, <5>4, FS_AddElement
        <5> QED BY <1>2, <1>8, <2>2, <5>2, <5>5
      <4> QED BY <4>1, <4>2
    <3>2. CASE a.at = x
      <4>1. WindowIn(admitted', a) \subseteq K
        BY <1>2, <1>3, <2>2, <3>1, <3>2 DEF WindowIn
      <4>2. Cardinality(WindowIn(admitted', a)) <= Cardinality(K) /\ Cardinality(WindowIn(admitted', a)) \in Nat
        BY <1>3, <4>1, FS_Subset, FS_CardinalityType
      <4> QED BY <1>2, <1>4, <2>2, <4>2
    <3>3. CASE a.at # x
      <4>1. a \in admitted /\ a.at < x
        BY <1>2, <1>5, <2>2, <3>3
      <4>2. WindowIn(admitted', a) = WindowIn(admitted, a)
        BY <1>2, <1>5, <2>2, <4>1 DEF WindowIn
      <4> QED BY <1>5, <4>1, <4>2
    <3> QED BY <3>2, <3>3
  <2> QED BY <1>4, <2>1, <2>2
<1> QED BY <1>9, <1>10, <1>11 DEF LimiterInv

\* The routes together keep to the limits of the limiter and of the day.
THEOREM TasksAlwaysInBounds == TasksSpec => []TasksInBounds
<1>1. TasksInit => TasksTyped /\ DailyInv /\ LimiterInv
  <2> HAVE TasksInit
  <2>1. TasksTyped
    <3>1. IsFiniteSet({})
      BY FS_EmptySet
    <3> QED BY <3>1 DEF TasksInit, TasksTyped, Stages, Statuses, Seen
  <2>2. DailyInv /\ LimiterInv
    BY DEF TasksInit, DailyInv, LimiterInv
  <2> QED BY <2>1, <2>2
<1>2. TasksTyped /\ DailyInv /\ LimiterInv /\ [TasksNext]_taskVars => (TasksTyped /\ DailyInv /\ LimiterInv)'
  <2> SUFFICES ASSUME TasksTyped, DailyInv, LimiterInv, [TasksNext]_taskVars
               PROVE  (TasksTyped /\ DailyInv /\ LimiterInv)'
    OBVIOUS
  <2>1. TasksTyped' /\ DailyInv'
    BY TasksTypedStep, DailyStep
  <2>2. ASSUME UNCHANGED limits PROVE LimiterInv'
    BY <2>2 DEF limits, LimiterInv, Since, WindowIn
  <2>3. ASSUME NEW r \in TaskRequests, RateLimiter(r) \/ RateLimiterFailsOpen(r) PROVE LimiterInv'
    <3>1. CASE misled'
      BY <3>1 DEF LimiterInv
    <3>2. CASE ~misled'
      <4>1. RateLimiter(r)
        BY <2>3, <3>2 DEF RateLimiterFailsOpen
      <4> QED BY <3>2, <4>1, LimiterStep
    <3> QED BY <3>1, <3>2
  <2>4. \/ UNCHANGED limits \/ \E r \in TaskRequests : RateLimiter(r) \/ RateLimiterFailsOpen(r)
    BY DEF TasksNext, taskVars, CreateTask, GetStatistics, Call, CheckSecondaryUserPermission,
           CheckDailyTaskLimit, Create, CreateTaskFails, GetFromCache, GetTaskStatistics, SetInCache,
           TasksTick
  <2> QED BY <2>1, <2>2, <2>3, <2>4
<1>3. DailyInv /\ LimiterInv => TasksInBounds
  BY DEF DailyInv, LimiterInv, WindowIn, TasksInBounds
<1> QED BY <1>1, <1>2, <1>3, PTL DEF TasksSpec
=============================================================================
