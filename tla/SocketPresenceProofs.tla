------------------------- MODULE SocketPresenceProofs -------------------------
(***************************************************************************)
(* Proofs about SocketPresence, for any users, sockets and workers; about  *)
(* RoomService, for any users and rooms; and about PresenceQueries, for    *)
(* any users, conversations and changes during a query.                    *)
(***************************************************************************)
EXTENDS SocketPresence, RoomService, PresenceQueries, FiniteSetTheorems, TLAPS

\* The type invariant is inductive by itself.
LEMMA TypeOKInit == Init => TypeOK
BY PresenceConstants DEF Init, TypeOK, ConnPcs, DiscPcs

LEMMA TypeOKStep == TypeOK /\ [Next]_vars => TypeOK'
<1> SUFFICES ASSUME TypeOK, [Next]_vars PROVE TypeOK'
  OBVIOUS
<1> USE PresenceConstants DEF TypeOK, ConnPcs, DiscPcs, redis, conn, clean, Disorder, Fault, Shut
<1>1. ASSUME NEW s \in Sockets, Open(s) PROVE TypeOK'
  BY <1>1 DEF Open
<1>2. ASSUME NEW s \in Sockets, Close(s) PROVE TypeOK'
  BY <1>2 DEF Close
<1>3. ASSUME NEW s \in Sockets, HandleConnection(s) PROVE TypeOK'
  <2>1. CASE Authenticate(s) BY <2>1 DEF Authenticate
  <2>2. CASE Reject(s) BY <2>2 DEF Reject
  <2>3. CASE CheckExisting(s) BY <2>3 DEF CheckExisting
  <2>4. CASE DropOldMapping(s) BY <2>4 DEF DropOldMapping, ForgetReplaced
  <2>5. CASE Register(s) BY <2>5 DEF Register, AddOnlineUser
  <2>6. CASE JoinRooms(s) BY <2>6 DEF JoinRooms
  <2>7. CASE AutoJoinFamilyRoom(s) BY <2>7 DEF AutoJoinFamilyRoom
  <2>8. CASE AnnounceOnline(s) BY <2>8 DEF AnnounceOnline
  <2>9. CASE ConnectionError(s)
    BY <2>9 DEF ConnectionError, AddOnlineUser, ForgetReplaced
  <2> QED BY <1>3, <2>1, <2>2, <2>3, <2>4, <2>5, <2>6, <2>7, <2>8, <2>9 DEF HandleConnection
<1>4. ASSUME NEW s \in Sockets, HandleDisconnect(s) PROVE TypeOK'
  <2>1. CASE Deregister(s) BY <2>1 DEF Deregister, RemoveOnlineUser
  <2>2. CASE DeregisterError(s) BY <2>2 DEF DeregisterError, RemoveOnlineUser
  <2>3. CASE AnnounceOffline(s) BY <2>3 DEF AnnounceOffline
  <2> QED BY <1>4, <2>1, <2>2, <2>3 DEF HandleDisconnect
<1>5. ASSUME NEW s \in Sockets, AnnounceError(s) PROVE TypeOK'
  BY <1>5 DEF AnnounceError
<1>6. ASSUME NEW w \in Workers, Cleanup(w) PROVE TypeOK'
  <2>1. CASE CleanupStart(w) BY <2>1 DEF CleanupStart
  <2>2. ASSUME NEW u \in Users, CleanupRead(w, u) PROVE TypeOK'
    BY <2>2 DEF CleanupRead
  <2>3. CASE CleanupRemove(w) BY <2>3 DEF CleanupRemove, RemoveOnlineUser
  <2>4. CASE CleanupError(w)
    <3>1. /\ todo' = [todo EXCEPT ![w] = {}] /\ seen' = [seen EXCEPT ![w] = NoSocket]
          /\ faults' \in 0..MaxFaults
          /\ UNCHANGED <<open, connPc, discPc, replaced, room, told>>
      BY <2>4 DEF CleanupError
    <3>2. CASE UNCHANGED <<redis, orderly>>
      BY <3>1, <3>2
    <3>3. CASE /\ seen[w] # NoSocket
               /\ RemoveOnlineUser(UserOf[seen[w]], seen[w])
               /\ Disorder(UserOf[seen[w]])
      BY <3>1, <3>3 DEF RemoveOnlineUser
    <3> QED BY <2>4, <3>2, <3>3 DEF CleanupError
  <2> QED BY <1>6, <2>1, <2>2, <2>3, <2>4 DEF Cleanup
<1>7. ASSUME NEW w \in Workers, Crash(w) PROVE TypeOK'
  BY <1>7 DEF Crash
<1>8. ASSUME NEW u \in Users, Age(u) PROVE TypeOK'
  BY <1>8 DEF Age
<1>9. CASE UNCHANGED vars
  BY <1>9 DEF vars
<1> QED BY <1>1, <1>2, <1>3, <1>4, <1>5, <1>6, <1>7, <1>8, <1>9 DEF Next

\* The type invariant of the presence state.
THEOREM TypeCorrect == Spec => []TypeOK
BY TypeOKInit, TypeOKStep, PTL DEF Spec

-----------------------------------------------------------------------------
(* The keys of a registration change together. *)

\* What a step may do to the keys that answer "is the user online": nothing, one
\* addOnlineUser or one removeOnlineUser.
LEMMA RegistrationStep ==
  ASSUME TypeOK, [Next]_vars
  PROVE  \/ UNCHANGED <<online, userSocket, statusOnline>>
         \/ \E s \in Sockets : AddOnlineUser(UserOf[s], s)
         \/ \E s \in Sockets : RemoveOnlineUser(UserOf[s], s)
<1> USE DEF redis, conn, clean
<1>1. ASSUME NEW s \in Sockets, Open(s) \/ Close(s) \/ AnnounceError(s)
      PROVE  UNCHANGED <<online, userSocket, statusOnline>>
  BY <1>1 DEF Open, Close, AnnounceError
<1>2. ASSUME NEW s \in Sockets, HandleConnection(s), ~AddOnlineUser(UserOf[s], s)
      PROVE  UNCHANGED <<online, userSocket, statusOnline>>
  BY <1>2 DEF HandleConnection, Authenticate, Reject, CheckExisting, DropOldMapping,
              ForgetReplaced, Register, JoinRooms, AutoJoinFamilyRoom, AnnounceOnline,
              ConnectionError
<1>3. ASSUME NEW s \in Sockets, HandleDisconnect(s), ~RemoveOnlineUser(UserOf[s], s)
      PROVE  UNCHANGED <<online, userSocket, statusOnline>>
  BY <1>3 DEF HandleDisconnect, Deregister, DeregisterError, AnnounceOffline
<1>4. ASSUME NEW w \in Workers, Cleanup(w)
      PROVE  \/ UNCHANGED <<online, userSocket, statusOnline>>
             \/ seen[w] # NoSocket /\ RemoveOnlineUser(UserOf[seen[w]], seen[w])
  BY <1>4 DEF Cleanup, CleanupStart, CleanupRead, CleanupRemove, CleanupError
<1>5. ASSUME NEW w \in Workers, Crash(w)
      PROVE  UNCHANGED <<online, userSocket, statusOnline>>
  BY <1>5 DEF Crash
<1>6. ASSUME NEW u \in Users, Age(u)
      PROVE  UNCHANGED <<online, userSocket, statusOnline>>
  BY <1>6 DEF Age
<1>7. CASE UNCHANGED vars
  BY <1>7 DEF vars
<1>8. \A w \in Workers : seen[w] # NoSocket => seen[w] \in Sockets
  BY DEF TypeOK
<1> QED BY <1>1, <1>2, <1>3, <1>4, <1>5, <1>6, <1>7, <1>8 DEF Next

LEMMA KeysAgreeStep == TypeOK /\ KeysAgree /\ [Next]_vars => KeysAgree'
<1> SUFFICES ASSUME TypeOK, KeysAgree, [Next]_vars PROVE KeysAgree'
  OBVIOUS
<1> USE PresenceConstants DEF TypeOK, KeysAgree
<1>1. CASE UNCHANGED <<online, userSocket, statusOnline>>
  BY <1>1
<1>2. ASSUME NEW s \in Sockets, AddOnlineUser(UserOf[s], s) PROVE KeysAgree'
  BY <1>2 DEF AddOnlineUser
<1>3. ASSUME NEW s \in Sockets, RemoveOnlineUser(UserOf[s], s) PROVE KeysAgree'
  BY <1>3 DEF RemoveOnlineUser
<1> QED BY <1>1, <1>2, <1>3, RegistrationStep

\* The keys agree whatever handlers, cleanup runs, failures and crashes interleave.
THEOREM KeysAlwaysAgree == Spec => []KeysAgree
<1>1. Init => KeysAgree
  BY DEF Init, KeysAgree
<1> QED BY <1>1, TypeCorrect, KeysAgreeStep, PTL DEF Spec

-----------------------------------------------------------------------------
(* Personal rooms. *)

LEMMA RoomStep ==
  TypeOK /\ RoomReachesLiveSockets /\ [Next]_vars => RoomReachesLiveSockets'
<1> SUFFICES ASSUME TypeOK, RoomReachesLiveSockets, [Next]_vars
             PROVE  RoomReachesLiveSockets'
  OBVIOUS
<1> USE DEF TypeOK, RoomReachesLiveSockets, redis, conn, clean
<1>1. ASSUME NEW s \in Sockets, Open(s) PROVE RoomReachesLiveSockets'
  BY <1>1 DEF Open
<1>2. ASSUME NEW s \in Sockets, Close(s) PROVE RoomReachesLiveSockets'
  BY <1>2 DEF Close, Shut
<1>3. ASSUME NEW s \in Sockets, HandleConnection(s) PROVE RoomReachesLiveSockets'
  <2>1. CASE Authenticate(s) \/ CheckExisting(s) \/ DropOldMapping(s) \/ Register(s)
    BY <2>1 DEF Authenticate, CheckExisting, DropOldMapping, Register
  <2>2. CASE Reject(s) BY <2>2 DEF Reject, Shut
  <2>3. CASE JoinRooms(s) BY <2>3 DEF JoinRooms
  <2>4. CASE AutoJoinFamilyRoom(s) \/ AnnounceOnline(s)
    BY <2>4 DEF AutoJoinFamilyRoom, AnnounceOnline
  <2>5. CASE ConnectionError(s) BY <2>5 DEF ConnectionError, Shut
  <2> QED BY <1>3, <2>1, <2>2, <2>3, <2>4, <2>5 DEF HandleConnection
<1>4. ASSUME NEW s \in Sockets, HandleDisconnect(s) PROVE RoomReachesLiveSockets'
  BY <1>4 DEF HandleDisconnect, Deregister, DeregisterError, AnnounceOffline
<1>5. ASSUME NEW s \in Sockets, AnnounceError(s) PROVE RoomReachesLiveSockets'
  BY <1>5 DEF AnnounceError
<1>6. ASSUME NEW w \in Workers, Cleanup(w) PROVE RoomReachesLiveSockets'
  BY <1>6 DEF Cleanup, CleanupStart, CleanupRead, CleanupRemove, CleanupError
<1>7. ASSUME NEW w \in Workers, Crash(w) PROVE RoomReachesLiveSockets'
  BY <1>7 DEF Crash
<1>8. ASSUME NEW u \in Users, Age(u) PROVE RoomReachesLiveSockets'
  BY <1>8 DEF Age
<1>9. CASE UNCHANGED vars
  BY <1>9 DEF vars
<1> QED BY <1>1, <1>2, <1>3, <1>4, <1>5, <1>6, <1>7, <1>8, <1>9 DEF Next

\* The personal room of a user holds exactly its joined sockets with a live transport.
THEOREM RoomAlwaysReaches == Spec => []RoomReachesLiveSockets
<1>1. Init => RoomReachesLiveSockets
  BY DEF Init, RoomReachesLiveSockets
<1> QED BY <1>1, TypeCorrect, RoomStep, PTL DEF Spec

-----------------------------------------------------------------------------
(* The cleanup run.  A socket is registered once, by its own handshake, and is past *)
(* that point ever after: what the run judged cannot be registered afresh.          *)

PastRegistration(s) ==
    connPc[s] \in {"join", "family", "announce", "up", "failed", "dead"}

RegisteredOnce ==
    /\ \A u \in Users : userSocket[u] # NoSocket => PastRegistration(userSocket[u])
    /\ \A w \in Workers : seen[w] # NoSocket => PastRegistration(seen[w])

CleanupInv == TypeOK /\ KeysAgree /\ RegisteredOnce /\ CleanupJudgementStands

LEMMA CleanupStep == CleanupInv /\ [Next]_vars => CleanupInv'
<1> SUFFICES ASSUME CleanupInv, [Next]_vars
             PROVE  RegisteredOnce' /\ CleanupJudgementStands'
  BY TypeOKStep, KeysAgreeStep DEF CleanupInv
<1> USE PresenceConstants DEF CleanupInv, TypeOK, KeysAgree, RegisteredOnce,
        CleanupJudgementStands, PastRegistration, redis, conn, clean
<1>1. ASSUME NEW s \in Sockets, Open(s) \/ Close(s) \/ AnnounceError(s)
      PROVE  RegisteredOnce' /\ CleanupJudgementStands'
  <2>1. UNCHANGED <<userSocket, seen, old>>
    BY <1>1 DEF Open, Close, AnnounceError
  <2>2. \A t \in Sockets : PastRegistration(t) => PastRegistration(t)'
    <3>1. CASE Open(s) BY <3>1 DEF Open
    <3>2. CASE Close(s) BY <3>2 DEF Close
    <3>3. CASE AnnounceError(s) BY <3>3 DEF AnnounceError
    <3> QED BY <1>1, <3>1, <3>2, <3>3
  <2> QED BY <2>1, <2>2
<1>2. ASSUME NEW s \in Sockets, HandleConnection(s)
      PROVE  RegisteredOnce' /\ CleanupJudgementStands'
  <2>1. CASE Authenticate(s) \/ Reject(s) \/ CheckExisting(s)
    <3>1. ~PastRegistration(s) /\ UNCHANGED <<userSocket, seen, old>>
      BY <2>1 DEF Authenticate, Reject, CheckExisting
    <3>2. \A t \in Sockets \ {s} : connPc'[t] = connPc[t]
      BY <2>1 DEF Authenticate, Reject, CheckExisting
    <3> QED BY <3>1, <3>2
  <2>2. CASE DropOldMapping(s) BY <2>2 DEF DropOldMapping, ForgetReplaced
  <2>3. CASE Register(s) BY <2>3 DEF Register, AddOnlineUser
  <2>4. CASE JoinRooms(s) \/ AutoJoinFamilyRoom(s) \/ AnnounceOnline(s)
    BY <2>4, SMTT(20) DEF JoinRooms, AutoJoinFamilyRoom, AnnounceOnline
  <2>5. CASE ConnectionError(s)
    <3>1. ~PastRegistration(s) /\ connPc' = [connPc EXCEPT ![s] = "failed"] /\ seen' = seen
      BY <2>5 DEF ConnectionError
    <3>2. CASE UNCHANGED <<userSocket, old>>
      BY <3>1, <3>2
    <3>3. CASE AddOnlineUser(UserOf[s], s)
      BY <3>1, <3>3 DEF AddOnlineUser
    <3> QED BY <2>5, <3>2, <3>3 DEF ConnectionError, ForgetReplaced
  <2> QED BY <1>2, <2>1, <2>2, <2>3, <2>4, <2>5 DEF HandleConnection
<1>3. ASSUME NEW s \in Sockets, HandleDisconnect(s)
      PROVE  RegisteredOnce' /\ CleanupJudgementStands'
  BY <1>3 DEF HandleDisconnect, Deregister, DeregisterError, AnnounceOffline,
              RemoveOnlineUser
<1>4. ASSUME NEW w \in Workers, Cleanup(w)
      PROVE  RegisteredOnce' /\ CleanupJudgementStands'
  <2>1. CASE CleanupStart(w) \/ CleanupError(w)
    BY <2>1 DEF CleanupStart, CleanupError, RemoveOnlineUser
  <2>2. ASSUME NEW u \in Users, CleanupRead(w, u)
        PROVE  RegisteredOnce' /\ CleanupJudgementStands'
    BY <2>2 DEF CleanupRead
  <2>3. CASE CleanupRemove(w)
    BY <2>3 DEF CleanupRemove, RemoveOnlineUser
  <2> QED BY <1>4, <2>1, <2>2, <2>3 DEF Cleanup
<1>5. ASSUME NEW w \in Workers, Crash(w)
      PROVE  RegisteredOnce' /\ CleanupJudgementStands'
  BY <1>5 DEF Crash
<1>6. ASSUME NEW u \in Users, Age(u)
      PROVE  RegisteredOnce' /\ CleanupJudgementStands'
  BY <1>6 DEF Age
<1>7. CASE UNCHANGED vars
  BY <1>7 DEF vars
<1> QED BY <1>1, <1>2, <1>3, <1>4, <1>5, <1>6, <1>7 DEF Next

\* The cleanup job never takes down a fresh registration of the socket it judged.
THEOREM CleanupAlwaysStands == Spec => []CleanupJudgementStands
<1>1. Init => CleanupInv
  BY TypeOKInit DEF Init, CleanupInv, KeysAgree, RegisteredOnce, CleanupJudgementStands
<1>2. CleanupInv => CleanupJudgementStands
  BY DEF CleanupInv
<1> QED BY <1>1, <1>2, CleanupStep, PTL DEF Spec

-----------------------------------------------------------------------------
(* Orderly users.  While the sessions of a user come one at a time and nothing goes *)
(* wrong, at most one of its sockets is engaged, every socket is at a point of the  *)
(* session below, and the keys and the announcements mirror that point.             *)

Handshake(s) == connPc[s] \in {"auth", "check", "add", "join", "family", "announce"}

SessionShape(s) ==
    \/ connPc[s] = "new" /\ s \notin open /\ discPc[s] = "idle"
    \/ Handshake(s) /\ s \in open /\ discPc[s] = "idle"
    \/ connPc[s] = "up" /\ s \in open /\ discPc[s] = "idle"
    \/ connPc[s] = "up" /\ s \notin open /\ discPc[s] \in {"remove", "announce", "done"}
    \/ connPc[s] = "rejected" /\ s \notin open /\ discPc[s] = "done"

\* The stretch of a session in which the socket is registered, and the one in which its
\* user was announced.
Holding(s) ==
    connPc[s] \in {"join", "family", "announce", "up"} /\ discPc[s] \in {"idle", "remove"}

Announced(s) == connPc[s] = "up" /\ discPc[s] \in {"idle", "remove", "announce"}

OrderlyUser(u) ==
    /\ \A s, t \in SocketsOf(u) : Engaged(s) /\ Engaged(t) => s = t
    /\ \A s \in SocketsOf(u) : SessionShape(s)
    /\ \A s \in SocketsOf(u) : Holding(s) <=> userSocket[u] = s
    /\ \A s \in SocketsOf(u) : Holding(s) <=> s \in socketUser
    /\ told[u] <=> \E s \in SocketsOf(u) : Announced(s)

ReplacedIsOwn ==
    \A s \in Sockets : replaced[s] # NoSocket => UserOf[replaced[s]] = UserOf[s]

OrderlyInv ==
    /\ TypeOK /\ KeysAgree /\ ReplacedIsOwn
    /\ \A u \in Users : orderly[u] => OrderlyUser(u)

LEMMA ReplacedIsOwnStep ==
  TypeOK /\ KeysAgree /\ ReplacedIsOwn /\ [Next]_vars => ReplacedIsOwn'
<1> SUFFICES ASSUME TypeOK, KeysAgree, ReplacedIsOwn, [Next]_vars PROVE ReplacedIsOwn'
  OBVIOUS
<1> USE PresenceConstants DEF TypeOK, ReplacedIsOwn, redis, conn, clean
<1>1. ASSUME NEW s \in Sockets, CheckExisting(s) PROVE ReplacedIsOwn'
  BY <1>1 DEF CheckExisting, KeysAgree
<1>2. ASSUME NEW s \in Sockets, HandleConnection(s), ~CheckExisting(s)
      PROVE  UNCHANGED replaced
  BY <1>2 DEF HandleConnection, Authenticate, Reject, DropOldMapping, Register,
              JoinRooms, AutoJoinFamilyRoom, AnnounceOnline, ConnectionError
<1>3. ASSUME NEW s \in Sockets,
             Open(s) \/ Close(s) \/ HandleDisconnect(s) \/ AnnounceError(s)
      PROVE  UNCHANGED replaced
  BY <1>3 DEF Open, Close, HandleDisconnect, Deregister, DeregisterError,
              AnnounceOffline, AnnounceError
<1>4. ASSUME NEW w \in Workers, Cleanup(w) \/ Crash(w) PROVE UNCHANGED replaced
  BY <1>4 DEF Cleanup, CleanupStart, CleanupRead, CleanupRemove, CleanupError, Crash
<1>5. ASSUME NEW u \in Users, Age(u) PROVE UNCHANGED replaced
  BY <1>5 DEF Age
<1>6. CASE UNCHANGED replaced
  BY <1>6
<1> QED BY <1>1, <1>2, <1>3, <1>4, <1>5, <1>6 DEF Next, vars

\* A step of socket s leaves the users of other sockets as orderly as they were.
LEMMA OtherUserOrderly ==
  ASSUME NEW s \in Sockets, NEW u \in Users, u # UserOf[s],
         \A t \in Sockets \ {s} : /\ (t \in open)' <=> t \in open
                                  /\ connPc'[t] = connPc[t] /\ discPc'[t] = discPc[t],
         \A t \in SocketsOf(u) : (t \in socketUser)' <=> t \in socketUser,
         userSocket'[u] = userSocket[u], told'[u] = told[u],
         OrderlyUser(u)
  PROVE  OrderlyUser(u)'
BY DEF OrderlyUser, SocketsOf, Engaged, Connecting, SessionShape, Handshake, Holding,
       Announced

\* The same lemma for the user whose socket takes the step: what is to be shown of it.
LEMMA OwnUserOrderly ==
  ASSUME TypeOK, NEW s \in Sockets, OrderlyUser(UserOf[s]),
         \A t \in Sockets \ {s} : /\ (t \in open)' <=> t \in open
                                  /\ connPc'[t] = connPc[t] /\ discPc'[t] = discPc[t],
         Engaged(s)' => \A t \in SocketsOf(UserOf[s]) \ {s} : ~Engaged(t),
         SessionShape(s)',
         \A t \in SocketsOf(UserOf[s]) :
             /\ Holding(t)' <=> userSocket'[UserOf[s]] = t
             /\ Holding(t)' <=> (t \in socketUser)',
         \/ Announced(s)' /\ told'[UserOf[s]] = TRUE
         \/ (Announced(s)' <=> Announced(s)) /\ told'[UserOf[s]] = told[UserOf[s]]
         \/ /\ ~Announced(s)' /\ told'[UserOf[s]] = FALSE
            /\ \A t \in SocketsOf(UserOf[s]) \ {s} : ~Announced(t)
  PROVE  OrderlyUser(UserOf[s])'
<1> DEFINE u == UserOf[s]
<1> USE PresenceConstants
<1>1. \A t \in SocketsOf(u) : t \in Sockets
  BY DEF SocketsOf
<1>2. \A t \in SocketsOf(u) \ {s} : Engaged(t)' <=> Engaged(t)
  BY <1>1 DEF Engaged, Connecting
<1>3. \A t \in SocketsOf(u) \ {s} : SessionShape(t)' <=> SessionShape(t)
  BY <1>1 DEF SessionShape, Handshake
<1>4. \A t \in SocketsOf(u) \ {s} : Announced(t)' <=> Announced(t)
  BY <1>1 DEF Announced
<1>5. s \in SocketsOf(u) /\ (SocketsOf(u))' = SocketsOf(u)
  BY DEF SocketsOf
<1>6. told'[u] <=> \E t \in SocketsOf(u) : Announced(t)'
  BY <1>4, <1>5 DEF OrderlyUser
<1>7. \A t, r \in SocketsOf(u) : Engaged(t)' /\ Engaged(r)' => t = r
  BY <1>2 DEF OrderlyUser
<1>8. \A t \in SocketsOf(u) : SessionShape(t)'
  BY <1>3 DEF OrderlyUser
<1> QED BY <1>5, <1>6, <1>7, <1>8 DEF OrderlyUser

SocketStep(s) ==
    Open(s) \/ Close(s) \/ HandleConnection(s) \/ HandleDisconnect(s) \/ AnnounceError(s)

\* A step of socket s changes its own control state and the keys of its own user only.
LEMMA SocketStepFrame ==
  ASSUME TypeOK, ReplacedIsOwn, NEW s \in Sockets, SocketStep(s)
  PROVE  /\ \A t \in Sockets \ {s} : /\ (t \in open)' <=> t \in open
                                     /\ connPc'[t] = connPc[t] /\ discPc'[t] = discPc[t]
         /\ \A u \in Users : orderly'[u] => orderly[u]
         /\ \A u \in Users \ {UserOf[s]} :
                /\ userSocket'[u] = userSocket[u] /\ told'[u] = told[u]
                /\ \A t \in SocketsOf(u) : (t \in socketUser)' <=> t \in socketUser
<1> USE PresenceConstants DEF TypeOK, redis, conn, clean, Disorder, Shut, SocketsOf
<1>1. CASE Open(s) BY <1>1 DEF Open
<1>2. CASE Close(s) BY <1>2 DEF Close
<1>3. CASE Authenticate(s) BY <1>3 DEF Authenticate
<1>4. CASE Reject(s) BY <1>4 DEF Reject
<1>5. CASE CheckExisting(s) BY <1>5 DEF CheckExisting
<1>6. CASE DropOldMapping(s) BY <1>6 DEF DropOldMapping, ForgetReplaced, ReplacedIsOwn
<1>7. CASE Register(s) BY <1>7 DEF Register, AddOnlineUser
<1>8. CASE JoinRooms(s) BY <1>8 DEF JoinRooms
<1>9. CASE AutoJoinFamilyRoom(s) BY <1>9 DEF AutoJoinFamilyRoom
<1>10. CASE AnnounceOnline(s) BY <1>10 DEF AnnounceOnline
<1>11. CASE ConnectionError(s)
  BY <1>11 DEF ConnectionError, AddOnlineUser, ForgetReplaced, ReplacedIsOwn
<1>12. CASE Deregister(s) BY <1>12 DEF Deregister, RemoveOnlineUser
<1>13. CASE DeregisterError(s) BY <1>13 DEF DeregisterError, RemoveOnlineUser
<1>14. CASE AnnounceOffline(s) BY <1>14 DEF AnnounceOffline
<1>15. CASE AnnounceError(s) BY <1>15 DEF AnnounceError
<1> QED
  BY <1>1, <1>2, <1>3, <1>4, <1>5, <1>6, <1>7, <1>8, <1>9, <1>10, <1>11, <1>12, <1>13,
     <1>14, <1>15 DEF SocketStep, HandleConnection, HandleDisconnect

\* A step of an orderly user's own socket keeps the user orderly.
LEMMA OwnStep ==
  ASSUME OrderlyInv, NEW s \in Sockets, SocketStep(s), orderly'[UserOf[s]]
  PROVE  OrderlyUser(UserOf[s])'
<1> DEFINE v == UserOf[s]
<1>1. TypeOK /\ KeysAgree /\ v \in Users /\ OrderlyUser(v)
  BY SocketStepFrame, PresenceConstants DEF OrderlyInv
<1>2. s \in SocketsOf(v) /\ SocketsOf(v) \subseteq Sockets
  BY DEF SocketsOf
<1>3. \A t \in Sockets \ {s} : /\ (t \in open)' <=> t \in open
                               /\ connPc'[t] = connPc[t] /\ discPc'[t] = discPc[t]
  BY SocketStepFrame DEF OrderlyInv
<1>4. \A t \in SocketsOf(v) \ {s} : /\ Holding(t)' <=> Holding(t)
                                    /\ Announced(t)' <=> Announced(t)
  BY <1>2, <1>3 DEF Holding, Announced
<1>5. SessionShape(s)
  BY <1>1, <1>2 DEF OrderlyUser
<1>6. Engaged(s) => \A t \in SocketsOf(v) \ {s} : ~Engaged(t)
  BY <1>1, <1>2 DEF OrderlyUser
<1>7. \A t \in SocketsOf(v) : Holding(t) \/ Announced(t) => Engaged(t)
  BY <1>1 DEF OrderlyUser, SessionShape, Handshake, Holding, Announced, Engaged, Connecting
<1>8. ASSUME Engaged(s)' => \A t \in SocketsOf(v) \ {s} : ~Engaged(t),
             SessionShape(s)',
             \A t \in SocketsOf(v) :
                 /\ Holding(t)' <=> userSocket'[v] = t
                 /\ Holding(t)' <=> (t \in socketUser)',
             \/ Announced(s)' /\ told'[v] = TRUE
             \/ (Announced(s)' <=> Announced(s)) /\ told'[v] = told[v]
             \/ /\ ~Announced(s)' /\ told'[v] = FALSE
                /\ \A t \in SocketsOf(v) \ {s} : ~Announced(t)
      PROVE  OrderlyUser(v)'
  BY <1>1, <1>3, <1>8, OwnUserOrderly
<1> USE <1>1, <1>2, <1>4, <1>5, <1>6, <1>7, <1>8
    DEF TypeOK, redis, conn, clean, Disorder, Shut, OrderlyUser, SessionShape, Handshake,
        Holding, Announced, Engaged, Connecting, Identified
<1>9. CASE Open(s)
  <2>1. \A t \in SocketsOf(v) : ~Engaged(t)
    <3> DEFINE free == \A t \in SocketsOf(v) : ~Engaged(t)
    <3>1. orderly' = [orderly EXCEPT ![v] = orderly[v] /\ free]
      BY ONLY <1>9 DEF Open
    <3>2. orderly'[v] = (orderly[v] /\ free)
      <4> HIDE DEF free
      <4> QED BY ONLY <1>1, <3>1 DEF TypeOK
    <3> QED BY ONLY <3>2, orderly'[v]
  <2>2. connPc[s] = "new" /\ connPc'[s] = "auth" /\ s \in open' /\ discPc'[s] = "idle"
    BY <1>9 DEF Open
  <2>3. SessionShape(s)' /\ (Holding(s)' <=> Holding(s)) /\ (Announced(s)' <=> Announced(s))
    BY <2>2
  <2>4. UNCHANGED <<userSocket, socketUser, told>>
    BY <1>9 DEF Open
  <2>5. \A t \in SocketsOf(v) : /\ Holding(t) <=> userSocket[v] = t
                                /\ Holding(t) <=> t \in socketUser
    BY ONLY <1>1 DEF OrderlyUser
  <2>6. \A t \in SocketsOf(v) : Holding(t)' <=> Holding(t)
    BY ONLY <1>4, <2>3
  <2>7. \A t \in SocketsOf(v) : /\ Holding(t)' <=> userSocket'[v] = t
                                /\ Holding(t)' <=> (t \in socketUser)'
    BY ONLY <2>4, <2>5, <2>6
  <2>8. told'[v] = told[v]
    BY ONLY <2>4
  <2>9. Engaged(s)' => \A t \in SocketsOf(v) \ {s} : ~Engaged(t)
    BY ONLY <2>1
  <2> HIDE DEF OrderlyUser, SessionShape, Handshake, Holding, Announced, Engaged, Connecting
  <2> QED BY ONLY <1>8, <2>3, <2>7, <2>8, <2>9, Zenon
<1>10. CASE Close(s) BY <1>10 DEF Close
<1>11. CASE Authenticate(s) BY <1>11 DEF Authenticate
<1>12. CASE Reject(s) BY <1>12 DEF Reject
<1>13. CASE CheckExisting(s)
  <2>1. Engaged(s) /\ ~Holding(s)
    BY <1>13 DEF CheckExisting
  <2>2. userSocket[v] = NoSocket
    <3>1. SUFFICES ASSUME userSocket[v] # NoSocket PROVE FALSE
      OBVIOUS
    <3>2. userSocket[v] \in SocketsOf(v)
      BY <3>1 DEF KeysAgree, SocketsOf
    <3>3. Holding(userSocket[v])
      BY ONLY <1>1, <3>2 DEF OrderlyUser
    <3> QED BY ONLY <1>6, <1>7, <2>1, <3>2, <3>3
  <2> QED BY <1>13, <2>1, <2>2 DEF CheckExisting
<1>14. CASE DropOldMapping(s) BY <1>14 DEF DropOldMapping
<1>15. CASE Register(s) BY <1>15 DEF Register, AddOnlineUser
<1>16. CASE JoinRooms(s) BY <1>16 DEF JoinRooms
<1>17. CASE AutoJoinFamilyRoom(s) BY <1>17 DEF AutoJoinFamilyRoom
<1>18. CASE AnnounceOnline(s) BY <1>18 DEF AnnounceOnline
<1>19. CASE ConnectionError(s) BY <1>19 DEF ConnectionError
<1>20. CASE Deregister(s)
  <2>1. Engaged(s) /\ discPc'[s] = "announce"
    BY <1>20 DEF Deregister
  <2>2. SessionShape(s)' /\ ~Holding(s)' /\ (Announced(s)' <=> Announced(s)) /\ told' = told
    BY <1>20, <2>1 DEF Deregister
  <2>3. userSocket'[v] = NoSocket /\ socketUser' = socketUser \ {s}
    BY <1>20 DEF Deregister, RemoveOnlineUser
  <2>4. \A t \in SocketsOf(v) \ {s} : ~Holding(t) /\ t \notin socketUser
    BY ONLY <1>1, <1>6, <1>7, <2>1 DEF OrderlyUser
  <2>5. NoSocket \notin SocketsOf(v)
    BY <1>2, PresenceConstants
  <2> QED BY ONLY <1>4, <1>6, <1>8, <2>1, <2>2, <2>3, <2>4, <2>5
<1>21. CASE DeregisterError(s) BY <1>21 DEF DeregisterError
<1>22. CASE AnnounceOffline(s) BY <1>22 DEF AnnounceOffline
<1>23. CASE AnnounceError(s) BY <1>23 DEF AnnounceError
<1> QED
  BY <1>9, <1>10, <1>11, <1>12, <1>13, <1>14, <1>15, <1>16, <1>17, <1>18, <1>19, <1>20,
     <1>21, <1>22, <1>23 DEF SocketStep, HandleConnection, HandleDisconnect

LEMMA OrderlyStep == OrderlyInv /\ [Next]_vars => OrderlyInv'
<1> SUFFICES ASSUME OrderlyInv, [Next]_vars, NEW u \in Users, orderly'[u]
             PROVE  OrderlyUser(u)'
  BY TypeOKStep, KeysAgreeStep, ReplacedIsOwnStep DEF OrderlyInv
<1> USE PresenceConstants
<1>1. ASSUME NEW s \in Sockets, SocketStep(s) PROVE OrderlyUser(u)'
  <2>1. CASE u = UserOf[s]
    BY <1>1, <2>1, OwnStep
  <2>2. CASE u # UserOf[s]
    BY <1>1, <2>2, SocketStepFrame, OtherUserOrderly DEF OrderlyInv
  <2> QED BY <2>1, <2>2
<1>2. ASSUME orderly[u], UNCHANGED conn, userSocket'[u] = userSocket[u], told' = told,
             \A s \in SocketsOf(u) : (s \in socketUser)' <=> s \in socketUser
      PROVE  OrderlyUser(u)'
  <2>1. OrderlyUser(u)
    BY <1>2 DEF OrderlyInv
  <2> QED
    BY <1>2, <2>1 DEF OrderlyUser, SocketsOf, Engaged, Connecting, SessionShape, Handshake,
        Holding, Announced, conn
<1>3. ASSUME NEW w \in Workers, Cleanup(w) PROVE OrderlyUser(u)'
  <2>1. CASE CleanupStart(w)
    BY <1>2, <2>1 DEF CleanupStart, redis
  <2>2. ASSUME NEW x \in Users, CleanupRead(w, x) PROVE OrderlyUser(u)'
    BY <1>2, <2>2 DEF CleanupRead, redis
  <2>3. CASE CleanupRemove(w)
    <3>1. seen[w] \in Sockets /\ u # UserOf[seen[w]] /\ orderly[u]
      BY <2>3 DEF CleanupRemove, Disorder, OrderlyInv, TypeOK
    <3>2. userSocket'[u] = userSocket[u] /\ socketUser' = socketUser \ {seen[w]}
      BY <2>3, <3>1 DEF CleanupRemove, RemoveOnlineUser, OrderlyInv, TypeOK
    <3> QED BY <1>2, <2>3, <3>1, <3>2 DEF CleanupRemove, SocketsOf
  <2>4. CASE CleanupError(w)
    <3>1. CASE UNCHANGED <<redis, orderly>>
      BY <1>2, <2>4, <3>1 DEF CleanupError, redis
    <3>2. CASE /\ seen[w] # NoSocket
               /\ RemoveOnlineUser(UserOf[seen[w]], seen[w])
               /\ Disorder(UserOf[seen[w]])
      <4>1. seen[w] \in Sockets /\ u # UserOf[seen[w]] /\ orderly[u]
        BY <3>2 DEF Disorder, OrderlyInv, TypeOK
      <4>2. userSocket'[u] = userSocket[u] /\ socketUser' = socketUser \ {seen[w]}
        BY <3>2, <4>1 DEF RemoveOnlineUser, OrderlyInv, TypeOK
      <4> QED BY <1>2, <2>4, <4>1, <4>2 DEF CleanupError, SocketsOf
    <3> QED BY <2>4, <3>1, <3>2 DEF CleanupError
  <2> QED BY <1>3, <2>1, <2>2, <2>3, <2>4 DEF Cleanup
<1>4. ASSUME NEW w \in Workers, Crash(w) PROVE OrderlyUser(u)'
  <2> DEFINE lost == {s \in Sockets : WorkerOf[s] = w /\ connPc[s] # "new"}
  <2>1. orderly[u] /\ SocketsOf(u) \cap lost = {}
    BY <1>4 DEF Crash, OrderlyInv, TypeOK, SocketsOf
  <2>2. \A s \in SocketsOf(u) : /\ (s \in open)' <=> s \in open
                                /\ connPc'[s] = connPc[s] /\ discPc'[s] = discPc[s]
    BY <1>4, <2>1 DEF Crash, OrderlyInv, TypeOK, SocketsOf
  <2>3. UNCHANGED <<userSocket, socketUser, told>>
    BY <1>4 DEF Crash, redis
  <2> QED BY <2>1, <2>2, <2>3 DEF OrderlyInv, OrderlyUser, SocketsOf, Engaged, Connecting,
             SessionShape, Handshake, Holding, Announced
<1>5. ASSUME NEW x \in Users, Age(x) PROVE OrderlyUser(u)'
  BY <1>2, <1>5 DEF Age
<1>6. CASE UNCHANGED vars
  BY <1>2, <1>6 DEF vars, redis
<1> QED BY <1>1, <1>3, <1>4, <1>5, <1>6 DEF Next, SocketStep

LEMMA OrderlyInvInit == Init => OrderlyInv
<1> SUFFICES ASSUME Init PROVE ReplacedIsOwn /\ \A u \in Users : OrderlyUser(u)
  BY TypeOKInit DEF Init, OrderlyInv, KeysAgree
<1> QED BY PresenceConstants DEF Init, ReplacedIsOwn, OrderlyUser, SocketsOf, Engaged,
           Connecting, SessionShape, Handshake, Holding, Announced

LEMMA OrderlyInvImplies == OrderlyInv => OrderlyPresenceExact
<1> SUFFICES ASSUME OrderlyInv, NEW u \in Users, orderly[u]
             PROVE  /\ \A s \in SocketsOf(u) : Up(s) =>
                         u \in online /\ userSocket[u] = s /\ s \in socketUser /\ told[u]
                    /\ (\A s \in SocketsOf(u) : ~Engaged(s)) =>
                         u \notin online /\ ~told[u] /\ SocketsOf(u) \cap socketUser = {}
  BY DEF OrderlyPresenceExact
<1>1. OrderlyUser(u)
  BY DEF OrderlyInv
<1>2. \A s \in SocketsOf(u) : Holding(s) \/ Announced(s) => Engaged(s)
  BY <1>1 DEF OrderlyUser, SessionShape, Handshake, Holding, Announced, Engaged, Connecting
<1>3. ASSUME NEW s \in SocketsOf(u), Up(s)
      PROVE  u \in online /\ userSocket[u] = s /\ s \in socketUser /\ told[u]
  <2>1. Holding(s) /\ Announced(s)
    BY <1>1, <1>3 DEF OrderlyUser, SessionShape, Handshake, Up, Holding, Announced
  <2>2. s # NoSocket
    BY PresenceConstants DEF SocketsOf
  <2> QED BY <1>1, <2>1, <2>2 DEF OrderlyUser, OrderlyInv, KeysAgree
<1>4. ASSUME \A s \in SocketsOf(u) : ~Engaged(s)
      PROVE  u \notin online /\ ~told[u] /\ SocketsOf(u) \cap socketUser = {}
  <2>1. userSocket[u] \notin SocketsOf(u)
    BY <1>1, <1>2, <1>4 DEF OrderlyUser
  <2>2. u \notin online
    BY <2>1 DEF OrderlyInv, KeysAgree, TypeOK, SocketsOf
  <2> QED BY <1>1, <1>2, <1>4, <2>2 DEF OrderlyUser
<1> QED BY <1>3, <1>4

\* Presence is exact for a user whose sessions come one at a time and complete, whatever
\* the other users, the cleanup runs and the failures do.
THEOREM OrderlyAlwaysExact == Spec => []OrderlyPresenceExact
BY OrderlyInvInit, OrderlyStep, OrderlyInvImplies, PTL DEF Spec
-----------------------------------------------------------------------------
(* RoomService *)

\* Whoever lists a room is known to it, whom it knows and who does not list it was missed, and a
\* removal under way has read all the rooms it will take from the user's list but those it missed.
RoomServiceInv ==
    /\ roomsOf \subseteq usersOf
    /\ usersOf \ roomsOf \subseteq missed
    /\ \A m \in removals :
        /\ m.read \subseteq m.kind
        /\ \A r \in m.kind \ m.read : <<m.user, r>> \in roomsOf => <<m.user, r>> \in missed

LEMMA RoomServiceInvInit == RoomServiceInit => RoomServiceInv
BY DEF RoomServiceInit, RoomServiceInv

LEMMA JoinKeeps ==
    ASSUME RoomServiceInv, NEW u, NEW r, Join(u, r) PROVE RoomServiceInv'
<1> DEFINE p == <<u, r>>
<1>1. /\ roomsOf' = roomsOf \cup {p} /\ usersOf' = usersOf \cup {p} /\ removals' = removals
      /\ \A q \in missed : q # p => q \in missed'
      /\ (\E m \in removals : m.user = u /\ r \in m.kind \ m.read) => p \in missed'
  BY DEF Join
<1>2. roomsOf' \subseteq usersOf' /\ usersOf' \ roomsOf' \subseteq missed'
  BY <1>1 DEF RoomServiceInv
<1>3. ASSUME NEW m \in removals, NEW t \in m.kind \ m.read, <<m.user, t>> \in roomsOf'
      PROVE  <<m.user, t>> \in missed'
  <2>1. CASE <<m.user, t>> = p
    <3>1. m.user = u /\ t = r BY <2>1
    <3> QED BY <1>1, <2>1, <3>1
  <2>2. CASE <<m.user, t>> # p
    BY <1>1, <1>3, <2>2 DEF RoomServiceInv
  <2> QED BY <2>1, <2>2
<1> QED BY <1>1, <1>2, <1>3 DEF RoomServiceInv

LEMMA LeaveKeeps ==
    ASSUME RoomServiceInv, NEW u, NEW r, Leave(u, r) PROVE RoomServiceInv'
BY DEF RoomServiceInv, Leave

LEMMA ReadRoomsKeeps ==
    ASSUME RoomServiceInv, NEW u, NEW kind, ReadRooms(u, kind) PROVE RoomServiceInv'
<1> DEFINE n == [user |-> u, kind |-> kind, read |-> {r \in kind : <<u, r>> \in roomsOf}]
<1>1. UNCHANGED <<roomsOf, usersOf, missed>> /\ removals' = removals \cup {n}
  BY DEF ReadRooms
<1>2. n.read \subseteq n.kind /\ \A r \in n.kind \ n.read : <<n.user, r>> \notin roomsOf
  OBVIOUS
<1> QED BY <1>1, <1>2 DEF RoomServiceInv

LEMMA RemoveReadKeeps ==
    ASSUME RoomServiceInv, NEW m, RemoveRead(m) PROVE RoomServiceInv'
BY DEF RoomServiceInv, RemoveRead

LEMMA RoomServiceStep ==
    RoomServiceInv /\ [RoomServiceNext]_roomServiceVars => RoomServiceInv'
<1> SUFFICES ASSUME RoomServiceInv, [RoomServiceNext]_roomServiceVars PROVE RoomServiceInv'
  OBVIOUS
<1>1. CASE UNCHANGED roomServiceVars
  BY <1>1 DEF roomServiceVars, RoomServiceInv
<1>2. ASSUME NEW m \in removals, RemovalFails(m) PROVE RoomServiceInv'
  BY <1>2 DEF RemovalFails, RoomServiceInv
<1>3. ASSUME NEW u \in Visitors, NEW r \in RoomNames,
             \/ JoinRoom(u, r) \/ LeaveRoom(u, r) \/ JoinTaskRoom(u, r) \/ LeaveTaskRoom(u, r)
             \/ JoinGroupRoom(u, r) \/ LeaveGroupRoom(u, r)
      PROVE  RoomServiceInv'
  BY <1>3, JoinKeeps, LeaveKeeps
     DEF JoinRoom, LeaveRoom, JoinTaskRoom, LeaveTaskRoom, JoinGroupRoom, LeaveGroupRoom
<1>4. ASSUME NEW u \in Visitors, AutoJoinFamily(u) PROVE RoomServiceInv'
  BY <1>4, JoinKeeps DEF AutoJoinFamily, JoinGroupRoom
<1>5. ASSUME NEW u \in Visitors,
             \/ RemoveUserFromAllRooms(u) \/ RemoveUserFromAllTaskRooms(u)
             \/ RemoveUserFromAllGroupRooms(u)
      PROVE  RoomServiceInv'
  BY <1>5, ReadRoomsKeeps, RemoveReadKeeps
     DEF RemoveUserFromAllRooms, RemoveUserFromAllTaskRooms, RemoveUserFromAllGroupRooms
<1> QED
  BY <1>1, <1>2, <1>3, <1>4, <1>5 DEF RoomServiceNext

\* The sets of a room and the sets of its users agree, in every interleaving of joins, leaves and
\* removals, but for those who joined behind a removal (SocketRoomService).
THEOREM SetsAlwaysAgree == RoomServiceSpec => []SetsAgree
<1>1. RoomServiceInv => SetsAgree
  BY DEF RoomServiceInv, SetsAgree, IsUserInRoom, IsUserInTaskRoom, IsUserInGroupRoom,
         GetRoomUsers, GetTaskRoomUsers, GetGroupRoomUsers
<1> QED
  BY <1>1, RoomServiceInvInit, RoomServiceStep, PTL DEF RoomServiceSpec
-----------------------------------------------------------------------------
(* PresenceQueries *)

\* While a query of related users is under way, or answered, its history is about the rows as they
\* are; what it has read so far is of the moments the history covers.
RelatedInv ==
    /\ takesPart \subseteq Folks \X Talks
    /\ related \subseteq Kin
    /\ step \in {"family", "talks", "others", "done"} =>
        /\ TalksOf(Asker, takesPart) \subseteq crossed
        /\ Partners(crossed, takesPart) \subseteq met
        /\ kept \subseteq Shared(takesPart)
    /\ step \in {"family", "talks", "others"} => listed = hereAtStart
    /\ step = "others" => talks \subseteq crossed /\ \A p \in kept : p[2] \in talks
    /\ step = "done" =>
        /\ answer \subseteq hereAtStart
        /\ answer \subseteq Kin \cup met \cup {Asker}
        /\ \A p \in kept : p[1] \in hereAtStart => p[1] \in answer
        /\ Asker \in hereAtStart => Asker \in answer

\* The users the number was of differ from those who are online, and then from those who were
\* listed, by no one who did not come or go.
StatsInv ==
    /\ IsFiniteSet(here) /\ IsFiniteSet(churn)
    /\ step = "online" => churn = {}
    /\ step = "members" =>
        \E S : /\ IsFiniteSet(S) /\ total = Cardinality(S)
               /\ S \ here \subseteq churn /\ here \ S \subseteq churn
    /\ step = "stats" =>
        \E S : /\ IsFiniteSet(S) /\ total = Cardinality(S) /\ IsFiniteSet(listed)
               /\ S \ listed \subseteq churn /\ listed \ S \subseteq churn

LEMMA PresenceQueriesInvInit == PresenceQueriesInit => RelatedInv /\ StatsInv
<1> SUFFICES ASSUME PresenceQueriesInit PROVE RelatedInv /\ StatsInv
  OBVIOUS
<1>1. RelatedInv
  BY DEF PresenceQueriesInit, RelatedInv
<1>2. StatsInv
  BY FS_EmptySet DEF PresenceQueriesInit, StatsInv
<1> QED BY <1>1, <1>2

LEMMA RelatedStep == RelatedInv /\ [PresenceQueriesNext]_presenceQueryVars => RelatedInv'
<1> SUFFICES ASSUME RelatedInv, [PresenceQueriesNext]_presenceQueryVars PROVE RelatedInv'
  OBVIOUS
<1> USE PresenceQueriesConstants
<1>1. CASE WorldMoves
  <2>1. takesPart' \subseteq Folks \X Talks
    BY <1>1 DEF WorldMoves, RelatedInv
  <2>2. UNCHANGED <<step, listed, related, talks, answer, hereAtStart>>
    BY <1>1 DEF WorldMoves, query
  <2>3. CASE step = "online"
    BY <2>1, <2>2, <2>3 DEF RelatedInv
  <2>4. CASE step # "online"
    <3>1. /\ kept' = kept \cap Shared(takesPart')
          /\ crossed' = crossed \cup TalksOf(Asker, takesPart')
          /\ met' = met \cup Partners(crossed', takesPart')
      BY <1>1, <2>4 DEF WorldMoves
    <3> QED BY <2>1, <2>2, <3>1 DEF RelatedInv
  <2> QED BY <2>3, <2>4
<1>2. CASE GetAllOnlineUsers
  <2>1. /\ listed' = here /\ hereAtStart' = here /\ kept' = Shared(takesPart)
        /\ crossed' = TalksOf(Asker, takesPart) /\ met' = Partners(crossed', takesPart)
        /\ UNCHANGED <<takesPart, related>>
        /\ \/ here = {} /\ step' = "done" /\ answer' = {}
           \/ step' = "family"
    BY <1>2 DEF GetAllOnlineUsers, Answers, world
  <2> QED BY <2>1 DEF RelatedInv
<1>3. CASE ReadFamily
  BY <1>3 DEF ReadFamily, RelatedInv, world, past
<1>4. CASE ReadParticipations
  <2>1. UNCHANGED <<takesPart, listed, related, hereAtStart, kept, crossed, met>>
        /\ step = "talks" /\ talks' = TalksOf(Asker, takesPart)
    BY <1>4 DEF ReadParticipations, world, past
  <2>2. \A p \in kept : p[1] \in Folks /\ p[2] \in talks'
    BY <2>1 DEF RelatedInv, Shared, TalksOf
  <2>3. CASE talks' = {}
    <3>1. step' = "done" /\ answer' = listed \cap (related \cup {Asker})
      BY <1>4, <2>3 DEF ReadParticipations, Answers
    <3> QED BY <2>1, <2>2, <2>3, <3>1 DEF RelatedInv
  <2>4. CASE talks' # {}
    <3>1. step' = "others"
      BY <1>4, <2>4 DEF ReadParticipations
    <3> QED BY <2>1, <2>2, <3>1 DEF RelatedInv
  <2> QED BY <2>3, <2>4
<1>5. CASE ReadOthers
  <2>1. UNCHANGED <<takesPart, listed, related, talks, hereAtStart, kept, crossed, met>>
        /\ step = "others" /\ step' = "done"
        /\ answer' = listed \cap (related \cup Partners(talks, takesPart) \cup {Asker})
    BY <1>5 DEF ReadOthers, Answers, world, past
  <2>2. Partners(talks, takesPart) \subseteq met
    BY <2>1 DEF RelatedInv, Partners
  <2>3. \A p \in kept : p[1] \in Partners(talks, takesPart)
    <3> SUFFICES ASSUME NEW p \in kept PROVE p[1] \in Partners(talks, takesPart)
      OBVIOUS
    <3>1. p \in takesPart /\ p \in Folks \X Talks /\ p[2] \in talks
      BY <2>1 DEF RelatedInv, Shared
    <3>2. p = <<p[1], p[2]>> /\ p[1] \in Folks /\ p[2] \in Talks
      BY <3>1
    <3> QED BY <3>1, <3>2 DEF Partners, TalksOf
  <2> QED BY <2>1, <2>2, <2>3 DEF RelatedInv
<1>6. CASE GetRelatedFails
  BY <1>6 DEF GetRelatedFails, RelatedInv, world, past
<1>7. CASE GetSystemStats
  BY <1>7 DEF GetSystemStats, GetOnlineUsersCount, StatsMembers, RelatedInv, world, past
<1>8. CASE Answered
  BY <1>8 DEF Answered, RelatedInv
<1>9. CASE UNCHANGED presenceQueryVars
  BY <1>9 DEF presenceQueryVars, world, query, past, RelatedInv
<1> QED
  BY <1>1, <1>2, <1>3, <1>4, <1>5, <1>6, <1>7, <1>8, <1>9
     DEF PresenceQueriesNext, HandleGetRelatedOnlineUsers, GetRelatedOnlineUsers

LEMMA StatsStep == StatsInv /\ [PresenceQueriesNext]_presenceQueryVars => StatsInv'
<1> SUFFICES ASSUME StatsInv, [PresenceQueriesNext]_presenceQueryVars PROVE StatsInv'
  OBVIOUS
<1>1. CASE WorldMoves
  <2>1. UNCHANGED <<step, listed, total>>
    BY <1>1 DEF WorldMoves, query
  <2>2. CASE UNCHANGED <<here, churn>>
    BY <2>1, <2>2 DEF StatsInv
  <2>3. ASSUME NEW u \in Folks, here' = (here \ {u}) \cup ({u} \ here),
               churn' = IF step = "online" THEN {} ELSE churn \cup {u}
        PROVE  StatsInv'
    <3>1. IsFiniteSet(here') /\ IsFiniteSet(churn')
      <4>1. IsFiniteSet({u}) /\ IsFiniteSet({u} \ here) /\ IsFiniteSet(here \ {u}) /\ IsFiniteSet({})
        BY FS_Singleton, FS_EmptySet, FS_Difference DEF StatsInv
      <4> QED BY <2>3, <4>1, FS_Union DEF StatsInv
    <3>2. CASE step = "online"
      BY <2>1, <2>3, <3>1, <3>2 DEF StatsInv
    <3>3. CASE step # "online"
      BY <2>1, <2>3, <3>1, <3>3 DEF StatsInv
    <3> QED BY <3>2, <3>3
  <2> QED BY <1>1, <2>2, <2>3 DEF WorldMoves
<1>2. CASE GetOnlineUsersCount
  BY <1>2 DEF GetOnlineUsersCount, StatsInv, world, past
<1>3. CASE StatsMembers
  BY <1>3 DEF StatsMembers, StatsInv, world, past
<1>4. CASE HandleGetRelatedOnlineUsers
  BY <1>4 DEF HandleGetRelatedOnlineUsers, GetRelatedOnlineUsers, GetAllOnlineUsers, ReadFamily,
     ReadParticipations, ReadOthers, GetRelatedFails, Answers, StatsInv, world, past
<1>5. CASE Answered
  BY <1>5, FS_EmptySet DEF Answered, StatsInv
<1>6. CASE UNCHANGED presenceQueryVars
  BY <1>6 DEF presenceQueryVars, world, query, past, StatsInv
<1> QED
  BY <1>1, <1>2, <1>3, <1>4, <1>5, <1>6 DEF PresenceQueriesNext, GetSystemStats

\* A finite set is no larger than one it differs from by elements of another, and that other.
LEMMA DifferByFew ==
    ASSUME NEW S, NEW T, NEW D, IsFiniteSet(S), IsFiniteSet(T), IsFiniteSet(D), S \ T \subseteq D
    PROVE  Cardinality(S) <= Cardinality(T) + Cardinality(D)
<1>1. S \subseteq T \cup D
  OBVIOUS
<1>2. /\ IsFiniteSet(T \cup D)
      /\ Cardinality(T \cup D) = Cardinality(T) + Cardinality(D) - Cardinality(T \cap D)
  BY FS_Union
<1>3. Cardinality(T \cap D) \in Nat
  BY FS_Intersection, FS_CardinalityType
<1>4. Cardinality(S) <= Cardinality(T \cup D)
  BY <1>1, <1>2, FS_Subset
<1>5. Cardinality(S) \in Nat /\ Cardinality(T) \in Nat /\ Cardinality(D) \in Nat
  BY FS_CardinalityType
<1> QED BY <1>2, <1>3, <1>4, <1>5

\* The list of related users and the numbers of the presence statistics are what RelatedListed
\* says, wherever users come, go, join and leave between the reads (SocketAuthService).
THEOREM RelatedAlwaysListed == PresenceQueriesSpec => []RelatedListed
<1>1. RelatedInv /\ StatsInv => RelatedListed
  <2> SUFFICES ASSUME RelatedInv, StatsInv PROVE RelatedListed
    OBVIOUS
  <2>1. ASSUME step = "stats"
        PROVE  /\ total <= Cardinality(listed) + Cardinality(churn)
               /\ Cardinality(listed) <= total + Cardinality(churn)
    BY <2>1, DifferByFew DEF StatsInv
  <2> QED BY <2>1 DEF RelatedInv, RelatedListed
<1> QED
  BY <1>1, PresenceQueriesInvInit, RelatedStep, StatsStep, PTL DEF PresenceQueriesSpec
=============================================================================
