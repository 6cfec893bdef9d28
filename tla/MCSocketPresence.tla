-------------------------- MODULE MCSocketPresence --------------------------
(***************************************************************************)
(* One user who reconnects with a second socket on the other process; two  *)
(* users in and out of rooms of three kinds.  The two share no variable:   *)
(* each moves while the other is where it began, which shows every         *)
(* behaviour of each.                                                      *)
(***************************************************************************)
EXTENDS SocketPresence, RoomService

CONSTANTS alice, a1, a2, w1, w2, visitor, guest, family

MCUserOf == [s \in Sockets |-> alice]
MCWorkerOf == [s \in Sockets |-> IF s = a1 THEN w1 ELSE w2]
MCFamilyRoom == [u \in {visitor} |-> family]

MCInit == Init /\ RoomServiceInit

MCNext ==
    \/ RoomServiceInit /\ Next /\ UNCHANGED roomServiceVars
    \/ Init /\ RoomServiceNext /\ UNCHANGED vars

MCSpec == MCInit /\ [][MCNext]_<<vars, roomServiceVars>> /\ Fairness
=============================================================================
