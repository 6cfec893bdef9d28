------------------------------- MODULE Devices -------------------------------
(***************************************************************************)
(* UserDevicesService: the rows of one user and one push token.  A         *)
(* registration looks for a live row and then updates it or creates one,   *)
(* a removal by id looks for it and then marks it, a removal by token is   *)
(* one statement; no index keeps the token unique.                         *)
(***************************************************************************)
EXTENDS Naturals, FiniteSets

CONSTANTS
    DeviceRows,     \* ids of rows; each is used once
    DeviceCalls,    \* calls that may be under way together
    NoRow

ASSUME DevicesConstants == NoRow \notin DeviceRows

VARIABLES
    live,           \* rows that are there and not marked deleted
    gone,           \* rows marked deleted
    doing,          \* what each call does next
    held,           \* the row it found
    mixed,          \* history: the calls under way that another overlapped
    lastWord,       \* history: the last call to finish, and whether another overlapped it
    neat            \* history: no two calls overlapped so far

deviceVars == <<live, gone, doing, held, mixed, lastWord, neat>>

Free(c) == doing[c] = "free"
Busy == {c \in DeviceCalls : ~Free(c)}
Resting == Busy = {}

Unused == DeviceRows \ (live \cup gone)

\* A call starts: it and those under way overlap.
Starts(c, next, row) ==
    /\ Free(c)
    /\ doing' = [doing EXCEPT ![c] = next]
    /\ held' = [held EXCEPT ![c] = row]
    /\ mixed' = IF Resting THEN mixed ELSE mixed \cup Busy \cup {c}
    /\ neat' = (neat /\ Resting)

Ends(c, word) ==
    /\ doing' = [doing EXCEPT ![c] = "free"]
    /\ held' = [held EXCEPT ![c] = NoRow]
    /\ mixed' = mixed \ {c}
    /\ lastWord' = [said |-> word, overlapped |-> c \in mixed]

-----------------------------------------------------------------------------
(* registerOrUpdateDevice *)

\* Mutant: the lookup does not leave the deleted rows out.
MutFindsDeleted(c) ==
    /\ IF live \cup gone = {}
       THEN Starts(c, "create", NoRow)
       ELSE \E d \in live \cup gone : Starts(c, "update", d)
    /\ UNCHANGED <<live, gone, lastWord>>

FindDevice(c) ==
    /\ IF live = {} THEN Starts(c, "create", NoRow) ELSE \E d \in live : Starts(c, "update", d)
    /\ UNCHANGED <<live, gone, lastWord>>

\* lastActive, type and name; a row deleted since it was found stays deleted.
UpdateDevice(c) ==
    /\ doing[c] = "update"
    /\ Ends(c, "registered")
    /\ UNCHANGED <<live, gone, neat>>

CreateDevice(c) ==
    /\ doing[c] = "create"
    /\ \E d \in Unused : live' = live \cup {d}
    /\ Ends(c, "registered")
    /\ UNCHANGED <<gone, neat>>

\* The second call of one rejects.  (One that was applied all the same counts as done.)
DeviceCallFails(c) ==
    /\ ~Free(c)
    /\ Ends(c, "failed")
    /\ UNCHANGED <<live, gone, neat>>

-----------------------------------------------------------------------------
(* The rest *)

\* removeDevice; "Device not found" is no action.
FindForRemoval(c, d) ==
    /\ d \in live
    /\ Starts(c, "remove", d)
    /\ UNCHANGED <<live, gone, lastWord>>

RemoveDevice(c) ==
    /\ doing[c] = "remove"
    /\ live' = live \ {held[c]} /\ gone' = gone \cup {held[c]}
    /\ Ends(c, "removed")
    /\ UNCHANGED neat

RemoveDeviceByToken ==
    /\ live' = {} /\ gone' = gone \cup live
    /\ mixed' = mixed \cup Busy /\ neat' = (neat /\ Resting)
    /\ lastWord' = [said |-> "forgotten", overlapped |-> ~Resting]
    /\ UNCHANGED <<doing, held>>

DevicesInit ==
    /\ live = {} /\ gone = {} /\ mixed = {} /\ neat = TRUE
    /\ doing = [c \in DeviceCalls |-> "free"] /\ held = [c \in DeviceCalls |-> NoRow]
    /\ lastWord = [said |-> "forgotten", overlapped |-> FALSE]

RegisterOrUpdateDevice(c) == FindDevice(c) \/ UpdateDevice(c) \/ CreateDevice(c)

DevicesNext ==
    \/ \E c \in DeviceCalls :
        RegisterOrUpdateDevice(c) \/ RemoveDevice(c) \/ DeviceCallFails(c)
        \/ \E d \in DeviceRows : FindForRemoval(c, d)
    \/ RemoveDeviceByToken

DevicesSpec == DevicesInit /\ [][DevicesNext]_deviceVars

-----------------------------------------------------------------------------
\* What the last call said holds when no other overlapped it, whatever came before: after a
\* registration the token has a live row, after a removal by token none.  While calls never
\* overlap there is one live row at most, so that a removal by id leaves none either.  (Two
\* registrations that overlap leave two rows, and one that overlaps a removal may be lost.)
LastWordHolds ==
    /\ Resting /\ ~lastWord.overlapped =>
        /\ lastWord.said = "registered" => live # {}
        /\ lastWord.said = "forgotten" => live = {}
    /\ neat =>
        /\ Cardinality(live) <= 1
        /\ Resting /\ lastWord.said = "removed" => live = {}
=============================================================================
