-------------------------- MODULE NotificationUnread --------------------------
(***************************************************************************)
(* The notifications of one user and the unread counter NotificationService*)
(* keeps in Redis beside them.  The table and the counter change in        *)
(* separate calls: the row first, then INCR or DECR, then EXPIRE; or a     *)
(* delete of the key; or, to read it, RedisService.getOrSet.  One action   *)
(* per await; requests overlap freely.                                     *)
(***************************************************************************)
EXTENDS Integers, FiniteSets

CONSTANTS
    Notes,          \* bound: notifications sent to the user
    Requests,       \* calls that may be in flight together
    None,
    MaxRepeats,     \* bound: reads and deletions of a notification that is not counted
    MaxFaults       \* bound: calls that reject

ASSUME UnreadConstants ==
    /\ IsFiniteSet(Notes)
    /\ None \notin Int
    /\ MaxRepeats \in Nat /\ MaxFaults \in Nat

VARIABLES
    sent, read, gone,   \* the table: notifications with a row, with isRead, with isDeleted
    cached,             \* the counter; None: no key
    expiring,           \* the key has a time to live
    pc,                 \* the next call of a request; "idle": none
    fetched,            \* what fetchUnreadCount of the request returned
    repeats, faults,
    exact               \* history: since the key was last gone with no request under way,
                        \* requests ran alone, met a counter that covered what was unread,
                        \* changed a counted notification, and none failed

table == <<sent, read, gone>>
vars  == <<table, cached, expiring, pc, fetched, repeats, faults, exact>>

Unread == sent \ (read \cup gone)

Idle(r) == pc[r] = "idle"
Quiet == \A r \in Requests : Idle(r)
Alone(r) == \A q \in Requests \ {r} : Idle(q)

Goto(r, call) == pc' = [pc EXCEPT ![r] = call]

Begin(r, call) == Idle(r) /\ Goto(r, call)

Fault == faults < MaxFaults /\ faults' = faults + 1

\* A notification that is read or deleted once more, though the counter is rid of it.
Repeat(n) ==
    IF n \in Unread THEN UNCHANGED repeats
    ELSE repeats < MaxRepeats /\ repeats' = repeats + 1

-----------------------------------------------------------------------------
(* The table *)

\* sendNotification: the row; the emission to the socket swallows its errors.
CreateRow(r, n) ==
    /\ Begin(r, "incr")
    /\ n \notin sent
    /\ sent' = sent \cup {n}
    /\ exact' = (exact /\ Alone(r))
    /\ UNCHANGED <<read, gone, cached, expiring, fetched, repeats, faults>>

\* markAsRead: the row is found by id and receiver, read, deleted or not.
MarkAsRead(r, n) ==
    /\ Begin(r, "decr")
    /\ n \in sent
    /\ Repeat(n)
    /\ read' = read \cup {n}
    /\ exact' = (exact /\ Alone(r) /\ n \in Unread)
    /\ UNCHANGED <<sent, gone, cached, expiring, fetched, faults>>

MarkAllAsRead(r) ==
    /\ Begin(r, "drop")
    /\ read' = read \cup Unread
    /\ exact' = (exact /\ Alone(r))
    /\ UNCHANGED <<sent, gone, cached, expiring, fetched, repeats, faults>>

\* Mutant: the counter goes down for a notification that was read, too.
MutDeleteIgnoresRead(r, n) ==
    /\ n \in sent
    /\ gone' = gone \cup {n}
    /\ Begin(r, "decr")
    /\ IF n \in read
       THEN UNCHANGED <<exact, repeats>>
       ELSE Repeat(n) /\ exact' = (exact /\ Alone(r) /\ n \in Unread)
    /\ UNCHANGED <<sent, read, cached, expiring, fetched, faults>>

\* deleteNotification: a read one leaves the counter alone.
DeleteNotification(r, n) ==
    /\ n \in sent
    /\ gone' = gone \cup {n}
    /\ IF n \in read
       THEN Idle(r) /\ UNCHANGED <<pc, exact, repeats>>
       ELSE /\ Begin(r, "decr")
            /\ Repeat(n)
            /\ exact' = (exact /\ Alone(r) /\ n \in Unread)
    /\ UNCHANGED <<sent, read, cached, expiring, fetched, faults>>

-----------------------------------------------------------------------------
(* The counter *)

\* Redis counts a missing key from zero and gives it no time to live.
Add(d) ==
    /\ cached' = (IF cached = None THEN 0 ELSE cached) + d
    /\ expiring' = (expiring /\ cached # None)

IncrementUnreadCount(r) ==
    /\ pc[r] = "incr"
    /\ Add(1)
    /\ Goto(r, "expire")
    /\ exact' = (exact /\ (cached = None => Cardinality(Unread) = 1))
    /\ UNCHANGED <<table, fetched, repeats, faults>>

DecrementUnreadCount(r) ==
    /\ pc[r] = "decr"
    /\ Add(-1)
    /\ Goto(r, "expire")
    /\ exact' = (exact /\ cached # None)
    /\ UNCHANGED <<table, fetched, repeats, faults>>

\* Mutant: the time to live is not set.
MutNoExpire(r) ==
    /\ pc[r] = "expire"
    /\ Goto(r, "idle")
    /\ UNCHANGED <<table, cached, expiring, fetched, repeats, faults, exact>>

Touch == expiring' = (cached # None)

Expire(r) ==
    /\ pc[r] = "expire"
    /\ Touch
    /\ Goto(r, "idle")
    /\ UNCHANGED <<table, cached, fetched, repeats, faults, exact>>

Del == cached' = None /\ expiring' = FALSE

\* RedisService.invalidate.
Invalidate(r) ==
    /\ pc[r] = "drop"
    /\ Del
    /\ Goto(r, "idle")
    /\ exact' = (exact \/ Alone(r))
    /\ UNCHANGED <<table, fetched, repeats, faults>>

-----------------------------------------------------------------------------
(* getUnreadCount *)

\* getOrSet goes on to the table when there is no key, or when the GET rejects.
MissCache(r) ==
    /\ Begin(r, "count")
    /\ \/ cached = None /\ exact' = (exact /\ Alone(r)) /\ UNCHANGED faults
       \/ Fault /\ exact' = FALSE
    /\ UNCHANGED <<table, cached, expiring, fetched, repeats>>

FetchUnreadCount(r) ==
    /\ pc[r] = "count"
    /\ fetched' = [fetched EXCEPT ![r] = Cardinality(Unread)]
    /\ Goto(r, "fill")
    /\ UNCHANGED <<table, cached, expiring, repeats, faults, exact>>

\* Mutant: SET without EX.
MutFillForever(r) == cached' = fetched[r] /\ expiring' = FALSE

Set(r) == cached' = fetched[r] /\ expiring' = TRUE

\* The count read earlier is stored whatever has happened since.
FillCache(r) ==
    /\ pc[r] = "fill"
    /\ Set(r)
    /\ Goto(r, "idle")
    /\ UNCHANGED <<table, fetched, repeats, faults, exact>>

-----------------------------------------------------------------------------
\* A call rejects, applied or not, or the process dies; the request ends there.
CallFails(r) ==
    /\ ~Idle(r)
    /\ Fault
    /\ \/ UNCHANGED <<cached, expiring>>
       \/ pc[r] = "incr" /\ Add(1)
       \/ pc[r] = "decr" /\ Add(-1)
       \/ pc[r] = "expire" /\ Touch /\ UNCHANGED cached
       \/ pc[r] = "drop" /\ Del
       \/ pc[r] = "fill" /\ Set(r)
    /\ Goto(r, "idle")
    /\ exact' = FALSE
    /\ UNCHANGED <<table, fetched, repeats>>

\* The key runs out.
RunOut ==
    /\ expiring
    /\ Del
    /\ exact' = (exact \/ Quiet)
    /\ UNCHANGED <<table, pc, fetched, repeats, faults>>

Init ==
    /\ sent = {} /\ read = {} /\ gone = {}
    /\ cached = None /\ expiring = FALSE
    /\ pc = [r \in Requests |-> "idle"]
    /\ fetched = [r \in Requests |-> 0]
    /\ repeats = 0 /\ faults = 0
    /\ exact = TRUE

Request(r) ==
    \/ \E n \in Notes : CreateRow(r, n) \/ MarkAsRead(r, n) \/ DeleteNotification(r, n)
    \/ MarkAllAsRead(r) \/ MissCache(r)

Continue(r) ==
    \/ IncrementUnreadCount(r) \/ DecrementUnreadCount(r) \/ Expire(r) \/ Invalidate(r)
    \/ FetchUnreadCount(r) \/ FillCache(r)

Next ==
    \/ \E r \in Requests : Request(r) \/ Continue(r) \/ CallFails(r)
    \/ RunOut

Spec == Init /\ [][Next]_vars

\* Calls return, and Redis drops a key with a time to live once nothing renews it.
FairSpec == Spec /\ WF_vars(RunOut) /\ \A r \in Requests : WF_vars(Continue(r))

-----------------------------------------------------------------------------
(* Properties *)

Calls == {"idle", "incr", "decr", "expire", "drop", "count", "fill"}

\* The type invariant of table and counter.  A key with a time to live is a key.
TypeOK ==
    /\ sent \subseteq Notes /\ read \subseteq sent /\ gone \subseteq sent
    /\ cached \in Int \cup {None}
    /\ expiring \in BOOLEAN /\ (expiring => cached # None)
    /\ pc \in [Requests -> Calls]
    /\ fetched \in [Requests -> 0..Cardinality(Notes)]
    /\ repeats \in 0..MaxRepeats /\ faults \in 0..MaxFaults
    /\ exact \in BOOLEAN

\* The counter agrees with the table whenever no request is under way, as long as the
\* requests since it was last gone ran alone, met a key (or nothing else unread), and read
\* or deleted notifications that were counted.  Any of these left out, it may drift.
CountExactInOrder ==
    exact /\ Quiet /\ cached # None => cached = Cardinality(Unread)

\* A counter without a time to live is one a request has just made and is about to give
\* one, or a call failed in between: whatever overlaps, drift is not kept for ever.
LastingOnlyAfterFault ==
    cached # None /\ ~expiring => (\E r \in Requests : pc[r] = "expire") \/ faults > 0

\* A counter that drifted is gone or right again in the end, unless a call failed.
DriftHeals ==
    (cached # None /\ cached # Cardinality(Unread))
        ~> (cached = None \/ cached = Cardinality(Unread) \/ faults > 0)
=============================================================================
