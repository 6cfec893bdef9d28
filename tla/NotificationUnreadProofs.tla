----------------------- MODULE NotificationUnreadProofs -----------------------
(***************************************************************************)
(* Proofs about NotificationUnread, for any notifications and requests,    *)
(* and about NotificationJobs, for any calls, receivers and attempts.      *)
(***************************************************************************)
EXTENDS NotificationUnread, NotificationJobs, FiniteSetTheorems, TLAPS

LEMMA UnreadFinite ==
  ASSUME sent \subseteq Notes
  PROVE  IsFiniteSet(Unread) /\ Cardinality(Unread) \in 0..Cardinality(Notes)
<1>1. Unread \subseteq Notes
  BY DEF Unread
<1> QED BY <1>1, FS_Subset, FS_CardinalityType, UnreadConstants

LEMMA TypeOKStep == TypeOK /\ [Next]_vars => TypeOK'
<1> SUFFICES ASSUME TypeOK, [Next]_vars PROVE TypeOK'
  OBVIOUS
<1> USE UnreadConstants DEF TypeOK, Calls, Begin, Goto, Idle, table
<1>1. ASSUME NEW r \in Requests, NEW n \in Notes, CreateRow(r, n) PROVE TypeOK'
  <2>1. exact' \in BOOLEAN BY <1>1 DEF CreateRow
  <2> QED BY <1>1, <2>1 DEF CreateRow
<1>2. ASSUME NEW r \in Requests, NEW n \in Notes, MarkAsRead(r, n) PROVE TypeOK'
  <2>1. exact' \in BOOLEAN BY <1>2 DEF MarkAsRead
  <2>2. repeats' \in 0..MaxRepeats BY <1>2 DEF MarkAsRead, Repeat
  <2> QED BY <1>2, <2>1, <2>2 DEF MarkAsRead
<1>3. ASSUME NEW r \in Requests, NEW n \in Notes, DeleteNotification(r, n) PROVE TypeOK'
  <2>1. exact' \in BOOLEAN BY <1>3 DEF DeleteNotification
  <2>2. repeats' \in 0..MaxRepeats BY <1>3 DEF DeleteNotification, Repeat
  <2>3. pc' \in [Requests -> Calls] BY <1>3 DEF DeleteNotification
  <2> QED BY <1>3, <2>1, <2>2, <2>3 DEF DeleteNotification
<1>4. ASSUME NEW r \in Requests, MarkAllAsRead(r) PROVE TypeOK'
  BY <1>4 DEF MarkAllAsRead, Unread
<1>5. ASSUME NEW r \in Requests, MissCache(r) PROVE TypeOK'
  <2>1. exact' \in BOOLEAN BY <1>5 DEF MissCache
  <2>2. faults' \in 0..MaxFaults BY <1>5 DEF MissCache, Fault
  <2> QED BY <1>5, <2>1, <2>2 DEF MissCache
<1>6. ASSUME NEW r \in Requests, IncrementUnreadCount(r) PROVE TypeOK'
  BY <1>6 DEF IncrementUnreadCount, Add
<1>7. ASSUME NEW r \in Requests, DecrementUnreadCount(r) PROVE TypeOK'
  BY <1>7 DEF DecrementUnreadCount, Add
<1>8. ASSUME NEW r \in Requests, Expire(r) \/ Invalidate(r) PROVE TypeOK'
  BY <1>8 DEF Expire, Touch, Invalidate, Del
<1>9. ASSUME NEW r \in Requests, FetchUnreadCount(r) PROVE TypeOK'
  BY <1>9, UnreadFinite DEF FetchUnreadCount
<1>10. ASSUME NEW r \in Requests, FillCache(r) PROVE TypeOK'
  <2>1. fetched[r] \in Int
    BY UnreadFinite, FS_CardinalityType
  <2> QED BY <1>10, <2>1 DEF FillCache, Set
<1>11. ASSUME NEW r \in Requests, CallFails(r) PROVE TypeOK'
  <2>1. fetched[r] \in Int
    BY UnreadFinite, FS_CardinalityType
  <2>2. cached' \in Int \cup {None} /\ expiring' \in BOOLEAN /\ (expiring' => cached' # None)
    <3>1. CASE UNCHANGED <<cached, expiring>> BY <3>1
    <3>2. CASE Add(1) \/ Add(-1) BY <3>2 DEF Add
    <3>3. CASE Touch /\ UNCHANGED cached BY <3>3 DEF Touch
    <3>4. CASE Del \/ Set(r) BY <2>1, <3>4 DEF Del, Set
    <3> QED BY <1>11, <3>1, <3>2, <3>3, <3>4 DEF CallFails
  <2>3. faults' \in 0..MaxFaults
    BY <1>11 DEF CallFails, Fault
  <2> QED BY <1>11, <2>2, <2>3 DEF CallFails
<1>12. CASE RunOut BY <1>12 DEF RunOut, Del
<1>13. CASE UNCHANGED vars BY <1>13 DEF vars
<1> QED BY <1>1, <1>2, <1>3, <1>4, <1>5, <1>6, <1>7, <1>8, <1>9, <1>10, <1>11, <1>12, <1>13
        DEF Next, Request, Continue

LEMMA TypeOKInit == Init => TypeOK
<1>1. Cardinality(Notes) \in Nat
  BY FS_CardinalityType, UnreadConstants
<1>2. Init => /\ 0 \in 0..Cardinality(Notes) /\ pc \in [Requests -> Calls]
              /\ fetched \in [Requests -> 0..Cardinality(Notes)]
  BY <1>1 DEF Init, Calls
<1>3. Init => repeats \in 0..MaxRepeats /\ faults \in 0..MaxFaults
  BY UnreadConstants DEF Init
<1> QED BY <1>2, <1>3 DEF Init, TypeOK

\* The type invariant of table and counter.
THEOREM TypeCorrect == Spec => []TypeOK
BY TypeOKInit, TypeOKStep, PTL DEF Spec

-----------------------------------------------------------------------------
(* No lasting counter without a fault. *)

LEMMA LastingStep ==
  TypeOK /\ LastingOnlyAfterFault /\ [Next]_vars => LastingOnlyAfterFault'
<1> SUFFICES ASSUME TypeOK, LastingOnlyAfterFault, [Next]_vars PROVE LastingOnlyAfterFault'
  OBVIOUS
<1> USE UnreadConstants DEF TypeOK, LastingOnlyAfterFault, Begin, Goto, Idle, table
<1>1. ASSUME NEW r \in Requests, Request(r) PROVE LastingOnlyAfterFault'
  BY <1>1 DEF Request, CreateRow, MarkAsRead, DeleteNotification, MarkAllAsRead, MissCache, Fault
<1>2. ASSUME NEW r \in Requests, IncrementUnreadCount(r) \/ DecrementUnreadCount(r)
      PROVE  LastingOnlyAfterFault'
  BY <1>2 DEF IncrementUnreadCount, DecrementUnreadCount
<1>3. ASSUME NEW r \in Requests, Expire(r) PROVE LastingOnlyAfterFault'
  BY <1>3 DEF Expire, Touch
<1>4. ASSUME NEW r \in Requests, Invalidate(r) \/ FetchUnreadCount(r) \/ FillCache(r)
      PROVE  LastingOnlyAfterFault'
  BY <1>4 DEF Invalidate, Del, FetchUnreadCount, FillCache, Set
<1>5. ASSUME NEW r \in Requests, CallFails(r) PROVE LastingOnlyAfterFault'
  BY <1>5 DEF CallFails, Fault
<1>6. CASE RunOut BY <1>6 DEF RunOut, Del
<1>7. CASE UNCHANGED vars BY <1>7 DEF vars
<1> QED BY <1>1, <1>2, <1>3, <1>4, <1>5, <1>6, <1>7 DEF Next, Continue

\* A counter that will never run out takes a failed call between INCR or DECR and EXPIRE.
THEOREM NeverLasting == Spec => []LastingOnlyAfterFault
<1>1. Init => LastingOnlyAfterFault
  BY DEF Init, LastingOnlyAfterFault
<1> QED BY <1>1, TypeOKInit, TypeOKStep, LastingStep, PTL DEF Spec

-----------------------------------------------------------------------------
(* The counter is exact while nothing overlaps: where the one request under way is    *)
(* says how far the counter is behind the table.                                      *)

Shows(count) == cached = None \/ cached = count

Behind(r) ==
    /\ pc[r] = "incr" => Shows(Cardinality(Unread) - 1)
    /\ pc[r] = "decr" => Shows(Cardinality(Unread) + 1)
    /\ pc[r] = "expire" => Shows(Cardinality(Unread))
    /\ pc[r] \in {"count", "fill"} => cached = None
    /\ pc[r] = "fill" => fetched[r] = Cardinality(Unread)

OneAtATime == \A q, r \in Requests : Idle(q) \/ Idle(r) \/ q = r

ExactInv ==
    exact => /\ OneAtATime
             /\ Quiet => Shows(Cardinality(Unread))
             /\ \A r \in Requests : Behind(r)

\* A request that begins alone was preceded by a quiet state.
LEMMA BeginsAlone ==
  ASSUME TypeOK, NEW r \in Requests, NEW call, Begin(r, call), call # "idle", Alone(r)
  PROVE  Quiet /\ OneAtATime' /\ ~Quiet' /\ \A q \in Requests \ {r} : pc'[q] = "idle"
BY DEF TypeOK, Begin, Goto, Idle, Alone, Quiet, OneAtATime

\* A request that goes on alone still is alone.
LEMMA StaysAlone ==
  ASSUME TypeOK, OneAtATime, NEW r \in Requests, NEW call, ~Idle(r), Goto(r, call)
  PROVE  /\ OneAtATime' /\ \A q \in Requests \ {r} : pc'[q] = "idle"
         /\ call # "idle" => ~Quiet'
BY DEF TypeOK, Goto, Idle, Quiet, OneAtATime

LEMMA RequestExact ==
  ASSUME TypeOK, ExactInv, NEW r \in Requests, Request(r)
  PROVE  ExactInv'
<1> SUFFICES ASSUME exact' PROVE ExactInv'
  BY DEF ExactInv
<1>0. IsFiniteSet(Unread) /\ Cardinality(Unread) \in Nat
  BY UnreadFinite, FS_CardinalityType, UnreadConstants DEF TypeOK
<1>1. ASSUME NEW n \in Notes, CreateRow(r, n) PROVE ExactInv'
  <2>1. exact /\ Begin(r, "incr") /\ Alone(r) /\ UNCHANGED cached
    BY <1>1 DEF CreateRow
  <2>2. Unread' = Unread \cup {n} /\ n \notin Unread
    BY <1>1 DEF CreateRow, Unread, TypeOK
  <2>3. Cardinality(Unread') = Cardinality(Unread) + 1
    BY <1>0, <2>2, FS_AddElement
  <2>4. Quiet /\ OneAtATime' /\ ~Quiet' /\ \A q \in Requests \ {r} : pc'[q] = "idle"
    BY <2>1, BeginsAlone
  <2> QED BY <1>0, <2>1, <2>3, <2>4 DEF ExactInv, Behind, Shows, Begin, Goto, TypeOK
<1>2. ASSUME NEW n \in Notes, n \in Unread, Begin(r, "decr"), Alone(r), exact,
             UNCHANGED cached, Unread' = Unread \ {n}
      PROVE  ExactInv'
  <2>1. Cardinality(Unread') = Cardinality(Unread) - 1
    BY <1>0, <1>2, FS_RemoveElement
  <2>2. Quiet /\ OneAtATime' /\ ~Quiet' /\ \A q \in Requests \ {r} : pc'[q] = "idle"
    BY <1>2, BeginsAlone
  <2>3. cached' = None \/ cached' = Cardinality(Unread') + 1
    BY <1>0, <1>2, <2>1, <2>2 DEF ExactInv, Shows
  <2>4. pc'[r] = "decr"
    BY <1>2 DEF Begin, Goto, TypeOK
  <2> QED BY <2>2, <2>3, <2>4 DEF ExactInv, Behind, Shows
<1>3. ASSUME NEW n \in Notes, MarkAsRead(r, n) PROVE ExactInv'
  BY <1>2, <1>3 DEF MarkAsRead, Unread
<1>4. ASSUME NEW n \in Notes, DeleteNotification(r, n) PROVE ExactInv'
  <2>1. CASE n \in read
    <3>1. Unread' = Unread /\ UNCHANGED <<pc, exact, cached, fetched>>
      BY <1>4, <2>1 DEF DeleteNotification, Unread
    <3> QED BY <3>1 DEF ExactInv, Behind, Shows, OneAtATime, Quiet, Idle
  <2>2. CASE n \notin read
    BY <1>2, <1>4, <2>2 DEF DeleteNotification, Unread
  <2> QED BY <2>1, <2>2
<1>5. CASE MarkAllAsRead(r)
  <2>1. exact /\ Begin(r, "drop") /\ Alone(r)
    BY <1>5 DEF MarkAllAsRead
  <2>2. OneAtATime' /\ ~Quiet' /\ \A q \in Requests \ {r} : pc'[q] = "idle"
    BY <2>1, BeginsAlone
  <2> QED BY <2>1, <2>2 DEF ExactInv, Behind, Begin, Goto, TypeOK
<1>6. CASE MissCache(r)
  <2>1. exact /\ Begin(r, "count") /\ Alone(r) /\ cached' = None
    BY <1>6 DEF MissCache
  <2>2. OneAtATime' /\ ~Quiet' /\ \A q \in Requests \ {r} : pc'[q] = "idle"
    BY <2>1, BeginsAlone
  <2> QED BY <2>1, <2>2 DEF ExactInv, Behind, Begin, Goto, TypeOK
<1> QED BY <1>1, <1>3, <1>4, <1>5, <1>6 DEF Request

LEMMA ContinueExact ==
  ASSUME TypeOK, ExactInv, NEW r \in Requests, Continue(r)
  PROVE  ExactInv'
<1> SUFFICES ASSUME exact' PROVE ExactInv'
  BY DEF ExactInv
<1>0. Cardinality(Unread) \in Nat
  BY UnreadFinite, FS_CardinalityType, UnreadConstants DEF TypeOK
<1>1. UNCHANGED Unread
  BY DEF Continue, IncrementUnreadCount, DecrementUnreadCount, Expire, Invalidate,
         FetchUnreadCount, FillCache, table, Unread
<1> USE UnreadConstants DEF TypeOK, Idle
<1>2. CASE IncrementUnreadCount(r)
  <2>1. exact /\ ~Idle(r) /\ Goto(r, "expire")
    BY <1>2 DEF IncrementUnreadCount
  <2>2. cached' = Cardinality(Unread)
    BY <1>0, <1>2, <2>1 DEF IncrementUnreadCount, Add, ExactInv, Behind, Shows
  <2>3. OneAtATime' /\ ~Quiet' /\ \A q \in Requests \ {r} : pc'[q] = "idle"
    BY <2>1, StaysAlone DEF ExactInv
  <2> QED BY <1>1, <2>1, <2>2, <2>3 DEF ExactInv, Behind, Shows, Goto
<1>3. CASE DecrementUnreadCount(r)
  <2>1. exact /\ ~Idle(r) /\ Goto(r, "expire")
    BY <1>3 DEF DecrementUnreadCount
  <2>2. cached' = Cardinality(Unread)
    BY <1>0, <1>3, <2>1 DEF DecrementUnreadCount, Add, ExactInv, Behind, Shows
  <2>3. OneAtATime' /\ ~Quiet' /\ \A q \in Requests \ {r} : pc'[q] = "idle"
    BY <2>1, StaysAlone DEF ExactInv
  <2> QED BY <1>1, <2>1, <2>2, <2>3 DEF ExactInv, Behind, Shows, Goto
<1>4. CASE Expire(r)
  <2>1. exact /\ ~Idle(r) /\ Goto(r, "idle") /\ cached' = cached /\ Shows(Cardinality(Unread))
    BY <1>4 DEF Expire, ExactInv, Behind
  <2>2. OneAtATime' /\ \A q \in Requests \ {r} : pc'[q] = "idle"
    BY <2>1, StaysAlone DEF ExactInv
  <2> QED BY <1>1, <2>1, <2>2 DEF ExactInv, Behind, Shows, Goto
<1>5. CASE Invalidate(r)
  <2>1. Goto(r, "idle") /\ cached' = None
    BY <1>5 DEF Invalidate, Del
  <2>2. \A q \in Requests : pc'[q] = "idle"
    BY <1>5, <2>1 DEF Invalidate, Goto, Alone, ExactInv, OneAtATime
  <2> QED BY <2>1, <2>2 DEF ExactInv, Behind, Shows, OneAtATime
<1>6. CASE FetchUnreadCount(r)
  <2>1. exact /\ ~Idle(r) /\ Goto(r, "fill") /\ cached' = None
        /\ fetched'[r] = Cardinality(Unread)
    BY <1>6 DEF FetchUnreadCount, ExactInv, Behind
  <2>2. OneAtATime' /\ ~Quiet' /\ \A q \in Requests \ {r} : pc'[q] = "idle"
    BY <2>1, StaysAlone DEF ExactInv
  <2> QED BY <1>1, <2>1, <2>2 DEF ExactInv, Behind, Shows, Goto
<1>7. CASE FillCache(r)
  <2>1. exact /\ ~Idle(r) /\ Goto(r, "idle") /\ cached' = Cardinality(Unread)
    BY <1>7 DEF FillCache, Set, ExactInv, Behind
  <2>2. OneAtATime' /\ \A q \in Requests \ {r} : pc'[q] = "idle"
    BY <2>1, StaysAlone DEF ExactInv
  <2> QED BY <1>1, <2>1, <2>2 DEF ExactInv, Behind, Shows, Goto
<1> QED BY <1>2, <1>3, <1>4, <1>5, <1>6, <1>7 DEF Continue

LEMMA ExactStep == TypeOK /\ ExactInv /\ [Next]_vars => ExactInv'
<1> SUFFICES ASSUME TypeOK, ExactInv, [Next]_vars PROVE ExactInv'
  OBVIOUS
<1>1. ASSUME NEW r \in Requests, CallFails(r) PROVE ExactInv'
  BY <1>1 DEF CallFails, ExactInv
<1>2. CASE RunOut
  <2>1. UNCHANGED <<Unread, pc, fetched>> /\ cached' = None /\ exact' = (exact \/ Quiet)
    BY <1>2 DEF RunOut, Del, table, Unread
  <2> QED BY <2>1 DEF ExactInv, Behind, Shows, OneAtATime, Quiet, Idle
<1>3. CASE UNCHANGED vars
  BY <1>3 DEF vars, table, ExactInv, Behind, Shows, OneAtATime, Quiet, Idle, Unread
<1> QED BY <1>1, <1>2, <1>3, RequestExact, ContinueExact DEF Next

\* As long as requests run alone and meet what they expect, the counter is the table's.
THEOREM AlwaysExactInOrder == Spec => []CountExactInOrder
<1>1. Init => ExactInv
  BY DEF Init, ExactInv, Behind, Shows, OneAtATime, Idle
<1>2. ExactInv => CountExactInOrder
  BY DEF ExactInv, Shows, CountExactInOrder
<1> QED BY <1>1, <1>2, TypeOKInit, TypeOKStep, ExactStep, PTL DEF Spec

-----------------------------------------------------------------------------
(* The queue of notifications *)

\* A job has an attempt and a stall left as long as it is pending, and a run that has not
\* created its row yet is one more than the rows there are.
RunsAhead ==
  \A n \in Notices :
    /\ Pending(n) => attempts[n] < JobAttempts /\ stalled[n] <= JobStalls
    /\ notice[n] = "active" => rowsOf[n] < runs[n]

QueueInv ==
  /\ notice \in [Notices -> {"none", "waiting", "active", "saved", "done", "failed", "merged"}]
  /\ attempts \in [Notices -> Nat] /\ runs \in [Notices -> Nat] /\ rowsOf \in [Notices -> Nat]
  /\ stalled \in [Notices -> Nat]
  /\ \A n \in Notices : notice[n] = "none" => attempts[n] = 0 /\ stalled[n] = 0
  /\ RunsAhead /\ JobSaved

LEMMA QueueInit == JobsInit => QueueInv
BY NotificationJobsConstants DEF JobsInit, QueueInv, RunsAhead, JobSaved, Pending

LEMMA QueueStep == QueueInv /\ [JobsNext]_jobVars => QueueInv'
<1> SUFFICES ASSUME QueueInv, [JobsNext]_jobVars PROVE QueueInv'
  OBVIOUS
<1> USE NotificationJobsConstants DEF QueueInv, RunsAhead, JobSaved, Pending, Becomes
<1>1. ASSUME NEW n \in Notices, EnqueueNotification(n) PROVE QueueInv'
  BY <1>1 DEF EnqueueNotification, counters
<1>2. ASSUME NEW n \in Notices, Take(n) PROVE QueueInv'
  BY <1>2 DEF Take
<1>3. ASSUME NEW n \in Notices, ProcessNotification(n) PROVE QueueInv'
  <2>1. CASE notice[n] = "active"
    <3>1. /\ notice' = [notice EXCEPT ![n] = "saved"] /\ rowsOf' = [rowsOf EXCEPT ![n] = @ + 1]
          /\ UNCHANGED <<attempts, stalled, runs>>
      BY <1>3, <2>1 DEF ProcessNotification, counters
    <3>2. rowsOf[n] \in Nat /\ runs[n] \in Nat /\ rowsOf[n] < runs[n] /\ attempts[n] < JobAttempts
      BY <2>1
    <3>3. rowsOf' \in [Notices -> Nat] /\ rowsOf'[n] > 0 /\ rowsOf'[n] <= runs'[n]
          /\ \A m \in Notices \ {n} : rowsOf'[m] = rowsOf[m]
      BY <3>1, <3>2
    <3> QED BY <2>1, <3>1, <3>2, <3>3
  <2>2. CASE notice[n] = "saved"
    BY <1>3, <2>2 DEF ProcessNotification, counters
  <2> QED BY <1>3, <2>1, <2>2 DEF ProcessNotification
<1>4. ASSUME NEW n \in Notices, RunFails(n) PROVE QueueInv'
  <2>1. /\ rowsOf' \in [Notices -> Nat] /\ rowsOf'[n] <= runs[n]
        /\ \A m \in Notices \ {n} : rowsOf'[m] = rowsOf[m]
        /\ rowsOf[n] <= rowsOf'[n]
    <3>1. rowsOf[n] \in Nat /\ runs[n] \in Nat /\ rowsOf[n] < runs[n]
      BY <1>4 DEF RunFails
    <3>2. CASE rowsOf' = rowsOf
      BY <3>1, <3>2
    <3>3. CASE rowsOf' = [rowsOf EXCEPT ![n] = @ + 1]
      BY <3>1, <3>3
    <3> QED BY <1>4, <3>2, <3>3 DEF RunFails
  <2>2. /\ attempts' = [attempts EXCEPT ![n] = @ + 1] /\ attempts' \in [Notices -> Nat]
        /\ notice[n] = "active" /\ UNCHANGED <<stalled, runs>>
    BY <1>4 DEF RunFails
  <2>3. CASE attempts[n] + 1 < JobAttempts
    <3>1. notice' = [notice EXCEPT ![n] = "waiting"]
      BY <1>4, <2>3 DEF RunFails
    <3> QED BY <2>1, <2>2, <2>3, <3>1
  <2>4. CASE ~(attempts[n] + 1 < JobAttempts)
    <3>1. notice' = [notice EXCEPT ![n] = "failed"] /\ notice[n] = "active"
      BY <1>4, <2>4 DEF RunFails
    <3>2. attempts[n] + 1 = JobAttempts
      BY <2>4, <3>1
    <3> QED BY <2>1, <2>2, <3>1, <3>2
  <2> QED BY <2>3, <2>4
<1>5. ASSUME NEW n \in Notices, WorkerLost(n) PROVE QueueInv'
  <2>1. /\ stalled' = [stalled EXCEPT ![n] = @ + 1] /\ stalled' \in [Notices -> Nat]
        /\ UNCHANGED <<attempts, runs, rowsOf>> /\ notice[n] \in {"active", "saved"}
    BY <1>5 DEF WorkerLost
  <2>2. CASE stalled[n] < JobStalls
    <3>1. notice' = [notice EXCEPT ![n] = "waiting"]
      BY <1>5, <2>2 DEF WorkerLost
    <3> QED BY <2>1, <2>2, <3>1
  <2>3. CASE ~(stalled[n] < JobStalls)
    <3>1. notice' = [notice EXCEPT ![n] = "failed"]
      BY <1>5, <2>3 DEF WorkerLost
    <3>2. stalled[n] = JobStalls
      BY <2>1, <2>3
    <3> QED BY <2>1, <3>1, <3>2
  <2> QED BY <2>2, <2>3
<1>6. CASE Tick
  BY <1>6 DEF Tick, counters
<1>7. CASE BroadcastRequest
  BY <1>7 DEF BroadcastRequest, Broadcast, BroadcastNext, BroadcastFails, counters
<1>8. CASE UNCHANGED jobVars
  BY <1>8 DEF jobVars
<1> QED BY <1>1, <1>2, <1>3, <1>4, <1>5, <1>6, <1>7, <1>8 DEF JobsNext, QueueNext, Work

\* NotificationProcessor: what is reported done has its row, what is given up had all its
\* attempts or stalled once too often, and there are no more rows than runs.
THEOREM JobAlwaysSaved == JobsSpec => []JobSaved
<1>1. QueueInv => JobSaved
  BY DEF QueueInv
<1> QED BY <1>1, QueueInit, QueueStep, PTL DEF JobsSpec

\* The promises to one job, by the state of the job.
LEMMA Promises ==
  ASSUME NEW n \in Notices
  PROVE  /\ notice[n] = "none" => Promised[n] = "idle"
         /\ notice[n] = "merged" => Promised[n] = "dropped"
         /\ Pending(n) => Promised[n] = "accepted"
         /\ notice[n] = "done" => Promised[n] = "finished"
         /\ notice[n] = "failed" => Promised[n] = "abandoned"
BY DEF Promised, Promise, Pending

\* A change of one job changes one promise.
LEMMA PromiseMade ==
  ASSUME QueueInv, NEW n \in Notices, NEW value, Becomes(n, value)
  PROVE  Promised' = [Promised EXCEPT ![n] = Promise(value)]
BY DEF QueueInv, Becomes, Promised

\* Every step of the queue is a step of an at-least-once queue, or none of its business.
LEMMA QueueSimulates == QueueInv /\ [JobsNext]_jobVars => [Queue!JobNext]_(Queue!jobs)
<1> SUFFICES ASSUME QueueInv, [JobsNext]_jobVars PROVE Queue!JobNext \/ UNCHANGED Queue!jobs
  OBVIOUS
<1> USE DEF Queue!jobs, Queue!JobNext, Queue!Turns, Queue!Happens, Queue!Accept, Queue!Drop,
        Queue!Effect, Queue!Finish, Queue!Abandon
<1>1. ASSUME NEW n \in Notices, EnqueueNotification(n) PROVE Queue!JobNext
  <2>1. Promised[n] = "idle" /\ UNCHANGED rowsOf
    BY <1>1, Promises DEF EnqueueNotification
  <2>2. CASE SameJob(n)
    <3>1. Becomes(n, "merged")
      BY <1>1, <2>2 DEF EnqueueNotification
    <3>2. Promised' = [Promised EXCEPT ![n] = "dropped"]
      BY <3>1, PromiseMade DEF Promise
    <3>3. \E m \in Notices \ {n} : Promised[m] \in {"accepted", "abandoned"}
      BY <2>2, Promises DEF SameJob
    <3> QED BY <2>1, <3>2, <3>3
  <2>3. CASE ~SameJob(n)
    <3>1. Becomes(n, "waiting")
      BY <1>1, <2>3 DEF EnqueueNotification
    <3>2. Promised' = [Promised EXCEPT ![n] = "accepted"]
      BY <3>1, PromiseMade DEF Promise
    <3> QED BY <2>1, <3>2
  <2> QED BY <2>2, <2>3
<1>2. ASSUME NEW n \in Notices, Pending(n), NEW value \in {"waiting", "active", "saved"},
             Becomes(n, value)
      PROVE  UNCHANGED Promised
  <2>1. Promised' = [Promised EXCEPT ![n] = "accepted"]
    BY <1>2, PromiseMade DEF Promise
  <2>2. Promised[n] = "accepted" /\ Promised \in [Notices -> {Promised[m] : m \in Notices}]
    BY <1>2, Promises DEF Promised
  <2> QED BY <2>1, <2>2
<1>3. ASSUME NEW n \in Notices, Take(n) PROVE UNCHANGED Queue!jobs
  BY <1>2, <1>3 DEF Take, Pending
<1>4. ASSUME NEW n \in Notices, ProcessNotification(n) PROVE Queue!JobNext
  <2>1. CASE notice[n] = "active"
    <3>1. Promised[n] = "accepted" /\ UNCHANGED Promised
      BY <1>2, <1>4, <2>1, Promises DEF ProcessNotification, Pending
    <3> QED BY <1>4, <2>1, <3>1 DEF ProcessNotification
  <2>2. CASE notice[n] = "saved"
    <3>1. Promised[n] = "accepted" /\ rowsOf[n] > 0
      BY <2>2, Promises DEF Pending, QueueInv, JobSaved
    <3>2. Promised' = [Promised EXCEPT ![n] = "finished"] /\ UNCHANGED rowsOf
      BY <1>4, <2>2, PromiseMade DEF ProcessNotification, Promise
    <3> QED BY <3>1, <3>2
  <2> QED BY <1>4, <2>1, <2>2 DEF ProcessNotification
<1>5. ASSUME NEW n \in Notices, RunFails(n) PROVE Queue!JobNext \/ UNCHANGED Queue!jobs
  <2>1. Promised[n] = "accepted" /\ rowsOf' \in {rowsOf, [rowsOf EXCEPT ![n] = @ + 1]}
    BY <1>5, Promises DEF RunFails, Pending
  <2>2. CASE Becomes(n, "waiting")
    <3>1. UNCHANGED Promised
      BY <1>2, <1>5, <2>2 DEF RunFails, Pending
    <3> QED BY <2>1, <3>1
  <2>3. CASE Becomes(n, "failed")
    <3>1. Promised' = [Promised EXCEPT ![n] = "abandoned"]
      BY <2>3, PromiseMade DEF Promise
    <3> QED BY <2>1, <3>1
  <2> QED BY <1>5, <2>2, <2>3 DEF RunFails
<1>6. ASSUME NEW n \in Notices, WorkerLost(n) PROVE Queue!JobNext \/ UNCHANGED Queue!jobs
  <2>1. Promised[n] = "accepted" /\ UNCHANGED rowsOf
    BY <1>6, Promises DEF WorkerLost, Pending
  <2>2. CASE Becomes(n, "waiting")
    <3>1. UNCHANGED Promised
      BY <1>2, <1>6, <2>2 DEF WorkerLost, Pending
    <3> QED BY <2>1, <3>1
  <2>3. CASE Becomes(n, "failed")
    <3>1. Promised' = [Promised EXCEPT ![n] = "abandoned"]
      BY <2>3, PromiseMade DEF Promise
    <3> QED BY <2>1, <3>1
  <2> QED BY <1>6, <2>2, <2>3 DEF WorkerLost
<1>7. CASE Tick \/ BroadcastRequest \/ UNCHANGED jobVars
  BY <1>7 DEF Tick, BroadcastRequest, Broadcast, BroadcastNext, BroadcastFails, jobVars, Promised
<1> QED BY <1>1, <1>3, <1>4, <1>5, <1>6, <1>7 DEF JobsNext, QueueNext, Work

\* NotificationService.enqueueNotification and its worker implement an at-least-once queue.
THEOREM QueueIsAtLeastOnce == JobsSpec => JobsAtLeastOnce
<1>1. JobsInit => Queue!JobInit
  BY DEF JobsInit, Queue!JobInit, Promised, Promise
<1> QED
  BY <1>1, QueueInit, QueueStep, QueueSimulates, PTL DEF JobsSpec, JobsAtLeastOnce, Queue!JobSpec

-----------------------------------------------------------------------------
(* The broadcast *)

\* How many of the list the broadcast under way has served.
Served == Len(Audience) - Len(left)

\* What is left is the end of the list; those served are ahead of those who are left.
Ahead ==
  /\ left \in Seq(ToSet(Audience)) /\ Len(left) <= Len(Audience)
  /\ \A i \in 1..Len(left) : left[i] = Audience[Served + i]
  /\ left # <<>> =>
       \A i, k \in DOMAIN Audience : i <= Served /\ Served < k =>
          reached[Audience[i]] > reached[Audience[k]]

BroadcastInv == reached \in [ToSet(Audience) -> Nat] /\ Ahead /\ ReachedInOrder

LEMMA AudienceFacts ==
  /\ Audience \in Seq(ToSet(Audience)) /\ DOMAIN Audience = 1..Len(Audience)
  /\ \A i \in 1..Len(Audience) : Audience[i] \in ToSet(Audience)
  /\ \A i, k \in 1..Len(Audience) : Audience[i] = Audience[k] => i = k
BY NotificationJobsConstants DEF IsInjective

LEMMA BroadcastInit == JobsInit => BroadcastInv
BY AudienceFacts DEF JobsInit, BroadcastInv, Ahead, ReachedInOrder, Served

LEMMA BroadcastStep == BroadcastInv /\ [JobsNext]_jobVars => BroadcastInv'
<1> SUFFICES ASSUME BroadcastInv, [JobsNext]_jobVars PROVE BroadcastInv'
  OBVIOUS
<1> USE AudienceFacts DEF BroadcastInv
<1>1. CASE Broadcast
  BY <1>1 DEF Broadcast, Ahead, Served, ReachedInOrder
<1>2. CASE BroadcastNext
  <2> DEFINE d == Served
  <2>1. /\ left # <<>> /\ left' = Tail(left) /\ reached' = [reached EXCEPT ![Head(left)] = @ + 1]
    BY <1>2 DEF BroadcastNext
  <2>2. left \in Seq(ToSet(Audience)) /\ Len(left) <= Len(Audience) /\ Len(left) > 0
    BY <2>1 DEF Ahead
  <2>3. Head(left) = left[1] /\ left[1] = Audience[d + 1]
    BY <2>2 DEF Ahead
  <2>4. /\ d \in Nat /\ d + 1 \in 1..Len(Audience) /\ Head(left) = Audience[d + 1]
    BY <2>2, <2>3 DEF Served
  <2>5. /\ left' \in Seq(ToSet(Audience)) /\ Len(left') = Len(left) - 1 /\ Served' = d + 1
        /\ \A i \in 1..Len(left') : left'[i] = left[i + 1]
    BY <2>1, <2>2 DEF Served
  <2>6. ASSUME NEW i \in 1..Len(left') PROVE left'[i] = Audience[Served' + i]
    <3>1. Len(left) \in Nat /\ i \in 1..(Len(left) - 1)
      BY <2>5, <2>2
    <3>2. i + 1 \in 1..Len(left) /\ i \in Int
      BY <3>1
    <3>3. left'[i] = left[i + 1]
      BY <2>5
    <3>4. left[i + 1] = Audience[d + (i + 1)]
      BY <3>2 DEF Ahead
    <3>5. d + (i + 1) = (d + 1) + i
      BY <2>4, <3>2
    <3> QED BY <2>5, <3>3, <3>4, <3>5
  <2>7. /\ reached' \in [ToSet(Audience) -> Nat]
        /\ \A i \in 1..Len(Audience) :
             reached'[Audience[i]] = IF i = d + 1 THEN reached[Audience[i]] + 1 ELSE reached[Audience[i]]
    BY <2>1, <2>4
  <2>8. ASSUME NEW i \in 1..Len(Audience), NEW k \in 1..Len(Audience), i < k
        PROVE  /\ reached[Audience[i]] \in Nat /\ reached[Audience[k]] \in Nat
               /\ reached[Audience[i]] >= reached[Audience[k]]
               /\ i <= d /\ d < k => reached[Audience[i]] > reached[Audience[k]]
    BY <2>1, <2>8 DEF Ahead, ReachedInOrder
  <2>9. ASSUME NEW i \in 1..Len(Audience), NEW k \in 1..Len(Audience), i < k
        PROVE  /\ reached'[Audience[i]] >= reached'[Audience[k]]
               /\ i <= d + 1 /\ d + 1 < k => reached'[Audience[i]] > reached'[Audience[k]]
    <3>1. CASE k = d + 1
      BY <2>7, <2>8, <2>9, <2>4, <3>1
    <3>2. CASE i = d + 1
      BY <2>7, <2>8, <2>9, <2>4, <3>2
    <3>3. CASE i # d + 1 /\ k # d + 1
      <4>1. reached'[Audience[i]] = reached[Audience[i]] /\ reached'[Audience[k]] = reached[Audience[k]]
        BY <2>7, <3>3
      <4>2. i <= d + 1 /\ d + 1 < k => i <= d /\ d < k
        BY <2>4, <3>3
      <4>3. /\ reached[Audience[i]] >= reached[Audience[k]]
            /\ i <= d /\ d < k => reached[Audience[i]] > reached[Audience[k]]
        BY <2>8, <2>9
      <4> QED BY <4>1, <4>2, <4>3
    <3> QED BY <3>1, <3>2, <3>3
  <2>10. ReachedInOrder'
    BY <2>9 DEF ReachedInOrder
  <2>11. Ahead'
    <3>1. ASSUME NEW i \in DOMAIN Audience, NEW k \in DOMAIN Audience, i <= Served', Served' < k
          PROVE  reached'[Audience[i]] > reached'[Audience[k]]
      <4>1. Served' = d + 1 /\ d \in Nat
        BY <2>4, <2>5
      <4>2. i \in 1..Len(Audience) /\ k \in 1..Len(Audience)
        BY AudienceFacts
      <4>3. i < k /\ i <= d + 1 /\ d + 1 < k
        BY <3>1, <4>1, <4>2
      <4> HIDE DEF d
      <4> QED BY <2>9, <4>2, <4>3
    <3>2. Len(left') <= Len(Audience)
      BY <2>5, <2>2
    <3> QED BY <2>5, <2>6, <3>1, <3>2 DEF Ahead
  <2> QED BY <2>7, <2>10, <2>11
<1>3. CASE BroadcastFails
  BY <1>3 DEF BroadcastFails, Ahead, Served, ReachedInOrder
<1>4. CASE QueueNext \/ UNCHANGED jobVars
  <2>1. UNCHANGED <<left, reached>>
    BY <1>4 DEF QueueNext, Tick, EnqueueNotification, Work, Take, ProcessNotification, RunFails,
                WorkerLost, broadcastVars, jobVars
  <2> QED BY <2>1 DEF Ahead, Served, ReachedInOrder
<1> QED BY <1>1, <1>2, <1>3, <1>4 DEF JobsNext, BroadcastRequest

\* NotificationService.broadcastNotification: what failures and repetitions leave out is at
\* the end of the list of receivers.
THEOREM BroadcastInOrder == JobsSpec => []ReachedInOrder
<1>1. BroadcastInv => ReachedInOrder
  BY DEF BroadcastInv
<1> QED BY <1>1, BroadcastInit, BroadcastStep, PTL DEF JobsSpec
=============================================================================
