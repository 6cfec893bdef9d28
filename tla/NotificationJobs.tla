-------------------------- MODULE NotificationJobs --------------------------
(***************************************************************************)
(* Notifications sent through the queue, and broadcasts.  enqueueNotification *)
(* adds a job whose id is the receiver and the millisecond; the worker     *)
(* creates a row and emits it, and a run that throws is tried again; a     *)
(* broadcast sends to one receiver after the other in the request itself.  *)
(***************************************************************************)
EXTENDS Integers, Sequences, FiniteSets, SequencesExt

CONSTANTS
    Notices,        \* calls of enqueueNotification
    Receiver,       \* the receiver of each
    Audience,       \* receiverIds of the broadcast, in order
    JobAttempts,    \* attempts: 3
    MaxClock,       \* bound: milliseconds
    JobStalls,      \* maxStalledCount, which BullMQ has at 1
    MaxTries        \* bound: how often the administrator sends the broadcast

ASSUME NotificationJobsConstants ==
    /\ JobAttempts \in Nat \ {0} /\ MaxClock \in Nat
    /\ MaxTries \in Nat /\ JobStalls \in Nat
    /\ DOMAIN Receiver = Notices
    /\ Audience \in Seq(ToSet(Audience)) /\ IsInjective(Audience)

VARIABLES
    clock,
    notice,         \* of each call: none, waiting, active, saved, done, failed, merged
    since,          \* the millisecond of the call: with the receiver, the job id
    attempts, stalled, runs, \* runs that threw; runs that were lost; all runs
    rowsOf,         \* rows created for each
    left,           \* receivers the broadcast has still to reach
    tries,          \* calls of broadcastNotification
    reached         \* rows the broadcast created, by receiver

jobVars == <<clock, notice, since, attempts, stalled, runs, rowsOf, left, tries, reached>>
broadcastVars == <<left, tries, reached>>
counters == <<attempts, stalled, runs>>

Pending(n) == notice[n] \in {"waiting", "active", "saved"}
Becomes(n, value) == notice' = [notice EXCEPT ![n] = value]

-----------------------------------------------------------------------------
\* BullMQ ignores a job whose id exists: removeOnComplete frees the id, a failed job keeps it.
SameJob(n) ==
    \E m \in Notices \ {n} :
        /\ Receiver[m] = Receiver[n] /\ since[m] = clock
        /\ Pending(m) \/ notice[m] = "failed"

EnqueueNotification(n) ==
    /\ notice[n] = "none"
    /\ since' = [since EXCEPT ![n] = clock]
    /\ Becomes(n, IF SameJob(n) THEN "merged" ELSE "waiting")
    /\ UNCHANGED <<clock, counters, rowsOf, broadcastVars>>

Take(n) ==
    /\ notice[n] = "waiting" /\ \A m \in Notices : notice[m] \notin {"active", "saved"}
    /\ Becomes(n, "active")
    /\ runs' = [runs EXCEPT ![n] = @ + 1]
    /\ UNCHANGED <<clock, since, attempts, stalled, rowsOf, broadcastVars>>

\* Mutant: the worker logs the error and does not throw it.
MutSwallowed(n) ==
    /\ notice[n] = "active"
    /\ Becomes(n, "done")
    /\ UNCHANGED <<clock, since, counters, rowsOf, broadcastVars>>

\* The row, and the emission to the receiver or the admin role, which swallows its errors.
ProcessNotification(n) ==
    \/ /\ notice[n] = "active"
       /\ Becomes(n, "saved")
       /\ rowsOf' = [rowsOf EXCEPT ![n] = @ + 1]
       /\ UNCHANGED <<clock, since, counters, broadcastVars>>
    \/ /\ notice[n] = "saved"
       /\ Becomes(n, "done")
       /\ UNCHANGED <<clock, since, counters, rowsOf, broadcastVars>>

\* Mutant: the job is added again by the handler, with its attempts at zero.
MutAttemptsLost(n) ==
    /\ notice[n] = "active"
    /\ Becomes(n, "waiting")
    /\ runs' = [runs EXCEPT ![n] = 0]
    /\ UNCHANGED <<clock, since, attempts, stalled, rowsOf, broadcastVars>>

\* The create rejects, with its row written or not: the handler throws on, and BullMQ tries
\* again until the attempts are used up.
RunFails(n) ==
    /\ notice[n] = "active"
    /\ rowsOf' \in {rowsOf, [rowsOf EXCEPT ![n] = @ + 1]}
    /\ attempts' = [attempts EXCEPT ![n] = @ + 1]
    /\ Becomes(n, IF attempts[n] + 1 < JobAttempts THEN "waiting" ELSE "failed")
    /\ UNCHANGED <<clock, since, stalled, runs, broadcastVars>>

\* The worker dies or stalls: the job runs again, from its start, and the next time this befalls
\* it BullMQ fails it, whatever attempts are left.
WorkerLost(n) ==
    /\ notice[n] \in {"active", "saved"}
    /\ stalled' = [stalled EXCEPT ![n] = @ + 1]
    /\ Becomes(n, IF stalled[n] < JobStalls THEN "waiting" ELSE "failed")
    /\ UNCHANGED <<clock, since, attempts, runs, rowsOf, broadcastVars>>

-----------------------------------------------------------------------------
\* A request of an administrator, or the same again after a failure.
Broadcast ==
    /\ left = <<>> /\ tries < MaxTries
    /\ tries' = tries + 1
    /\ left' = Audience
    /\ UNCHANGED <<clock, notice, since, counters, rowsOf, reached>>

\* Mutant: a failed send is skipped and the loop goes on.
MutSkips ==
    /\ left # <<>>
    /\ left' = Tail(left)
    /\ UNCHANGED <<clock, notice, since, counters, rowsOf, tries, reached>>

\* broadcastNotification: sendNotification for the next receiver.
BroadcastNext ==
    /\ left # <<>>
    /\ reached' = [reached EXCEPT ![Head(left)] = @ + 1]
    /\ left' = Tail(left)
    /\ UNCHANGED <<clock, notice, since, counters, rowsOf, tries>>

\* One send rejects: the request answers with the error and the rest gets nothing.
BroadcastFails ==
    /\ left # <<>>
    /\ left' = <<>>
    /\ UNCHANGED <<clock, notice, since, counters, rowsOf, tries, reached>>

Tick ==
    /\ clock < MaxClock
    /\ clock' = clock + 1
    /\ UNCHANGED <<notice, since, counters, rowsOf, broadcastVars>>

-----------------------------------------------------------------------------
JobsInit ==
    /\ clock = 0
    /\ notice = [n \in Notices |-> "none"]
    /\ since = [n \in Notices |-> 0]
    /\ attempts = [n \in Notices |-> 0]
    /\ stalled = [n \in Notices |-> 0]
    /\ runs = [n \in Notices |-> 0]
    /\ rowsOf = [n \in Notices |-> 0]
    /\ left = <<>> /\ tries = 0
    /\ reached = [u \in ToSet(Audience) |-> 0]

Work(n) == Take(n) \/ ProcessNotification(n) \/ RunFails(n)

QueueNext ==
    \/ Tick
    \/ \E n \in Notices : EnqueueNotification(n) \/ Work(n) \/ WorkerLost(n)

BroadcastRequest == Broadcast \/ BroadcastNext \/ BroadcastFails

JobsNext == QueueNext \/ BroadcastRequest

JobsFairness == \A n \in Notices : WF_jobVars(Work(n))

JobsSpec == JobsInit /\ [][JobsNext]_jobVars

-----------------------------------------------------------------------------
JobsTypeOK ==
    /\ clock \in 0..MaxClock
    /\ notice \in [Notices -> {"none", "waiting", "active", "saved", "done", "failed", "merged"}]
    /\ since \in [Notices -> 0..MaxClock]
    /\ attempts \in [Notices -> 0..JobAttempts] /\ stalled \in [Notices -> 0..(JobStalls + 1)]
    /\ runs \in [Notices -> Nat]
    /\ rowsOf \in [Notices -> Nat]
    /\ left \in Seq(ToSet(Audience))
    /\ tries \in 0..MaxTries /\ reached \in [ToSet(Audience) -> 0..MaxTries]

\* A job that ended well left a row; one that was given up had all its attempts, or stalled once
\* too often; and a job never leaves more rows than it had runs, however often it failed
\* half-way.
JobSaved ==
    \A n \in Notices :
        /\ notice[n] \in {"saved", "done"} => rowsOf[n] > 0
        /\ notice[n] = "failed" => attempts[n] = JobAttempts \/ stalled[n] = JobStalls + 1
        /\ rowsOf[n] <= runs[n]

Promise(value) ==
    CASE value = "none" -> "idle"
      [] value = "merged" -> "dropped"
      [] value \in {"waiting", "active", "saved"} -> "accepted"
      [] value = "done" -> "finished"
      [] value = "failed" -> "abandoned"

Promised == [n \in Notices |-> Promise(notice[n])]

Queue == INSTANCE AtLeastOnceJob WITH Jobs <- Notices, state <- Promised, effects <- rowsOf

\* The queue and its worker, with duplicate ids, failing attempts and lost workers, are an
\* at-least-once queue: a notification reported done has its row, and one that was merged has
\* another in its place.
JobsAtLeastOnce == Queue!JobSpec

\* Whoever was reached by a broadcast, all before him in the list were reached at least as
\* often: after failures and repetitions, too, what is missing is at the end of the list.
ReachedInOrder ==
    \A i, k \in DOMAIN Audience : i < k => reached[Audience[i]] >= reached[Audience[k]]

\* A job that BullMQ accepted ends, done or given up, also when every call of it rejects and its
\* workers are lost: it relies on the attempts, and on the stalls, running out.
JobsFinish ==
    \A n \in Notices : notice[n] = "waiting" ~> notice[n] \in {"done", "failed"}
=============================================================================
