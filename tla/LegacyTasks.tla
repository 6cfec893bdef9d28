----------------------------- MODULE LegacyTasks -----------------------------
(***************************************************************************)
(* The task routes of the Express example, for one user: each passes the   *)
(* limiter, whose key all routes of a preset share.  A creation then looks *)
(* the user up, counts his tasks of the day and creates; the statistics    *)
(* are cached, and no write takes them out of the cache.  One action is    *)
(* the code between two awaits; a MULTI is one step.                       *)
(***************************************************************************)
EXTENDS Integers, FiniteSets

CONSTANTS
    TaskRequests,   \* numbered in the order they arrive in
    Window, Max,    \* of the preset 'user'
    Second,         \* ticks; EXPIREAT takes whole seconds
    DailyLimit,
    StatisticsTtl,
    Bodies,         \* what a creation may ask for: taskType, day, how many are assigned, whether
                    \* the user owns it, whether he is one of those assigned, status
    MaxTicks,       \* bound: the clock
    MaxRejections   \* bound: calls that reject

NoDay == 0          \* no startTime
Reading == [taskType |-> "none"]
Statuses == {"pending", "inProgress", "completed"}

ASSUME LegacyTasksConstants ==
    /\ TaskRequests \subseteq Nat
    /\ Window \in Nat \ {0} /\ Max \in Nat \ {0} /\ Second \in Nat \ {0}
    /\ DailyLimit \in Nat /\ StatisticsTtl \in Nat \ {0} /\ MaxTicks \in Nat /\ MaxRejections \in Nat
    /\ Bodies \subseteq [taskType : {"personal", "singleAssignment", "collaborative"}, day : Nat,
                         assigned : Nat, owned : BOOLEAN, included : BOOLEAN, status : Statuses]
    /\ \A asks \in Bodies : asks.included => asks.assigned > 0

VARIABLES
    clock,
    entries,        \* members of the sorted set: the request and its score
    entriesGo,      \* the EXPIREAT of the key
    tasks,          \* rows: the body, and, for the record, the request, when it was created,
                    \* how many tasks of its day the user had before, whether it was raced
    cached,         \* the statistics in Redis, until when; {} or one record
    doing,          \* what each request has to do next
    stamp,          \* the time it read
    body,           \* of a creation, Reading otherwise
    found,          \* statistics it aggregated or is answered
    rejections,
    misled,         \* history: a call of the limiter rejected, or was overtaken or late
    admitted,       \* history: requests the limiter let through until then, with their stamps
    raced,          \* history: creations in progress that counted before another was done
    slow            \* history: statistics were stored later than they were aggregated

limits == <<entries, entriesGo, admitted, misled>>
taskVars == <<clock, limits, tasks, cached, doing, stamp, body, found, rejections, raced, slow>>

\* Of a request that is over nothing is kept.
Proceed(r, to) ==
    /\ doing' = [doing EXCEPT ![r] = to]
    /\ IF to \in {"done", "refused"}
       THEN body' = [body EXCEPT ![r] = Reading] /\ stamp' = [stamp EXCEPT ![r] = 0]
       ELSE UNCHANGED <<body, stamp>>

-----------------------------------------------------------------------------
(* rateLimiterRedis *)

Ceil(t) == ((t + Second - 1) \div Second) * Second

\* Does the MULTI of r find the key gone as soon as it has set its life?
Belated(r) == Ceil(stamp[r] + Window) <= clock

\* ZREMRANGEBYSCORE, ZADD; the key may have run out before, and EXPIREAT may take it away.
Counted(r) ==
    LET live == IF clock < entriesGo THEN entries ELSE {}
    IN  IF Belated(r) THEN {}
        ELSE {e \in live : e.at > stamp[r] - Window} \cup {[by |-> r, at |-> stamp[r]]}

CheckRateLimit(r) ==
    /\ entries' = Counted(r)
    /\ entriesGo' = IF Belated(r) THEN 0 ELSE Ceil(stamp[r] + Window)

\* The key has run out between the stamp of r and its MULTI, or another overtook r.
Misleads(r) ==
    \/ Belated(r) \/ (stamp[r] < entriesGo /\ entriesGo <= clock)
    \/ \E a \in admitted : a.at > stamp[r]

\* Where a request goes when the limiter lets it through.
Onwards(r) == IF body[r] = Reading THEN "cache" ELSE "permission"

RateLimiter(r) ==
    /\ doing[r] = "limiter"
    /\ CheckRateLimit(r)
    /\ LET passes == Cardinality(Counted(r)) <= Max
       IN  /\ Proceed(r, IF passes THEN Onwards(r) ELSE "refused")
           /\ misled' = (misled \/ Misleads(r))
           /\ admitted' = IF misled' THEN {}
                          ELSE IF passes THEN admitted \cup {[by |-> r, at |-> stamp[r]]} ELSE admitted
    /\ UNCHANGED <<clock, tasks, cached, found, rejections, raced, slow>>

Rejects == rejections < MaxRejections /\ rejections' = rejections + 1

\* The MULTI rejects, applied or not: the request is let through.
RateLimiterFailsOpen(r) ==
    /\ doing[r] = "limiter" /\ Rejects
    /\ \/ CheckRateLimit(r)
       \/ UNCHANGED <<entries, entriesGo>>
    /\ Proceed(r, Onwards(r))
    /\ misled' = TRUE /\ admitted' = {}
    /\ UNCHANGED <<clock, tasks, cached, found, raced, slow>>

-----------------------------------------------------------------------------
(* POST / *)

Call(r, asks) ==
    /\ doing[r] = "none" /\ \A q \in TaskRequests : q < r => doing[q] # "none"
    /\ doing' = [doing EXCEPT ![r] = "limiter"]
    /\ stamp' = [stamp EXCEPT ![r] = clock]
    /\ body' = [body EXCEPT ![r] = asks]
    /\ UNCHANGED <<clock, limits, tasks, cached, found, rejections, raced, slow>>

CreateTask(r) == \E asks \in Bodies : Call(r, asks)

ValidateTaskTypeConsistency(asks) ==
    CASE asks.taskType = "personal" -> asks.assigned = 0
      [] asks.taskType = "singleAssignment" -> asks.assigned = 1
      [] asks.taskType = "collaborative" -> asks.assigned >= 2

LimitedPerDay(asks) == asks.taskType = "personal" /\ asks.day # NoDay

\* The row of the user may be gone, his role another, or the lookup reject; any child may create.
CheckSecondaryUserPermission(r) ==
    /\ doing[r] = "permission"
    /\ \E role \in {"business", "child", "other"} :
        Proceed(r, IF role = "other" \/ ~ValidateTaskTypeConsistency(body[r]) THEN "refused"
                   ELSE IF LimitedPerDay(body[r]) THEN "count" ELSE "create")
    /\ UNCHANGED <<clock, limits, tasks, cached, found, rejections, raced, slow>>

OwnTasksOf(day) == {t \in tasks : t.body.owned /\ t.body.day = day}

\* Mutant: the limit is compared with >.
MutDailyLimit(r) ==
    /\ doing[r] = "count"
    /\ Proceed(r, IF Cardinality(OwnTasksOf(body[r].day)) > DailyLimit THEN "refused" ELSE "create")
    /\ UNCHANGED <<clock, limits, tasks, cached, found, rejections, raced, slow>>

CheckDailyTaskLimit(r) ==
    /\ doing[r] = "count"
    /\ Proceed(r, IF Cardinality(OwnTasksOf(body[r].day)) >= DailyLimit THEN "refused" ELSE "create")
    /\ UNCHANGED <<clock, limits, tasks, cached, found, rejections, raced, slow>>

\* The create of the generic controller.
Create(r) ==
    /\ doing[r] = "create"
    /\ tasks' = tasks \cup {[by |-> r, body |-> body[r], since |-> clock, raced |-> r \in raced,
                             before |-> Cardinality(OwnTasksOf(body[r].day))]}
    /\ raced' = {q \in TaskRequests \ {r} : doing[q] = "create"}
    /\ Proceed(r, "done")
    /\ UNCHANGED <<clock, limits, cached, found, rejections, slow>>

\* A call to the database rejects: an error, and nothing else happens.
CreateTaskFails(r) ==
    /\ doing[r] \in {"permission", "count", "create"} /\ Rejects
    /\ Proceed(r, "refused")
    /\ UNCHANGED <<clock, limits, tasks, cached, found, raced, slow>>

-----------------------------------------------------------------------------
(* GET /statistics *)

GetStatistics(r) == Call(r, Reading)

\* A GET that rejects is a miss.
GetFromCache(r) ==
    /\ doing[r] = "cache"
    /\ LET hits == {c \in cached : clock < c.until}
       IN  \/ \E c \in hits : /\ found' = [found EXCEPT ![r] = c.value]
                              /\ doing' = [doing EXCEPT ![r] = "answered"]
                              /\ UNCHANGED rejections
           \/ /\ hits = {} /\ UNCHANGED <<found, rejections>>
              /\ doing' = [doing EXCEPT ![r] = "aggregate"]
           \/ /\ hits # {} /\ Rejects /\ UNCHANGED found
              /\ doing' = [doing EXCEPT ![r] = "aggregate"]
    /\ stamp' = [stamp EXCEPT ![r] = clock]
    /\ UNCHANGED <<clock, limits, tasks, cached, body, raced, slow>>

\* Those he owns or is assigned to.
TasksWith(s) == {t \in tasks : (t.body.owned \/ t.body.included) /\ t.body.status = s}

Statistics == [s \in Statuses |-> Cardinality(TasksWith(s))]

GetTaskStatistics(r) ==
    /\ doing[r] = "aggregate"
    /\ found' = [found EXCEPT ![r] = Statistics]
    /\ stamp' = [stamp EXCEPT ![r] = clock]
    /\ doing' = [doing EXCEPT ![r] = "store"]
    /\ UNCHANGED <<clock, limits, tasks, cached, body, rejections, raced, slow>>

\* Mutant: SET without a time to live.
MutNoTtl(r) ==
    /\ doing[r] = "store"
    /\ cached' = {[value |-> found[r], until |-> MaxTicks + 1]}
    /\ UNCHANGED rejections
    /\ slow' = (slow \/ clock > stamp[r])
    /\ doing' = [doing EXCEPT ![r] = "answered"]
    /\ UNCHANGED <<clock, limits, tasks, stamp, body, found, raced>>

\* A SETEX that rejects, applied or not, is logged.
SetInCache(r) ==
    /\ doing[r] = "store"
    /\ \/ /\ cached' = {[value |-> found[r], until |-> clock + StatisticsTtl]}
          /\ rejections' \in {rejections, rejections + 1} /\ rejections' <= MaxRejections
       \/ Rejects /\ UNCHANGED cached
    /\ slow' = (slow \/ clock > stamp[r])
    /\ doing' = [doing EXCEPT ![r] = "answered"]
    /\ UNCHANGED <<clock, limits, tasks, stamp, body, found, raced>>

-----------------------------------------------------------------------------
TasksTick ==
    /\ clock < MaxTicks /\ clock' = clock + 1
    /\ UNCHANGED <<limits, tasks, cached, doing, stamp, body, found, rejections, raced, slow>>

TasksInit ==
    /\ clock = 0 /\ entries = {} /\ entriesGo = 0 /\ tasks = {} /\ cached = {}
    /\ doing = [r \in TaskRequests |-> "none"]
    /\ stamp = [r \in TaskRequests |-> 0]
    /\ body = [r \in TaskRequests |-> Reading]
    /\ found = [r \in TaskRequests |-> [s \in Statuses |-> 0]]
    /\ rejections = 0 /\ admitted = {} /\ misled = FALSE /\ raced = {} /\ slow = FALSE

TasksNext ==
    \/ \E r \in TaskRequests :
        \/ CreateTask(r) \/ GetStatistics(r) \/ RateLimiter(r) \/ RateLimiterFailsOpen(r)
        \/ CheckSecondaryUserPermission(r) \/ CheckDailyTaskLimit(r) \/ Create(r) \/ CreateTaskFails(r)
        \/ GetFromCache(r) \/ GetTaskStatistics(r) \/ SetInCache(r)
    \/ TasksTick

TasksSpec == TasksInit /\ [][TasksNext]_taskVars

-----------------------------------------------------------------------------
(* Properties *)

\* The routes together let no more than Max requests of a user through in any window, creations
\* and statistics alike, while the calls of the limiter are answered in the order of their stamps
\* and the key does not run out on the way. A personal task is never beyond the limit of its day,
\* unless another was created after it was counted for.
TasksInBounds ==
    /\ ~misled => \A a \in admitted :
        Cardinality({b \in admitted : a.at - Window < b.at /\ b.at <= a.at}) <= Max
    /\ \A t \in tasks : LimitedPerDay(t.body) /\ ~t.raced => t.before < DailyLimit

\* The statistics a user is answered may miss what he has just created, but no task older than
\* their time to live, if they were stored when they were computed; and they count no task twice.
StatisticsRecent ==
    \A r \in TaskRequests : doing[r] = "answered" =>
        \A s \in Statuses :
            /\ found[r][s] <= Cardinality(TasksWith(s))
            /\ ~slow => found[r][s] >= Cardinality({t \in TasksWith(s) : t.since + StatisticsTtl < stamp[r]})
=============================================================================
