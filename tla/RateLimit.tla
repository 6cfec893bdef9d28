------------------------------ MODULE RateLimit ------------------------------
(***************************************************************************)
(* SlidingWindowRateLimitGuard for one client and one route: a Redis       *)
(* sorted set of the requests seen, scored by the time the guard read the  *)
(* clock.  Several processes run the guard; the transaction may reach      *)
(* Redis up to Delay after the clock was read, in any order.               *)
(***************************************************************************)
EXTENDS Integers, FiniteSets

CONSTANTS
    Requests,       \* each with a member of its own in the sorted set
    Max,            \* options.max
    Window,         \* options.windowMs
    KeyLife,        \* the EXPIRE of the key: the window rounded up, and a second
    Delay,          \* bound: from reading the clock to the transaction
    MaxTime,        \* bound: the clock stops here
    MaxFaults       \* bound: transactions that reject

ASSUME RateLimitConstants ==
    /\ IsFiniteSet(Requests)
    /\ Max \in Nat \ {0} /\ Window \in Nat \ {0}
    /\ KeyLife \in Nat /\ KeyLife >= Window
    /\ Delay \in Nat /\ Delay <= Window
    /\ MaxTime \in Nat /\ MaxFaults \in Nat

VARIABLES
    now,
    pc,             \* where the guard of a request is, or what it answered
    score,          \* the time the guard of the request read
    log,            \* the requests in the sorted set
    expires,        \* when Redis drops the key
    faults

vars == <<now, pc, score, log, expires, faults>>

Times == 0..MaxTime

-----------------------------------------------------------------------------
(* canActivate *)

ReadClock(r) ==
    /\ pc[r] = "new"
    /\ score' = [score EXCEPT ![r] = now]
    /\ pc' = [pc EXCEPT ![r] = "exec"]
    /\ UNCHANGED <<now, log, expires, faults>>

\* What the set holds after ZREMRANGEBYSCORE and ZADD.
Counted(r) == {q \in log : score[q] > score[r] - Window} \cup {r}

Expire == expires' = now + KeyLife

\* Mutant: ZCARD comes before ZADD.
MutCountsBeforeAdd(r) ==
    /\ pc[r] = "exec"
    /\ log' = Counted(r) /\ Expire
    /\ pc' = [pc EXCEPT ![r] =
                IF Cardinality(Counted(r) \ {r}) > Max THEN "refused" ELSE "admitted"]
    /\ UNCHANGED <<now, score, faults>>

\* Mutant: no ZREMRANGEBYSCORE.
MutKeepsOld(r) ==
    /\ pc[r] = "exec"
    /\ log' = log \cup {r} /\ Expire
    /\ pc' = [pc EXCEPT ![r] =
                IF Cardinality(log \cup {r}) > Max THEN "refused" ELSE "admitted"]
    /\ UNCHANGED <<now, score, faults>>

\* The MULTI.  A request that is refused has been counted all the same.
Exec(r) ==
    /\ pc[r] = "exec"
    /\ log' = Counted(r) /\ Expire
    /\ pc' = [pc EXCEPT ![r] =
                IF Cardinality(Counted(r)) > Max THEN "refused" ELSE "admitted"]
    /\ UNCHANGED <<now, score, faults>>

\* The transaction rejects, run or not: the request is let through.
FailOpen(r) ==
    /\ pc[r] = "exec"
    /\ faults < MaxFaults /\ faults' = faults + 1
    /\ \/ UNCHANGED <<log, expires>>
       \/ log' = Counted(r) /\ Expire
    /\ pc' = [pc EXCEPT ![r] = "passed"]
    /\ UNCHANGED <<now, score>>

-----------------------------------------------------------------------------
\* Time passes, no further than Delay past a clock that was read, and the key runs out.
Tick ==
    /\ now < MaxTime
    /\ \A r \in Requests : pc[r] = "exec" => now < score[r] + Delay
    /\ now' = now + 1
    /\ log' = IF now + 1 >= expires THEN {} ELSE log
    /\ UNCHANGED <<pc, score, expires, faults>>

Init ==
    /\ now = 0 /\ log = {} /\ expires = 0 /\ faults = 0
    /\ pc = [r \in Requests |-> "new"]
    /\ score = [r \in Requests |-> 0]

CanActivate(r) == ReadClock(r) \/ Exec(r) \/ FailOpen(r)

Next == Tick \/ \E r \in Requests : CanActivate(r)

Spec == Init /\ [][Next]_vars

-----------------------------------------------------------------------------
(* Properties *)

\* The type invariant of the limiter.
TypeOK ==
    /\ now \in Times
    /\ pc \in [Requests -> {"new", "exec", "admitted", "refused", "passed"}]
    /\ score \in [Requests -> Times]
    /\ log \subseteq Requests
    /\ expires \in 0..MaxTime + KeyLife
    /\ faults \in 0..MaxFaults

Between(t, u) == {r \in Requests : t < score[r] /\ score[r] <= u}

\* "No burst at window edges": wherever a window is laid, at most Max requests that came
\* in it are admitted, transactions arriving out of order and the key running out
\* included; by as much as transactions are late, the window is shorter.
NoBurst ==
    \A t \in -1..MaxTime :
        Cardinality({r \in Between(t, t + Window - Delay) : pc[r] = "admitted"}) <= Max

\* A request is refused only when Max others came within a window before it or while it
\* was on its way: a client that waits as long as Retry-After says is admitted, however
\* many of its earlier requests were refused.
RefusalJustified ==
    \A r \in Requests : pc[r] = "refused" =>
        Cardinality({q \in Requests \ {r} : /\ pc[q] \in {"admitted", "refused", "passed"}
                                            /\ score[q] > score[r] - Window
                                            /\ score[q] <= score[r] + Delay}) >= Max
=============================================================================
