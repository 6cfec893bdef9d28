--------------------------- MODULE AtLeastOnceJob ---------------------------
(***************************************************************************)
(* What a queue of jobs promises, whatever its workers, attempts and       *)
(* stalls are: a job that is accepted may have its effect many times, has  *)
(* had it once when it is reported finished, and is dropped only when      *)
(* another one was taken in its place.                                     *)
(***************************************************************************)
EXTENDS Naturals

CONSTANT Jobs

VARIABLES
    state,          \* of each job: idle, accepted, dropped, finished, abandoned
    effects         \* how often each had its effect

jobs == <<state, effects>>

Turns(j, value) == state' = [state EXCEPT ![j] = value]
Happens(j) == effects' = [effects EXCEPT ![j] = @ + 1]

Accept(j) == state[j] = "idle" /\ Turns(j, "accepted") /\ UNCHANGED effects

Drop(j) ==
    /\ state[j] = "idle" /\ \E k \in Jobs \ {j} : state[k] \in {"accepted", "abandoned"}
    /\ Turns(j, "dropped") /\ UNCHANGED effects

Effect(j) == state[j] = "accepted" /\ Happens(j) /\ UNCHANGED state

Finish(j) ==
    /\ state[j] = "accepted" /\ effects[j] > 0
    /\ Turns(j, "finished") /\ UNCHANGED effects

\* The last attempt fails, with or without its effect.
Abandon(j) ==
    /\ state[j] = "accepted"
    /\ Turns(j, "abandoned") /\ (Happens(j) \/ UNCHANGED effects)

JobInit == state = [j \in Jobs |-> "idle"] /\ effects = [j \in Jobs |-> 0]

JobNext == \E j \in Jobs : Accept(j) \/ Drop(j) \/ Effect(j) \/ Finish(j) \/ Abandon(j)

JobSpec == JobInit /\ [][JobNext]_jobs
=============================================================================
