----------------------------- MODULE MCRateLimit -----------------------------
(***************************************************************************)
(* What keeps its state in Redis: five requests to a route that admits two *)
(* in three ticks; two requests to the cached rows of one service. The     *)
(* limiter and the services share no key: each moves while the others are  *)
(* where they began, which shows every behaviour of each.                  *)
(***************************************************************************)
EXTENDS RateLimit, CacheAside, ServiceCaches, TLC

MCKeys == UNION Services
MCWrites == DOMAIN ServiceWrites
MCChanges == [w \in MCWrites |-> ServiceWrites[w].changes]
MCDeletes == [w \in MCWrites |-> ServiceWrites[w].deletes]

Untouched(keys) ==
    /\ \A k \in keys : row[k] = 0 /\ cache[k] = Absent
    /\ \A q \in CacheRequests : work[q].key \notin keys /\ keys \cap UNION work[q].dels = {}

MCInit == Init /\ CacheInit

MCNext ==
    \/ /\ CacheInit
       /\ Next /\ UNCHANGED cacheVars
    \/ /\ Init
       /\ CacheNext /\ (\E s \in Services : Untouched(MCKeys \ s)') /\ UNCHANGED vars

MCSpec == MCInit /\ [][MCNext]_<<vars, cacheVars>>

Permuted == Permutations(Requests) \cup Permutations(CacheRequests)
=============================================================================
