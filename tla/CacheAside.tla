----------------------------- MODULE CacheAside -----------------------------
(***************************************************************************)
(* Rows and the cache beside them.  A read that misses fetches the row,    *)
(* then stores it; a write changes rows, then deletes keys.  Each is a     *)
(* call of its own, and every error of the cache is swallowed.             *)
(***************************************************************************)
EXTENDS Naturals

CONSTANTS
    Keys,           \* keys of the cache, each the image of one row (or of a query over rows)
    WriteKinds,     \* operations that write
    Changes,        \* the keys whose rows each changes
    Deletes,        \* the DEL commands each sends afterwards, as sets of keys: RedisService sends
                    \* one, the transactions one for each key, in parallel
    CacheRequests,
    Absent,
    MaxVersion      \* bound: writes of one row

ASSUME CacheAsideConstants ==
    /\ Changes \in [WriteKinds -> SUBSET Keys] /\ Deletes \in [WriteKinds -> SUBSET SUBSET Keys]
    /\ MaxVersion \in Nat /\ Absent \notin Nat \cup Keys

VARIABLES
    row,            \* the version of each row
    cache,          \* the version each key holds, or Absent
    work,           \* of each request: the next call, its key, what it fetched, the DELs on
                    \* their way
    disturbed       \* history: keys that a write which does not delete them, a deletion that
                    \* failed, or a write between a fetch and its store has left behind

cacheVars == <<row, cache, work, disturbed>>

Free == [at |-> "free", key |-> Absent, held |-> Absent, dels |-> {}]
Reading(q, k) == work[q] = [Free EXCEPT !.at = "fetch", !.key = k]
Holding(q, k) == work[q].at = "store" /\ work[q].key = k
Deleting(q, k) == \E del \in work[q].dels : k \in del
Moves(q, value) == work' = [work EXCEPT ![q] = value]

\* Someone is about to store an old version of the key.
Outdated(k) == \E q \in CacheRequests : Holding(q, k) /\ work[q].held # row[k]

-----------------------------------------------------------------------------
\* getOrSet, and the transactions' getFromCache: a miss, or a GET that rejects. A hit is
\* answered and changes nothing.
GetMisses(q, k) ==
    /\ work[q] = Free
    /\ Moves(q, [Free EXCEPT !.at = "fetch", !.key = k])
    /\ UNCHANGED <<row, cache, disturbed>>

\* One query; for the earnings overview, which sends eleven at once, the first of them that is
\* answered: what the others find is no older.
Fetch(q, k) ==
    /\ Reading(q, k)
    /\ Moves(q, [Free EXCEPT !.at = "store", !.key = k, !.held = row[k]])
    /\ UNCHANGED <<row, cache, disturbed>>

StoreFetched(q, k) ==
    /\ Holding(q, k)
    /\ cache' = [cache EXCEPT ![k] = work[q].held]
    /\ Moves(q, Free)
    /\ UNCHANGED <<row, disturbed>>

\* The fetch rejects, the row is not there, or the SET is not applied.
ReadFails(q, k) ==
    /\ Reading(q, k) \/ Holding(q, k)
    /\ Moves(q, Free)
    /\ UNCHANGED <<row, cache, disturbed>>

\* The write of an update, an upsert, a creation or a soft deletion.
WriteRow(q, w) ==
    /\ work[q] = Free /\ \A k \in Changes[w] : row[k] < MaxVersion
    /\ row' = [k \in Keys |-> IF k \in Changes[w] THEN row[k] + 1 ELSE row[k]]
    /\ disturbed' = disturbed \cup {k \in Changes[w] :
            k \notin UNION Deletes[w] \/ \E r \in CacheRequests : Holding(r, k)}
    /\ Moves(q, IF Deletes[w] = {} THEN Free
                ELSE [Free EXCEPT !.at = "delete", !.dels = Deletes[w]])
    /\ UNCHANGED cache

Drop(keys) ==
    /\ cache' = [k \in Keys |-> IF k \in keys THEN Absent ELSE cache[k]]
    /\ disturbed' = disturbed \ {k \in keys : ~Outdated(k)}

Answered(q, del) ==
    LET left == work[q].dels \ {del}
    IN  Moves(q, IF left = {} THEN Free ELSE [work[q] EXCEPT !.dels = left])

\* Mutant: of several DELs only one is sent.
MutOneDelete(q, del) ==
    /\ del \in work[q].dels
    /\ Drop(del)
    /\ Moves(q, Free)
    /\ UNCHANGED row

\* invalidate and invalidateCache
Delete(q, del) ==
    /\ del \in work[q].dels
    /\ Drop(del)
    /\ Answered(q, del)
    /\ UNCHANGED row

\* The DEL rejects, or the process dies before it: its keys stay.
DeleteFails(q, del) ==
    /\ del \in work[q].dels
    /\ disturbed' = disturbed \cup del
    /\ Answered(q, del)
    /\ UNCHANGED <<row, cache>>

KeyExpires(k) ==
    /\ cache[k] # Absent
    /\ Drop({k})
    /\ UNCHANGED <<row, work>>

-----------------------------------------------------------------------------
CacheInit ==
    /\ row = [k \in Keys |-> 0]
    /\ cache = [k \in Keys |-> Absent]
    /\ work = [q \in CacheRequests |-> Free]
    /\ disturbed = {}

CacheNext ==
    \/ \E q \in CacheRequests :
        \/ \E k \in Keys : GetMisses(q, k) \/ Fetch(q, k) \/ StoreFetched(q, k) \/ ReadFails(q, k)
        \/ (\E w \in WriteKinds : WriteRow(q, w))
        \/ \E del \in work[q].dels : Delete(q, del) \/ DeleteFails(q, del)
    \/ \E k \in Keys : KeyExpires(k)

CacheSpec == CacheInit /\ [][CacheNext]_cacheVars

-----------------------------------------------------------------------------
CacheTypeOK ==
    /\ row \in [Keys -> 0..MaxVersion]
    /\ cache \in [Keys -> (0..MaxVersion) \cup {Absent}]
    /\ work \in [CacheRequests ->
            [at : {"free", "fetch", "store", "delete"}, key : Keys \cup {Absent},
             held : (0..MaxVersion) \cup {Absent}, dels : SUBSET SUBSET Keys]]
    /\ \A q \in CacheRequests : work[q].at = "store" => work[q].key # Absent /\ work[q].held # Absent
    /\ disturbed \subseteq Keys

\* What the cache holds is the row, or a write that is about to delete the key is under way:
\* unless the key was left behind, by a write that does not delete it, a deletion that failed,
\* or a read overtaken between its fetch and its store, and has not been emptied since.
CacheIsCurrent ==
    \A k \in Keys \ disturbed :
        \/ cache[k] \in {row[k], Absent}
        \/ \E q \in CacheRequests : Deleting(q, k)
=============================================================================
