--------------------------- MODULE RateLimitProofs ---------------------------
(***************************************************************************)
(* Proofs about RateLimit, for any number of requests, limit and window,   *)
(* and about CacheAside, for any keys, writes and requests.                *)
(***************************************************************************)
EXTENDS RateLimit, CacheAside, FiniteSetTheorems, TLAPS

Executed(r) == pc[r] \in {"admitted", "refused", "passed"}

LEMMA TypeOKStep == TypeOK /\ [Next]_vars => TypeOK'
<1> SUFFICES ASSUME TypeOK, [Next]_vars PROVE TypeOK'
  OBVIOUS
<1> USE RateLimitConstants DEF TypeOK, Times
<1>1. CASE Tick BY <1>1 DEF Tick
<1>2. ASSUME NEW r \in Requests, CanActivate(r) PROVE TypeOK'
  <2>1. Counted(r) \subseteq Requests
    BY DEF Counted
  <2>2. CASE ReadClock(r) BY <2>2 DEF ReadClock
  <2>3. CASE Exec(r) BY <2>1, <2>3 DEF Exec, Expire
  <2>4. CASE FailOpen(r) BY <2>1, <2>4 DEF FailOpen, Expire
  <2> QED BY <1>2, <2>2, <2>3, <2>4 DEF CanActivate
<1>3. CASE UNCHANGED vars BY <1>3 DEF vars
<1> QED BY <1>1, <1>2, <1>3 DEF Next

\* The type invariant of the limiter.
THEOREM TypeCorrect == Spec => []TypeOK
<1>1. Init => TypeOK
  BY RateLimitConstants DEF Init, TypeOK, Times
<1> QED BY <1>1, TypeOKStep, PTL DEF Spec

-----------------------------------------------------------------------------
(* What the sorted set retains.  A request that was counted leaves the set only once  *)
(* its window is over; a request is under way for Delay at most.                      *)

Retained ==
    /\ \A r \in Requests : pc[r] # "new" => score[r] <= now
    /\ \A r \in Requests : pc[r] = "exec" => now <= score[r] + Delay
    /\ \A r \in log : Executed(r) /\ score[r] + Window <= expires
    /\ \A r \in Requests : pc[r] \in {"admitted", "refused"} =>
           r \in log \/ score[r] + Window <= now

LEMMA RetainedStep == TypeOK /\ Retained /\ [Next]_vars => Retained'
<1> SUFFICES ASSUME TypeOK, Retained, [Next]_vars PROVE Retained'
  OBVIOUS
<1> USE RateLimitConstants DEF TypeOK, Times, Retained, Executed
<1>1. CASE Tick BY <1>1 DEF Tick
<1>2. ASSUME NEW r \in Requests, ReadClock(r) PROVE Retained'
  BY <1>2 DEF ReadClock
<1>3. ASSUME NEW r \in Requests, Exec(r) PROVE Retained'
  BY <1>3 DEF Exec, Expire, Counted
<1>4. ASSUME NEW r \in Requests, FailOpen(r) PROVE Retained'
  BY <1>4 DEF FailOpen, Expire, Counted
<1>5. CASE UNCHANGED vars BY <1>5 DEF vars
<1> QED BY <1>1, <1>2, <1>3, <1>4, <1>5 DEF Next, CanActivate

LEMMA RetainedInit == Init => TypeOK /\ Retained
BY RateLimitConstants DEF Init, TypeOK, Times, Retained, Executed

-----------------------------------------------------------------------------
(* No burst. *)

AdmittedBetween(t, u) == {r \in Between(t, u) : pc[r] = "admitted"}

\* The transaction of a request sees every admitted request that shares a shortened
\* window with it.
LEMMA SharedWindowCounted ==
  ASSUME TypeOK, Retained, NEW r \in Requests, pc[r] = "exec",
         NEW t \in Int, r \in Between(t, t + Window - Delay)
  PROVE  AdmittedBetween(t, t + Window - Delay) \subseteq Counted(r)
BY RateLimitConstants DEF TypeOK, Times, Retained, Between, AdmittedBetween, Counted

LEMMA NoBurstStep == TypeOK /\ Retained /\ NoBurst /\ [Next]_vars => NoBurst'
<1> SUFFICES ASSUME TypeOK, Retained, NoBurst, [Next]_vars, NEW t \in -1..MaxTime
             PROVE  Cardinality(AdmittedBetween(t, t + Window - Delay)') <= Max
  BY DEF NoBurst, AdmittedBetween
<1> DEFINE u == t + Window - Delay
<1>1. Cardinality(AdmittedBetween(t, u)) <= Max
  BY DEF NoBurst, AdmittedBetween
<1>2. ASSUME \A q \in Requests : pc'[q] = "admitted" => pc[q] = "admitted" /\ score'[q] = score[q],
             \A q \in Requests : pc[q] = "admitted" => pc'[q] = "admitted" /\ score'[q] = score[q]
      PROVE  Cardinality(AdmittedBetween(t, u)') <= Max
  <2>1. AdmittedBetween(t, u)' = AdmittedBetween(t, u)
    BY <1>2 DEF AdmittedBetween, Between
  <2> QED BY <1>1, <2>1
<1>3. CASE Tick BY <1>2, <1>3 DEF Tick
<1>4. ASSUME NEW r \in Requests, ReadClock(r) \/ FailOpen(r)
      PROVE  Cardinality(AdmittedBetween(t, u)') <= Max
  BY <1>2, <1>4 DEF ReadClock, FailOpen, TypeOK
<1>5. ASSUME NEW r \in Requests, Exec(r)
      PROVE  Cardinality(AdmittedBetween(t, u)') <= Max
  <2>1. pc[r] = "exec" /\ score' = score
    BY <1>5 DEF Exec
  <2>2. AdmittedBetween(t, u)' \subseteq AdmittedBetween(t, u) \cup {r}
    BY <1>5 DEF Exec, TypeOK, AdmittedBetween, Between
  <2>3. CASE r \notin AdmittedBetween(t, u)'
    <3>1. AdmittedBetween(t, u)' = AdmittedBetween(t, u)
      BY <1>5, <2>1, <2>2, <2>3 DEF Exec, TypeOK, AdmittedBetween, Between
    <3> QED BY <1>1, <3>1
  <2>4. CASE r \in AdmittedBetween(t, u)'
    <3>1. Cardinality(Counted(r)) <= Max
      <4>1. IsFiniteSet(Counted(r))
        BY FS_Subset, RateLimitConstants DEF Counted, TypeOK
      <4>2. pc'[r] = "admitted"
        BY <2>4 DEF AdmittedBetween
      <4> QED BY <1>5, <4>1, <4>2, FS_CardinalityType, RateLimitConstants DEF Exec, TypeOK
    <3>2. r \in Between(t, u)
      BY <2>1, <2>4 DEF AdmittedBetween, Between
    <3>3. AdmittedBetween(t, u)' \subseteq Counted(r)
      BY <2>1, <2>2, <3>2, SharedWindowCounted DEF Counted
    <3>4. IsFiniteSet(Counted(r))
      BY FS_Subset, RateLimitConstants DEF Counted, TypeOK
    <3>5. /\ Cardinality(AdmittedBetween(t, u)') <= Cardinality(Counted(r))
          /\ Cardinality(AdmittedBetween(t, u)') \in Nat /\ Cardinality(Counted(r)) \in Nat
      BY <3>3, <3>4, FS_Subset, FS_CardinalityType
    <3> QED BY <3>1, <3>5, RateLimitConstants
  <2> QED BY <2>3, <2>4
<1>6. CASE UNCHANGED vars BY <1>2, <1>6 DEF vars
<1> QED BY <1>3, <1>4, <1>5, <1>6 DEF Next, CanActivate

\* Wherever a window is laid, at most Max requests that came in it are admitted.
THEOREM NeverBurst == Spec => []NoBurst
<1>1. Init => NoBurst
  <2> SUFFICES ASSUME Init, NEW t \in -1..MaxTime
               PROVE  Cardinality(AdmittedBetween(t, t + Window - Delay)) <= Max
    BY DEF NoBurst, AdmittedBetween
  <2>1. AdmittedBetween(t, t + Window - Delay) = {}
    BY DEF Init, AdmittedBetween, Between
  <2> QED BY <2>1, FS_EmptySet, RateLimitConstants
<1> QED BY <1>1, RetainedInit, TypeOKStep, RetainedStep, NoBurstStep, PTL DEF Spec

-----------------------------------------------------------------------------
(* Refusals. *)

\* The requests that answer for the refusal of r.
Grounds(r) ==
    {q \in Requests \ {r} : /\ pc[q] \in {"admitted", "refused", "passed"}
                            /\ score[q] > score[r] - Window /\ score[q] <= score[r] + Delay}

LEMMA RefusalStep ==
  TypeOK /\ Retained /\ RefusalJustified /\ [Next]_vars => RefusalJustified'
<1> SUFFICES ASSUME TypeOK, Retained, RefusalJustified, [Next]_vars,
                    NEW r \in Requests, pc'[r] = "refused"
             PROVE  Cardinality(Grounds(r)') >= Max
  BY DEF RefusalJustified, Grounds
<1>1. \A q \in Requests : Executed(q) => pc'[q] = pc[q] /\ score'[q] = score[q]
  BY DEF Next, Tick, CanActivate, ReadClock, Exec, FailOpen, vars, TypeOK, Executed
<1>2. IsFiniteSet(Grounds(r)')
  BY FS_Subset, RateLimitConstants DEF Grounds
<1>3. CASE pc[r] = "refused"
  <2>1. Grounds(r) \subseteq Grounds(r)'
    BY <1>1, <1>3 DEF Grounds, Executed
  <2>2. Cardinality(Grounds(r)) >= Max
    BY <1>3 DEF RefusalJustified, Grounds
  <2>3. IsFiniteSet(Grounds(r))
    BY <1>2, <2>1, FS_Subset
  <2> QED BY <1>2, <2>1, <2>2, <2>3, FS_Subset, FS_CardinalityType, RateLimitConstants
<1>4. CASE pc[r] # "refused"
  <2>1. Exec(r)
    BY <1>4 DEF Next, Tick, CanActivate, ReadClock, Exec, FailOpen, vars, TypeOK
  <2>2. Cardinality(Counted(r)) > Max
    BY <2>1 DEF Exec, TypeOK
  <2>3. Counted(r) \ {r} \subseteq Grounds(r)'
    BY <1>1, <2>1, RateLimitConstants
    DEF Counted, Grounds, Retained, Executed, Exec, TypeOK, Times
  <2>4. IsFiniteSet(Counted(r)) /\ r \in Counted(r)
    BY FS_Subset, RateLimitConstants DEF Counted, TypeOK
  <2>5. Cardinality(Counted(r) \ {r}) = Cardinality(Counted(r)) - 1
    BY <2>4, FS_RemoveElement
  <2>6. /\ Cardinality(Counted(r) \ {r}) <= Cardinality(Grounds(r)')
        /\ Cardinality(Grounds(r)') \in Nat /\ Cardinality(Counted(r)) \in Nat
    BY <1>2, <2>3, <2>4, FS_Subset, FS_CardinalityType
  <2> QED BY <2>2, <2>5, <2>6, RateLimitConstants
<1> QED BY <1>3, <1>4

\* No request is refused without Max others in its window.
THEOREM RefusalsJustified == Spec => []RefusalJustified
<1>1. Init => RefusalJustified
  BY DEF Init, RefusalJustified
<1> QED BY <1>1, RetainedInit, TypeOKStep, RetainedStep, RefusalStep, PTL DEF Spec

-----------------------------------------------------------------------------
(* The cache *)

\* What a request has in hand.
CacheWork == [at : {"free", "fetch", "store", "delete"}, key : Keys \cup {Absent},
              held : (0..MaxVersion) \cup {Absent}, dels : SUBSET SUBSET Keys]

\* A request that has DELs to send does nothing else.
Fits(w) ==
  /\ w \in CacheWork
  /\ w.at = "store" => w.key # Absent /\ w.held # Absent
  /\ w.dels # {} => w.at = "delete"

\* A key that is not left behind is not about to be stored with an old version.
Current(k) ==
  /\ ~Outdated(k)
  /\ cache[k] \in {row[k], Absent} \/ \E q \in CacheRequests : Deleting(q, k)

CacheInv ==
  /\ row \in [Keys -> 0..MaxVersion]
  /\ cache \in [Keys -> (0..MaxVersion) \cup {Absent}]
  /\ work \in [CacheRequests -> CacheWork] /\ \A q \in CacheRequests : Fits(work[q])
  /\ disturbed \subseteq Keys
  /\ \A k \in Keys \ disturbed : Current(k)

LEMMA FreeFits == Fits(Free) /\ Free.at = "free" /\ Free.dels = {}
BY DEF Free, Fits, CacheWork

LEMMA CacheInitInv == CacheInit => CacheInv
<1> SUFFICES ASSUME CacheInit PROVE CacheInv
  OBVIOUS
<1>1. work \in [CacheRequests -> CacheWork] /\ \A q \in CacheRequests : Fits(work[q])
  BY FreeFits DEF CacheInit, Fits
<1>2. \A k \in Keys : Current(k)
  BY FreeFits DEF CacheInit, Current, Outdated, Holding
<1> QED BY <1>1, <1>2, CacheAsideConstants DEF CacheInit, CacheInv

\* What a step of one request does to what requests hold and are about to delete.
LEMMA OneMoves ==
  ASSUME CacheInv, NEW q \in CacheRequests, NEW value, Fits(value), Moves(q, value)
  PROVE  /\ work' \in [CacheRequests -> CacheWork] /\ \A r \in CacheRequests : Fits(work'[r])
         /\ work'[q] = value /\ \A r \in CacheRequests \ {q} : work'[r] = work[r]
BY DEF CacheInv, Moves, Fits

\* A read before its store: what it holds is the row.
LEMMA ReadStep ==
  ASSUME CacheInv, NEW q \in CacheRequests, NEW value, Fits(value), Moves(q, value),
         work[q].dels = {}, value.at = "store" => value.held = row[value.key],
         UNCHANGED <<row, cache, disturbed>>
  PROVE  CacheInv'
<1>1. /\ work' \in [CacheRequests -> CacheWork] /\ \A r \in CacheRequests : Fits(work'[r])
      /\ work'[q] = value /\ \A r \in CacheRequests \ {q} : work'[r] = work[r]
  BY OneMoves
<1>2. ASSUME NEW k \in Keys \ disturbed PROVE Current(k)'
  <2>1. Current(k)
    BY DEF CacheInv
  <2>2. ~Outdated(k)'
    BY <1>1, <2>1 DEF Current, Outdated, Holding
  <2>3. \A r \in CacheRequests : Deleting(r, k) => Deleting(r, k)'
    BY <1>1 DEF Deleting
  <2> QED BY <2>1, <2>2, <2>3 DEF Current
<1> QED BY <1>1, <1>2 DEF CacheInv

\* Emptying a key makes it current, and is no pardon where an old version is about to be
\* stored.
LEMMA DropStep ==
  ASSUME CacheInv, NEW keys \in SUBSET Keys, Drop(keys), UNCHANGED row,
         work' \in [CacheRequests -> CacheWork], \A r \in CacheRequests : Fits(work'[r]),
         \A r \in CacheRequests, k \in Keys :
            /\ Holding(r, k)' => Holding(r, k) /\ work'[r].held = work[r].held
            /\ Deleting(r, k) => Deleting(r, k)' \/ k \in keys
  PROVE  CacheInv'
<1>1. /\ cache' \in [Keys -> (0..MaxVersion) \cup {Absent}] /\ disturbed' \subseteq Keys
      /\ \A k \in Keys : cache'[k] = IF k \in keys THEN Absent ELSE cache[k]
  BY DEF CacheInv, Drop
<1>2. ASSUME NEW k \in Keys \ disturbed' PROVE Current(k)'
  <2>1. ~Outdated(k) /\ (k \notin keys => k \notin disturbed)
    BY <1>2 DEF CacheInv, Drop, Current
  <2>2. ~Outdated(k)'
    BY <2>1 DEF Outdated
  <2>3. CASE k \in keys
    BY <1>1, <2>2, <2>3 DEF Current
  <2>4. CASE k \notin keys
    <3>1. Current(k)
      BY <2>1, <2>4 DEF CacheInv
    <3> QED BY <1>1, <2>2, <2>4, <3>1 DEF Current
  <2> QED BY <2>3, <2>4
<1> QED BY <1>1, <1>2 DEF CacheInv

LEMMA CacheStep == CacheInv /\ [CacheNext]_cacheVars => CacheInv'
<1> SUFFICES ASSUME CacheInv, [CacheNext]_cacheVars PROVE CacheInv'
  OBVIOUS
<1> USE CacheAsideConstants
<1>1. ASSUME NEW q \in CacheRequests, NEW k \in Keys, GetMisses(q, k) PROVE CacheInv'
  <2> DEFINE new == [Free EXCEPT !.at = "fetch", !.key = k]
  <2>1. Fits(new) /\ new.at # "store"
    BY DEF Free, Fits, CacheWork
  <2>2. work[q].dels = {} /\ Moves(q, new) /\ UNCHANGED <<row, cache, disturbed>>
    BY <1>1, FreeFits DEF GetMisses
  <2> HIDE DEF new
  <2> QED BY <2>1, <2>2, ReadStep
<1>2. ASSUME NEW q \in CacheRequests, NEW k \in Keys, Fetch(q, k) PROVE CacheInv'
  <2> DEFINE new == [Free EXCEPT !.at = "store", !.key = k, !.held = row[k]]
  <2>1. row[k] \in 0..MaxVersion /\ row[k] # Absent /\ k # Absent
    BY DEF CacheInv
  <2>2. Fits(new) /\ new.held = row[new.key]
    BY <2>1 DEF Free, Fits, CacheWork
  <2>3. work[q].dels = {}
    BY <1>2 DEF Fetch, Reading, Free
  <2>4. Moves(q, new) /\ UNCHANGED <<row, cache, disturbed>>
    BY <1>2 DEF Fetch
  <2> HIDE DEF new
  <2> QED BY <2>2, <2>3, <2>4, ReadStep
<1>3. ASSUME NEW q \in CacheRequests, NEW k \in Keys, StoreFetched(q, k) PROVE CacheInv'
  <2>1. /\ work' \in [CacheRequests -> CacheWork] /\ \A r \in CacheRequests : Fits(work'[r])
        /\ work'[q] = Free /\ \A r \in CacheRequests \ {q} : work'[r] = work[r]
    BY <1>3, FreeFits, OneMoves DEF StoreFetched
  <2>2. Fits(work[q]) /\ work[q].held \in 0..MaxVersion /\ work[q].dels = {}
    BY <1>3 DEF CacheInv, StoreFetched, Holding, Fits, CacheWork
  <2>3. cache' = [cache EXCEPT ![k] = work[q].held] /\ UNCHANGED <<row, disturbed>>
    BY <1>3 DEF StoreFetched
  <2>4. ASSUME NEW x \in Keys \ disturbed PROVE Current(x)'
    <3>1. Current(x)
      BY DEF CacheInv
    <3>2. ~Outdated(x)'
      BY <2>1, <2>3, <3>1, FreeFits DEF Current, Outdated, Holding
    <3>3. \A r \in CacheRequests : Deleting(r, x) => Deleting(r, x)'
      BY <2>1, <2>2 DEF Deleting
    <3>4. x = k => work[q].held = row[x]
      BY <1>3, <3>1 DEF Current, Outdated, StoreFetched
    <3>5. cache'[x] = IF x = k THEN work[q].held ELSE cache[x]
      BY <2>3 DEF CacheInv
    <3> QED BY <2>3, <3>1, <3>2, <3>3, <3>4, <3>5 DEF Current
  <2> QED BY <2>1, <2>2, <2>3, <2>4 DEF CacheInv
<1>4. ASSUME NEW q \in CacheRequests, NEW k \in Keys, ReadFails(q, k) PROVE CacheInv'
  <2>1. work[q].dels = {}
    BY <1>4 DEF ReadFails, Reading, Holding, Free, CacheInv, Fits
  <2> QED BY <1>4, <2>1, FreeFits, ReadStep DEF ReadFails
<1>5. ASSUME NEW q \in CacheRequests, NEW w \in WriteKinds, WriteRow(q, w) PROVE CacheInv'
  <2> DEFINE new == IF Deletes[w] = {} THEN Free ELSE [Free EXCEPT !.at = "delete", !.dels = Deletes[w]]
  <2>1. Fits(new) /\ new.dels = Deletes[w] /\ new.at # "store"
    BY FreeFits DEF Free, Fits, CacheWork
  <2>2. Moves(q, new) /\ work[q] = Free /\ UNCHANGED cache
    BY <1>5 DEF WriteRow
  <2> HIDE DEF new
  <2>3. /\ work' \in [CacheRequests -> CacheWork] /\ \A r \in CacheRequests : Fits(work'[r])
        /\ work'[q] = new /\ \A r \in CacheRequests \ {q} : work'[r] = work[r]
    BY <2>1, <2>2, OneMoves
  <2>4. row' \in [Keys -> 0..MaxVersion]
    BY <1>5 DEF WriteRow, CacheInv
  <2>5. \A x \in Keys : x \notin Changes[w] => row'[x] = row[x]
    BY <1>5 DEF WriteRow
  <2>6. disturbed' \subseteq Keys /\ disturbed \subseteq disturbed'
    BY <1>5 DEF WriteRow, CacheInv
  <2>7. ASSUME NEW x \in Keys \ disturbed' PROVE Current(x)'
    <3>1. Current(x)
      BY <2>6 DEF CacheInv
    <3>2. \A r \in CacheRequests : Holding(r, x)' => Holding(r, x) /\ work'[r] = work[r]
      BY <2>1, <2>3 DEF Holding
    <3>3. \A r \in CacheRequests : Deleting(r, x) => Deleting(r, x)'
      BY <2>2, <2>3, FreeFits DEF Deleting
    <3>4. CASE x \in Changes[w]
      <4>1. x \in UNION Deletes[w] /\ \A r \in CacheRequests : ~Holding(r, x)
        BY <1>5, <2>7, <3>4 DEF WriteRow
      <4>2. Deleting(q, x)'
        BY <2>1, <2>3, <4>1 DEF Deleting
      <4> QED BY <3>2, <4>1, <4>2 DEF Current, Outdated
    <3>5. CASE x \notin Changes[w]
      BY <2>2, <2>5, <3>1, <3>2, <3>3, <3>5 DEF Current, Outdated
    <3> QED BY <3>4, <3>5
  <2> QED BY <2>2, <2>3, <2>4, <2>6, <2>7 DEF CacheInv
<1>6. ASSUME NEW q \in CacheRequests, NEW del \in SUBSET Keys, del \in work[q].dels,
             Answered(q, del)
      PROVE  /\ work' \in [CacheRequests -> CacheWork] /\ \A r \in CacheRequests : Fits(work'[r])
             /\ \A r \in CacheRequests, k \in Keys :
                  /\ Holding(r, k)' => Holding(r, k) /\ work'[r].held = work[r].held
                  /\ Deleting(r, k) => Deleting(r, k)' \/ k \in del
  <2> DEFINE left == work[q].dels \ {del}
             new == IF left = {} THEN Free ELSE [work[q] EXCEPT !.dels = left]
  <2>1. Fits(work[q]) /\ work[q].at = "delete" /\ left \in SUBSET SUBSET Keys
    BY <1>6 DEF CacheInv, Fits, CacheWork
  <2>2. Fits(new) /\ new.dels = left /\ new.at # "store"
    BY <2>1, FreeFits DEF Fits, CacheWork
  <2>3. Moves(q, new)
    BY <1>6 DEF Answered
  <2> HIDE DEF new
  <2>4. /\ work' \in [CacheRequests -> CacheWork] /\ \A r \in CacheRequests : Fits(work'[r])
        /\ work'[q] = new /\ \A r \in CacheRequests \ {q} : work'[r] = work[r]
    BY <2>2, <2>3, OneMoves
  <2> QED BY <2>2, <2>4 DEF Holding, Deleting
<1>7. ASSUME NEW q \in CacheRequests, NEW del \in SUBSET Keys, Delete(q, del) PROVE CacheInv'
  BY <1>6, <1>7, DropStep DEF Delete
<1>8. ASSUME NEW q \in CacheRequests, NEW del \in SUBSET Keys, DeleteFails(q, del)
      PROVE  CacheInv'
  <2>1. /\ work' \in [CacheRequests -> CacheWork] /\ \A r \in CacheRequests : Fits(work'[r])
        /\ \A r \in CacheRequests, k \in Keys :
             /\ Holding(r, k)' => Holding(r, k) /\ work'[r].held = work[r].held
             /\ Deleting(r, k) => Deleting(r, k)' \/ k \in del
    BY <1>6, <1>8 DEF DeleteFails
  <2>2. disturbed' = disturbed \cup del /\ UNCHANGED <<row, cache>>
    BY <1>8 DEF DeleteFails
  <2>3. ASSUME NEW k \in Keys \ disturbed' PROVE Current(k)'
    <3>1. Current(k) /\ k \notin del
      BY <2>2 DEF CacheInv
    <3> QED BY <2>1, <2>2, <3>1 DEF Current, Outdated
  <2> QED BY <2>1, <2>2, <2>3 DEF CacheInv
<1>9. ASSUME NEW k \in Keys, KeyExpires(k) PROVE CacheInv'
  <2>1. /\ work' \in [CacheRequests -> CacheWork] /\ \A r \in CacheRequests : Fits(work'[r])
        /\ work' = work
    BY <1>9 DEF KeyExpires, CacheInv
  <2> QED BY <1>9, <2>1, DropStep DEF KeyExpires, Holding, Deleting
<1>10. CASE UNCHANGED cacheVars
  BY <1>10 DEF cacheVars, CacheInv, Current, Outdated, Holding, Deleting
<1>11. \A q \in CacheRequests : work[q].dels \subseteq SUBSET Keys
  BY DEF CacheInv, CacheWork
<1> QED
  BY <1>1, <1>2, <1>3, <1>4, <1>5, <1>7, <1>8, <1>9, <1>10, <1>11 DEF CacheNext

\* RedisService.getOrSet and the services that write: a key that no write, failed deletion or
\* overtaken read has left behind holds its row, or is about to be deleted.
THEOREM CacheStaysCurrent == CacheSpec => []CacheIsCurrent
<1>1. CacheInv => CacheIsCurrent
  BY DEF CacheInv, CacheIsCurrent, Current
<1> QED BY <1>1, CacheInitInv, CacheStep, PTL DEF CacheSpec
=============================================================================
