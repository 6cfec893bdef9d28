---------------------------- MODULE ActivityFeed ----------------------------
(***************************************************************************)
(* The activity feed of one group, a Redis list that holds the newest      *)
(* activities.  Adding one is three awaited calls: push, trim, set the     *)
(* time to live; adders overlap, and a key may go between the calls of one *)
(* of them.  An activity is its number in the order of the pushes.         *)
(***************************************************************************)
EXTENDS Integers, Sequences

CONSTANTS
    Adders,         \* calls of addActivityToFeed that may be under way together
    MaxActivities,  \* how many the feed keeps, 50 by default
    MaxPushes       \* bound: activities there ever are

ASSUME ActivityFeedConstants == MaxActivities \in Nat \ {0} /\ MaxPushes \in Nat

VARIABLES
    feed,           \* the list, newest first; empty: no key
    expires,        \* the key has a time to live
    adding,         \* what each adder does next
    pushes,         \* activities pushed so far
    since,          \* history: pushes since the key last went, by clearing or by expiry
    strays          \* history: adders whose last calls failed, since the key last went

feedVars == <<feed, expires, adding, pushes, since, strays>>

Lpush(a) ==
    /\ adding[a] = "push" /\ pushes < MaxPushes
    /\ pushes' = pushes + 1 /\ since' = since + 1
    /\ feed' = <<pushes + 1>> \o feed
    /\ adding' = [adding EXCEPT ![a] = "trim"]
    /\ UNCHANGED <<expires, strays>>

\* Mutant: the trim starts at 1 where the first index is 0.
MutTrimsFromOne(a) ==
    /\ adding[a] = "trim"
    /\ feed' = SubSeq(feed, 2, Len(feed))
    /\ adding' = [adding EXCEPT ![a] = "expire"]
    /\ UNCHANGED <<expires, pushes, since, strays>>

\* LTRIM 0 maxActivities - 1; on a key that is gone it does nothing.
Ltrim(a) ==
    /\ adding[a] = "trim"
    /\ feed' = IF Len(feed) > MaxActivities THEN SubSeq(feed, 1, MaxActivities) ELSE feed
    /\ adding' = [adding EXCEPT ![a] = "expire"]
    /\ UNCHANGED <<expires, pushes, since, strays>>

\* EXPIRE; likewise.
Expire(a) ==
    /\ adding[a] = "expire"
    /\ expires' = (feed # <<>>)
    /\ adding' = [adding EXCEPT ![a] = "push"]
    /\ UNCHANGED <<feed, pushes, since, strays>>

\* A call rejects and the rest is skipped.
AddFails(a) ==
    /\ adding[a] # "push"
    /\ adding' = [adding EXCEPT ![a] = "push"]
    /\ strays' = strays + 1
    /\ UNCHANGED <<feed, expires, pushes, since>>

AddActivityToFeed(a) == Lpush(a) \/ Ltrim(a) \/ Expire(a) \/ AddFails(a)

Gone ==
    /\ feed' = <<>> /\ expires' = FALSE /\ since' = 0 /\ strays' = 0
    /\ UNCHANGED <<adding, pushes>>

ClearActivityFeed == feed # <<>> /\ Gone

\* Seven days pass.
RunsOut == expires /\ Gone

FeedInit ==
    /\ feed = <<>> /\ expires = FALSE /\ pushes = 0 /\ since = 0 /\ strays = 0
    /\ adding = [a \in Adders |-> "push"]

FeedNext == (\E a \in Adders : AddActivityToFeed(a)) \/ ClearActivityFeed \/ RunsOut

FeedSpec == FeedInit /\ [][FeedNext]_feedVars

-----------------------------------------------------------------------------
Few(m, n) == IF m < n THEN m ELSE n

\* However the calls of the adders mix with each other and with the key going, the feed is
\* the newest activities since, newest first and none left out, and no fewer than it is to
\* keep; and once no adder is halfway it keeps no more and will run out, unless the calls of
\* one failed.
FeedIsNewest ==
    /\ \A i \in 1..Len(feed) : feed[i] = pushes - i + 1
    /\ Len(feed) \in Few(MaxActivities, since)..since
    /\ (\A a \in Adders : adding[a] = "push") /\ strays = 0 =>
            Len(feed) <= MaxActivities /\ (feed # <<>> => expires)
=============================================================================
