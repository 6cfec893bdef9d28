---------------------------- MODULE Subscriptions ----------------------------
(***************************************************************************)
(* UserSubscriptionService and the RevenueCat webhook of the subscription  *)
(* module, for one user.  Checkouts create a row, then a Stripe session,   *)
(* then, for a trial, mark the user; RevenueCat events are processed after *)
(* they were answered, in any order and any number of times.  A document   *)
(* is loaded in one call and saved in another: Mongoose writes the fields  *)
(* that differ from what was loaded, and nothing when none does.           *)
(***************************************************************************)
EXTENDS Integers, Sequences

CONSTANTS
    SubRequests,    \* checkouts, calls of administrators, webhook runs: at once
    Orders,         \* ids of INITIAL_PURCHASE events
    GivenStatuses,  \* bound: statuses administrators give
    MaxSubs         \* bound: subscription rows

SubStatuses == {"processing", "active", "past_due", "cancelled", "unpaid", "incomplete",
                "incomplete_expired", "trialing", "payment_failed"}
RcEvents == {"RENEWAL", "CANCELLATION", "EXPIRATION", "REFUND", "BILLING_ISSUE"}

ASSUME SubscriptionsConstants ==
    /\ GivenStatuses \subseteq SubStatuses /\ MaxSubs \in Nat
    /\ Orders \cap ({"trial", "purchase", "none"} \cup SubStatuses \cup RcEvents) = {}

VARIABLES
    subs,           \* rows in the order they were created: source, status, isActive
    hasUsedFreeTrial,
    customer,       \* the user has a stripe_customer_id
    trialSessions,  \* history: checkout sessions with a trial
    doing,          \* of each request: the next call, what it is for, the row it loaded
    loaded,         \* of each request: the document it loaded
    expired,        \* history: rows for which an expiration was processed
    given,          \* history: rows whose status an administrator wrote last
    orderly         \* history: trials ran one at a time, none failed after its session

subscriptionVars == <<subs, hasUsedFreeTrial, customer, trialSessions, doing, loaded, expired, given, orderly>>

Nothing == [at |-> "idle", for |-> "none", row |-> 0]
NoDocument == [source |-> "purchase", status |-> "processing", isActive |-> TRUE]

Doing(q, at, for) ==
    doing' = [doing EXCEPT ![q] = [at |-> at, for |-> for, row |-> 0]] /\ UNCHANGED loaded
Loads(q, for, i) ==
    /\ doing' = [doing EXCEPT ![q] = [at |-> "save", for |-> for, row |-> i]]
    /\ loaded' = [loaded EXCEPT ![q] = subs[i]]
Then(q, at) == doing' = [doing EXCEPT ![q].at = at] /\ UNCHANGED loaded
Ends(q) == doing' = [doing EXCEPT ![q] = Nothing] /\ loaded' = [loaded EXCEPT ![q] = NoDocument]

Store(source, value) ==
    /\ Len(subs) < MaxSubs
    /\ subs' = Append(subs, [source |-> source, status |-> value, isActive |-> TRUE])

-----------------------------------------------------------------------------
(* Checkouts *)

Trial(q) == doing[q].for = "trial"

\* The flag and the customer are those of the user as he was read at the start.
Checkout(q, for) ==
    /\ doing[q].at = "idle"
    /\ Doing(q, IF customer THEN "retrieve" ELSE "customer", for)
    /\ UNCHANGED <<subs, hasUsedFreeTrial, customer, trialSessions, expired, given>>

\* Mutant: the flag is not looked at.
MutAnyTrial(q) ==
    /\ Checkout(q, "trial")
    /\ orderly' = (orderly /\ ~\E r \in SubRequests : Trial(r))

StartFreeTrial(q) ==
    /\ ~hasUsedFreeTrial /\ Checkout(q, "trial")
    /\ orderly' = (orderly /\ ~\E r \in SubRequests : Trial(r))

PurchaseSubscription(q) == Checkout(q, "purchase") /\ UNCHANGED orderly

\* getOrCreateStripeCustomer: a customer who is deleted at Stripe, or cannot be retrieved, is
\* created anew.
GetOrCreateStripeCustomer(q) ==
    /\ \/ doing[q].at = "retrieve" /\ UNCHANGED customer
          /\ (Then(q, "row") \/ Then(q, "customer"))
       \/ doing[q].at = "customer" /\ customer' = TRUE /\ Then(q, "row")
    /\ UNCHANGED <<subs, hasUsedFreeTrial, trialSessions, expired, given, orderly>>

CreateSubscription(q) ==
    /\ doing[q].at = "row"
    /\ Store(doing[q].for, "processing")
    /\ Then(q, "session")
    /\ UNCHANGED <<hasUsedFreeTrial, customer, trialSessions, expired, given, orderly>>

CreateSession(q) ==
    /\ doing[q].at = "session"
    /\ IF Trial(q) THEN Then(q, "flag") /\ trialSessions' = trialSessions + 1
                   ELSE Ends(q) /\ UNCHANGED trialSessions
    /\ UNCHANGED <<subs, hasUsedFreeTrial, customer, expired, given, orderly>>

MarkTrialUsed(q) ==
    /\ doing[q].at = "flag"
    /\ hasUsedFreeTrial' = TRUE
    /\ Ends(q)
    /\ UNCHANGED <<subs, customer, trialSessions, expired, given, orderly>>

-----------------------------------------------------------------------------
(* Loading and saving a row *)

\* cancelSubscription and updateSubscriptionStatus, by id.
CancelSubscription(q, i) ==
    /\ doing[q].at = "idle" /\ i \in DOMAIN subs
    /\ Loads(q, "CANCELLATION", i)
    /\ UNCHANGED <<subs, hasUsedFreeTrial, customer, trialSessions, expired, given, orderly>>

UpdateSubscriptionStatus(q, i, status) ==
    /\ doing[q].at = "idle" /\ i \in DOMAIN subs
    /\ Loads(q, status, i)
    /\ UNCHANGED <<subs, hasUsedFreeTrial, customer, trialSessions, expired, given, orderly>>

\* findOne by revenueCatUserId: the first row there is, also when a later purchase made another.
FirstOfRevenueCat(i) ==
    /\ i \in DOMAIN subs /\ subs[i].source \in Orders
    /\ \A k \in 1..(i - 1) : subs[k].source \notin Orders

HandleEvent(q, event, i) ==
    /\ doing[q].at = "idle" /\ FirstOfRevenueCat(i)
    /\ Loads(q, event, i)
    /\ UNCHANGED <<subs, hasUsedFreeTrial, customer, trialSessions, expired, given, orderly>>

HandleInitialPurchase(q, order) ==
    /\ doing[q].at = "idle"
    /\ \A i \in DOMAIN subs : subs[i].source # order
    /\ Doing(q, "create", order)
    /\ UNCHANGED <<subs, hasUsedFreeTrial, customer, trialSessions, expired, given, orderly>>

CreateFromOrder(q) ==
    /\ doing[q].at = "create"
    /\ Store(doing[q].for, "active")
    /\ Ends(q)
    /\ UNCHANGED <<hasUsedFreeTrial, customer, trialSessions, expired, given, orderly>>

\* A renewal moves dates and counts a cycle; the other handlers set a status, which is what
\* updateSubscriptionStatus is given.
Changed(row, for) ==
    CASE for = "RENEWAL"       -> row
      [] for = "CANCELLATION"  -> [row EXCEPT !.status = "cancelled"]
      [] for = "EXPIRATION"    -> [row EXCEPT !.status = "incomplete_expired", !.isActive = FALSE]
      [] for = "REFUND"        -> [row EXCEPT !.status = "past_due"]
      [] for = "BILLING_ISSUE" -> [row EXCEPT !.status = "payment_failed"]
      [] OTHER                 -> [row EXCEPT !.status = for]

\* Mutant: the document is written whole.
MutWritesAll(row, was, is) == is

\* What save() makes of a row, for a document that was loaded and is to be as given.
Saved(row, was, is) ==
    [row EXCEPT !.status = IF is.status # was.status THEN is.status ELSE @,
                !.isActive = IF is.isActive # was.isActive THEN is.isActive ELSE @]

SaveSubscription(q) ==
    LET i == doing[q].row
        for == doing[q].for
        is == Changed(loaded[q], for)
    IN  /\ doing[q].at = "save"
        /\ subs' = [subs EXCEPT ![i] = Saved(@, loaded[q], is)]
        /\ expired' = IF for = "EXPIRATION" THEN expired \cup {i} ELSE expired
        /\ given' = IF is.status = loaded[q].status THEN given
                    ELSE IF for \in SubStatuses THEN given \cup {i} ELSE given \ {i}
        /\ Ends(q)
        /\ UNCHANGED <<hasUsedFreeTrial, customer, trialSessions, orderly>>

\* A call of a request rejects, applied or not, or the process dies.
SubscriptionCallFails(q) ==
    /\ doing[q].at # "idle"
    /\ Ends(q)
    /\ trialSessions' \in {trialSessions, trialSessions + (IF Trial(q) /\ doing[q].at = "session" THEN 1 ELSE 0)}
    /\ hasUsedFreeTrial' \in {hasUsedFreeTrial, hasUsedFreeTrial \/ doing[q].at = "flag"}
    /\ orderly' = (orderly /\ ~(Trial(q) /\ doing[q].at \in {"session", "flag"}))
    /\ UNCHANGED <<subs, customer, expired, given>>

-----------------------------------------------------------------------------
SubscriptionsInit ==
    /\ subs = <<>> /\ hasUsedFreeTrial = FALSE /\ customer = FALSE /\ trialSessions = 0
    /\ doing = [q \in SubRequests |-> Nothing] /\ loaded = [q \in SubRequests |-> NoDocument]
    /\ expired = {} /\ given = {} /\ orderly = TRUE

SubscriptionsNext ==
    \E q \in SubRequests :
        \/ StartFreeTrial(q) \/ PurchaseSubscription(q) \/ GetOrCreateStripeCustomer(q)
        \/ CreateSubscription(q) \/ CreateSession(q) \/ MarkTrialUsed(q)
        \/ \E i \in 1..MaxSubs :
            \/ CancelSubscription(q, i)
            \/ \E status \in GivenStatuses : UpdateSubscriptionStatus(q, i, status)
            \/ \E event \in RcEvents : HandleEvent(q, event, i)
        \/ (\E order \in Orders : HandleInitialPurchase(q, order))
        \/ CreateFromOrder(q) \/ SaveSubscription(q) \/ SubscriptionCallFails(q)

SubscriptionsSpec == SubscriptionsInit /\ [][SubscriptionsNext]_subscriptionVars

-----------------------------------------------------------------------------
SubRows == [source : {"trial", "purchase"} \cup Orders, status : SubStatuses, isActive : BOOLEAN]

SubscriptionsTypeOK ==
    /\ subs \in Seq(SubRows) /\ Len(subs) <= MaxSubs
    /\ loaded \in [SubRequests -> SubRows]
    /\ hasUsedFreeTrial \in BOOLEAN /\ customer \in BOOLEAN /\ trialSessions \in Nat
    /\ doing \in [SubRequests -> [at : {"idle", "retrieve", "customer", "row", "session", "flag",
                                        "save", "create"},
                                  for : {"none", "trial", "purchase"} \cup Orders \cup RcEvents
                                        \cup SubStatuses,
                                  row : 0..MaxSubs]]
    /\ \A q \in SubRequests : doing[q].at = "save" => doing[q].row \in DOMAIN subs
    /\ expired \subseteq DOMAIN subs /\ given \subseteq DOMAIN subs /\ orderly \in BOOLEAN

\* Trials that come one at a time and do not fail after their session was made give a user one
\* trial session, whatever purchases, webhook runs and administrators do meanwhile.
SerialTrialOnce == orderly => trialSessions <= 1

\* A subscription that RevenueCat reported expired is never isActive again, and usable only by
\* a status an administrator wrote, in whatever order its other events arrive and however
\* their runs overlap: none of them writes back what it loaded before.
ExpiredStaysInactive ==
    \A i \in expired :
        /\ ~subs[i].isActive
        /\ subs[i].status \in {"active", "trialing"} => i \in given
=============================================================================
