---------------------------- MODULE BillingProofs ----------------------------
(***************************************************************************)
(* Theorems about what is paid through Stripe Connect, Stripe plans and    *)
(* RevenueCat, and about the overview of what was earned: StripeAccounts,  *)
(* Plans, RevenueCatLog, Subscriptions and EarningsWindows.                *)
(***************************************************************************)
EXTENDS RevenueCatLog, Subscriptions, Plans, StripeAccounts, EarningsWindows,
        FiniteSetTheorems, WellFoundedInduction, TLAPS

-----------------------------------------------------------------------------
(* Connected accounts *)

\* What a request has in hand: an account at Stripe; one that completes or links, an account
\* with a row; and one that links, a row that is complete.
InHand ==
    \A q \in AccountRequests :
        /\ onboarding[q] = "save" => account[q] # 0
        /\ onboarding[q] \in {"complete", "link"} => account[q] \in stored
        /\ onboarding[q] = "link" => account[q] \in completed

AccountsInv == AccountsTypeOK /\ InHand /\ LinkedIsCompleted

LEMMA AccountsInitInv == AccountsInit => AccountsInv
BY AccountsConstants DEF AccountsInit, AccountsInv, AccountsTypeOK, InHand, LinkedIsCompleted

\* Ids are handed out by Stripe one after the other: what had one before has it after.
LEMMA AccountsStep == AccountsInv /\ [AccountsNext]_accountVars => AccountsInv'
<1> SUFFICES ASSUME AccountsInv, [AccountsNext]_accountVars PROVE AccountsInv'
    OBVIOUS
<1> USE AccountsConstants DEF AccountsInv, AccountsTypeOK, InHand, LinkedIsCompleted
<1>1. CASE UNCHANGED accountVars
    BY <1>1 DEF accountVars
<1>2. ASSUME NEW q \in AccountRequests, CreateConnectedAccount(q) PROVE AccountsInv'
    BY <1>2 DEF CreateConnectedAccount, Turn
<1>3. ASSUME NEW q \in AccountRequests, CreateAtStripe(q) PROVE AccountsInv'
    <2>1. accounts' = accounts + 1 /\ accounts' \in 0..MaxAccounts
        BY <1>3 DEF CreateAtStripe
    <2>2. 1..accounts \subseteq 1..accounts' /\ 0..accounts \subseteq 0..accounts'
        BY <2>1
    <2>3. account' \in [AccountRequests -> 0..accounts']
        BY <1>3, <2>1, <2>2 DEF CreateAtStripe, Turn
    <2>4. InHand'
        BY <1>3, <2>1 DEF CreateAtStripe, Turn
    <2>5. onboarding' \in [AccountRequests -> {"idle", "create", "save", "complete", "link"}]
        BY <1>3 DEF CreateAtStripe, Turn
    <2>6. UNCHANGED <<stored, completed, linked>>
        BY <1>3 DEF CreateAtStripe
    <2>7. stored' \subseteq 1..accounts' /\ completed' \subseteq 1..accounts'
        BY <2>2, <2>6
    <2>8. linked' \in 0..accounts' /\ LinkedIsCompleted'
        BY <2>2, <2>6
    <2>. QED  BY <2>1, <2>3, <2>4, <2>5, <2>7, <2>8
<1>4. ASSUME NEW q \in AccountRequests, SaveAccount(q) PROVE AccountsInv'
    <2>1. account[q] \in 1..accounts
        BY <1>4 DEF SaveAccount
    <2>2. stored' \subseteq 1..accounts
        BY <1>4, <2>1 DEF SaveAccount
    <2>. QED  BY <1>4, <2>1, <2>2 DEF SaveAccount, Turn
<1>5. ASSUME NEW q \in AccountRequests, NEW a \in AccountIds, AccountSuccess(q, a)
      PROVE  AccountsInv'
    BY <1>5 DEF AccountSuccess, Turn, AccountIds
<1>6. ASSUME NEW q \in AccountRequests, MarkCompleted(q) PROVE AccountsInv'
    BY <1>6 DEF MarkCompleted, Turn
<1>7. ASSUME NEW q \in AccountRequests, LinkUser(q) PROVE AccountsInv'
    BY <1>7 DEF LinkUser, Turn
<1>8. ASSUME NEW q \in AccountRequests, AccountCallFails(q) PROVE AccountsInv'
    BY <1>8 DEF AccountCallFails, Turn
<1>. QED  BY <1>1, <1>2, <1>3, <1>4, <1>5, <1>6, <1>7, <1>8 DEF AccountsNext

\* StripeAccountService: the connected account written to the user is always one whose row
\* says that its onboarding is complete.
THEOREM AccountLinkedIsCompleted == AccountsSpec => []LinkedIsCompleted
<1>1. AccountsInv => LinkedIsCompleted
    BY DEF AccountsInv
<1>. QED  BY <1>1, AccountsInitInv, AccountsStep, PTL DEF AccountsSpec

-----------------------------------------------------------------------------
(* Plans *)

PlansInv == PlansTypeOK /\ PlanStaysOffered

LEMMA PlansInitInv == PlansInit => PlansInv
<1> SUFFICES ASSUME PlansInit PROVE PlansInv
    OBVIOUS
<1>1. found \in [PlanRequests -> SUBSET (1..plans)]
    BY DEF PlansInit
<1>2. /\ making \in [PlanRequests -> {"idle", "deactivate", "store", "active", "inactive", "deleted"}]
      /\ held \in [PlanRequests -> [id : 0..plans, offered : BOOLEAN]]
      /\ \A q \in PlanRequests : making[q] \in {"active", "inactive", "deleted"} => held[q].id # 0
    BY DEF PlansInit, NoPlan
<1>3. plans \in 0..MaxPlans
    BY PlansConstants DEF PlansInit
<1>4. offered \subseteq 1..plans /\ dropped \subseteq 1..plans /\ upset \in BOOLEAN
    BY DEF PlansInit
<1>5. PlanStaysOffered
    BY DEF PlansInit, PlanStaysOffered
<1>. QED
    BY <1>1, <1>2, <1>3, <1>4, <1>5 DEF PlansInv, PlansTypeOK

LEMMA PlansStep == PlansInv /\ [PlansNext]_planVars => PlansInv'
<1> SUFFICES ASSUME PlansInv, [PlansNext]_planVars PROVE PlansInv'
    OBVIOUS
<1> USE PlansConstants DEF PlansInv, PlansTypeOK, PlanStaysOffered, Creating, Makes
<1>1. CASE UNCHANGED planVars
    BY <1>1 DEF planVars
<1>2. ASSUME NEW q \in PlanRequests, CreateSubscriptionPlan(q) PROVE PlansInv'
    BY <1>2 DEF CreateSubscriptionPlan
<1>3. ASSUME NEW q \in PlanRequests, NEW p \in PlanIds, DeactivatePlan(q, p) PROVE PlansInv'
    BY <1>3 DEF DeactivatePlan, PlanIds
<1>4. ASSUME NEW q \in PlanRequests, CreateProductAndPrice(q) PROVE PlansInv'
    BY <1>4 DEF CreateProductAndPrice
<1>5. ASSUME NEW q \in PlanRequests, StorePlan(q) PROVE PlansInv'
    <2>1. /\ plans' = plans + 1 /\ plans' \in 0..MaxPlans
          /\ 0..plans \subseteq 0..plans' /\ 1..plans \subseteq 1..plans' /\ plans + 1 \notin 1..plans
        BY <1>5 DEF StorePlan
    <2>2. held' \in [PlanRequests -> [id : 0..plans', offered : BOOLEAN]]
        BY <1>5, <2>1 DEF StorePlan
    <2>. QED  BY <1>5, <2>1, <2>2 DEF StorePlan
<1>6. ASSUME NEW q \in PlanRequests, CreatePlanFails(q) PROVE PlansInv'
    BY <1>6 DEF CreatePlanFails
<1>7. ASSUME NEW q \in PlanRequests, NEW p \in PlanIds,
             UpdateSubscriptionPlan(q, p) \/ DeleteSubscriptionPlan(q, p)
      PROVE  PlansInv'
    <2>1. PICK to \in {"active", "inactive", "deleted"} : LoadPlan(q, p, to)
        BY <1>7 DEF UpdateSubscriptionPlan, DeleteSubscriptionPlan
    <2>2. p \in 1..plans /\ p \in 0..plans /\ p # 0
        BY <2>1 DEF LoadPlan
    <2>3. /\ held' \in [PlanRequests -> [id : 0..plans, offered : BOOLEAN]]
          /\ held'[q].id = p /\ \A r \in PlanRequests \ {q} : held'[r] = held[r]
        BY <2>1, <2>2 DEF LoadPlan
    <2>4. /\ making' \in [PlanRequests -> {"idle", "deactivate", "store", "active", "inactive", "deleted"}]
          /\ \A r \in PlanRequests : Creating(r)' = Creating(r)
          /\ \A r \in PlanRequests \ {q} : making'[r] = making[r]
        BY <2>1 DEF LoadPlan
    <2>. QED  BY <2>1, <2>2, <2>3, <2>4 DEF LoadPlan
<1>8. ASSUME NEW q \in PlanRequests, SavePlan(q) PROVE PlansInv'
    <2>1. held[q].id \in 1..plans /\ NoPlan \in [id : 0..plans, offered : BOOLEAN]
        BY <1>8 DEF SavePlan, NoPlan
    <2>2. offered' \subseteq 1..plans /\ dropped' \subseteq 1..plans
        BY <1>8, <2>1 DEF SavePlan
    <2>3. ~upset' => offered \subseteq offered' /\ UNCHANGED dropped
        BY <1>8 DEF SavePlan
    <2>. QED  BY <1>8, <2>1, <2>2, <2>3 DEF SavePlan
<1>9. ASSUME NEW q \in PlanRequests, PlanNotSaved(q) PROVE PlansInv'
    <2>1. NoPlan \in [id : 0..plans, offered : BOOLEAN]
        BY DEF NoPlan
    <2>. QED  BY <1>9, <2>1 DEF PlanNotSaved
<1>. QED  BY <1>1, <1>2, <1>3, <1>4, <1>5, <1>6, <1>7, <1>8, <1>9 DEF PlansNext

\* SubscriptionPlanService: creations that deactivate each other's plans do not leave a type
\* without a plan, when none failed and nobody withdrew one.
THEOREM PlansStayOffered == PlansSpec => []PlanStaysOffered
<1>1. PlansInv => PlanStaysOffered
    BY DEF PlansInv
<1>. QED  BY <1>1, PlansInitInv, PlansStep, PTL DEF PlansSpec

-----------------------------------------------------------------------------
(* The log of RevenueCat events *)

RcInv == RcTypeOK /\ SharedRowSettles

LEMMA RcInitInv == RcInit => RcInv
<1> SUFFICES ASSUME RcInit PROVE RcInv
    OBVIOUS
<1>1. (CHOOSE t \in RcTypes : TRUE) \in RcTypes
    BY RevenueCatLogConstants
<1>. QED
    BY <1>1, RevenueCatLogConstants DEF RcInit, RcInv, RcTypeOK, SharedRowSettles, UnderWay, TypeOf

LEMMA RcStep == RcInv /\ [RcNext]_rcVars => RcInv'
<1> SUFFICES ASSUME RcInv, [RcNext]_rcVars PROVE RcInv'
    OBVIOUS
<1> USE RevenueCatLogConstants
    DEF RcInv, RcTypeOK, SharedRowSettles, UnderWay, TypeOf, AtCall, Continues
<1>1. CASE UNCHANGED rcVars
    BY <1>1 DEF rcVars
<1>2. ASSUME NEW d \in RcDeliveries, NEW t \in RcTypes, HandleRevenueCatWebhook(d, t)
      PROVE  RcInv'
    BY <1>2 DEF HandleRevenueCatWebhook
<1>3. ASSUME NEW d \in RcDeliveries, LogRevenueCatEvent(d) PROVE RcInv'
    BY <1>3 DEF LogRevenueCatEvent, AfterLog
<1>4. ASSUME NEW d \in RcDeliveries, LogRejects(d) PROVE RcInv'
    BY <1>4 DEF LogRejects, AfterLog
<1>5. ASSUME NEW d \in RcDeliveries, StartHandler(d) PROVE RcInv'
    BY <1>5, SMTT(20) DEF StartHandler, WriteStatus
<1>6. ASSUME NEW d \in RcDeliveries, CompleteHandler(d) PROVE RcInv'
    BY <1>6 DEF CompleteHandler, WriteStatus
<1>7. ASSUME NEW d \in RcDeliveries, FailHandler(d) PROVE RcInv'
    BY <1>7 DEF FailHandler, WriteStatus
<1>8. ASSUME NEW d \in RcDeliveries, StatusLost(d) PROVE RcInv'
    BY <1>8 DEF StatusLost
<1>9. CASE RcCrash
    BY <1>9 DEF RcCrash
<1>. QED  BY <1>1, <1>2, <1>3, <1>4, <1>5, <1>6, <1>7, <1>8, <1>9 DEF RcNext

\* RevenueCatWebhookService: the row shared by the events of one type is completed, failed or
\* absent when none of them is being processed, unless a status update or a crash struck it.
THEOREM SharedRowsSettle == RcSpec => []SharedRowSettles
<1>1. RcInv => SharedRowSettles
    BY DEF RcInv
<1>. QED  BY <1>1, RcInitInv, RcStep, PTL DEF RcSpec

-----------------------------------------------------------------------------
(* Subscriptions *)

\* Which request makes which call: only what was loaded by an event or an administrator is
\* saved, and checkouts are those of trials and purchases.
Fits(step) ==
    /\ step.at = "idle" => step.for = "none"
    /\ step.at \in {"retrieve", "customer", "row", "session"} => step.for \in {"trial", "purchase"}
    /\ step.at = "flag" => step.for = "trial"
    /\ step.at = "create" => step.for \in Orders
    /\ step.at = "save" => step.for \in RcEvents \cup SubStatuses

CallsFit == \A q \in SubRequests : Fits(doing[q])

\* As long as trials are orderly there is one at a time, it begins without a session of an
\* earlier one, and a session is remembered by the flag or by the call about to set it.
TrialsInTurn ==
    orderly =>
        /\ \A q, r \in SubRequests : Trial(q) /\ Trial(r) => q = r
        /\ \A q \in SubRequests : Trial(q) /\ doing[q].at # "flag" => trialSessions = 0
        /\ trialSessions > 0 => hasUsedFreeTrial \/ \E q \in SubRequests : doing[q].at = "flag"

\* A document that is about to be saved: what it says was so once. isActive does not come back,
\* and an expired status became usable again only by an administrator.
LoadedFit ==
    \A q \in SubRequests : doing[q].at = "save" =>
        LET row == subs[doing[q].row]
        IN  /\ ~loaded[q].isActive => ~row.isActive
            /\ loaded[q].status = "incomplete_expired" /\ row.status \in {"active", "trialing"}
                => doing[q].row \in given

SubsInv ==
    /\ SubscriptionsTypeOK /\ CallsFit /\ TrialsInTurn /\ LoadedFit
    /\ SerialTrialOnce /\ ExpiredStaysInactive

LEMMA NamesDiffer ==
    /\ "trial" \notin Orders /\ "purchase" \notin Orders /\ "none" \notin Orders
    /\ Orders \cap RcEvents = {} /\ Orders \cap SubStatuses = {} /\ RcEvents \cap SubStatuses = {}
    /\ "trial" \notin RcEvents \cup SubStatuses /\ "none" \notin RcEvents \cup SubStatuses
    /\ MaxSubs \in Nat
BY SubscriptionsConstants DEF SubStatuses, RcEvents

SubCalls == {"idle", "retrieve", "customer", "row", "session", "flag", "save", "create"}
SubPurposes == {"none", "trial", "purchase"} \cup Orders \cup RcEvents \cup SubStatuses
Steps == [at : SubCalls, for : SubPurposes, row : 0..MaxSubs]

LEMMA NothingFits == NoDocument \in SubRows /\ Nothing \in Steps
BY NamesDiffer DEF NoDocument, SubRows, SubStatuses, Nothing, Steps, SubCalls, SubPurposes

LEMMA SubsInitInv == SubscriptionsInit => SubsInv
<1> SUFFICES ASSUME SubscriptionsInit PROVE SubsInv
    OBVIOUS
<1>1. SubscriptionsTypeOK
    <2>1. /\ subs \in Seq(SubRows) /\ Len(subs) <= MaxSubs
          /\ expired \subseteq DOMAIN subs /\ given \subseteq DOMAIN subs
        BY NamesDiffer DEF SubscriptionsInit
    <2>2. loaded \in [SubRequests -> SubRows] /\ doing \in [SubRequests -> Steps]
        BY NothingFits DEF SubscriptionsInit
    <2>. QED
        BY <2>1, <2>2 DEF SubscriptionsInit, SubscriptionsTypeOK, Nothing, Steps, SubCalls, SubPurposes
<1>2. CallsFit /\ TrialsInTurn /\ LoadedFit
    BY DEF SubscriptionsInit, CallsFit, Fits, TrialsInTurn, LoadedFit, Nothing, Trial
<1>3. SerialTrialOnce /\ ExpiredStaysInactive
    BY DEF SubscriptionsInit, SerialTrialOnce, ExpiredStaysInactive
<1>. QED  BY <1>1, <1>2, <1>3 DEF SubsInv

\* A row that is created has no number yet: those before it, and what is known of them, stay.
LEMMA StoredRow ==
    ASSUME SubsInv, NEW source \in {"trial", "purchase"} \cup Orders, NEW value \in SubStatuses,
           Store(source, value), UNCHANGED <<expired, given>>
    PROVE  /\ subs' \in Seq(SubRows) /\ Len(subs') <= MaxSubs
           /\ DOMAIN subs \subseteq DOMAIN subs'
           /\ \A i \in DOMAIN subs : subs'[i] = subs[i]
           /\ ExpiredStaysInactive'
<1> DEFINE new == [source |-> source, status |-> value, isActive |-> TRUE]
<1> USE DEF SubsInv, SubscriptionsTypeOK, SubRows
<1>1. new \in SubRows /\ subs \in Seq(SubRows) /\ subs' = Append(subs, new)
    BY DEF Store
<1>2. /\ subs' \in Seq(SubRows) /\ Len(subs') = Len(subs) + 1
      /\ \A i \in 1..Len(subs) : subs'[i] = subs[i]
    <2> HIDE DEF new
    <2>. QED  BY <1>1
<1>3. Len(subs) < MaxSubs
    BY DEF Store
<1>. QED  BY <1>1, <1>2, <1>3, NamesDiffer DEF ExpiredStaysInactive

\* What a request has loaded stays a fit of rows that stay as they are.
LEMMA KeptFit ==
    ASSUME SubsInv, given' = given,
           \A i \in DOMAIN subs : subs'[i] = subs[i],
           \A r \in SubRequests :
               doing'[r].at = "save" => doing'[r] = doing[r] /\ loaded'[r] = loaded[r]
    PROVE  LoadedFit'
BY DEF SubsInv, LoadedFit, SubscriptionsTypeOK

\* A row that is just loaded is what was loaded.
LEMMA LoadedRow ==
    ASSUME SubsInv, NEW q \in SubRequests, NEW for \in RcEvents \cup SubStatuses,
           NEW i \in DOMAIN subs, Loads(q, for, i), UNCHANGED <<subs, given>>
    PROVE  /\ doing' \in [SubRequests -> Steps]
           /\ doing'[q] = [at |-> "save", for |-> for, row |-> i]
           /\ \A r \in SubRequests \ {q} : doing'[r] = doing[r]
           /\ loaded' \in [SubRequests -> SubRows] /\ LoadedFit'
<1> DEFINE step == [at |-> "save", for |-> for, row |-> i]
<1>1. /\ doing \in [SubRequests -> Steps] /\ loaded \in [SubRequests -> SubRows]
      /\ subs \in Seq(SubRows) /\ Len(subs) <= MaxSubs
    BY DEF SubsInv, SubscriptionsTypeOK, Steps, SubCalls, SubPurposes
<1>2. subs[i] \in SubRows /\ i \in 0..MaxSubs
    BY <1>1, NamesDiffer
<1>3. step \in Steps /\ step.row = i
    BY <1>2 DEF Steps, SubCalls, SubPurposes
<1>4. doing' = [doing EXCEPT ![q] = step] /\ loaded' = [loaded EXCEPT ![q] = subs[i]]
    BY DEF Loads
<1>5. /\ doing' \in [SubRequests -> Steps] /\ doing'[q] = step
      /\ loaded' \in [SubRequests -> SubRows] /\ loaded'[q] = subs[i]
      /\ \A r \in SubRequests \ {q} : doing'[r] = doing[r] /\ loaded'[r] = loaded[r]
    <2> HIDE DEF step
    <2>. QED  BY <1>1, <1>2, <1>3, <1>4
<1>6. ASSUME NEW r \in SubRequests, doing'[r].at = "save"
      PROVE  /\ ~loaded'[r].isActive => ~subs'[doing'[r].row].isActive
             /\ loaded'[r].status = "incomplete_expired"
                  /\ subs'[doing'[r].row].status \in {"active", "trialing"}
                => doing'[r].row \in given'
    <2>1. CASE r = q
        <3> HIDE DEF step
        <3>. QED  BY <2>1, <1>3, <1>5
    <2>2. CASE r # q
        BY <2>2, <1>5, <1>6 DEF SubsInv, LoadedFit
    <2>. QED  BY <2>1, <2>2
<1>. QED  BY <1>5, <1>6 DEF LoadedFit

\* A row that is saved stays where it is. A save writes isActive only to take it away, and a
\* usable status only for an administrator; an expiration that leaves the row usable had
\* loaded it expired, so that an administrator came between.
LEMMA SavedRow ==
    ASSUME SubsInv, NEW q \in SubRequests, SaveSubscription(q)
    PROVE  /\ subs' \in Seq(SubRows) /\ Len(subs') = Len(subs)
           /\ expired' \subseteq DOMAIN subs /\ given' \subseteq DOMAIN subs
           /\ LoadedFit' /\ ExpiredStaysInactive'
<1> DEFINE i == doing[q].row
           for == doing[q].for
           was == loaded[q]
           is == Changed(was, for)
           row == Saved(subs[i], was, is)
<1> USE DEF SubsInv
<1>1. /\ subs \in Seq(SubRows) /\ i \in 1..Len(subs) /\ was \in SubRows
      /\ expired \subseteq 1..Len(subs) /\ given \subseteq 1..Len(subs)
      /\ for \in RcEvents \cup SubStatuses
    BY DEF SaveSubscription, SubscriptionsTypeOK, CallsFit, Fits
<1>2. subs[i] \in SubRows
    BY <1>1
<1>3. is \in SubRows
    BY <1>1, NamesDiffer DEF Changed, SubRows, SubStatuses, RcEvents
<1>4. /\ row \in SubRows
      /\ row.status = IF is.status # was.status THEN is.status ELSE subs[i].status
      /\ row.isActive = IF is.isActive # was.isActive THEN is.isActive ELSE subs[i].isActive
    <2> HIDE DEF is, was
    <2>. QED  BY <1>1, <1>2, <1>3 DEF Saved, SubRows
<1>5. subs' = [subs EXCEPT ![i] = row]
    BY DEF SaveSubscription
<1>6. /\ subs' \in Seq(SubRows) /\ Len(subs') = Len(subs) /\ DOMAIN subs' = 1..Len(subs)
      /\ \A k \in 1..Len(subs) : subs'[k] = IF k = i THEN row ELSE subs[k]
    <2> HIDE DEF i, row
    <2>. QED  BY <1>1, <1>4, <1>5
<1>7. /\ expired' = IF for = "EXPIRATION" THEN expired \cup {i} ELSE expired
      /\ given' = IF is.status = was.status THEN given
                  ELSE IF for \in SubStatuses THEN given \cup {i} ELSE given \ {i}
    BY DEF SaveSubscription
<1>8. /\ is.isActive # was.isActive => ~is.isActive
      /\ for = "EXPIRATION" => ~is.isActive /\ is.status = "incomplete_expired"
      /\ is.status # was.status /\ is.status \in {"active", "trialing"} => for \in SubStatuses
    <2> HIDE DEF i, row
    <2>. QED  BY <1>1, NamesDiffer DEF Changed, SubRows, RcEvents
<1>9. /\ ~was.isActive => ~subs[i].isActive
      /\ was.status = "incomplete_expired" /\ subs[i].status \in {"active", "trialing"} => i \in given
    BY DEF SaveSubscription, LoadedFit
<1>10. /\ ~subs[i].isActive => ~row.isActive
       /\ for = "EXPIRATION" => ~row.isActive
    <2>1. was.isActive \in BOOLEAN /\ is.isActive \in BOOLEAN /\ subs[i].isActive \in BOOLEAN
        BY <1>1, <1>2, <1>3 DEF SubRows
    <2> HIDE DEF i, row, is, was, for
    <2>. QED  BY <2>1, <1>4, <1>8, <1>9
<1>11. row.status \in {"active", "trialing"} =>
           i \in given' \/ (UNCHANGED given /\ subs[i].status = row.status /\ is.status = was.status)
    <2> HIDE DEF i, row, is, was, for
    <2>. QED  BY <1>4, <1>7, <1>8
<1>12. \A k \in 1..Len(subs) \ {i} : k \in given' <=> k \in given
    <2> HIDE DEF i, row, is, was, for
    <2>. QED  BY <1>7
<1>13. expired' \subseteq 1..Len(subs) /\ given' \subseteq 1..Len(subs)
    <2> HIDE DEF i, row, is, was, for
    <2>. QED  BY <1>1, <1>7
<1>14. ASSUME NEW k \in expired'
       PROVE  ~subs'[k].isActive /\ (subs'[k].status \in {"active", "trialing"} => k \in given')
    <2> HIDE DEF i, row, is, was, for
    <2>1. CASE k # i
        <3>1. k \in expired /\ k \in 1..Len(subs)
            BY <2>1, <1>1, <1>7, <1>14
        <3>. QED  BY <2>1, <3>1, <1>6, <1>12 DEF ExpiredStaysInactive
    <2>2. CASE k = i
        <3>1. k \in expired \/ for = "EXPIRATION"
            BY <1>7, <1>14
        <3>2. ~row.isActive
            BY <2>2, <3>1, <1>10 DEF ExpiredStaysInactive
        <3>3. row.status \in {"active", "trialing"} => i \in given'
            BY <2>2, <3>1, <1>8, <1>9, <1>11 DEF ExpiredStaysInactive
        <3>. QED  BY <2>2, <3>2, <3>3, <1>1, <1>6
    <2>. QED  BY <2>1, <2>2
<1>15. ASSUME NEW r \in SubRequests, doing'[r].at = "save"
       PROVE  /\ ~loaded'[r].isActive => ~subs'[doing'[r].row].isActive
              /\ loaded'[r].status = "incomplete_expired"
                   /\ subs'[doing'[r].row].status \in {"active", "trialing"}
                 => doing'[r].row \in given'
    <2>1. doing'[r] = doing[r] /\ loaded'[r] = loaded[r] /\ doing[r].row \in 1..Len(subs)
        BY <1>1, <1>15 DEF SaveSubscription, Ends, Nothing, SubscriptionsTypeOK
    <2>2. /\ ~loaded[r].isActive => ~subs[doing[r].row].isActive
          /\ loaded[r].status = "incomplete_expired"
               /\ subs[doing[r].row].status \in {"active", "trialing"} => doing[r].row \in given
        BY <2>1, <1>15 DEF LoadedFit
    <2> HIDE DEF i, row, is, was, for
    <2>3. CASE doing[r].row # i
        BY <2>1, <2>2, <2>3, <1>6, <1>12
    <2>4. CASE doing[r].row = i
        <3>1. subs'[doing'[r].row] = row
            BY <2>1, <2>4, <1>6
        <3>. QED  BY <2>1, <2>2, <2>4, <3>1, <1>10, <1>11
    <2>. QED  BY <2>3, <2>4
<1>. QED  BY <1>1, <1>6, <1>13, <1>14, <1>15 DEF ExpiredStaysInactive, LoadedFit

\* A request that goes on with its next call keeps what it is for, and the others keep theirs.
LEMMA GoesOn ==
    ASSUME SubsInv, NEW q \in SubRequests, NEW at \in SubCalls, Then(q, at)
    PROVE  /\ doing' \in [SubRequests -> Steps] /\ loaded' = loaded
           /\ doing'[q].at = at /\ doing'[q].for = doing[q].for /\ doing'[q].row = doing[q].row
           /\ \A r \in SubRequests \ {q} : doing'[r] = doing[r]
<1>1. doing \in [SubRequests -> Steps]
    BY DEF SubsInv, SubscriptionsTypeOK, Steps, SubCalls, SubPurposes
<1>2. doing' = [doing EXCEPT ![q] = [doing[q] EXCEPT !.at = at]] /\ loaded' = loaded
    BY DEF Then
<1>3. doing[q] \in Steps
    BY <1>1
<1>4. [doing[q] EXCEPT !.at = at] \in Steps
    BY <1>3 DEF Steps
<1>5. /\ [doing[q] EXCEPT !.at = at].for = doing[q].for /\ [doing[q] EXCEPT !.at = at].at = at
      /\ [doing[q] EXCEPT !.at = at].row = doing[q].row
    BY <1>3 DEF Steps
<1>. QED  BY <1>1, <1>2, <1>4, <1>5

\* One that ends is idle, with no document.
LEMMA ComesToAnEnd ==
    ASSUME SubsInv, NEW q \in SubRequests, Ends(q)
    PROVE  /\ doing' \in [SubRequests -> Steps] /\ doing'[q] = Nothing
           /\ loaded' \in [SubRequests -> SubRows]
           /\ \A r \in SubRequests \ {q} : doing'[r] = doing[r] /\ loaded'[r] = loaded[r]
<1>1. doing \in [SubRequests -> Steps] /\ loaded \in [SubRequests -> SubRows]
    BY DEF SubsInv, SubscriptionsTypeOK, Steps, SubCalls, SubPurposes
<1>. QED  BY <1>1, NothingFits DEF Ends

\* One that begins is for what it was asked, with the document it had.
LEMMA Begins ==
    ASSUME SubsInv, NEW q \in SubRequests, NEW at \in SubCalls, NEW for \in SubPurposes,
           Doing(q, at, for)
    PROVE  /\ doing' \in [SubRequests -> Steps] /\ loaded' = loaded
           /\ doing'[q] = [at |-> at, for |-> for, row |-> 0]
           /\ \A r \in SubRequests \ {q} : doing'[r] = doing[r]
<1>1. doing \in [SubRequests -> Steps]
    BY DEF SubsInv, SubscriptionsTypeOK, Steps, SubCalls, SubPurposes
<1>2. [at |-> at, for |-> for, row |-> 0] \in Steps
    BY NamesDiffer DEF Steps
<1>. QED  BY <1>1, <1>2 DEF Doing

\* What there is to show of a step, part by part: the types,
LEMMA TypesKept ==
    ASSUME subs' \in Seq(SubRows), Len(subs') <= MaxSubs,
           expired' \subseteq DOMAIN subs', given' \subseteq DOMAIN subs',
           doing' \in [SubRequests -> Steps], loaded' \in [SubRequests -> SubRows],
           \A r \in SubRequests : doing'[r].at = "save" => doing'[r].row \in DOMAIN subs',
           hasUsedFreeTrial' \in BOOLEAN, customer' \in BOOLEAN, orderly' \in BOOLEAN,
           trialSessions' \in Nat
    PROVE  SubscriptionsTypeOK'
BY DEF SubscriptionsTypeOK, Steps, SubCalls, SubPurposes

\* the calls, of which a step moves one request's,
LEMMA CallsKept ==
    ASSUME SubsInv, NEW q \in SubRequests, Fits(doing'[q]),
           \A r \in SubRequests \ {q} : doing'[r] = doing[r]
    PROVE  CallsFit'
BY DEF SubsInv, CallsFit

\* and the trials, for every step but that which begins one and that which makes its session.
LEMMA TrialsKept ==
    ASSUME SubsInv, NEW q \in SubRequests,
           \A r \in SubRequests \ {q} : doing'[r] = doing[r],
           doing'[q].for = "trial" => doing[q].for = "trial" /\ doing[q].at # "flag",
           orderly' => /\ orderly /\ UNCHANGED trialSessions
                       /\ hasUsedFreeTrial \/ doing[q].at = "flag" => hasUsedFreeTrial'
    PROVE  TrialsInTurn' /\ SerialTrialOnce'
BY DEF SubsInv, TrialsInTurn, SerialTrialOnce, Trial

LEMMA SubsStep == SubsInv /\ [SubscriptionsNext]_subscriptionVars => SubsInv'
<1> SUFFICES ASSUME SubsInv, [SubscriptionsNext]_subscriptionVars PROVE SubsInv'
    OBVIOUS
<1>0. /\ subs \in Seq(SubRows) /\ Len(subs) <= MaxSubs /\ DOMAIN subs = 1..Len(subs)
      /\ expired \subseteq DOMAIN subs /\ given \subseteq DOMAIN subs
      /\ doing \in [SubRequests -> Steps] /\ loaded \in [SubRequests -> SubRows]
      /\ \A r \in SubRequests : doing[r].at = "save" => doing[r].row \in DOMAIN subs
      /\ hasUsedFreeTrial \in BOOLEAN /\ customer \in BOOLEAN /\ orderly \in BOOLEAN
      /\ trialSessions \in Nat
      /\ \A r \in SubRequests : Fits(doing[r])
      /\ TrialsInTurn /\ SerialTrialOnce /\ ExpiredStaysInactive
    BY DEF SubsInv, SubscriptionsTypeOK, CallsFit, Steps, SubCalls, SubPurposes
<1>1. CASE UNCHANGED subscriptionVars
    BY <1>1 DEF subscriptionVars, SubsInv, SubscriptionsTypeOK, CallsFit, TrialsInTurn, Trial,
                LoadedFit, SerialTrialOnce, ExpiredStaysInactive
<1>2. ASSUME NEW q \in SubRequests, NEW for \in {"trial", "purchase"}, Checkout(q, for),
             \/ for = "purchase" /\ UNCHANGED orderly
             \/ /\ for = "trial" /\ ~hasUsedFreeTrial
                /\ orderly' = (orderly /\ ~\E r \in SubRequests : Trial(r))
      PROVE  SubsInv'
    <2>1. PICK at \in {"retrieve", "customer"} : Doing(q, at, for)
        BY <1>2 DEF Checkout
    <2>2. /\ doing' \in [SubRequests -> Steps] /\ loaded' = loaded
          /\ doing'[q] = [at |-> at, for |-> for, row |-> 0]
          /\ \A r \in SubRequests \ {q} : doing'[r] = doing[r]
        BY <2>1, Begins DEF SubCalls, SubPurposes
    <2>3. /\ doing[q].at = "idle" /\ orderly' \in BOOLEAN /\ (orderly' => orderly)
          /\ UNCHANGED <<subs, hasUsedFreeTrial, customer, trialSessions, expired, given>>
        BY <1>0, <1>2 DEF Checkout
    <2>4. LoadedFit' /\ ExpiredStaysInactive'
        BY <1>0, <2>2, <2>3, KeptFit DEF ExpiredStaysInactive
    <2>5. SubscriptionsTypeOK'
        BY <1>0, <2>2, <2>3, TypesKept
    <2>6. CallsFit'
        BY <2>2, CallsKept DEF Fits
    <2>7. TrialsInTurn' /\ SerialTrialOnce'
        <3>1. CASE for = "trial"
            <4>1. orderly' => /\ \A r \in SubRequests : ~Trial(r)
                              /\ orderly /\ trialSessions' = trialSessions
                              /\ ~hasUsedFreeTrial /\ UNCHANGED hasUsedFreeTrial
                BY <1>2, <2>3, <3>1
            <4>2. orderly' => \A r \in SubRequests : doing[r].at # "flag"
                BY <1>0, <4>1 DEF Fits, Trial
            <4>3. orderly' => trialSessions = 0
                BY <1>0, <4>1, <4>2 DEF TrialsInTurn
            <4>4. orderly' => \A r \in SubRequests : Trial(r)' => r = q
                BY <2>2, <4>1 DEF Trial
            <4>. QED  BY <4>1, <4>3, <4>4 DEF TrialsInTurn, SerialTrialOnce
        <3>2. CASE for = "purchase"
            BY <1>0, <2>2, <2>3, <3>2, TrialsKept
        <3>. QED  BY <3>1, <3>2
    <2>. QED  BY <2>4, <2>5, <2>6, <2>7 DEF SubsInv
<1>3. ASSUME NEW q \in SubRequests, GetOrCreateStripeCustomer(q) PROVE SubsInv'
    <2>1. PICK at \in {"row", "customer"} : Then(q, at)
        BY <1>3 DEF GetOrCreateStripeCustomer
    <2>2. /\ doing' \in [SubRequests -> Steps] /\ loaded' = loaded
          /\ doing'[q].at = at /\ doing'[q].for = doing[q].for
          /\ \A r \in SubRequests \ {q} : doing'[r] = doing[r]
        BY <2>1, GoesOn DEF SubCalls
    <2>3. /\ doing[q].at \in {"retrieve", "customer"} /\ customer' \in BOOLEAN
          /\ UNCHANGED <<subs, hasUsedFreeTrial, trialSessions, expired, given, orderly>>
        BY <1>0, <1>3 DEF GetOrCreateStripeCustomer
    <2>4. SubscriptionsTypeOK'
        BY <1>0, <2>2, <2>3, TypesKept
    <2>5. CallsFit'
        BY <1>0, <2>2, <2>3, CallsKept DEF Fits
    <2>6. TrialsInTurn' /\ SerialTrialOnce'
        BY <2>2, <2>3, TrialsKept
    <2>7. LoadedFit' /\ ExpiredStaysInactive'
        BY <1>0, <2>2, <2>3, KeptFit DEF ExpiredStaysInactive
    <2>. QED  BY <2>4, <2>5, <2>6, <2>7 DEF SubsInv
<1>4. ASSUME NEW q \in SubRequests, CreateSubscription(q) PROVE SubsInv'
    <2>1. /\ doing' \in [SubRequests -> Steps] /\ loaded' = loaded
          /\ doing'[q].at = "session" /\ doing'[q].for = doing[q].for
          /\ \A r \in SubRequests \ {q} : doing'[r] = doing[r]
        BY <1>4, GoesOn DEF CreateSubscription, SubCalls
    <2>2. /\ doing[q].at = "row" /\ doing[q].for \in {"trial", "purchase"}
          /\ Store(doing[q].for, "processing")
          /\ UNCHANGED <<hasUsedFreeTrial, customer, trialSessions, expired, given, orderly>>
        BY <1>0, <1>4 DEF CreateSubscription, Fits
    <2>3. /\ subs' \in Seq(SubRows) /\ Len(subs') <= MaxSubs /\ DOMAIN subs \subseteq DOMAIN subs'
          /\ \A i \in DOMAIN subs : subs'[i] = subs[i]
          /\ ExpiredStaysInactive'
        BY <2>2, StoredRow DEF SubStatuses
    <2>4. SubscriptionsTypeOK'
        BY <1>0, <2>1, <2>2, <2>3, TypesKept
    <2>5. CallsFit'
        BY <2>1, <2>2, CallsKept DEF Fits
    <2>6. TrialsInTurn' /\ SerialTrialOnce'
        BY <2>1, <2>2, TrialsKept
    <2>7. LoadedFit'
        BY <2>1, <2>2, <2>3, KeptFit
    <2>. QED  BY <2>3, <2>4, <2>5, <2>6, <2>7 DEF SubsInv
<1>5. ASSUME NEW q \in SubRequests, CreateSession(q) PROVE SubsInv'
    <2>1. /\ doing[q].at = "session"
          /\ UNCHANGED <<subs, hasUsedFreeTrial, customer, expired, given, orderly>>
        BY <1>5 DEF CreateSession
    <2>2. CASE Trial(q)
        <3>1. Then(q, "flag") /\ trialSessions' = trialSessions + 1
            BY <1>5, <2>2 DEF CreateSession
        <3>2. /\ doing' \in [SubRequests -> Steps] /\ loaded' = loaded
              /\ doing'[q].at = "flag" /\ doing'[q].for = "trial"
              /\ \A r \in SubRequests \ {q} : doing'[r] = doing[r]
            BY <2>2, <3>1, GoesOn DEF SubCalls, Trial
        <3>3. SubscriptionsTypeOK'
            BY <1>0, <2>1, <3>1, <3>2, TypesKept
        <3>4. CallsFit'
            BY <3>2, CallsKept DEF Fits
        <3>5. orderly => trialSessions = 0 /\ \A r \in SubRequests \ {q} : ~Trial(r) /\ ~Trial(r)'
            BY <1>0, <2>1, <2>2, <3>2 DEF TrialsInTurn, Trial
        <3>6. TrialsInTurn' /\ SerialTrialOnce'
            BY <2>1, <3>1, <3>2, <3>5 DEF TrialsInTurn, SerialTrialOnce
        <3>7. LoadedFit' /\ ExpiredStaysInactive'
            BY <1>0, <2>1, <3>2, KeptFit DEF ExpiredStaysInactive
        <3>. QED  BY <3>3, <3>4, <3>6, <3>7 DEF SubsInv
    <2>3. CASE ~Trial(q)
        <3>1. Ends(q) /\ UNCHANGED trialSessions
            BY <1>5, <2>3 DEF CreateSession
        <3>2. /\ doing' \in [SubRequests -> Steps] /\ doing'[q] = Nothing
              /\ loaded' \in [SubRequests -> SubRows]
              /\ \A r \in SubRequests \ {q} : doing'[r] = doing[r] /\ loaded'[r] = loaded[r]
            BY <3>1, ComesToAnEnd
        <3>3. SubscriptionsTypeOK'
            BY <1>0, <2>1, <3>1, <3>2, TypesKept DEF Nothing
        <3>4. CallsFit'
            BY <3>2, CallsKept DEF Fits, Nothing
        <3>5. TrialsInTurn' /\ SerialTrialOnce'
            BY <2>1, <3>1, <3>2, TrialsKept DEF Nothing
        <3>6. LoadedFit' /\ ExpiredStaysInactive'
            BY <1>0, <2>1, <3>2, KeptFit DEF ExpiredStaysInactive, Nothing
        <3>. QED  BY <3>3, <3>4, <3>5, <3>6 DEF SubsInv
    <2>. QED  BY <2>2, <2>3
<1>6. ASSUME NEW q \in SubRequests, MarkTrialUsed(q) PROVE SubsInv'
    <2>1. /\ doing' \in [SubRequests -> Steps] /\ doing'[q] = Nothing
          /\ loaded' \in [SubRequests -> SubRows]
          /\ \A r \in SubRequests \ {q} : doing'[r] = doing[r] /\ loaded'[r] = loaded[r]
        BY <1>6, ComesToAnEnd DEF MarkTrialUsed
    <2>2. /\ hasUsedFreeTrial' = TRUE
          /\ UNCHANGED <<subs, customer, trialSessions, expired, given, orderly>>
        BY <1>6 DEF MarkTrialUsed
    <2>3. SubscriptionsTypeOK'
        BY <1>0, <2>1, <2>2, TypesKept DEF Nothing
    <2>4. CallsFit'
        BY <2>1, CallsKept DEF Fits, Nothing
    <2>5. TrialsInTurn' /\ SerialTrialOnce'
        BY <2>1, <2>2, TrialsKept DEF Nothing
    <2>6. LoadedFit' /\ ExpiredStaysInactive'
        BY <1>0, <2>1, <2>2, KeptFit DEF ExpiredStaysInactive, Nothing
    <2>. QED  BY <2>3, <2>4, <2>5, <2>6 DEF SubsInv
<1>7. ASSUME NEW q \in SubRequests, NEW i \in 1..MaxSubs,
             \/ CancelSubscription(q, i)
             \/ \E status \in GivenStatuses : UpdateSubscriptionStatus(q, i, status)
             \/ \E event \in RcEvents : HandleEvent(q, event, i)
      PROVE  SubsInv'
    <2>1. /\ doing[q].at = "idle" /\ i \in DOMAIN subs
          /\ UNCHANGED <<subs, hasUsedFreeTrial, customer, trialSessions, expired, given, orderly>>
        BY <1>7 DEF CancelSubscription, UpdateSubscriptionStatus, HandleEvent, FirstOfRevenueCat
    <2>2. PICK for \in RcEvents \cup SubStatuses : Loads(q, for, i)
        <3>1. CASE CancelSubscription(q, i)
            BY <3>1 DEF CancelSubscription, RcEvents
        <3>2. CASE \E status \in GivenStatuses : UpdateSubscriptionStatus(q, i, status)
            BY <3>2, SubscriptionsConstants DEF UpdateSubscriptionStatus
        <3>3. CASE \E event \in RcEvents : HandleEvent(q, event, i)
            BY <3>3 DEF HandleEvent
        <3>. QED  BY <1>7, <3>1, <3>2, <3>3
    <2>3. /\ doing' \in [SubRequests -> Steps]
          /\ doing'[q] = [at |-> "save", for |-> for, row |-> i]
          /\ \A r \in SubRequests \ {q} : doing'[r] = doing[r]
          /\ loaded' \in [SubRequests -> SubRows] /\ LoadedFit'
        BY <2>1, <2>2, LoadedRow
    <2>4. SubscriptionsTypeOK'
        BY <1>0, <2>1, <2>3, TypesKept
    <2>5. CallsFit'
        BY <2>3, CallsKept DEF Fits
    <2>6. TrialsInTurn' /\ SerialTrialOnce'
        BY <2>1, <2>3, NamesDiffer, TrialsKept
    <2>7. ExpiredStaysInactive'
        BY <1>0, <2>1 DEF ExpiredStaysInactive
    <2>. QED  BY <2>3, <2>4, <2>5, <2>6, <2>7 DEF SubsInv
<1>8. ASSUME NEW q \in SubRequests, NEW order \in Orders, HandleInitialPurchase(q, order)
      PROVE  SubsInv'
    <2>1. /\ doing' \in [SubRequests -> Steps] /\ loaded' = loaded
          /\ doing'[q] = [at |-> "create", for |-> order, row |-> 0]
          /\ \A r \in SubRequests \ {q} : doing'[r] = doing[r]
        BY <1>8, Begins DEF HandleInitialPurchase, SubCalls, SubPurposes
    <2>2. /\ doing[q].at = "idle"
          /\ UNCHANGED <<subs, hasUsedFreeTrial, customer, trialSessions, expired, given, orderly>>
        BY <1>8 DEF HandleInitialPurchase
    <2>3. SubscriptionsTypeOK'
        BY <1>0, <2>1, <2>2, TypesKept
    <2>4. CallsFit'
        BY <2>1, CallsKept DEF Fits
    <2>5. TrialsInTurn' /\ SerialTrialOnce'
        BY <2>1, <2>2, NamesDiffer, TrialsKept
    <2>6. LoadedFit' /\ ExpiredStaysInactive'
        BY <1>0, <2>1, <2>2, KeptFit DEF ExpiredStaysInactive
    <2>. QED  BY <2>3, <2>4, <2>5, <2>6 DEF SubsInv
<1>9. ASSUME NEW q \in SubRequests, CreateFromOrder(q) PROVE SubsInv'
    <2>1. /\ doing' \in [SubRequests -> Steps] /\ doing'[q] = Nothing
          /\ loaded' \in [SubRequests -> SubRows]
          /\ \A r \in SubRequests \ {q} : doing'[r] = doing[r] /\ loaded'[r] = loaded[r]
        BY <1>9, ComesToAnEnd DEF CreateFromOrder
    <2>2. /\ doing[q].at = "create" /\ doing[q].for \in Orders /\ Store(doing[q].for, "active")
          /\ UNCHANGED <<hasUsedFreeTrial, customer, trialSessions, expired, given, orderly>>
        BY <1>0, <1>9 DEF CreateFromOrder, Fits
    <2>3. /\ subs' \in Seq(SubRows) /\ Len(subs') <= MaxSubs /\ DOMAIN subs \subseteq DOMAIN subs'
          /\ \A i \in DOMAIN subs : subs'[i] = subs[i]
          /\ ExpiredStaysInactive'
        BY <2>2, StoredRow DEF SubStatuses
    <2>4. SubscriptionsTypeOK'
        BY <1>0, <2>1, <2>2, <2>3, TypesKept DEF Nothing
    <2>5. CallsFit'
        BY <2>1, CallsKept DEF Fits, Nothing
    <2>6. TrialsInTurn' /\ SerialTrialOnce'
        BY <2>1, <2>2, TrialsKept DEF Nothing
    <2>7. LoadedFit'
        BY <2>1, <2>2, <2>3, KeptFit DEF Nothing
    <2>. QED  BY <2>3, <2>4, <2>5, <2>6, <2>7 DEF SubsInv
<1>10. ASSUME NEW q \in SubRequests, SaveSubscription(q) PROVE SubsInv'
    <2>1. /\ subs' \in Seq(SubRows) /\ Len(subs') = Len(subs)
          /\ expired' \subseteq DOMAIN subs /\ given' \subseteq DOMAIN subs
          /\ LoadedFit' /\ ExpiredStaysInactive'
        BY <1>10, SavedRow
    <2>2. /\ doing' \in [SubRequests -> Steps] /\ doing'[q] = Nothing
          /\ loaded' \in [SubRequests -> SubRows]
          /\ \A r \in SubRequests \ {q} : doing'[r] = doing[r] /\ loaded'[r] = loaded[r]
        BY <1>10, ComesToAnEnd DEF SaveSubscription
    <2>3. /\ doing[q].at = "save" /\ DOMAIN subs' = DOMAIN subs
          /\ UNCHANGED <<hasUsedFreeTrial, customer, trialSessions, orderly>>
        BY <1>0, <1>10, <2>1 DEF SaveSubscription
    <2>4. SubscriptionsTypeOK'
        BY <1>0, <2>1, <2>2, <2>3, TypesKept DEF Nothing
    <2>5. CallsFit'
        BY <2>2, CallsKept DEF Fits, Nothing
    <2>6. TrialsInTurn' /\ SerialTrialOnce'
        BY <2>2, <2>3, TrialsKept DEF Nothing
    <2>. QED  BY <2>1, <2>4, <2>5, <2>6 DEF SubsInv
<1>11. ASSUME NEW q \in SubRequests, SubscriptionCallFails(q) PROVE SubsInv'
    <2>1. /\ doing' \in [SubRequests -> Steps] /\ doing'[q] = Nothing
          /\ loaded' \in [SubRequests -> SubRows]
          /\ \A r \in SubRequests \ {q} : doing'[r] = doing[r] /\ loaded'[r] = loaded[r]
        BY <1>11, ComesToAnEnd DEF SubscriptionCallFails
    <2>2. UNCHANGED <<subs, customer, expired, given>> /\ trialSessions' \in Nat
        BY <1>0, <1>11 DEF SubscriptionCallFails
    <2>3. hasUsedFreeTrial' \in BOOLEAN /\ (hasUsedFreeTrial => hasUsedFreeTrial')
        <3>1. CASE hasUsedFreeTrial' = hasUsedFreeTrial
            BY <1>0, <3>1
        <3>2. CASE hasUsedFreeTrial' = (hasUsedFreeTrial \/ doing[q].at = "flag")
            BY <1>0, <3>2
        <3>. QED  BY <1>11, <3>1, <3>2 DEF SubscriptionCallFails
    <2>4. /\ orderly' = (orderly /\ ~(Trial(q) /\ doing[q].at \in {"session", "flag"}))
          /\ orderly' \in BOOLEAN
        BY <1>0, <1>11 DEF SubscriptionCallFails
    <2>5. orderly' => orderly /\ UNCHANGED trialSessions /\ doing[q].at # "flag"
        <3>1. CASE Trial(q) /\ doing[q].at \in {"session", "flag"}
            BY <2>4, <3>1
        <3>2. CASE ~(Trial(q) /\ doing[q].at \in {"session", "flag"})
            <4>1. doing[q].at # "flag"
                BY <1>0, <3>2 DEF Fits, Trial
            <4>2. trialSessions' \in {trialSessions, trialSessions + 0}
                BY <1>11, <3>2 DEF SubscriptionCallFails
            <4>. QED  BY <1>0, <2>4, <3>2, <4>1, <4>2
        <3>. QED  BY <3>1, <3>2
    <2>6. SubscriptionsTypeOK'
        BY <1>0, <2>1, <2>2, <2>3, <2>4, TypesKept DEF Nothing
    <2>7. CallsFit'
        BY <2>1, CallsKept DEF Fits, Nothing
    <2>8. TrialsInTurn' /\ SerialTrialOnce'
        BY <2>1, <2>3, <2>5, TrialsKept DEF Nothing
    <2>9. LoadedFit' /\ ExpiredStaysInactive'
        BY <1>0, <2>1, <2>2, KeptFit DEF ExpiredStaysInactive, Nothing
    <2>. QED  BY <2>6, <2>7, <2>8, <2>9 DEF SubsInv
<1>12. ASSUME NEW q \in SubRequests, StartFreeTrial(q) \/ PurchaseSubscription(q) PROVE SubsInv'
    BY <1>2, <1>12 DEF StartFreeTrial, PurchaseSubscription
<1>. QED
    BY <1>1, <1>3, <1>4, <1>5, <1>6, <1>7, <1>8, <1>9, <1>10, <1>11, <1>12 DEF SubscriptionsNext

\* UserSubscriptionService.startFreeTrial: one at a time, and without a failure after the
\* session was made, a user gets one trial session.
THEOREM TrialOnce == SubscriptionsSpec => []SerialTrialOnce
<1>1. SubsInv => SerialTrialOnce
    BY DEF SubsInv
<1>. QED  BY <1>1, SubsInitInv, SubsStep, PTL DEF SubscriptionsSpec

\* The RevenueCat webhook of the subscription module: an expired subscription is never isActive
\* again, and what makes its status usable is the write of an administrator, whatever documents
\* other requests loaded before and save after.
THEOREM ExpiredIsFinal == SubscriptionsSpec => []ExpiredStaysInactive
<1>1. SubsInv => ExpiredStaysInactive
    BY DEF SubsInv
<1>. QED  BY <1>1, SubsInitInv, SubsStep, PTL DEF SubscriptionsSpec
-----------------------------------------------------------------------------
(* The overview of earnings *)

LEMMA LeastNumber ==
    ASSUME NEW S \in SUBSET Nat, S # {}
    PROVE  \E n \in S : \A k \in S : n <= k
<1> DEFINE Below == OpToRel(<, Nat)
<1>1. IsWellFoundedOn(Below, Nat)
  BY NatLessThanWellFounded, Zenon
<1>2. \A x \in Nat, y \in Nat : x < y => <<x, y>> \in Below
  BY DEF OpToRel
<1> HIDE DEF Below
<1>3. PICK n \in S : \A k \in S : ~(<<k, n>> \in Below)
  BY <1>1, WFMin, Zenon
<1>4. ASSUME NEW k \in S PROVE n <= k
  <2>1. ~(k < n)
    BY <1>2, <1>3, Zenon
  <2> QED BY <2>1
<1> QED BY <1>4

\* What the calendar is, without the ranges: a month has at least 28 days.
LEMMA Calendar ==
    /\ Len(MonthStart) \in Nat /\ Len(MonthStart) > 3 /\ MonthStart[1] = 0
    /\ \A n \in 1..Len(MonthStart) : MonthStart[n] \in Nat
    /\ \A m \in Months : MonthStart[m] + 28 <= MonthStart[m + 1]
<1>1. \A n \in 1..Len(MonthStart) : MonthStart[n] \in Nat
  BY CalendarConstants
<1>2. ASSUME NEW m \in Months PROVE MonthStart[m] + 28 <= MonthStart[m + 1]
  <2>1. m \in 1..Len(MonthStart) /\ m + 1 \in 1..Len(MonthStart)
    BY CalendarConstants DEF Months
  <2>2. MonthStart[m] \in Nat /\ MonthStart[m + 1] \in Nat
    BY <1>1, <2>1
  <2>3. MonthStart[m + 1] - MonthStart[m] \in 28..31
    BY CalendarConstants, Zenon
  <2> QED BY <2>2, <2>3
<1> QED BY <1>1, <1>2, CalendarConstants

LEMMA MonthsInOrder ==
    ASSUME NEW m \in 1..Len(MonthStart), NEW n \in 1..Len(MonthStart), m < n
    PROVE  MonthStart[m] < MonthStart[n]
<1> DEFINE S == {b \in 1..Len(MonthStart) :
                    \E a \in 1..Len(MonthStart) : a < b /\ MonthStart[a] >= MonthStart[b]}
<1>1. SUFFICES ASSUME ~(MonthStart[m] < MonthStart[n]) PROVE FALSE
  OBVIOUS
<1>2. n \in S /\ S \in SUBSET Nat
  BY <1>1, Calendar
<1>3. PICK b \in S : \A k \in S : b <= k
  BY <1>2, LeastNumber, Zenon
<1>4. PICK a \in 1..Len(MonthStart) : a < b /\ MonthStart[a] >= MonthStart[b]
  OBVIOUS
<1>5. b - 1 \in Months /\ b - 1 \in 1..Len(MonthStart) /\ b \in 1..Len(MonthStart)
  BY <1>4, Calendar DEF Months
<1>6. MonthStart[b - 1] + 28 <= MonthStart[(b - 1) + 1] /\ (b - 1) + 1 = b
  BY <1>5, Calendar
<1>7. MonthStart[b - 1] + 28 <= MonthStart[b]
  BY <1>6, Zenon
<1>8. MonthStart[a] \in Nat /\ MonthStart[b] \in Nat /\ MonthStart[b - 1] \in Nat
  BY <1>5, Calendar
<1>9. b - 1 \notin S
  BY <1>3, <1>5
<1>10. ~(a < b - 1 /\ MonthStart[a] >= MonthStart[b - 1])
  BY <1>5, <1>9
<1>11. a = b - 1
  <2>1. a \in Nat /\ b \in Nat /\ a < b /\ MonthStart[a] >= MonthStart[b]
    BY <1>4, <1>5
  <2>2. ~(a < b - 1)
    BY <1>7, <1>8, <1>10, <2>1
  <2> QED BY <2>1, <2>2
<1> QED
  BY <1>4, <1>7, <1>8, <1>11

LEMMA EveryDayHasMonth ==
    ASSUME NEW d \in Nat, d < MonthStart[Len(MonthStart)]
    PROVE  \E m \in Months : MonthStart[m] <= d /\ d < MonthStart[m + 1]
<1> DEFINE S == {n \in 1..Len(MonthStart) : d < MonthStart[n]}
<1>1. Len(MonthStart) \in S /\ S \in SUBSET Nat
  BY Calendar
<1>2. PICK n \in S : \A k \in S : n <= k
  BY <1>1, LeastNumber, Zenon
<1>3. n # 1 /\ n \in 1..Len(MonthStart) /\ d < MonthStart[n]
  BY Calendar
<1>4. n - 1 \in Months /\ n - 1 \in 1..Len(MonthStart) /\ (n - 1) + 1 = n
  BY <1>3, Calendar DEF Months
<1>5. n - 1 \notin S
  BY <1>2, <1>4
<1>6. MonthStart[n - 1] \in Nat
  BY <1>4, Calendar
<1>7. MonthStart[n - 1] <= d
  BY <1>4, <1>5, <1>6
<1> QED BY <1>3, <1>4, <1>7

LEMMA OneMonth ==
    ASSUME NEW t, NEW m \in Months, DayOf(t) \in Nat,
           MonthStart[m] <= DayOf(t), DayOf(t) < MonthStart[m + 1]
    PROVE  MonthOf(t) = m
<1>1. ASSUME NEW n \in Months, MonthStart[n] <= DayOf(t), DayOf(t) < MonthStart[n + 1]
      PROVE n = m
  <2>1. /\ m \in 1..Len(MonthStart) /\ m + 1 \in 1..Len(MonthStart)
        /\ n \in 1..Len(MonthStart) /\ n + 1 \in 1..Len(MonthStart)
    BY Calendar DEF Months
  <2>2. /\ MonthStart[m] \in Nat /\ MonthStart[m + 1] \in Nat
        /\ MonthStart[n] \in Nat /\ MonthStart[n + 1] \in Nat
    BY <2>1, Calendar
  <2>3. CASE n < m
    <3>1. n + 1 = m \/ MonthStart[n + 1] < MonthStart[m]
      BY <2>1, <2>3, MonthsInOrder
    <3> QED BY <1>1, <2>2, <3>1
  <2>4. CASE m < n
    <3>1. m + 1 = n \/ MonthStart[m + 1] < MonthStart[n]
      BY <2>1, <2>4, MonthsInOrder
    <3> QED BY <1>1, <2>2, <3>1
  <2> QED BY <2>1, <2>3, <2>4
<1> QED BY <1>1 DEF MonthOf

\* The Sunday of the week of t, and the month m or the one before that it is in.
Sunday(t) == DayOf(t) - (DayOf(t) % 7)
MonthOfSunday(t) == IF Sunday(t) < MonthStart[MonthOf(t)] THEN MonthOf(t) - 1 ELSE MonthOf(t)

LEMMA RequestTime ==
    ASSUME NEW t \in Moments
    PROVE  /\ t \in Nat /\ DayOf(t) \in Nat /\ t % 2 \in 0..1 /\ t = 2 * DayOf(t) + (t % 2)
           /\ MonthStart[3] <= DayOf(t) /\ DayOf(t) < MonthStart[Len(MonthStart)]
<1>1. MonthStart[3] \in Nat /\ MonthStart[Len(MonthStart)] \in Nat
  BY Calendar
<1>2. t \in Int /\ 2 * MonthStart[3] <= t /\ t < 2 * MonthStart[Len(MonthStart)]
  <2>1. t \in FirstOf(3)..(FirstOf(Len(MonthStart)) - 1)
    BY DEF Moments
  <2>2. FirstOf(3) = 2 * MonthStart[3] /\ FirstOf(Len(MonthStart)) = 2 * MonthStart[Len(MonthStart)]
    BY <1>1 DEF FirstOf, Moment
  <2> QED BY <1>1, <2>1, <2>2
<1>3. t \in Nat
  BY <1>1, <1>2
<1>4. DayOf(t) \in Nat /\ t % 2 \in 0..1 /\ t = 2 * DayOf(t) + (t % 2)
  BY <1>3 DEF DayOf
<1>5. MonthStart[3] <= DayOf(t) /\ DayOf(t) < MonthStart[Len(MonthStart)]
  <2> DEFINE d == DayOf(t)
             time == t % 2
  <2>1. d \in Nat /\ time \in {0, 1} /\ t = 2 * d + time
    BY <1>4
  <2> HIDE DEF d, time
  <2>2. MonthStart[3] <= d /\ d < MonthStart[Len(MonthStart)]
    BY <1>1, <1>2, <2>1
  <2> QED BY <2>2 DEF d
<1> QED BY <1>3, <1>4, <1>5

LEMMA WeekMoves ==
    ASSUME NEW t \in Moments
    PROVE  /\ Sunday(t) \in Nat /\ Sunday(t) <= DayOf(t) /\ DayOf(t) < Sunday(t) + 7
           /\ Sunday(t) % 7 = 0 /\ Sunday(t) >= MonthStart[3] - 6
           /\ MovedNow(t) = 2 * Sunday(t) + (t % 2) /\ DayOf(MovedNow(t)) = Sunday(t)
<1>1. /\ t \in Nat /\ DayOf(t) \in Nat /\ t % 2 \in 0..1
      /\ MonthStart[3] <= DayOf(t) /\ MonthStart[3] \in Nat
  BY RequestTime, Calendar
<1>2. /\ Sunday(t) \in Nat /\ Sunday(t) <= DayOf(t) /\ DayOf(t) < Sunday(t) + 7
      /\ Sunday(t) % 7 = 0
  BY <1>1 DEF Sunday
<1>3. MovedNow(t) = 2 * Sunday(t) + (t % 2)
  BY DEF MovedNow, GetStartOfWeek, Sunday, Moment
<1>4. DayOf(MovedNow(t)) = Sunday(t)
  BY <1>1, <1>2, <1>3 DEF DayOf
<1> QED BY <1>1, <1>2, <1>3, <1>4

\* The month of the moved date is the month of the Sunday, one of the calendar, and not its
\* first.
LEMMA MovedMonth ==
    ASSUME NEW t \in Moments
    PROVE  /\ MonthOf(t) \in Months /\ MonthOf(MovedNow(t)) = MonthOfSunday(t)
           /\ MonthOfSunday(t) \in Months /\ MonthOfSunday(t) - 1 \in Months
           /\ MonthStart[MonthOfSunday(t)] <= Sunday(t)
<1>0. /\ DayOf(t) \in Nat /\ Sunday(t) \in Nat
      /\ Sunday(t) <= DayOf(t) /\ DayOf(t) < Sunday(t) + 7
  BY RequestTime, WeekMoves
<1>1. PICK m \in Months : MonthStart[m] <= DayOf(t) /\ DayOf(t) < MonthStart[m + 1]
  BY RequestTime, EveryDayHasMonth
<1>2. MonthOf(t) = m
  BY <1>1, RequestTime, OneMonth
<1>3. /\ m \in 1..Len(MonthStart) /\ m + 1 \in 1..Len(MonthStart) /\ 3 \in 1..Len(MonthStart)
      /\ m \in Int
  BY Calendar DEF Months
<1>4. MonthStart[m] \in Nat /\ MonthStart[m + 1] \in Nat /\ MonthStart[3] \in Nat
  BY <1>3, Calendar
<1>5. m >= 3
  <2>1. CASE m < 3
    <3>1. m + 1 = 3 \/ MonthStart[m + 1] < MonthStart[3]
      BY <1>3, <2>1, MonthsInOrder
    <3> QED BY <1>1, <1>4, <3>1, RequestTime
  <2> QED BY <1>3, <2>1
<1>6. /\ m - 1 \in Months /\ m - 2 \in Months /\ m - 1 \in 1..Len(MonthStart)
      /\ (m - 1) + 1 = m /\ (m - 1) - 1 = m - 2
  BY <1>3, <1>5, Calendar DEF Months
<1>7. MonthStart[m - 1] \in Nat
  BY <1>6, Calendar
<1>8. MonthStart[m - 1] + 28 <= MonthStart[(m - 1) + 1]
  BY <1>6, Calendar
<1>9. MonthStart[m - 1] + 28 <= MonthStart[m]
  BY <1>6, <1>8, Zenon
<1>10. CASE Sunday(t) < MonthStart[m]
  <2>1. MonthOfSunday(t) = m - 1
    BY <1>2, <1>10 DEF MonthOfSunday
  <2>2. MonthStart[m - 1] <= Sunday(t)
    BY <1>0, <1>1, <1>4, <1>7, <1>9
  <2>3. Sunday(t) < MonthStart[(m - 1) + 1]
    BY <1>6, <1>10, Zenon
  <2>4. MonthOf(MovedNow(t)) = m - 1
    BY <1>6, <2>2, <2>3, WeekMoves, OneMonth
  <2> QED BY <1>2, <1>6, <2>1, <2>2, <2>4
<1>11. CASE ~(Sunday(t) < MonthStart[m])
  <2>1. MonthOfSunday(t) = m
    BY <1>2, <1>11 DEF MonthOfSunday
  <2>2. MonthStart[m] <= Sunday(t) /\ Sunday(t) < MonthStart[m + 1]
    BY <1>0, <1>1, <1>4, <1>11
  <2>3. MonthOf(MovedNow(t)) = m
    BY <2>2, WeekMoves, OneMonth
  <2> QED BY <1>2, <1>6, <2>1, <2>2, <2>3
<1> QED BY <1>10, <1>11

\* The windows, computed: what a payment's moment is compared with.
LEMMA Windows ==
    ASSUME NEW t \in Moments
    PROVE  /\ WeekStart(t) = 2 * Sunday(t) + (t % 2) /\ WeekStart(t) <= t
           /\ LastWeekStart(t) = WeekStart(t) - 14 /\ LastWeekEnd(t) = WeekStart(t) - 1
           /\ TodayStart(t) = 2 * DayOf(t)
           /\ ThisMonthStart(t) = 2 * MonthStart[MonthOfSunday(t)]
           /\ LastMonthStart(t) = 2 * MonthStart[MonthOfSunday(t) - 1]
           /\ LastMonthEnd(t) = ThisMonthStart(t) - 2
           /\ MonthStart[MonthOfSunday(t)] \in Nat /\ MonthStart[MonthOfSunday(t) - 1] \in Nat
           /\ MonthStart[MonthOfSunday(t) - 1] + 28 <= MonthStart[MonthOfSunday(t)]
           /\ ThisMonthStart(t) <= t
<1>1. /\ DayOf(t) \in Nat /\ Sunday(t) \in Nat /\ t \in Nat /\ t % 2 \in 0..1
      /\ t = 2 * DayOf(t) + (t % 2) /\ Sunday(t) <= DayOf(t) /\ Sunday(t) % 7 = 0
      /\ MovedNow(t) = 2 * Sunday(t) + (t % 2)
      /\ MonthStart[3] <= DayOf(t) /\ Sunday(t) >= MonthStart[3] - 6
  BY RequestTime, WeekMoves
<1>2. WeekStart(t) = 2 * Sunday(t) + (t % 2) /\ WeekStart(t) <= t
  BY <1>1 DEF WeekStart, MovedNow
<1>3. MonthStart[3] >= 56
  <2>1. 1 \in Months /\ 2 \in Months /\ 1 + 1 = 2 /\ 2 + 1 = 3
    BY Calendar DEF Months
  <2>2. MonthStart[1] + 28 <= MonthStart[2] /\ MonthStart[2] + 28 <= MonthStart[3]
    BY <2>1, Calendar
  <2>3. MonthStart[2] \in Nat /\ MonthStart[3] \in Nat /\ MonthStart[1] = 0
    BY Calendar
  <2> QED BY <2>2, <2>3
<1>4. LastWeekStart(t) = WeekStart(t) - 14
  <2> DEFINE before == MovedNow(t) - 14
  <2>1. DayOf(before) = Sunday(t) - 7 /\ before % 2 = t % 2
    <3>1. PICK week \in Int, time \in 0..1 : week = Sunday(t) - 7 /\ time = t % 2
      BY <1>1
    <3>2. before = 2 * week + time
      BY <1>1, <3>1
    <3>3. (2 * week + time) \div 2 = week /\ (2 * week + time) % 2 = time
      BY <3>1
    <3> QED BY <3>1, <3>2, <3>3, Zenon DEF DayOf
  <2>2. (Sunday(t) - 7) % 7 = 0
    BY <1>1
  <2>3. DayOf(before) - (DayOf(before) % 7) = Sunday(t) - 7
    BY <1>1, <2>1, <2>2
  <2>4. LastWeekStart(t) = 2 * (Sunday(t) - 7) + (t % 2)
    BY <2>1, <2>3, Zenon DEF LastWeekStart, GetStartOfWeek, Moment
  <2> QED BY <1>1, <1>2, <2>4
<1>5. LastWeekEnd(t) = WeekStart(t) - 1
  BY <1>1, <1>2, <1>4 DEF LastWeekEnd
<1>6. TodayStart(t) = 2 * DayOf(t)
  BY <1>1 DEF TodayStart, Moment
<1>7. /\ MonthOf(MovedNow(t)) = MonthOfSunday(t) /\ MonthOfSunday(t) \in Months
      /\ MonthOfSunday(t) - 1 \in Months /\ MonthStart[MonthOfSunday(t)] <= Sunday(t)
  BY MovedMonth
<1>8. MonthStart[MonthOfSunday(t)] \in Nat /\ MonthStart[MonthOfSunday(t) - 1] \in Nat
  BY <1>7, Calendar DEF Months
<1>9. /\ ThisMonthStart(t) = 2 * MonthStart[MonthOfSunday(t)]
      /\ LastMonthStart(t) = 2 * MonthStart[MonthOfSunday(t) - 1]
      /\ LastMonthEnd(t) = 2 * MonthStart[MonthOfSunday(t)] - 2
  BY <1>7, <1>8 DEF ThisMonthStart, LastMonthStart, LastMonthEnd, FirstOf, Moment
<1>10. MonthStart[MonthOfSunday(t) - 1] + 28 <= MonthStart[MonthOfSunday(t)]
  <2>1. (MonthOfSunday(t) - 1) + 1 = MonthOfSunday(t)
    BY <1>7 DEF Months
  <2>2. MonthStart[MonthOfSunday(t) - 1] + 28 <= MonthStart[(MonthOfSunday(t) - 1) + 1]
    BY <1>7, Calendar
  <2> QED BY <2>1, <2>2, Zenon
<1>11. ThisMonthStart(t) <= t
  BY <1>1, <1>7, <1>8, <1>9
<1> QED BY <1>2, <1>4, <1>5, <1>6, <1>8, <1>9, <1>10, <1>11

LEMMA YearWithinMonth ==
    ASSUME NEW t \in Moments
    PROVE  YearStart(t) \in 0..ThisMonthStart(t)
<1>1. /\ MonthOf(MovedNow(t)) = MonthOfSunday(t) /\ MonthOfSunday(t) \in Months
      /\ ThisMonthStart(t) = 2 * MonthStart[MonthOfSunday(t)]
      /\ MonthStart[MonthOfSunday(t)] \in Nat
  BY MovedMonth, Windows
<1>2. /\ January \in Months /\ January \in 1..Len(MonthStart) /\ January \in Int
      /\ MonthOfSunday(t) \in 1..Len(MonthStart) /\ MonthOfSunday(t) \in Int
  <2>1. January \in Months
    BY CalendarConstants, Zenon
  <2>2. \A m \in Months : m \in 1..Len(MonthStart) /\ m \in Int
    BY Calendar DEF Months
  <2> QED BY <1>1, <2>1, <2>2
<1>3. MonthStart[January] \in Nat
  BY <1>2, Calendar
<1>4. CASE MonthOfSunday(t) >= January
  <2>1. MonthOfSunday(t) = January \/ MonthStart[January] < MonthStart[MonthOfSunday(t)]
    BY <1>2, <1>4, MonthsInOrder
  <2>2. MonthStart[January] <= MonthStart[MonthOfSunday(t)]
    BY <1>1, <1>3, <2>1
  <2>3. YearStart(t) = 2 * MonthStart[January]
    BY <1>1, <1>3, <1>4 DEF YearStart, FirstOf, Moment
  <2> QED BY <1>1, <1>3, <2>2, <2>3
<1>5. CASE ~(MonthOfSunday(t) >= January)
  <2>1. YearStart(t) = 0
    BY <1>1, <1>5 DEF YearStart
  <2> QED BY <1>1, <2>1
<1> QED BY <1>4, <1>5

\* The overview's months are the month of the week's Sunday and the one before, whatever the
\* calendar and the moment of the request; its weeks are two weeks, end to end; and today
\* begins before this week in one case only, the evening of a Sunday
\* (PaymentTransactionService.getEarningsOverview and getStartOfWeek).
THEOREM MonthAlwaysOfTheSunday == EarningsSpec => []MonthOfTheSunday
<1>1. ASSUME today \in Moments PROVE MonthOfTheSunday
  <2> DEFINE m == MonthOf(today)
             k == IF DayOf(today) - (DayOf(today) % 7) < MonthStart[m] THEN m - 1 ELSE m
  <2>1. k = MonthOfSunday(today)
    BY DEF MonthOfSunday, Sunday
  <2>2. /\ ThisMonthStart(today) = 2 * MonthStart[MonthOfSunday(today)]
        /\ LastMonthStart(today) = 2 * MonthStart[MonthOfSunday(today) - 1]
        /\ LastMonthEnd(today) = ThisMonthStart(today) - 2
        /\ MonthStart[MonthOfSunday(today)] \in Nat
        /\ MonthStart[MonthOfSunday(today) - 1] \in Nat
        /\ LastWeekStart(today) = WeekStart(today) - 14
        /\ WeekStart(today) = 2 * Sunday(today) + (today % 2)
        /\ TodayStart(today) = 2 * DayOf(today)
    BY <1>1, Windows
  <2>3. ThisMonthStart(today) = FirstOf(k) /\ LastMonthStart(today) = FirstOf(k - 1)
    <3> HIDE DEF k
    <3>1. FirstOf(k) = 2 * MonthStart[MonthOfSunday(today)]
      BY <2>1, <2>2 DEF FirstOf, Moment
    <3>2. FirstOf(k - 1) = 2 * MonthStart[MonthOfSunday(today) - 1]
      BY <2>1, <2>2 DEF FirstOf, Moment
    <3> QED BY <2>2, <3>1, <3>2
  <2>4. LastMonthEnd(today) < ThisMonthStart(today)
    BY <2>2
  <2>5. QuarterStart(today) <= YearStart(today) /\ YearStart(today) <= ThisMonthStart(today)
    BY <1>1, <2>2, YearWithinMonth DEF QuarterStart
  <2>6. TodayStart(today) < WeekStart(today) <=> (today % 14) = 1
    <3>1. /\ today \in Nat /\ DayOf(today) \in Nat /\ today % 2 \in 0..1
          /\ today = 2 * DayOf(today) + (today % 2)
          /\ Sunday(today) \in Nat /\ Sunday(today) <= DayOf(today)
          /\ DayOf(today) < Sunday(today) + 7 /\ Sunday(today) % 7 = 0
      BY <1>1, RequestTime, WeekMoves
    <3>2. PICK w \in Nat : Sunday(today) = 7 * w
      <4>1. Sunday(today) \div 7 \in Nat /\ Sunday(today) = 7 * (Sunday(today) \div 7)
        BY <3>1
      <4> QED BY <4>1
    <3>3. today % 14 = 2 * (DayOf(today) - Sunday(today)) + (today % 2)
      BY <3>1, <3>2
    <3> QED BY <2>2, <3>1, <3>3
  <2> QED BY <2>2, <2>3, <2>4, <2>5, <2>6 DEF MonthOfTheSunday
<1>2. MonthOfTheSunday
  BY <1>1 DEF MonthOfTheSunday
<1> QED BY <1>2, PTL

LEMMA CountsOne ==
    ASSUME NEW at, NEW status, NEW asked, NEW window
    PROVE  ModelAggregate({[createdAt |-> at, status |-> status]}, asked, window)
               = IF status = asked /\ at \in window THEN 1 ELSE 0
<1> DEFINE p == [createdAt |-> at, status |-> status]
           counted == {x \in {p} : x.status = asked /\ x.createdAt \in window}
<1>1. p.createdAt = at /\ p.status = status
  OBVIOUS
<1>2. CASE status = asked /\ at \in window
  <2>1. counted = {p}
    BY <1>1, <1>2
  <2>2. Cardinality(counted) = 1
    BY <2>1, FS_Singleton, Zenon
  <2> QED BY <1>2, <2>2 DEF ModelAggregate
<1>3. CASE ~(status = asked /\ at \in window)
  <2>1. counted = {}
    BY <1>1, <1>3
  <2>2. Cardinality(counted) = 0
    BY <2>1, FS_EmptySet, Zenon
  <2> QED BY <1>3, <2>2 DEF ModelAggregate
<1> QED BY <1>2, <1>3

\* Every completed payment is counted once in the overview's fortnight and once in its two
\* months, but for the last day of the earlier month after midnight, and nothing open is an
\* earning, whatever the calendar and the moments
\* (PaymentTransactionService.getEarningsOverview).
THEOREM EachPaymentAlwaysOnce == EarningsSpec => []EachPaymentOnce
<1> DEFINE Of(at, status) ==
               GetEarningsOverview({[createdAt |-> at, status |-> status]}, today)
           gap(at) == LastMonthEnd(today) < at /\ at < ThisMonthStart(today)
<1>1. ASSUME today \in Moments, NEW at \in 0..today
      PROVE  /\ Of(at, "completed").thisWeekEarnings + Of(at, "completed").lastWeekEarnings
                    = (IF at >= WeekStart(today) - 14 THEN 1 ELSE 0)
             /\ Of(at, "completed").thisMonthEarnings + Of(at, "completed").lastMonthEarnings
                    = (IF at >= LastMonthStart(today) /\ ~gap(at) THEN 1 ELSE 0)
             /\ gap(at) => at = ThisMonthStart(today) - 1
             /\ Of(at, "completed").totalEarnings = 1
             /\ Of(at, "completed").thisQuarterEarnings = 1
             /\ \A status \in {"pending", "processing"} :
                    /\ Of(at, status).totalEarnings = 0
                    /\ Of(at, status).thisYearEarnings = 0
                    /\ Of(at, status).pendingPayments + Of(at, status).processingPayments = 1
  <2>1. /\ ThisMonthStart(today) \in Nat /\ LastMonthStart(today) \in Nat
        /\ LastMonthEnd(today) = ThisMonthStart(today) - 2
        /\ LastMonthStart(today) < ThisMonthStart(today) /\ ThisMonthStart(today) <= today
        /\ WeekStart(today) \in Nat /\ WeekStart(today) <= today
        /\ LastWeekStart(today) = WeekStart(today) - 14
        /\ LastWeekEnd(today) = WeekStart(today) - 1
        /\ today \in Nat /\ at \in Nat /\ at <= today
    <3>1. today \in Nat /\ today % 2 \in 0..1 /\ Sunday(today) \in Nat
      BY <1>1, RequestTime, WeekMoves
    <3>2. /\ WeekStart(today) = 2 * Sunday(today) + (today % 2) /\ WeekStart(today) <= today
          /\ LastWeekStart(today) = WeekStart(today) - 14
          /\ LastWeekEnd(today) = WeekStart(today) - 1
          /\ ThisMonthStart(today) = 2 * MonthStart[MonthOfSunday(today)]
          /\ LastMonthStart(today) = 2 * MonthStart[MonthOfSunday(today) - 1]
          /\ LastMonthEnd(today) = ThisMonthStart(today) - 2
          /\ MonthStart[MonthOfSunday(today)] \in Nat
          /\ MonthStart[MonthOfSunday(today) - 1] \in Nat
          /\ MonthStart[MonthOfSunday(today) - 1] + 28 <= MonthStart[MonthOfSunday(today)]
          /\ ThisMonthStart(today) <= today
      BY <1>1, Windows
    <3> QED BY <1>1, <3>1, <3>2
  <2> DEFINE One(status, asked, window) == IF status = asked /\ at \in window THEN 1 ELSE 0
  <2>2. ASSUME NEW status
        PROVE  /\ Of(at, status).totalEarnings = One(status, "completed", 0..today)
               /\ Of(at, status).thisWeekEarnings
                      = One(status, "completed", WeekStart(today)..today)
               /\ Of(at, status).lastWeekEarnings
                      = One(status, "completed", LastWeekStart(today)..LastWeekEnd(today))
               /\ Of(at, status).thisMonthEarnings
                      = One(status, "completed", ThisMonthStart(today)..today)
               /\ Of(at, status).lastMonthEarnings
                      = One(status, "completed", LastMonthStart(today)..LastMonthEnd(today))
               /\ Of(at, status).thisQuarterEarnings
                      = One(status, "completed", QuarterStart(today)..today)
               /\ Of(at, status).thisYearEarnings
                      = One(status, "completed", YearStart(today)..today)
               /\ Of(at, status).pendingPayments = One(status, "pending", 0..today)
               /\ Of(at, status).processingPayments = One(status, "processing", 0..today)
    BY CountsOne, Zenon DEF GetEarningsOverview
  <2>3. Of(at, "completed").thisWeekEarnings + Of(at, "completed").lastWeekEarnings
            = (IF at >= WeekStart(today) - 14 THEN 1 ELSE 0)
    <3> HIDE DEF Of
    <3> QED BY <2>1, <2>2
  <2>4. Of(at, "completed").thisMonthEarnings + Of(at, "completed").lastMonthEarnings
            = (IF at >= LastMonthStart(today) /\ ~gap(at) THEN 1 ELSE 0)
    <3> HIDE DEF Of
    <3> QED BY <2>1, <2>2
  <2>5. gap(at) => at = ThisMonthStart(today) - 1
    BY <2>1
  <2>6. Of(at, "completed").totalEarnings = 1 /\ Of(at, "completed").thisQuarterEarnings = 1
    <3> HIDE DEF Of
    <3> QED BY <2>1, <2>2 DEF QuarterStart
  <2>7. ASSUME NEW status \in {"pending", "processing"}
        PROVE  /\ Of(at, status).totalEarnings = 0 /\ Of(at, status).thisYearEarnings = 0
               /\ Of(at, status).pendingPayments + Of(at, status).processingPayments = 1
    <3> HIDE DEF Of
    <3> QED BY <2>1, <2>2, <2>7
  <2> QED
    <3> HIDE DEF Of, gap
    <3> QED BY <2>3, <2>4, <2>5, <2>6, <2>7
<1>2. EachPaymentOnce
  BY <1>1, Zenon DEF EachPaymentOnce
<1> QED BY <1>2, PTL
=============================================================================
