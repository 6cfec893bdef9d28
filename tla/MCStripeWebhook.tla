-------------------------- MODULE MCStripeWebhook ---------------------------
(***************************************************************************)
(* A checkout event, a refund event and one of a type that is only logged; *)
(* three RevenueCat events; two requests each to subscriptions, plans and  *)
(* connected accounts; five months of earnings.  The six share no          *)
(* variable: each moves while the others are where they began, which shows *)
(* every behaviour of each.                                                *)
(***************************************************************************)
EXTENDS StripeWebhook, RevenueCatLog, Subscriptions, Plans, StripeAccounts, EarningsWindows

CONSTANTS paid, refunded, other, cs1

MCSessionOf == [e \in {paid} |-> cs1]
MCMonthStart == <<0, 31, 61, 92, 123, 151>>

otherVars == <<rcVars, subscriptionVars, planVars, accountVars, today>>

OthersInit == RcInit /\ SubscriptionsInit /\ PlansInit /\ AccountsInit /\ EarningsInit

MCInit == Init /\ OthersInit

\* What a save does depends neither on the customer nor on the trials: rows are loaded when
\* there is one and these are orderly.
RowsLoadedInTurn == \A q \in SubRequests : doing[q].at = "save" => customer /\ orderly

OthersNext ==
    \/ /\ SubscriptionsInit /\ PlansInit /\ AccountsInit /\ EarningsInit
       /\ RcNext /\ UNCHANGED <<subscriptionVars, planVars, accountVars, today>>
    \/ /\ RcInit /\ PlansInit /\ AccountsInit /\ EarningsInit
       /\ SubscriptionsNext /\ RowsLoadedInTurn' /\ UNCHANGED <<rcVars, planVars, accountVars, today>>
    \/ /\ RcInit /\ SubscriptionsInit /\ AccountsInit /\ EarningsInit
       /\ PlansNext /\ UNCHANGED <<rcVars, subscriptionVars, accountVars, today>>
    \/ /\ RcInit /\ SubscriptionsInit /\ PlansInit /\ EarningsInit
       /\ AccountsNext /\ UNCHANGED <<rcVars, subscriptionVars, planVars, today>>
    \/ /\ RcInit /\ SubscriptionsInit /\ PlansInit /\ AccountsInit
       /\ TimePasses /\ UNCHANGED <<rcVars, subscriptionVars, planVars, accountVars>>

MCNext ==
    \/ OthersInit /\ Next /\ UNCHANGED otherVars
    \/ Init /\ OthersNext /\ UNCHANGED vars

MCSpec ==
    /\ MCInit /\ [][MCNext]_<<vars, otherVars>>
    /\ \A r \in Runs : WF_vars(ProcessEvent(r))
=============================================================================
