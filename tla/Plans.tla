-------------------------------- MODULE Plans --------------------------------
(***************************************************************************)
(* SubscriptionPlanService for the plans of one type.  A creation reads    *)
(* the active plans, saves each of them inactive, makes a product and a    *)
(* price at Stripe where the channel asks for it, and stores the new plan. *)
(* Updates and deletions load a plan in one call and save it in another:   *)
(* Mongoose writes the fields that differ from what was loaded.            *)
(***************************************************************************)
EXTENDS Naturals, FiniteSets

CONSTANTS
    PlanRequests,
    MaxPlans        \* bound: plans created

ASSUME PlansConstants == MaxPlans \in Nat

VARIABLES
    plans,          \* plans created: ids are 1..plans
    offered,        \* those with isActive
    dropped,        \* those with isDeleted
    making,         \* the next step of a creation, what a plan is saved as, or "idle"
    found,          \* active plans a creation read and has still to save inactive
    held,           \* the plan a request loaded, and whether it was offered
    upset           \* history: since the last creation that ended alone, one failed, or a plan
                    \* was deleted or updated to inactive

planVars == <<plans, offered, dropped, making, found, held, upset>>

PlanIds == 1..MaxPlans
NoPlan == [id |-> 0, offered |-> FALSE]
Creating(q) == making[q] \in {"deactivate", "store"}
Makes(q, step) == making' = [making EXCEPT ![q] = step]

-----------------------------------------------------------------------------
\* createSubscriptionPlan
CreateSubscriptionPlan(q) ==
    /\ making[q] = "idle"
    /\ Makes(q, "deactivate")
    /\ found' = [found EXCEPT ![q] = offered \ dropped]
    /\ UNCHANGED <<plans, offered, dropped, held, upset>>

DeactivatePlan(q, p) ==
    /\ making[q] = "deactivate" /\ p \in found[q]
    /\ offered' = offered \ {p}
    /\ found' = [found EXCEPT ![q] = @ \ {p}]
    /\ UNCHANGED <<plans, dropped, making, held, upset>>

\* A product, then a price; neither for a plan sold through RevenueCat only.
CreateProductAndPrice(q) ==
    /\ making[q] = "deactivate" /\ found[q] = {}
    /\ Makes(q, "store")
    /\ UNCHANGED <<plans, offered, dropped, found, held, upset>>

StorePlan(q) ==
    /\ making[q] = "store" /\ plans < MaxPlans
    /\ plans' = plans + 1
    /\ offered' = offered \cup {plans + 1}
    /\ Makes(q, "idle")
    /\ upset' = (upset /\ \E r \in PlanRequests \ {q} : Creating(r))
    /\ UNCHANGED <<dropped, found, held>>

\* Stripe or the database rejects: the request answers, and what was deactivated stays so.
CreatePlanFails(q) ==
    /\ Creating(q)
    /\ Makes(q, "idle")
    /\ found' = [found EXCEPT ![q] = {}]
    /\ upset' = TRUE
    /\ UNCHANGED <<plans, offered, dropped, held>>

-----------------------------------------------------------------------------
(* updateSubscriptionPlan and deleteSubscriptionPlan *)

LoadPlan(q, p, to) ==
    /\ making[q] = "idle" /\ p \in 1..plans
    /\ Makes(q, to)
    /\ held' = [held EXCEPT ![q] = [id |-> p, offered |-> p \in offered]]
    /\ UNCHANGED <<plans, offered, dropped, found, upset>>

\* Whatever the body names; the price at Stripe is best effort.
UpdateSubscriptionPlan(q, p) == LoadPlan(q, p, "active") \/ LoadPlan(q, p, "inactive")
DeleteSubscriptionPlan(q, p) == LoadPlan(q, p, "deleted")

\* Mutant: an update that does not name isActive writes its default, inactive.
MutUpdateDefaults(q) ==
    /\ making[q] \in {"active", "inactive", "deleted"}
    /\ offered' = offered \ {held[q].id}
    /\ dropped' = IF making[q] = "deleted" THEN dropped \cup {held[q].id} ELSE dropped
    /\ upset' = (upset \/ making[q] # "active")
    /\ Makes(q, "idle") /\ held' = [held EXCEPT ![q] = NoPlan]
    /\ UNCHANGED <<plans, found>>

SavePlan(q) ==
    /\ making[q] \in {"active", "inactive", "deleted"}
    /\ offered' = CASE making[q] = "active" /\ ~held[q].offered -> offered \cup {held[q].id}
                    [] making[q] # "active" /\ held[q].offered -> offered \ {held[q].id}
                    [] OTHER -> offered
    /\ dropped' = IF making[q] = "deleted" THEN dropped \cup {held[q].id} ELSE dropped
    /\ upset' = (upset \/ making[q] # "active")
    /\ Makes(q, "idle") /\ held' = [held EXCEPT ![q] = NoPlan]
    /\ UNCHANGED <<plans, found>>

\* The save rejects before it is applied, or the process dies.
PlanNotSaved(q) ==
    /\ making[q] \in {"active", "inactive", "deleted"}
    /\ Makes(q, "idle") /\ held' = [held EXCEPT ![q] = NoPlan]
    /\ UNCHANGED <<plans, offered, dropped, found, upset>>

-----------------------------------------------------------------------------
PlansInit ==
    /\ plans = 0 /\ offered = {} /\ dropped = {} /\ upset = FALSE
    /\ making = [q \in PlanRequests |-> "idle"]
    /\ found = [q \in PlanRequests |-> {}]
    /\ held = [q \in PlanRequests |-> NoPlan]

PlansNext ==
    \E q \in PlanRequests :
        \/ CreateSubscriptionPlan(q) \/ CreateProductAndPrice(q) \/ StorePlan(q)
        \/ CreatePlanFails(q) \/ SavePlan(q) \/ PlanNotSaved(q)
        \/ \E p \in PlanIds :
            DeactivatePlan(q, p) \/ UpdateSubscriptionPlan(q, p) \/ DeleteSubscriptionPlan(q, p)

PlansSpec == PlansInit /\ [][PlansNext]_planVars

-----------------------------------------------------------------------------
PlansTypeOK ==
    /\ plans \in 0..MaxPlans
    /\ offered \subseteq 1..plans /\ dropped \subseteq 1..plans
    /\ making \in [PlanRequests -> {"idle", "deactivate", "store", "active", "inactive", "deleted"}]
    /\ found \in [PlanRequests -> SUBSET (1..plans)]
    /\ held \in [PlanRequests -> [id : 0..plans, offered : BOOLEAN]]
    /\ \A q \in PlanRequests :
        making[q] \in {"active", "inactive", "deleted"} => held[q].id # 0
    /\ upset \in BOOLEAN

\* However creations overlap, and deactivate each other's plans, a type that was ever offered
\* is offered when they have all ended, whatever updates are under way with plans they loaded
\* before, unless a creation failed half-way or an administrator withdrew a plan.
PlanStaysOffered ==
    plans > 0 /\ ~upset /\ (\A q \in PlanRequests : ~Creating(q)) => offered \ dropped # {}
=============================================================================
