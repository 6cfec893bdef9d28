---------------------------- MODULE RevenueCatLog ----------------------------
(***************************************************************************)
(* The RevenueCat webhook of the payment module.  A delivery is answered,  *)
(* then processed: it logs a row, and its handler writes the row's status  *)
(* before and after its work.  The row is found by event_id, which is the  *)
(* type of the event, so all events of one type share one row.             *)
(***************************************************************************)
EXTENDS Naturals

CONSTANTS
    RcDeliveries,
    RcTypes,            \* event types
    HandledTypes        \* those with a handler

ASSUME RevenueCatLogConstants == RcTypes # {} /\ HandledTypes \subseteq RcTypes

VARIABLES
    delivery,           \* of each delivery: the next call, and the type
    rowStatus,          \* processingStatus of each type's row, "none" without one
    rowAttempts,        \* attempts, counted up to 3
    lost                \* history: types struck by a crash or a lost status update

rcVars == <<delivery, rowStatus, rowAttempts, lost>>

TypeOf(d) == delivery[d].type
AtCall(d, call) == delivery[d].call = call
Continues(d, call) == delivery' = [delivery EXCEPT ![d].call = call]
UnderWay(t) == \E d \in RcDeliveries : TypeOf(d) = t /\ delivery[d].call \notin {"none", "over"}

-----------------------------------------------------------------------------
HandleRevenueCatWebhook(d, t) ==
    /\ AtCall(d, "none")
    /\ delivery' = [delivery EXCEPT ![d] = [call |-> "log", type |-> t]]
    /\ UNCHANGED <<rowStatus, rowAttempts, lost>>

AfterLog(d) == Continues(d, IF TypeOf(d) \in HandledTypes THEN "start" ELSE "over")

\* The duplicate key of a type already logged is ignored.
LogRevenueCatEvent(d) ==
    /\ AtCall(d, "log")
    /\ rowStatus' = [rowStatus EXCEPT ![TypeOf(d)] = IF @ = "none" THEN "pending" ELSE @]
    /\ AfterLog(d)
    /\ UNCHANGED <<rowAttempts, lost>>

\* So is every other error: the handler runs, without a row if there is none.
LogRejects(d) ==
    /\ AtCall(d, "log")
    /\ AfterLog(d)
    /\ UNCHANGED <<rowStatus, rowAttempts, lost>>

\* updateProcessingStatus: no row, no update; every update counts as an attempt.
WriteStatus(t, status) ==
    IF rowStatus[t] = "none" THEN UNCHANGED <<rowStatus, rowAttempts>>
    ELSE /\ rowStatus' = [rowStatus EXCEPT ![t] = status]
         /\ rowAttempts' = [rowAttempts EXCEPT ![t] = IF @ = 3 THEN 3 ELSE @ + 1]

StartHandler(d) ==
    /\ AtCall(d, "start")
    /\ WriteStatus(TypeOf(d), "processing")
    /\ Continues(d, "work")
    /\ UNCHANGED lost

\* The handlers only read: a purchase is looked up, the others unpack the event, which throws
\* for one without a subscriber. Both ways the outcome is written.
CompleteHandler(d) ==
    /\ AtCall(d, "work")
    /\ WriteStatus(TypeOf(d), "completed")
    /\ Continues(d, "over")
    /\ UNCHANGED lost

\* Mutant: the catch block throws on without a status.
MutThrows(d) ==
    /\ AtCall(d, "work")
    /\ Continues(d, "over")
    /\ UNCHANGED <<rowStatus, rowAttempts, lost>>

FailHandler(d) ==
    /\ AtCall(d, "work")
    /\ WriteStatus(TypeOf(d), "failed")
    /\ Continues(d, "over")
    /\ UNCHANGED lost

\* A status update rejects and is swallowed, or the process dies.
StatusLost(d) ==
    /\ delivery[d].call \in {"start", "work"}
    /\ Continues(d, IF AtCall(d, "start") THEN "work" ELSE "over")
    /\ lost' = lost \cup {TypeOf(d)}
    /\ UNCHANGED <<rowStatus, rowAttempts>>

RcCrash ==
    /\ delivery' = [d \in RcDeliveries |->
        IF AtCall(d, "none") THEN delivery[d] ELSE [delivery[d] EXCEPT !.call = "over"]]
    /\ lost' = lost \cup {t \in RcTypes : UnderWay(t)}
    /\ UNCHANGED <<rowStatus, rowAttempts>>

-----------------------------------------------------------------------------
RcInit ==
    /\ delivery = [d \in RcDeliveries |-> [call |-> "none", type |-> CHOOSE t \in RcTypes : TRUE]]
    /\ rowStatus = [t \in RcTypes |-> "none"]
    /\ rowAttempts = [t \in RcTypes |-> 0]
    /\ lost = {}

RcNext ==
    \/ \E d \in RcDeliveries :
        \/ \E t \in RcTypes : HandleRevenueCatWebhook(d, t)
        \/ LogRevenueCatEvent(d) \/ LogRejects(d)
        \/ StartHandler(d) \/ CompleteHandler(d) \/ FailHandler(d) \/ StatusLost(d)
    \/ RcCrash

RcSpec == RcInit /\ [][RcNext]_rcVars

-----------------------------------------------------------------------------
RcTypeOK ==
    /\ delivery \in [RcDeliveries -> [call : {"none", "log", "start", "work", "over"}, type : RcTypes]]
    /\ rowStatus \in [RcTypes -> {"none", "pending", "processing", "completed", "failed"}]
    /\ rowAttempts \in [RcTypes -> 0..3]
    /\ lost \subseteq RcTypes

\* However the runs of events of one type overlap on their shared row, it does not stay in
\* pending or processing when the last of them has ended, where getFailedEvents would never
\* find it, unless a crash or a lost status update struck the type.
SharedRowSettles ==
    \A t \in HandledTypes \ lost :
        ~UnderWay(t) => rowStatus[t] \in {"none", "completed", "failed"}
=============================================================================
