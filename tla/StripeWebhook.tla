---------------------------- MODULE StripeWebhook ----------------------------
(***************************************************************************)
(* Stripe events arriving at the webhook controller, StripeWebhookService  *)
(* that logs and processes them, and the payment transactions they leave.  *)
(* Stripe delivers an event at least once.  The controller answers 200     *)
(* before the event is processed, so processing runs (elements of Runs)    *)
(* overlap and die with the process.  One action per await.                *)
(***************************************************************************)
EXTENDS Naturals, FiniteSets

CONSTANTS
    Events,
    Checkouts,      \* the events of type checkout.session.completed
    Unhandled,      \* the events whose type processEvent only logs
    Sessions,
    SessionOf,      \* the checkout session a checkout event is about
    Runs,           \* bound: calls of processEvent, by a delivery or by a retry
    Clerks,         \* bound: transactions an administrator enters by hand
    None,
    MaxFaults       \* bound: rejected database calls and process crashes, together

ASSUME WebhookConstants ==
    /\ Checkouts \subseteq Events /\ Unhandled \subseteq Events \ Checkouts
    /\ SessionOf \in [Checkouts -> Sessions]
    /\ Runs \cap Clerks = {}
    /\ None \notin Events \cup Sessions
    /\ IsFiniteSet(Runs)
    /\ MaxFaults \in Nat

VARIABLES
    acked,          \* events Stripe has been answered 200 for
    status,         \* processingStatus of the event's log row; "absent": no row
    attempts,       \* attempts of the event's log row
    runPc, runOf,   \* where a processEvent call is, and its event
    tx,             \* payment transactions by their creator, a run or a clerk
    faults,
    hurt            \* history: events with a status update lost or a run cut short

vars == <<acked, status, attempts, runPc, runOf, tx, faults, hurt>>

MaxAttempts == 3

NoTx == [session |-> None, orderId |-> None, deleted |-> FALSE]

Recorded(s) == \E c \in Runs \cup Clerks : tx[c].session = s

Goto(r, pc) == runPc' = [runPc EXCEPT ![r] = pc]

\* A database call rejects.
Fault == faults < MaxFaults /\ faults' = faults + 1

\* A rejection that run r swallows, with the log row left behind the facts.
Swallow(r) == Fault /\ hurt' = hurt \cup {runOf[r]}

NoFault == UNCHANGED <<faults, hurt>>

-----------------------------------------------------------------------------
(* Deliveries and retries *)

Start(r, e) ==
    /\ runPc[r] = "free"
    /\ Goto(r, "log")
    /\ runOf' = [runOf EXCEPT ![r] = e]

\* A first delivery, or another one: a 200 that Stripe got does not exclude it.
Deliver(r, e) ==
    /\ Start(r, e)
    /\ acked' = acked \cup {e}
    /\ UNCHANGED <<status, attempts, tx, faults, hurt>>

RetryEligible(e) == status[e] = "failed" /\ attempts[e] < MaxAttempts

\* retryFailedEvent on a row that getFailedEvents returned.
Retry(r, e) ==
    /\ RetryEligible(e)
    /\ Start(r, e)
    /\ UNCHANGED <<acked, status, attempts, tx, faults, hurt>>

-----------------------------------------------------------------------------
(* processEvent *)

\* The row of a known event is left as it is: the duplicate key error is ignored
\* and processing goes on all the same.
LogWebhookEvent(r) ==
    LET e == runOf[r] IN
    /\ runPc[r] = "log"
    /\ Goto(r, IF e \in Unhandled THEN "done" ELSE "begin")
    /\ \/ /\ status' = [status EXCEPT ![e] = IF @ = "absent" THEN "pending" ELSE @]
          /\ NoFault
       \/ Swallow(r) /\ UNCHANGED status
    /\ UNCHANGED <<acked, attempts, runOf, tx>>

\* Mutant: only failures count as attempts.
MutOnlyFailuresCount(r, new) ==
    LET e == runOf[r] IN
    \/ /\ status' = [status EXCEPT ![e] = IF @ = "absent" THEN @ ELSE new]
       /\ attempts' = [attempts EXCEPT ![e] =
                          IF status[e] # "absent" /\ new = "failed" THEN @ + 1 ELSE @]
       /\ NoFault
    \/ Swallow(r) /\ UNCHANGED <<status, attempts>>

\* updateProcessingStatus: no upsert, no look at the old status, every call counts as
\* an attempt, and a rejected update is swallowed.
UpdateProcessingStatus(r, new) ==
    LET e == runOf[r] IN
    \/ /\ status' = [status EXCEPT ![e] = IF @ = "absent" THEN @ ELSE new]
       /\ attempts' = [attempts EXCEPT ![e] = IF status[e] = "absent" THEN @ ELSE @ + 1]
       /\ NoFault
    \/ Swallow(r) /\ UNCHANGED <<status, attempts>>

\* Mutant: the checkout case falls through to the end of the switch.
MutSkipsCheckout(r) ==
    /\ runPc[r] = "begin"
    /\ UpdateProcessingStatus(r, "processing")
    /\ Goto(r, "complete")
    /\ UNCHANGED <<acked, runOf, tx>>

Begin(r) ==
    /\ runPc[r] = "begin"
    /\ UpdateProcessingStatus(r, "processing")
    /\ Goto(r, IF runOf[r] \in Checkouts THEN "lookup" ELSE "complete")
    /\ UNCHANGED <<acked, runOf, tx>>

\* Mutant: the test on the row that was found is the wrong way round.
MutLookupInverted(r) ==
    LET s == SessionOf[runOf[r]]
        found == \E c \in Runs \cup Clerks : tx[c].orderId = s /\ ~tx[c].deleted
    IN  /\ runPc[r] = "lookup"
        /\ \/ Goto(r, IF found THEN "create" ELSE "complete") /\ NoFault
           \/ Goto(r, "fail") /\ Fault /\ UNCHANGED hurt
        /\ UNCHANGED <<acked, status, attempts, runOf, tx>>

\* findByRevenueCatOrderId(session.id): rows are matched by order id.
Lookup(r) ==
    LET s == SessionOf[runOf[r]]
        found == \E c \in Runs \cup Clerks : tx[c].orderId = s /\ ~tx[c].deleted
    IN  /\ runPc[r] = "lookup"
        /\ \/ Goto(r, IF found THEN "complete" ELSE "create") /\ NoFault
           \/ Goto(r, "fail") /\ Fault /\ UNCHANGED hurt
        /\ UNCHANGED <<acked, status, attempts, runOf, tx>>

\* The transaction carries the session as its transactionId, no order id.  A call that
\* rejects may have stored it.
CreateTransaction(r) ==
    /\ runPc[r] = "create"
    /\ LET stored == [tx EXCEPT ![r] = [session |-> SessionOf[runOf[r]],
                                        orderId |-> None, deleted |-> FALSE]]
       IN  \/ tx' = stored /\ Goto(r, "complete") /\ NoFault
           \/ tx' \in {tx, stored} /\ Goto(r, "fail") /\ Fault /\ UNCHANGED hurt
    /\ UNCHANGED <<acked, status, attempts, runOf>>

Complete(r) ==
    /\ runPc[r] = "complete"
    /\ UpdateProcessingStatus(r, "completed")
    /\ Goto(r, "done")
    /\ UNCHANGED <<acked, runOf, tx>>

\* Mutant: the catch block only rethrows.
MutFailSilently(r) ==
    /\ runPc[r] = "fail"
    /\ Goto(r, "done")
    /\ UNCHANGED <<acked, status, attempts, runOf, tx, faults, hurt>>

\* The catch block; the rethrown error ends in the controller's console.error.
Fail(r) ==
    /\ runPc[r] = "fail"
    /\ UpdateProcessingStatus(r, "failed")
    /\ Goto(r, "done")
    /\ UNCHANGED <<acked, runOf, tx>>

-----------------------------------------------------------------------------
(* Administrators, and the process *)

\* POST /payment-transactions with the session as its revenueCatOrderId.
AdminCreate(c, s) ==
    /\ tx[c] = NoTx
    /\ tx' = [tx EXCEPT ![c] = [session |-> s, orderId |-> s, deleted |-> FALSE]]
    /\ UNCHANGED <<acked, status, attempts, runPc, runOf, faults, hurt>>

AdminDelete(c) ==
    /\ tx[c] # NoTx
    /\ tx' = [tx EXCEPT ![c].deleted = TRUE]
    /\ UNCHANGED <<acked, status, attempts, runPc, runOf, faults, hurt>>

Running(r) == runPc[r] \notin {"free", "done", "lost"}

\* The process dies with every run in it; Stripe has its 200 and nothing resumes them.
Crash ==
    /\ \E r \in Runs : Running(r)
    /\ Fault
    /\ hurt' = hurt \cup {runOf[r] : r \in {q \in Runs : Running(q)}}
    /\ runPc' = [r \in Runs |-> IF Running(r) THEN "lost" ELSE runPc[r]]
    /\ UNCHANGED <<acked, status, attempts, runOf, tx>>

-----------------------------------------------------------------------------
Init ==
    /\ acked = {} /\ hurt = {} /\ faults = 0
    /\ status = [e \in Events |-> "absent"]
    /\ attempts = [e \in Events |-> 0]
    /\ runPc = [r \in Runs |-> "free"]
    /\ runOf = [r \in Runs |-> None]
    /\ tx = [c \in Runs \cup Clerks |-> NoTx]

ProcessEvent(r) ==
    \/ LogWebhookEvent(r) \/ Begin(r) \/ Lookup(r)
    \/ CreateTransaction(r) \/ Complete(r) \/ Fail(r)

Next ==
    \/ \E r \in Runs : ProcessEvent(r) \/ \E e \in Events : Deliver(r, e) \/ Retry(r, e)
    \/ \E c \in Clerks, s \in Sessions : AdminCreate(c, s)
    \/ \E c \in Runs \cup Clerks : AdminDelete(c)
    \/ Crash

Spec == Init /\ [][Next]_vars

\* A started promise chain is resumed; nothing in the code calls Retry.
FairSpec == Spec /\ \A r \in Runs : WF_vars(ProcessEvent(r))

-----------------------------------------------------------------------------
(* Properties *)

Statuses == {"absent", "pending", "processing", "completed", "failed"}
RunPcs == {"free", "log", "begin", "lookup", "create", "complete", "fail", "done", "lost"}
Transactions == [session : Sessions \cup {None}, orderId : Sessions \cup {None},
                 deleted : BOOLEAN]

\* The type invariant of the webhook state.
TypeOK ==
    /\ acked \subseteq Events /\ hurt \subseteq Events
    /\ status \in [Events -> Statuses]
    /\ attempts \in [Events -> Nat]
    /\ runPc \in [Runs -> RunPcs]
    /\ runOf \in [Runs -> Events \cup {None}]
    /\ tx \in [Runs \cup Clerks -> Transactions]
    /\ faults \in 0..MaxFaults

\* A checkout event whose row says completed has its transaction, however its runs
\* overlapped, failed or were retried: the status is only written after the record.
CompletedIsRecorded ==
    \A e \in Checkouts : status[e] = "completed" => Recorded(SessionOf[e])

\* A row stays in pending or processing with no run left to move it on only when a crash
\* or a lost status update struck the event; a rejected lookup or create never does it.
\* (getFailedEvents does not return such a row.)
SettledUnlessHurt ==
    \A e \in Events \ Unhandled :
        /\ status[e] \in {"pending", "processing"}
        /\ \A r \in Runs : runOf[r] = e => ~Running(r)
        => e \in hurt

RunsOver(e) == {r \in Runs : runOf[r] = e /\ runPc[r] = "done"}

\* attempts counts status updates, two to a run, so that an event is offered for a retry
\* (failed, attempts < 3) at most after its first run; from the second on it no longer is.
RetryOnlyAfterFirstRun ==
    \A e \in Events :
        RetryEligible(e) /\ e \notin hurt => Cardinality(RunsOver(e)) <= 1

\* What the row of an event says can be relied on, whatever the order in which deliveries,
\* retries and status updates of one event overlap and calls fail: that it was completed, that
\* it was settled at all, and that it is to be retried.
RowTellsOutcome == CompletedIsRecorded /\ SettledUnlessHurt /\ RetryOnlyAfterFirstRun

\* What Stripe was answered 200 for is recorded or marked failed in the end, unless a
\* crash or a lost status update struck it.
AckedIsSettled ==
    \A e \in Checkouts :
        e \in acked ~> (Recorded(SessionOf[e]) \/ status[e] = "failed" \/ e \in hurt)

\* "Idempotent webhook handlers prevent race conditions during retries" (README.md:26):
\* one transaction for a checkout session.
OneTransactionPerSession ==
    \A s \in Sessions :
        Cardinality({c \in Runs : tx[c].session = s}) <= 1
=============================================================================
