------------------------- MODULE StripeWebhookProofs -------------------------
(***************************************************************************)
(* Proofs about StripeWebhook, for any events, sessions and clerks and any *)
(* finite number of processing runs.                                       *)
(***************************************************************************)
EXTENDS StripeWebhook, FiniteSetTheorems, TLAPS

\* UpdateProcessingStatus, in all its outcomes, keeps the types.
LEMMA UpdateTyped ==
  ASSUME TypeOK, NEW r \in Runs, NEW new \in Statuses, runOf[r] \in Events,
         UpdateProcessingStatus(r, new)
  PROVE  /\ status' \in [Events -> Statuses] /\ attempts' \in [Events -> Nat]
         /\ hurt' \subseteq Events /\ faults' \in 0..MaxFaults
BY WebhookConstants DEF TypeOK, UpdateProcessingStatus, NoFault, Swallow, Fault, Statuses

\* A run that has begun is about an event, and one that looks up or creates is about a
\* checkout.
RunsHaveEvents ==
    \A r \in Runs :
        /\ runPc[r] # "free" => runOf[r] \in Events
        /\ runPc[r] \in {"begin", "lookup", "create", "complete", "fail"} =>
               runOf[r] \notin Unhandled
        /\ runPc[r] \in {"lookup", "create", "fail"} => runOf[r] \in Checkouts

BaseInv == TypeOK /\ RunsHaveEvents

LEMMA BaseInit == Init => BaseInv
<1>1. 0 \in 0..MaxFaults
  BY WebhookConstants
<1> QED BY <1>1 DEF Init, BaseInv, TypeOK, RunsHaveEvents, Statuses, RunPcs, Transactions, NoTx

LEMMA BaseStep == BaseInv /\ [Next]_vars => BaseInv'
<1> SUFFICES ASSUME BaseInv, [Next]_vars PROVE BaseInv'
  OBVIOUS
<1> USE WebhookConstants DEF BaseInv, TypeOK, RunsHaveEvents, RunPcs, Goto
<1>1. ASSUME NEW r \in Runs, ProcessEvent(r) PROVE BaseInv'
  <2>1. CASE LogWebhookEvent(r)
    <3>1. status' \in [Events -> Statuses]
      BY <2>1 DEF LogWebhookEvent, NoFault, Swallow, Statuses
    <3>2. hurt' \subseteq Events /\ faults' \in 0..MaxFaults
      BY <2>1 DEF LogWebhookEvent, NoFault, Swallow, Fault
    <3> QED BY <2>1, <3>1, <3>2 DEF LogWebhookEvent
  <2>2. CASE Begin(r)
    BY <2>2, UpdateTyped DEF Begin, Statuses
  <2>3. CASE Lookup(r)
    BY <2>3 DEF Lookup, NoFault, Fault
  <2>4. CASE CreateTransaction(r)
    <3> DEFINE stored == [tx EXCEPT ![r] = [session |-> SessionOf[runOf[r]],
                                            orderId |-> None, deleted |-> FALSE]]
    <3>1. tx' \in [Runs \cup Clerks -> Transactions]
      <4>1. SessionOf[runOf[r]] \in Sessions
        BY <2>4 DEF CreateTransaction
      <4>2. stored \in [Runs \cup Clerks -> Transactions]
        BY <4>1 DEF Transactions
      <4>3. tx' = stored \/ tx' = tx
        BY <2>4 DEF CreateTransaction
      <4> QED BY <4>2, <4>3
    <3> QED BY <2>4, <3>1 DEF CreateTransaction, NoFault, Fault
  <2>5. CASE Complete(r)
    BY <2>5, UpdateTyped DEF Complete, Statuses
  <2>6. CASE Fail(r)
    BY <2>6, UpdateTyped DEF Fail, Statuses
  <2> QED BY <1>1, <2>1, <2>2, <2>3, <2>4, <2>5, <2>6 DEF ProcessEvent
<1>2. ASSUME NEW r \in Runs, NEW e \in Events, Deliver(r, e) \/ Retry(r, e) PROVE BaseInv'
  BY <1>2 DEF Deliver, Retry, Start
<1>3. ASSUME NEW c \in Clerks, NEW s \in Sessions, AdminCreate(c, s) PROVE BaseInv'
  BY <1>3 DEF AdminCreate, Transactions
<1>4. ASSUME NEW c \in Runs \cup Clerks, AdminDelete(c) PROVE BaseInv'
  <2>1. tx' = [tx EXCEPT ![c] = [tx[c] EXCEPT !.deleted = TRUE]] /\ tx[c] # NoTx
    BY <1>4 DEF AdminDelete
  <2>2. tx[c] \in Transactions
    OBVIOUS
  <2>3. [tx[c] EXCEPT !.deleted = TRUE] \in Transactions
    BY <2>1, <2>2 DEF Transactions
  <2>4. tx' \in [Runs \cup Clerks -> Transactions]
    BY <2>1, <2>3
  <2> QED BY <1>4, <2>4 DEF AdminDelete
<1>5. CASE Crash
  <2>1. hurt' \subseteq Events
    BY <1>5 DEF Crash, Running
  <2> QED BY <1>5, <2>1 DEF Crash, Fault, Running
<1>6. CASE UNCHANGED vars
  BY <1>6 DEF vars
<1> QED BY <1>1, <1>2, <1>3, <1>4, <1>5, <1>6 DEF Next

LEMMA BaseHolds == Spec => []BaseInv
BY BaseInit, BaseStep, PTL DEF Spec

\* The type invariant of the webhook state.
THEOREM TypeCorrect == Spec => []TypeOK
<1>1. BaseInv => TypeOK
  BY DEF BaseInv
<1> QED BY <1>1, BaseHolds, PTL

-----------------------------------------------------------------------------
(* A completed checkout is recorded. *)

\* A session once recorded stays recorded: a row is soft deleted at most, and a run
\* stores its row once.
RowsKept ==
    /\ \A c \in Runs \cup Clerks : tx[c].orderId # None => tx[c].orderId = tx[c].session
    /\ \A r \in Runs : runPc[r] \in {"free", "log", "begin", "lookup", "create"} =>
           tx[r].session = None

\* A checkout run gets to its last status update only with the session recorded.
RunsRecorded ==
    \A r \in Runs : runPc[r] = "complete" /\ runOf[r] \in Checkouts =>
        Recorded(SessionOf[runOf[r]])

RecordInv == BaseInv /\ RowsKept /\ RunsRecorded /\ CompletedIsRecorded

LEMMA RecordedStays ==
  ASSUME RecordInv, [Next]_vars, NEW s \in Sessions, Recorded(s)
  PROVE  Recorded(s)'
<1> USE WebhookConstants DEF RecordInv, BaseInv, TypeOK, Transactions
<1>1. PICK c \in Runs \cup Clerks : tx[c].session = s
  BY DEF Recorded
<1>2. s # None
  OBVIOUS
<1>3. ASSUME NEW r \in Runs, CreateTransaction(r) PROVE tx'[c].session = s
  <2>1. c # r
    BY <1>1, <1>2, <1>3 DEF CreateTransaction, RowsKept
  <2> QED BY <1>1, <1>3, <2>1 DEF CreateTransaction
<1>4. ASSUME NEW r \in Runs, ProcessEvent(r), ~CreateTransaction(r) PROVE tx' = tx
  BY <1>4 DEF ProcessEvent, LogWebhookEvent, Begin, Lookup, Complete, Fail
<1>5. ASSUME NEW r \in Runs, NEW e \in Events, Deliver(r, e) \/ Retry(r, e) PROVE tx' = tx
  BY <1>5 DEF Deliver, Retry
<1>6. ASSUME NEW k \in Clerks, NEW x \in Sessions, AdminCreate(k, x)
      PROVE  tx'[c].session = s
  <2>1. c # k
    BY <1>1, <1>2, <1>6 DEF AdminCreate, NoTx
  <2> QED BY <1>1, <1>6, <2>1 DEF AdminCreate
<1>7. ASSUME NEW k \in Runs \cup Clerks, AdminDelete(k) PROVE tx'[c].session = s
  BY <1>1, <1>7 DEF AdminDelete
<1>8. CASE Crash \/ UNCHANGED vars
  BY <1>1, <1>8 DEF Crash, vars, Recorded
<1>9. tx'[c].session = s
  BY <1>1, <1>3, <1>4, <1>5, <1>6, <1>7, <1>8 DEF Next, Crash, vars
<1> QED BY <1>9 DEF Recorded

LEMMA RowsKeptStep ==
  ASSUME RecordInv, [Next]_vars
  PROVE  RowsKept'
<1> USE WebhookConstants DEF RecordInv, BaseInv, TypeOK, Transactions, RowsKept, Goto
<1>1. ASSUME NEW r \in Runs, ProcessEvent(r) PROVE RowsKept'
  <2>1. CASE LogWebhookEvent(r) BY <2>1 DEF LogWebhookEvent
  <2>2. CASE Begin(r) BY <2>2 DEF Begin
  <2>3. CASE Lookup(r) BY <2>3 DEF Lookup
  <2>4. CASE CreateTransaction(r)
    <3> DEFINE row == [session |-> SessionOf[runOf[r]], orderId |-> None, deleted |-> FALSE]
    <3>1. /\ tx' \in {tx, [tx EXCEPT ![r] = row]}
          /\ runPc' \in {[runPc EXCEPT ![r] = "complete"], [runPc EXCEPT ![r] = "fail"]}
      BY <2>4 DEF CreateTransaction
    <3>2. row.orderId = None
      OBVIOUS
    <3> HIDE DEF row
    <3> QED BY <3>1, <3>2
  <2>5. CASE Complete(r) \/ Fail(r) BY <2>5 DEF Complete, Fail
  <2> QED BY <1>1, <2>1, <2>2, <2>3, <2>4, <2>5 DEF ProcessEvent
<1>2. ASSUME NEW r \in Runs, NEW e \in Events, Deliver(r, e) \/ Retry(r, e) PROVE RowsKept'
  BY <1>2 DEF Deliver, Retry, Start
<1>3. ASSUME NEW c \in Clerks, NEW s \in Sessions, AdminCreate(c, s) PROVE RowsKept'
  BY <1>3 DEF AdminCreate
<1>4. ASSUME NEW c \in Runs \cup Clerks, AdminDelete(c) PROVE RowsKept'
  BY <1>4 DEF AdminDelete
<1>5. CASE Crash BY <1>5 DEF Crash
<1>6. CASE UNCHANGED vars BY <1>6 DEF vars
<1> QED BY <1>1, <1>2, <1>3, <1>4, <1>5, <1>6 DEF Next

LEMMA RecordStep == RecordInv /\ [Next]_vars => RecordInv'
<1> SUFFICES ASSUME RecordInv, [Next]_vars PROVE RunsRecorded' /\ CompletedIsRecorded'
  BY BaseStep, RowsKeptStep DEF RecordInv
<1>1. \A e \in Checkouts : Recorded(SessionOf[e]) => Recorded(SessionOf[e])'
  BY RecordedStays, WebhookConstants
<1> USE <1>1, WebhookConstants
    DEF RecordInv, BaseInv, TypeOK, RunsHaveEvents, RunsRecorded, CompletedIsRecorded, Goto
\* A step is harmless unless it completes a run or writes the status "completed".
<1>2. ASSUME \A r \in Runs : runPc'[r] = "complete" /\ runOf'[r] \in Checkouts =>
                 \/ runPc[r] = "complete" /\ runOf[r] = runOf'[r]
                 \/ Recorded(SessionOf[runOf[r]])',
             \A e \in Checkouts : status'[e] = "completed" =>
                 status[e] = "completed" \/ Recorded(SessionOf[e])
      PROVE  RunsRecorded' /\ CompletedIsRecorded'
  <2>1. ASSUME NEW r \in Runs, runPc'[r] = "complete", runOf'[r] \in Checkouts
        PROVE  Recorded(SessionOf[runOf[r]])'
    <3>1. CASE runPc[r] = "complete" /\ runOf[r] = runOf'[r]
      <4> DEFINE e == runOf[r]
      <4>1. e \in Checkouts /\ Recorded(SessionOf[e])
        BY <2>1, <3>1
      <4>2. \E c \in Runs \cup Clerks : tx'[c].session = SessionOf[e]
        BY ONLY <1>1, <4>1 DEF Recorded
      <4> QED BY ONLY <3>1, <4>2 DEF Recorded
    <3> QED BY <1>2, <2>1, <3>1
  <2>2. ASSUME NEW e \in Checkouts, status'[e] = "completed"
        PROVE  Recorded(SessionOf[e])'
    BY <1>1, <1>2, <2>2
  <2> QED BY ONLY <2>1, <2>2 DEF RunsRecorded, CompletedIsRecorded
<1>3. ASSUME NEW r \in Runs, ProcessEvent(r) PROVE RunsRecorded' /\ CompletedIsRecorded'
  <2>1. CASE LogWebhookEvent(r)
    BY <1>2, <2>1 DEF LogWebhookEvent
  <2>2. CASE Begin(r)
    BY <1>2, <2>2 DEF Begin, UpdateProcessingStatus
  <2>3. CASE Lookup(r)
    <3>1. runOf[r] \in Checkouts /\ SessionOf[runOf[r]] # None
      BY <2>3 DEF Lookup
    <3>2. runPc'[r] = "complete" => Recorded(SessionOf[runOf[r]])
      BY <2>3, <3>1 DEF Lookup, RowsKept, Recorded
    <3> QED BY <1>2, <2>3, <3>1, <3>2 DEF Lookup
  <2>4. CASE CreateTransaction(r)
    <3>1. runPc'[r] = "complete" => tx'[r].session = SessionOf[runOf[r]]
      BY <2>4 DEF CreateTransaction
    <3>2. runPc'[r] = "complete" => Recorded(SessionOf[runOf[r]])'
      BY <2>4, <3>1 DEF CreateTransaction, Recorded
    <3> QED BY <1>2, <2>4, <3>2 DEF CreateTransaction
  <2>5. CASE Complete(r)
    BY <1>2, <2>5 DEF Complete, UpdateProcessingStatus
  <2>6. CASE Fail(r)
    BY <1>2, <2>6 DEF Fail, UpdateProcessingStatus
  <2> QED BY <1>3, <2>1, <2>2, <2>3, <2>4, <2>5, <2>6 DEF ProcessEvent
<1>4. ASSUME NEW r \in Runs, NEW e \in Events, Deliver(r, e) \/ Retry(r, e)
      PROVE  RunsRecorded' /\ CompletedIsRecorded'
  BY <1>2, <1>4 DEF Deliver, Retry, Start
<1>5. ASSUME NEW c \in Clerks, NEW s \in Sessions, AdminCreate(c, s)
      PROVE  RunsRecorded' /\ CompletedIsRecorded'
  BY <1>2, <1>5 DEF AdminCreate
<1>6. ASSUME NEW c \in Runs \cup Clerks, AdminDelete(c)
      PROVE  RunsRecorded' /\ CompletedIsRecorded'
  BY <1>2, <1>6 DEF AdminDelete
<1>7. CASE Crash
  BY <1>2, <1>7 DEF Crash
<1>8. CASE UNCHANGED vars
  BY <1>2, <1>8 DEF vars
<1> QED BY <1>3, <1>4, <1>5, <1>6, <1>7, <1>8 DEF Next

\* A checkout marked completed is recorded, however runs overlap, fail and are retried.
THEOREM CompletedAlwaysRecorded == Spec => []CompletedIsRecorded
<1>1. Init => RecordInv
  <2>1. Init => RowsKept
    BY DEF Init, RowsKept, NoTx
  <2>2. Init => RunsRecorded /\ CompletedIsRecorded
    BY WebhookConstants DEF Init, RunsRecorded, CompletedIsRecorded
  <2> QED BY BaseInit, <2>1, <2>2 DEF RecordInv
<1>2. RecordInv => CompletedIsRecorded
  BY DEF RecordInv
<1> QED BY <1>1, <1>2, RecordStep, PTL DEF Spec

-----------------------------------------------------------------------------
(* Rows left behind. *)

LEMMA SettledStep ==
  BaseInv /\ SettledUnlessHurt /\ [Next]_vars => SettledUnlessHurt'
<1> SUFFICES ASSUME BaseInv, SettledUnlessHurt, [Next]_vars,
                    NEW e \in Events \ Unhandled,
                    (status[e])' \in {"pending", "processing"},
                    (\A r \in Runs : runOf[r] = e => ~Running(r))'
             PROVE  (e \in hurt)'
  BY DEF SettledUnlessHurt
<1>1. \/ e \in hurt \/ status[e] \notin {"pending", "processing"}
      \/ \E r \in Runs : runOf[r] = e /\ Running(r)
  BY DEF SettledUnlessHurt
<1> USE WebhookConstants DEF BaseInv, TypeOK, RunsHaveEvents, Running, Goto, NoFault, Swallow,
        UpdateProcessingStatus
<1>2. ASSUME NEW r \in Runs, ProcessEvent(r) PROVE (e \in hurt)'
  <2>1. CASE LogWebhookEvent(r)
    BY <1>1, <2>1 DEF LogWebhookEvent
  <2>2. CASE Begin(r)
    BY <1>1, <2>2 DEF Begin
  <2>3. CASE Lookup(r)
    BY <1>1, <2>3 DEF Lookup
  <2>4. CASE CreateTransaction(r)
    BY <1>1, <2>4 DEF CreateTransaction
  <2>5. CASE Complete(r)
    BY <1>1, <2>5 DEF Complete
  <2>6. CASE Fail(r)
    BY <1>1, <2>6 DEF Fail
  <2> QED BY <1>2, <2>1, <2>2, <2>3, <2>4, <2>5, <2>6 DEF ProcessEvent
<1>3. ASSUME NEW r \in Runs, NEW x \in Events, Deliver(r, x) \/ Retry(r, x)
      PROVE  (e \in hurt)'
  BY <1>1, <1>3 DEF Deliver, Retry, Start
<1>4. ASSUME NEW c \in Clerks, NEW s \in Sessions, AdminCreate(c, s) PROVE (e \in hurt)'
  BY <1>1, <1>4 DEF AdminCreate
<1>5. ASSUME NEW c \in Runs \cup Clerks, AdminDelete(c) PROVE (e \in hurt)'
  BY <1>1, <1>5 DEF AdminDelete
<1>6. CASE Crash
  BY <1>1, <1>6 DEF Crash
<1>7. CASE UNCHANGED vars
  BY <1>1, <1>7 DEF vars
<1> QED BY <1>2, <1>3, <1>4, <1>5, <1>6, <1>7 DEF Next

\* A row is left pending or processing only by a crash or a lost status update.
THEOREM SettledAlways == Spec => []SettledUnlessHurt
<1>1. Init => SettledUnlessHurt
  BY DEF Init, SettledUnlessHurt
<1> QED BY <1>1, BaseHolds, SettledStep, PTL DEF Spec

-----------------------------------------------------------------------------
(* Attempts.  Every status update counts, the one a run begins with and the one it *)
(* ends with, as long as none of them is lost.                                     *)

Begun(e) == {r \in Runs : runOf[r] = e /\ runPc[r] \in {"lookup", "create", "complete", "fail"}}

\* An event whose updates all went through has its row once a run is past the log, and
\* its attempts cover what its runs did.
Counted(e) ==
    /\ \A r \in Runs : runOf[r] = e /\ runPc[r] \notin {"free", "log"} => status[e] # "absent"
    /\ attempts[e] >= 2 * Cardinality(RunsOver(e)) + Cardinality(Begun(e))

AttemptsInv ==
    /\ BaseInv
    /\ \A e \in Unhandled : status[e] \in {"absent", "pending"}
    /\ \A e \in Events \ Unhandled : e \notin hurt => Counted(e)

LEMMA RunSetsFinite ==
  ASSUME NEW e
  PROVE  /\ IsFiniteSet(RunsOver(e)) /\ Cardinality(RunsOver(e)) \in Nat
         /\ IsFiniteSet(Begun(e)) /\ Cardinality(Begun(e)) \in Nat
<1>1. RunsOver(e) \in SUBSET Runs /\ Begun(e) \in SUBSET Runs /\ IsFiniteSet(Runs)
  BY WebhookConstants DEF RunsOver, Begun
<1> QED BY <1>1, FS_Subset, FS_CardinalityType

LEMMA UnhandledStep ==
  ASSUME AttemptsInv, [Next]_vars, NEW e \in Unhandled
  PROVE  status'[e] \in {"absent", "pending"}
<1> USE WebhookConstants DEF AttemptsInv, BaseInv, TypeOK, RunsHaveEvents,
        UpdateProcessingStatus
<1>1. ASSUME NEW r \in Runs, ProcessEvent(r) PROVE status'[e] \in {"absent", "pending"}
  BY <1>1 DEF ProcessEvent, LogWebhookEvent, Begin, Lookup, CreateTransaction, Complete, Fail
<1>2. ASSUME ~\E r \in Runs : ProcessEvent(r) PROVE status' = status
  BY <1>2 DEF Next, Deliver, Retry, AdminCreate, AdminDelete, Crash, vars
<1> QED BY <1>1, <1>2

\* One more run begun, or one begun and now over: one more attempt.
LEMMA CountingStep ==
  ASSUME AttemptsInv, [Next]_vars, NEW e \in Events \ Unhandled, e \notin hurt'
  PROVE  Counted(e)'
<1> USE WebhookConstants DEF BaseInv, TypeOK, RunsHaveEvents, Goto, NoFault, Swallow
<1>1. BaseInv
  BY DEF AttemptsInv
<1>2. e \notin hurt
  BY <1>1 DEF Next, ProcessEvent, LogWebhookEvent, Begin, Lookup, CreateTransaction, Complete,
     Fail, UpdateProcessingStatus, Deliver, Retry, AdminCreate, AdminDelete, Crash, vars
<1>3. Counted(e)
  BY <1>2 DEF AttemptsInv
\* Nothing that counts has changed.
<1>4. ASSUME \A r \in Runs : runOf'[r] = e /\ runPc'[r] \notin {"free", "log"} =>
                 \/ status'[e] # "absent"
                 \/ runOf[r] = e /\ runPc[r] \notin {"free", "log"},
             status[e] # "absent" => status'[e] # "absent",
             attempts'[e] = attempts[e], RunsOver(e)' = RunsOver(e), Begun(e)' = Begun(e)
      PROVE  Counted(e)'
  BY <1>3, <1>4 DEF Counted
<1>5. ASSUME NEW r \in Runs, ProcessEvent(r), runOf[r] # e PROVE Counted(e)'
  <2>1. /\ runOf' = runOf /\ status'[e] = status[e] /\ attempts'[e] = attempts[e]
        /\ \A q \in Runs \ {r} : runPc'[q] = runPc[q]
    BY <1>1, <1>5 DEF ProcessEvent, LogWebhookEvent, Begin, Lookup, CreateTransaction,
       Complete, Fail, UpdateProcessingStatus
  <2>2. RunsOver(e)' = RunsOver(e) /\ Begun(e)' = Begun(e)
    BY <1>5, <2>1 DEF RunsOver, Begun
  <2> QED BY <1>4, <1>5, <2>1, <2>2
<1>6. ASSUME NEW r \in Runs, ProcessEvent(r), runOf[r] = e PROVE Counted(e)'
  <2>1. CASE LogWebhookEvent(r)
    <3>1. runPc' = [runPc EXCEPT ![r] = "begin"] /\ runPc[r] = "log" /\ runOf' = runOf
      BY <1>6, <2>1 DEF LogWebhookEvent
    <3>2. status'[e] # "absent" /\ attempts' = attempts
      BY <1>1, <1>2, <1>6, <2>1 DEF LogWebhookEvent
    <3>3. RunsOver(e)' = RunsOver(e) /\ Begun(e)' = Begun(e)
      BY <1>1, <3>1 DEF RunsOver, Begun
    <3> QED BY <1>4, <3>2, <3>3
  <2>2. ASSUME NEW new \in {"processing", "completed", "failed"}, runPc[r] # "log",
               runPc[r] # "free", UpdateProcessingStatus(r, new)
        PROVE  status'[e] # "absent" /\ attempts'[e] = attempts[e] + 1
    <3>1. status[e] # "absent"
      BY <1>3, <1>6, <2>2 DEF Counted
    <3> QED BY <1>1, <1>2, <1>6, <2>2, <3>1 DEF UpdateProcessingStatus
  <2>3. CASE Begin(r)
    <3>1. /\ runPc[r] = "begin" /\ runOf' = runOf
          /\ runPc' \in {[runPc EXCEPT ![r] = "lookup"], [runPc EXCEPT ![r] = "complete"]}
      BY <2>3 DEF Begin
    <3>2. r \notin Begun(e) /\ Begun(e)' = Begun(e) \cup {r} /\ RunsOver(e)' = RunsOver(e)
      BY <1>1, <1>6, <3>1 DEF Begun, RunsOver
    <3>3. Cardinality(Begun(e)') = Cardinality(Begun(e)) + 1
      BY <3>2, RunSetsFinite, FS_AddElement
    <3>4. status'[e] # "absent" /\ attempts'[e] = attempts[e] + 1
      BY <2>2, <2>3 DEF Begin
    <3> QED BY <1>1, <1>3, <3>2, <3>3, <3>4, RunSetsFinite DEF Counted
  <2>4. CASE Lookup(r) \/ CreateTransaction(r)
    <3>1. /\ runPc[r] \in {"lookup", "create"} /\ UNCHANGED <<runOf, status, attempts>>
          /\ runPc' \in {[runPc EXCEPT ![r] = "create"], [runPc EXCEPT ![r] = "complete"],
                         [runPc EXCEPT ![r] = "fail"]}
      BY <2>4 DEF Lookup, CreateTransaction
    <3>2. RunsOver(e)' = RunsOver(e) /\ Begun(e)' = Begun(e)
      BY <1>1, <3>1 DEF RunsOver, Begun
    <3> QED BY <1>1, <1>4, <3>1, <3>2
  <2>5. CASE Complete(r) \/ Fail(r)
    <3>1. /\ runPc[r] \in {"complete", "fail"} /\ runOf' = runOf
          /\ runPc' = [runPc EXCEPT ![r] = "done"]
      BY <2>5 DEF Complete, Fail
    <3>2. /\ r \in Begun(e) /\ Begun(e)' = Begun(e) \ {r}
          /\ r \notin RunsOver(e) /\ RunsOver(e)' = RunsOver(e) \cup {r}
      BY <1>1, <1>6, <3>1 DEF Begun, RunsOver
    <3>3. /\ Cardinality(Begun(e)') = Cardinality(Begun(e)) - 1
          /\ Cardinality(RunsOver(e)') = Cardinality(RunsOver(e)) + 1
      <4>1. Cardinality(Begun(e) \ {r}) = Cardinality(Begun(e)) - 1
        BY <3>2, RunSetsFinite, FS_RemoveElement
      <4>2. Cardinality(RunsOver(e) \cup {r}) = Cardinality(RunsOver(e)) + 1
        BY <3>2, RunSetsFinite, FS_AddElement
      <4> QED BY <3>2, <4>1, <4>2
    <3>4. status'[e] # "absent" /\ attempts'[e] = attempts[e] + 1
      BY <2>2, <2>5, <3>1 DEF Complete, Fail
    <3> QED BY <1>1, <1>3, <3>2, <3>3, <3>4, RunSetsFinite DEF Counted
  <2> QED BY <1>6, <2>1, <2>3, <2>4, <2>5 DEF ProcessEvent
<1>7. ASSUME NEW r \in Runs, NEW x \in Events, Deliver(r, x) \/ Retry(r, x)
      PROVE  Counted(e)'
  <2>1. /\ runPc[r] = "free" /\ runPc' = [runPc EXCEPT ![r] = "log"]
        /\ runOf' = [runOf EXCEPT ![r] = x] /\ UNCHANGED <<status, attempts>>
    BY <1>7 DEF Deliver, Retry, Start
  <2>2. RunsOver(e)' = RunsOver(e) /\ Begun(e)' = Begun(e)
    BY <1>1, <2>1 DEF RunsOver, Begun
  <2> QED BY <1>1, <1>4, <2>1, <2>2
<1>8. CASE Crash
  <2>1. \A r \in Runs : runOf[r] = e => ~Running(r)
    BY <1>8 DEF Crash
  <2>2. /\ UNCHANGED <<runOf, status, attempts>>
        /\ \A r \in Runs : runOf[r] = e => runPc'[r] = runPc[r]
    BY <1>8, <2>1 DEF Crash
  <2>3. RunsOver(e)' = RunsOver(e) /\ Begun(e)' = Begun(e)
    BY <2>2 DEF RunsOver, Begun
  <2> QED BY <1>4, <2>2, <2>3
<1>9. ASSUME UNCHANGED <<runPc, runOf, status, attempts>> PROVE Counted(e)'
  <2>1. RunsOver(e)' = RunsOver(e) /\ Begun(e)' = Begun(e)
    BY <1>9 DEF RunsOver, Begun
  <2> QED BY <1>4, <1>9, <2>1
<1> QED BY <1>5, <1>6, <1>7, <1>8, <1>9 DEF Next, AdminCreate, AdminDelete, vars

LEMMA AttemptsInit == Init => AttemptsInv
<1> SUFFICES ASSUME Init, NEW e \in Events \ Unhandled PROVE Counted(e)
  BY BaseInit, WebhookConstants DEF Init, AttemptsInv
<1>1. RunsOver(e) = {} /\ Begun(e) = {} /\ attempts[e] = 0
  BY DEF Init, RunsOver, Begun
<1>2. \A r \in Runs : runPc[r] = "free"
  BY DEF Init
<1> QED BY <1>1, <1>2, FS_EmptySet DEF Counted

LEMMA AttemptsStep == AttemptsInv /\ [Next]_vars => AttemptsInv'
<1> SUFFICES ASSUME AttemptsInv, [Next]_vars PROVE AttemptsInv'
  OBVIOUS
<1>1. BaseInv'
  BY BaseStep DEF AttemptsInv
<1>2. \A e \in Unhandled : status'[e] \in {"absent", "pending"}
  BY UnhandledStep
<1>3. \A e \in Events \ Unhandled : e \notin hurt' => Counted(e)'
  BY CountingStep
<1> QED BY <1>1, <1>2, <1>3 DEF AttemptsInv

\* An event is offered for a retry after its first run at most.
THEOREM RetryAlwaysAfterFirst == Spec => []RetryOnlyAfterFirstRun
<1>1. AttemptsInv => RetryOnlyAfterFirstRun
  <2> SUFFICES ASSUME AttemptsInv, NEW e \in Events, RetryEligible(e), e \notin hurt
               PROVE  Cardinality(RunsOver(e)) <= 1
    BY DEF RetryOnlyAfterFirstRun
  <2>1. status[e] = "failed" /\ attempts[e] < 3
    BY DEF RetryEligible, MaxAttempts
  <2>2. Counted(e)
    BY <2>1 DEF AttemptsInv
  <2>3. attempts[e] \in Nat
    BY DEF AttemptsInv, BaseInv, TypeOK
  <2> QED BY <2>1, <2>2, <2>3, RunSetsFinite DEF Counted
<1> QED BY <1>1, AttemptsInit, AttemptsStep, PTL DEF Spec

\* The row of an event tells what became of it: the three facts above at once.
THEOREM RowAlwaysTells == Spec => []RowTellsOutcome
BY CompletedAlwaysRecorded, SettledAlways, RetryAlwaysAfterFirst, PTL DEF RowTellsOutcome
=============================================================================
