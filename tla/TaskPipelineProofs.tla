-------------------------- MODULE TaskPipelineProofs --------------------------
(***************************************************************************)
(* Proofs about TaskPipeline, for every set of tasks, replicas, events,    *)
(* every retry limit, time-out, batch size and number of failures.         *)
(***************************************************************************)
EXTENDS TaskPipeline, TLAPS

-----------------------------------------------------------------------------
(* Type correctness.                                                        *)

\* A step of a running handler keeps the handlers well typed.
LEMMA GotoType ==
    ASSUME HandlersOK, NEW r \in Replica, pc[r] # "idle",
           NEW step \in Step \ {"idle"}, Goto(r, step)
    PROVE  HandlersOK'
  BY DEF HandlersOK, Goto

\* Letting go of a delivery keeps the handlers well typed.
LEMMA FinishType ==
    ASSUME HandlersOK, NEW r \in Replica, Finish(r)
    PROVE  HandlersOK'
  BY BoundAssumption DEF HandlersOK, Finish, Step

\* A handler that runs holds a message.
LEMMA HeldMessage ==
    ASSUME HandlersOK, NEW r \in Replica, pc[r] # "idle"
    PROVE  held[r] \in Message
  BY DEF HandlersOK

\* A failure, or none, keeps the count of failures within its bound.
LEMMA FaultType ==
    ASSUME faultsLeft \in 0..MaxFaults, NEW kind, Fault(kind) \/ NoFault
    PROVE  faultsLeft' \in 0..MaxFaults
  BY BoundAssumption DEF Fault, NoFault

\* A publish keeps the broker well typed.
LEMMA PublishType ==
    ASSUME BrokerOK, NEW t \in Task, Publish(t)
    PROVE  BrokerOK'
<1>1. PICK e \in Event :
         /\ queue' = [queue EXCEPT ![[event |-> e, task |-> t, retries |-> 0]] = @ + 1]
         /\ markers' = markers \ {e}
         /\ dlq' = dlq
  BY DEF Publish
<1>2. [event |-> e, task |-> t, retries |-> 0] \in Message
  BY BoundAssumption DEF Message
<1>3. queue' \in [Message -> Nat]
  BY <1>1, <1>2 DEF BrokerOK
<1>4. QED
  BY <1>1, <1>3 DEF BrokerOK

\* UpdateStatus keeps the rows well typed.
LEMMA UpdateStatusType ==
    ASSUME RowsOK, NEW t \in Task, NEW s \in Status, UpdateStatus(t, s)
    PROVE  RowsOK'
  BY BoundAssumption DEF RowsOK, UpdateStatus

\* MarkProcessing keeps the rows well typed.
LEMMA MarkProcessingType ==
    ASSUME RowsOK, NEW t \in Task, MarkProcessing(t)
    PROVE  RowsOK'
  BY BoundAssumption DEF RowsOK, MarkProcessing, Status

\* The initial state is well typed.
LEMMA InitType == Init => TypeOK
  BY BoundAssumption
  DEF Init, TypeOK, RowsOK, BrokerOK, HandlersOK, Status, Step, Message, Row

\* Every step of a handler keeps the state well typed.
LEMMA HandlerStepType ==
    ASSUME TypeOK, NEW r \in Replica, HandlerStep(r)
    PROVE  TypeOK'
<1> USE DEF TypeOK
<1>1. CASE Claim(r)
  <2>1. held[r] \in Message
    BY <1>1, HeldMessage DEF Claim
  <2>2. HandlersOK'
    BY <1>1, GotoType DEF Claim, Step
  <2>3. BrokerOK'
    BY <1>1, <2>1 DEF Claim, BrokerOK, Message
  <2>4. RowsOK' /\ publishing' = publishing /\ batch' = batch
    BY <1>1 DEF Claim, RowsOK, rows
  <2>5. faultsLeft' \in 0..MaxFaults
    BY <1>1, FaultType DEF Claim, CallFails
  <2>6. QED
    BY <2>2, <2>3, <2>4, <2>5
<1>2. CASE BeginProcessing(r)
  <2>1. held[r].task \in Task
    BY <1>2, HeldMessage DEF BeginProcessing, Message
  <2>2. HandlersOK'
    BY <1>2, GotoType DEF BeginProcessing, Step
  <2>3. RowsOK'
    BY <1>2, <2>1, MarkProcessingType DEF BeginProcessing, RowsOK, rows
  <2>4. BrokerOK' /\ publishing' = publishing /\ batch' = batch
    BY <1>2 DEF BeginProcessing, BrokerOK, broker
  <2>5. faultsLeft' \in 0..MaxFaults
    BY <1>2, FaultType DEF BeginProcessing, CallFails
  <2>6. QED
    BY <2>2, <2>3, <2>4, <2>5
<1>3. CASE Summarize(r)
  <2>1. HandlersOK'
    BY <1>3, GotoType DEF Summarize, Step
  <2>2. RowsOK' /\ BrokerOK' /\ publishing' = publishing /\ batch' = batch
    BY <1>3 DEF Summarize, RowsOK, rows, BrokerOK, broker
  <2>3. faultsLeft' \in 0..MaxFaults
    BY <1>3, FaultType DEF Summarize, CallFails
  <2>4. QED
    BY <2>1, <2>2, <2>3
<1>4. CASE ApplySummary(r)
  <2>1. held[r].task \in Task
    BY <1>4, HeldMessage DEF ApplySummary, Message
  <2>2. HandlersOK'
    BY <1>4, GotoType DEF ApplySummary, Step
  <2>3. RowsOK'
    BY <1>4, <2>1, UpdateStatusType DEF ApplySummary, RowsOK, rows, Status
  <2>4. BrokerOK' /\ publishing' = publishing /\ batch' = batch
    BY <1>4 DEF ApplySummary, BrokerOK, broker
  <2>5. faultsLeft' \in 0..MaxFaults
    BY <1>4, FaultType DEF ApplySummary, CallFails
  <2>6. QED
    BY <2>2, <2>3, <2>4, <2>5
<1>5. CASE Release(r)
  <2>1. HandlersOK'
    BY <1>5, GotoType DEF Release, Step
  <2>2. BrokerOK'
    BY <1>5 DEF Release, BrokerOK
  <2>3. RowsOK' /\ publishing' = publishing /\ batch' = batch
    BY <1>5 DEF Release, RowsOK, rows
  <2>4. faultsLeft' \in 0..MaxFaults
    BY <1>5, FaultType DEF Release, CallFails
  <2>5. QED
    BY <2>1, <2>2, <2>3, <2>4
<1>6. CASE MarkPending(r)
  <2>1. held[r].task \in Task
    BY <1>6, HeldMessage DEF MarkPending, Message
  <2>2. HandlersOK'
    BY <1>6, GotoType DEF MarkPending, Step
  <2>3. RowsOK'
    BY <1>6, <2>1, UpdateStatusType DEF MarkPending, RowsOK, rows, Status
  <2>4. BrokerOK' /\ publishing' = publishing /\ batch' = batch
    BY <1>6 DEF MarkPending, BrokerOK, broker
  <2>5. faultsLeft' \in 0..MaxFaults
    BY <1>6, FaultType DEF MarkPending, CallFails
  <2>6. QED
    BY <2>2, <2>3, <2>4, <2>5
<1>7. CASE RetryOrDeadLetter(r)
  <2>1. held[r] \in Message
    BY <1>7, HeldMessage DEF RetryOrDeadLetter
  <2>2. HandlersOK'
    BY <1>7, GotoType, FinishType DEF RetryOrDeadLetter, DeadLetter, Step
  <2>3. queue' \in [Message -> Nat]
    <3>1. held[r].retries < MaxRetries => [held[r] EXCEPT !.retries = @ + 1] \in Message
      BY <2>1, BoundAssumption DEF Message
    <3>2. QED
      BY <1>7, <3>1 DEF RetryOrDeadLetter, DeadLetter, BrokerOK, broker
  <2>4. dlq' \subseteq Task \X (0..MaxRetries)
    <3>1. <<held[r].task, held[r].retries>> \in Task \X (0..MaxRetries)
      BY <2>1 DEF Message
    <3>2. dlq' = dlq \/ dlq' = dlq \cup {<<held[r].task, held[r].retries>>}
      BY <1>7 DEF RetryOrDeadLetter, DeadLetter, broker
    <3>3. QED
      BY <3>1, <3>2 DEF BrokerOK
  <2>5. markers' = markers /\ RowsOK' /\ publishing' = publishing /\ batch' = batch
    BY <1>7 DEF RetryOrDeadLetter, DeadLetter, RowsOK, rows, broker
  <2>6. faultsLeft' \in 0..MaxFaults
    BY <1>7, FaultType DEF RetryOrDeadLetter
  <2>7. QED
    BY <2>2, <2>3, <2>4, <2>5, <2>6 DEF BrokerOK
<1>8. CASE Ack(r)
  <2>1. HandlersOK'
    BY <1>8, FinishType DEF Ack
  <2>2. QED
    BY <1>8, <2>1 DEF Ack, RowsOK, rows, BrokerOK, broker
<1>9. QED
  BY <1>1, <1>2, <1>3, <1>4, <1>5, <1>6, <1>7, <1>8 DEF HandlerStep

\* Every step of a reconciler keeps the state well typed.
LEMMA ReconcilerStepType ==
    ASSUME TypeOK, NEW c \in Reconciler, ReconcilerStep(c)
    PROVE  TypeOK'
<1> USE DEF TypeOK
<1>1. CASE Sweep(c)
  <2>1. FindStale \subseteq Row
    <3>1. \A t \in Task : Stale(t) => [task |-> t, status |-> status[t]] \in Row
      BY DEF Stale, Row
    <3>2. QED
      BY <3>1 DEF FindStale
  <2>2. batch' \in [Reconciler -> SUBSET Row]
    BY <1>1, <2>1 DEF Sweep
  <2>3. QED
    BY <1>1, <2>2
    DEF Sweep, RowsOK, rows, BrokerOK, broker, HandlersOK, handlers
<1>2. ASSUME NEW row \in Row, ResetStranded(c, row)
      PROVE  TypeOK'
  <2>1. row.task \in Task /\ [row EXCEPT !.status = "pending"] \in Row
    BY DEF Row
  <2>2. RowsOK'
    BY <1>2, <2>1, UpdateStatusType DEF ResetStranded, RowsOK, rows, Status
  <2>3. batch' \in [Reconciler -> SUBSET Row]
    BY <1>2, <2>1 DEF ResetStranded, DropRow
  <2>4. faultsLeft' \in 0..MaxFaults
    BY <1>2, FaultType DEF ResetStranded
  <2>5. BrokerOK' /\ HandlersOK' /\ publishing' = publishing
    BY <1>2 DEF ResetStranded, BrokerOK, broker, HandlersOK, handlers
  <2>6. QED
    BY <2>2, <2>3, <2>4, <2>5
<1>3. ASSUME NEW row \in Row, RepublishCreated(c, row)
      PROVE  TypeOK'
  <2>1. BrokerOK'
    BY <1>3, PublishType DEF RepublishCreated, BrokerOK, broker, Row
  <2>2. batch' \in [Reconciler -> SUBSET Row]
    BY <1>3 DEF RepublishCreated, DropRow
  <2>3. faultsLeft' \in 0..MaxFaults
    BY <1>3, FaultType DEF RepublishCreated
  <2>4. RowsOK' /\ HandlersOK' /\ publishing' = publishing
    BY <1>3 DEF RepublishCreated, RowsOK, rows, HandlersOK, handlers
  <2>5. QED
    BY <2>1, <2>2, <2>3, <2>4
<1>4. QED
  BY <1>1, <1>2, <1>3 DEF ReconcilerStep

\* Requests, deliveries, failures and time keep the state well typed.
LEMMA EnvironmentType ==
    ASSUME TypeOK,
           \/ \E r \in Replica, t \in Task : Create(r, t) \/ PublishCreated(r, t)
           \/ \E t \in Task : Delete(t)
           \/ \E r \in Replica, m \in Message : Deliver(r, m)
           \/ \E r \in Replica : Crash(r) \/ ChannelLost(r)
           \/ \E e \in Event : ForgetMarker(e)
           \/ Tick
    PROVE  TypeOK'
<1> USE DEF TypeOK
<1>1. ASSUME NEW r \in Replica, NEW t \in Task, Create(r, t)
      PROVE  TypeOK'
  <2>1. RowsOK'
    BY <1>1 DEF Create, RowsOK, Status
  <2>2. publishing' \subseteq Replica \X Task
    BY <1>1 DEF Create
  <2>3. faultsLeft' \in 0..MaxFaults
    BY <1>1, FaultType DEF Create
  <2>4. BrokerOK' /\ HandlersOK' /\ batch' = batch
    BY <1>1 DEF Create, BrokerOK, broker, HandlersOK, handlers
  <2>5. QED
    BY <2>1, <2>2, <2>3, <2>4
<1>2. ASSUME NEW r \in Replica, NEW t \in Task, PublishCreated(r, t)
      PROVE  TypeOK'
  <2>1. BrokerOK'
    BY <1>2, PublishType DEF PublishCreated, BrokerOK, broker
  <2>2. faultsLeft' \in 0..MaxFaults
    BY <1>2, FaultType DEF PublishCreated
  <2>3. RowsOK' /\ HandlersOK' /\ batch' = batch
    BY <1>2 DEF PublishCreated, RowsOK, rows, HandlersOK, handlers
  <2>4. QED
    BY <1>2, <2>1, <2>2, <2>3 DEF PublishCreated
<1>3. ASSUME NEW t \in Task, Delete(t)
      PROVE  TypeOK'
  BY <1>3 DEF Delete, RowsOK, Status, BrokerOK, broker, HandlersOK, handlers
<1>4. ASSUME NEW r \in Replica, NEW m \in Message, Deliver(r, m)
      PROVE  TypeOK'
  <2>1. queue' \in [Message -> Nat]
    BY <1>4 DEF Deliver, BrokerOK
  <2>2. m # NoMessage
    BY NoMessageAssumption DEF Message
  <2>3. HandlersOK'
    BY <1>4, <2>2 DEF Deliver, HandlersOK, Step
  <2>4. QED
    BY <1>4, <2>1, <2>3 DEF Deliver, BrokerOK, RowsOK, rows
<1>5. ASSUME NEW r \in Replica, Crash(r)
      PROVE  TypeOK'
  <2>1. queue' \in [Message -> Nat]
    BY <1>5 DEF Crash, Requeue, BrokerOK, HandlersOK
  <2>2. HandlersOK'
    BY <1>5, FinishType DEF Crash
  <2>3. faultsLeft' \in 0..MaxFaults
    BY <1>5, FaultType DEF Crash
  <2>4. batch' \in [Reconciler -> SUBSET Row] /\ publishing' \subseteq Replica \X Task
    BY <1>5 DEF Crash
  <2>5. QED
    BY <1>5, <2>1, <2>2, <2>3, <2>4 DEF Crash, BrokerOK, RowsOK, rows
<1>6. ASSUME NEW r \in Replica, ChannelLost(r)
      PROVE  TypeOK'
  <2>1. queue' \in [Message -> Nat]
    BY <1>6 DEF ChannelLost, Requeue, BrokerOK, HandlersOK
  <2>2. HandlersOK'
    BY <1>6 DEF ChannelLost, HandlersOK
  <2>3. faultsLeft' \in 0..MaxFaults
    BY <1>6, FaultType DEF ChannelLost
  <2>4. QED
    BY <1>6, <2>1, <2>2, <2>3 DEF ChannelLost, BrokerOK, RowsOK, rows
<1>7. ASSUME NEW e \in Event, ForgetMarker(e)
      PROVE  TypeOK'
  <2>1. faultsLeft' \in 0..MaxFaults
    BY <1>7, FaultType DEF ForgetMarker
  <2>2. QED
    BY <1>7, <2>1 DEF ForgetMarker, BrokerOK, RowsOK, rows, HandlersOK, handlers
<1>8. CASE Tick
  <2>1. RowsOK'
    BY <1>8, BoundAssumption DEF Tick, RowsOK, Older
  <2>2. HandlersOK'
    BY <1>8, BoundAssumption DEF Tick, HandlersOK, Older
  <2>3. faultsLeft' \in 0..MaxFaults
    BY <1>8, FaultType DEF Tick
  <2>4. QED
    BY <1>8, <2>1, <2>2, <2>3 DEF Tick, BrokerOK, broker
<1>9. QED
  BY <1>1, <1>2, <1>3, <1>4, <1>5, <1>6, <1>7, <1>8

\* Every step keeps the state well typed.
LEMMA NextType == TypeOK /\ [Next]_vars => TypeOK'
<1> SUFFICES ASSUME TypeOK, [Next]_vars PROVE TypeOK'
  OBVIOUS
<1>1. CASE UNCHANGED vars
  BY <1>1 DEF TypeOK, vars, RowsOK, rows, BrokerOK, broker, HandlersOK, handlers
<1>2. CASE Next
  BY <1>2, HandlerStepType, ReconcilerStepType, EnvironmentType DEF Next
<1>3. QED
  BY <1>1, <1>2

\* Type correctness of the pipeline, and that a consumer holds a delivery
\* exactly while its handler runs: no path of retryOrDeadLetter or of the
\* worker leaves a delivery behind, whatever fails.
THEOREM TypeCorrect == Spec => []TypeOK
  BY InitType, NextType, PTL DEF Spec

-----------------------------------------------------------------------------
(* The claim on a task: PipelineInv is inductive in a SafeDeployment.       *)

\* The claims that can still act are among those of the state before.
OwnersShrink ==
    \A r \in Replica, t \in Task : Owns(r, t)' => Owns(r, t) /\ elapsed'[r] = elapsed[r]

\* The rows reconcilers will reset are among those of the state before.
SnapshotsShrink ==
    \A c \in Reconciler : \A row \in batch'[c] :
        row.status = "processing" => row \in batch[c]

\* A row keeps its status, or is deleted, or is nobody's: no claim on it can
\* act and no reconciler will reset it.
RowsKeptOrFree ==
    \A t \in Task :
        \/ status'[t] = status[t] /\ updatedAge'[t] = updatedAge[t]
        \/ status'[t] = "deleted"
        \/ /\ \A r \in Replica : ~Owns(r, t)'
           /\ \A c \in Reconciler : \A row \in batch'[c] :
                  row.status = "processing" => row.task # t

\* A step that adds no claim and no row to reset, and touches only such rows,
\* preserves the invariant.
LEMMA Preserved ==
    ASSUME PipelineInv, TypeOK', OwnersShrink, SnapshotsShrink, RowsKeptOrFree
    PROVE  PipelineInv'
<1>1. SingleOwner'
  BY DEF PipelineInv, SingleOwner, OwnersShrink
<1>2. ClaimBacked'
  <2> SUFFICES ASSUME NEW r \in Replica, NEW t \in Task, Owns(r, t)'
               PROVE  /\ status'[t] \in {"processing", "deleted"}
                      /\ status'[t] = "processing" => updatedAge'[t] <= elapsed'[r]
    BY DEF ClaimBacked
  <2>1. Owns(r, t) /\ elapsed'[r] = elapsed[r]
    BY DEF OwnersShrink
  <2>2. QED
    BY <2>1 DEF RowsKeptOrFree, PipelineInv, ClaimBacked
<1>3. SnapshotAbandoned'
  <2> SUFFICES ASSUME NEW c \in Reconciler, NEW row \in batch'[c],
                      row.status = "processing"
               PROVE  /\ status'[row.task] \in {"processing", "deleted"}
                      /\ \A r \in Replica : ~Owns(r, row.task)'
    BY DEF SnapshotAbandoned
  <2>1. row \in batch[c] /\ row.task \in Task
    BY DEF SnapshotsShrink, TypeOK, PipelineInv, Row
  <2>2. status[row.task] \in {"processing", "deleted"} /\ \A r \in Replica : ~Owns(r, row.task)
    BY <2>1 DEF PipelineInv, SnapshotAbandoned
  <2>3. status'[row.task] \in {"processing", "deleted"}
    BY <2>1, <2>2 DEF RowsKeptOrFree
  <2>4. QED
    BY <2>1, <2>2, <2>3 DEF OwnersShrink
<1>4. QED
  BY <1>1, <1>2, <1>3 DEF PipelineInv

\* The initial state satisfies the invariant.
LEMMA InitInv == Init => PipelineInv
<1> SUFFICES ASSUME Init PROVE PipelineInv
  OBVIOUS
<1>1. \A r \in Replica, t \in Task : ~Owns(r, t)
  BY DEF Init, Owns
<1>2. QED
  BY <1>1, InitType DEF Init, PipelineInv, SingleOwner, ClaimBacked, SnapshotAbandoned

\* Steps of a handler preserve the invariant.
LEMMA HandlerStepInv ==
    ASSUME PipelineInv, TypeOK', SafeDeployment, NEW r \in Replica, HandlerStep(r)
    PROVE  PipelineInv'
<1> DEFINE t == held[r].task
<1>a. TypeOK
  BY DEF PipelineInv
<1>b. pc[r] # "idle" => t \in Task
  BY <1>a, HeldMessage DEF TypeOK, Message
<1>c. ~Fault("ambiguous")
  BY DEF SafeDeployment, Fault
<1>1. CASE Claim(r)
  <2>1. OwnersShrink
    BY <1>1, <1>a DEF Claim, Goto, OwnersShrink, Owns, Live, TypeOK, HandlersOK
  <2>2. SnapshotsShrink /\ RowsKeptOrFree
    BY <1>1 DEF Claim, rows, SnapshotsShrink, RowsKeptOrFree
  <2>3. QED
    BY <2>1, <2>2, Preserved
<1>2. CASE BeginProcessing(r)
  <2>1. CASE Live(r) /\ Claimable(t) /\ MarkProcessing(t) /\ Goto(r, "summarize")
    <3>1. status[t] = "pending" /\ t \in Task
      BY <1>2, <1>b, <2>1 DEF Claimable, BeginProcessing
    <3>2. status' = [status EXCEPT ![t] = "processing"] /\ updatedAge' = [updatedAge EXCEPT ![t] = 0]
      BY <2>1 DEF MarkProcessing
    <3>3. batch' = batch /\ held' = held /\ elapsed' = elapsed /\ pc' = [pc EXCEPT ![r] = "summarize"]
      BY <1>2, <2>1 DEF BeginProcessing, Goto
    <3>4. \A q \in Replica : ~Owns(q, t)
      BY <3>1 DEF PipelineInv, ClaimBacked
    <3>5. \A q \in Replica, u \in Task :
             Owns(q, u)' => (q = r /\ u = t) \/ (q # r /\ u # t /\ Owns(q, u))
      BY <1>a, <3>3, <3>4 DEF Owns, Live, TypeOK, HandlersOK
    <3>6. SingleOwner'
      BY <3>5 DEF PipelineInv, SingleOwner
    <3>7. ClaimBacked'
      <4>1. elapsed'[r] \in Nat
        BY <1>a, <3>3 DEF TypeOK, HandlersOK
      <4>2. status'[t] = "processing" /\ updatedAge'[t] = 0
        BY <1>a, <3>1, <3>2 DEF TypeOK, RowsOK
      <4>3. \A u \in Task : u # t => status'[u] = status[u] /\ updatedAge'[u] = updatedAge[u]
        BY <1>a, <3>2 DEF TypeOK, RowsOK
      <4>4. QED
        BY <3>3, <3>5, <4>1, <4>2, <4>3 DEF PipelineInv, ClaimBacked
    <3>8. SnapshotAbandoned'
      <4> SUFFICES ASSUME NEW c \in Reconciler, NEW row \in batch[c],
                          row.status = "processing"
                   PROVE  /\ status'[row.task] \in {"processing", "deleted"}
                          /\ \A q \in Replica : ~Owns(q, row.task)'
        BY <3>3 DEF SnapshotAbandoned
      <4>1. /\ row.task \in Task
            /\ status[row.task] \in {"processing", "deleted"}
            /\ \A q \in Replica : ~Owns(q, row.task)
        BY <1>a DEF PipelineInv, SnapshotAbandoned, TypeOK, Row
      <4>2. row.task # t
        BY <3>1, <4>1
      <4>3. QED
        BY <1>a, <3>2, <3>5, <4>1, <4>2 DEF TypeOK, RowsOK
    <3>9. QED
      BY <3>6, <3>7, <3>8 DEF PipelineInv
  <2>2. CASE UNCHANGED rows /\ \E step \in {"ack", "retry"} : Goto(r, step)
    <3>1. OwnersShrink
      BY <1>a, <2>2 DEF Goto, OwnersShrink, Owns, Live, TypeOK, HandlersOK
    <3>2. SnapshotsShrink /\ RowsKeptOrFree
      BY <1>2, <2>2 DEF BeginProcessing, rows, SnapshotsShrink, RowsKeptOrFree
    <3>3. QED
      BY <3>1, <3>2, Preserved
  <2>3. QED
    BY <1>2, <1>c, <2>1, <2>2 DEF BeginProcessing
<1>3. CASE Summarize(r)
  <2>1. OwnersShrink
    BY <1>3, <1>a DEF Summarize, Goto, OwnersShrink, Owns, Live, TypeOK, HandlersOK
  <2>2. SnapshotsShrink /\ RowsKeptOrFree
    BY <1>3 DEF Summarize, rows, SnapshotsShrink, RowsKeptOrFree
  <2>3. QED
    BY <2>1, <2>2, Preserved
<1>4. CASE ApplySummary(r)
  <2>1. OwnersShrink
    BY <1>4, <1>a DEF ApplySummary, Goto, OwnersShrink, Owns, Live, TypeOK, HandlersOK
  <2>2. SnapshotsShrink
    BY <1>4 DEF ApplySummary, SnapshotsShrink
  <2>3. RowsKeptOrFree
    <3>1. CASE Live(r) /\ UpdateStatus(t, "completed") /\ Goto(r, "ack")
      <4>1. PICK u \in Task : u = t /\ Owns(r, u)
        BY <1>4, <1>b, <3>1 DEF ApplySummary, Owns
      <4>2. \A q \in Replica : ~Owns(q, u)'
        <5>1. ~Owns(r, u)'
          BY <3>1, <1>a DEF Goto, Owns, TypeOK, HandlersOK
        <5>2. \A q \in Replica : Owns(q, u)' => q = r
          BY <2>1, <4>1 DEF PipelineInv, SingleOwner, OwnersShrink
        <5>3. QED
          BY <5>1, <5>2
      <4>3. \A c \in Reconciler : \A row \in batch'[c] : row.status = "processing" => row.task # u
        BY <2>2, <4>1 DEF PipelineInv, SnapshotAbandoned, SnapshotsShrink
      <4>4. \A v \in Task \ {u} : status'[v] = status[v] /\ updatedAge'[v] = updatedAge[v]
        BY <1>a, <3>1, <4>1 DEF UpdateStatus, TypeOK, RowsOK
      <4>5. QED
        BY <4>2, <4>3, <4>4 DEF RowsKeptOrFree
    <3>2. CASE UNCHANGED rows
      BY <3>2 DEF rows, RowsKeptOrFree
    <3>3. QED
      BY <1>4, <1>c, <3>1, <3>2 DEF ApplySummary
  <2>4. QED
    BY <2>1, <2>2, <2>3, Preserved
<1>5. CASE Release(r)
  <2>1. OwnersShrink
    BY <1>5, <1>a DEF Release, Goto, OwnersShrink, Owns, Live, TypeOK, HandlersOK
  <2>2. SnapshotsShrink /\ RowsKeptOrFree
    BY <1>5 DEF Release, rows, SnapshotsShrink, RowsKeptOrFree
  <2>3. QED
    BY <2>1, <2>2, Preserved
<1>6. CASE MarkPending(r)
  <2>1. OwnersShrink
    BY <1>6, <1>a DEF MarkPending, Goto, OwnersShrink, Owns, Live, TypeOK, HandlersOK
  <2>2. SnapshotsShrink
    BY <1>6 DEF MarkPending, SnapshotsShrink
  <2>3. RowsKeptOrFree
    <3>1. CASE Live(r) /\ UpdateStatus(t, "pending")
      <4>1. PICK u \in Task : u = t /\ Owns(r, u)
        BY <1>6, <1>b, <3>1 DEF MarkPending, Owns
      <4>2. \A q \in Replica : ~Owns(q, u)'
        <5>1. ~Owns(r, u)'
          BY <1>6, <1>a DEF MarkPending, Goto, Owns, TypeOK, HandlersOK
        <5>2. \A q \in Replica : Owns(q, u)' => q = r
          BY <2>1, <4>1 DEF PipelineInv, SingleOwner, OwnersShrink
        <5>3. QED
          BY <5>1, <5>2
      <4>3. \A c \in Reconciler : \A row \in batch'[c] : row.status = "processing" => row.task # u
        BY <2>2, <4>1 DEF PipelineInv, SnapshotAbandoned, SnapshotsShrink
      <4>4. \A v \in Task \ {u} : status'[v] = status[v] /\ updatedAge'[v] = updatedAge[v]
        BY <1>a, <3>1, <4>1 DEF UpdateStatus, TypeOK, RowsOK
      <4>5. QED
        BY <4>2, <4>3, <4>4 DEF RowsKeptOrFree
    <3>2. CASE UNCHANGED rows
      BY <3>2 DEF rows, RowsKeptOrFree
    <3>3. QED
      BY <1>6, <3>1, <3>2 DEF MarkPending
  <2>4. QED
    BY <2>1, <2>2, <2>3, Preserved
<1>7. CASE RetryOrDeadLetter(r)
  <2>1. OwnersShrink
    BY <1>7, <1>a
    DEF RetryOrDeadLetter, DeadLetter, Goto, Finish, OwnersShrink, Owns, Live, TypeOK, HandlersOK
  <2>2. SnapshotsShrink /\ RowsKeptOrFree
    BY <1>7 DEF RetryOrDeadLetter, rows, SnapshotsShrink, RowsKeptOrFree
  <2>3. QED
    BY <2>1, <2>2, Preserved
<1>8. CASE Ack(r)
  <2>1. OwnersShrink
    BY <1>8, <1>a DEF Ack, Finish, OwnersShrink, Owns, Live, TypeOK, HandlersOK
  <2>2. SnapshotsShrink /\ RowsKeptOrFree
    BY <1>8 DEF Ack, rows, SnapshotsShrink, RowsKeptOrFree
  <2>3. QED
    BY <2>1, <2>2, Preserved
<1>9. QED
  BY <1>1, <1>2, <1>3, <1>4, <1>5, <1>6, <1>7, <1>8 DEF HandlerStep

\* Steps of the one reconciler preserve the invariant: what it finds stale has
\* no worker left, and nothing changes that until it resets the row.
LEMMA ReconcilerStepInv ==
    ASSUME PipelineInv, TypeOK', SafeDeployment, NEW c \in Reconciler, ReconcilerStep(c)
    PROVE  PipelineInv'
<1>a. TypeOK
  BY DEF PipelineInv
<1>b. UNCHANGED handlers
  BY DEF ReconcilerStep, Sweep, ResetStranded, RepublishCreated
<1>c. \A r \in Replica, t \in Task : Owns(r, t)' <=> Owns(r, t)
  BY <1>b DEF handlers, Owns, Live
<1>d. OwnersShrink
  BY <1>b, <1>c DEF handlers, OwnersShrink
<1>1. CASE Sweep(c)
  <2>1. status' = status /\ updatedAge' = updatedAge /\ elapsed' = elapsed
    BY <1>1, <1>b DEF Sweep, rows, handlers
  <2>2. SingleOwner' /\ ClaimBacked'
    BY <1>c, <2>1 DEF PipelineInv, SingleOwner, ClaimBacked
  <2>3. \A row \in FindStale : row.status = "processing" =>
           /\ row.task \in Task
           /\ status[row.task] = "processing"
           /\ updatedAge[row.task] > ProcessingTimeout
    <3>1. \A row \in FindStale : \E t \in Task :
              Stale(t) /\ row = [task |-> t, status |-> status[t]]
      BY DEF FindStale
    <3>2. QED
      BY <3>1 DEF Stale
  <2>4. \A row \in FindStale : row.status = "processing" =>
           \A r \in Replica : ~Owns(r, row.task)
    <3> SUFFICES ASSUME NEW row \in FindStale, row.status = "processing",
                        NEW r \in Replica, Owns(r, row.task)
                 PROVE  FALSE
      OBVIOUS
    <3>1. updatedAge[row.task] <= elapsed[r]
      BY <2>3 DEF PipelineInv, ClaimBacked
    <3>2. elapsed[r] < HandlerTimeout
      BY DEF Owns, Live
    <3>3. QED
      BY <1>a, <2>3, <3>1, <3>2, BoundAssumption
      DEF SafeDeployment, TypeOK, RowsOK, HandlersOK
  <2>5. SnapshotAbandoned'
    <3> SUFFICES ASSUME NEW d \in Reconciler, NEW row \in batch'[d],
                        row.status = "processing"
                 PROVE  /\ status'[row.task] \in {"processing", "deleted"}
                        /\ \A r \in Replica : ~Owns(r, row.task)'
      BY DEF SnapshotAbandoned
    <3>1. row \in FindStale
      BY <1>1, <1>a DEF Sweep, SafeDeployment, TypeOK
    <3>2. QED
      BY <1>c, <2>1, <2>3, <2>4, <3>1
  <2>6. QED
    BY <2>2, <2>5 DEF PipelineInv
<1>2. ASSUME NEW row \in Row, ResetStranded(c, row)
      PROVE  PipelineInv'
  <2>1. row \in batch[c] /\ row.status = "processing" /\ row.task \in Task
    BY <1>2 DEF ResetStranded, Oldest, Row
  <2>2. \A other \in batch'[c] : other.status = "processing" => other \in batch[c] /\ other # row
    BY <1>2, <1>a, <2>1 DEF ResetStranded, DropRow, TypeOK, Row
  <2>3. SnapshotsShrink
    BY <2>2 DEF SafeDeployment, SnapshotsShrink
  <2>4. \A d \in Reconciler : \A other \in batch'[d] :
           other.status = "processing" => other.task # row.task
    <3> SUFFICES ASSUME NEW other \in batch'[c], other.status = "processing"
                 PROVE  other.task # row.task
      BY DEF SafeDeployment
    <3>1. other \in Row /\ other # row
      BY <1>a, <2>2 DEF TypeOK
    <3>2. QED
      BY <2>1, <3>1 DEF Row
  <2>5. \A r \in Replica : ~Owns(r, row.task)'
    BY <1>c, <2>1 DEF PipelineInv, SnapshotAbandoned
  <2>6. \A u \in Task \ {row.task} : status'[u] = status[u] /\ updatedAge'[u] = updatedAge[u]
    BY <1>2, <1>a DEF ResetStranded, UpdateStatus, rows, TypeOK, RowsOK
  <2>7. RowsKeptOrFree
    BY <2>4, <2>5, <2>6 DEF RowsKeptOrFree
  <2>8. QED
    BY <1>d, <2>3, <2>7, Preserved
<1>3. ASSUME NEW row \in Row, RepublishCreated(c, row)
      PROVE  PipelineInv'
  <2>1. SnapshotsShrink
    BY <1>3, <1>a DEF RepublishCreated, DropRow, SnapshotsShrink, TypeOK
  <2>2. RowsKeptOrFree
    BY <1>3 DEF RepublishCreated, rows, RowsKeptOrFree
  <2>3. QED
    BY <1>d, <2>1, <2>2, Preserved
<1>4. QED
  BY <1>1, <1>2, <1>3 DEF ReconcilerStep

\* Time preserves the invariant: a row and the delivery that claimed it age
\* together.
LEMMA TickInv ==
    ASSUME PipelineInv, TypeOK', Tick
    PROVE  PipelineInv'
<1>a. TypeOK
  BY DEF PipelineInv
<1>1. \A r \in Replica, t \in Task : Owns(r, t)' => Owns(r, t) /\ elapsed'[r] = elapsed[r] + 1
  <2> SUFFICES ASSUME NEW r \in Replica, NEW t \in Task, Owns(r, t)'
               PROVE  Owns(r, t) /\ elapsed'[r] = elapsed[r] + 1
    OBVIOUS
  <2>1. pc[r] \in {"summarize", "apply", "release", "reset"} /\ held[r].task = t
    BY DEF Tick, Owns
  <2>2. elapsed'[r] = Older(elapsed[r], HandlerTimeout)
    BY <2>1 DEF Tick
  <2>3. elapsed'[r] < HandlerTimeout
    BY DEF Owns, Live
  <2>4. elapsed[r] \in Nat /\ HandlerTimeout \in Nat
    BY <1>a, BoundAssumption DEF TypeOK, HandlersOK
  <2>5. elapsed'[r] = elapsed[r] + 1 /\ elapsed[r] < HandlerTimeout
    BY <2>2, <2>3, <2>4 DEF Older
  <2>6. QED
    BY <2>1, <2>5 DEF Owns, Live
<1>2. status' = status /\ batch' = batch
  BY DEF Tick
<1>3. SingleOwner'
  BY <1>1 DEF PipelineInv, SingleOwner
<1>4. SnapshotAbandoned'
  BY <1>1, <1>2, <1>a DEF PipelineInv, SnapshotAbandoned, TypeOK, Row
<1>5. ClaimBacked'
  <2> SUFFICES ASSUME NEW r \in Replica, NEW t \in Task, Owns(r, t)'
               PROVE  /\ status'[t] \in {"processing", "deleted"}
                      /\ status'[t] = "processing" => updatedAge'[t] <= elapsed'[r]
    BY DEF ClaimBacked
  <2>1. /\ status[t] \in {"processing", "deleted"}
        /\ status[t] = "processing" => updatedAge[t] <= elapsed[r]
        /\ elapsed'[r] = elapsed[r] + 1
    BY <1>1 DEF PipelineInv, ClaimBacked
  <2>2. updatedAge[t] \in Nat /\ elapsed[r] \in Nat
    BY <1>a, BoundAssumption DEF TypeOK, RowsOK, HandlersOK
  <2>3. updatedAge'[t] <= updatedAge[t] + 1
    BY <2>2, BoundAssumption DEF Tick, Older
  <2>4. updatedAge'[t] \in Nat
    BY BoundAssumption DEF TypeOK, RowsOK
  <2>5. QED
    BY <1>2, <2>1, <2>2, <2>3, <2>4
<1>6. QED
  BY <1>3, <1>4, <1>5 DEF PipelineInv

\* Requests, deliveries and failures preserve the invariant.
LEMMA EnvironmentInv ==
    ASSUME PipelineInv, TypeOK', SafeDeployment,
           \/ \E r \in Replica, t \in Task : Create(r, t) \/ PublishCreated(r, t)
           \/ \E t \in Task : Delete(t)
           \/ \E r \in Replica, m \in Message : Deliver(r, m)
           \/ \E r \in Replica : Crash(r) \/ ChannelLost(r)
           \/ \E e \in Event : ForgetMarker(e)
    PROVE  PipelineInv'
<1>a. TypeOK
  BY DEF PipelineInv
<1>1. ASSUME NEW r \in Replica, NEW t \in Task, Create(r, t)
      PROVE  PipelineInv'
  <2>1. OwnersShrink /\ SnapshotsShrink
    BY <1>1 DEF Create, handlers, OwnersShrink, SnapshotsShrink, Owns, Live
  <2>2. status[t] = "absent"
    BY <1>1 DEF Create
  <2>3. \A q \in Replica : ~Owns(q, t)
    BY <2>2 DEF PipelineInv, ClaimBacked
  <2>4. \A c \in Reconciler : \A row \in batch'[c] : row.status = "processing" => row.task # t
    BY <2>1, <2>2 DEF PipelineInv, SnapshotAbandoned, SnapshotsShrink
  <2>5. \A u \in Task \ {t} : status'[u] = status[u] /\ updatedAge'[u] = updatedAge[u]
    BY <1>1, <1>a DEF Create, TypeOK, RowsOK
  <2>6. RowsKeptOrFree
    BY <2>1, <2>3, <2>4, <2>5 DEF RowsKeptOrFree, OwnersShrink
  <2>7. QED
    BY <2>1, <2>6, Preserved
<1>2. ASSUME NEW r \in Replica, NEW t \in Task, PublishCreated(r, t)
      PROVE  PipelineInv'
  <2>1. OwnersShrink /\ SnapshotsShrink /\ RowsKeptOrFree
    BY <1>2
    DEF PublishCreated, rows, handlers, OwnersShrink, SnapshotsShrink, RowsKeptOrFree, Owns, Live
  <2>2. QED
    BY <2>1, Preserved
<1>3. ASSUME NEW t \in Task, Delete(t)
      PROVE  PipelineInv'
  <2>1. OwnersShrink /\ SnapshotsShrink
    BY <1>3 DEF Delete, handlers, OwnersShrink, SnapshotsShrink, Owns, Live
  <2>2. RowsKeptOrFree
    BY <1>3, <1>a DEF Delete, RowsKeptOrFree, TypeOK, RowsOK
  <2>3. QED
    BY <2>1, <2>2, Preserved
<1>4. ASSUME NEW r \in Replica, NEW m \in Message, Deliver(r, m)
      PROVE  PipelineInv'
  <2>1. OwnersShrink
    BY <1>4, <1>a DEF Deliver, OwnersShrink, Owns, Live, TypeOK, HandlersOK
  <2>2. SnapshotsShrink /\ RowsKeptOrFree
    BY <1>4 DEF Deliver, rows, SnapshotsShrink, RowsKeptOrFree
  <2>3. QED
    BY <2>1, <2>2, Preserved
<1>5. ASSUME NEW r \in Replica, Crash(r)
      PROVE  PipelineInv'
  <2>1. OwnersShrink
    BY <1>5, <1>a DEF Crash, Finish, OwnersShrink, Owns, Live, TypeOK, HandlersOK
  <2>2. SnapshotsShrink /\ RowsKeptOrFree
    BY <1>5 DEF Crash, rows, SnapshotsShrink, RowsKeptOrFree
  <2>3. QED
    BY <2>1, <2>2, Preserved
<1>6. ASSUME NEW r \in Replica, ChannelLost(r)
      PROVE  PipelineInv'
  <2>1. OwnersShrink /\ SnapshotsShrink /\ RowsKeptOrFree
    BY <1>6
    DEF ChannelLost, rows, OwnersShrink, SnapshotsShrink, RowsKeptOrFree, Owns, Live
  <2>2. QED
    BY <2>1, Preserved
<1>7. ASSUME NEW e \in Event, ForgetMarker(e)
      PROVE  PipelineInv'
  <2>1. OwnersShrink /\ SnapshotsShrink /\ RowsKeptOrFree
    BY <1>7
    DEF ForgetMarker, rows, handlers, OwnersShrink, SnapshotsShrink, RowsKeptOrFree, Owns, Live
  <2>2. QED
    BY <2>1, Preserved
<1>8. QED
  BY <1>1, <1>2, <1>3, <1>4, <1>5, <1>6, <1>7

\* Every step preserves the invariant.
LEMMA NextInv == SafeDeployment /\ PipelineInv /\ [Next]_vars => PipelineInv'
<1> SUFFICES ASSUME SafeDeployment, PipelineInv, [Next]_vars PROVE PipelineInv'
  OBVIOUS
<1>1. TypeOK'
  BY NextType DEF PipelineInv
<1>2. CASE UNCHANGED vars
  <2>1. OwnersShrink /\ SnapshotsShrink /\ RowsKeptOrFree
    BY <1>2
    DEF vars, rows, handlers, OwnersShrink, SnapshotsShrink, RowsKeptOrFree, Owns, Live
  <2>2. QED
    BY <1>1, <2>1, Preserved
<1>3. CASE Next
  BY <1>1, <1>3, HandlerStepInv, ReconcilerStepInv, TickInv, EnvironmentInv DEF Next
<1>4. QED
  BY <1>2, <1>3

\* In a SafeDeployment the inductive invariant holds throughout.
THEOREM InvariantHolds ==
    ASSUME SafeDeployment
    PROVE  Spec => []PipelineInv
<1>1. PipelineInv /\ [Next]_vars => PipelineInv'
  BY NextInv
<1>2. QED
  BY <1>1, InitInv, PTL DEF Spec

\* BeginProcessing's guard: in a SafeDeployment no two workers that can still
\* act ever own one task, whatever crashes, duplicates, retries, lost channels
\* and forgotten markers happen.
THEOREM SingleOwnerHolds ==
    ASSUME SafeDeployment
    PROVE  Spec => []SingleOwner
<1>1. PipelineInv => SingleOwner
  BY DEF PipelineInv
<1>2. QED
  BY <1>1, InvariantHolds, PTL

\* What one step may do to a completed row: delete it.
LEMMA CompletedStep ==
    ASSUME SafeDeployment, PipelineInv, [Next]_vars, NEW t \in Task, status[t] = "completed"
    PROVE  status'[t] \in {"completed", "deleted"}
<1>a. TypeOK
  BY DEF PipelineInv
<1>b. ~Fault("ambiguous")
  BY DEF SafeDeployment, Fault
<1>c. \A r \in Replica : ~Owns(r, t)
  BY DEF PipelineInv, ClaimBacked
<1>1. ASSUME NEW r \in Replica, HandlerStep(r)
      PROVE  status'[t] = status[t]
  <2>1. CASE BeginProcessing(r)
    BY <2>1, <1>a DEF BeginProcessing, Claimable, MarkProcessing, rows, TypeOK, RowsOK
  <2>2. CASE ApplySummary(r)
    <3>1. Live(r) => held[r].task # t
      BY <2>2, <1>c DEF ApplySummary, Owns
    <3>2. QED
      BY <2>2, <1>a, <1>b, <3>1 DEF ApplySummary, UpdateStatus, rows, TypeOK, RowsOK
  <2>3. CASE MarkPending(r)
    <3>1. Live(r) => held[r].task # t
      BY <2>3, <1>c DEF MarkPending, Owns
    <3>2. QED
      BY <2>3, <1>a, <3>1 DEF MarkPending, UpdateStatus, rows, TypeOK, RowsOK
  <2>4. CASE Claim(r) \/ Summarize(r) \/ Release(r) \/ RetryOrDeadLetter(r) \/ Ack(r)
    BY <2>4 DEF Claim, Summarize, Release, RetryOrDeadLetter, Ack, rows
  <2>5. QED
    BY <1>1, <2>1, <2>2, <2>3, <2>4 DEF HandlerStep
<1>2. ASSUME NEW c \in Reconciler, ReconcilerStep(c)
      PROVE  status'[t] = status[t]
  <2>1. ASSUME NEW row \in Row, ResetStranded(c, row)
        PROVE  status'[t] = status[t]
    <3>1. row.task # t
      BY <2>1 DEF ResetStranded, Oldest, PipelineInv, SnapshotAbandoned
    <3>2. QED
      BY <2>1, <1>a, <3>1 DEF ResetStranded, UpdateStatus, rows, TypeOK, RowsOK
  <2>2. QED
    BY <1>2, <2>1 DEF ReconcilerStep, Sweep, RepublishCreated, rows
<1>3. CASE \E r \in Replica, u \in Task : Create(r, u) \/ PublishCreated(r, u)
  BY <1>3, <1>a DEF Create, PublishCreated, rows, TypeOK, RowsOK
<1>4. CASE \E u \in Task : Delete(u)
  BY <1>4, <1>a DEF Delete, TypeOK, RowsOK
<1>5. CASE \/ \E r \in Replica, m \in Message : Deliver(r, m)
           \/ \E r \in Replica : Crash(r) \/ ChannelLost(r)
           \/ \E e \in Event : ForgetMarker(e)
           \/ Tick
           \/ UNCHANGED vars
  BY <1>5 DEF Deliver, Crash, ChannelLost, ForgetMarker, Tick, vars, rows
<1>6. QED
  BY <1>1, <1>2, <1>3, <1>4, <1>5 DEF Next

\* The unconditional UpdateStatus never takes completed work back in a
\* SafeDeployment: a late worker is out of time, and a reconciler's row is
\* still the abandoned one it read.
THEOREM CompletedIsFinalHolds ==
    ASSUME SafeDeployment
    PROVE  Spec => CompletedIsFinal
<1>1. PipelineInv /\ [Next]_vars =>
        [\A t \in Task : status[t] = "completed" => status'[t] \in {"completed", "deleted"}]_vars
  BY CompletedStep
<1>2. QED
  BY <1>1, InvariantHolds, PTL DEF Spec, CompletedIsFinal

\* The row a claim rests on stays in processing and ages no faster than the
\* delivery.
THEOREM ClaimBackedHolds ==
    ASSUME SafeDeployment
    PROVE  Spec => []ClaimBacked
<1>1. PipelineInv => ClaimBacked
  BY DEF PipelineInv
<1>2. QED
  BY <1>1, InvariantHolds, PTL

\* What the sweep has read as processing is still abandoned when its turn comes.
THEOREM SnapshotAbandonedHolds ==
    ASSUME SafeDeployment
    PROVE  Spec => []SnapshotAbandoned
<1>1. PipelineInv => SnapshotAbandoned
  BY DEF PipelineInv
<1>2. QED
  BY <1>1, InvariantHolds, PTL

-----------------------------------------------------------------------------
(* No rework before the first failure.                                      *)

\* A step after which no failure has happened is none, and follows none.
LEMMA NoFaultYet ==
    ASSUME TypeOK, Next, faultsLeft' = MaxFaults
    PROVE  faultsLeft = MaxFaults /\ \A kind : ~Fault(kind)
<1>1. \A kind : ~Fault(kind)
  BY BoundAssumption DEF Fault, TypeOK
<1>2. faultsLeft' = faultsLeft
  <2>1. ASSUME NEW r \in Replica, HandlerStep(r) PROVE faultsLeft' = faultsLeft
    BY <1>1, <2>1
    DEF HandlerStep, Claim, BeginProcessing, Summarize, ApplySummary, Release, MarkPending,
        RetryOrDeadLetter, Ack, CallFails, NoFault
  <2>2. ASSUME NEW c \in Reconciler, ReconcilerStep(c) PROVE faultsLeft' = faultsLeft
    BY <1>1, <2>2 DEF ReconcilerStep, Sweep, ResetStranded, RepublishCreated, NoFault
  <2>3. QED
    BY <1>1, <2>1, <2>2
    DEF Next, Create, PublishCreated, Delete, Deliver, Crash, ChannelLost, ForgetMarker, Tick, NoFault
<1>3. QED
  BY <1>1, <1>2

\* A handler's step, none of whose calls fails, keeps work unbroken.
LEMMA HandlerWork ==
    ASSUME TypeOK, WorkUnbroken, faultsLeft = MaxFaults, \A kind : ~Fault(kind),
           NEW r \in Replica, HandlerStep(r)
    PROVE  WorkUnbroken'
<1> DEFINE t == held[r].task
<1>a. \A q \in Replica : Live(q)
  BY DEF WorkUnbroken
<1>b. \A q \in Replica : pc[q] \in {"release", "reset"} => held[q].task \in Poison
  BY DEF WorkUnbroken
<1>c. \A u \in Task : status[u] = "processing" => \E q \in Replica : Owns(q, u)
  BY DEF WorkUnbroken
<1>d. \A kind : ~CallFails(r, kind)
  BY <1>a DEF CallFails
<1>1. CASE Claim(r) \/ Summarize(r) \/ Release(r)
  <2>1. PICK step \in Step : Goto(r, step) /\ UNCHANGED rows
    BY <1>1, <1>d DEF Claim, Summarize, Release, Step
  <2>2. \A q \in Replica : Live(q)'
    BY <1>a, <2>1 DEF Goto, Live
  <2>3. \A q \in Replica : pc'[q] \in {"release", "reset"} => held'[q].task \in Poison
    BY <1>1, <1>b, <1>d DEF Claim, Summarize, Release, Goto, TypeOK, HandlersOK
  <2>4. \A q \in Replica, u \in Task : Owns(q, u) => Owns(q, u)'
    BY <1>1, <1>d, <2>2 DEF Claim, Summarize, Release, Goto, Owns, TypeOK, HandlersOK
  <2>5. QED
    BY <1>c, <2>1, <2>2, <2>3, <2>4 DEF WorkUnbroken, rows
<1>2. CASE BeginProcessing(r)
  <2>1. CASE Claimable(t) /\ MarkProcessing(t) /\ Goto(r, "summarize")
    <3>1. \A q \in Replica : Live(q)'
      BY <1>a, <2>1 DEF Goto, Live
    <3>2. \A q \in Replica : pc'[q] \in {"release", "reset"} => held'[q].task \in Poison
      BY <1>b, <2>1 DEF Goto, TypeOK, HandlersOK
    <3>3. \A q \in Replica, u \in Task : Owns(q, u) => Owns(q, u)'
      BY <1>2, <2>1, <3>1 DEF BeginProcessing, Goto, Owns, TypeOK, HandlersOK
    <3>4. \A u \in Task : u = t => Owns(r, u)'
      BY <2>1, <3>1 DEF Goto, Owns, TypeOK, HandlersOK
    <3>5. \A u \in Task : u # t => status'[u] = status[u]
      BY <2>1 DEF MarkProcessing, TypeOK, RowsOK
    <3>6. QED
      BY <1>c, <3>1, <3>2, <3>3, <3>4, <3>5 DEF WorkUnbroken
  <2>2. CASE UNCHANGED rows /\ Goto(r, "ack")
    <3>1. \A q \in Replica : Live(q)'
      BY <1>a, <2>2 DEF Goto, Live
    <3>2. \A q \in Replica : pc'[q] \in {"release", "reset"} => held'[q].task \in Poison
      BY <1>b, <2>2 DEF Goto, TypeOK, HandlersOK
    <3>3. \A q \in Replica, u \in Task : Owns(q, u) => Owns(q, u)'
      BY <1>2, <2>2, <3>1 DEF BeginProcessing, Goto, Owns, TypeOK, HandlersOK
    <3>4. QED
      BY <1>c, <2>2, <3>1, <3>2, <3>3 DEF WorkUnbroken, rows
  <2>3. QED
    BY <1>2, <1>d, <2>1, <2>2 DEF BeginProcessing
<1>3. CASE ApplySummary(r) \/ MarkPending(r)
  <2>1. PICK s \in {"completed", "pending"}, step \in {"ack", "retry"} :
           UpdateStatus(t, s) /\ Goto(r, step)
    BY <1>3, <1>d, <1>a DEF ApplySummary, MarkPending
  <2>2. \A q \in Replica : Live(q)'
    BY <1>a, <2>1 DEF Goto, Live
  <2>3. \A q \in Replica : pc'[q] \in {"release", "reset"} => held'[q].task \in Poison
    BY <1>b, <2>1 DEF Goto, TypeOK, HandlersOK
  <2>4. \A q \in Replica, u \in Task : u # t /\ Owns(q, u) => Owns(q, u)'
    BY <2>1, <2>2 DEF Goto, Owns, TypeOK, HandlersOK
  <2>5. \A u \in Task : status'[u] = "processing" => u # t /\ status[u] = "processing"
    BY <2>1 DEF UpdateStatus, Exists, TypeOK, RowsOK
  <2>6. QED
    BY <1>c, <2>2, <2>3, <2>4, <2>5 DEF WorkUnbroken
<1>4. CASE RetryOrDeadLetter(r) \/ Ack(r)
  <2>1. (Goto(r, "ack") \/ Finish(r)) /\ UNCHANGED rows
    BY <1>4 DEF RetryOrDeadLetter, DeadLetter, Ack
  <2>2. \A q \in Replica : Live(q)'
    BY <1>a, <2>1, BoundAssumption DEF Goto, Finish, Live, TypeOK, HandlersOK
  <2>3. \A q \in Replica : pc'[q] \in {"release", "reset"} => held'[q].task \in Poison
    BY <1>b, <2>1 DEF Goto, Finish, TypeOK, HandlersOK
  <2>4. \A q \in Replica, u \in Task : Owns(q, u) => Owns(q, u)'
    BY <1>4, <2>1, <2>2 DEF RetryOrDeadLetter, Ack, Goto, Finish, Owns, TypeOK, HandlersOK
  <2>5. QED
    BY <1>c, <2>1, <2>2, <2>3, <2>4 DEF WorkUnbroken, rows
<1>5. QED
  BY <1>1, <1>2, <1>3, <1>4 DEF HandlerStep

\* Until the first failure work is unbroken.
LEMMA WorkStep ==
    ASSUME TypeOK, WorkUnbroken, [Next]_vars
    PROVE  WorkUnbroken'
<1> SUFFICES ASSUME Next, faultsLeft' = MaxFaults PROVE WorkUnbroken'
  <2>1. CASE UNCHANGED vars
    BY <2>1 DEF vars, rows, handlers, WorkUnbroken, Owns, Live
  <2>2. QED
    BY <2>1 DEF WorkUnbroken
<1>a. faultsLeft = MaxFaults /\ \A kind : ~Fault(kind)
  BY NoFaultYet
<1>b. /\ \A q \in Replica : Live(q)
      /\ \A q \in Replica : pc[q] \in {"release", "reset"} => held[q].task \in Poison
      /\ \A u \in Task : status[u] = "processing" => \E q \in Replica : Owns(q, u)
  BY <1>a DEF WorkUnbroken
<1>1. ASSUME NEW r \in Replica, HandlerStep(r) PROVE WorkUnbroken'
  BY <1>a, <1>1, HandlerWork
<1>2. CASE UNCHANGED handlers /\ \A u \in Task : status'[u] = "processing" => status[u] = "processing"
  BY <1>b, <1>2 DEF WorkUnbroken, handlers, Owns, Live
<1>3. ASSUME NEW c \in Reconciler, ReconcilerStep(c) PROVE WorkUnbroken'
  <2>1. UNCHANGED handlers
    BY <1>3 DEF ReconcilerStep, Sweep, ResetStranded, RepublishCreated
  <2>2. \A u \in Task : status'[u] = "processing" => status[u] = "processing"
    BY <1>3
    DEF ReconcilerStep, Sweep, ResetStranded, RepublishCreated, UpdateStatus, rows, TypeOK, RowsOK
  <2>3. QED
    BY <1>2, <2>1, <2>2
<1>4. CASE \E r \in Replica, u \in Task : Create(r, u) \/ PublishCreated(r, u)
  BY <1>2, <1>4 DEF Create, PublishCreated, rows, TypeOK, RowsOK
<1>5. CASE \E u \in Task : Delete(u)
  BY <1>2, <1>5 DEF Delete, TypeOK, RowsOK
<1>6. ASSUME NEW r \in Replica, NEW m \in Message, Deliver(r, m) PROVE WorkUnbroken'
  <2>1. \A q \in Replica : Live(q)'
    BY <1>b, <1>6 DEF Deliver, Live
  <2>2. \A q \in Replica : pc'[q] \in {"release", "reset"} => held'[q].task \in Poison
    BY <1>b, <1>6 DEF Deliver, TypeOK, HandlersOK
  <2>3. \A q \in Replica, u \in Task : Owns(q, u) => Owns(q, u)'
    BY <1>6, <2>1 DEF Deliver, Owns, TypeOK, HandlersOK
  <2>4. QED
    BY <1>b, <1>6, <2>1, <2>2, <2>3 DEF WorkUnbroken, Deliver, rows
<1>7. CASE Tick
  <2>1. \A q \in Replica : ~(pc[q] # "idle" /\ elapsed[q] + 1 = HandlerTimeout)
    BY <1>7, <1>a DEF Tick
  <2>2. \A q \in Replica : Live(q)'
    BY <1>7, <1>b, <2>1, BoundAssumption DEF Tick, Live, Older, TypeOK, HandlersOK
  <2>3. \A q \in Replica, u \in Task : Owns(q, u) => Owns(q, u)'
    BY <1>7, <2>2 DEF Tick, Owns
  <2>4. QED
    BY <1>b, <1>7, <2>2, <2>3 DEF WorkUnbroken, Tick
<1>8. CASE \/ \E r \in Replica : Crash(r) \/ ChannelLost(r)
           \/ \E e \in Event : ForgetMarker(e)
  BY <1>8, <1>a DEF Crash, ChannelLost, ForgetMarker
<1>9. QED
  BY <1>1, <1>3, <1>4, <1>5, <1>6, <1>7, <1>8 DEF Next

\* What one step does to a row somebody works on, before the first failure.
LEMMA NoReworkStep ==
    ASSUME SafeDeployment, PipelineInv, WorkUnbroken, Next, faultsLeft' = MaxFaults,
           NEW t \in Task \ Poison, status[t] = "processing"
    PROVE  status'[t] # "pending"
<1>a. TypeOK
  BY DEF PipelineInv
<1>b. faultsLeft = MaxFaults
  BY <1>a, NoFaultYet
<1>c. \E q \in Replica : Owns(q, t)
  BY <1>b DEF WorkUnbroken
<1>1. ASSUME NEW r \in Replica, HandlerStep(r)
      PROVE  status'[t] # "pending"
  <2>1. CASE MarkPending(r)
    <3>1. held[r].task # t
      BY <1>b, <2>1 DEF MarkPending, WorkUnbroken
    <3>2. QED
      BY <2>1, <1>a, <3>1 DEF MarkPending, UpdateStatus, rows, TypeOK, RowsOK
  <2>2. CASE BeginProcessing(r) \/ ApplySummary(r)
    BY <2>2, <1>a
    DEF BeginProcessing, Claimable, MarkProcessing, ApplySummary, UpdateStatus, rows, TypeOK, RowsOK
  <2>3. CASE Claim(r) \/ Summarize(r) \/ Release(r) \/ RetryOrDeadLetter(r) \/ Ack(r)
    BY <2>3 DEF Claim, Summarize, Release, RetryOrDeadLetter, Ack, rows
  <2>4. QED
    BY <1>1, <2>1, <2>2, <2>3 DEF HandlerStep
<1>2. ASSUME NEW c \in Reconciler, ReconcilerStep(c)
      PROVE  status'[t] # "pending"
  <2>1. ASSUME NEW row \in Row, ResetStranded(c, row)
        PROVE  status'[t] # "pending"
    <3>1. row.task # t
      BY <1>c, <2>1 DEF ResetStranded, Oldest, PipelineInv, SnapshotAbandoned
    <3>2. QED
      BY <2>1, <1>a, <3>1 DEF ResetStranded, UpdateStatus, rows, TypeOK, RowsOK
  <2>2. QED
    BY <1>2, <2>1 DEF ReconcilerStep, Sweep, RepublishCreated, rows
<1>3. CASE \E r \in Replica, u \in Task : Create(r, u) \/ PublishCreated(r, u)
  BY <1>3, <1>a DEF Create, PublishCreated, rows, TypeOK, RowsOK
<1>4. CASE \E u \in Task : Delete(u)
  BY <1>4, <1>a DEF Delete, TypeOK, RowsOK
<1>5. CASE \/ \E r \in Replica, m \in Message : Deliver(r, m)
           \/ \E r \in Replica : Crash(r) \/ ChannelLost(r)
           \/ \E e \in Event : ForgetMarker(e)
           \/ Tick
  BY <1>5 DEF Deliver, Crash, ChannelLost, ForgetMarker, Tick, rows
<1>6. QED
  BY <1>1, <1>2, <1>3, <1>4, <1>5 DEF Next

\* However slow the queue and however often the sweep republishes a task, work
\* in flight is not done again before something has failed.
THEOREM NoReworkHolds ==
    ASSUME SafeDeployment
    PROVE  Spec => NoRework
<1>1. Init => WorkUnbroken
  BY BoundAssumption DEF Init, WorkUnbroken, Live
<1>2. TypeOK /\ WorkUnbroken /\ [Next]_vars => WorkUnbroken'
  BY WorkStep
<1>3. PipelineInv /\ WorkUnbroken /\ [Next]_vars =>
        [\A t \in Task \ Poison :
            (faultsLeft' = MaxFaults /\ status[t] = "processing") => status'[t] # "pending"]_vars
  BY NoReworkStep
<1>4. QED
  BY <1>1, <1>2, <1>3, InvariantHolds, TypeCorrect, PTL DEF Spec, NoRework
=============================================================================
