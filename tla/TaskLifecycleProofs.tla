------------------------- MODULE TaskLifecycleProofs -------------------------
(***************************************************************************)
(* TaskPipeline implements TaskLifecycle under SafeDeployment: initial     *)
(* states map to initial states, and every step that satisfies the         *)
(* inductive invariant maps to a step of the abstract life or a stutter.   *)
(***************************************************************************)
EXTENDS TaskPipelineProofs

\* A step that keeps the rows and creates no claim is one in which claims end.
LEMMA ClaimsLapse ==
    ASSUME SingleOwner, UNCHANGED status,
           \A r \in Replica, t \in Task : Owns(r, t)' => Owns(r, t)
    PROVE  Lifecycle!LifecycleNext
<1> DEFINE lost == {t \in Task : \A r \in Replica : ~Owns(r, t)'}
<1>1. ASSUME NEW t \in Task
      PROVE  {r \in Replica : Owns(r, t)'} = IF t \in lost THEN {} ELSE {r \in Replica : Owns(r, t)}
  <2>1. CASE t \in lost
    BY <2>1
  <2>2. CASE t \notin lost
    <3>1. PICK q \in Replica : Owns(q, t)'
      BY <2>2
    <3>2. \A r \in Replica : Owns(r, t) => r = q
      BY <3>1 DEF SingleOwner
    <3>3. \A r \in Replica : Owns(r, t)' <=> Owns(r, t)
      BY <3>1, <3>2
    <3>4. QED
      BY <2>2, <3>3
  <2>3. QED
    BY <2>1, <2>2
<1>2. Lifecycle!Abandon(lost)
  BY <1>1 DEF Lifecycle!Abandon
<1>3. QED
  BY <1>2 DEF Lifecycle!LifecycleNext

\* A handler's step that keeps the rows creates no claim: the claim is made
\* with the row.
LEMMA HandlerLapse ==
    ASSUME TypeOK, NEW r \in Replica, HandlerStep(r), UNCHANGED rows,
           BeginProcessing(r) => ~Goto(r, "summarize")
    PROVE  \A q \in Replica, t \in Task : Owns(q, t)' => Owns(q, t)
<1>1. CASE Claim(r)
  BY <1>1 DEF Claim, Goto, Owns, Live, TypeOK, HandlersOK
<1>2. CASE BeginProcessing(r)
  BY <1>2 DEF BeginProcessing, Goto, Owns, Live, TypeOK, HandlersOK
<1>3. CASE Summarize(r)
  BY <1>3 DEF Summarize, Goto, Owns, Live, TypeOK, HandlersOK
<1>4. CASE ApplySummary(r)
  BY <1>4 DEF ApplySummary, Goto, Owns, Live, TypeOK, HandlersOK
<1>5. CASE Release(r)
  BY <1>5 DEF Release, Goto, Owns, Live, TypeOK, HandlersOK
<1>6. CASE MarkPending(r)
  BY <1>6 DEF MarkPending, Goto, Owns, Live, TypeOK, HandlersOK
<1>7. CASE RetryOrDeadLetter(r) \/ Ack(r)
  BY <1>7 DEF RetryOrDeadLetter, DeadLetter, Ack, Goto, Finish, Owns, Live, TypeOK, HandlersOK
<1>8. QED
  BY <1>1, <1>2, <1>3, <1>4, <1>5, <1>6, <1>7 DEF HandlerStep

\* The conditional claim is a TakeUp: a pending row has no holder.
LEMMA ClaimTakesUp ==
    ASSUME PipelineInv, NEW r \in Replica, NEW t \in Task, t = held[r].task,
           pc[r] = "begin", Live(r), Claimable(t), MarkProcessing(t), Goto(r, "summarize")
    PROVE  Lifecycle!LifecycleNext
<1>a. TypeOK
  BY DEF PipelineInv
<1>1. {q \in Replica : Owns(q, t)} = {}
  BY DEF PipelineInv, ClaimBacked, Claimable
<1>2. \A q \in Replica : Owns(q, t)' <=> q = r
  BY <1>1, <1>a DEF Goto, Owns, Live, TypeOK, HandlersOK
<1>3. \A q \in Replica, u \in Task : u # t => (Owns(q, u)' <=> Owns(q, u))
  BY <1>a DEF Goto, Owns, Live, TypeOK, HandlersOK
<1>4. {q \in Replica : Owns(q, t)'} = {r}
  BY <1>2
<1>5. \A u \in Task : u # t => {q \in Replica : Owns(q, u)'} = {q \in Replica : Owns(q, u)}
  BY <1>3
<1>6. [u \in Task |-> {q \in Replica : Owns(q, u)'}]
        = [[u \in Task |-> {q \in Replica : Owns(q, u)}] EXCEPT ![t] = {r}]
  BY <1>4, <1>5
<1>7. Lifecycle!TakeUp(r, t)
  BY <1>1, <1>6 DEF Lifecycle!TakeUp, Claimable, MarkProcessing
<1>8. QED
  BY <1>7 DEF Lifecycle!LifecycleNext

\* An update of the row by its holder is a Settle: nobody else holds the task,
\* and the row is in processing unless it was deleted.
LEMMA UpdateSettles ==
    ASSUME PipelineInv, NEW r \in Replica, NEW t \in Task, Owns(r, t),
           NEW s \in {"completed", "pending"}, NEW step \in {"ack", "retry"},
           UpdateStatus(t, s), Goto(r, step)
    PROVE  Lifecycle!LifecycleNext
<1>a. TypeOK
  BY DEF PipelineInv
<1>b. \A q \in Replica : Owns(q, t) => q = r
  BY DEF PipelineInv, SingleOwner
<1>c. \A q \in Replica : ~Owns(q, t)'
  BY <1>a, <1>b DEF Goto, Owns, Live, TypeOK, HandlersOK
<1>d. \A q \in Replica, u \in Task : u # t => (Owns(q, u)' <=> Owns(q, u))
  BY <1>a DEF Goto, Owns, Live, TypeOK, HandlersOK
<1>1. CASE ~Exists(t)
  <2>1. UNCHANGED status
    BY <1>1 DEF UpdateStatus
  <2>2. \A q \in Replica, u \in Task : Owns(q, u)' => Owns(q, u)
    BY <1>c, <1>d
  <2>3. QED
    BY <2>1, <2>2, ClaimsLapse DEF PipelineInv
<1>2. CASE Exists(t)
  <2>1. status[t] = "processing"
    BY <1>2 DEF PipelineInv, ClaimBacked, Exists
  <2>2. {q \in Replica : Owns(q, t)} = {r}
    BY <1>b
  <2>3. {q \in Replica : Owns(q, t)'} = {}
    BY <1>c
  <2>4. \A u \in Task : u # t => {q \in Replica : Owns(q, u)'} = {q \in Replica : Owns(q, u)}
    BY <1>d
  <2>5. [u \in Task |-> {q \in Replica : Owns(q, u)'}]
          = [[u \in Task |-> {q \in Replica : Owns(q, u)}] EXCEPT ![t] = {}]
    BY <2>3, <2>4
  <2>6. status' = [status EXCEPT ![t] = s]
    BY <1>2 DEF UpdateStatus
  <2>7. Lifecycle!Settle(r, t)
    BY <2>1, <2>2, <2>5, <2>6 DEF Lifecycle!Settle
  <2>8. QED
    BY <2>7 DEF Lifecycle!LifecycleNext
<1>3. QED
  BY <1>1, <1>2

\* Every step of a handler.
LEMMA HandlerRefines ==
    ASSUME SafeDeployment, PipelineInv, NEW r \in Replica, HandlerStep(r)
    PROVE  Lifecycle!LifecycleNext
<1>a. TypeOK /\ SingleOwner /\ ~Fault("ambiguous")
  BY DEF PipelineInv, SafeDeployment, Fault
<1>b. ASSUME UNCHANGED rows, BeginProcessing(r) => ~Goto(r, "summarize")
      PROVE  Lifecycle!LifecycleNext
  BY <1>a, <1>b, HandlerLapse, ClaimsLapse DEF rows
<1>c. pc[r] # "idle"
  BY DEF HandlerStep, Claim, BeginProcessing, Summarize, ApplySummary, Release, MarkPending,
         RetryOrDeadLetter, Ack
<1>d. PICK t \in Task : t = held[r].task
  BY <1>a, <1>c, HeldMessage DEF TypeOK, Message
<1>1. CASE BeginProcessing(r)
  <2>1. \/ Live(r) /\ Claimable(t) /\ MarkProcessing(t) /\ Goto(r, "summarize")
        \/ UNCHANGED rows /\ (Goto(r, "ack") \/ Goto(r, "retry"))
    BY <1>1, <1>a, <1>d DEF BeginProcessing
  <2>2. CASE UNCHANGED rows /\ (Goto(r, "ack") \/ Goto(r, "retry"))
    <3>1. ~Goto(r, "summarize")
      BY <1>a, <2>2 DEF Goto, TypeOK, HandlersOK
    <3>2. QED
      BY <1>b, <2>2, <3>1
  <2>3. pc[r] = "begin"
    BY <1>1 DEF BeginProcessing
  <2>4. QED
    BY <1>d, <2>1, <2>2, <2>3, ClaimTakesUp
<1>2. CASE ApplySummary(r) \/ MarkPending(r)
  <2>1. pc[r] \in {"apply", "reset"}
    BY <1>2 DEF ApplySummary, MarkPending
  <2>2. \/ UNCHANGED rows
        \/ Live(r) /\ UpdateStatus(t, "completed") /\ Goto(r, "ack")
        \/ Live(r) /\ UpdateStatus(t, "pending") /\ Goto(r, "retry")
    BY <1>2, <1>a, <1>d DEF ApplySummary, MarkPending
  <2>3. CASE UNCHANGED rows
    <3>1. ~BeginProcessing(r)
      BY <2>1 DEF BeginProcessing
    <3>2. QED
      BY <1>b, <2>3, <3>1
  <2>4. Live(r) => Owns(r, t)
    BY <1>d, <2>1 DEF Owns
  <2>5. QED
    BY <2>2, <2>3, <2>4, UpdateSettles
<1>3. CASE Claim(r) \/ Summarize(r) \/ Release(r) \/ RetryOrDeadLetter(r) \/ Ack(r)
  <2>1. UNCHANGED rows
    BY <1>3 DEF Claim, Summarize, Release, RetryOrDeadLetter, Ack
  <2>2. ~BeginProcessing(r)
    BY <1>3 DEF Claim, Summarize, Release, RetryOrDeadLetter, Ack, BeginProcessing
  <2>3. QED
    BY <1>b, <2>1, <2>2
<1>4. QED
  BY <1>1, <1>2, <1>3 DEF HandlerStep

\* Every step of a reconciler: the reset of a row is a Rescue, since what the
\* sweep read as processing is still abandoned.
LEMMA ReconcilerRefines ==
    ASSUME PipelineInv, SafeDeployment, NEW c \in Reconciler, ReconcilerStep(c)
    PROVE  Lifecycle!LifecycleNext
<1>a. TypeOK /\ SingleOwner /\ SnapshotAbandoned /\ ~Fault("ambiguous")
  BY DEF PipelineInv, SafeDeployment, Fault
<1>b. UNCHANGED handlers
  BY DEF ReconcilerStep, Sweep, ResetStranded, RepublishCreated
<1>c. \A r \in Replica, u \in Task : Owns(r, u)' <=> Owns(r, u)
  BY <1>b DEF handlers, Owns, Live
<1>1. ASSUME UNCHANGED status
      PROVE  Lifecycle!LifecycleNext
  BY <1>1, <1>a, <1>c, ClaimsLapse
<1>2. ASSUME NEW row \in Row, ResetStranded(c, row), status' # status
      PROVE  Lifecycle!LifecycleNext
  <2>1. row.task \in Task /\ Exists(row.task) /\ UpdateStatus(row.task, "pending")
    BY <1>2, <1>a DEF ResetStranded, rows, Row
  <2>2. status[row.task] = "processing" /\ \A r \in Replica : ~Owns(r, row.task)
    BY <1>2, <1>a, <2>1 DEF ResetStranded, Oldest, SnapshotAbandoned, Exists
  <2>3. {r \in Replica : Owns(r, row.task)} = {}
    BY <2>2
  <2>4. \A u \in Task : {r \in Replica : Owns(r, u)'} = {r \in Replica : Owns(r, u)}
    BY <1>c
  <2>5. Lifecycle!Rescue(row.task)
    BY <2>1, <2>2, <2>3, <2>4 DEF Lifecycle!Rescue, UpdateStatus
  <2>6. QED
    BY <2>1, <2>5 DEF Lifecycle!LifecycleNext
<1>3. CASE Sweep(c) \/ \E row \in Row : RepublishCreated(c, row)
  BY <1>1, <1>3 DEF Sweep, RepublishCreated, rows
<1>4. QED
  BY <1>1, <1>2, <1>3 DEF ReconcilerStep

\* Every other step: requests, deliveries, failures and time.
LEMMA EnvironmentRefines ==
    ASSUME PipelineInv, Next,
           \A r \in Replica : ~HandlerStep(r), \A c \in Reconciler : ~ReconcilerStep(c)
    PROVE  Lifecycle!LifecycleNext
<1>a. TypeOK /\ SingleOwner
  BY DEF PipelineInv
<1>b. ASSUME UNCHANGED <<status, handlers>>
      PROVE  Lifecycle!LifecycleNext
  BY <1>a, <1>b, ClaimsLapse DEF handlers, Owns, Live
<1>c. ASSUME UNCHANGED handlers
      PROVE  \A u \in Task : {r \in Replica : Owns(r, u)'} = {r \in Replica : Owns(r, u)}
  BY <1>c DEF handlers, Owns, Live
<1>1. ASSUME NEW r \in Replica, NEW t \in Task, Create(r, t)
      PROVE  Lifecycle!LifecycleNext
  <2>1. Lifecycle!Submit(t)
    BY <1>1, <1>c DEF Create, Lifecycle!Submit
  <2>2. QED
    BY <2>1 DEF Lifecycle!LifecycleNext
<1>2. ASSUME NEW t \in Task, Delete(t)
      PROVE  Lifecycle!LifecycleNext
  <2>1. Lifecycle!Remove(t)
    BY <1>2, <1>c DEF Delete, Exists, Lifecycle!Remove
  <2>2. QED
    BY <2>1 DEF Lifecycle!LifecycleNext
<1>3. CASE \/ \E r \in Replica, t \in Task : PublishCreated(r, t)
           \/ \E e \in Event : ForgetMarker(e)
  BY <1>3, <1>b DEF PublishCreated, ForgetMarker, rows
<1>4. ASSUME NEW r \in Replica, NEW m \in Message, Deliver(r, m)
      PROVE  Lifecycle!LifecycleNext
  <2>1. \A q \in Replica, t \in Task : Owns(q, t)' => Owns(q, t)
    BY <1>4, <1>a DEF Deliver, Owns, Live, TypeOK, HandlersOK
  <2>2. QED
    BY <1>4, <1>a, <2>1, ClaimsLapse DEF Deliver, rows
<1>5. ASSUME NEW r \in Replica, Crash(r) \/ ChannelLost(r)
      PROVE  Lifecycle!LifecycleNext
  <2>1. \A q \in Replica, t \in Task : Owns(q, t)' => Owns(q, t)
    BY <1>5, <1>a DEF Crash, ChannelLost, Finish, Owns, Live, TypeOK, HandlersOK
  <2>2. QED
    BY <1>5, <1>a, <2>1, ClaimsLapse DEF Crash, ChannelLost, rows
<1>6. CASE Tick
  <2>1. \A q \in Replica, t \in Task : Owns(q, t)' => Owns(q, t)
    BY <1>6, <1>a, BoundAssumption DEF Tick, Older, Owns, Live, TypeOK, HandlersOK
  <2>2. QED
    BY <1>6, <1>a, <2>1, ClaimsLapse DEF Tick
<1>7. QED
  BY <1>1, <1>2, <1>3, <1>4, <1>5, <1>6 DEF Next

\* One worker at a time takes a task up, only it ends its claim, only what
\* nobody holds is rescued, and completed is final: the pipeline of queue,
\* markers, retries and sweeps is an implementation of that life.
THEOREM ImplementsLifecycleHolds ==
    ASSUME SafeDeployment
    PROVE  Spec => ImplementsLifecycle
<1>1. Init => Lifecycle!LifecycleInit
  BY DEF Init, Owns, Lifecycle!LifecycleInit
<1>2. PipelineInv /\ [Next]_vars => [Lifecycle!LifecycleNext]_(Lifecycle!lifecycleVars)
  <2> SUFFICES ASSUME PipelineInv, [Next]_vars
               PROVE  [Lifecycle!LifecycleNext]_(Lifecycle!lifecycleVars)
    OBVIOUS
  <2>1. CASE UNCHANGED vars
    BY <2>1 DEF vars, rows, handlers, Owns, Live, Lifecycle!lifecycleVars
  <2>2. CASE Next
    BY <2>2, HandlerRefines, ReconcilerRefines, EnvironmentRefines
  <2>3. QED
    BY <2>1, <2>2
<1>3. QED
  BY <1>1, <1>2, InvariantHolds, PTL DEF Spec, ImplementsLifecycle, Lifecycle!LifecycleSpec
=============================================================================
