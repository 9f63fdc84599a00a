----------------------------- MODULE RetryProofs -----------------------------
(***************************************************************************)
(* Proofs about the events of TaskPipeline, for every set of tasks,        *)
(* replicas and events and every retry limit: as long as only LLM calls    *)
(* and publishes fail, no marker stands in the way of a queued copy, and   *)
(* before anything has failed no event is lost.                            *)
(***************************************************************************)
EXTENDS TaskPipelineProofs

\* A step is harmless when none of the failures happens that break off a
\* delivery or lose a marker.
Harmless == \A kind \in FaultKind \ {"llm", "publish"} : ~Fault(kind)

\* Where those failures do not happen every step is harmless.
LEMMA HarmlessDeployment ==
    ASSUME RetryDeployment
    PROVE  Harmless
  BY DEF RetryDeployment, Fault, Harmless

\* A call with a live context fails only by a failure.
LEMMA LiveCall ==
    ASSUME Harmless, NEW r \in Replica, Live(r),
           NEW kind \in FaultKind \ {"llm", "publish"}
    PROVE  ~CallFails(r, kind)
  BY DEF Harmless, CallFails

\* The initial states satisfy the invariant.
LEMMA RetryInit == Init => RetryInv
<1> SUFFICES ASSUME Init PROVE RetryInv
  OBVIOUS
<1>1. TypeOK
  BY InitType
<1>2. Undisturbed /\ \A r \in Replica : ~Undecided(r)
  BY BoundAssumption DEF Init, Undisturbed, Live, Undecided
<1>3. \A m \in Message : queue[m] = 0
  BY DEF Init
<1>4. OneCopy /\ MarkerFollowsClaim
  BY <1>2, <1>3 DEF OneCopy, MarkerFollowsClaim, Undecided
<1>5. QED
  BY <1>1, <1>2, <1>4 DEF RetryInv

\* A step that queues nothing, sets no marker and starts no delivery keeps the
\* copies apart.
LEMMA CopiesKept ==
    ASSUME RetryInv, queue' = queue, markers' \subseteq markers,
           \A r \in Replica : Undecided(r)' => Undecided(r) /\ held'[r] = held[r],
           \A r \in Replica :
              pc'[r] \in {"dedupe", "reset", "retry"} => held'[r].event \notin markers'
    PROVE  OneCopy' /\ MarkerFollowsClaim'
  BY DEF RetryInv, OneCopy, MarkerFollowsClaim

\* A step of a handler within its delivery.
LEMMA GotoKept ==
    ASSUME RetryInv, NEW r \in Replica, Undecided(r), NEW step, Goto(r, step),
           queue' = queue, markers' \subseteq markers,
           step \in {"dedupe", "reset", "retry"} => held[r].event \notin markers'
    PROVE  OneCopy' /\ MarkerFollowsClaim' /\ Undisturbed'
<1>1. pc' = [pc EXCEPT ![r] = step] /\ UNCHANGED <<held, linked, elapsed>>
  BY DEF Goto
<1>2. pc \in [Replica -> Step]
  BY DEF RetryInv, TypeOK, HandlersOK
<1>3. \A s \in Replica : Undecided(s)' => Undecided(s) /\ held'[s] = held[s]
  BY <1>1, <1>2 DEF Undecided
<1>4. \A s \in Replica :
         pc'[s] \in {"dedupe", "reset", "retry"} => held'[s].event \notin markers'
  BY <1>1, <1>2 DEF RetryInv, MarkerFollowsClaim
<1>5. OneCopy' /\ MarkerFollowsClaim'
  BY <1>3, <1>4, CopiesKept
<1>6. Undisturbed'
  BY <1>1 DEF RetryInv, Undisturbed, Live
<1>7. QED
  BY <1>5, <1>6

\* The end of a delivery.
LEMMA FinishKept ==
    ASSUME RetryInv, NEW r \in Replica, Finish(r), queue' = queue, markers' = markers
    PROVE  OneCopy' /\ MarkerFollowsClaim' /\ Undisturbed'
<1>1. /\ pc' = [pc EXCEPT ![r] = "idle"] /\ held' = [held EXCEPT ![r] = NoMessage]
      /\ linked' = [linked EXCEPT ![r] = TRUE] /\ elapsed' = [elapsed EXCEPT ![r] = 0]
  BY DEF Finish
<1>2. /\ pc \in [Replica -> Step] /\ held \in [Replica -> Message \cup {NoMessage}]
      /\ elapsed \in [Replica -> 0..HandlerTimeout] /\ linked \in [Replica -> BOOLEAN]
  BY DEF RetryInv, TypeOK, HandlersOK
<1>3. \A s \in Replica : Undecided(s)' => Undecided(s) /\ held'[s] = held[s]
  BY <1>1, <1>2 DEF Undecided
<1>4. \A s \in Replica :
         pc'[s] \in {"dedupe", "reset", "retry"} => held'[s].event \notin markers'
  BY <1>1, <1>2 DEF RetryInv, MarkerFollowsClaim
<1>5. OneCopy' /\ MarkerFollowsClaim'
  BY <1>3, <1>4, CopiesKept
<1>6. Undisturbed'
  BY <1>1, <1>2, BoundAssumption DEF RetryInv, Undisturbed, Live
<1>7. QED
  BY <1>5, <1>6

\* A message put on the queue, when no other copy of its event is to run and the
\* event has no marker.
LEMMA EnqueueKept ==
    ASSUME RetryInv, NEW m \in Message, queue' = [queue EXCEPT ![m] = @ + 1],
           markers' \subseteq markers, m.event \notin markers',
           \A n \in Message : queue[n] > 0 => n.event # m.event,
           \A r \in Replica : Undecided(r)' => /\ Undecided(r) /\ held'[r] = held[r]
                                               /\ held[r].event # m.event,
           \A r \in Replica :
              pc'[r] \in {"dedupe", "reset", "retry"} => held'[r].event \notin markers'
    PROVE  OneCopy' /\ MarkerFollowsClaim'
<1>1. queue \in [Message -> Nat] /\ queue' \in [Message -> Nat]
  BY DEF RetryInv, TypeOK, BrokerOK
<1>2. queue[m] = 0
  BY <1>1
<1>3. queue'[m] = 1 /\ \A n \in Message : n # m => queue'[n] = queue[n]
  BY <1>1, <1>2
<1>4. OneCopy /\ MarkerFollowsClaim
  BY DEF RetryInv
<1>5. \A n \in Message : queue'[n] <= 1
  BY <1>1, <1>3, <1>4 DEF OneCopy
<1>6. \A n, p \in Message : queue'[n] > 0 /\ queue'[p] > 0 /\ n.event = p.event => n = p
  BY <1>1, <1>3, <1>4 DEF OneCopy
<1>7. \A n \in Message, r \in Replica :
         queue'[n] > 0 /\ Undecided(r)' => held'[r].event # n.event
  BY <1>1, <1>3, <1>4 DEF OneCopy
<1>8. \A r1, r2 \in Replica :
         Undecided(r1)' /\ Undecided(r2)' /\ held'[r1].event = held'[r2].event => r1 = r2
  BY <1>4 DEF OneCopy
<1>9. \A n \in Message : queue'[n] > 0 => n.event \notin markers'
  BY <1>1, <1>3, <1>4 DEF MarkerFollowsClaim
<1>10. QED
  BY <1>5, <1>6, <1>7, <1>8, <1>9 DEF OneCopy, MarkerFollowsClaim

\* The id lent to a published event is on no copy, and its marker is gone.
LEMMA PublishKept ==
    ASSUME RetryInv, NEW t \in Task, Publish(t), UNCHANGED <<pc, held>>
    PROVE  OneCopy' /\ MarkerFollowsClaim'
<1>1. PICK e \in Event \ Outstanding :
         /\ queue' = [queue EXCEPT ![[event |-> e, task |-> t, retries |-> 0]] = @ + 1]
         /\ markers' = markers \ {e}
  BY DEF Publish
<1> DEFINE m == [event |-> e, task |-> t, retries |-> 0]
<1>2. m \in Message /\ m.event = e
  BY BoundAssumption DEF Message
<1>3. \A n \in Message : queue[n] > 0 => n.event # e
  BY <1>1 DEF Outstanding
<1>4. \A n \in Message, r \in Replica : held[r] = n => n.event # e
  BY <1>1 DEF Outstanding
<1>5. \A r \in Replica : Undecided(r) => held[r] \in Message
  BY DEF Undecided, RetryInv, TypeOK, HandlersOK
<1>6. \A r \in Replica : Undecided(r)' => /\ Undecided(r) /\ held'[r] = held[r]
                                          /\ held[r].event # e
  BY <1>4, <1>5 DEF Undecided
<1>7. \A r \in Replica :
         pc'[r] \in {"dedupe", "reset", "retry"} => held'[r].event \notin markers'
  BY <1>1 DEF RetryInv, MarkerFollowsClaim
<1>8. markers' \subseteq markers /\ e \notin markers'
  BY <1>1
<1>9. queue' = [queue EXCEPT ![m] = @ + 1]
  BY <1>1
<1> HIDE DEF m
<1>10. QED
  BY <1>2, <1>3, <1>6, <1>7, <1>8, <1>9, EnqueueKept

\* A delivery moves the only copy from the queue to a handler.
LEMMA DeliverKept ==
    ASSUME RetryInv, NEW r \in Replica, NEW m \in Message, Deliver(r, m)
    PROVE  OneCopy' /\ MarkerFollowsClaim' /\ Undisturbed'
<1>1. /\ pc[r] = "idle" /\ queue[m] > 0 /\ queue' = [queue EXCEPT ![m] = @ - 1]
      /\ pc' = [pc EXCEPT ![r] = "dedupe"] /\ held' = [held EXCEPT ![r] = m]
      /\ UNCHANGED <<markers, linked, elapsed>>
  BY DEF Deliver
<1>2. /\ pc \in [Replica -> Step] /\ held \in [Replica -> Message \cup {NoMessage}]
      /\ queue \in [Message -> Nat]
  BY DEF RetryInv, TypeOK, HandlersOK, BrokerOK
<1>3. OneCopy /\ MarkerFollowsClaim
  BY DEF RetryInv
<1>4. queue[m] = 1
  BY <1>1, <1>2, <1>3 DEF OneCopy
<1>5. queue'[m] = 0 /\ \A n \in Message : n # m => queue'[n] = queue[n]
  BY <1>1, <1>2, <1>4
<1>6. pc'[r] = "dedupe" /\ held'[r] = m
  BY <1>1, <1>2
<1>7. \A s \in Replica : s # r => /\ pc'[s] = pc[s] /\ held'[s] = held[s]
                                  /\ Undecided(s)' <=> Undecided(s)
  BY <1>1, <1>2 DEF Undecided
<1>8. \A n \in Message : queue'[n] > 0 => queue[n] > 0 /\ n.event # m.event
  BY <1>1, <1>3, <1>5 DEF OneCopy
<1>9. \A s \in Replica : s # r /\ Undecided(s)' => held'[s].event # m.event
  BY <1>1, <1>3, <1>7 DEF OneCopy
<1>10. \A n \in Message : queue'[n] <= 1
  BY <1>3, <1>5 DEF OneCopy
<1>11. \A n, p \in Message : queue'[n] > 0 /\ queue'[p] > 0 /\ n.event = p.event => n = p
  BY <1>3, <1>8 DEF OneCopy
<1>12. \A n \in Message, s \in Replica :
          queue'[n] > 0 /\ Undecided(s)' => held'[s].event # n.event
  BY <1>3, <1>6, <1>7, <1>8 DEF OneCopy
<1>13. \A r1, r2 \in Replica :
          Undecided(r1)' /\ Undecided(r2)' /\ held'[r1].event = held'[r2].event => r1 = r2
  BY <1>3, <1>6, <1>7, <1>9 DEF OneCopy
<1>14. MarkerFollowsClaim'
  BY <1>1, <1>3, <1>6, <1>7, <1>8 DEF MarkerFollowsClaim
<1>15. Undisturbed'
  BY <1>1 DEF RetryInv, Undisturbed, Live
<1>16. QED
  BY <1>10, <1>11, <1>12, <1>13, <1>14, <1>15 DEF OneCopy

\* The worker's claim sets the marker of an event no other copy carries.
LEMMA ClaimKept ==
    ASSUME Harmless, RetryInv, NEW r \in Replica, Claim(r)
    PROVE  OneCopy' /\ MarkerFollowsClaim' /\ Undisturbed'
<1> DEFINE e == held[r].event
<1>1. pc[r] = "dedupe" /\ queue' = queue
  BY DEF Claim
<1>2. Undecided(r) /\ Live(r) /\ e \notin markers
  BY <1>1 DEF Undecided, RetryInv, Undisturbed, MarkerFollowsClaim
<1>3. ~CallFails(r, "redis")
  BY <1>2, LiveCall DEF FaultKind
<1>4. Goto(r, "begin") /\ markers' = markers \cup {e}
  BY <1>2, <1>3 DEF Claim
<1>5. pc' = [pc EXCEPT ![r] = "begin"] /\ UNCHANGED <<held, linked, elapsed>>
  BY <1>4 DEF Goto
<1>6. pc \in [Replica -> Step] /\ OneCopy /\ MarkerFollowsClaim
  BY DEF RetryInv, TypeOK, HandlersOK
<1>7. \A s \in Replica : Undecided(s)' => Undecided(s) /\ held'[s] = held[s]
  BY <1>2, <1>5, <1>6 DEF Undecided
<1>8. OneCopy'
  BY <1>1, <1>6, <1>7 DEF OneCopy
<1>9. \A m \in Message : queue'[m] > 0 => m.event \notin markers'
  BY <1>1, <1>2, <1>4, <1>6 DEF OneCopy, MarkerFollowsClaim
<1>10. \A s \in Replica :
          pc'[s] \in {"dedupe", "reset", "retry"} => held'[s].event \notin markers'
  <2>1. SUFFICES ASSUME NEW s \in Replica, pc'[s] \in {"dedupe", "reset", "retry"}
                 PROVE  held[s].event \notin markers /\ held[s].event # e
    BY <1>4, <1>5
  <2>2. s # r /\ pc'[s] = pc[s]
    BY <2>1, <1>5, <1>6
  <2>3. Undecided(s)
    BY <2>1, <2>2 DEF Undecided
  <2>4. QED
    BY <2>1, <2>2, <2>3, <1>2, <1>6 DEF OneCopy, MarkerFollowsClaim
<1>11. Undisturbed'
  BY <1>5 DEF RetryInv, Undisturbed, Live
<1>12. QED
  BY <1>8, <1>9, <1>10, <1>11 DEF MarkerFollowsClaim

\* A failed delivery is dead-lettered, lost, or goes back under its own event
\* id, which nobody else carries and whose marker was released.
LEMMA RetryKept ==
    ASSUME RetryInv, NEW r \in Replica, RetryOrDeadLetter(r)
    PROVE  OneCopy' /\ MarkerFollowsClaim' /\ Undisturbed'
<1> DEFINE copy == [held[r] EXCEPT !.retries = @ + 1]
<1>1. pc[r] = "retry" /\ Undecided(r)
  BY DEF RetryOrDeadLetter, Undecided
<1>2. \/ Finish(r) /\ queue' = queue /\ markers' = markers
      \/ Goto(r, "ack") /\ queue' = queue /\ markers' = markers
      \/ /\ held[r].retries < MaxRetries /\ Goto(r, "ack") /\ markers' = markers
         /\ queue' = [queue EXCEPT ![copy] = @ + 1]
  BY DEF RetryOrDeadLetter, DeadLetter, broker
<1>3. CASE Finish(r) /\ queue' = queue /\ markers' = markers
  BY <1>3, FinishKept
<1>4. CASE Goto(r, "ack") /\ queue' = queue /\ markers' = markers
  BY <1>1, <1>4, GotoKept
<1>5. CASE /\ held[r].retries < MaxRetries /\ Goto(r, "ack") /\ markers' = markers
           /\ queue' = [queue EXCEPT ![copy] = @ + 1]
  <2>1. held[r] \in Message
    BY <1>1, HeldMessage DEF RetryInv, TypeOK
  <2>2. copy \in Message /\ copy.event = held[r].event
    BY <2>1, <1>5, BoundAssumption DEF Message
  <2> HIDE DEF copy
  <2>3. /\ pc' = [pc EXCEPT ![r] = "ack"] /\ UNCHANGED <<held, linked, elapsed>>
        /\ pc \in [Replica -> Step] /\ OneCopy /\ MarkerFollowsClaim
    BY <1>5 DEF Goto, RetryInv, TypeOK, HandlersOK
  <2>4. \A n \in Message : queue[n] > 0 => n.event # copy.event
    BY <1>1, <2>2, <2>3 DEF OneCopy
  <2>5. \A s \in Replica : Undecided(s)' => /\ Undecided(s) /\ held'[s] = held[s]
                                            /\ held[s].event # copy.event
    <3>1. SUFFICES ASSUME NEW s \in Replica, Undecided(s)'
                   PROVE  Undecided(s) /\ held[s].event # copy.event
      BY <2>3
    <3>2. s # r /\ Undecided(s)
      BY <3>1, <2>3 DEF Undecided
    <3>3. QED
      BY <3>2, <1>1, <2>2, <2>3 DEF OneCopy
  <2>6. copy.event \notin markers'
    BY <1>1, <1>5, <2>2, <2>3 DEF MarkerFollowsClaim
  <2>7. \A s \in Replica :
           pc'[s] \in {"dedupe", "reset", "retry"} => held'[s].event \notin markers'
    BY <1>5, <2>3 DEF MarkerFollowsClaim
  <2>8. markers' \subseteq markers /\ queue' = [queue EXCEPT ![copy] = @ + 1]
    BY <1>5
  <2>9. OneCopy' /\ MarkerFollowsClaim'
    BY <2>2, <2>4, <2>5, <2>6, <2>7, <2>8, EnqueueKept
  <2>10. Undisturbed'
    BY <2>3 DEF RetryInv, Undisturbed, Live
  <2>11. QED
    BY <2>9, <2>10
<1>6. QED
  BY <1>2, <1>3, <1>4, <1>5

\* Every step of a handler.
LEMMA HandlerStepKept ==
    ASSUME Harmless, RetryInv, NEW r \in Replica, HandlerStep(r)
    PROVE  OneCopy' /\ MarkerFollowsClaim' /\ Undisturbed'
<1>a. Live(r)
  BY DEF RetryInv, Undisturbed
<1>b. ~CallFails(r, "db") /\ ~CallFails(r, "redis") /\ ~Fault("ambiguous")
  BY <1>a, LiveCall DEF FaultKind, Harmless
<1>1. CASE Claim(r)
  BY <1>1, ClaimKept
<1>2. CASE BeginProcessing(r)
  <2>1. queue' = queue /\ markers' = markers /\ Undecided(r)
    BY <1>2 DEF BeginProcessing, broker, Undecided
  <2>2. Goto(r, "summarize") \/ Goto(r, "ack")
    BY <1>2, <1>b DEF BeginProcessing
  <2>3. QED
    BY <2>1, <2>2, GotoKept
<1>3. CASE Summarize(r)
  <2>1. queue' = queue /\ markers' = markers /\ Undecided(r)
    BY <1>3 DEF Summarize, broker, Undecided
  <2>2. Goto(r, "apply") \/ Goto(r, "release")
    BY <1>3 DEF Summarize
  <2>3. QED
    BY <2>1, <2>2, GotoKept
<1>4. CASE ApplySummary(r)
  <2>1. queue' = queue /\ markers' = markers /\ Undecided(r)
    BY <1>4 DEF ApplySummary, broker, Undecided
  <2>2. Goto(r, "ack")
    BY <1>4, <1>b DEF ApplySummary
  <2>3. QED
    BY <2>1, <2>2, GotoKept
<1>5. CASE Release(r)
  <2>1. queue' = queue /\ Undecided(r) /\ Goto(r, "reset")
    BY <1>5 DEF Release, Undecided
  <2>2. markers' = markers \ {held[r].event}
    BY <1>5, <1>b DEF Release
  <2>3. QED
    BY <2>1, <2>2, GotoKept
<1>6. CASE MarkPending(r)
  <2>1. queue' = queue /\ markers' = markers /\ Undecided(r) /\ Goto(r, "retry")
    BY <1>6 DEF MarkPending, broker, Undecided
  <2>2. held[r].event \notin markers'
    BY <1>6, <2>1 DEF MarkPending, RetryInv, MarkerFollowsClaim
  <2>3. QED
    BY <2>1, <2>2, GotoKept
<1>7. CASE RetryOrDeadLetter(r)
  BY <1>7, RetryKept
<1>8. CASE Ack(r)
  BY <1>8, FinishKept DEF Ack, broker
<1>9. QED
  BY <1>1, <1>2, <1>3, <1>4, <1>5, <1>6, <1>7, <1>8 DEF HandlerStep

\* Steps that leave the broker and the handlers alone.
LEMMA Untouched ==
    ASSUME RetryInv, UNCHANGED <<broker, handlers>>
    PROVE  OneCopy' /\ MarkerFollowsClaim' /\ Undisturbed'
  BY DEF RetryInv, OneCopy, MarkerFollowsClaim, Undecided, Undisturbed, Live, broker, handlers

\* A publish, or the loss of one.
LEMMA PublishStepKept ==
    ASSUME RetryInv, NEW t \in Task, Publish(t) \/ UNCHANGED broker, UNCHANGED handlers
    PROVE  OneCopy' /\ MarkerFollowsClaim' /\ Undisturbed'
<1>1. CASE Publish(t)
  <2>1. UNCHANGED <<pc, held>> /\ Undisturbed'
    BY DEF handlers, RetryInv, Undisturbed, Live
  <2>2. QED
    BY <1>1, <2>1, PublishKept
<1>2. CASE UNCHANGED broker
  BY <1>2, Untouched
<1>3. QED
  BY <1>1, <1>2

\* Without a stall no delivery reaches its deadline.
LEMMA TickKept ==
    ASSUME Harmless, RetryInv, Tick
    PROVE  OneCopy' /\ MarkerFollowsClaim' /\ Undisturbed'
<1>1. /\ UNCHANGED <<queue, markers, pc, held, linked>>
      /\ elapsed' = [r \in Replica |-> IF pc[r] = "idle" THEN 0
                                       ELSE Older(elapsed[r], HandlerTimeout)]
  BY DEF Tick, broker
<1>2. ~Fault("stall")
  BY DEF FaultKind, Harmless
<1>3. \A r \in Replica : pc[r] # "idle" => elapsed[r] + 1 # HandlerTimeout
  BY <1>2 DEF Tick
<1>4. \A r \in Replica : elapsed[r] \in Nat /\ elapsed[r] < HandlerTimeout
  BY BoundAssumption DEF RetryInv, TypeOK, HandlersOK, Undisturbed, Live
<1>5. Undisturbed'
  BY <1>1, <1>3, <1>4, BoundAssumption DEF RetryInv, Undisturbed, Live, Older
<1>6. OneCopy' /\ MarkerFollowsClaim'
  BY <1>1 DEF RetryInv, OneCopy, MarkerFollowsClaim, Undecided
<1>7. QED
  BY <1>5, <1>6

\* Every step preserves the invariant.
LEMMA RetryStep == Harmless /\ RetryInv /\ [Next]_vars => RetryInv'
<1> SUFFICES ASSUME Harmless, RetryInv, [Next]_vars PROVE RetryInv'
  OBVIOUS
<1>a. TypeOK'
  BY NextType DEF RetryInv
<1>b. \A kind \in {"crash", "channel", "redis", "db", "ambiguous", "stall"} : ~Fault(kind)
  BY DEF FaultKind, Harmless
<1> DEFINE Kept == OneCopy' /\ MarkerFollowsClaim' /\ Undisturbed'
<1> SUFFICES Kept
  BY <1>a DEF RetryInv
<1> HIDE DEF Kept
<1>1. ASSUME NEW r \in Replica, NEW t \in Task, Create(r, t) PROVE Kept
  BY <1>1, Untouched DEF Create, Kept
<1>2. ASSUME NEW r \in Replica, NEW t \in Task, PublishCreated(r, t) PROVE Kept
  BY <1>2, PublishStepKept DEF PublishCreated, Kept
<1>3. ASSUME NEW t \in Task, Delete(t) PROVE Kept
  BY <1>3, Untouched DEF Delete, Kept
<1>4. ASSUME NEW r \in Replica, NEW m \in Message, Deliver(r, m) PROVE Kept
  BY <1>4, DeliverKept DEF Kept
<1>5. ASSUME NEW r \in Replica, HandlerStep(r) PROVE Kept
  BY <1>5, HandlerStepKept DEF Kept
<1>6. ASSUME NEW r \in Replica, Crash(r) \/ ChannelLost(r) PROVE Kept
  BY <1>6, <1>b DEF Crash, ChannelLost
<1>7. ASSUME NEW c \in Reconciler, ReconcilerStep(c) PROVE Kept
  <2>1. CASE Sweep(c)
    BY <2>1, Untouched DEF Sweep, Kept
  <2>2. ASSUME NEW row \in Row, ResetStranded(c, row) PROVE Kept
    BY <2>2, Untouched DEF ResetStranded, Kept
  <2>3. ASSUME NEW row \in Row, RepublishCreated(c, row) PROVE Kept
    <3>1. row.task \in Task
      BY DEF Row
    <3>2. (Publish(row.task) \/ UNCHANGED broker) /\ UNCHANGED handlers
      BY <2>3 DEF RepublishCreated
    <3>3. QED
      BY <3>1, <3>2, PublishStepKept DEF Kept
  <2>4. QED
    BY <1>7, <2>1, <2>2, <2>3 DEF ReconcilerStep
<1>8. ASSUME NEW e \in Event, ForgetMarker(e) PROVE Kept
  BY <1>8, <1>b DEF ForgetMarker
<1>9. CASE Tick
  BY <1>9, TickKept DEF Kept
<1>10. CASE UNCHANGED vars
  BY <1>10, Untouched DEF vars, Kept
<1>11. QED
  BY <1>1, <1>2, <1>3, <1>4, <1>5, <1>6, <1>7, <1>8, <1>9, <1>10 DEF Next

-----------------------------------------------------------------------------
(* No event is lost before the first failure.                               *)

\* Whatever keeps an event of t underway is still there.
LEMMA UnderwayKept ==
    ASSUME NEW t \in Task, Underway(t),
           \A r \in Replica : <<r, t>> \in publishing => <<r, t>> \in publishing',
           \A m \in Message : m.task = t /\ queue[m] > 0 => queue'[m] > 0,
           \A r \in Replica :
              pc[r] \in {"dedupe", "begin", "retry"} /\ held[r].task = t =>
                 pc'[r] \in {"dedupe", "begin", "retry"} /\ held'[r] = held[r]
    PROVE  Underway(t)'
  BY DEF Underway

\* A publish puts the event of its task on the queue and takes nothing off it.
LEMMA PublishQueues ==
    ASSUME TypeOK, NEW u \in Task, Publish(u)
    PROVE  /\ \A m \in Message : queue[m] > 0 => queue'[m] > 0
           /\ \E m \in Message : m.task = u /\ queue'[m] > 0
           /\ dlq' = dlq
<1>1. PICK e \in Event :
         /\ queue' = [queue EXCEPT ![[event |-> e, task |-> u, retries |-> 0]] = @ + 1]
         /\ dlq' = dlq
  BY DEF Publish
<1> DEFINE m == [event |-> e, task |-> u, retries |-> 0]
<1>2. m \in Message /\ m.task = u
  BY BoundAssumption DEF Message
<1>3. queue' = [queue EXCEPT ![m] = @ + 1] /\ queue \in [Message -> Nat]
  BY <1>1 DEF TypeOK, BrokerOK
<1> HIDE DEF m
<1>4. queue'[m] = queue[m] + 1 /\ \A n \in Message : n # m => queue'[n] = queue[n]
  BY <1>2, <1>3
<1>5. \A n \in Message : queue[n] \in Nat
  BY <1>3
<1>6. QED
  BY <1>1, <1>2, <1>4, <1>5

\* What a handler does to the events of a task, when no call of it fails: it
\* claims the row, or gives the delivery back as a copy or a dead letter.
LEMMA HandlerUnderway ==
    ASSUME RetryInv, \A kind : ~Fault(kind), NEW r \in Replica, HandlerStep(r),
           NEW t \in Task, status'[t] = "pending",
           status[t] = "pending" => Underway(t) \/ <<t, MaxRetries>> \in dlq
    PROVE  Underway(t)' \/ <<t, MaxRetries>> \in dlq'
<1>a. TypeOK /\ Live(r) /\ linked[r]
  BY DEF RetryInv, Undisturbed
<1>b. \A kind : ~CallFails(r, kind)
  BY <1>a DEF CallFails
<1>c. pc \in [Replica -> Step] /\ held \in [Replica -> Message \cup {NoMessage}]
      /\ queue \in [Message -> Nat] /\ status \in [Task -> Status]
  BY <1>a DEF TypeOK, HandlersOK, BrokerOK, RowsOK
<1>d. publishing' = publishing
  BY DEF HandlerStep, Claim, BeginProcessing, Summarize, ApplySummary, Release, MarkPending,
         RetryOrDeadLetter, Ack
<1>e. ASSUME status[t] = "pending", dlq' = dlq, queue' = queue,
             \A q \in Replica :
                pc[q] \in {"dedupe", "begin", "retry"} /\ held[q].task = t =>
                   pc'[q] \in {"dedupe", "begin", "retry"} /\ held'[q] = held[q]
      PROVE  Underway(t)' \/ <<t, MaxRetries>> \in dlq'
  BY <1>d, <1>e, UnderwayKept
<1>1. CASE Claim(r)
  <2>1. pc[r] = "dedupe" /\ UNCHANGED <<status, queue, dlq>>
    BY <1>1 DEF Claim, rows
  <2>2. held[r].event \notin markers
    BY <2>1 DEF RetryInv, MarkerFollowsClaim
  <2>3. Goto(r, "begin")
    BY <1>1, <1>b, <2>2 DEF Claim
  <2>4. QED
    BY <1>c, <1>e, <2>1, <2>3 DEF Goto
<1>2. CASE BeginProcessing(r)
  <2>1. pc[r] = "begin" /\ UNCHANGED <<queue, dlq>>
    BY <1>2 DEF BeginProcessing, broker
  <2>2. PICK step \in {"summarize", "ack"} : Goto(r, step)
    BY <1>2, <1>b DEF BeginProcessing
  <2>3. status[t] = "pending" /\ held[r].task # t
    BY <1>2, <1>b, <1>c DEF BeginProcessing, Claimable, MarkProcessing, rows
  <2>4. QED
    BY <1>c, <1>e, <2>1, <2>2, <2>3 DEF Goto
<1>3. CASE Summarize(r) \/ Release(r)
  <2>1. pc[r] \in {"summarize", "release"} /\ UNCHANGED <<status, queue, dlq>>
    BY <1>3 DEF Summarize, Release, rows, broker
  <2>2. PICK step \in {"apply", "release", "reset"} : Goto(r, step)
    BY <1>3 DEF Summarize, Release
  <2>3. QED
    BY <1>c, <1>e, <2>1, <2>2 DEF Goto
<1>4. CASE ApplySummary(r)
  <2>1. pc[r] = "apply" /\ UNCHANGED <<queue, dlq>>
    BY <1>4 DEF ApplySummary, broker
  <2>2. Goto(r, "ack") /\ UpdateStatus(held[r].task, "completed")
    BY <1>4, <1>b DEF ApplySummary
  <2>3. status[t] = "pending"
    BY <1>c, <2>2 DEF UpdateStatus
  <2>4. QED
    BY <1>c, <1>e, <2>1, <2>2, <2>3 DEF Goto
<1>5. CASE MarkPending(r)
  <2>1. /\ pc[r] = "reset" /\ UNCHANGED <<queue, dlq>> /\ Goto(r, "retry")
        /\ UpdateStatus(held[r].task, "pending")
    BY <1>5, <1>b DEF MarkPending, broker
  <2>2. CASE held[r].task = t
    <3>1. pc'[r] = "retry" /\ held'[r].task = t
      BY <1>c, <2>1, <2>2 DEF Goto
    <3>2. QED
      BY <3>1 DEF Underway
  <2>3. CASE held[r].task # t
    <3>1. status[t] = "pending"
      BY <1>c, <2>1, <2>3 DEF UpdateStatus
    <3>2. QED
      BY <1>c, <1>e, <2>1, <3>1 DEF Goto
  <2>4. QED
    BY <2>2, <2>3
<1>6. CASE RetryOrDeadLetter(r)
  <2> DEFINE copy == [held[r] EXCEPT !.retries = @ + 1]
  <2>1. pc[r] = "retry" /\ status' = status /\ held[r] \in Message
    BY <1>6, <1>a, HeldMessage DEF RetryOrDeadLetter, rows, TypeOK
  <2>2. \/ /\ held[r].retries >= MaxRetries /\ Finish(r) /\ queue' = queue
           /\ dlq' = dlq \cup {<<held[r].task, held[r].retries>>}
        \/ /\ held[r].retries < MaxRetries /\ Goto(r, "ack") /\ dlq' = dlq
           /\ queue' = [queue EXCEPT ![copy] = @ + 1]
    BY <1>6, <1>a DEF RetryOrDeadLetter, DeadLetter
  <2>3. \A q \in Replica : q # r => pc'[q] = pc[q] /\ held'[q] = held[q]
    BY <1>c, <2>2 DEF Goto, Finish
  <2>4. CASE held[r].retries >= MaxRetries
    <3>1. queue' = queue /\ dlq' = dlq \cup {<<held[r].task, held[r].retries>>}
      BY <2>1, <2>2, <2>4, BoundAssumption DEF Message
    <3>2. held[r].retries = MaxRetries
      BY <2>1, <2>4, BoundAssumption DEF Message
    <3>3. CASE held[r].task = t
      BY <3>1, <3>2, <3>3
    <3>4. CASE held[r].task # t
      BY <2>1, <2>3, <3>1, <3>4, <1>d, UnderwayKept
    <3>5. QED
      BY <3>3, <3>4
  <2>5. CASE ~(held[r].retries >= MaxRetries)
    <3>1. /\ held[r].retries < MaxRetries /\ dlq' = dlq
          /\ queue' = [queue EXCEPT ![copy] = @ + 1]
      BY <2>2, <2>5
    <3>2. copy \in Message /\ copy.task = held[r].task
      BY <2>1, <3>1, BoundAssumption DEF Message
    <3> HIDE DEF copy
    <3>3. queue'[copy] > 0 /\ \A n \in Message : queue[n] > 0 => queue'[n] > 0
      BY <1>c, <3>1, <3>2
    <3>4. CASE held[r].task = t
      BY <3>2, <3>3, <3>4 DEF Underway
    <3>5. CASE held[r].task # t
      BY <2>1, <2>3, <3>1, <3>3, <3>5, <1>d, UnderwayKept
    <3>6. QED
      BY <3>4, <3>5
  <2>6. QED
    BY <2>4, <2>5
<1>7. CASE Ack(r)
  <2>1. pc[r] = "ack" /\ UNCHANGED <<status, queue, dlq>> /\ Finish(r)
    BY <1>7 DEF Ack, rows, broker
  <2>2. QED
    BY <1>c, <1>e, <2>1 DEF Finish
<1>8. QED
  BY <1>1, <1>2, <1>3, <1>4, <1>5, <1>6, <1>7 DEF HandlerStep

\* Before the first failure the sweep finds no row abandoned in processing.
LEMMA ResetIdle ==
    ASSUME PipelineInv, WorkUnbroken, faultsLeft = MaxFaults, \A kind : ~Fault(kind),
           NEW c \in Reconciler, NEW row \in Row, ResetStranded(c, row)
    PROVE  status' = status
<1>1. /\ status[row.task] \in {"processing", "deleted"}
      /\ \A r \in Replica : ~Owns(r, row.task)
  BY DEF ResetStranded, Oldest, PipelineInv, SnapshotAbandoned
<1>2. row.task \in Task
  BY DEF Row
<1>3. status[row.task] = "deleted"
  BY <1>1, <1>2 DEF WorkUnbroken
<1>4. QED
  BY <1>3 DEF ResetStranded, Exists, rows

\* Every step without failures keeps an event of a waiting task underway.
LEMMA UnderwayStep ==
    ASSUME PipelineInv, WorkUnbroken, faultsLeft = MaxFaults, RetryInv, EventUnderway,
           Next, \A kind : ~Fault(kind), NEW t \in Task, status'[t] = "pending"
    PROVE  Underway(t)' \/ <<t, MaxRetries>> \in dlq'
<1> DEFINE Safe == Underway(t)' \/ <<t, MaxRetries>> \in dlq'
<1>a. TypeOK
  BY DEF RetryInv
<1>b. status[t] = "pending" => Underway(t) \/ <<t, MaxRetries>> \in dlq
  BY DEF EventUnderway
<1>c. /\ pc \in [Replica -> Step] /\ held \in [Replica -> Message \cup {NoMessage}]
      /\ queue \in [Message -> Nat] /\ status \in [Task -> Status]
  BY <1>a DEF TypeOK, HandlersOK, BrokerOK, RowsOK
<1> SUFFICES Safe
  OBVIOUS
<1> HIDE DEF Safe
<1>d. ASSUME status[t] = "pending", publishing' = publishing, UNCHANGED <<pc, held, dlq>>,
             \A m \in Message : queue[m] > 0 => queue'[m] > 0
      PROVE  Safe
  <2>1. Underway(t) => Underway(t)'
    BY <1>d, UnderwayKept
  <2>2. QED
    BY <1>b, <1>d, <2>1 DEF Safe
<1>1. ASSUME NEW r \in Replica, NEW u \in Task, Create(r, u) PROVE Safe
  <2>1. /\ publishing' = publishing \cup {<<r, u>>} /\ UNCHANGED <<queue, dlq, pc, held>>
        /\ status' = [status EXCEPT ![u] = "pending"]
    BY <1>1 DEF Create, broker, handlers
  <2>2. CASE u = t
    <3>1. <<r, t>> \in publishing'
      BY <2>1, <2>2
    <3>2. Underway(t)'
      BY <3>1 DEF Underway
    <3>3. QED
      BY <3>2 DEF Safe
  <2>3. CASE u # t
    <3>1. status[t] = "pending"
      BY <1>c, <2>1, <2>3
    <3>2. Underway(t) => Underway(t)'
      BY <2>1, UnderwayKept
    <3>3. QED
      BY <1>b, <2>1, <3>1, <3>2 DEF Safe
  <2>4. QED
    BY <2>2, <2>3
<1>2. ASSUME NEW r \in Replica, NEW u \in Task, PublishCreated(r, u) PROVE Safe
  <2>1. /\ publishing' = publishing \ {<<r, u>>} /\ UNCHANGED <<status, pc, held>>
        /\ Publish(u)
    BY <1>2 DEF PublishCreated, rows, handlers
  <2>2. /\ \A m \in Message : queue[m] > 0 => queue'[m] > 0
        /\ \E m \in Message : m.task = u /\ queue'[m] > 0
        /\ dlq' = dlq
    BY <1>a, <2>1, PublishQueues
  <2>3. CASE u = t
    <3>1. Underway(t)'
      BY <2>2, <2>3 DEF Underway
    <3>2. QED
      BY <3>1 DEF Safe
  <2>4. CASE u # t
    <3>1. \A q \in Replica : <<q, t>> \in publishing => <<q, t>> \in publishing'
      BY <2>1, <2>4
    <3>2. Underway(t) => Underway(t)'
      BY <2>1, <2>2, <3>1, UnderwayKept
    <3>3. QED
      BY <1>b, <2>1, <2>2, <3>2 DEF Safe
  <2>5. QED
    BY <2>3, <2>4
<1>3. ASSUME NEW u \in Task, Delete(u) PROVE Safe
  <2>1. /\ status' = [status EXCEPT ![u] = "deleted"] /\ publishing' = publishing
        /\ UNCHANGED <<queue, dlq, pc, held>>
    BY <1>3 DEF Delete, broker, handlers
  <2>2. status[t] = "pending"
    BY <1>c, <2>1
  <2>3. QED
    BY <1>d, <2>1, <2>2
<1>4. ASSUME NEW r \in Replica, NEW m \in Message, Deliver(r, m) PROVE Safe
  <2>1. /\ pc[r] = "idle" /\ queue' = [queue EXCEPT ![m] = @ - 1]
        /\ pc' = [pc EXCEPT ![r] = "dedupe"] /\ held' = [held EXCEPT ![r] = m]
        /\ UNCHANGED <<status, publishing, dlq>>
    BY <1>4 DEF Deliver, rows
  <2>2. CASE m.task = t
    <3>1. pc'[r] = "dedupe" /\ held'[r].task = t
      BY <1>c, <2>1, <2>2
    <3>2. Underway(t)'
      BY <3>1 DEF Underway
    <3>3. QED
      BY <3>2 DEF Safe
  <2>3. CASE m.task # t
    <3>1. \A n \in Message : n.task = t /\ queue[n] > 0 => queue'[n] > 0
      BY <1>c, <2>1, <2>3
    <3>2. \A q \in Replica :
             pc[q] \in {"dedupe", "begin", "retry"} =>
                pc'[q] \in {"dedupe", "begin", "retry"} /\ held'[q] = held[q]
      BY <1>c, <2>1
    <3>3. Underway(t) => Underway(t)'
      BY <2>1, <3>1, <3>2, UnderwayKept
    <3>4. QED
      BY <1>b, <2>1, <3>3 DEF Safe
  <2>4. QED
    BY <2>2, <2>3
<1>5. ASSUME NEW r \in Replica, HandlerStep(r) PROVE Safe
  BY <1>5, <1>b, HandlerUnderway DEF Safe
<1>6. CASE \/ \E r \in Replica : Crash(r) \/ ChannelLost(r)
           \/ \E e \in Event : ForgetMarker(e)
  BY <1>6 DEF Crash, ChannelLost, ForgetMarker
<1>7. ASSUME NEW c \in Reconciler, ReconcilerStep(c) PROVE Safe
  <2>1. CASE Sweep(c)
    <3>1. UNCHANGED <<status, publishing, queue, dlq, pc, held>>
      BY <2>1 DEF Sweep, rows, broker, handlers
    <3>2. QED
      BY <1>d, <3>1
  <2>2. ASSUME NEW row \in Row, ResetStranded(c, row) PROVE Safe
    <3>1. status' = status
      BY <2>2, ResetIdle
    <3>2. UNCHANGED <<publishing, queue, dlq, pc, held>>
      BY <2>2 DEF ResetStranded, broker, handlers
    <3>3. QED
      BY <1>d, <3>1, <3>2
  <2>3. ASSUME NEW row \in Row, RepublishCreated(c, row) PROVE Safe
    <3>1. Publish(row.task) /\ row.task \in Task
      BY <2>3 DEF RepublishCreated, Row
    <3>2. UNCHANGED <<status, publishing, pc, held>>
      BY <2>3 DEF RepublishCreated, rows, handlers
    <3>3. (\A m \in Message : queue[m] > 0 => queue'[m] > 0) /\ dlq' = dlq
      BY <1>a, <3>1, PublishQueues
    <3>4. QED
      BY <1>d, <3>2, <3>3
  <2>4. QED
    BY <1>7, <2>1, <2>2, <2>3 DEF ReconcilerStep
<1>8. CASE Tick
  <2>1. UNCHANGED <<status, publishing, queue, dlq, pc, held>>
    BY <1>8 DEF Tick, broker
  <2>2. QED
    BY <1>d, <2>1
<1>9. QED
  BY <1>1, <1>2, <1>3, <1>4, <1>5, <1>6, <1>7, <1>8 DEF Next

\* Until the first failure no event is lost, because the copies of each stay
\* apart and unmarked.
LEMMA CalmStep == PipelineInv /\ WorkUnbroken /\ CalmInv /\ [Next]_vars => CalmInv'
<1> SUFFICES ASSUME PipelineInv, WorkUnbroken, CalmInv, [Next]_vars, faultsLeft' = MaxFaults
             PROVE  RetryInv' /\ EventUnderway'
  BY DEF CalmInv
<1>1. CASE UNCHANGED vars
  <2>1. faultsLeft = MaxFaults /\ RetryInv /\ EventUnderway
    BY <1>1 DEF CalmInv, vars
  <2>2. UNCHANGED <<status, publishing, queue, dlq, pc, held, faultsLeft>>
    BY <1>1 DEF vars, rows, broker, handlers
  <2>3. EventUnderway'
    BY <2>1, <2>2 DEF EventUnderway, Underway
  <2>4. TypeOK'
    BY <1>1, <2>1, NextType DEF RetryInv
  <2>5. OneCopy' /\ MarkerFollowsClaim' /\ Undisturbed'
    BY <1>1, <2>1, Untouched DEF vars
  <2>6. QED
    BY <2>3, <2>4, <2>5 DEF RetryInv
<1>2. CASE Next
  <2>1. faultsLeft = MaxFaults /\ \A kind : ~Fault(kind)
    BY <1>2, NoFaultYet DEF PipelineInv
  <2>2. RetryInv /\ EventUnderway
    BY <2>1 DEF CalmInv
  <2>3. RetryInv'
    BY <1>2, <2>1, <2>2, RetryStep DEF Harmless
  <2>4. \A t \in Task : status'[t] = "pending" => Underway(t)' \/ <<t, MaxRetries>> \in dlq'
    BY <1>2, <2>1, <2>2, UnderwayStep
  <2>5. QED
    BY <2>3, <2>4 DEF EventUnderway
<1>3. QED
  BY <1>1, <1>2

-----------------------------------------------------------------------------
(* Theorems.                                                                *)

\* While only LLM calls and publishes fail, at most one copy of an event is to
\* run at any time: neither the retries of the consumer nor the events the
\* reconcilers republish give one event to two workers.
THEOREM OneCopyHolds ==
    ASSUME RetryDeployment
    PROVE  Spec => []OneCopy
<1>1. RetryInv /\ [Next]_vars => RetryInv'
  BY RetryStep, HarmlessDeployment
<1>2. RetryInv => OneCopy
  BY DEF RetryInv
<1>3. QED
  BY <1>1, <1>2, RetryInit, PTL DEF Spec

\* While only LLM calls and publishes fail, the release on the worker's error
\* path lets every retry copy run.
THEOREM RetryRunsHolds ==
    ASSUME RetryDeployment
    PROVE  Spec => []RetryRuns
<1>1. RetryInv /\ [Next]_vars => RetryInv'
  BY RetryStep, HarmlessDeployment
<1>2. RetryInv => RetryRuns
  BY DEF RetryInv, MarkerFollowsClaim, RetryRuns
<1>3. QED
  BY <1>1, <1>2, RetryInit, PTL DEF Spec

\* Before the first failure, in a SafeDeployment, the events alone see every
\* task through its attempts: the sweep of the reconciler only adds to them.
THEOREM EventUnderwayHolds ==
    ASSUME SafeDeployment
    PROVE  Spec => []EventUnderway
<1>1. Init => WorkUnbroken
  BY BoundAssumption DEF Init, WorkUnbroken, Live
<1>2. TypeOK /\ WorkUnbroken /\ [Next]_vars => WorkUnbroken'
  BY WorkStep
<1>3. Init => CalmInv
  <2>1. Init => EventUnderway
    BY DEF Init, EventUnderway
  <2>2. QED
    BY <2>1, RetryInit DEF CalmInv
<1>4. PipelineInv /\ WorkUnbroken /\ CalmInv /\ [Next]_vars => CalmInv'
  BY CalmStep
<1>5. CalmInv => EventUnderway
  BY DEF CalmInv, EventUnderway
<1>6. QED
  BY <1>1, <1>2, <1>3, <1>4, <1>5, InvariantHolds, TypeCorrect, PTL DEF Spec
=============================================================================
