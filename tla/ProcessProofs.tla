---------------------------- MODULE ProcessProofs ----------------------------
(***************************************************************************)
(* Proofs about Process, for any number of requests, of attempts and of    *)
(* failures, and for every environment.                                    *)
(***************************************************************************)
EXTENDS Process, TLAPS

-----------------------------------------------------------------------------
(* Configuration.                                                           *)

\* getInt and getDuration yield a number.
LEMMA ParsedType ==
    ASSUME NEW raw \in Raw, NEW fallback \in Int
    PROVE  Parsed(raw, fallback) \in Int
<1>1. raw \in Seq(Int)
  BY DEF Raw
<1>2. raw # <<>> => raw[1] \in Int
  BY <1>1
<1>3. QED
  BY <1>2 DEF Parsed

\* The numbers of a loaded configuration.
LEMMA LoadedType ==
    ASSUME NEW e \in Environments
    PROVE  /\ Loaded(e).interval \in Int /\ Loaded(e).grace \in Int
           /\ Loaded(e).timeout \in Int /\ Loaded(e).batch \in Int
<1>1. e.interval \in Raw /\ e.grace \in Raw /\ e.timeout \in Raw /\ e.batch \in Raw
  BY EnvironmentAssumption DEF Environment
<1>2. QED
  BY <1>1, ParsedType DEF Loaded

\* reconciler.New yields positive options from whatever was configured.
LEMMA OptionsPositive ==
    ASSUME NEW c, c \in {Loaded(e) : e \in Environments}
    PROVE  /\ Options(c) \in OptionsType
           /\ Options(c).interval > 0 /\ Options(c).grace > 0
           /\ Options(c).timeout > 0 /\ Options(c).batch > 0
<1>1. c.interval \in Int /\ c.grace \in Int /\ c.timeout \in Int /\ c.batch \in Int
  BY LoadedType
<1>2. QED
  BY <1>1 DEF Options, OrDefault, OptionsType

-----------------------------------------------------------------------------
(* Type correctness.                                                        *)

\* Every step of a publisher keeps the broker well typed.
LEMMA PublishStepType ==
    ASSUME TypeOK, NEW p \in Publisher,
           CallPublish(p) \/ Publish(p) \/ EndWait(p)
    PROVE  BrokerTypeOK'
<1>1. closed' \in BOOLEAN
  BY Zenon DEF TypeOK, BrokerTypeOK, CallPublish, Publish, EndWait
<1>2. QED
  BY <1>1 DEF TypeOK, BrokerTypeOK, CallPublish, Publish, EndWait

\* Every step of the consumer keeps it well typed, its attempts included.
LEMMA ConsumerStepType ==
    ASSUME TypeOK, AttemptInv, ConsumerStep
    PROVE  ConsumerTypeOK' /\ AttemptInv'
<1> USE ConsumerAssumption DEF TypeOK, ConsumerTypeOK, AttemptInv, Failure
<1>a. stopped' \in BOOLEAN
  BY Zenon DEF ConsumerStep, OpenChannel, Receive, Settle, ChannelCloses, SeeClosed, SeeStop, BackoffOver
<1>b. channelUp' \in BOOLEAN
  BY Zenon DEF ConsumerStep, OpenChannel, Receive, Settle, ChannelCloses, SeeClosed, SeeStop, BackoffOver
<1>1. CASE OpenChannel
  BY <1>1, <1>a, <1>b DEF OpenChannel
<1>2. CASE Receive \/ Settle \/ SeeClosed \/ SeeStop
  BY <1>2, <1>a, <1>b DEF Receive, Settle, SeeClosed, SeeStop
<1>3. CASE ChannelCloses
  BY <1>3, <1>a, <1>b DEF ChannelCloses
<1>4. CASE BackoffOver
  BY <1>4, <1>a, <1>b DEF BackoffOver
<1>5. QED
  BY <1>1, <1>2, <1>3, <1>4 DEF ConsumerStep

\* The state of run that is well typed besides the broker's and the consumer's.
RunTypeOK ==
    /\ cfg \in {Loaded(e) : e \in Environments}
    /\ opts \in OptionsType
    /\ main \in Boot \cup {"serve", "http", "stop", "unwind", "drain", "close", "exited"}
    /\ opened \subseteq Backend
    /\ signalled \in BOOLEAN
    /\ http \in {"off", "up", "failed", "down"}
    /\ sweeping \in BOOLEAN

\* A part that a step leaves alone stays well typed.
LEMMA UnchangedType ==
    ASSUME TypeOK, AttemptInv
    PROVE  /\ UNCHANGED brokerVars => BrokerTypeOK'
           /\ UNCHANGED consumerVars => ConsumerTypeOK' /\ AttemptInv'
           /\ UNCHANGED processVars => RunTypeOK'
<1>1. UNCHANGED brokerVars => BrokerTypeOK'
  BY Zenon DEF TypeOK, BrokerTypeOK, brokerVars
<1>2. UNCHANGED consumerVars => ConsumerTypeOK' /\ AttemptInv'
  BY Zenon DEF TypeOK, ConsumerTypeOK, consumerVars, AttemptInv
<1>3. UNCHANGED processVars => RunTypeOK'
  BY Zenon DEF TypeOK, RunTypeOK, processVars
<1>4. QED
  BY <1>1, <1>2, <1>3

\* The steps of the boot keep the state well typed.
LEMMA BootStepType ==
    ASSUME TypeOK, AttemptInv, BootInv, BootStep
    PROVE  TypeOK' /\ AttemptInv'
<1>a. RunTypeOK'
  <2> USE DEF TypeOK, RunTypeOK, Boot, Backend
  <2>1. signalled' \in BOOLEAN /\ sweeping' \in BOOLEAN
    BY Zenon DEF BootStep, Load, OpenPostgres, Migrate, OpenRedis, OpenBroker, Wire
  <2>2. CASE Load
    BY <2>1, <2>2 DEF Load
  <2>3. CASE OpenPostgres
    BY <2>1, <2>3 DEF OpenPostgres, Open
  <2>4. CASE Migrate
    BY <2>1, <2>4 DEF Migrate
  <2>5. CASE OpenRedis
    BY <2>1, <2>5 DEF OpenRedis, Open
  <2>6. CASE OpenBroker
    BY <2>1, <2>6 DEF OpenBroker
  <2>7. CASE Wire
    BY <2>1, <2>7, OptionsPositive DEF Wire
  <2>8. QED
    BY <2>2, <2>3, <2>4, <2>5, <2>6, <2>7 DEF BootStep
<1>b. BrokerTypeOK'
  <2>1. CASE OpenBroker
    <3>1. closed' \in BOOLEAN
      BY <2>1, Zenon DEF OpenBroker, TypeOK, BrokerTypeOK
    <3>2. QED
      BY <2>1, <3>1 DEF OpenBroker, TypeOK, BrokerTypeOK
  <2>2. CASE UNCHANGED brokerVars
    BY <2>2, UnchangedType
  <2>3. QED
    BY <2>1, <2>2 DEF BootStep, Load, OpenPostgres, Migrate, OpenRedis, Wire
<1>c. ConsumerTypeOK' /\ AttemptInv'
  <2>1. CASE Wire
    <3>1. stopped' \in BOOLEAN /\ channelUp' \in BOOLEAN
      BY <2>1, Zenon DEF Wire, NewConsumer, TypeOK, ConsumerTypeOK
    <3>2. attempt <= MaxAttempts
      BY <2>1 DEF Wire, Boot, BootInv, AttemptInv
    <3>3. QED
      BY <2>1, <3>1, <3>2 DEF Wire, NewConsumer, TypeOK, ConsumerTypeOK, AttemptInv
  <2>2. CASE UNCHANGED consumerVars
    BY <2>2, UnchangedType
  <2>3. QED
    BY <2>1, <2>2 DEF BootStep, Load, OpenPostgres, Migrate, OpenRedis, OpenBroker
<1>d. QED
  BY <1>a, <1>b, <1>c DEF TypeOK, RunTypeOK

\* The steps to the exit keep the state well typed.
LEMMA EndStepType ==
    ASSUME TypeOK, AttemptInv, EndStep
    PROVE  TypeOK' /\ AttemptInv'
<1>a. RunTypeOK'
  <2> USE DEF TypeOK, RunTypeOK, Boot, Backend, Goto
  <2>1. signalled' \in BOOLEAN /\ sweeping' \in BOOLEAN
    BY Zenon DEF EndStep, SeeSignal, SeeListenError, SeeBrokerLost, ShutDown, Stopped,
                 CloseBroker, Drained, DropConnection, CloseRedis, ClosePostgres, Exit
  <2>2. CASE SeeSignal \/ SeeListenError \/ SeeBrokerLost \/ ShutDown \/ Stopped
    BY <2>1, <2>2 DEF SeeSignal, SeeListenError, SeeBrokerLost, ShutDown, Stopped
  <2>3. CASE CloseBroker
    BY <2>1, <2>3 DEF CloseBroker
  <2>4. CASE Drained \/ DropConnection \/ CloseRedis \/ ClosePostgres \/ Exit
    BY <2>1, <2>4 DEF Drained, DropConnection, CloseRedis, ClosePostgres, Exit
  <2>5. QED
    BY <2>2, <2>3, <2>4 DEF EndStep
<1>b. BrokerTypeOK'
  <2>1. CASE CloseBroker \/ DropConnection
    <3>1. closed' \in BOOLEAN
      BY <2>1, Zenon DEF CloseBroker, MarkClosed, DropConnection, CloseConnection, TypeOK, BrokerTypeOK
    <3>2. QED
      BY <2>1, <3>1 DEF CloseBroker, MarkClosed, DropConnection, CloseConnection, TypeOK, BrokerTypeOK
  <2>2. CASE UNCHANGED brokerVars
    BY <2>2, UnchangedType
  <2>3. QED
    BY <2>1, <2>2 DEF EndStep, SeeSignal, SeeListenError, SeeBrokerLost, ShutDown, Stopped,
                      Drained, CloseRedis, ClosePostgres, Exit
<1>c. ConsumerTypeOK' /\ AttemptInv'
  <2>1. CASE CloseStop
    BY <2>1, Zenon DEF CloseStop, TypeOK, ConsumerTypeOK, AttemptInv
  <2>2. CASE UNCHANGED consumerVars
    BY <2>2, UnchangedType
  <2>3. QED
    BY <2>1, <2>2 DEF EndStep, SeeSignal, SeeListenError, SeeBrokerLost, ShutDown, Stopped,
                      CloseBroker, Drained, DropConnection, CloseRedis, ClosePostgres, Exit
<1>d. QED
  BY <1>a, <1>b, <1>c DEF TypeOK, RunTypeOK

\* The goroutines and the environment keep the state well typed.
LEMMA GoroutineType ==
    ASSUME TypeOK, AttemptInv, Goroutine \/ Signal \/ ListenFails \/ ConnectionLost
    PROVE  TypeOK' /\ AttemptInv'
<1>a. RunTypeOK'
  <2>1. CASE Sweep \/ EndSweep \/ Signal \/ ListenFails
    <3>1. signalled' \in BOOLEAN /\ sweeping' \in BOOLEAN
      BY <2>1, Zenon DEF Sweep, EndSweep, Signal, ListenFails, TypeOK
    <3>2. QED
      BY <2>1, <3>1 DEF Sweep, EndSweep, Signal, ListenFails, TypeOK, RunTypeOK
  <2>2. CASE UNCHANGED processVars
    BY <2>2, UnchangedType
  <2>3. QED
    BY <2>1, <2>2
    DEF Goroutine, Create, RepublishCreated, PublishStep, ConsumerStep, ConnectionLost
<1>b. BrokerTypeOK'
  <2>1. ASSUME NEW p \in Publisher, CallPublish(p) \/ Publish(p) \/ EndWait(p)
        PROVE  BrokerTypeOK'
    BY <2>1, PublishStepType
  <2>2. CASE ConnectionLost
    <3>1. closed' \in BOOLEAN
      BY <2>2, Zenon DEF ConnectionLost, TypeOK, BrokerTypeOK
    <3>2. QED
      BY <2>2, <3>1 DEF ConnectionLost, TypeOK, BrokerTypeOK
  <2>3. CASE UNCHANGED brokerVars
    BY <2>3, UnchangedType
  <2>4. Sweeper \in Publisher /\ Request \subseteq Publisher
    BY GoroutineAssumption
  <2>5. QED
    BY <2>1, <2>2, <2>3, <2>4
    DEF Goroutine, Create, RepublishCreated, Sweep, EndSweep, PublishStep, ConsumerStep,
        Signal, ListenFails, Confirm, ConfirmsClosed, Abandon
<1>c. ConsumerTypeOK' /\ AttemptInv'
  <2>1. CASE ConsumerStep
    BY <2>1, ConsumerStepType
  <2>2. CASE ConnectionLost
    BY <2>2, Zenon DEF ConnectionLost, TypeOK, ConsumerTypeOK, AttemptInv
  <2>3. CASE UNCHANGED consumerVars
    BY <2>3, UnchangedType
  <2>4. QED
    BY <2>1, <2>2, <2>3
    DEF Goroutine, Create, RepublishCreated, Sweep, EndSweep, PublishStep, Signal, ListenFails
<1>d. QED
  BY <1>a, <1>b, <1>c DEF TypeOK, RunTypeOK

-----------------------------------------------------------------------------
(* The mutex.                                                               *)

\* Every step keeps the mutex with the publisher that waits for a confirm, and
\* free once the broker is closed.
LEMMA LockStep ==
    ASSUME TypeOK, LockInv, [Next]_vars
    PROVE  LockInv'
<1> USE PublisherAssumption DEF TypeOK, BrokerTypeOK, LockInv
<1>1. ASSUME NEW p \in Publisher, CallPublish(p) PROVE LockInv'
  BY <1>1 DEF CallPublish
<1>2. ASSUME NEW p \in Publisher, Publish(p) PROVE LockInv'
  BY <1>2 DEF Publish
<1>3. ASSUME NEW p \in Publisher, EndWait(p) PROVE LockInv'
  BY <1>3 DEF EndWait
<1>4. CASE CloseBroker
  BY <1>4 DEF CloseBroker, MarkClosed
<1>5. CASE UNCHANGED <<closed, mu, pub>>
  BY <1>5
<1>6. Sweeper \in Publisher /\ Request \subseteq Publisher
  BY GoroutineAssumption
<1>7. CASE BootStep
  BY <1>5, <1>7 DEF BootStep, Load, OpenPostgres, Migrate, OpenRedis, OpenBroker, Wire, brokerVars
<1>8. CASE EndStep
  BY <1>4, <1>5, <1>8
  DEF EndStep, SeeSignal, SeeListenError, SeeBrokerLost, ShutDown, Stopped, Drained,
      DropConnection, CloseConnection, CloseRedis, ClosePostgres, Exit, brokerVars
<1>9. CASE Goroutine
  BY <1>1, <1>2, <1>3, <1>5, <1>6, <1>9
  DEF Goroutine, Create, RepublishCreated, Sweep, EndSweep, PublishStep, ConsumerStep,
      Confirm, ConfirmsClosed, Abandon, brokerVars
<1>10. CASE Signal \/ ListenFails \/ ConnectionLost \/ UNCHANGED vars
  BY <1>5, <1>10 DEF Signal, ListenFails, ConnectionLost, vars, brokerVars
<1>11. QED
  BY <1>7, <1>8, <1>9, <1>10 DEF Next

-----------------------------------------------------------------------------
(* What is open, and who uses it.                                           *)

\* What the steps outside the boot leave alone.
LEMMA AfterBoot ==
    ASSUME BootInv, EndStep \/ Goroutine \/ Signal \/ ListenFails \/ ConnectionLost
    PROVE  BootInv'
<1>1. CASE EndStep
  <2>1. main' \notin Boot
    BY <1>1 DEF EndStep, SeeSignal, SeeListenError, SeeBrokerLost, ShutDown, Stopped, CloseBroker,
                Drained, DropConnection, CloseRedis, ClosePostgres, Exit, Goto, Boot
  <2>2. QED
    BY <2>1 DEF BootInv, Boot
<1>2. CASE Goroutine \/ Signal \/ ListenFails \/ ConnectionLost
  <2>1. UNCHANGED <<main, opened>> /\ (http = "off" => http' = "off")
    BY <1>2 DEF Goroutine, Create, Sweep, RepublishCreated, EndSweep, PublishStep, ConsumerStep,
                Signal, ListenFails, ConnectionLost, processVars
  <2>2. loop = "none" => loop' = "none"
    BY <1>2 DEF Goroutine, Create, Sweep, RepublishCreated, EndSweep, PublishStep, ConsumerStep,
                OpenChannel, Receive, Settle, ChannelCloses, SeeClosed, SeeStop, BackoffOver,
                Signal, ListenFails, ConnectionLost, consumerVars
  <2>3. QED
    BY <2>1, <2>2 DEF BootInv
<1>3. QED
  BY <1>1, <1>2

\* The boot opens the backends in their order, and starts the consumer last.
LEMMA BootStepInv ==
    ASSUME BootInv, DrainInv, OptionsInv, BootStep
    PROVE  BootInv' /\ DrainInv' /\ OptionsInv'
<1> USE DEF BootInv, DrainInv, OptionsInv, Boot, Backend, Wired
<1>1. CASE Load
  BY <1>1 DEF Load, brokerVars, consumerVars
<1>2. CASE OpenPostgres
  BY <1>2 DEF OpenPostgres, Open, brokerVars, consumerVars
<1>3. CASE Migrate
  BY <1>3 DEF Migrate, brokerVars, consumerVars
<1>4. CASE OpenRedis
  BY <1>4 DEF OpenRedis, Open, brokerVars, consumerVars
<1>5. CASE OpenBroker
  BY <1>5 DEF OpenBroker, brokerVars, consumerVars
<1>6. CASE Wire
  BY <1>6 DEF Wire, NewConsumer, brokerVars, consumerVars
<1>7. QED
  BY <1>1, <1>2, <1>3, <1>4, <1>5, <1>6 DEF BootStep

\* On the way out the consumer is gone before a backend is closed.
LEMMA EndStepInv ==
    ASSUME TypeOK, DrainInv, OptionsInv, EndStep
    PROVE  DrainInv' /\ OptionsInv'
<1> USE DEF TypeOK, DrainInv, OptionsInv, Boot, Backend, Wired, Goto
<1>1. CASE SeeSignal
  BY <1>1 DEF SeeSignal, brokerVars, consumerVars
<1>2. CASE SeeListenError \/ SeeBrokerLost
  BY <1>2 DEF SeeListenError, SeeBrokerLost, brokerVars, consumerVars
<1>3. CASE ShutDown
  BY <1>3 DEF ShutDown, CloseStop, brokerVars
<1>4. CASE Stopped \/ Drained
  BY <1>4 DEF Stopped, Drained, brokerVars, consumerVars
<1>5. CASE CloseBroker
  BY <1>5 DEF CloseBroker, MarkClosed, CloseStop
<1>6. CASE DropConnection
  BY <1>6 DEF DropConnection, CloseConnection, consumerVars
<1>7. CASE CloseRedis \/ ClosePostgres \/ Exit
  BY <1>7 DEF CloseRedis, ClosePostgres, Exit, brokerVars, consumerVars
<1>8. QED
  BY <1>1, <1>2, <1>3, <1>4, <1>5, <1>6, <1>7 DEF EndStep

\* A goroutine neither opens nor closes a backend, and the consumer, once
\* gone, does not come back.
LEMMA GoroutineInv ==
    ASSUME TypeOK, DrainInv, OptionsInv, Goroutine \/ Signal \/ ListenFails \/ ConnectionLost
    PROVE  DrainInv' /\ OptionsInv'
<1>1. UNCHANGED <<main, opened, cfg, opts>> /\ (http = "off" <=> http' = "off")
  BY DEF Goroutine, Create, Sweep, RepublishCreated, EndSweep, PublishStep, ConsumerStep,
         Signal, ListenFails, ConnectionLost, processVars
<1>2. UNCHANGED stopped /\ (loop \in {"none", "gone"} => loop' = loop)
  BY DEF Goroutine, Create, Sweep, RepublishCreated, EndSweep, PublishStep, ConsumerStep,
         OpenChannel, Receive, Settle, ChannelCloses, SeeClosed, SeeStop, BackoffOver,
         Signal, ListenFails, ConnectionLost, consumerVars
<1>3. conn' = "closed" => conn = "closed"
  BY DEF Goroutine, Create, Sweep, RepublishCreated, EndSweep, CallPublish, PublishStep, Publish,
         Confirm, ConfirmsClosed, Abandon, EndWait, ConsumerStep,
         Signal, ListenFails, ConnectionLost, brokerVars
<1>4. DrainInv'
  BY <1>1, <1>2, <1>3 DEF DrainInv
<1>5. OptionsInv'
  BY <1>1 DEF OptionsInv, Wired
<1>6. QED
  BY <1>4, <1>5

-----------------------------------------------------------------------------
(* The theorems.                                                            *)

\* The initial states satisfy the invariant.
LEMMA InitInv == Init => ProcessInv
<1> SUFFICES ASSUME Init PROVE ProcessInv
  OBVIOUS
<1>1. TypeOK
  <2>1. BrokerTypeOK
    BY DEF Init, BrokerInit, BrokerTypeOK
  <2>2. ConsumerTypeOK
    <3>1. channelUp \in BOOLEAN /\ stopped \in BOOLEAN
      BY Zenon DEF Init, ConsumerInit
    <3>2. 1 \in 1..MaxAttempts + 1 /\ MaxFailures \in 0..MaxFailures
      BY ConsumerAssumption
    <3>3. QED
      BY <3>1, <3>2 DEF Init, ConsumerInit, ConsumerTypeOK
  <2>3. signalled \in BOOLEAN /\ sweeping \in BOOLEAN
    BY Zenon DEF Init
  <2>4. opts \in OptionsType
    BY DEF Init, NoOptions, OptionsType
  <2>5. QED
    BY <2>1, <2>2, <2>3, <2>4 DEF Init, TypeOK, Boot
<1>2. AttemptInv /\ LockInv
  BY ConsumerAssumption DEF Init, BrokerInit, ConsumerInit, AttemptInv, LockInv
<1>3. BootInv /\ DrainInv /\ OptionsInv
  BY DEF Init, BrokerInit, ConsumerInit, BootInv, DrainInv, OptionsInv, Boot, Wired
<1>4. QED
  BY <1>1, <1>2, <1>3 DEF ProcessInv

\* Every step preserves the invariant.
LEMMA NextInv == ProcessInv /\ [Next]_vars => ProcessInv'
<1> SUFFICES ASSUME ProcessInv, [Next]_vars PROVE ProcessInv'
  OBVIOUS
<1>1. TypeOK /\ AttemptInv /\ LockInv /\ BootInv /\ DrainInv /\ OptionsInv
  BY DEF ProcessInv
<1>2. LockInv'
  BY <1>1, LockStep
<1>3. CASE BootStep
  BY <1>1, <1>2, <1>3, BootStepType, BootStepInv DEF ProcessInv
<1>4. CASE EndStep
  BY <1>1, <1>2, <1>4, EndStepType, EndStepInv, AfterBoot DEF ProcessInv
<1>5. CASE Goroutine \/ Signal \/ ListenFails \/ ConnectionLost
  BY <1>1, <1>2, <1>5, GoroutineType, GoroutineInv, AfterBoot DEF ProcessInv
<1>6. CASE UNCHANGED vars
  <2>1. TypeOK' /\ AttemptInv'
    BY <1>1, <1>6, UnchangedType DEF vars, TypeOK, RunTypeOK
  <2>2. BootInv' /\ DrainInv' /\ OptionsInv'
    BY <1>1, <1>6
    DEF vars, brokerVars, consumerVars, processVars, BootInv, DrainInv, OptionsInv, Wired
  <2>3. QED
    BY <1>2, <2>1, <2>2 DEF ProcessInv
<1>7. QED
  BY <1>3, <1>4, <1>5, <1>6 DEF Next

\* The inductive invariant holds throughout.
THEOREM InvariantHolds == Spec => []ProcessInv
  BY InitInv, NextInv, PTL DEF Spec

\* The process is well typed, and the consumer keeps within its attempts.
THEOREM TypeCorrect == Spec => []TypeOK
<1>1. ProcessInv => TypeOK
  BY DEF ProcessInv
<1>2. QED
  BY <1>1, InvariantHolds, PTL

\* On no way out of run does a deferred close overtake the consumer's handler.
THEOREM HandlerHasBackendsHolds == Spec => []HandlerHasBackends
<1>1. ProcessInv => HandlerHasBackends
  BY DEF ProcessInv, DrainInv, HandlerHasBackends
<1>2. QED
  BY <1>1, InvariantHolds, PTL

\* However many publishers there are, Close finds none of them waiting for a
\* confirm, and lets none begin to.
THEOREM NoPublishUnderCloseHolds == Spec => []NoPublishUnderClose
<1>1. ProcessInv => NoPublishUnderClose
  BY PublisherAssumption DEF ProcessInv, LockInv, NoPublishUnderClose
<1>2. QED
  BY <1>1, InvariantHolds, PTL

\* For every environment, the options of a reconciler that runs are positive.
THEOREM SweepsCanRunHolds == Spec => []SweepsCanRun
<1>1. ProcessInv => SweepsCanRun
  BY OptionsPositive DEF ProcessInv, TypeOK, OptionsInv, SweepsCanRun
<1>2. QED
  BY <1>1, InvariantHolds, PTL

\* For every environment, in whatever mixture of unset, zero, negative and
\* positive settings, a reconciler that runs has a grace window that covers its
\* interval, save for the one way round validate: an interval New replaced.
THEOREM ShortGraceByZeroIntervalHolds == Spec => []ShortGraceByZeroInterval
<1>1. ASSUME ProcessInv PROVE ShortGraceByZeroInterval
  <2> SUFFICES ASSUME Wired, cfg.enabled, opts.grace < opts.interval
               PROVE  /\ cfg.interval <= 0 /\ opts.interval = 2
                      /\ 0 < cfg.grace /\ cfg.grace < 2 /\ opts.grace = cfg.grace
    BY DEF ShortGraceByZeroInterval
  <2>1. cfg.interval \in Int /\ cfg.grace \in Int
    BY <1>1, LoadedType DEF ProcessInv, TypeOK
  <2>2. cfg.grace >= cfg.interval
    BY <1>1 DEF ProcessInv, OptionsInv, Valid
  <2>3. /\ opts.interval = OrDefault(cfg.interval, 2)
        /\ opts.grace = OrDefault(cfg.grace, 10)
    BY <1>1 DEF ProcessInv, OptionsInv, Options
  <2>4. CASE cfg.interval > 0
    BY <2>1, <2>2, <2>3, <2>4 DEF OrDefault
  <2>5. CASE cfg.interval <= 0
    BY <2>1, <2>3, <2>5 DEF OrDefault
  <2>6. QED
    BY <2>1, <2>4, <2>5
<1>2. QED
  BY <1>1, InvariantHolds, PTL
=============================================================================
