------------------------------- MODULE Process -------------------------------
(***************************************************************************)
(* One process of the API, from run in cmd/api/main.go: the boot, the      *)
(* select that waits for a reason to end, the shutdown and the deferred    *)
(* closes, together with the goroutines that use what is opened and        *)
(* closed: requests, the sweep of the reconciler and the consumer.         *)
(*                                                                         *)
(* Time is abstracted: SHUTDOWN_TIMEOUT may pass at any moment of the wait *)
(* it bounds.  A goroutine runs until the process exits; main awaits the   *)
(* consumer only.                                                          *)
(***************************************************************************)
EXTENDS Consumer, ReconcilerConfig

CONSTANTS
    Request,      \* requests that create a task
    Sweeper,      \* the goroutine of reconciler.Run
    Environments  \* environments the process may be started in

ASSUME GoroutineAssumption == Publisher = Request \cup {Sweeper} /\ Sweeper \notin Request
ASSUME EnvironmentAssumption == Environments \subseteq Environment

VARIABLES
    cfg,        \* what Load made of the environment
    opts,       \* the reconciler's options
    main,       \* where run is
    opened,     \* backends whose deferred Close has not run
    signalled,  \* SIGTERM has come: the root context is over
    http,       \* the server: not started, up, unable to listen, shut down
    sweeping    \* a sweep goes through the rows it found

processVars == <<cfg, opts, main, opened, signalled, http, sweeping>>
vars == <<brokerVars, consumerVars, processVars>>

Boot == {"load", "postgres", "migrate", "redis", "broker", "wire"}
Backend == {"postgres", "redis", "broker"}

\* Type correctness; the consumer's attempts stay within their limit.
TypeOK ==
    /\ BrokerTypeOK
    /\ ConsumerTypeOK
    /\ cfg \in {Loaded(e) : e \in Environments}
    /\ opts \in OptionsType
    /\ main \in Boot \cup {"serve", "http", "stop", "unwind", "drain", "close", "exited"}
    /\ opened \subseteq Backend
    /\ signalled \in BOOLEAN
    /\ http \in {"off", "up", "failed", "down"}
    /\ sweeping \in BOOLEAN

Init ==
    /\ BrokerInit
    /\ ConsumerInit
    /\ cfg \in {Loaded(e) : e \in Environments}
    /\ opts = NoOptions
    /\ main = "load"
    /\ opened = {}
    /\ signalled = FALSE
    /\ http = "off"
    /\ sweeping = FALSE

Alive == main # "exited"

\* The consumer, the reconciler and the server have been started.
Wired == http # "off"

-----------------------------------------------------------------------------
(* The boot.  A step that fails returns through the deferred closes.        *)

Load ==
    /\ main = "load"
    /\ main' = IF Valid(cfg) THEN "postgres" ELSE "unwind"
    /\ UNCHANGED <<brokerVars, consumerVars, cfg, opts, opened, signalled, http, sweeping>>

\* The ping of a backend fails at once when the root context is over.
Open(backend, next) ==
    \/ /\ ~signalled
       /\ opened' = opened \cup {backend}
       /\ main' = next
    \/ main' = "unwind" /\ UNCHANGED opened

OpenPostgres ==
    /\ main = "postgres"
    /\ Open("postgres", "migrate")
    /\ UNCHANGED <<brokerVars, consumerVars, cfg, opts, signalled, http, sweeping>>

\* AutoMigrate, which -migrate-only makes the last thing done.
Migrate ==
    /\ main = "migrate"
    /\ main' \in IF cfg.migrateOnly THEN {"unwind"} ELSE {"redis", "unwind"}
    /\ UNCHANGED <<brokerVars, consumerVars, cfg, opts, opened, signalled, http, sweeping>>

OpenRedis ==
    /\ main = "redis"
    /\ Open("redis", "broker")
    /\ UNCHANGED <<brokerVars, consumerVars, cfg, opts, signalled, http, sweeping>>

\* broker.New: a dial that succeeds does not look at the context.
OpenBroker ==
    /\ main = "broker"
    /\ \/ /\ main' = "wire"
          /\ opened' = opened \cup {"broker"}
          /\ conn' = "open"
       \/ main' = "unwind" /\ UNCHANGED <<opened, conn>>
    /\ UNCHANGED <<closed, mu, pub, consumerVars, cfg, opts, signalled, http, sweeping>>

\* The worker's consumer, the reconciler, the server.
Wire ==
    /\ main = "wire"
    /\ NewConsumer
    /\ opts' = Options(cfg)
    /\ http' = "up"
    /\ main' = "serve"
    /\ UNCHANGED <<brokerVars, cfg, opened, signalled, sweeping>>

-----------------------------------------------------------------------------
(* The select of run, the shutdown and the deferred closes.                 *)

Goto(next) ==
    /\ main' = next
    /\ UNCHANGED <<cfg, opts, opened, signalled, http, sweeping>>

\* ShutdownWithContext begins: no more requests, and their contexts are over.
SeeSignal ==
    /\ main = "serve"
    /\ signalled
    /\ main' = "http"
    /\ http' = "down"
    /\ UNCHANGED <<brokerVars, consumerVars, cfg, opts, opened, signalled, sweeping>>

SeeListenError ==
    /\ main = "serve"
    /\ http = "failed"
    /\ Goto("unwind")
    /\ UNCHANGED <<brokerVars, consumerVars>>

SeeBrokerLost ==
    /\ main = "serve"
    /\ conn = "lost"
    /\ Goto("unwind")
    /\ UNCHANGED <<brokerVars, consumerVars>>

\* The requests are done, or the timeout has passed; then consumer.Stop.
ShutDown ==
    /\ main = "http"
    /\ Goto("stop")
    /\ CloseStop
    /\ UNCHANGED brokerVars

\* The Wait of Stop returns.
Stopped ==
    /\ main = "stop"
    /\ loop = "gone"
    /\ Goto("unwind")
    /\ UNCHANGED <<brokerVars, consumerVars>>

\* Mutant: Close does not stop the consumers it has registered.
CloseBroker_NoDrain ==
    /\ main = "unwind"
    /\ "broker" \in opened
    /\ MarkClosed
    /\ Goto("close")
    /\ UNCHANGED consumerVars

\* Close: the flag, then Stop, which returns at once if main has called it.
CloseBroker ==
    /\ main = "unwind"
    /\ "broker" \in opened
    /\ MarkClosed
    /\ CloseStop
    /\ Goto(IF stopped THEN "close" ELSE "drain")

Drained ==
    /\ main = "drain"
    /\ loop = "gone"
    /\ Goto("close")
    /\ UNCHANGED <<brokerVars, consumerVars>>

DropConnection ==
    /\ main = "close"
    /\ CloseConnection
    /\ opened' = opened \ {"broker"}
    /\ main' = "unwind"
    /\ UNCHANGED <<consumerVars, cfg, opts, signalled, http, sweeping>>

\* Deferred calls run in the reverse order of their defer statements.
CloseRedis ==
    /\ main = "unwind"
    /\ "redis" \in opened /\ "broker" \notin opened
    /\ opened' = opened \ {"redis"}
    /\ UNCHANGED <<brokerVars, consumerVars, cfg, opts, main, signalled, http, sweeping>>

ClosePostgres ==
    /\ main = "unwind"
    /\ "postgres" \in opened /\ "redis" \notin opened
    /\ opened' = opened \ {"postgres"}
    /\ UNCHANGED <<brokerVars, consumerVars, cfg, opts, main, signalled, http, sweeping>>

Exit ==
    /\ main = "unwind"
    /\ opened = {}
    /\ Goto("exited")
    /\ UNCHANGED <<brokerVars, consumerVars>>

-----------------------------------------------------------------------------
(* The goroutines, which end only with the process.                         *)

\* A request has committed its row and publishes the event.
Create(p) ==
    /\ http = "up"
    /\ CallPublish(p)
    /\ UNCHANGED <<consumerVars, processVars>>

\* FindStale has found rows; with the context over, or Postgres closed, it fails.
Sweep ==
    /\ Wired /\ cfg.enabled
    /\ ~sweeping /\ ~signalled /\ "postgres" \in opened
    /\ sweeping' = TRUE
    /\ UNCHANGED <<brokerVars, consumerVars, cfg, opts, main, opened, signalled, http>>

RepublishCreated ==
    /\ sweeping
    /\ CallPublish(Sweeper)
    /\ UNCHANGED <<consumerVars, processVars>>

EndSweep ==
    /\ sweeping
    /\ pub[Sweeper] = "idle"
    /\ sweeping' = FALSE
    /\ UNCHANGED <<brokerVars, consumerVars, cfg, opts, main, opened, signalled, http>>

\* A sweep has the root context, a request that of the server.
CtxOver(p) == IF p = Sweeper THEN signalled ELSE http = "down"

PublishStep(p) ==
    /\ Publish(p) \/ Confirm(p) \/ ConfirmsClosed(p) \/ Abandon(p, CtxOver(p))
    /\ UNCHANGED <<consumerVars, processVars>>

\* A send on a lost connection, a late delivery and the rest of run.
ConsumerStep ==
    /\ \/ OpenChannel \/ Receive \/ Settle \/ ChannelCloses
       \/ SeeClosed \/ SeeStop \/ BackoffOver
    /\ UNCHANGED <<brokerVars, processVars>>

Goroutine ==
    \/ \E p \in Request : Create(p)
    \/ Sweep \/ RepublishCreated \/ EndSweep
    \/ \E p \in Publisher : PublishStep(p)
    \/ ConsumerStep

-----------------------------------------------------------------------------
(* The environment.                                                         *)

Signal ==
    /\ main # "load" /\ ~signalled
    /\ signalled' = TRUE
    /\ UNCHANGED <<brokerVars, consumerVars, cfg, opts, main, opened, http, sweeping>>

ListenFails ==
    /\ http = "up"
    /\ http' = "failed"
    /\ UNCHANGED <<brokerVars, consumerVars, cfg, opts, main, opened, signalled, sweeping>>

\* The connection drops, and every channel with it.
ConnectionLost ==
    /\ conn = "open"
    /\ conn' = "lost"
    /\ channelUp' = FALSE
    /\ UNCHANGED <<closed, mu, pub, loop, attempt, stopped, failuresLeft, processVars>>

-----------------------------------------------------------------------------
BootStep == Load \/ OpenPostgres \/ Migrate \/ OpenRedis \/ OpenBroker \/ Wire

EndStep ==
    \/ SeeSignal \/ SeeListenError \/ SeeBrokerLost \/ ShutDown \/ Stopped
    \/ CloseBroker \/ Drained \/ DropConnection \/ CloseRedis \/ ClosePostgres \/ Exit

Next ==
    \/ BootStep \/ EndStep
    \/ Alive /\ (Goroutine \/ Signal \/ ListenFails \/ ConnectionLost)

Spec == Init /\ [][Next]_vars

\* main goes on when it can, and a mutex, a select and a timer treat nobody
\* unfairly for ever.  DropConnection waits for the server to answer the close of
\* the channel and of the connection: that it answers is assumed.  Nothing makes
\* the server confirm, a client ask, a delivery arrive, a signal come or a
\* failure happen.
Fairness ==
    /\ WF_vars(BootStep) /\ WF_vars(EndStep) /\ SF_vars(CloseBroker)
    /\ \A p \in Publisher :
        /\ SF_vars(Alive /\ Publish(p) /\ UNCHANGED <<consumerVars, processVars>>)
        /\ WF_vars(Alive /\ ConfirmsClosed(p) /\ UNCHANGED <<consumerVars, processVars>>)
        /\ WF_vars(Alive /\ Abandon(p, CtxOver(p)) /\ UNCHANGED <<consumerVars, processVars>>)
    /\ WF_vars(Alive /\ (OpenChannel \/ Settle \/ SeeClosed \/ BackoffOver)
                     /\ UNCHANGED <<brokerVars, processVars>>)
    /\ SF_vars(Alive /\ SeeStop /\ UNCHANGED <<brokerVars, processVars>>)

FairSpec == Spec /\ Fairness

-----------------------------------------------------------------------------
(* Properties.                                                              *)

\* A handler at work has every backend it uses: on none of the ways out of run
\* does a deferred close overtake the delivery in hand, although Stop returns
\* at once when it is called a second time.
HandlerHasBackends ==
    loop = "handling" => opened = Backend /\ conn # "closed"

\* Close never cuts off a publish that waits for its confirm: the flag is set
\* with the mutex held, and no publish gets past the flag afterwards.
NoPublishUnderClose ==
    closed => \A p \in Publisher : pub[p] # "confirm"

\* A process that was told to stop exits, although the broker may withhold
\* every confirm, hand out deliveries without end or drop the connection, and
\* Close waits for a mutex that publishers hold while they wait.
ShutdownCompletes == main = "http" ~> main = "exited"

\* A process that gives up on its own exits once no confirm is withheld for
\* ever: the root context is not over then, so nothing else ends such a wait.
ExitsAfterFailure ==
    (\A p \in Publisher : []<>(pub[p] # "confirm")) => (main = "unwind" ~> main = "exited")

\* As many channels have failed in the life of the process as run has attempts.
Exhausted == MaxFailures - failuresLeft >= MaxAttempts

\* The consumer is at its deliveries again after each failed channel, unless it
\* is stopped, the connection goes or the process ends; it is gone for good once
\* its attempts are used up, and not before.
ConsumerRecovers ==
    loop \in {"open", "backoff"} ~>
        loop \in {"select", "handling"} \/ Exhausted \/ stopped \/ conn # "open" \/ ~Alive

\* Whatever the environment holds, the loop that runs has a ticker that does
\* not panic, cut-offs in the past and a batch that makes progress.
SweepsCanRun ==
    (Wired /\ cfg.enabled) =>
        opts.interval > 0 /\ opts.grace > 0 /\ opts.timeout > 0 /\ opts.batch > 0

\* validate compares the settings and New replaces them afterwards.  A loop that
\* sweeps more often than its grace window allows has slipped through in one way
\* only: an interval that is not positive, made one minute by New, beside a grace
\* window of less than that; no other mixture of unset, zero, negative and
\* positive settings gets there.
ShortGraceByZeroInterval ==
    (Wired /\ cfg.enabled /\ opts.grace < opts.interval) =>
        /\ cfg.interval <= 0 /\ opts.interval = 2
        /\ 0 < cfg.grace /\ cfg.grace < 2 /\ opts.grace = cfg.grace

-----------------------------------------------------------------------------
(* The inductive invariant behind HandlerHasBackends, NoPublishUnderClose   *)
(* and the two properties of the options.                                   *)

\* Only a consumer that has given up is past its last attempt.
AttemptInv == loop # "gone" => attempt <= MaxAttempts

\* Who waits for a confirm holds the mutex, and nobody does once Close has set
\* its flag.
LockInv ==
    /\ \A p \in Publisher : pub[p] = "confirm" => mu = p
    /\ closed => mu = Nobody

\* What is open at each step of the boot.
BootInv ==
    /\ main \in Boot => loop = "none" /\ http = "off"
    /\ main \in {"load", "postgres"} => opened = {}
    /\ main \in {"migrate", "redis"} => opened = {"postgres"}
    /\ main = "broker" => opened = {"postgres", "redis"}
    /\ main = "wire" => opened = Backend

\* The consumer runs only while its backends are open, and past Stop main waits
\* for its end before it closes any of them.
DrainInv ==
    /\ "broker" \in opened => opened = Backend /\ conn # "closed"
    /\ main \in {"serve", "http", "stop", "drain", "close"} => "broker" \in opened
    /\ loop \notin {"none", "gone"} => "broker" \in opened
    /\ main \in Boot \cup {"serve", "http"} => ~stopped
    /\ main = "close" => loop = "gone"
    /\ (main = "unwind" /\ "broker" \in opened /\ stopped) => loop = "gone"

\* What runs was validated, and has the options New made.
OptionsInv ==
    /\ (Wired \/ main \in Boot \ {"load"}) => Valid(cfg)
    /\ Wired => opts = Options(cfg)
    /\ main = "serve" => Wired

ProcessInv == TypeOK /\ AttemptInv /\ LockInv /\ BootInv /\ DrainInv /\ OptionsInv
=============================================================================
