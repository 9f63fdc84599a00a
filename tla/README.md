# Verification of golang-staterpack

A TLA+ development of the repository under `src/`: an HTTP API for tasks, each
of which is summarised by an LLM in the background. TLC checks the modules on
small instances, TLAPS proves the theorems of the `*Proofs` modules for every
value of the constants. `PROJECT.json` maps each definition to the lines it
models and lists runs, mutants, findings, hazards and theorems.

## The system

Several replicas of one binary (`cmd/api`) share a Postgres table, a Redis and a
RabbitMQ queue. Each replica runs HTTP handlers, one consumer goroutine and,
unless it is disabled, one reconciler goroutine.

| Part | State it keeps | Operations | Talks to |
|---|---|---|---|
| HTTP transport (`internal/transport/http`) | none (counter in Redis) | create, list, get, delete, health, rate limit | service, Redis |
| Task service (`internal/service`) | none of its own | Create, Get, List, Delete, BeginProcessing, ApplySummary, MarkPending, RepublishCreated | repository, cache, publisher |
| Repository (`internal/repository`) | rows: status, created_at, updated_at, deleted_at | Create, GetByID, UpdateStatus, Delete, MarkProcessing, FindStale | Postgres |
| Cache (in the service) | `task:<id>` entries with a five-minute TTL | read-through, refresh, invalidate | Redis |
| Publisher (`internal/broker/broker.go`) | a confirm-mode channel under a mutex, the closed flag | Publish, Close | RabbitMQ |
| Consumer (`internal/broker/consumer.go`) | a channel, the attempts of its loop, the delivery in hand | run, handle, retry, dead-letter, Stop | RabbitMQ, worker |
| Dedupe guard (`internal/broker/dedupe.go`) | `processed:event:<id>` markers | Claim, Release | Redis |
| Worker (`internal/worker`) | none | Handle | dedupe, service, LLM |
| Reconciler (`internal/reconciler`) | the batch of the running sweep | Run, Sweep | service |
| Configuration (`internal/config`) | the parsed environment | Load, validate | every part at boot |
| Process (`cmd/api/main.go`) | contexts, goroutines, deferred closes | run, shutdown | every part |

`Create` commits a row and then publishes `task.created`. A consumer delivers
the message to the worker, which takes the dedupe marker of the event, claims the
row with a conditional UPDATE, asks the LLM and writes the summary. An error
releases the marker, resets the row and lets the consumer publish a retry copy
or dead-letter the message. The reconciler looks for rows pending or processing
for too long, resets the processing ones and publishes a new event for each.

What makes each part correct:

- *pipeline*: one worker at a time owns a task; completed work is not taken
  back; the sweep resets only abandoned rows; a retry that is queued may run;
  every task that can be summarised is, in the end;
- *cache*: an entry is outdated only in the ways the design accepts, and agrees
  with the row in the end;
- *rate limiter*: the counter lets no more than the limit through in a window, and
  a client that waits, or never exceeds the limit, is served;
- *process*: backends outlive the handler that uses them on every way out of
  `run`; nobody is caught in `Publish` by `Close`; a process told to stop, stops;
- *consumer loop*: after a failed channel it is at its deliveries again;
- *listing*: what a client that pages through the list misses or is given twice
  is accounted for by what others wrote meanwhile;
- *configuration*: the loop that starts has usable options and a grace window
  that covers its interval.

What is hard to test here is listed under `hazards` in `PROJECT.json`: the
interleaving of duplicate deliveries, a snapshot used after it went stale, a
crash between commit and publish or after the claim, a deadline racing the
presumption of death, a channel lost under a running handler, a commit whose
answer is lost, a fill of the cache overtaken by a write, a mutex held across a
wait for the broker, goroutines nobody awaits at shutdown, a loop that counts
its failures for life, pages that shift under a reader, and boundary values of
the configuration.

## Modules

| Module | Models | Used by |
|---|---|---|
| `TaskPipeline` | create → queue → worker → reconciler, on every replica | `TaskPipelineProofs`, `RetryProofs`, `MCTaskPipeline` |
| `TaskLifecycle` | abstract specification of the life of a task | `TaskPipeline` (refinement), `TaskLifecycleProofs` |
| `TaskCache` | the cache entry of one task | `TaskCacheProofs`, `MCTaskCache` |
| `RateLimiter` | the limiter for one address | `RateLimiterProofs`, `MCRateLimiter` |
| `TaskListing` | paging through the list while others write | `TaskListingProofs`, `MCTaskListing` |
| `Broker` | connection, publish mutex, confirm, Close | `Consumer`, `Process` |
| `Consumer` | the goroutine of `run`, Stop | `Process` |
| `ReconcilerConfig` | environment → config → reconciler options (operators) | `Process` |
| `Process` | one process from boot to exit, with its goroutines | `ProcessProofs`, `MCProcess` |

### TaskPipeline

State and code:

| Variable | Code |
|---|---|
| `status`, `createdAge`, `updatedAge` | the row; ages instead of timestamps, saturating one past the threshold they are compared with, counted while a sweep could select the row |
| `publishing` | a `Create` request between its insert and its publish |
| `queue`, `dlq` | copies of each message ready for delivery; what was dead-lettered |
| `markers` | `processed:event:<id>` keys |
| `pc`, `held`, `linked`, `elapsed` | the consumer goroutine: next call of `Handle`, its delivery, whether the delivery's channel is open, time since `handle` made its context |
| `batch` | rows a sweep has read and not yet republished, as they were read |
| `faultsLeft` | the failures still allowed (a bound) |

An action is one call that leaves the process, because any other goroutine or
replica may run between two such calls; what `Handle` does between two calls
is part of the action. Every action has the branches of the code: success, the
condition that turns the caller away, an error, and, for writes, a commit whose
answer is lost. `RepublishCreated` of the service is two actions,
`ResetStranded` and the publish, since workers run between them.

Abstractions and bounds:

- Payloads are ids. Bodies come from `event.New`, so undecodable bodies and
  foreign types do not occur. `MarkFailed` and `Update` have no caller.
- Event ids are fresh UUIDs. The set `Event` is a pool: an id may be lent
  again when no copy carries it, and then has no marker, so a lent id behaves
  as a fresh one. `Event` bounds the events outstanding at one time.
- Queue order is not kept: any ready message may be delivered next. This covers
  redelivery and prefetching on several replicas.
- Prefetched deliveries a replica has not begun are counted as ready.
- A call made after the delivery's deadline fails without effect; a statement
  already sent when the deadline passes is one of the "lost answer" cases.
- `Tick` may not carry a delivery to its deadline without spending a `stall`
  failure: handlers normally end in time.
- The clocks of replicas and database agree, and a tick is long against a call.
- The interval of the ticker is open: a sweep may start whenever the previous
  one is over. A `FindStale` that fails changes nothing and is a stutter.
- `Poison` tasks stand for texts the LLM rejects whenever it is asked.

`CompletedIsFinal`, `SingleOwner` and the refinement depend on three facts about
the deployment that nothing in the code enforces. They are gathered in
`SafeDeployment`: one sweep loop, `HandlerTimeout <= ProcessingTimeout` (two
minutes against ten by default; `validate` does not compare them), and a
database that does not commit what it reports as failed. The run
`pipeline_two_reconcilers` shows what happens without the first. Without the
third (`"ambiguous"` in `Faults`), `CompletedIsFinal` fails: when the commit of
`ApplySummary` succeeds and its answer is lost, the error path of `Handle` puts
the completed row back to pending.

`TaskLifecycle` says what a client of the pipeline may rely on: a task is taken
up only while pending and unheld, ended only by its holder, rescued only when
nobody holds it, removed at any time, final once completed. The refinement maps
`holders[t]` to the replicas whose handler has claimed `t`, has not given it
back, and whose context is still good.

### TaskCache

One row, one entry with its TTL, any number of requests and of background callers
(workers, the reconciler). Each service call is a database step and then a cache
step, so the `Del` of one writer may come after the next writer's update. From
which status an update starts is what `TaskPipeline` shows. `ttl` is set by `Fill`
and by nothing else; a hit leaves it alone. The history variable `tainted` records
that the present entry was filled with an outdated copy or survived a cache step
that should have replaced it.

### RateLimiter

`Increment` is the transaction of `redisRateIncrementer`, `Request` and
`RequestFailsOpen` are the two branches of the middleware. `requests` (how many in
each tick) and `admitted` (a set: each admitted request is its tick and its number
in the tick) keep the last window for the properties only. `MaxCount` ends the
exploration of an ever refused client; it lies well above `Limit`.

### TaskListing

`Count` and `Find` are the two statements of the repository's `List`; `Find` also
answers, and the client asks on from the rows it has received until it has as
many as the total or gets none. Tasks are numbered by `created_at`, which is
assumed to differ: the code gives no second key, and equal timestamps would leave
the order to the database. Limits lie on both sides of the accepted range, scaled
down from 1..100 with default 20 to 1..3 with default 2. `kept`, `deletes`,
`creates` and `late` are history.

### Broker, Consumer, ReconcilerConfig, Process

`Process` extends the three others and composes them.

| Variable | Code |
|---|---|
| `conn`, `closed`, `mu` | `Broker.conn`, `Broker.closed`, `Broker.mu` |
| `pub` | where each caller is in `Publish`: outside, waiting for `mu`, waiting for the confirm |
| `loop`, `attempt`, `channelUp`, `stopped` | `Consumer.run` and `consumeOnce`, the loop variable, the channel, `Consumer.stopped` |
| `cfg`, `opts` | what `Load` returned, what `reconciler.New` made of it |
| `main` | the statement of `run`: boot steps, select (`serve`), HTTP shutdown, Stop, the deferred closes (`unwind`, `drain`, `close`) |
| `opened` | backends whose deferred `Close` has not run |
| `signalled` | the root context is over |
| `http`, `sweeping` | the server, a sweep that has found rows |

- *Boot.* Every step may fail and returns through the closes deferred so far.
  With the root context over, pings fail; a dial of RabbitMQ does not look at it.
- *Ways out.* A signal leads through `ShutdownWithContext` and `Stop`; a listen
  error and a lost connection return at once. `brk.Close` sets the flag under the
  mutex, stops the consumers (a second `Stop` returns at once) and only then
  closes the connection; Redis and Postgres follow.
- *Goroutines.* Requests may begin while the server is up, also while `run`
  unwinds after a lost connection. Their context ends when the server shuts down,
  that of a sweep with the root context. Neither is awaited by `run`; they end
  with the process. `Publish` waits for the mutex without a context.
- *Time* is abstracted: `SHUTDOWN_TIMEOUT`, a backoff and a handler's two minutes
  may be over at any moment. The broker's confirm may never come.
- *Configuration.* `ReconcilerConfig` gives `getInt`, `getDuration`, `Load`,
  `validate` and `New` as operators, in half minutes. A parse error, an unset and
  an empty variable are alike. `POSTGRES_DB` and `RABBITMQ_URL` fall back when
  empty, so those two checks of `validate` never fire.
- *Bound.* `MaxFailures` channels fail while the connection stands.

## Runs

| Run | Result | What it shows |
|---|---|---|
| `pipeline_safety` | holds | ownership, snapshot, finality, no rework, refinement under any two failures except a lost commit answer |
| `pipeline_live` | holds | every task completes or is deleted after any one failure |
| `pipeline_retry` | holds | a task the LLM always rejects, three retries, one failed publish: retries are not suppressed; before the failure no event of a waiting task is lost |
| `pipeline_two_reconcilers` | violated | two sweeps, two owners |
| `pipeline_suppressed` | violated | a failed claim keeps the marker, its retries are dropped |
| `pipeline_starved` | violated | a batch full of permanently failing tasks starves a younger one |
| `cache_coherence` | holds | causes of outdated entries; a row no longer written is not contradicted for ever |
| `cache_deleted` | violated | a late fill revives a deleted task until the TTL ends |
| `rate_window` | holds | the counter lets no more than the limit through in any window, and silence readmits |
| `rate_modest` | violated | the window slides with every request |
| `process_shutdown` | holds | backends outlive the handler, `Close` and `Publish` do not meet, shutdown completes, the consumer recovers until its attempts are used up, the loop that starts can run |
| `listing` | holds | a reader's missing and repeated tasks are explained by concurrent writes |

A violated run checks one property that a doc or a comment states; the entry
under `findings` quotes it. Further limits of the properties, which other
constants or a stronger statement bring out:

- `RetryRuns` fails as soon as any kind of failure but `"llm"` and `"publish"` is
  in `Faults`: a crash, a database or Redis error, a lost commit answer, a lost
  channel or a stall. With `"channel"`, for example, `Handle` releases
  the marker before it resets the row, and a copy redelivered after a lost channel
  can take the marker in between, find the task in processing and be acked.
- A late fill of `Get` can also put `processing` back after `ApplySummary` has
  refreshed the entry.
- With `BatchSize = 2`, room for the failing task and the other, the instance of
  `pipeline_starved` satisfies `EveryTaskCompletes`.
- `NoRework` ends with the first failure: a lost channel or a stall makes the code
  do work again, as it should.
- `ConsumerRecovers` without `Exhausted` fails with `MaxFailures = MaxAttempts`: the
  consumer is gone for good after that many channels have failed, however long each
  of them worked, and neither the select of `run` nor the health handler looks at it.
- `ShutdownCompletes` and `ExitsAfterFailure` assume that the server answers the
  closes of the channel and the connection: `Close` waits for both without a limit.
- `CompletedIsFinal` is checked and proved without lost commit answers, `RetryRuns`
  without lost channels; what they say does not cover those hazards.
- `ExitsAfterFailure` needs its premise: after a listen error neither the root context
  nor that of a request is over, and a publish whose confirm never comes keeps the
  mutex `Close` asks for.
- The handler of `List` echoes the limit it was asked for, not the one used. The
  client of `TaskListing` advances by rows received; one that advances by the
  echoed limit passes over rows.
- `ShortGraceByZeroInterval` names an exception to what `src/README.md:168` and
  `src/docs/reconciler.md:80` promise, a grace window never below the interval:
  `validate` compares raw values, and `New` replaces an interval of zero by one
  minute afterwards, so an interval of 0 with a grace window of 30s is accepted. The
  property says that there is no other way.
- `AdmittedBounded` counts what the counter lets through. Requests let through
  because Redis does not answer come on top.

**Bounds.** Two replicas are the fewest on which a redelivery or a second sweep
meets a running worker, and the proofs cover any number. One task suffices for
the safety properties, which speak of one task at a time and whose tasks
interact only through the batch limit; the runs about that limit have two. Two
event ids let an original and a republished event of one task be under way
together. One retry distinguishes first, repeated and exhausted attempts;
`pipeline_retry` uses the real limit of three and one task the LLM always rejects,
which goes through all its attempts to the dead letters, again and again, while
sweeps publish it under the second id. A rejection is no failure in `Faults`, so
`EventUnderway`, which speaks of the time before the first failure, sees them all;
that a text accepted at a later attempt changes nothing is left to the theorems.
`HandlerTimeout` and
`ProcessingTimeout` are 2 so that a delivery can be young, old and dead, and a row
fresh, old and stale. Two failures allow one to hit the recovery from the other.
`process_shutdown` has two requests and the sweep, so that one waits for the mutex
while another holds it and a third asks; three attempts and three failed channels
let the consumer come back twice and then be gone; eight environments cover the
outcomes of `Load` (defaults, values `New` replaces, values `validate` refuses, no reconciler, `-migrate-only`). `cache_coherence`
has three requests, so that two fills can overlap a write and a third request hits,
and two background callers, so that one's invalidation can overlap the other's
write; a TTL of two ticks tells a fresh entry from an old one. Five tasks
with pages of one to three rows give a reading of several pages in which rows
shift more than once.

**Deadlock** is checked wherever the system runs for ever; it is off for the process,
which exits, and for the reading of the list, which ends. That the process does
not hang before it exits is `ShutdownCompletes` and `ExitsAfterFailure`.

**Fairness.** Weak fairness of a handler's next call, of a request's publish
and of the sweep loop: a goroutine that can go on is scheduled, calls have
deadlines, and the loop of `Run` goes on after any error. Weak fairness of time.
Strong fairness of the delivery of a task's messages: RabbitMQ hands out ready
messages in queue order, and a consumer is free again and again but not always.
Nothing is assumed of requests: `Create` and `Delete` need never happen. For the
cache, weak fairness of time alone: no caller need go on. For the process, weak fairness of `main`'s steps, of the
consumer's and of a wait whose context or connection is over; strong fairness of
taking the mutex (Go's mutex hands it to a waiter that starves) and of noticing
`stop` (a select chooses among its ready cases at random). Nothing makes a confirm, a
request, a delivery or a signal come. Failures are never forced.

## Proofs

`TaskPipelineProofs`, for all constants that satisfy the named assumptions:

- `TypeCorrect`: `Spec => []TypeOK`. One lemma for each group of actions
  (`HandlerStepType`, `ReconcilerStepType`, `EnvironmentType`), on top of lemmas
  about `Goto`, `Finish`, `Publish`, `UpdateStatus` and `MarkProcessing`.
- `InvariantHolds`: `SafeDeployment` and `Spec` give `[]PipelineInv`.
- `SingleOwnerHolds`, `ClaimBackedHolds`, `SnapshotAbandonedHolds` and
  `CompletedIsFinalHolds` follow from it.
- `NoReworkHolds`: with `WorkUnbroken`, which says that before the first failure every
  context is good, only rejected tasks are given back, and a row in processing has
  its worker; so the sweep's snapshot, whose processing rows nobody owns, names no
  row somebody works on.

`SingleOwner` alone is not inductive: nothing in it prevents a row from being
pending while a worker holds it, nor the sweep from resetting a held row. Two
strengthenings are needed. `ClaimBacked`: a claim that can act is backed by a row
in `processing` whose `updated_at` is no older than the delivery; so a row stale
for `ProcessingTimeout >= HandlerTimeout` belongs to a worker past its deadline.
`SnapshotAbandoned`: a row the sweep has read as processing stays abandoned until
its turn comes, because only the single sweep loop can take an abandoned row
out of `processing`. With both, the unconditional reset cannot hit a row somebody
owns, nor a completed one. TLC checks both parts in `pipeline_safety`. The lemma
`Preserved` covers the steps that leave rows, batches and claims alone.

`TaskLifecycleProofs` proves the refinement, `ImplementsLifecycleHolds`, under
`SafeDeployment` and from `PipelineInv`: a conditional claim is a `TakeUp` because
`ClaimBacked` leaves a pending row without holder; an update by a live holder is a
`Settle`, since `SingleOwner` makes it the only one and `ClaimBacked` gives the row's
state; a reset is a `Rescue` by `SnapshotAbandoned`. Every other step keeps the rows
and can only end claims (`ClaimsLapse`).

`ProcessProofs`, for any requests, environments, attempts and failures:
`InvariantHolds` gives `[]ProcessInv`, and from it follow `TypeCorrect`,
`HandlerHasBackendsHolds`, `NoPublishUnderCloseHolds`, `SweepsCanRunHolds` and
`ShortGraceByZeroIntervalHolds`. Its parts beside types: `AttemptInv` bounds the
attempts of a consumer that has not given up; `LockInv` ties the mutex to the wait
for a confirm; `BootInv` says what is open at each step of the boot; `DrainInv` that
the consumer runs only while the broker is open, the broker only with the other two,
and that past `Stop` the consumer is gone before anything closes (without its last
conjunct, a second `Stop` that returns at once would break `HandlerHasBackends`);
`OptionsInv` that what runs was validated.

`TaskCacheProofs` proves `TypeOK` and `StaleOnlyByRace` for any number of requests,
background callers and failures and every TTL, with `DeletedEntryDoomed`, which says that the entry of a deleted row
is about to be dropped or is tainted.

`RetryProofs` is about events and their markers.

- `RetryRunsHolds`: a retry or a redelivery finds no marker of its own event,
  under `RetryDeployment`, in which only LLM calls and publishes fail. The
  assumption cannot be weaker (see the limits under *Runs*). A copy of an event
  could be taken for a duplicate only if another copy of it had been delivered and
  set the marker, so the invariant `RetryInv` says where copies are. `OneCopy`: an
  event has at most one copy that is still to run, on the queue or in a handler
  that has not decided. `MarkerFollowsClaim`: an event on the queue has no marker,
  nor has one whose handler stands before `Claim` or after `Release`.
  `Undisturbed`: no delivery is past its deadline or cut off, so none is
  redelivered while its handler still works.
- `OneCopyHolds` states the middle part by itself: at-least-once delivery is
  exactly-once as long as those failures stay away.
- `EventUnderwayHolds`: before the first failure every pending task has a request
  about to publish it, a copy on the queue, or a handler about to claim it or to
  publish its retry; or its last attempt is among the dead letters. It holds under
  `SafeDeployment`, whatever failures are allowed later. The invariant is `CalmInv`,
  `RetryInv` and the property until the first failure. It needs `PipelineInv` and
  `WorkUnbroken` too, by which the sweep resets no row before that (`ResetIdle`):
  a row reset and not yet republished would be pending without an event.

The lemmas are about *harmless* steps, in which none of the other failures happens:
every step of a `RetryDeployment` is harmless, and so is every step that
spends no failure, which lets the theorems share them.

`TaskListingProofs` proves `TypeOK`, `MissesExplained` and `RepeatsExplained` for any
set of tasks and limits. Positions are cardinalities of sets of younger tasks,
and the lemmas about ranks come first: the rank of a task is unique, grows by one
with a younger task and shrinks by one when a younger one goes, and the page at an
offset is the band of ranks behind it (`PageIsBand`). The two properties speak of
what the client has seen and not of where it stands, so neither is inductive.
`ListingInv` adds it: the kept tasks the client has passed unseen are no more than
the deletions (`PassedUnseenInv`); the repeats so far and the seen tasks that still
lie ahead are together no more than the creations (`SeenAheadInv`); and at `Find`
the rows exceed the total by no more than the creations since `Count` (`CountInv`).

`RateLimiterProofs` proves `TypeOK`, `SilenceReadmits` and `AdmittedBounded` for
every limit and window. `KeyBacked` makes the second inductive: the request that last
extended the key is still in the history as long as the key lives.
`AdmittedCounted` makes the third: every admitted request of the window came while
the present key has lived, and the key counts it; so none is left in the window
when the key expires and the count starts again.

Only model-checked: liveness under fairness (`EveryTaskCompletes`,
`EventuallyCoherent`, `ShutdownCompletes`, `ExitsAfterFailure`, `ConsumerRecovers`), which
is out of the prover's reach. Every other property of a passing run is a theorem.

## Not modelled

- The delay of a retry, which the code computes and does not wait for: the model
  lets a copy be delivered at once. The growth of the queue by repeated sweeps,
  which depends on the interval; `NoRework` shows the copies do no harm.
- The orchestrator's grace period: `TaskPipeline` has the kill as a crash.
- A publish channel the server closes while the connection stays: the code neither
  notices nor reopens it, and only a change of the broker's own configuration does it.
- HTTP routing, body parsing, error mapping, request ids and health probes, which
  keep no state; the topology, which is declared the same way every time; the text
  of titles, descriptions and summaries; the LLM exchange; logging; the DDL of
  migrations; Kubernetes and compose files.

## Plan

1. Done: `TaskPipeline`, `TaskLifecycle` and its refinement, `TaskCache`,
   `RateLimiter`, `ReconcilerConfig`; type correctness, ownership and finality of
   the pipeline, coherence of the cache.
2. Done: `Broker`, `Consumer`, `Process`, `TaskListing`, `NoRework`; theorems about the
   process, the refinement of `TaskLifecycle`, the limiter.
3. Done: `RetryRuns` and `EventUnderway` of the pipeline, `AdmittedBounded` of the
   limiter, `MissesExplained` and `RepeatsExplained` of the listing as theorems.
4. Validation of titles and error mapping as operators with a reference definition.
