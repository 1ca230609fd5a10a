# A TLA+ development for log-foundry

log-foundry is a structured logging library: `@trace` buffers a span's events, a background worker
delivers them to a sink, and level calls outside a span go straight to the sink. The hard part is
not logging. It is delivery and its end: a daemon thread and its queue, callers that flush and stop
it with deadlines, sinks that raise, hang, kill the thread or call back, sinks that are swapped
while the drain may be inside them, and a process that exits in the middle of all that. These
modules model that part, and what each sink does with a batch it is given: how it cuts it into
requests, what it makes of an answer or of none, and whether every event is delivered or counted.
TLC checks the modules on small instances, and TLAPS proves most of their safety properties, and that the
worker implements its contract, for every instance.

All paths below are relative to `src/log_foundry/`.

## Inventory

| Component | State | Operations | What makes it correct |
|---|---|---|---|
| Worker (`worker.py`) | queue, pending batch, `_stopped`/`_exit_deadline`/`_join_owed` (gate), `_drain_finished`/`_drain_settled`, taken markers, loss counters | `submit`, `flush`, `claim_stop`, `stop`, `retarget`, drain thread | accepted submissions are delivered in order or counted; a truthy `flush()` is true; nobody waits for ever; one caller joins |
| Lifecycle owner (`_lifecycle.py`) | retirement count, owed record, close registry, stop signal, late worker, shutdown depth | `_get_worker`, `_note_orphan_emit`, `_swap_sink`, `_shutdown_worker`, `_close_owed`, `release` | every sink written to is closed by somebody, after the last write, never twice at once, never under the drain |
| Fork repair (`_fork.py`, `_clear_after_fork`, `_rebuild_worker_after_fork`, `Worker._reinit_after_fork`) | locks and threads inherited from the parent | at-fork handlers | the child neither blocks nor re-delivers what the parent owns |
| Spans (`decorator.py`, `context.py`, `model.py`) | span stack and baggage (contextvars), per-span buffer, sweep lock | `_begin`, `_end`, `_sweep_open_spans`, `continue_trace` | each event is handed over once; contexts do not leak |
| Level calls, configuration (`api.py`, `config.py`) | one frozen config object | `_log`, `configure`, `_ensure_sink` | a level call reaches the sink the configuration names and arms its close |
| Sink contract (`sinks/base.py`, `_deferral.py`, `_encode.py`, `_chunk.py`, `_batch.py`, `_retry.py`) | deferred counts of one `emit`, stop signal | `Deferral`, `encode_events`, the chunkers, `adjudicate_positional`, `wait` | a drop counts only if the call returns; `emit` raises only if nothing was acknowledged, so that a retry can be made |
| Wrappers (`multi.py`, `filtering.py`, `transform.py`) | children, absorbed counts | `emit`, `flush`, `close` | one child's failure costs only that child, and is counted once |
| HTTP sinks (`http.py` and its platforms) | byte budget, smallest refused body, counters | `emit`: chunk, send, retry, reduce after a 413; each platform's reading of a 2xx | every event is delivered, counted or handed back; no request is over its limit; reductions end |
| File sinks (`file.py`, `stdout.py`, `sqlite.py`) | stream, size, rollover time | `emit`, `_rotate`, `close` | a failed rotation keeps the order of the backups and loses no more than one |
| Socket sinks (`_socket.py`, `syslog.py`, `logstash.py`) | one connection | send, reset, retry, close | a connection that failed carries no other frame |
| NATS sink (`nats.py`) | event-loop thread, stuck publishes, probe | `emit`, `flush`, `close` | an unconfirmed publish is counted, once |
| Driver-backed sinks | one client each; futures or a queue for Pub/Sub and Kafka | `emit`, `flush`, `close` | the client's answer is accounted for item by item, also if it is no answer |
| Sanitizing, ids, diagnostics, console, results, OpenTelemetry bridge | none, or a cache | pure functions, stderr output | conversions are total |

Interaction: a span's end calls `_get_worker` and `submit`; the drain calls `sink.emit`; `configure`
calls `Worker.retarget` through `_swap_sink`; `shutdown` claims and stops the worker and then closes
what is owed; a sink may call `shutdown()` from `emit`. Shared state is guarded by `_state._lock`,
`Worker._lock` and `_closing_now_lock`, in that order, but many decisions are made on events and
attributes read outside them. Those unlocked reads are where the models have their steps.

The hazards, each at its line and with the properties that would catch it, are listed under
`hazards` in `PROJECT.json`.

## Modules

| Module | Models |
|---|---|
| `Worker` | `worker.py` without `retarget`: submit, flush, shutdown/stop, the drain thread; the sink is external |
| `Delivery` | the abstract contract: a FIFO backlog that leaves a batch at a time, to the sink or to the losses, and flushes that answer for it |
| `WorkerProofs` | theorems about `Worker`: types, who joins, who is waited for |
| `WorkerDeliveryProofs` | theorems about what happens to a submission in `Worker` |
| `WorkerRefinementProofs` | the step simulation: `Worker` implements `Delivery` |
| `Lifecycle` | `_lifecycle.py` with `Worker.retarget` and the calls that reach them; the worker appears by what `Worker` establishes of it |
| `LifecycleProofs` | theorems about `Lifecycle` |
| `Spans` | `decorator.py`, `context.py`, `api._log` and the events of `model.py`: traced calls, level calls, in-span flushes, baggage and adopted traces |
| `Emit` | what every delivering sink's `emit` has in common: the encode step, the deferral, the worker's second call after a raise; and what they promise |
| `RecordSinks` | extends `Emit`: Kinesis, Firehose, SNS, SQS, Event Hubs, ClickHouse, Postgres, SQLite, MongoDB, Redis, RabbitMQ, Syslog (datagrams), Logstash (stream), FileSink |
| `HttpSinks` | extends `Emit`: HTTPSink plain and compressed, Splunk, Datadog, Elasticsearch, Honeycomb, Loki, OTLP, Sentry |
| `ClientBuffers` | GooglePubSubSink and KafkaSink, whose client keeps what it was given, under threads |
| `RotatingFile` | RotatingFileSink over a file system that fails and a process that dies |
| `Wrappers` | MultiSink over FilteringSink and TransformSink |
| `SpansProofs` | theorems about `Spans` |
| `EmitProofs` | theorems about `Emit`, `RecordSinks` and `HttpSinks`, as `MCEmit` composes them |
| `TransportProofs` | theorems about `Wrappers`, `RotatingFile`, `ClientBuffers` and `NatsSink` |
| `Lists` | one operator on sequences that the sinks' modules share |
| `Recursion` | induction and recursion over lists, for the proofs |
| `NatsSink` | NATSSink with the driver's buffer, connection and reconnects |
| `MCWorker`, `MCLifecycle`, `MCSpans` | model values, symmetry, groups of callers and the instances for TLC |
| `MCEmit` | composes `RecordSinks` and `HttpSinks`: the kind of sink is chosen in the initial state |
| `MCTransport` | composes `ClientBuffers`, `RotatingFile`, `Wrappers` and `NatsSink`: a behavior is of one of them |

`Keep` of `Lists`, `Weigh` of `Emit`, `SubmissionsOf` of `Worker` and the operators made of them are recursive
functions and not folds or `SelectSeq`, so that the proofs can unfold them.

Definitions named `X_Something` and commented as faulty variants are deliberate errors in `X`, used
to see that a property notices them. They are part of no specification.

### Worker

One step is one access that another thread can see: a queue operation, a critical section, a read
or a write of an event. Each variable names the attribute it stands for. `pc` says where a caller
is in `submit`, `flush` or `stop`, and `dpc` where the drain thread is in `_run`, `_drain`,
`_final_drain` and `_emit`. The variable names follow the attributes (`finished` is
`_drain_finished`, `settled` is `_drain_settled`, `stopped` is the once-only gate).

Abstractions: there are no clocks. A call with a finite timeout is in `Bounded` and may find its
deadline passed at any moment; the flush interval may have elapsed at any `get`. Each thread makes
one call. A batch is a sequence of submissions, whatever events they hold. Counters for losses are
the sets of submissions counted, so that counting twice is visible. `_in_flight`, which only feeds
a diagnostic, and `health()` are left out. A `flush()` promises what was accepted and unsettled when
its marker is stamped (`owes`), which is where the code takes its count of failures.

In the refinement of `Delivery` the pending batch and the submissions on the queue (`SubmissionsOf`)
are one backlog (`Pipe`), and of a `FlushResult` only its truth counts (`Outcome`).

### Lifecycle

One step is one critical section of `_state._lock` or `Worker._lock`, or one access outside them.
There is at most one worker in a process. Its drain may be inside an emit, end when its event is
set or when an emit raises a `BaseException`, and answer the marker of `retarget`'s flush when it is
outside every emit. That an answered flush means this, that a bounded `stop()` returns and that an
expired one settles the drain is what `Worker` shows. `configure()` is documented as not
thread-safe against itself, so one thread configures, any number of times up to `Configures`, and
races everything else. Stop events are numbered as they are created; `signal[s]` is the one that
sink `s` holds.

Two refusals are constants: `Threadless` lets the platform refuse a detached closer thread, and
`Interrupts` lets a `KeyboardInterrupt` arrive between `_close_owed`'s take and its hand-over.
`dirty`, `leaked`, `builtIn` and `expired` are history variables for the properties.

Left out: forks (every sink belongs to this process), wrappers that own their children, a
`shutdown()` called from inside `emit`, and the emit of a level call itself, which runs on the
caller's thread and which the code does not protect from a concurrent close either.

### Spans

A context is a thread or a task. It has its own span stack, baggage and adopted trace, which `Spawn`
copies as `contextvars` does, while the `Span` objects are shared by every copy. `frames` holds what
each `_begin` returned. A span's events sit in a list, named by the span and a generation: a detach
loads the list and then binds the next generation, as two steps, because the documentation wants the
lock and not the interpreter to keep them together. The append of an event already built is one step,
so the race of an append with the two halves of a detach, which `docs/architecture.md` §13 declines to
close, shows only as far as a level call that has read `closed` may append after the close. The append
of `span.end` is two steps, since the list is loaded before `end_event` is called. The worker reads the
lists it was given in order, each once (`WorkerTake`); what becomes of it then, a full queue included, is in `Worker`.

An event is its place, the ids and the baggage keys it carries. A fresh trace id is named by its span.
`Faults` lets any of the three steps of `_begin`, the building of a level call's event and the building
of a worker fail; `end_event` is total in the code and does not. `shared`, `sealed`, `overtaken` and
`ambient` are history variables for the properties.

Left out in `Spans`: what `@trace` refuses at decoration, `KeyboardInterrupt` inside `_end`, header text, and the
order of events inside a list.

### Emit, RecordSinks, HttpSinks

A batch is `Events`, the numbers 1 to `Size`; `load[e]` is an event's encoded size, 0 for one whose
encoding raises. `call` is where the `emit` is, `entries` the request in hand, `attempt` and
`delivered` the locals of the send loops. `Enter` and `Exit` are the deferral: what a call leaves out
is `pending`, and becomes `dropped` only when the call returns. `Retry` is the worker, which hands the
same batch over again after an exception. The counters are kept by event, so that counting an event
twice, or not at all, can be seen; `failed` is per call, because the code charges each call's losses
anew.

The destination is external. It may acknowledge all or part of a request, reject some of it, answer
with something that cannot be read, refuse it for its size, or say nothing, and a request without an
answer may have landed (`MayLand`). `acked`, `decided`, `landed`, `stored` and `abandoned` are history
variables that say what really happened; the code's own locals only say what the sink believes. How an
error is classified as permanent is a choice; how long a backoff lasts is no state.

Each record sink is a `...Emit` action that encodes, sizes and cuts the batch, and a `...Send` action
that is one call of its client with every outcome the code tells apart. Sinks that share their
code share an operator: `PositionalSend` for Kinesis and Firehose, `ConnSend` for Postgres, RabbitMQ and the
sockets, `WholeSend` for one-shot inserts. The connected sinks have a connection that the server may
drop at any time (`Break`, at most `MaxBreaks` times), and `close` may come between two calls, or
during one where the code takes no lock. `Escape` is an exception that a sink does not catch: of a client
outside the sink's `except`, or of an AWS answer, which is read outside the `try`.

`HttpSinks` keeps the arithmetic of the byte budget: what an item is charged (`ItemSize`), what no
item is charged for (`BodyReserve`), and what the body then weighs (`BodySize`), which for Loki and
OTLP depends on how the records group. A destination has a limit, refuses every larger body with a
413, and the sink halves its budget, sends a lone event at most once (`KnownRefused`), and gives up
after `MaxReductions`. For a compressed body the limit is unrelated to the sizes the sink knows.

### ClientBuffers, RotatingFile, Wrappers, NatsSink

`ClientBuffers` has one step per critical section of `_futures_lock` and per call of the client.
`futures` is the shared list (for Kafka the producer's queue), `hold` what a thread has taken off it.
A future may never settle, and one that takes no timeout may block the thread that waits for it.

`RotatingFile` numbers the files in the order of their creation (`disk[i]` is the generation under
name `i`), has one step per rename, removal and open, and lets each fail, or the process die, between any two.
Every line has size 1 and a scheduled rotation may come at any line.

`Wrappers` is single-threaded, as the worker is; its steps are those after which a child may raise. A
predicate or a transform may answer differently when the batch is handed over again. The inner sinks
keep the contract that `Emit` states of the real ones.

`NatsSink` has the steps between two awaits of the coroutine. A publish goes to the driver's buffer, the
flusher moves it to the connection, the server reads the connection in order, and a PING's turn is its
PONG. A connection that is lost takes what it carries with it. An abandoned publish may still complete
(`Unstick`), and an unanswered probe becomes old at some point (`ProbeAges`).

## Runs

| Run | Instance | Shows |
|---|---|---|
| `worker_hang` | a sink that may raise, kill the thread or never return; queue of 1; 1 submitter, an unbounded flush and a bounded shutdown, or 2 submitters and a bounded flush | `FlushKeepsPromise`; `Worker` implements `Delivery`; the bounded calls return, the flush also when the queue stays full; the unbounded flush returns once the shutdown has given up |
| `worker_stop` | a shutdown with 1 submitter and an unbounded flush, or with a late bounded one and either of the two; a reentrant sink, a retry, queue of 2 | `NoStrandedWaiter`, `NoSilentLoss`, `GivenUpMeansExpired`, `JoinerOwnsDeadline`, `OneSentinel`, `TypeOK`; conditional on `SinkReturns`: every call returns, everything accepted is settled |
| `worker_ledger` | 2 submitters on a queue of 1 around a shutdown | violation, first finding |
| `lifecycle_own` | 2 sinks, a span and a bounded shutdown against a second shutdown and a level call, or a level call and a swap, or two swaps; interrupts, refused threads | no sink is closed under the drain, twice at once or never; the drain keeps its signal; a late worker is retired; the sinks of a single shutdown are closed behind the drain; every shutdown returns |
| `lifecycle_late` | one sink, a level call, a span, two unbounded shutdowns | violation, second finding |
| `spans_all` | one context with 2 spans nested or in turn, baggage, an inbound trace, a flush or a reset; or 2 contexts that share spans and flush twice; a level call, faults | `DeliveredOnce`, `LostOnlyLate`, `OneTracePerSpan`, `BoundaryComplete`, `NothingLeaks`, `StaysOnStack`, `TypeOK` |
| `spans_end` | 2 contexts that share a span, one flush | violation, third finding |
| `emit_sinks` | each of 23 sinks, 3 events of every size, one retry of the sink, two calls of the worker | `Accounted`, `RaiseIsTotal`, `DroppedOnce`, `StaleConnection`, `NoInventedLoss`, `RequestFits`; every emit ends |
| `transport` | Pub/Sub or Kafka under 2 emitting threads, a flush and a close; rotation with 0, 1 or 3 backups and 3 faults; a MultiSink of 2 children and a retry; NATS with 2 calls of 2 events, a reconnect and a close | `NoPublishForgotten`, `RotationKeepsLines`, `FanOutAccounts`, `CountedOnce`; a close ends |
| `emit_retry` | Postgres, Redis or MongoDB, one event, two calls of the worker | violation, fourth finding |
| `rotation_fails` | one backup, one failing call | violation, fifth finding |
| `nats_reconnect` | one core emit of one event, a reconnect | violation, sixth finding |

What the sinks' properties say:

- `Accounted`: a call that returns has lost nothing silently. Each event reached the destination, in
  this call or an earlier one, or is in `losses()`.
- `RaiseIsTotal`: a sink raises only if nothing of the call was acknowledged or settled by a verdict, because
  the worker sends all of it again; and it does not swallow a total failure that a retry might cure. This is
  the rule every sink states for itself, in the face of partial answers, unreadable ones, 413s and lost
  connections. It speaks of answers: an event may have landed without one, and `RetryDuplicatesNothing`, which
  says that this is harmless, does not hold (finding 4).
- `DroppedOnce`: however often the worker hands a batch over, a drop is counted once.
- `StaleConnection`: a connection that was found broken is not used for the next frame.
- `NoInventedLoss`: an event is dropped as too large only if it is. What the sink infers from a larger
  body that was refused costs no event that would have been taken.
- `RequestFits`: the sizes charged to the items bound the body they make.
- `NoPublishForgotten`: a publish has one owner until it is judged, once, whatever emit, flush and
  close do at the same time. A Kafka close leaves nothing unjudged that was produced before it, unless the
  producer's own flush raised out of it.
- `RotationKeepsLines`: the names keep the order of age through every partial rotation, every line of an
  emit that returned was in a file, and a rotation, complete or not, removes at most the oldest file it
  found. That a failed one removes none, as the code says, does not hold (finding 5).
- `FanOutAccounts`: each event has exactly one end at each child over all the calls the worker makes.
- `CountedOnce`: an event of a returned NATS emit is processed or counted, and never counted twice.

Bounds. Races between two calls of the same kind need two threads of it, and the protocols
distinguish at most: a joiner and a loser, a marker ahead of and one behind a submission, a sink
swapped out and one swapped in. A queue of 1 makes the full queue happen at once; a queue of 2 has room
for two sentinels, and three callers fill it. The worker's runs take several sets of callers (`Groups` in `MCWorker`) and let the
members of one of them call: all of them together are beyond a few minutes of TLC, and every safety property
of the worker is a theorem for every set of callers, queue bound, batch size and retry budget, two `flush` calls at once among them. In
`worker_hang` the first submission is inside the emit, the second fills the queue, and the marker's put is
tried until the deadline. There a `BatchSize` of 2 gives a batch that leaves by size and batches that leave by
time or by a marker; the one submission of `worker_stop` leaves by time, by a marker or by the stop.
`MaxRetries` 1 in `worker_stop` reaches the backoff. Two
swaps reach a sink that is swapped out unfenced and configured again. `lifecycle_own` explores the
second shutdown, a level call with a swap, and two swaps beside one shutdown and not with each other (`Apart` in
`MCLifecycle`); all of its invariants are theorems for every combination. Two
contexts are a closer and somebody who shares its span; two spans are a caller and a call inside it, or
two requests, and the second is what a leak of the first would show in. `spans_all` has no baggage and
no inbound trace while two contexts share a span (`Apart` in `MCSpans`): what it shows about them is
promised for one context only.

Three events give a chunk of two and a chunk of one, a partial answer with one event each
accepted, rejected and lost, and, with sizes up to 3, a body of two events that is refused after the one
halving. Two calls of the worker are a call and its repetition. Two emitting threads with a
`MaxPending` of 1 overflow at once. Three backups have a middle one, and one or none take the branches of
`_rotate` without a loop; three faults are a rotation that fails, its recovery that fails, and the next open. Two
NATS calls are one that abandons a publish or a probe and one that meets it. The passing runs together take every action and
every disjunct.

Fairness. `WaitersRun`, `SubmittersRun` and `DrainRuns` say that a thread inside the library's own code
keeps running: the interpreter schedules it, its locks are held for a few statements, and its bounded
waits end. No fairness makes anybody call anything, make a sink misbehave or interrupt a call.
`GroupsSpec` assumes nothing about the sink, and not even that a `submit` goes on. A bounded `flush` whose put
meets a full queue at every try takes `put` and the test of the clock in turn for ever under weak fairness
alone; `BoundedCallsReturn` therefore has `ClockRuns` as its premise, strong fairness on running out of time: the
clock is monotonic, the deadline fixed, and `_put_marker` tests it on every turn. `AllCallsReturn` and
`AcceptedIsSettled` have `SinkReturns` as theirs: an emit comes back, which the sinks' timeouts are for. `Fairness` of `Lifecycle`
assumes also that a close comes back and that a drain that was asked to end does (`AllCallsReturn` of
`Worker`). `EmitEnds` assumes that the emitting thread goes on and that each request is answered or times out;
nothing is assumed about which answer comes. `CloseEnds` assumes only that the thread inside `close`
goes on, of Pub/Sub and of Kafka: no future need ever settle and no message be delivered.

## Proofs

`WorkerProofs` proves, for every set of callers, every timeout pattern, every queue bound, batch
size and retry budget, from `ThreadsAssumption` and `SizesAssumption` alone:

- `TypeCorrect`: `TypeOK` is an invariant. It is inductive as it stands.
- `OneJoiner`: `JoinerOwnsDeadline`. The strengthening `GateInv` adds that while somebody joins the
  gate is taken and no join is owed, so that neither a late claim nor a second take-over can be
  granted beside it.
- `NoStranded`: `NoStrandedWaiter`. The strengthening `WaiterInv` has five parts. `FlagInv` ties the
  two events to the drain's place. `CarryInv` says which markers the drain carries and has
  registered. `MarkerInv` places every unanswered marker on the queue or with the drain, once.
  `SweepInv` says that a flush that found `finished` clear after its put is still ahead of the
  drain's last sweep, and `ExpiryInv` says the same of the sweep of a shutdown that gave up, or of
  the drain's own look at `settled` when a marker leaves the queue between the halves of that sweep.
  The order of the writes in `_run` and in `stop`, and of the reads in `flush`, is what makes the
  last two inductive.

`LifecycleProofs` proves, for any sinks, any number of level calls, spans, swaps and `shutdown()` calls
(finitely many of the last, because `_shutdown_running` counts them), with and without interrupts and
refused threads, from `LifecycleAssumption` alone, every safety property of `Lifecycle` that
holds on the instances:

- `CloseExclusive` and `Discharged`: `OneCloseAtATime` and `RegistrationsDischarged`. `CloseInv` says that
  a registered sink is in exactly one place, a close that runs or one call's hand-over, and that a call
  outside its hand-over holds nothing. A close is registered only for a sink found unregistered in the
  same critical section, and that keeps the places distinct.
- `DrainRespected`: `NeverClosedUnderDrain`. `HoldInv` says that `_held` contains the worker's sink and
  whatever the drain is inside. The delicate step is `retarget`'s removal of the previous sink, which is
  sound because the fencing flush was answered after the reassignment.
- `Remembered`: `NobodyForgotten`. `OwedInv` adds that a running drain's current sink is recorded, or that
  the swap which brought it in is still to record it.
- `SignalKept`: `DrainKeepsSignal`, inductive given `HoldInv`.
- `TypeCorrect`: `TypeOK`. That the depth is a natural number takes `DepthInv`: the depth is the number of
  calls in the no-worker branch, and only those lower it.
- `LateRetired`: `LateWorkerRetired`. `LateInv` says that a late worker stays registered until the first of
  the calls it was built within lowers the depth, and that this call retires it or was interrupted.
- `ClosedBehind`: `ClosedBehindOneStop`. `StopAloneInv` follows the one call: all closes are its own and joined, so
  none is registered when it takes what is owed, and it does so in its last pass behind the end of the drain; what the
  drain wrote to is then among what it took (by `OwedInv`) until it is handed over. Two calls break the first
  of these, which is finding 2.

`WorkerDeliveryProofs` proves the rest of the invariants of `Worker`, over those of `WorkerProofs`:

- `SentinelQueuedOnce`: `OneSentinel`. `SentinelInv` says that a sentinel is owed by one thread at a time, the
  drain inside its own `shutdown()` or the stopper that passed the gate first, and that while one is owed none is
  queued. A caller that took the join over owes none.
- `AbandonedMeansExpired`: `GivenUpMeansExpired`. `BlameInv` adds that a stopper about to settle has named a
  reason, and that a thread that died had finished: the order of the two writes in `_run` carries it.
- `LossIsCounted`: `NoSilentLoss`. `LossInv` has three parts: whoever makes the drain close has moved the
  retirement count first (`RetiredInv`); where the drain stands, and when its batch is empty (`RunInv`); and a
  submission behind the drain's last look at the queue is counted, or its caller is still before its second read
  of the count (`CountInv`).
- `FlushTells`: `FlushKeepsPromise`. `PromiseInv` says that what is in the backlog was accepted, that since the
  stamp either a batch has failed or everything answered for is delivered or in the backlog (`LedgerInv`), that it
  stands before the marker on the queue (`AheadInv`), and that a verdict of delivered was given on that ground
  (`VerdictInv`). The count of failures is what makes a verdict stale when other batches fail.

`WorkerRefinementProofs` proves `WorkerImplementsDelivery`: `Spec => ImplementsDelivery`. Every step of a caller
or of the drain is a step of `Delivery` or a stutter: a put appends to the backlog, a get moves the first item of
the queue to the end of the batch and leaves the backlog as it is, the end of an emit takes the batch off its head,
a returning flush has its outcome. Lemmas compute `SubmissionsOf` across a put and a get. `SettledInv` and
`FreshInv` add what the abstract guards ask: what was settled is not accepted again, and a flush that has not
returned has no outcome and before its stamp answers for nothing.

`SpansProofs` proves every property that `spans_all` checks, for any spans, contexts, log events, keys and inbound traces, with
any of the faults, from `SpansAssumption` alone (the names of spans, traces, log events and `None` are apart). One
inductive invariant, `IInv`, carries all seven; it has sixteen parts:

- `TypeInv`, `PcInv`, `LockInv`: what the variables and each context's locals hold at each place, and that a
  context between the load and the store of a list holds the lock. The lock is what all of `ListInv` rests on: a
  list that is submitted was detached, and no other detach has it.
- `BuiltInv`, `OnceInv`: an event is built once; one that was delivered is in no list that will be submitted again.
  With `ListInv` that is `DeliveredOnce`.
- `CloseInv` and `LostOnlyLate` itself: a list is on the way to the worker as long as its span is unsealed and
  belongs to an open call, and an append finds such a list unless a close of a shared span overtook it.
- `FrameInv`, `PushedInv`, `StackInv`: a span belongs to one call; a pushed span is on the stack and on every stack
  that a later call of the context will restore; what is on a stack is shared or was pushed below. This is
  `StaysOnStack`, and the ground of everything said about a span that one context uses.
- `ScopeInv`: the first call that took a baggage scope keeps what was there before; with it `NothingLeaks`.
- `SweptInv`, `TraceInv`: only a sweep or a close detaches, a root that is being moved to an adopted trace was not
  swept, and what is in a list carries the ids of its span: `OneTracePerSpan`.
- `CarryInv`, `FilledInv`: an open call's events carry at most the context's baggage, and from its backfill on a
  list's boundary events carry all that its other events do: `BoundaryComplete`.

`EmitProofs` proves the six safety properties of `emit_sinks` for each of the 23 kinds of sink, every batch, size, limit, number
of retries and calls, and every answer, over the composed specification of `MCEmit`. The invariant has
a part for every sink (`CommonInv`), and one for each family:

- `RecordInv`: no event of a running call is forgotten (`CoverInv`: it is left out, stored, counted, in hand or to
  come), one left out is not sent (`ApartInv`), what is in hand is no more than was sent, and less only if a part
  was acknowledged (`RequestInv`), and `delivered`, `tried`, `unknown`, `recoverable` tell what really happened
  (`BalanceInv`). The last is what makes `RaiseIsTotal` inductive: the code decides on those locals alone.
- `HttpInv`: the same for the chunks (`HttpCover`, `HttpApart`, `HttpBalance`), and the arithmetic of the
  budget: a body that was refused was over the limit (`RefusedInv`), no budget exceeds the one a call begins with
  (`BudgetInv`).

The lemmas it rests on are about the operators: cutting a batch into requests loses nothing and invents nothing
(`CutAll`, `HubBatchesAll`), a body weighs no more than the reserve and its items, however its records group
(`BodyBound`), the chunk that `_take` takes is in hand once and fits (`TakeTakes`, `ChunkFits`), and a step of any
send loop of a record sink is one of a few kinds (`SentStep`). `KindsAssumption` says that a name is not in both
families. `StaleConnection` needs only that an attempt on a dead connection is paid for by a break not yet charged (`ConnInv`).

`TransportProofs` proves, from `WrappersAssumption`, `RotatingAssumption`, `BuffersAssumption` and
`NatsAssumption`:

- `FanOutExact`: `FanOutAccounts`, for any batch, number of children and of calls. `FanInv` says that inside an
  `emit` an event has met with one end at each child that took the batch and at no other.
- `RotationSafe`: `RotationKeepsLines`, for any number of backups, lines, faults and crashes. `AgeInv` is the
  heart: a file stands at most as many names up as there are younger files, and one more for each fault and for the rotation in
  hand if that has moved it; hence the one removed is old enough. `FoundInv` is about the rotation in hand: of what
  it found only the oldest can be gone, and nothing while the name it is at is still taken. `PlaceInv` says
  which name is free in the loop, `LinesInv` where the lines of the batch in hand are.
- `EveryPublishJudged`: `NoPublishForgotten`, for any threads inside `emit`, `flush` and `close`, any batches and any
  `max_pending`. For Pub/Sub, `OwnerInv` says that a publish that was made is judged once, or on the shared list,
  or held by one thread; the step that needs more is `_reap`, which divides the list it took in two parts, so no list
  may name a publish twice (`DistinctInv`), and a publish about to be made must be new (`TurnInv`).
  For Kafka, `KafkaInv`: once the close that set the flag is over without an exception, what is left unjudged was
  produced behind it.
- `NatsCountsOnce`: `CountedOnce`, for any batches, calls and lost connections, wherever the driver's tasks run.
  `CountInv` says that an event of the running call is counted, published or to come; `ReachInv` that on the connection
  the call began with, what it published was processed, or is in the buffer or on the wire, after the drain of the buffer
  on the wire, and ahead of the PING that confirms. A reconnect voids `ReachInv`, which is finding 6.

The proofs go one step per action. The strengthenings that TLC can evaluate were checked as invariants first.

`Recursion` replaces what the provers cannot do with the library: its induction theorems take an operator, so
`SetInduction` states induction for a set of numbers, from the well-foundedness of `<`. `RecursionExists` shows that a
function defined by a first value and a step exists; a `LET` function of the model therefore satisfies its equations.
`KeepElements` and `KeepDistinct` say what `Keep` returns, `ConcatElements`, `SplitList` and
`HeadTailElements` what joining and dividing a list does to its elements.

What proving changed in the models:

- The children in `FilterFlush` and `FilterClose` are taken from `Kids`: with no children there is no first one.
- `RotatingFile` clipped the last batch at the bound of the model, and then counted lines as written that an earlier
  batch had in hand; batches are now whole.
- `SpansAssumption` states every disjointness of names that the types rely on, and `BuffersAssumption` that a thread of
  `ClientBuffers` makes one call.
- `Confirmed` in `NatsSink` marked the last `emit` as interrupted by a reconnect when it was a close that was
  confirmed; only an `emit` is marked now.
- The cases at the end of a wait in `ClientBuffers` overlapped, which leaves the choice open in TLA+; they are now disjoint.

Only model-checked: the liveness properties `SettledReleasesFlush`, `BoundedCallsReturn`, `AllCallsReturn`,
`AcceptedIsSettled`, `ShutdownReturns`, `EmitEnds` and `CloseEnds` (fairness and `ENABLED` are outside this prover's
reach). Every other property of a passing run is a theorem. `ClosedBehindOneStop` speaks of one `shutdown()`
only, and `CountedOnce` not of a call during which the connection was lost: the runs `lifecycle_late` and
`nats_reconnect` show why. `RaiseIsTotal` and `RotationKeepsLines` are what holds beside `emit_retry` and
`rotation_fails`.

## Findings

1. `worker_ledger`. A submission made after `shutdown()` onto a full queue is counted in
   `submitted_after_shutdown` and in `dropped` (`worker.py:649`), although the docstring says the two
   fields do not double-report one loss.
2. `lifecycle_late`. Of two `shutdown()` calls that overlap with no worker, one stops the late worker
   while the other is still closing its sink. The second pass of the one never waits and finds the
   sink registered; the other runs no second pass. What the late worker delivered is then behind a
   sink that neither has closed again. For a single `shutdown()` it is (`ClosedBehindOneStop` in
   `lifecycle_own`).
3. `spans_end`. `_close_span` loads `span.events` before it builds the `span.end` (`decorator.py:704`).
   A `flush()` in that gap, from a thread that shares the span, hands the loaded list to the worker. The
   `span.end` is then appended to a batch the worker may have read, the close submits an empty list, and
   no counter moves. The docstring of the sweep and the README say that the `span.end` arrives later in
   its own batch; the windows recorded in `docs/architecture.md` §13 are two others.
4. `emit_retry`. A commit that is made and whose answer is lost is a failed attempt to the sink. With its
   retries spent it raises, the worker hands the batch over again, and the event is stored twice
   (`postgres.py:233`; the same in Redis, and in MongoDB, where the second call makes new ids). It is what
   at-least-once delivery comes to, but the code says otherwise: the rollback "is what makes the worker's retry
   safe here — there are no committed rows to duplicate" (`postgres.py:181-184`), "such a failure delivered
   nothing" (`redis.py:120-123`), the call raises "when nothing was inserted" (`mongodb.py:263-265`), and "a
   retry there cannot duplicate anything" (`base.py:199-201`).
5. `rotation_fails`. `_rotate` shifts the backups, removes the last and removes backup 1 before it renames the
   active file (`file.py:757-768`). If that rename fails, a backup is gone and nothing was rotated, and each
   further attempt, one for every event, takes another. `_rotate_or_continue` says of the failure
   that "absorbing it costs nothing" (`file.py:688`), that the attempts "are cheap and lose nothing" (`file.py:699`)
   and that "a failed rotation is not a loss" (`file.py:724-725`).
6. `nats_reconnect`. `_confirm` sends its PING when the driver's buffer has drained, and `_await_probe`
   compares the reconnect counter only with its value at that PING (`nats.py:960`, `768`). A connection
   lost between the bytes of a core publish and the PING takes them along, and the PONG of the next
   connection confirms the batch: `emit` returns with events neither at the server nor in `losses()`.
   The module says that every core batch is confirmed or counted before `emit` returns (`nats.py:73`).
   For a call without a reconnect in that window it is (`CountedOnce` in `transport`).

## Observations

Met while modelling, and no run of this project:

- SPEC-044 (lines 146, 158-159) asks that a close in flight keeps its stop signal. The refresh made by a
  level call respects that; building a worker does not (`worker.py:437`), and neither does the offer in
  `retarget` (`worker.py:1054`). A span that ends while a bare `shutdown()` is inside `sink.close()` hands the
  sink an unset event, and the close serves its backoff in full.
- `configure()` racing `shutdown()` is documented as the caller's business: a sink that `retarget` has
  swapped in and `_swap_sink` has not yet recorded is missed by a shutdown in between, and stays owed
  until the exit handler.
- `GooglePubSubSink.flush` returns although the overflow wait of an overlapping `emit` still holds an
  unsettled future (`pubsub.py:637` takes the shared list). The future is judged, later, by that `emit`.
- `KafkaSink` documents that a message produced by an emit that `close` overtook may stay in the queue;
  `NoPublishForgotten` excludes exactly those.

## Not modelled

- Fork repair (`_fork.py`, `_clear_after_fork`, `Worker._reinit_after_fork`, `reacquire_after_fork`): the
  child is another process with one thread and every lock as it was, and the repair is a reflective walk of the
  sinks' objects. It needs a second copy of the whole state of `Worker` and `Lifecycle`.
- Event sanitizing (`sanitize.py`), the OpenTelemetry conversion (`_otel.py`, except the sizes), ids and
  header text: pure conversions without state.
- Diagnostics, console, results: output and value types. `MultiSink.failed`, `health()` and `_in_flight`
  are diagnostic.
- Construction and validation of the sinks' options, URLs, headers and TLS, and the third-party drivers.
- `CallbackSink`, `StdoutSink`, `NullSink`, `MemorySink`, `LoggingSink`: one call or one lock around a list.
- The stop signal inside a sink's backoff: it only ends a sleep early, and a sleep is one step here.

## Plan

Done: `Worker`, `Delivery`, `Lifecycle`, `Spans`, the sinks; the theorems listed under Proofs, among them the
refinement of `Delivery` and all safety properties of the passing runs.

Next:

1. `Fork`: a fork at any step of `Worker` and `Lifecycle`, and the child's repair.
2. `Lifecycle`: `shutdown()` from inside `emit`, wrappers that own their children.
