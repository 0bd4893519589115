# GraphHarbor in TLA+

GraphHarbor is an agent server: clients submit *runs* of LangGraph graphs to *threads*,
worker processes claim and execute them, and clients follow the events. PostgreSQL is the
authority for all of it (runs, leases, threads, checkpoints, events); Redis only carries
hints and live copies. This directory is the model of that system: TLA+ modules translated
from the code, TLC configurations, and TLAPS proofs. `PROJECT.json` maps every definition to
the lines it stands for.

Paths below are relative to `src/libs/`; RT is
`langgraph-runtime-pg/src/langgraph_runtime_pg/`, LH is `langhost/src/langhost/`.

## Inventory

| Part | Code | State | Operations | Interacts with |
|---|---|---|---|---|
| Run store | RT `run_store.py`, `run_state.py`, `models.py` | `runs`, `run_leases`, `threads` rows | create, claim_next, renew, finish, fail, requeue_for_shutdown, requeue_expired | slots, reaper and API share the rows; row locks, `SKIP LOCKED` |
| Execution slots | RT `production_worker.py` | the locals of `run_once`: job, generation, `cancel_event`, loaded rows | claim, execute, heartbeat, finalise, drain, stop | run store; write fence; event log |
| Reaper | RT `production_worker.py` | none | reap_once (rollbacks, expired leases), retention loop | run store, event log |
| Checkpoint mutations | RT `checkpoint_mutations.py`, `checkpoint.py` | checkpoint tables, `run_checkpoint_baselines` | capture_baseline, rollback_run, complete_rollbacks, prune, copy, fenced writes | run store rows are the fence |
| Run and thread requests | LH `core_api.py` | none of its own | create, cancel, rollback, delete, reorder, update state, prune, wait | run store, checkpoints, event log |
| Assistants | LH `core_api.py`, RT `ops.py` | `assistants`, `assistant_versions` | create, update, patch, set latest, delete | crons and runs name them, without foreign keys |
| Event log | RT `run_store.py`, `models.py` | `runtime_events`, `event_seq`, `event_pruned_through` | record_event, record_message_deltas, prune_expired_events | appended in the transaction of the state change |
| Event buffer | RT `production_worker.py` | pending deltas, timer, error | add, flush, timer | event log |
| SSE endpoints | LH `streaming.py`, `protocol_api.py` | a reader's cursor | replay, follow, heartbeat, end | event log, stream manager |
| Redis stream manager | RT `redis_stream.py` | bounded queues and replay buffers | put, subscribe, wake hints, control keys | slots, API, SSE |
| HITL commands | LH `protocol_api.py` | `threads.interrupts` | input.respond | run store |
| Legacy queue and ops | RT `queue.py`, `ops.py`, `retry.py` | the same tables; heartbeat and control keys in Redis | put, next, enter, sweep, cancel, delete, thread status | the operations of the LangGraph runtime contract, called by langgraph_api |
| Crons | LH `core_api.py`, RT `ops.py` | `crons` | put, create, update, delete, next | assistants; runs are submitted by their scheduler |
| Store, auth, MCP, registry, CLI, migrations, metrics | the other files | none that a property is about | | |

What is hard here: several processes work on the same rows; a claim can be lost while its
holder still executes; the code reads rows without a lock and decides on them later; a
process may die between any two transactions; a cancelled run holds its thread until it has
really stopped; rollbacks are accepted now and carried out later; attempts, generations and
retry bounds are one number; the Redis side has keys that several workers share, a channel
without replay, and ids from the clocks of several processes. `PROJECT.json` lists these
hazards with their lines, and for each the properties that would catch it going wrong, or why
none does yet.

What makes the parts correct:

* run store: one run per thread at a time; ownership is never ambiguous; every run ends; an
  ended run stays ended; queue order is well defined;
* fence: one checkpoint writer per thread, whatever zombies still run;
* rollback: it restores the state before the thread's last run, and it completes;
* event log: sequence numbers are unique and grow; a reader that resumes from a cursor misses
  nothing or is told so; the terminal event is there exactly when the run has ended;
* event buffer: the log has the events of a graph in order, completely and once;
* streams: replay and live hand-over lose and duplicate nothing;
* transport: a message reaches whoever waits for it, a cancellation above all;
* submission and HITL: one run for a key; `reject` lets nothing past; an interrupt that is
  offered can be answered;
* legacy queue: one worker per thread although nothing but a heartbeat tells;
* assistants and crons: a version is never replaced, a cron fires once when it is due.

## Modules

| Module | Models | Extends | Instances, proofs |
|---|---|---|---|
| `RunStore` | run queue, leases, slots, reaper, cancellation, rollback, deletions | | `MCRunStore`; `RunStoreProofs` |
| `RunStoreLiveness` | fairness, liveness, the refinement, claims of the documents | `RunStore`, instance of `RunQueue` | `MCRunStore` |
| `RunQueue` | the abstract queue that clients are promised | | implemented by `RunStore` |
| `EventLog` | `record_event`, retention, deletions, a client of the thread stream | | `MCEventLog`; `EventLogProofs` |
| `RunStream` | one client of a run's stream: replay, hand-over, live, reconnections | | through `EventBuffer` |
| `EventBuffer` | how an execution publishes, composed with log, fan-out and client | `RunStream` | `MCEventBuffer`; `EventBufferProofs` |
| `StreamManager` | the Redis transport of one run between processes | | `MCStreamManager`; `StreamManagerProofs` |
| `Checkpoints` | the checkpoint tables: fenced writes, baselines, rollback, prune, copy | | `MCCheckpoints`; `CheckpointsProofs` |
| `Submission` | the steps of a submission: thread lock, key, strategy, insert | | through `Hitl` |
| `Hitl` | `input.respond` and executions, composed with submissions | `Submission` | `MCHitl`; `HitlProofs` |
| `JobQueue` | the queue of the runtime contract with its heartbeats and sweeps | | `MCJobQueue`; `JobQueueProofs` |
| `Assistants` | assistants and their versions | | through `Crons` |
| `Crons` | crons and schedulers, composed with the assistants they name | `Assistants` | `MCCatalogue`; `CronsProofs` |

Each module keeps in full what its properties are about and abstracts the parts that another
module has: `RunStore` sees of an execution how it ends, `EventBuffer` has its inside;
`Checkpoints` and `Hitl` have of a run what decides about checkpoints and interrupts,
`RunStore` has its life; `EventLog` is about numbers and retention, `RunStream` about the way
of the events to one client.

The runs of RunStore and EventLog stand in their sections; the others are:

| Run | Instance | Distinct states | Shows |
|---|---|---|---|
| stream | `EventBuffer`: worker and API process, 2 events, batches of 2, 1 break, fair | 537,879 | `LogInOrder`, `EndComplete`, `Contiguous`, `LiveComplete`, `BufferDrains`, `StreamEnds` |
| transport | `StreamManager`: 2 processes, 2 messages, limits of 1, 1 break | 2,527,260 | `NothingMissed`, `ControlHeard` |
| checkpoints | `Checkpoints`: 2 runs with 2 attempts, 3 checkpoints, 2 disturbances | 1,092,087 | `HeadReadable`, `AttemptsContiguous`, `RollbackOwn` |
| answers | `Hitl`: 2 requests, 2 threads, 1 interrupt, 3 runs of which 1 is taken back | 2,238,650 | `Idempotent`, `RejectAlone`, `RowSound` |
| queue | `JobQueue`: 2 runs of a thread, 2 runners, 1 sweep, 1 request that cancels, 2 attempts | 1,126,865 | `OneWorkerPerThread`, `CancelHeard`, `EndedStays` |
| catalogue | `Crons`: 1 assistant with 2 versions, 1 cron, 2 schedulers | 559,266 | `RowIsVersion`, `VersionsKept`, `FiresOncePerTick` |

Where a model contains a *faulty variant* of a definition, no behaviour uses it: it is there
to show that a property of the runs notices the error (`mutants` in `PROJECT.json`).

## Open

The paged protocol event stream; row locks inside transactions (lock order); wake hints and
thread streams of the stream manager; checkpoint writes of executions without a writer token.

## RunStore

One action is one committed PostgreSQL transaction (`connect()`, `database.py:454`, READ
COMMITTED), or one step of a slot between two transactions.

**State.** `run[r]` is the row of `runs` together with its `run_leases` row (`lease`), its
baseline row (`base`) and the status in its terminal event (`term`). `thread[t]` keeps what
the queue reads or a rollback restores: existence, `status`, whether `interrupts` is
non-empty. `slot[w]` is what `run_once` holds in locals: the phase, the job, the generation
given to `checkpoint_writer`, `cancel_event`, the outcome, and what the finalisation loaded.

**Time** is two flags: `live` (`lease_expires_at > now`) and `backoff` (`next_attempt_at >
now`). Clocks of the processes are taken to agree. `born`, `pos` and `base.at` are
`created_at`, `queue_position` and `_captured_at` as positions; the position of a threadless
run orders nothing and is 1.

| Action | Code |
|---|---|
| `Create` | `RunRepository.create` under the thread lock, called by `runs_create` |
| `Claim`, `ClaimWithoutAssistant`, `ClaimExhausted` | `claim_next` and the claim transaction of `run_once`; `locked` is what `SKIP LOCKED` passes over |
| `FailContext`, `Begin` | the steps of `run_once` before the graph starts |
| `HeartbeatLost`, `HeartbeatError` | `_heartbeat`; successful renewals keep `live` and are no step |
| `Load`, `Finalize`, `FinalizeLost` | the three finalisation transactions of `run_once` with `finish` and `fail` |
| `RequeueForShutdown` | drain or abandoned drain |
| `Release`, `AckRollback` | the `finally` block |
| `Crash` | process death; also a failing transaction of the `finally` block |
| `RequeueExpired`, `CompleteRollbacks` | `reap_once` (and requests that wait for a rollback) |
| `LeaseExpires`, `BackoffElapses` | time |
| `CancelInterrupt`, `CancelRollback` | `_cancel_row`; `runs_cancel_many` and the cancel of `runs_queue` are several of them |
| `RunsDelete`, `ThreadsDelete` | `runs_delete`; `threads_delete` and `threads_prune` with strategy delete |
| `Reorder` | the reorder of `runs_queue` |
| `UpdateState` | a non-run write through the saver: `threads_update_state`, and `threads_prune` with strategy keep_latest, which has the same guard and also drops the baselines |

**Why Load and Finalize are two steps.** The finalisation calls `session.get(RunRow)`
without a lock, and `finish`/`fail` then run `SELECT ... FOR UPDATE` in the same session.
Without `populate_existing` SQLAlchemy locks the row but keeps the attributes loaded before;
`claim_next` (`run_store.py:219`) and `_cancel_row` (`core_api.py:1434`) pass that option,
`finish` and `fail` do not. The decision therefore rests on the earlier read, and the flush
writes only the attributes whose value changed (`Flushed`).

**Abstractions.** The contents of checkpoints are left out; `RollbackAllowed` therefore
omits the comparison of histories, which can only refuse more requests (once a rollback is
accepted, the fence and the guard of `UpdateState` keep the history as it was compared). The
Redis control key is left out: it is set after the row became terminal, its loss is
tolerated, and the polls see the row itself. How a graph runs is the set `Endings`. Events
other than the terminal one are left out.

**Requests without deletion.** `SpecKept` is the system without `RunsDelete` and
`ThreadsDelete`; the liveness properties and the run `terminal` are about it, so that they do
not depend on rows vanishing under the workers.

### Runs

| Run | Instance | Shows |
|---|---|---|
| pair | r1, r2 on t1, two slots, 1 attempt | `TypeOK`, `OneHolderPerThread`, `LeaseMatchesRun`, `RollbackBarrier`, `OneWriterPerThread`, `EndedRunHasEvent`, `PositionsDistinct`, `EndedUnlessStale`, `ImplementsQueue` |
| zombies | r1, two slots, 3 attempts | `GenerationHeldOnce` while reaped slots still execute |
| live | r1, r2 (a resume) on t1, one slot, 2 attempts, fair | `RunningEnds`, `PendingServed`, `RollbackEnds` |
| terminal | one run, one slot, one attempt | a sentence of the documents that the code does not keep |

**Bounds.** `MaxAttempts` is the real parameter (3 by default). `QueueBound` bounds
positions; it is at least the number of runs, and since new positions are one more than the
largest present, it never disables a submission or a claim of those instances. Run ids are
used once, so a behaviour ends when all are used; that is why deadlock is not checked. Two
runs and two slots are the smallest instance in which a claim races a claim, a zombie meets
its successor and a rollback meets another run. The slots are interchangeable, hence the
symmetry in the safety runs.

**Fairness** (`RunStoreLiveness`). A slot goes on with its job (`run_forever` loops, graphs
end or time out, and a failed transaction takes the next handler); an idle slot ticks and
claims; the reaper ticks; backoffs elapse. A lease that no executing slot renews runs out.
Nothing is assumed about cancellations, shutdowns, and crashes: they may happen at any time,
for ever, up to the attempts. `PendingServed` excuses a thread that waits for the answer to
an interrupt: only the client can end that.

### Refinement

`RunQueue` is what a client can see: a run is absent, queued, running, ended or removed. The
mapping `Seen` reads that off the status; slots, leases, attempts, generations, heartbeats
and the reaper are hidden. `ImplementsQueue` says that whatever they do is one of these: a
run is submitted; starts from the queue, alone on its thread; leaves running, alone or with
others, for the queue or the end; is removed, for ever. One more action had to be added to
make it true: `Revive`. A slot that loaded its row before a cancellation can put the
cancelled run back into the queue, the other side of the run `terminal`. The refinement is
checked in `pair`, where shutdowns put runs back.

### Where the code differs from the documents

`terminal` is a run with `expect: violation`; its property is the document's sentence: an
ended run (`error`, by the reaper) becomes `success` by a slot that loaded the row earlier.
Other sentences differ without a run:

* a drain costs an attempt, and a run can be ended as exhausted by shutdowns alone. Refunding
  the attempt is not a fix: `retry_count` is also the fence's generation, and the refund
  (`RequeuedForFree`, a faulty variant) breaks `GenerationHeldOnce`;
* a thread deleted under an expired run makes `record_event` fail in the reaper's batch, on
  every pass, and no expired run of any thread is reaped;
* a pending run whose thread was deleted stays the oldest eligible one, and `claim_next`
  returns nothing as long as it is there;
* the unlocked load of `terminal` also lets an old success overwrite an accepted rollback
  (`docs/projects/20260924-checkpoint-mutation-safety/plan.md:124` excludes it); this is why
  `RollbackEnds` only says that the mark goes away;
* a lease that expired, or one failed renewal, sets `cancel_event`, and the slot ends the run
  as `cancel_requested` although nobody asked (the lease document wants it requeued);
* deleting a claimed run leaves its thread `busy` (the same plan, line 124);
* the lease document says the reaper increments the generation (the next claim does);
* the state-machine document says an interrupted run has no lease (a cancelled one keeps it
  until its slot has stopped, which `OneHolderPerThread` and `PendingServed` rely on).

### Proofs

`RunStoreProofs` proves, for every set of runs, threads and workers and every bound allowed
by `ConstantsAssumption`, all the safety properties of the runs above. The only assumptions
are those on the constants. In particular threadless runs, and any mixture of resume runs and
others, are covered by the proofs; the instances above have no threadless run.

`OneWriterPerThread` is about the fence and several runs: a slot that passes it has no other
run of its thread beside it that is running, was stopped and is not given up yet, or waits for
a rollback. So no slot of another run passes the fence, and no rollback restores the tables
under a writer. That the slots of *one* run do not both pass it is `GenerationHeldOnce`.

The inductive invariant is

    IInv == TypeInv /\ LeaseInv /\ OneHolderPerThread /\ RollbackBarrier
            /\ GenerationReached /\ GenerationHeldOnce
            /\ EndedRunHasEvent /\ PositionsDistinct

with three strengthenings. `TypeInv` adds that a slot past `idle` has a job, without which
`run[slot[w].job]` has no type. `LeaseInv` adds to `LeaseMatchesRun` that a running row has
no reason, which is what separates running rows from marked ones. `GenerationReached` says
that a slot's generation is at most its job's `retry`: a claim takes `retry + 1`, hence a
generation no slot has, and `GenerationHeldOnce` is preserved.

The argument goes through rows rather than actions. `RowStep` lists what one step can do to
one row (untouched, left with ownership and status unchanged, created, taken, stopped, marked
for rollback, released, deleted); `NextRow` shows once, action by action, that every step of
`Next` does one of these to every row, and `NextSlot` says the same of slots. The invariants
about rows then follow by cases on `RowStep`, without looking at the actions again. The
exceptions are `TypeInv` and `RollbackBarrier`'s claim on baselines, where the action itself
matters. `OneWriterPerThread` follows from `IInv` without being part of it, and
`EndedUnlessStale` is proved as an action property from it.

`QueueImplemented` proves the refinement along the same rows: under `Seen` a row step shows
nothing, takes the run out of the queue or its slot (`Quits`, which several runs may do at
once), or is an abstract step of that run alone (`SoloStep`: submitted, started, revived,
removed). That a claim finds no running run on its thread (`ThreadFree`) is what makes it an
abstract start (`RivalsWait`).

Only model-checked: the liveness properties and the run `terminal`. Liveness under fairness is
out of the prover's reach.

## EventLog

`runtime_events` holds the events of all runs. The events of a thread's runs share one
sequence, those of a threadless run have their own; the number is the SSE id a client resumes
from. The next number is one more than the counter (`threads.event_seq` or `runs.event_seq`)
and than the highest number still stored, whichever is greater.

| Variable | Code |
|---|---|
| `row`, `top` | existence, `event_seq` and `event_pruned_through` of a run and of a thread |
| `ended` | runs with a terminal status (a run that waits for its rollback has no terminal event and is not among them) |
| `log` | `runtime_events`: run, sequence, terminal |
| `ever` | history: all numbers ever committed |
| `tx` | the counters a finalisation has loaded |
| `client` | a client of `thread_stream`: connection, first and last cursor, events received |

| Action | Code |
|---|---|
| `RecordEvent`, `RecordMessageDeltas` | `_publish_events`: unfenced, so also for an ended run |
| `End` | a terminal event of `requeue_expired`, `_cancel_row`, `claim_next` |
| `Load`, `Finish`, `Abort` | `run_once` loads run and thread; `finish` or `fail` records one or two events with the loaded counters; the transaction is rolled back |
| `Prune` | `prune_expired_events`, one batch |
| `DeleteRun`, `DeleteThread` | `runs_delete`, `rollback_run`, `threads_delete`, whose foreign keys cascade |
| `Open`, `Poll`, `Disconnect` | `thread_stream` with a `Last-Event-ID` of the form `n-0` |

An append is one step: it holds the locks of the run and the thread row until the commit. So
is a poll, which takes the thread row `FOR SHARE` before it reads the rows, and which
therefore sees watermark and rows of one moment. A finalisation is two steps for the reason
given under RunStore: a locking `SELECT` does not refresh attributes that the session has
loaded. `fail` may requeue a run that has ended meanwhile, hence `Finish` with `terminal`
false may take a run out of `ended`.

`OldEnough` is the one assumption about time: an event that is pruned is older than any open
finalisation. The retention time is a day by default, a finalisation takes milliseconds.
Thread ids are used once. The branch of `record_event` without a run has no caller. A client
without an id, or with `-`, asks for no more than what is stored and is not modelled; nor is
the selection of frames by mode.

| Run | Instance | Shows |
|---|---|---|
| log | two runs of a thread, two slots, 5 numbers, batches of 2 | `SequenceUnique`, `TerminalOnce`, `RunReplayComplete`, `ThreadReplayComplete` |
| follow | two runs of a thread, one slot, client, 5 numbers, no deletions | `FollowerComplete`, `SequenceMonotone` |

**Bounds.** `SeqBound` bounds the numbers: five let two runs each append, finalise on a stale
counter and be pruned in two batches, in any order. `BatchSize` bounds a flush and a pruning
batch. A behaviour ends when the numbers are used up and the rows deleted, so deadlock is not
checked. The two runs are interchangeable where they share the thread.

With deletions `SequenceMonotone` does not hold: a slot loads the thread's counter, another
run of the thread is numbered and then deleted, and the slot gives the same numbers out
again. A client that had received them takes the new events for old ones. `FollowerComplete`
is therefore claimed for behaviours without deletions (`SpecKept`); the other properties hold
with them.

**Proofs** (`EventLogProofs`), for every set of runs, threads and slots, every assignment of
runs to threads (threadless runs included, which no instance above has), and all bounds.
`WriterEffect` reduces the six writing actions to two effects: nothing is appended (`Quiet`),
or the events `s..last` of one run are (`Wrote`). `LogInv` is the conjunction of the type
invariant and the four properties of the run `log`; each is preserved by itself, given types.
For `SpecKept` the invariant `KeptInv` adds

* `CounterCovers`: the current counter is at least every number given out;
* `LoadedCovers`: a number above a *loaded* counter is still stored, because retention does not
  take it. This is the point of the argument: a stale counter does no harm as long as what it
  missed is in the log, and it says why deletions break it;
* `InHistory`, `CursorCommitted`: what is stored was committed, and the client's cursor is a
  committed number.

From these an append is beyond all numbers (`NumbersFresh`), which gives `SequenceMonotone`
and that nothing is inserted behind the client; `ThreadReplayComplete` gives that a poll that
is not refused finds everything ahead of it.

Each module has a `TypeOK`, which says what its variables hold. Those of RunStore and EventLog
are checked by the runs `pair` and `log`; the others hold in the same instances as the
properties of their runs, which leave them out. All are proved.

## RunStream and EventBuffer

The way of an event from the graph to a client: `EventBuffer` is the worker's side (what the
graph emits, the buffer, the transaction, the fan-out, a cancellation), `RunStream` the
client's side (`_run_sse`). `EventBuffer` extends `RunStream` and shares the log and the
fan-out queues with it; the run `stream` is of the composition.

**RunStream.** One client and one run, whose events are numbered `1..n` in the order of their
commits. A publisher commits events and fans them out later, in its own order.
`reader.pc` follows `body()`: `replay` (the queue is registered, the log is read next),
`check` (the second look at the status), `live`, and the three returns: `ended` at the check,
`finished` on a live terminal event, `drained` after the heartbeat has read the rest of the
log. `Break` is a broken connection or the stream's timeout; the client comes back with the
last id it has received. `store` is `message_stores`, which only holds what the reader's own
process published.

**EventBuffer.** The graph emits the events `1..made`; `log` says which of them a row holds,
0 being the terminal event.

| Action | Code |
|---|---|
| `Add`, `AddOther`, `GraphReturns` | `on_event` with a message delta, with another event; the graph is done |
| `TimerFires`, `FlushCommit`, `FlushFails`, `FlushDone` | `_flush_after_delay`; the transaction of `_publish_events`; its failure; the end of the fan-out |
| `Strike` | `execution.cancel()` raises at the await that the task of the execution has reached, in the graph or in the last flush: before the commit, in it (`through`), or in the fan-out |
| `FinalFlush`, `RecordEnd` | the `finally` block of the execution; the terminal event |
| `CancelRequest` | a request of the API process commits the terminal event first |
| `Publish`, `Lose`, `Connect`, `Replay`, `Check`, `Receive`, `Tick`, `Break` | `RunStream` |

**Properties.** `Contiguous` and `LiveComplete` are claimed while `clean`: no message was
lost, no publisher overtook another, and no fan-out was struck. `LiveComplete` excludes
the return at the check: a run that ends between the replay (`streaming.py:471`) and the
second look at its status (`:525`) closes the stream without its last events, which stay in
the log (`docs/projects/20260925-runtime-event-retention/plan.md:13` promises that a stream is
complete or says that it is not). Outside `clean`, a lost message is skipped over by the next
one, and the tail read starts after the highest frame sent. The thread stream has neither
problem, because it takes every frame from the log and uses Redis as a wake-up call.

A cancellation that strikes a publication of the buffer leaves `pending` as it is, since
`pending` is emptied after `publish`, and the last flush publishes it again although it may be
committed: an event can be logged twice, and no property claims otherwise. `LogInOrder` and
`EndComplete` hold in those cases too: nothing is lost or overtaken. `BufferDrains` is about
the timer, which only the first delta of a batch sets.

The last flush is in the `finally` block of `execute()`, that is, in the task which a
cancellation, a timeout and a shutdown cancel (`production_worker.py:647`, `652`, `660`). It
can be struck as the graph can, once in all. A strike before its commit leaves the deltas in
the buffer, stops the timer and sets no error, since `CancelledError` is no `Exception`
(`strike = "lost"`). `EndComplete` and `BufferDrains` exclude this case, and a failed flush.
The plan of that change does not: before a run is completed, cancelled or timed out, and before
the worker shuts down, the flush barrier is passed. That is not so.

**Bounds.** Two events of the graph, batches of two (32 in the code), five rows: a batch by
the timer, a full batch, an event outside the buffer after a delta, and a batch that is
logged twice all happen; one break, so that there are two connections. `MaxEvents` is at
least `2 * MaxMade + 1`, so no commit is ever disabled by it.

**Fairness.** The worker's event loop runs the timer, the publication and the `finally`
block; a call to Redis returns or fails; `body()` goes on, its heartbeat's timeout fires, and
the client reconnects. Nothing is assumed of the graph, of PostgreSQL or of cancellations.
Streams end, so deadlock is not checked.

**Proofs** (`EventBufferProofs`), for every number of events, batch size and number of breaks,
and every `MaxEvents` of at least `2 * MaxMade + 1`: all safety properties of the run. The
invariant has a half for the worker and one for the stream.

* `WorkerInv`: the buffer holds consecutive events, the last that the graph emitted but for one
  in hand (`PendingInv`); the publisher and the events in its hand fit (`FlushInv`); everything
  before the buffer is in the log, and what was committed of the batch too (`StoredInv`). From
  this a batch continues where the log ends or repeats its end, which keeps `LogInOrder`, and an
  end without an error has nothing left to write. `SizeInv` counts what strikes log twice, so
  that `MaxEvents` never stops a commit.
* `StreamInv`: an event that was committed waits with one publisher, in order (`OutInv`). While
  `clean`, the store and the live queue have what was fanned out, without a gap (`CleanInv`),
  and the connection has sent the numbers after its cursor, one by one, while everything fanned
  out above them is in its queue (`ReaderInv`). `SeenInv` is what holds of the frames whatever
  Redis does.

The steps of the worker leave the stream's half alone and the other way round, but for commits
and strikes. Two facts about sequences and one about numbers are induction over data; they are
proved as statements about a least counterexample (`Least`, from the well-foundedness of `<`).
`BufferDrains` and `StreamEnds` need fairness and are only model-checked.

## StreamManager

The Redis transport of one run. A message of a process is buffered in it, delivered to the
queues of the process, and published; every process that is subscribed, the sender included,
delivers it when it comes back, unless `_SeenIds` knows its id. Frames of a resumable run are
also in a Redis stream, which numbers them.

| Action | Code |
|---|---|
| `Put`, `Buffer`, `SetKey`, `Publish`, `PutFails` | the round trips of `put` and `put_batch` |
| `Receive`, `MuxDown`, `MuxUp` | the mux, a lost subscription, its retry |
| `Subscribe`, `Restore`, `Read`, `Unsubscribe` | `Runs.Stream.subscribe` and `join` |
| `Listen`, `Hydrate` | `add_control_queue`, `aget_control_key` |
| `Leave`, `DropStore` | `clear_run_buffers`, `_drop_local_store` after its grace |

`NothingMissed` says which messages a reader gets for which cursor, and `ControlHeard` that a
cancellation is known to the listener, whether it came before, while or after it registered.
Both need a subscription that was not lost in between (`whole`) and `IdsDistinct`: a process
numbers its messages by its clock, and `_mark_seen` takes a second message with the same id
for an echo; two processes in one millisecond can so lose a frame or a cancellation. The
listener of a retry does not hear cancellations from before the worker last left the run,
since `clear_run_buffers` removes the key.

**Bounds.** Two processes, a task in each, of which the one in the API process cancels; two
messages and two ids; buffers of one message and one seen id (2000 and 10000), so that both
limits are reached; one break, which is a lost subscription, a reconnection or a retry. The
Redis stream is not trimmed: its MAXLEN is far above what a run leaves behind. Wake hints and
thread streams are not modelled.

**Proofs** (`StreamManagerProofs`), for any processes, callers, batches, limits and breaks: both
properties of the run and `TypeOK`.

* `TaskInv`: calls have no message in common with each other or with what was published.
* `IdInv`: while `IdsDistinct`, an id belongs to one message, and no process has seen the id of
  a message that was not yet delivered to it: its own process not before `Buffer`, the others
  not before `Publish`. This is why the echo filter drops nothing else; forgetting ids makes it
  weaker, which only delivers a message twice.
* `ReplayInv`: what a reader does not get by its queue is in the Redis stream, and sent after
  `Restore`. `LiveInv`: everything put since is sent, queued, or on its way and unseen
  (`Coming`); what its own process has delivered is there before it is published.
* `ListenerInv`: a cancellation is in Redis before it is published, and its own process has the
  key as soon as it was delivered, which covers listeners to come; for one that is registered
  it was heard or is `Coming`.

Two things had to be stated about data. `Delivers` says what a delivery does to the elements of
the queue and the seen ids, without their order. `Marked`, a recursive function, marks message
after message; that the function exists, and what it returns (`MarkedFacts`), are proved as
statements about a least counterexample (`Least`).

## Checkpoints

The tables behind the saver: `checkpoints` (`cps`) and `checkpoint_writes` (`writes`) of each
thread, a run's row and baseline as far as they decide about them, a state update and a copy
under way. A checkpoint has a namespace and a parent, and is `full` or a difference that
needs its ancestors.

| Action | Code |
|---|---|
| `Create`, `Claim`, `LeaseExpires`, `Requeue`, `Stop`, `RunsDelete` | the life of a run (`RunStore`); `Claim` captures the baseline |
| `Put`, `PutWrites` | `aput`, `aput_writes` of an execution behind `Fence` |
| `UpdateRead`, `UpdateWrite` | `threads_update_state`: the head or a named checkpoint is read, its child is written in another transaction |
| `RequestRollback`, `CompleteRollback` | `_cancel_row` with rollback; `complete_rollbacks` |
| `Prune`, `ThreadsDelete`, `DeleteCheckpoints` | `prune_checkpoints`, `threads_delete`, `delete_thread_checkpoints` |
| `CopyStart`, `CopyList`, `CopyPut`, `CopyWrite`, `CopyDone`, `CopyFails` | `threads_copy` with `copy_thread_checkpoints` |

`HeadReadable`: the parents of a head lead to a full checkpoint or to a first one.
`AttemptsContiguous` is what the fence is for: no other writer comes between two checkpoints
of one attempt of the production worker. `RollbackOwn` compares the tables before and after a
rollback. Copies matter to the first: the head of a half-finished copy can be read because
parents go first.

What these properties exclude is what the code does not keep:

* a state update that overlaps a prune or a rollback writes a child of a checkpoint that is
  gone, and so does a copy whose target is pruned (`spoiled`);
* a run that is overtaken before its retry keeps its older baseline; the rollback of the run
  that overtook it then removes its pending writes (`Retried`);
* the deletion of a run removes its baseline, and the rollback of an earlier run then removes
  the pending writes of the deleted one;
* a copy that fails removes the row of the new thread and leaves its checkpoints; the
  checkpoints of a deleted thread go in a later transaction, and the fence of an execution
  does not ask for the thread.

`Fence` is the branch of `_writer` for executions that carry a writer token, which is all
that the production worker starts. Writers without a token and without a run are the state
updates (`UpdateWrite`), which drop the baselines. An execution without a token that names its
run, as a worker of the runtime contract does, is checked against the runs of its thread
(`checkpoint.py:66`-`101`), has no generation, and keeps the baselines; it is not modelled,
and no property here is about it.

**Bounds.** Two runs with two attempts each, three checkpoints in one namespace, one pending
write, two of the steps that are not the run's own (a lost lease, a deletion, an update, a
prune, a copy). Three checkpoints are what `AttemptsContiguous` relates and enough for a chain of
two differences. Namespaces are independent in all of the code but `prune_checkpoints`, which
handles each by itself. Ids and steps run out, so deadlock is not checked.

**Proofs** (`CheckpointsProofs`), for any finite set of runs and any threads, namespaces, ids,
attempts and disturbances: the three properties of the run and `TypeOK`. `Chain`, the walk from
a head to its ancestors, is defined as a least closed set instead of by recursion, so that it
can be reasoned about. The invariant has four parts.

* `BaselineInv` is about rows and tables. Of two baselines of a thread the older is contained
  in the newer (`Nested`), both in the tables; a pending write that a baseline does not have is
  of the run itself, of one that is gone, was retried, or captured later (`Excused`, which is
  where the two exceptions of `RollbackOwn` come from); a running run has the latest capture,
  unless it was retried (`Latest`). Capture positions are at most the number of captures since
  the last one was superseded (`CaptureInv`), which bounds them by the number of runs.
  `Newest` then gives that what a rollback restores is a superset of every other baseline, so
  the invariant survives it.
* `IdInv`: ids grow, parents are older than children, a copy does not write an id that its
  target has.
* `ContInv`: the checkpoints of the attempt that runs are the last of their thread (`Tail`). An
  old attempt cannot write (the fence), an update waits (`NoWriter`), and a new attempt begins a
  generation that no checkpoint has (`WrittenInv`).
* `ReadInv`: unless `spoiled`, tables and baselines are closed under the parents that their
  differences need, and so is what a copy has written together with what it has yet to write.
  `HeadReadable` follows by the checkpoint of least id in the chain.

`Moves` shows once, action by action, that a step keeps `BaselineInv` and either writes one
checkpoint in one of three ways, reads the source of a copy, or only takes checkpoints away
(`Shrinks`); the other parts look at these cases only.

## Submission and Hitl

`Submission` has the steps of `runs_create` and `RunRepository.create` that others can
interleave with: the insert of a new thread, the lock of its row, the lookup of the key, the
insert of the run and the commit. An insert waits for an uncommitted equal key, as PostgreSQL
does. `Hitl` adds who submits (`run.start`, `input.respond`), the interrupts of one thread in
its row (`row`) and in the checkpoints of its graph (`open`), and the life of the runs as far
as it changes either: a run that ends overwrites the interrupts of the row by those of the
graph, one that fails, is cancelled or is deleted leaves them, and a rollback puts back those
that the first claim of the run has kept (`base`).

| Action | Code |
|---|---|
| `Start`, `Respond`, `SubmitResume` | `run.start`, `POST runs`, `input.respond` |
| `InsertThread`, `Lock`, `Lookup`, `InsertRun`, `CommitRun`, `Rollback` | the transaction of a submission |
| `CheckInterrupt`, `LoadRow`, `WriteRow`, `Replied` | the steps of `input.respond` before and after it |
| `Claim`, `ClaimSpent` | `claim_next` with `capture_baseline`; a run without attempts left |
| `GraphWrites` | checkpoints of the graph, behind the fence |
| `Finish`, `Fail`, `Requeue` | the finalisations of `run_once`, the reaper, a shutdown |
| `Cancel`, `Stopped`, `LeaseExpires` | `_cancel_row` with interrupt; the end of `run_once`, or its death |
| `RequestRollback`, `Rollback_run` | `_cancel_row` with rollback; `rollback_run`, at once or by `complete_rollbacks` |
| `RunsDelete` | `runs_delete` |

`Idempotent` and `RejectAlone` are about the submissions. A deleted run frees its key, so
that a later request with it makes another run; `Idempotent` counts the runs that are left.
`RowSound` relates the row to the graph while no run of the thread is at work, whatever the
commands are doing. The two agree about an interrupt unless a run that asked it or answers it
was given up, and the row says busy only if a run was cancelled or deleted. What that leaves
out is what the code does:

* a resume run that is cancelled before it starts leaves the thread as `input.respond` wrote
  it: busy, the interrupt open in the graph and not offered (`core_api.py:1451`,
  `protocol_api.py:192`); so does one that is deleted (`core_api.py:1424`);
* a resume run that fails leaves its interrupt unoffered, and its key keeps a second answer
  from making a run;
* a run whose graph has asked and which then fails, or is cancelled, leaves an open interrupt
  that the row does not have; the next answer, or a run that starts anew, ends with it.

It excludes `overlap`: the last transaction of `input.respond` loads the row without a lock
and writes it after another await, so it can bring an answered interrupt back or leave the
thread busy after its run has ended. Rollbacks need no exception: what they restore agreed
when the baseline was taken, but for runs that had been given up by then.

Seen in the model and left to the reader: two principals that answer one interrupt make two
resume runs (the key belongs to the principal); a conflict (409) still commits the thread that
was made for the run; of two first submissions to a new thread one ends in an integrity error.

**Abstractions.** A graph that returns has written a checkpoint in its last execution; pending
writes alone do not count. Attempts are not counted: a run that was claimed before may be found
without attempts left (`ClaimSpent`). A finalisation may overwrite a cancellation or a
rollback request that it has not seen (as in RunStore), but a worker that outlives its lease
and goes on, reordering, and which slot has a run are RunStore's; state updates and prunings
are in Checkpoints. A step that only ends a run, or fails it, does not wait for the lock that
a submission has on the thread, which allows more than the code. The row and the baselines are
followed for the thread of the interrupts only. The thread itself is not deleted.

**Bounds.** A request may be repeated as often as runs allow. Of the three runs one is there at
first and, when the interrupt is open, has asked it; another may ask it later. Two commands
overlap on the interrupt, starts compete with them for the thread, and keys are compared across
two threads. `MaxTakenBack` bounds the runs that are cancelled, rolled back or deleted; one of
them is enough for each of the exceptions above. Several interrupts, of which a command may
write back one that another has answered, more runs taken back, and a second principal, who has
a second key for the same interrupt, are in the proofs. Runs are used up, so deadlock is not
checked.

**Proofs** (`HitlProofs`), for any number of requests, threads, runs, interrupts and principals:
the three properties of the run. The constants' assumption says that an answer's key is the
pair of its principal and its interrupt, and that a start's key is no such pair. The invariant
has a part for each mechanism.

* `LockInv`: one transaction holds a thread's row lock. `KeyInv`: a key has one run that is not
  deleted, or one transaction that has inserted it. `DoneInv`: who is done has its run.
  `RejectInv`: what the check for `reject` has found is true until the commit, since the lock
  keeps submissions out, and so do the claims and requeues that wait for it. `CmdInv`, with
  `ShapeInv`: a command and its request go together.
* `LeaseInv`: one run of a thread has its lease; who asked what, and which runs have claimed
  and written since a baseline was taken, is on record.
* `RowInv` is `RowSound` while runs are still at work, in four parts: why the row may say busy
  (`BusyInv`), what a run that starts anew finds (`StartInv`), who may still mend an interrupt
  about which row and graph disagree (`TornInv`), and the same of what a baseline has kept, to
  be true again after its rollback (`BaseInv`). `RowSound` alone is not inductive, because it
  says nothing until the thread is quiet.

## JobQueue

The operations that langgraph_api calls (`ops.py`) on the same tables, without leases: a
runner owns a run as long as a heartbeat key is in Redis.

| Action | Code |
|---|---|
| `Put`, `PutEnsuringThread` | `Runs.put` |
| `ClaimNextRun`, `ClaimFails` | `_claim_next_run`, whose heartbeat is set before the commit |
| `Enter`, `Beat`, `Record`, `Leave` | `Runs.enter` and what its worker records; it may record before or after it leaves |
| `Crash`, `HeartbeatExpires` | a dead or stalled replica |
| `SweepLook`, `SweepSingleRun`, `IdleLook`, `IdleOrphan` | `Runs.sweep`, which looks and writes at different times |
| `CancelLoad`, `Cancel`, `CancelFails` | `Runs.cancel`: its read of the candidates, its transaction |
| `Delete`, `ThreadsDelete`, `StatePost` | requests |

`OneWorkerPerThread`, `CancelHeard` and `EndedStays` are what the heartbeat, the control key
and the guards of the updates give together. There is no generation and no lock that spans an
execution, so they hold only while nobody on the thread was *exposed* (`strayed`): a worker
executed without its heartbeat, its row was deleted, swept or overwritten, or an earlier
worker of the same run was still leaving, in which case it deletes the heartbeat that the
later one relies on (`ops.py:3327`).

A cancellation is two steps. `Runs.cancel` reads its candidates without a lock, and the
locking `SELECT` of `_cancel_single_run` does not refresh them (it has no
`populate_existing`), so `was_pending` (`ops.py:2730`) is the status at the read. A run that
was pending then and has been claimed since loses its control key, or on a rollback its row;
one that was interrupted then and was revived since is told, and its row is not written. In
the first case the worker that has not subscribed yet is never told. `CancelHeard` excludes
it (`misled`); the comment at `ops.py:3921` promises it.

The status of a thread is written from a count that no lock protects; the model allows either
outcome (`BusyOr`), and no property is about it: a thread can be idle with runs to do, or busy
without. A cancellation message is sent before the commit and stays sent when the commit
fails. A sweep can act on a retry counter that a claim has overtaken, and then grants an
attempt too many.

**Bounds.** Two attempts (3 in the code); `TryBound` equals `MaxRetries`. Two runs and two
runners are the least that exclusion on a thread is about; the request may be repeated, and its
read and its transaction overlap claims, retries, both steps of the sweep and deletions.
`MaxNamed` is 1, so a cancellation of several runs is not in the run: it decides row by row,
and what its rows share is the status of the thread, which no property is about. Two requests
that overlap each other are not in it either, and a second sweep would add nothing that the two
steps of one do not interleave with already. The proofs have any number of each. Once the
thread is in `strayed`, where it stays, all three properties except it, so the run stops there
(`Unstrayed`, a constraint); a step that exposes a worker is still checked. Rows run out, so
deadlock is not checked.

**Proofs** (`JobQueueProofs`), for any number of runs, threads, runners, sweeps and requests: the
three properties of the run. Besides the properties the invariant needs two things. Whoever is
exposed is on record (`StrayInv`), because every step adds the threads of those it exposes to
`strayed`. And `ToldInv`: a cancellation that falls between a worker's claim and its first
listening is kept for it in Redis, unless its request had read the run before the claim; on a
thread that has not strayed nobody else drops the key. Most steps are `Calm`: whoever works afterwards worked on the same run before; the
properties survive those without looking at the step. What is left is the claim, which finds
the thread free because a worker of a claimable run was exposed (`ClaimableFree`), and the
cancellation. `EndedStays` is proved as an action property.

## Assistants and Crons

`Assistants` has the two tables and both interfaces to them. A session that loads a row
without a lock later writes the columns that differ from what it loaded (`Written`); the
primary key of `assistant_versions` is all that stands between two updates. `RowIsVersion`
excludes rows that were last written over something unseen (`torn`), until the next request
that runs alone. `VersionsKept`: a version is never replaced.

`Crons` adds the crons of these assistants. A scheduler takes all due rows with SKIP LOCKED,
submits their runs and advances their dates in one transaction, or nothing of it.
`FiresOncePerTick` is about several schedulers that abort and poll again.

Seen in the model: `assistants_delete` leaves versions and crons behind (`DeleteRow`,
`AssistantDeleteRow`), while `Assistants.delete` removes them; once an older version was made
the latest, `assistants_update` computes a number that is taken and fails every time;
`cron_create` writes no date, so a new cron is due at once; `cron_update` changes the schedule
and not the date; a cron that is made while its assistant is deleted is nobody's.

**Bounds.** One assistant with two versions and two fields, one request in flight beside
those that lock the row; one cron that becomes due twice, two schedulers. `Assistants.delete`
is one step although it is several statements. Versions and dates run out, so deadlock is not
checked.

**Proofs** (`CronsProofs`), for any assistants, versions, fields, clients, crons and schedulers:
the three properties of the run. `RowIsVersion` is inductive together with the types and the
fact that an update in flight writes the number after the version it has loaded
(`RequestInv`); `Written` changes the columns that differ, so that the row of a request that
met no other is the one it computed. For crons: what a scheduler has locked is due and locked
by nobody else (`TakenInv`), and a due cron has been fired less often than it became due
(`FireInv`). `VersionsKept` is an action property of the same invariant.

## Not modelled

The protocol event stream's paging, headerless thread streams and the filtering of frames by
mode; wake hints and thread streams of the stream manager; row locks inside a transaction
(a cycle between the failure path of `run_once` and `record_event` is possible, PostgreSQL
breaks it, and the failure is one the models have); searches, reads, waits and thread
metadata; `runs_batch`, which is several submissions and not atomic; auth, MCP, the wrapper of the
third-party store, the graph registry, CLI and routes, migrations, metrics, which keep no
state that a property is about. See "components" of `PROJECT.json`.

Left to TLC: liveness under fairness, which is out of the prover's reach, and the run
`terminal`, whose property does not hold.

## Where the code differs from what is said of it

| Said | Done | In the models |
|---|---|---|
| an ended run is never changed again (`docs/architecture/05-execution-and-streaming/concepts/01-run-state-machine-and-interrupt.md:122`) | a finalisation that loaded the run before the reaper ended it overwrites its status (`production_worker.py:671`) | the run `terminal` |
| before the end of a run, however it ends, the deltas are flushed (`docs/projects/20260923-worker-concurrency-event-flush/plan.md:34`) | a cancellation, timeout or shutdown can strike the last flush, and the deltas are lost without an error (`production_worker.py:619`) | excluded from `EndComplete` and `BufferDrains` (`strike`) |
| a cancellation published before the worker subscribed is still observed (`ops.py:3921`) | a request that had read the run as pending withdraws the control key of the run that was claimed since (`ops.py:2730`) | excluded from `CancelHeard` (`misled`) |
