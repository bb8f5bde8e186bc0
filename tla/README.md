# open_kknaks in TLA+

open_kknaks is a task queue over Redis whose workers run coding-agent CLIs
(`claude`, `codex`) as subprocesses. This directory holds TLA+ modules of its
broker, worker, client and DLQ commands, of the two executors, and of the parts
around them (output parsing, rate limit, budgets, chunk stream, batches, queue
order), TLC configurations that check them on small instances, and TLAPS proofs
of invariants for every instance.

Paths below are relative to the repository, sources under `open_kknaks/`.

## 1. Inventory

| Component | State it keeps | Operations |
|---|---|---|
| Redis broker (`broker/redis.py`, `broker/lua/*.lua`) | task hash with optional TTL; per queue: main and delayed sorted sets, active set, DLQ list; worker registry; chunk stream and cost per task | enqueue, dequeue (pop, then get), ack, nack, requeue, update, promote, reap, heartbeat, retry_from_dlq, purge, publish/subscribe chunks |
| Worker (`worker/worker.py`) | `_running`, semaphore of `concurrency` permits, set of running processors, `_current_task_ids`; a local `Task` copy per processor | dequeue loop, heartbeat loop, maintenance loop, `_process_task`, cancel watcher, start, graceful stop |
| Retries middleware (`middleware/retries.py`) | none beyond the task | store RETRYING, re-enqueue with a delay |
| Middleware chain (`middleware/base.py`) | the list; the middlewares already "called" for a task | before and after hooks, errors of a hook |
| Rate limit, cost (`middleware/rate_limit.py`, `middleware/cost.py`) | timestamps; spent budget | wait for the window; check and charge |
| Client (`client.py`) | none | submit, cancel, result, stream |
| DLQ commands (`cli/dlq_cmd.py`) | the listing taken | list, retry, purge |
| Batch runner (`batch.py`) | pending and finished ids | submit, status, wait |
| PTY executor, Codex adapter (`worker/executor.py`, `worker/codex_adapter.py`) | table of processes by task, file descriptors | execute, cancel, cleanup |
| Line buffer, stream parser (`worker/line_buffer.py`, `worker/stream_parser.py`) | an incomplete line | feed, flush, parse |
| CLI, MCP server, configuration | none | thin callers, option merging |

**How they interact.** Everything shared lives in Redis. A Lua script is
atomic; each Python method is a sequence of round trips, and between two of
them any other process may act. Inside a worker all coroutines share the
semaphore; a processor works on a *copy* of the task fetched at dequeue and
writes the whole copy back. The registry of workers, with heartbeats, is the
only failure detector; what a dead worker was doing is known only through the
active set, and that set belongs to the queue and not to the worker.

The executors share one event loop with the coroutine that cancels them; they
talk to the kernel through descriptor numbers and pids, which outlive nothing.
A rate window is shared by the processors of a worker, a budget by all workers.
A client learns of a task only by polling its hash and its chunk stream.

**What is hard.** Whole-record writes from stale copies (worker, client cancel,
operator retry); the hand-over of a task between its places (queue, hands of a
process, DLQ) with each step a separate round trip; a connection that breaks
before or after Redis executed a command; workers that die at any await, and
live ones that are taken for dead; exactly one release of each permit on more
than ten exits; finite retries; a descriptor that is closed under its reader
and used again; a limit checked before an await and charged after it; a status
that is terminal only for a moment; sums over hashes read one by one.
`PROJECT.json` lists these as hazards, each at its line.

**What makes it correct.** A task is in one place at a time (no double run); it
is never lost before its ack; its outcome is stored before it is settled; it
ends; permits add up; a settled task stays settled. A CLI process is reaped
with its terminal and left behind only where the code gives it up; its output
goes to its own run, whole; every run, subscription and wait ends; a budget is
passed by no more than the runs under way; a report is true of the batch.

## 2. Modules

| Module | What it is |
|---|---|
| `TaskBroker` | the Redis keys, and one operator per Lua script or single Redis command |
| `TaskSystem` | workers, clients, operators, the TTL clock and failures, around `TaskBroker` |
| `TaskLifecycle` | abstract specification: the life of a task as a user sees it |
| `PtyExecution` | the Claude executor: runs on pseudo-terminals, cancel, cleanup |
| `CodexExecution` | the Codex adapter: runs on pipes, cancel, cleanup |
| `CliOutput` | from the bytes a CLI prints to a result: line buffer, both parsers |
| `RateLimit` | RateLimitMiddleware: the window and the adaptive limit |
| `CostControl` | CostMiddleware: both budgets around concurrent runs |
| `ChunkStream` | a task's chunk stream with `stream()` and `result()` |
| `BatchRunner` | submit, wait and status of a batch |
| `QueueOrder` | scores and the order of a queue |
| `WorkerRegistry` | the hash of workers: heartbeat and reaper command by command |
| `MCTaskSystem`, `MCExecutors`, `MCServices` | instances for TLC |
| `TaskSystemProofs` | TypeOK and PermitAccounting of TaskSystem |
| `PlaceProofs` | NoDoubleRun: what a step does to a task and to the others |
| `OutcomeProofs` | TTLs, outcomes, and the steps of TaskLifecycle |
| `DeliveryProofs` | AtLeastOnce |
| `ExecutorProofs` | the invariants of both executors |
| `ClientProofs` | what `result()`, `stream()` and a batch promise |
| `StopProofs` | ForcedStopRequeues |
| `ServiceProofs` | budgets, order of pops, rate limit, registry, Codex output, and the types of all parts |

Each proof module extends the one it builds on: `TaskSystemProofs`,
`PlaceProofs`, `OutcomeProofs`, `DeliveryProofs` and `StopProofs` in this
order. `ServiceProofs` extends `ClientProofs`; it and `ExecutorProofs` extend
the instances `MCServices` and `MCExecutors` too, whose next-state relations
put the parts together, but use none of the values given there.

`TaskSystem` composes with `TaskBroker`, and implements `TaskLifecycle`. The
other modules stand beside it, joined by what they assume of it: `ChunkStream`
and `BatchRunner` let any store of a status happen at any time, because every
store is blind, and let several processors have the task at once, so that what
TaskSystem does is among it; `TaskSystem`'s `ExecStep` is what `PtyExecution`
and `CodexExecution` do in detail, and that a run ends, which its fairness
assumes, is their `ExecutionEnds` and `CodexEnds`; `QueueOrder` refines the
set-valued queue of `TaskBroker` with scores, and `WorkerRegistry` its
`workers` with the commands of a heartbeat.

### TaskBroker and the code

`hash`, `main`, `delayed`, `active`, `dlq` and `workers` are the keys `_key`
builds. `dlq` counts occurrences, since `nack.lua` pushes without looking and
`LREM ... 1` removes one. `expiring` is the set of hashes that carry a TTL.
`acked` and `discarded` are history variables that no action reads.

Abstractions: the stored JSON is its `status` and `retry_count`, the only
fields the control flow reads; scores are left out, so `main` is a set and a
pop may return any member (this includes every order that priorities allow); a
TTL is present or absent, and a hash that has one may go at any time; which
delayed ids are due is free.

### TaskSystem and the code

An action is one await: a broker command and what the code does up to the next
one. `Call(Command, ok, err)` is a command that succeeds, or raises before or
after Redis executed it, with the code's continuation for either.

- **Dequeue loop** (`_dequeue_loop`, `dequeue`): `AcquirePermit`, `PollEmpty`
  and `PopTask` per queue in order, then `FetchNothing`, `FetchFails` or
  `Dispatch`. `qi` is the index of the queue being polled.
- **Processor** (`_process_task`): `pc` names the next await: `start`
  (`MarkCancelled`, `RejectProvider`, `MarkRunning`), `before` (`EnterChain`,
  `HookRaises`), `exec` (the adapter runs: `ExecDone`, `ExecExitsNonzero`,
  `ExecRaises`, `SeeCancel`), `ack`, `cancelled` and `ackCancelled` (`except
  TaskCancelledError`), `failed` (`except Exception`), `retry` and `reenqueue`
  (RetriesMiddleware.after_process), `final` (`finally`: `Nack` or `Finish`).
  `status` and `retries` are the local copy, `exc` says whether an exception
  was kept and may be retried, `armed` whether RetriesMiddleware is among the
  middlewares whose before hook completed.
- **Maintenance** (`_maintenance_loop`, `reap_stale_workers`,
  `promote_delayed`): `ReapScan` takes the snapshot that `ReapQueue` and
  `ReapForget` act on later, each a round trip; `Promote` follows a complete
  pass. `Start` reaps before `Register`.
- **Stop** (`stop`, `run`, `worker run`): `StopBegin` on the signal, with the
  loops cancelled where they are; `StopAllEnded` or `StopTimesOut` for
  `asyncio.wait`, `StopCancels` after `cleanup_all`, `StopRequeue` per id and
  queue, `StopDeregister`. `stopper` is its local state: `ids` are the ids of
  `active_task_ids`, `rest` those still to requeue in this queue, `qi` the
  queue. Meanwhile the processors go on with their own steps. `RunReturns` may
  come at any time after the signal, because `run()` only waits for `_running`:
  the broker is closed, asyncio.run cancels the rest (phase `closing`, in which
  `update_task` raises and registered scripts still connect), and `Exit`
  follows when the processors have ended. `Interrupted` says where
  CancelledError leaves a processor: in `finally`; out of it without nack and
  release, when it lands in a call of `finally` (`Escapes`) or in any other
  await of an after hook; or, suppressed by `_execute_watching_for_cancel`,
  where it was.
- **Client**: `Submit`; cancel in its two round trips `CancelRead` and
  `CancelWrite`.
- **Operator**: `DlqList`, then the four round trips of `retry_from_dlq`, and
  `Purge`.
- **Environment**: `FallSilent` (the clock passes `stale_timeout`; for a live
  worker this is a stall), `Crash`, `TtlRunsOut`. A restarted process has a new
  worker id, so a crash is final for its id.

More abstractions: a heartbeat is one step (its two are in `WorkerRegistry`);
the adapter's run is one step that ends in any of its ways; a processor may use
any free slot; back-off delays are some time; logging is left out, results and
chunks are in modules of their own. The ids of all adapters are collected at
one moment, `requeue`'s read and script for one id are one step, and a command
in flight at a cancel either was not executed or has returned. A signal during
`start()` is left out.

**Bounds.** `Budget[k]` limits how often each kind of disturbance happens
(failed call, cancel, stop, crash, stall, DLQ retry, purge, expiry), and `used`
counts them. Nothing else is capped: `retry_count` is bounded by `RetryLimit`
plus the DLQ retries, tasks by submission once per id.

### TaskLifecycle and the refinement

A task is `new`, `open`, `settled`, `buried` (in the DLQ) or `discarded`.
`StageOf` maps a state of TaskSystem to a stage, from the queues, the DLQ, the
hands and the history. `ImplementsLifecycle` says that each step of the system
is a step of that life or no change, with its liveness: an open task ends. A
purge may run between an operator's listing and its enqueue, so the abstract
`Revive` also starts from `discarded`.

### PtyExecution and the code

Each `r` is one call of `execute()` with its `PTYProcess`. `exec[r]` is the
await it is at: `reading` (the read loop), `terminating` (its own
`terminate()`), `exiting` (`_wait_for_exit`), `forcing` (the `terminate()` at
the end of that). `stage[c][r]` is the `terminate()` that the read loop,
`cancel()` or `cleanup_all()` awaits on `r`; several may at once. `child`,
`tty`, `file` and `polled` are the kernel's: the process, who still has the
terminal open, what a number refers to, the epoll set. `callback` is the
selector's map from numbers. `active` is `_active`, `closed` is `_closed`.

`Spawn`, `OnReadable`, `ReadEnds`, `WaitExit`, `TimesOut`, `WaitExpires` and
`StreamFails` are `execute()`; `SendHup`, `TermWaits` and `TermEscalates` are
`terminate()`; `Cancel`, `CleanupAll`, `CleanupNext`, `CleanupReturns` the
other callers; `Interrupt` is the cancellation of the task that runs
`execute()`. Three things bring it about: the processor after `cancel()` and
its grace period; `stop()`, through the processor, after `cleanup_all()`; and
the end of `run()` (`LoopCloses`), which at an ordinary stop comes first:
asyncio.run cancels every task where it is. Then nothing need have been done
about the process; `cancel()` and `cleanup_all()` themselves stop at the await
of a `terminate()` (`stage` is `cut`, `cleanup` is `broken`), as `cancel()`
does when `stop()` cancels its processor (`BreakOff`). With `closing` the
processors end: nothing is spawned and no deadline is waited for any more. A
read loop whose `done` had been set may go on to its end, as `asyncio.wait_for`
up to Python 3.11 then returns instead of raising.

Abstractions: time (a deadline may pass at any look), output (`CliOutput`), the
kernel's buffer of unread output, a SIGKILL that needs longer than the last
wait, and pids that are used again. A number freed is taken by the next
`openpty`, lowest first, and only ptys compete for numbers.

### CodexExecution and the code

`phase[j]` is where `execute()` is, `backlog` the lines it has not read,
`piped` says that some process still has a pipe open. The two pipes are one.
`Vanished` is asyncio's condition for `terminate()` to raise: the process has
exited and its pipes are at their end. The actions are the branches of
`execute()`, `cancel()`, `cleanup_all()` with its exception half-way (`dropped`
remembers who was behind it), and the process. `CodexInterrupt` has the same
three causes as `Interrupt`, asyncio.run's being `LoopHalts`; it also comes
after a `cleanup_all()` that raised, which ends `stop()` before it cancels the
processors. `behind` remembers the processes that were entered into `_active`
after a `cancel()` or `cleanup_all()` had looked there.

### CliOutput and the code

`text`, `rest`, `buf` and `lines` are the LineBuffer: `Feed` is the reader,
`TakeLines` the loop, `Drain` its end. The decoding replaces each half of a
split character, so a cut within a character would show. `printed` and `acc`
are the lines handled and the locals of the read loop: `ClaudePrints` is
`_process_line` (with `parse_stream_json_line` as `ClaudeEvents` and
`_handle_event` as `Handle`), `CodexPrints` one line of `read_stdout`. A line
is a record of the fields the parsers branch on; its type `other` stands for
every type that the Codex adapter does not know (`CodexLineAssumption`).

The module shows one oddity it states no property about: for `turn.failed` and
`error`, `_parse_json_event` returns the JSON of the event in the place of the
session id, so `read_stdout` reports that text as the run's session
(`CodexSession`).

### RateLimit and CostControl and the code

`stamps`, `rpm` and `spent` are `_timestamps`, `_current_rpm` and
`_worker_spent`; `total` is the key in Redis. Time is relative: a start has an
age, a sleeper a rest. `BeforeProcess` is `before_process` up to its sleep,
`WakeUp` the rest, which does not look again; `Recover` and `SlowDown` are
`after_process`. The limit is a fraction in the code; `rpm` is its integer
part, which a recovery raises by a twentieth of it, or by one more, or not at
all. In CostControl the two stages of the check are `AskTotal` and
`TotalAnswered`, the charge `Charge` and `IncrCost`, with the broker failing in
`TotalUnknown` and `IncrFails`. A run that raises is charged nothing.

### ChunkStream and the code

`status`, `published` and `trimmed` are the hash and the stream; chunks are
their numbers, and of the statuses the unsettled ones are one. `printing`
counts the processors that run the CLI, up to `MaxRunners`: after a reap, a
crash or a requeue a second one may have the task (`BeginRun` asks for nothing
but room). `leftover` is a reader of codex's stdout that goes on after its run
raised. No store (`BeginRun`, `EndRun`, `SettleTask`, `Retry`, `CancelTask`,
`TaskExpires`) looks at what is stored. `reader` is the await of
`subscribe_chunks` or of `result()`: `ReadPage` (XREAD BLOCK), `Yield`,
`CheckStatus`, `DrainPage`, `LastDone`, `FirstLook`, `AskStatus` (after each
event, also of the last page), `FinalLook`. `drained`, `cut`, `busy`,
`overlapped` and `relapsed` are history: what was published at the last XREAD,
whether that was a full page, whether somebody could still publish then,
whether two had the task at once, and whether a terminal status was replaced.

### BatchRunner and the code

`call` is where the caller is; `unsettled`, `settled` and `results` are the
locals `pending`, `done` and `results` of `wait_batch`, `toRead` the ids its
loop has still to read. `counted` keeps what `get_batch_status` has read of
each id, from which its counters follow. `past` is history. Any status of a
task handed out may follow any other (`TaskMoves`): a settled task is
cancelled, run again by a second worker, expires, or comes back by a late
store.

### QueueOrder and the code

A score `priority * 1e12 + ms` is the pair of the two. The score is computed
when `enqueue` or `requeue` is called (`EnqueueCall`, `RequeueCall`) and used
when the script runs (`Arrive`); `PromoteNormal` and `ReapNormal` use NORMAL
and a time read earlier. All clocks agree.

### WorkerRegistry and the code

An entry of `{ns}:workers` is absent, fresh or stale. `BeatRead` and
`BeatWrite` are the HGET and HSET of `heartbeat`, `Scan`, `ReapQueues` and
`ForgetEntry` the steps of `reap_stale_workers`, which acts on the entries it
read first. `listed` remembers who died with an entry, `noticed` whose queues
were requeued after that. `Reaper` are the workers whose maintenance loop comes
round. Each worker has a new id; the reap `start()` makes is left out.

## 3. Properties

| Property | Says |
|---|---|
| `TypeOK` | type invariant, inductive |
| `NoDoubleRun` | until a worker dies, stalls or is stopped, and with one operator, every task is in at most one of: a queue, the DLQ (once), one process' hands, whatever broker call fails |
| `PermitAccounting` | permits free + held by processors + held by the loop + lost by a `finally` that raised or was cancelled = concurrency |
| `OneTaskPerFault` | until a worker dies, stalls or is stopped, with one operator and no expiry: no more tasks are stranded, or handed out again after their ack, than broker calls have failed |
| `OutcomeRecordedFirst` | until a worker dies, stalls or is stopped, and with one operator: ack only after DONE or CANCELLED is stored, and, when no call failed, DLQ only after FAILED or CANCELLED is stored |
| `AtLeastOnce` | `NothingLost`: a submitted task is acked, purged, queued, in the DLQ, in hands, or waits for a reap that will come; as long as no worker is stopped, no call fails, no hash expires under an operator's retry, and workers either crash or stall |
| `ForcedStopRequeues` | when a stop has run through without a failed call, each task whose CLI it terminated is queued, ended or in other hands, without the help of its own worker's reap (`WithoutWorker`); a worker that took it over may crash or stall in turn, not both |
| `EveryTaskEnds` | a submitted task is eventually acked, purged or in the DLQ |
| `ImplementsLifecycle` | the system implements TaskLifecycle |
| `QueuedNeverExpires` | no queued task carries a TTL (as long as nobody reaps) |
| `OwnsDescriptor` | a run that has not closed its master still owns that number |
| `DispatchesToOwner` | output goes to the run whose terminal it came from, while that run reads |
| `ReapedAndClosed` | a process is reaped exactly when its terminal is closed, by whomever |
| `DeafOnlyByReuse` | a reading run whose terminal is not polled took its number from a run under whose reader another caller had closed it |
| `NoOrphan` | a process outlives its run only under a `terminate()` (under way, to come, or broken off), after BillingError or ClaudeAuthError, spawned behind `cleanup_all()`, or when asyncio.run cancelled the run |
| `ExecutionEnds` | each run of the Claude executor ends |
| `CodexResultComplete` | an exit code is reported after all output was read |
| `CodexNoOrphan` | a process outlives its run without SIGTERM only when publishing failed, `cleanup_all()` broke off before it, it was launched behind a cancel or cleanup, or asyncio.run cancelled the run |
| `CodexEnds` | a Codex run with a timeout ends |
| `LinesIndependentOfChunks` | the lines are those of the output, however it was cut |
| `AnswerOfTheWholeOutput` | the result and cost are those of the last message that had one; 0 is not absent |
| `OneResultPerTool` | a Codex tool item has as many results as completions |
| `SoloRateLimited` | one processor keeps to `max_per_minute` |
| `HostOverspend`, `TotalOverspend` | a budget is passed by less than one run per processor |
| `SubscriberComplete` | which chunks a `stream()` that ended may have missed: trimmed ones, those behind a full last page, and those of a task that did not stay settled, of a cancelled run, of a second processor, or of a reader left behind |
| `ResultIsTerminal` | when `result()` may return an unsettled task |
| `SubscriptionEnds` | a subscription to a task that stays settled ends |
| `EachTaskOnce` | `wait_batch` returns each task once, after a timeout at most twice |
| `ReportIsBacked` | a batch report is true of the batch's history |
| `WaitEnds` | a wait for tasks that stay settled returns by itself |
| `NeverOvertaken` | no task is popped before one that was due earlier |
| `ListedUntilReaped` | no dead worker's entry is removed before its queues were requeued, unless it was gone or about to be removed when it died |
| `DeathIsNoticed` | while some worker stays, a dead worker's queues are requeued, unless its entry was gone when it died or a reaper was about to remove it |

Five of them say precisely how far the code falls short of what one would
expect. Two processors that find the rate window full wait for the same start
and then both start, so `RateLimited` holds for one processor only. A budget is
overspent by the runs admitted below it. `NeverOvertaken` counts a delayed,
retried or reaped task as NORMAL, where `mcp/server.py:88` promises that "Tasks
in the same queue are dequeued in priority order." `NoOrphan` has to allow for
BillingError, which leaves the CLI running, where `docs/ARCHITECTURE_V2.md:584`
wants it stopped at once to avoid charges, and for the ordinary stop: `run()`
returns within a second of the signal, and the CLIs of the tasks under way run
on with nobody who knows of them (`CodexNoOrphan` has the same exception). And
`DeathIsNoticed` exempts a worker that was reaped while it lived: its heartbeat
finds no entry and does not register again, so nobody is told when it dies.

## 4. Runs

| Run | Instance | Distinct states | Shows |
|---|---|---|---|
| `workers` | 2 workers, 2 tasks (one with an unknown provider), 1 permit each, a cancel, a DLQ retry, a purge; fair | 131,194 | types, one place per task, no TTL on a queued task, order of outcome and settlement when processes interleave; refinement of TaskLifecycle |
| `faults` | 1 worker with 2 processors, 2 tasks (one with an unknown provider), hooks around RetriesMiddleware, 2 failed calls, a cancel, a DLQ retry | 314,845 | one place, the order of outcome and settlement, and permits when calls fail half-way; the harm of each failed call |
| `crashes` | 2 workers, 2 tasks, a crash, a DLQ retry, a purge; fair | 163,956 | no task is lost to a crash at any await; every task ends |
| `stalls` | 2 workers, 1 task, a stall, an expiry | 393,833 | a live worker taken for dead: the task runs twice but is not lost |
| `stops` | 2 workers on 2 queues, 1 task, a stop, a crash | 1,040,774 | a stop at any await: terminated tasks are given back, also when a worker dies meanwhile; cancelled processors settle their permits |
| `executors` | 2 runs of each executor on 2 descriptors, one Codex run with a timeout; fair | 983,116 | processes, terminals and readers under cancel, cleanup, timeouts and the end of the loop |
| `services` | see below; fair | 664,584 | the parts around the task system |

`executors` and `services` put several modules that share no state into one
run. A behaviour is one of a single part (`provider`, `service`), the others
rest, so the state space is the sum of theirs. `services` has 3 outputs of 8 or
9 bytes in every cut, all runs of 4 lines out of 13 (Claude) and 15 (Codex), 1
or 2 processors in a window of 3 ticks and a limit of 2, 3 processors on 2
workers with costs up to 2 and budgets of 3 and 4, 3 chunks of 2 runners with
pages of 2 and a stream of 2, a batch of 2, 2 ids with 4 clock values, and 3
workers, 2 of them with a reaper: one to die, one to die while it reaps it, one
to stay.

Two workers are enough for every interaction through Redis here: a crash needs
a victim and a reaper, a double run two runners. Two tasks fill both permits of
a worker, and exceed the one permit of a worker in `workers`. One retry
separates the first attempt from the last, and a DLQ retry makes a second life.
Two failed calls let the second hit the handler of the first. One queue is
used, as the active set that matters is shared within a queue, except in
`stops`, because `stop()` requeues into each queue of its worker.

`SYMMETRY` is used where tasks or workers are interchangeable (the same
provider and queue) and only for safety. `faults` runs without deadlock
checking, since a worker that lost its permits to failed nacks really does stop
dequeuing, and so do `stops`, where one worker may have left and the other be
dead, and `executors` and `services`, where every call may have ended; in the
other runs reaching a state without a successor would be an error.

Two runs are enough for a descriptor to change hands and for three callers to
terminate one process; three chunks give a full last page and a chunk behind
it, and two runners overlap; 4 lines let an answer be followed by two others
and a line without one; two ids of a batch differ in status, and a task of it
can be settled, retried and settled again.

**Fairness** (`Fairness` in TaskSystem). asyncio runs a coroutine that can run:
weak fairness of each loop, each processor, the reaping, the promotion and a
registered worker's heartbeat. An adapter ends, by its exit or its timeout:
weak fairness of `ExecStep`. Delays elapse, so `Promote` is fair, and time
passes, so a dead worker falls silent. A stop goes on, and `run()` returns. An
operator who has begun finishes the retry. Nothing makes clients submit,
workers crash, calls fail or TTLs run out. Fairness of a step as a whole does
not choose how it ends: an adapter may fail each time. In `PtyExecution` there
is one condition per run, weak fairness of its coroutine (`Proceeds`): the read
loop and `_wait_for_exit` go on and their deadlines pass, as does the grace
period of the loop's own `terminate()`, and a cancellation by asyncio.run is
delivered; no CLI is obliged to print, exit or heed a signal, and nothing is
assumed of other callers. In `CodexExecution` (`CodexProceeds`) the timeout
fires and the wait of two seconds ends. `StreamFairness` and `BatchFairness`
are the reader's and the poller's event loop; `MCServices` restates them for
the part that runs. `RegistryFairness` lets reapers go on and dead entries age.

**Where the code and its documents disagree** (runs that end in a
counterexample):

- `cancel_is_seen`: `_process_task` stores RUNNING from the copy fetched at
  dequeue, so a CANCELLED written in between is lost, although the watcher's
  comment promises to catch it.
- `reap_spares_the_living`: reaping empties the queue's active set, which other
  workers share, so a task a live worker runs is queued again. The architecture
  document describes an active set per worker.
- `queued_never_expires`: after such a reap the first runner's ack puts a TTL
  on the hash of a queued id, which `enqueue.lua` says must never happen.
- `stop_loses_task`: a task that the dequeue loop has popped and not dispatched
  when the signal comes is in no list that `stop()` requeues, and the worker
  deregisters, so its active set is never reaped on its account. The
  architecture document promises that no task is lost before its ack.
- `graceful_stop`: `run()` returns while `stop()` waits for running tasks, and
  `worker run` then cancels them; README.md says that `shutdown_timeout` is the
  time it waits. What this does to the CLIs is in `NoOrphan`.

`NoDoubleRun` and `OutcomeRecordedFirst` are stated for one operator: with two
that retry from one listing, both enqueue, because `retry_from_dlq` does not
look at what LREM removed. `AtLeastOnce` has four provisos, each for a way in
which the code does lose a task, or may: a stop (`stop_loses_task`); a
`get_task` that fails after the pop, whose id stays in the active set of a live
worker (`redis.py:112`); a hash that expires between an operator's LREM and its
`get_task`, which then finds nothing to enqueue; and a worker that was reaped
while it lived, is not registered any more (`redis.py:264`) and then dies with
a task.

## 5. Proofs

TLAPS checks, for all constants that satisfy `QueueOfAssumption`,
`NullAssumption` and `SystemAssumption` (at least one permit, each worker
serves at least one queue, natural limits):

- `TypeCorrect`: `Spec => []TypeOK`. TypeOK is inductive as stated because it
  says more than ranges: an idle slot, an idle reaper and an idle operator have
  exactly one state each, a loop holds a task exactly while it fetches, and its
  queue index and that of `stop()` lie in the worker's list. `CommandTypes`
  (each broker command keeps the types of the keys) does the broker once for
  all callers; there is one case per action, and `StoreCopyType` serves the nine
  actions of `_process_task` that write the local copy. `ProcStepType` also
  shows that every step but the last leaves the slot busy.
- `PermitsAccounted`: `Spec => []PermitAccounting`. Inductive with TypeOK. The
  busy slots of a worker are a finite set (`BusyFinite`), which `Dispatch`
  enlarges by one (`BusyGrows`) and `Nack` and `Finish` shrink by one
  (`BusyShrinks`); other processor steps keep it (`ProcStepType`), and no step
  touches another worker's memory (`OneWorker`). When all processors are
  cancelled at once, the slots that become idle are exactly those whose
  `finally` was interrupted (`InterruptAllPermits`), which counts them as lost.
- `NeverTwoPlaces`: `Spec => []NoDoubleRun`. The proof separates *what* a step
  does to a task from *which* task: `ProcFrames`, `LoopFrames` and the like
  show that a step is about one task (`Focus`) and leaves the memory and the
  keys of all others alone (`Same`), so that an invariant of the form "for each
  task" has to be shown for one. OnePlace is not inductive. `PlaceIInv` adds
  that an operator's listed task is in the DLQ or nowhere (`Place`), which the
  later enqueue needs; that a processor's local status agrees with the await
  it is at (`ShapeInv`: nothing re-enqueues a FAILED copy or acks another);
  that an id is only in the keys of its own queue, and an id not submitted is
  nowhere (`GroundInv`); and that nothing is silent and no reaper at work
  before a disturbance (`QuietInv`). `ProcMoves` says what the twenty steps of
  a processor come to: it records, acks, re-enqueues, nacks or lets go.
- `QueuedHashesPersist`, `OutcomesAreRecorded`: from `PlaceIInv` and `LastInv`,
  which carries both over the await in between. The hash of a task that is
  queued, popped or not yet settled by its processor has no TTL; a processor at
  its ack finds DONE or CANCELLED in the hash, and one at its nack FAILED or
  CANCELLED. They need that one processor at most has the task, which is why
  NoDoubleRun comes first.
- `LifecycleSteps`, `LifecycleImplemented`: the safety part of
  `ImplementsLifecycle`. As long as no worker is disturbed, no call fails and
  no hash expires (`Smooth`), each step of the system is a step of TaskLifecycle
  or changes no stage; with those budgets at zero and one operator, as in the
  run, the system implements its initial condition and next-state relation.
  `SettledInv` adds that an acknowledged task is nowhere else any more and that
  a submitted one has a hash.
- `DeliveredAtLeastOnce`: `Spec => []AtLeastOnce`, by two invariants
  (`DeliveryInv`).
  `HeldInv`, while nobody crashes: a task is stored (queued, in the DLQ, ended
  or an operator's) or a worker has it in its memory, whatever reapers do.
  `GuardInv`, while no live worker is taken for dead: a task is stored, or it is
  in the active set of its queue and a worker that serves this queue holds it,
  or has died, is registered, and no reaper has passed the queue on its account
  (`Abandoned`). They rest on `ReaperInv` (only the dead are reaped, and the
  living are registered) and `HashInv` (a hash that is gone, or will go, is of
  an ended task).
- `ForcedStopsRequeue`: `Spec => ForcedStopRequeues`. What a stopping worker
  owes is split in two: of each id whose CLI it terminated, either its `stop()`
  has yet to come to the id's queue (`Obliged`), or the task is stored or with
  another worker already (`Spared`, in the two forms of `HeldInv` and
  `GuardInv`). A task that is spared stays so whatever the others do, as
  `DeliveryInv` says of them, and what the worker's own interrupted processors
  still do can only store it. `OwnInv` shows that `stop()` comes to the right
  queue at all: until the first stop each worker runs tasks of its own queues
  only. After it that is no longer true, since `stop()` puts an id into all
  queues of its worker (`worker.py:153`), which is why the property speaks of
  the first stop. `StopCountInv` says that the first stop is that of one worker.
- `PtyTypeCorrect`, `DescriptorsAreOwned`, `OutputIsDispatched`,
  `ReapingCloses`, `DeafRunsExplained`, `OrphansExplained` (from
  `NoRunAssumption`), for any number of runs and descriptors. `PtyInv` says
  that a number in use refers to the open terminal of the run that has it, that
  the epoll set has open files only, that each reader is that of a run whose
  loop will remove it, that a terminal closed under its reader was closed by
  another caller, and that whoever leaves `_active` is handed to a
  `terminate()`, which goes on until the process is reaped unless it is broken
  off. `TerminalEffects` reduces all steps to five effects on terminals.
- `CodexTypeCorrect`, `CodexResultsAreComplete`, `CodexOrphansExplained` (from
  `MaxLinesAssumption`), for any number of jobs: `CodexInv` adds when a process
  and an entry in `_active` exist, and (`EntryInv`) that a process without an
  entry was sent SIGTERM, passed over by a `cleanup_all()` that raised, or
  launched behind one. `ExecTypeCorrect` puts both executors together, as the
  run does.
- `EachTaskOnceTheorem`, `ReportIsBackedTheorem`, for any batch: `WaitInv`
  counts the occurrences of each id in each phase (`OncePerRound`, and
  `OnceMore` after the timeout), and `HistoryInv` says that what was read, at
  whatever time, is in the history.
- `TotalOverspendTheorem`, `HostOverspendTheorem` (from `AgentAssumption`,
  `HostOfAssumption`, `AmountAssumption`): the bounds are not inductive, since
  they do not say who has been admitted. The invariant `Covered` adds a reserve
  of `MaxCost` for each task that passed a check and is not charged yet: what
  is spent plus the reserve stays below the budget plus the reserve of all
  processors. A task enters only below the budget, which gives up one reserve,
  and its charge uses no more than its own.
- `NeverOvertakenTheorem` (from `MaxTimeAssumption`): `ScoresExplained` says of
  every queued id that its score's priority is the level remembered for it and
  its score's time is no later than its entry. `PopInOrder` derives the order
  of two queued ids from the minimal score.
- `SoloRateLimitedTheorem` (from `MaxRpmAssumption`, `WindowAssumption`): the
  limit alone is not inductive. `SoloInv` adds what the sleeper knows: the list
  is still the window it found, at most the limit, and its sleep outlasts the
  oldest start (`WaitsForTheOldest`), so the start it adds takes the place of
  one that no longer counts. With a second processor the list changes during
  the sleep, which is where the code goes wrong.
- `ListedUntilReapedTheorem` (from `ReaperAssumption`): `RegistryInv` adds that
  no reaper is about to remove the entry of a dead worker whose queues were not
  requeued since. It is the safety half of `DeathIsNoticed`.
- `CodexAnswerTheorem`, `OneResultPerToolTheorem` (from `CodexLineAssumption`),
  for Codex runs of any number of lines (`CodexOutputSpec`, without the bound
  `MaxPrinted`): `CodexOutputInv` gives the events their types and says that of
  the lines with an answer, or with an amount, there is a latest one.
- `ServicesTypeCorrect`: all parts together keep to their types. For ChunkStream
  the types need `Unskipped`, for the batch and the order of the queue their
  own invariants.
- `ResultIsTerminalTheorem`, `SubscriberCompleteTheorem` (from
  `StreamAssumption`): `Settled` says that a terminal status a reader was shown
  is still there or was replaced, and that of a task that one processor has no
  outcome is stored while it runs (`PrintingStatus`). `LateChunks` says who may
  publish after the last read, and who did. `Unskipped` says that every number
  up to the cursor, or up to the last element of the page, was yielded, is in
  the page or was trimmed, and that the last page reaches `drained` unless it
  is full.

`OutputIsDispatched` is a case for proving what was checked: two runs, which is
what TLC can afford, cannot show what the `remove_reader` of a terminated run
does to a third run that has its number by then (it takes it out of the epoll
set, so that run is deaf), and the model has to say so (`CloseUnderReader`).
In the same way `AtLeastOnce` got its provisos about expiry and about a crash
after a stall, which no run combines.

Only model-checked: `OneTaskPerFault`, whose induction would have to say which
failed call harmed which task, and `LinesIndependentOfChunks`, and
`AnswerOfTheWholeOutput` for Claude, whose lines and answers are folds over the
data: showing that a fold over a concatenation is the concatenation of folds
takes an induction that the prover cannot instantiate. For Codex, where the
answer is that of the last line that has one, it is proved. `EveryTaskEnds`,
the liveness of TaskLifecycle, `ExecutionEnds`, `CodexEnds`,
`SubscriptionEnds`, `WaitEnds` and `DeathIsNoticed` are about fairness and
beyond the prover. The properties of the violation runs are false, so there is
nothing to prove about them.

## 6. Not modelled

- The heartbeat's two commands inside TaskSystem, where it is one step:
  splitting it multiplies the states of every run; `WorkerRegistry` has them,
  apart from the tasks.
- Which worker may run which task after a stop requeued into all of its queues;
  a signal during `start()`; boot and shutdown hooks.
- Alerts of the cost middleware, logging, callbacks, and the timeout middleware
  (which only fills an option): they change no state of the system.
- Building the command lines of both CLIs, option merging, the CLI and MCP
  front ends: formatting and thin calls of what is modelled.
- pids that the system uses again, and the kernel's buffer of a terminal.

## 7. Plan

- State which worker may run which task once a stop has requeued an id into all
  queues of its worker (`worker.py:153`), and whose active set its ack leaves
  behind; the model reaches those states, no property is about them.
- A proof of `OneTaskPerFault`: which failed call strands or repeats a task
  (`dequeue()`'s at `redis.py:112` among them) has to be in the invariant.
- How far several processors can exceed `max_per_minute`.
