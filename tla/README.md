# go-task-runner in TLA+

This directory holds TLA+ models of the concurrency core of go-task-runner, the
TLC configurations that check them on small instances, and TLAPS proofs of the
properties that matter most for every size of the system. The models are
translated from the Go code; `PROJECT.json` ("map") says which lines each
definition stands for.

## 1. The system

go-task-runner posts tasks (closures) to *runners* instead of goroutines and
locks, in the manner of Chromium's task API.

| Part | State it keeps | Operations | Interacts with |
|---|---|---|---|
| `GoroutineThreadPool` (`pool.go`) and `TaskScheduler` (`core/task_scheduler.go`) | ready queue, signal channel of 2 x workers tokens, `metricQueued`, `metricActive`, `shuttingDown`, `running`, the workers' context | `PostInternal`, `GetWork`, `workerLoop`, `Start`, `Stop`, `StopGraceful`, `Shutdown`, `ShutdownGraceful` | executes what the runners post; owns the delay manager |
| `SequencedTaskRunner` | FIFO queue under a mutex, atomic `runningCount` (0 or 1), `closed` | `PostTask`, `runLoop`, `Shutdown`, `WaitIdle`, `FlushAsync`, `WaitShutdown`, delayed and repeating posts | posts its `runLoop` to the pool, one task at a time |
| `ParallelTaskRunner` | FIFO queue, `runningCount` up to `maxConcurrency`, `pendingBarrierTask`, `barrierTaskRunning`, `shutdownChan` | the same, with barriers for `WaitIdle` and `FlushAsync` | sends closures to an internal `SingleThreadTaskRunner`, dispatches to the pool |
| `SingleThreadTaskRunner` | channel of 100 places, queue policy, context | `PostTask`, `Shutdown`, `Stop`, `WaitIdle`, delayed and repeating posts | its own goroutine |
| `DelayManager` | heap of delayed tasks, timer, wake-up channel | `AddDelayedTask`, `loop`, `Stop` | posts expired tasks to their target runner |
| `FIFOTaskQueue`, `PriorityTaskQueue` | slices | `Push`, `Pop`, `Clear`, `MaybeCompact` | used by all of the above |
| `EventBus` | subscriptions per event type, locator per subscription id, `closed` | `Subscribe`, `Publish`, `Unsubscribe`, `WaitIdle`, `Close` | one `SequencedTaskRunner` |
| Task and reply, repeating tasks | handles | `PostTaskAndReply`, `PostRepeatingTask`, `Stop` | two runners; the delay manager |
| `JobManager` and the job stores | active jobs, handlers, rows of jobs | `SubmitJob`, `CancelJob`, `Start` (recovery), `Shutdown` | three runners (control, IO, execution) and a store |

What is hard here, and what the properties are about, is listed line by line
under "hazards" in `PROJECT.json`. In short:

* *hand-over of the right to run*: a runner that goes idle races with a post
  (`SequencedTaskRunner`), and a worker that goes to sleep races with a signal
  that may be dropped (`TaskScheduler`);
* *counters updated apart from the thing they count* (`metricQueued`,
  `runningCount`), read by somebody who decides to stop or to start work;
* *barriers*: `WaitIdle` and `FlushAsync` promise an order between tasks of
  different goroutines;
* *shutdown at any moment*: a closed check followed by a push, a Clear that runs
  in between, a caller that waits for something that was thrown away;
* *time*: a delay loop that sleeps while earlier entries arrive, repeating tasks
  that live from one delayed post to the next;
* *bounded places*: a full channel with a task that posts to its own runner, a
  slice at its capacity, a sequence number at the end of its range;
* *persistence*: writes that fail before or after they took effect and are tried
  again, a crash between any two steps, recovery beside new submissions;
* *liveness*: an accepted task runs, a waiting caller returns.

## 2. The modules

| Module | Models |
|---|---|
| `Strand` | abstract specification: a sequential executor (one task at a time, in order of acceptance, discarded at most once by Shutdown, started eventually while the pool is up) |
| `SequencedRunner` | `SequencedTaskRunner` on a pool; shown to implement `Strand` |
| `WorkerPool` | `GoroutineThreadPool` and `TaskScheduler`; the delay manager's goroutine is one of the posters, and `DelayManager.Stop` waits for it |
| `ParallelRunner` | `ParallelTaskRunner` with its internal scheduler |
| `EventBus` | the event bus, on top of the executor of `Strand` |
| `SingleThreadRunner` | `SingleThreadTaskRunner` with its bounded channel, queue policies, delayed and repeating tasks |
| `DelayManager` | the delay manager; its actions leave the variables of its users alone |
| `Timers` | the delay manager composed with a sequenced or parallel runner: delayed tasks, repeating tasks, tasks with a reply |
| `TaskQueues` | `FIFOTaskQueue` and `PriorityTaskQueue` beside reference queues |
| `JobStore` | the SQLite store, the memory store and an application's own store, by their effect on a row |
| `JobManager` | the job manager on its three runners and a store, with crashes |
| `SequencedRunnerProofs`, `WorkerPoolProofs`, `ParallelRunnerProofs`, `SingleThreadRunnerProofs`, `TimersProofs`, `EventBusProofs`, `TaskQueuesProofs`, `JobManagerProofs` | the theorems; those about the delay manager are in `TimersProofs` |
| `MC...` | the instances TLC runs |

Each atomic operation, critical section and channel operation of the code is an
action. A process (poster, worker, stopper, scheduler) has a program counter
(`ppc`, `wpc`, `spc`) whose values are the points between those operations. What
a task does is abstracted: it runs and ends; a panic is recovered by the code and
goes the same way. Definitions whose comment starts with "Fault:" are variants
of an action with a plausible mistake; no specification uses them. They are there
to show that each property can tell the mistake from the code.

`SequencedRunner`. `Posters` are all goroutines that call the runner. A post is
`PostTask` (closed check), `Push`, `EnsureRunning` (compare-and-swap) and
`PosterPostsRunLoop`; `WaitIdle` adds its own closed check and its select. A
`runLoop` on a worker is `SanityCheck`, `PopTask`, `ExecuteTask`, `CheckMore` and
either `WorkerPostsRunLoop` or `GoIdle`, `ScheduleNextIfNeeded`,
`ReacquireToken`. The pool is the number of runLoops it has queued, and drops them
once it is shut down. The refinement mapping to `Strand` takes the queue for the
waiting tasks and what the workers execute for the running ones.

`WorkerPool`. `ready` is a set: which task `Pop` returns (FIFO or priority order)
makes no difference to what is stated. `Stop` and `StopGraceful` are followed
through `DelayManager.Stop`, the polls of the two counters (two reads), the
deadline, `Clear` and the reset of `metricQueued` (two steps), `cancel`, `Join`
and the reset of `running`. The workers' context derives from the one given to
`Start`, so its owner may cancel it at any time (`CallerCancels`): the workers leave
and `running` stays true.

`ParallelRunner`. Items are numbered in the order in which the scheduler's channel
receives them. The scheduler's goroutine takes a closure (`ReceiveClosure`),
pushes (`Push`), runs `tryScheduleInternal` (`TrySchedule`, `CheckSlot`,
`PopItem`); items go through `pool`, `exec`, `ended` (a barrier's deferred call),
`leave` (`runningCount` is lowered) and `notify` (the closure that looks for more).
`Shutdown` has four steps, as in the code.

`EventBus`. The tables are touched by closures only, which `Strand` runs one at a
time, so a closure is one action, except the fan-out of `Publish`, whose posts
interleave with those of other callers. An index out of range in `Unsubscribe`
panics and the runner recovers, so the closure ends where it panicked. A runner given
by `NewEventBusFromRunner` may be shut down by its owner without a `Close` of the bus.

`SingleThreadRunner`. An item's `status` says how far its post, its stay in the
channel and its execution are; `enqueueTask` is the closed check, the reading of the
policy and the select (`Send`, `GiveUp`, `Reject`). The running task may post too
(`posting`), and then waits on a channel that only it can drain. A tick of a
repeating task has its checks and its body as separate steps, and its next post is
an armed `time.AfterFunc`. `before` records what `WaitIdle` still has to wait for: the
items, the tick included, that were in the channel or running when it was called
and have not ended since; not posts still under way.

`DelayManager` and `Timers`. The heap is a set of entries with due times on a clock
that may tick between any two steps. The loop computes its sleep, arms the timer,
and selects among wake-up, timer and context; expired entries form a `batch` that is
posted outside the lock, entry by entry. `clip` folds every time after `MaxTime`
into `MaxTime`: such an entry is due at the last tick. In `Timers` the runner is the
executor of `Strand`, or the parallel runner's closures for its scheduler; a post by
the delay loop is a closed check and a push, as in the code. A task with a reply stores
its result when it returns (`WorkEnds`), its wrapper then hands the reply to the reply
runner (`PostReply`), which may refuse it or execute it before the wrapper has returned
(`RunReply`).

`TaskQueues`. Each operation is one step, under the queue's mutex. The FIFO slice is
its backing array from the first element to its capacity, so that `append` in place,
reallocation, zeroed cells and compaction all move real cells. Capacities after
growth are those of Go's `append` for small slices (doubling; external).

`JobStore` and `JobManager`. A row is its status. A database call may report a failure
whether or not it took effect, so a retry may meet its own earlier write. The control
and the IO runner are sequences whose heads are the closures that run, `controlAt` and
`ioAt` the points at which those wait (for the other runner, for a retry, for the next
recovered job). The same id can be active once, and an `Instance` says whether an
execution comes from a submission or from recovery. `Crash` loses everything except
the rows, and also those if the store is in memory. `Shutdown` polls the active jobs
and the count of pending finalizations in two reads.

## 3. What is checked

Bounds are CONSTANTS named in the cfg files. `CHECK_DEADLOCK FALSE` is set
everywhere since the bounded callers stop calling and a system that is shut down
stays so.

| Run | Instance | Shows |
|---|---|---|
| `sequenced` | 2 posters with a call each, 2 workers | at most one runLoop (`OneRunLoop`), the sanity check never panics, no task is stranded, `WaitIdle` is a barrier and returns, the runner implements `Strand` with its liveness |
| `pool_safety` | 2 posters with 2 posts each, 2 workers, 2 stoppers, 2 starts, `SafetyLoad` | no lost wake-up, exact counters, graceful stop drains, a stopped pool has no live worker |
| `pool_live` | 3 posts, 1 worker (channel of 2), 2 stoppers, `LiveLoad` | a queued task runs, although a token was dropped, unless the context of `Start` is cancelled; two `Stop`s or `StopGraceful`s at once return |
| `parallel` | 3 items, concurrency 2, Shutdown | the concurrency bound, barriers wait for what came before, every queued item ends, `WaitIdle` returns |
| `parallel_flush` | 2 items | violated, see below |
| `eventbus` | 5 calls, 2 event types, up to 2 cancellations of a subscription, `Load` | tables agree, exact audience, order of events, delivery |
| `single_thread` | 2 tasks, a `WaitIdle`, a repeating task, capacity 2, policies drop and reject that change, `Load` | `WaitIdle` is a barrier for tasks and tick, at most one late tick after `handle.Stop`, the channel's contents run, `Stop` returns |
| `single_thread_drop` | 2 tasks, policy drop | violated, see below |
| `timers` | a repeating task and a task with a reply, delays 1 and 2, both kinds of runner | the loop never oversleeps, what is due is posted, a repeating task goes on, a reply runs behind the store of its task's result and reads it |
| `queues` | 8 pushes, 3 priorities, sequence numbers up to 3, capacities 2 and 4, factor 2 | the FIFO slice equals a reference queue; priority order with FIFO among equals |
| `jobs` | 1 job, 3 kinds of store, rows left by earlier processes, 1 retry, 1 crash | an acknowledged job has a row and ends final; final statuses stay; only PENDING rows are run; `Shutdown` waits for the final statuses; `SubmitJob` returns |
| `jobs_start` | 2 jobs, submissions beside `Start` | violated, see below |

Why the bounds are enough: the races are between two posters, between a poster
and a worker that goes idle, and between a stopper and both; two workers let a
new runLoop start while the old one has not yet looked at the queue a second
time. One worker has a channel of two tokens, which three posts overfill. A parked
barrier needs a running item before it and an item after it to be overtaken:
three items. A swap-remove that moves a subscription needs three subscriptions
and an Unsubscribe, and a publish after it is a fifth call; so many take the tables through a
repeated Unsubscribe that removes another subscription as well. A channel of two
places has a barrier behind a task and a tick, and four items fill it while a
sender and a self-poster wait. In `timers` the clock has room for an
entry that arrives while the loop sleeps for a later one. The queue constants are
scaled down so that growth, compaction and the end of the sequence
numbers all happen within eight pushes. In `jobs` one id can be left by an earlier
process, submitted, crash, be recovered and be submitted again, and submissions
follow `Start` there, as in the examples of the repository; the mutual wait of `jobs_start`
needs two ids. `MaxRetries = 1` has a write that took effect repeated. For the
properties that are proved, the instance is only a test of the formula.

Four instances have a CONSTRAINT that keeps the number of calls of one behaviour in
hand. `SafetyLoad`: with two stoppers there is at most one post, with one stopper all
of them. `LiveLoad`: besides, the first stopper is always the same one (they are
interchangeable) and the delay manager makes one post at most, the other poster two. `Load` in
`MCEventBus`: a bus that is closed, or whose runner or pool is shut down, has had four
calls if all were about one event type, and else three. `Load` in
`MCSingleThreadRunner`: the second task is posted once `runLoop` has taken the first, or
the first was refused. They bound calls and shutdowns of the environment,
which no fairness obliges it to make, and never a step of a goroutine inside a call or a
loop; leaving such a call out is a behaviour of the system, so the liveness properties
lose no behaviour in which something is due.

Fairness. A goroutine inside a call or a loop goes on (weak fairness per
goroutine: Go's scheduler is preemptive), a task ends, a pool that is up gives
queued work to its workers, and the deadline of a graceful stop passes (strong
fairness, since the poll disables it again and again). Nobody has to begin a call,
to cancel a context, to close or to stop anything. In `EventBus` the fairness is
what `Strand` promises. In `SingleThreadRunner` a blocked sender is strongly fair:
Go's channels serve waiting senders in order. In `Timers` time passes, in `JobManager`
handlers return and every process calls `Start`; store failures are not limited by
fairness, only by the retries of the code.

### Where the code and its documentation disagree

Three disagreements have a run that exhibits them:

* `parallel_flush`: a barrier that is dispatched at once (nothing runs) does not
  raise `barrierTaskRunning`, so a task posted after `FlushAsync` may start first.
* `single_thread_drop`: `QueuePolicyDrop` does not drop. A post to a full channel
  blocks, and a task that posts to its own runner then waits for itself until `Stop`.
* `jobs_start`: `submitJobIO` has the control runner wait for the IO runner, and
  recovery has the IO runner wait for the control runner. A `SubmitJob` beside `Start`
  can stop both for good, and with them every later call, unless a context ends.

Others are behaviours of the models that no run states as a property:

* `StopGraceful` can return nil and lose a task whose post had long returned, because
  `metricQueued` is raised after the push and lowered after the pop
  (`core/task_scheduler.go:108`, `:184`). Without a post under way when the flag is
  raised, the promise holds (`GracefulDrains`).
* Two `Stop`s around a restart: the second, delayed since before the restart, resets
  `running` under the new workers, and the pool looks stopped while they live
  (`pool.go:61`, `:97`). `StoppedPoolIsQuiet` has as its premise one call of `Stop`
  or no restart.
* An item pushed by a closure that passed the closed check before `Shutdown` is
  dispatched after `Shutdown` has returned (`core/parallel_task_runner.go:228`).
* After an `Unsubscribe` handlers are called in another order than that of
  subscription; `WaitIdle` does not wait for the handlers of earlier events; and
  unsubscribing the newest of several subscriptions panics and leaves its locator,
  with which a second `Unsubscribe` can remove another subscription
  (`eventbus/eventbus.go:71`, `:88`, `:96`). For example: subscribe 1, subscribe 2,
  unsubscribe 2 (panics), subscribe 3, unsubscribe 2 again (removes 3), publish: 3 is
  never called. `ReachesAudience` and `PublishDelivers` hold as long as no subscription
  was cancelled twice before the event (`cancelledOnce`); without that premise TLC finds
  the six calls as a violation.
* When the owner of the context given to `Start` cancels it, the workers leave, the pool
  goes on to accept tasks, `IsRunning` stays true and a second `Start` does nothing
  (`pool.go:69`); nothing that is queued then runs until a `Stop` and another `Start`.
  `QueuedTaskRuns` therefore excepts a cancelled context; `Stop` and `StopGraceful` still
  return.
* A `Shutdown` of the sequenced runner between the closed check of `WaitIdle` and its
  barrier throws the barrier away, and `WaitIdle` then returns only with its context
  (`core/sequenced_task_runner.go:466`); `WaitIdleReturns` excepts a closed runner.
* A sequenced runner whose `runLoop` is posted to a pool that is shutting down keeps its
  token and runs nothing more, also while `StopGraceful` waits
  (`core/sequenced_task_runner.go:230`); the liveness of `Strand` excepts that pool.
* `FinalIsFinal` and `AckedEventuallyFinal` except a store without `CreateJob`: a
  resubmission there puts a finished job back to PENDING (`job/job_manager.go:361`).
* `ShutdownSaves` excepts a job whose finalize closure is queued or between the removal
  of the active job and the count (`job/job_manager.go:464`): `Shutdown` may then close
  the runners before the status is written.
* A caller that cancels after `CreateJob` took effect gets an error, and the PENDING row
  stays until a later `Start` runs it (`job/job_manager.go:322`).
* `jobs` has submissions after `Start`. Without that, recovery finds the PENDING row of
  a job that was just submitted and may run it twice (`job/job_manager.go:646`); a second
  run then begins on a row that is RUNNING or final and overwrites its status. Hence the
  hypothesis `~EarlySubmit` of three theorems.

`FIFOTaskQueue.PopUpTo` returns the queue's own array when it empties the queue
(`core/queue.go:90`), which later pushes overwrite; the model ends with the return of
the batch, so what a caller does with it afterwards is not checked.

## 4. What is proved

Every safety invariant, action property and safety refinement that a passing run checks
is a theorem, for arbitrary sets of posters, workers, tasks, event types and jobs and any
bound on calls. The theorems are about `Safety` or about `Spec`, of which they use the
initial state and the steps. One restriction is a hypothesis of theorems and not an
assumption of the models: `~EarlySubmit` (callers submit jobs after `Start`). The run has
the same one, and section 3 says what happens without it.

`SequencedRunnerProofs`, from `MaxCallsAssumption` and `NoTaskAssumption`. The
inductive invariant `IInv` strengthens `OneRunLoop` by `TokenHeld` (a runLoop
exists exactly if `runningCount` is 1, but for a pool that dropped one),
`QueueWatched` (a queued task is watched by the token, by a poster before its
compare-and-swap or by a worker before its second look) and `TasksInHand`.
`OneRunLoop` alone is not inductive: nothing in it says that a compare-and-swap
that succeeds finds no runLoop. From it follow `TypeCorrect`, `AtMostOneRunLoop`,
`SanityCheckNeverPanics`, `NoTaskStranded`, and `ImplementsStrand`, the safety half
of the refinement.

`WaitIdleIsBarrier` has an invariant of its own, `BarrierInv`: whatever `WaitIdle` has to
wait for stands in front of its barrier until the barrier is taken, and is over from then
on (`BarrierBehind`). The second half needs `OneRunLoop`: the task that was taken before
the barrier has ended, since no second worker executes beside it.

`WorkerPoolProofs`, from finite `Posters` and `Workers`. The invariant counts
goroutines at program points (`workersAt`, `postersAt`); the lemma `CountMoves`
says how such a count changes when one goroutine moves, and every action is then
arithmetic. `NoLostWakeup` is a disjunction: tokens that were dropped because the
channel was full are made up for by a channel that can wake every sleeping
worker. `MetricsExact` needs `TasksBegun` (a task is pushed once) and
`ClearIsForced` (the queue is emptied only by `Stop` or after a deadline).
`GracefulStopDrains` follows the tasks that were posted when the flag was raised
(`DrainInv`): they are queued, in a worker's hand or run; a poll that finds
`metricQueued` at 0 in a calm pool leaves none in the queue, since the count is exact; and
`Join` waits for the hands. `StoppedIsQuiet` needs that a stopper past its look at
`running` still has a running pool (`QuietInv`), which a second stopper could falsify: an
attempt without the premise on stoppers and restarts fails there, and TLC shows the race.

`ParallelRunnerProofs`, from `ConcurrencyAssumption`, `CallsAssumption` and
`KindsAssumption`. `ConcurrencyIsBounded` needs `SlotIsFree`: between the loop's
check and its `Pop`, workers only give slots up, so the check is still true when it
is used. `BarriersWait` needs to know of every earlier item where it is:
`Placement` ties an item's stage to the channel, the queue and the parking place
that hold it, and `InOrder` says that none of these lets an item pass another. A
barrier is dispatched with `runningCount` 0, which is exact, so no earlier item is
in the pool; `InOrder` excludes the places before the pool; what is left is over.

`SingleThreadRunnerProofs`, from the named assumptions of the module. `WaitIdleBarrier`
is not inductive, since it says nothing before the barrier is done. `IInv` adds
`ChannelExact` (the channel holds the queued items, each once), `LoopExact` (the item
that runs is the one `runLoop` holds) and `BarrierBehind` (what a barrier still has to wait
for is in hand or in front of it in the channel, tick or task); `EndOrder` gives
`StoppedRunnerIsQuiet`: nothing runs after
`Stop` has returned. `StoppedHandleTicksOnce` counts late ticks by the state of the one
tick that can be past its checks (`TickInv`).

`TimersProofs`, from `TimeAssumption` and the assumptions of `Timers`. `NoOversleep` rests on the wake-up of an
entry that becomes the head: `DMInv` adds `AimsAhead` (the computed sleep is not
negative) and `BatchIsDue` (nothing in the heap is due before what is being posted).
The latter gives `PostsInDueOrder`. Every step of `Timers` is a step of the delay manager or leaves it
alone (`TimersUseDelayManager`), so `NoOversleep` carries over to the composition.
`RepliesFollowTasks` rests on `ReplyInv`: the value of a task that returned is stored
before its wrapper posts the reply, and nothing changes it afterwards.

`EventBusProofs`, from `CallsAssumption` and `UnsubscribesAssumption`. `BusInv` says how
the tasks of the runner lie: a closure that waits belongs to a later call than everything
that has run (`ClosureInv`), the handlers that the running fan-out has posted are those
before its position (`FanInv`), and handlers wait, run and have run in the order of their
events (`HandlerInv`). `DeliveryInOrder` is the last of these. `TablesAgree` is inductive
with types and `IdInv` (only subscriptions that were made have a locator), also for an
`Unsubscribe` that finds a stale locator. `FanOutReachesAudience` relates the lists to the
history of calls (`TableInv`: in so far as no closure has cancelled a subscription twice,
a subscription is listed exactly if its closure has run and no closure that cancels it has),
so that the list a fan-out walks through is its audience
(`ListIsAudience`), and the end of the loop has posted all of it (`PostedInv`). It has no
hypothesis on the calls: the formula itself excepts the events behind a repeated
cancellation, after which a locator need not be the subscription's own.

`TaskQueuesProofs`, from the assumptions of `TaskQueues`. `FIFOHoldsItsTasks` compares the
array with the reference place by place (`backs`); compaction and growth keep that because
they never allot less than the length. `PriorityPopsInOrder` rests on `PrioInv`: until the
sequence wraps with items in the queue, sequence numbers are in the order of the pushes
and below the next one. The largest sequence number is a constant, so nothing depends on
its being a power of two less one.

`JobManagerProofs`. `AcknowledgedIsDurable` follows nil from the write to the caller:
a create past its write has its row (`WrittenInv`), the answer nil belongs to the
submission that waits for it (`CreatedInv`), and rows are never deleted except with
the memory of a crashed process, which takes the acknowledgements with it.

The other three theorems rest on `OneInstance`: a job has one instance that is created,
executed or finalized at a time. Its parts are what the three runners could disagree about:
`ExecInv` (an instance that is executed is the active one, its row is not final and no
finalization is queued), `FinalizeInv` (one finalization per job, which stays active until
it is taken), `QueueInv` (what the IO runner has to write for a job is in the order
RUNNING, final status, new submission), `FinalInv` (behind a final row waits at most the
write of that very status, or a submission, which only a store without `CreateJob` lets
overwrite the row), and
`StartInv`, `EarlyInv`, `RecoverInv` (recovery is over a job before anything else is done
for it). `FinalStatusStays` and `ExecutionStartsPending` are read off it.
`ShutdownKeepsFinals` adds that `pendingFinalize` counts the writes under way exactly and
that the status of an ended execution is queued, being written, written or given up
(`SavedInv`).

Only model-checked: what is about liveness (fairness and ENABLED are outside what the
installed provers do), that is `StrandSpec`, `WaitIdleReturns`, `QueuedTaskRuns`,
`StopReturns`, `QueuedItemEnds`, `PublishDelivers`, `AcceptedRuns`, `StopEnds`,
`DueIsPosted`, `ChainGoesOn`, `AckedEventuallyFinal` and `SubmitReturns`.

## 5. Not modelled, and the plan

Not modelled in the parts above: statistics, names and metadata (nothing depends on
them), `WaitShutdown` (a select on one channel), the process-wide pool (whose shutdown
holds `globalMu` while it joins the workers, `pool.go:290`), a `Start` that races with
two `Stop`s, tasks that stop their own pool, 32-bit overflow of the counters, the
rejection callback, `GetJob`, `ListJobs` and `DeleteJob` as calls of an application,
the setters of the job manager's configuration, and the copy of the SQLite store under
`job/sqlite`.

Left, in this order:

1. Composition: `SequencedRunner` on the pool of `WorkerPool` instead of the
   two-call view of it.
2. An abstract life cycle of a job that `JobManager` implements.

Not worth modelling: the Prometheus exporter, serializers, examples, templates and
scripts.
