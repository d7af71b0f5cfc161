--------------------------- MODULE SequencedRunner ---------------------------
(***************************************************************************)
(* SequencedTaskRunner: posting goroutines push tasks on a FIFO queue that *)
(* a mutex protects, and a "running" token, the atomic runningCount,       *)
(* decides who hands a runLoop to the thread pool.  A runLoop runs exactly *)
(* one task and either passes the token on to the next runLoop or drops it *)
(* and looks at the queue once more.                                       *)
(*                                                                         *)
(* Each atomic operation, each critical section of queueMu and each call   *)
(* into the thread pool is one action.  Posters stands for every goroutine *)
(* that calls the runner: application goroutines, the delay manager that   *)
(* posts an expired task, and a task that posts to its own runner (a post  *)
(* never blocks, so posting from another goroutine has the same effects in *)
(* more orders).  The thread pool is seen through its two calls: a         *)
(* PostInternal that queues the runLoop or, once shut down, drops it.      *)
(***************************************************************************)
EXTENDS Naturals, Sequences

CONSTANTS
  Posters,    \* goroutines that call PostTask, FlushAsync or WaitIdle
  Workers,    \* worker goroutines of the thread pool
  MaxCalls,   \* bound: calls each poster makes
  NoTask      \* what a worker that holds no task has in hand

Task == Posters \X (1..MaxCalls)

ASSUME MaxCallsAssumption == MaxCalls \in Nat
ASSUME NoTaskAssumption == NoTask \notin Task

VARIABLES
  queue,          \* the runner's FIFO queue
  runningCount,   \* 1: a runLoop is scheduled or running
  closed,         \* Shutdown has stored true
  cleared,        \* Shutdown has replaced the queue
  ppc,            \* where each poster is in its call
  mode,           \* which call the poster makes: "post" or "waitIdle"
  calls,          \* calls each poster has begun
  wpc,            \* where each worker is in runLoop
  cur,            \* the task each worker has popped
  pending,        \* runLoops in the pool's queue
  poolDown,       \* the pool's shuttingDown flag
  finished,       \* history: tasks that were executed
  discarded,      \* history: tasks that Shutdown threw away
  before          \* history: tasks accepted when a poster called WaitIdle

runnerVars == <<queue, runningCount, closed, cleared>>
posterVars == <<ppc, mode, calls>>
workerVars == <<wpc, cur>>
poolVars   == <<pending, poolDown>>
histVars   == <<finished, discarded, before>>
vars == <<runnerVars, posterVars, workerVars, poolVars, histVars>>

Init ==
  /\ queue = << >>
  /\ runningCount = 0
  /\ closed = FALSE
  /\ cleared = FALSE
  /\ ppc = [p \in Posters |-> "idle"]
  /\ mode = [p \in Posters |-> "post"]
  /\ calls = [p \in Posters |-> 0]
  /\ wpc = [w \in Workers |-> "idle"]
  /\ cur = [w \in Workers |-> NoTask]
  /\ pending = 0
  /\ poolDown = FALSE
  /\ finished = {}
  /\ discarded = {}
  /\ before = [p \in Posters |-> {}]

-----------------------------------------------------------------------------
(* PostTask and WaitIdle.                                                  *)

\* The task of the poster's present call.
taskOf(p) == <<p, calls[p]>>

\* Every task that is in the queue or in a worker's hands, or has been run.
accepted ==
  {queue[i] : i \in 1..Len(queue)} \cup finished
    \cup {cur[w] : w \in {v \in Workers : wpc[v] = "exec"}}

\* PostTask's closed check: a closed runner drops the task silently.
PostTask(p) ==
  /\ ppc[p] = "idle"
  /\ calls[p] < MaxCalls
  /\ calls' = [calls EXCEPT ![p] = @ + 1]
  /\ mode' = [mode EXCEPT ![p] = "post"]
  /\ ppc' = [ppc EXCEPT ![p] = IF closed THEN "idle" ELSE "push"]
  /\ UNCHANGED <<runnerVars, workerVars, poolVars, histVars>>

\* WaitIdle's own closed check: a closed runner makes it return an error.
WaitIdle(p) ==
  /\ ppc[p] = "idle"
  /\ calls[p] < MaxCalls
  /\ calls' = [calls EXCEPT ![p] = @ + 1]
  /\ mode' = [mode EXCEPT ![p] = "waitIdle"]
  /\ ppc' = [ppc EXCEPT ![p] = IF closed THEN "idle" ELSE "barrier"]
  /\ before' = [before EXCEPT ![p] = accepted]
  /\ UNCHANGED <<runnerVars, workerVars, poolVars, finished, discarded>>

\* WaitIdle posts its barrier through PostTask, whose closed check may now
\* fail: the barrier is dropped and WaitIdle waits all the same.
PostBarrier(p) ==
  /\ ppc[p] = "barrier"
  /\ ppc' = [ppc EXCEPT ![p] = IF closed THEN "wait" ELSE "push"]
  /\ UNCHANGED <<runnerVars, mode, calls, workerVars, poolVars, histVars>>

Push(p) ==
  /\ ppc[p] = "push"
  /\ queue' = Append(queue, taskOf(p))
  /\ ppc' = [ppc EXCEPT ![p] = "cas"]
  /\ UNCHANGED <<runningCount, closed, cleared, mode, calls, workerVars,
                 poolVars, histVars>>

\* PostTask returns to its caller; WaitIdle goes on to its select.
afterPost(p) == IF mode[p] = "waitIdle" THEN "wait" ELSE "idle"

\* Fault: an increment in place of the compare-and-swap, so that every poster
\* hands a runLoop to the pool.
EnsureRunningByAdding(p) ==
  /\ ppc[p] = "cas"
  /\ runningCount' = runningCount + 1
  /\ ppc' = [ppc EXCEPT ![p] = "post"]
  /\ UNCHANGED <<queue, closed, cleared, mode, calls, workerVars, poolVars,
                 histVars>>

\* Fault: load and store in place of the compare-and-swap; the poster posts a
\* runLoop whatever it read.
EnsureRunningByStoring(p) ==
  /\ ppc[p] = "cas"
  /\ runningCount' = 1
  /\ ppc' = [ppc EXCEPT ![p] = "post"]
  /\ UNCHANGED <<queue, closed, cleared, mode, calls, workerVars, poolVars,
                 histVars>>

\* ensureRunning's compare-and-swap, by a poster.
EnsureRunning(p) ==
  /\ ppc[p] = "cas"
  /\ IF runningCount = 0
       THEN /\ runningCount' = 1
            /\ ppc' = [ppc EXCEPT ![p] = "post"]
       ELSE /\ ppc' = [ppc EXCEPT ![p] = afterPost(p)]
            /\ UNCHANGED runningCount
  /\ UNCHANGED <<queue, closed, cleared, mode, calls, workerVars, poolVars,
                 histVars>>

\* The pool's PostInternal: a pool that is shutting down drops the runLoop.
PostInternal == pending' = IF poolDown THEN pending ELSE pending + 1

PosterPostsRunLoop(p) ==
  /\ ppc[p] = "post"
  /\ PostInternal
  /\ ppc' = [ppc EXCEPT ![p] = afterPost(p)]
  /\ UNCHANGED <<runnerVars, mode, calls, workerVars, poolDown, histVars>>

\* WaitIdle's select: the barrier task has closed the done channel.
WaitIdleDone(p) ==
  /\ ppc[p] = "wait"
  /\ taskOf(p) \in finished
  /\ ppc' = [ppc EXCEPT ![p] = "idle"]
  /\ UNCHANGED <<runnerVars, mode, calls, workerVars, poolVars, histVars>>

\* WaitIdle's select: the caller's context is cancelled.
WaitIdleCancelled(p) ==
  /\ ppc[p] = "wait"
  /\ ppc' = [ppc EXCEPT ![p] = "idle"]
  /\ UNCHANGED <<runnerVars, mode, calls, workerVars, poolVars, histVars>>

-----------------------------------------------------------------------------
(* runLoop, on a worker of the pool.                                       *)

moveWorker(w, to) == wpc' = [wpc EXCEPT ![w] = to]

\* The pool hands a queued runLoop to an idle worker.
TakeRunLoop(w) ==
  /\ wpc[w] = "idle"
  /\ pending > 0
  /\ pending' = pending - 1
  /\ moveWorker(w, "start")
  /\ UNCHANGED <<runnerVars, posterVars, cur, poolDown, histVars>>

\* The sanity check; the pool's worker recovers the panic.
SanityCheck(w) ==
  /\ wpc[w] = "start"
  /\ moveWorker(w, IF runningCount = 1 THEN "pop" ELSE "idle")
  /\ UNCHANGED <<runnerVars, posterVars, cur, poolVars, histVars>>

\* Fault: the queue gives out its newest task first.
PopNewestTask(w) ==
  /\ wpc[w] = "pop"
  /\ IF queue = << >>
       THEN /\ moveWorker(w, "store")
            /\ UNCHANGED <<queue, cur>>
       ELSE /\ cur' = [cur EXCEPT ![w] = queue[Len(queue)]]
            /\ queue' = SubSeq(queue, 1, Len(queue) - 1)
            /\ moveWorker(w, "exec")
  /\ UNCHANGED <<runningCount, closed, cleared, posterVars, poolVars, histVars>>

PopTask(w) ==
  /\ wpc[w] = "pop"
  /\ IF queue = << >>
       THEN /\ moveWorker(w, "store")
            /\ UNCHANGED <<queue, cur>>
       ELSE /\ cur' = [cur EXCEPT ![w] = Head(queue)]
            /\ queue' = Tail(queue)
            /\ moveWorker(w, "exec")
  /\ UNCHANGED <<runningCount, closed, cleared, posterVars, poolVars, histVars>>

\* The task returns, or panics and the panic is recovered: both go on alike.
ExecuteTask(w) ==
  /\ wpc[w] = "exec"
  /\ finished' = finished \cup {cur[w]}
  /\ cur' = [cur EXCEPT ![w] = NoTask]
  /\ moveWorker(w, "check")
  /\ UNCHANGED <<runnerVars, posterVars, poolVars, discarded, before>>

CheckMore(w) ==
  /\ wpc[w] = "check"
  /\ moveWorker(w, IF queue = << >> THEN "store" ELSE "post")
  /\ UNCHANGED <<runnerVars, posterVars, cur, poolVars, histVars>>

WorkerPostsRunLoop(w) ==
  /\ wpc[w] = "post"
  /\ PostInternal
  /\ moveWorker(w, "idle")
  /\ UNCHANGED <<runnerVars, posterVars, cur, poolDown, histVars>>

\* Fault: no second look at the queue after the store of 0.
GoIdleWithoutRecheck(w) ==
  /\ wpc[w] = "store"
  /\ runningCount' = 0
  /\ moveWorker(w, "idle")
  /\ UNCHANGED <<queue, closed, cleared, posterVars, cur, poolVars, histVars>>

GoIdle(w) ==
  /\ wpc[w] = "store"
  /\ runningCount' = 0
  /\ moveWorker(w, "recheck")
  /\ UNCHANGED <<queue, closed, cleared, posterVars, cur, poolVars, histVars>>

\* Fault: the second look finds a task and leaves it.
NeverScheduleNext(w) ==
  /\ wpc[w] = "recheck"
  /\ moveWorker(w, "idle")
  /\ UNCHANGED <<runnerVars, posterVars, cur, poolVars, histVars>>

ScheduleNextIfNeeded(w) ==
  /\ wpc[w] = "recheck"
  /\ moveWorker(w, IF queue = << >> THEN "idle" ELSE "cas")
  /\ UNCHANGED <<runnerVars, posterVars, cur, poolVars, histVars>>

\* ensureRunning's compare-and-swap, by the worker that went idle.
ReacquireToken(w) ==
  /\ wpc[w] = "cas"
  /\ IF runningCount = 0
       THEN runningCount' = 1 /\ moveWorker(w, "post")
       ELSE UNCHANGED runningCount /\ moveWorker(w, "idle")
  /\ UNCHANGED <<queue, closed, cleared, posterVars, cur, poolVars, histVars>>

-----------------------------------------------------------------------------
(* Shutdown of the runner, under shutdownOnce, and of the pool.            *)

Shutdown ==
  /\ ~closed
  /\ closed' = TRUE
  /\ UNCHANGED <<queue, runningCount, cleared, posterVars, workerVars,
                 poolVars, histVars>>

\* Fault: Shutdown also resets the token, which a runLoop may hold.
ClearQueueAndToken ==
  /\ closed
  /\ ~cleared
  /\ cleared' = TRUE
  /\ discarded' = discarded \cup {queue[i] : i \in 1..Len(queue)}
  /\ queue' = << >>
  /\ runningCount' = 0
  /\ UNCHANGED <<closed, posterVars, workerVars, poolVars, finished, before>>

ClearQueue ==
  /\ closed
  /\ ~cleared
  /\ cleared' = TRUE
  /\ discarded' = discarded \cup {queue[i] : i \in 1..Len(queue)}
  /\ queue' = << >>
  /\ UNCHANGED <<runningCount, closed, posterVars, workerVars, poolVars,
                 finished, before>>

PoolShutdown ==
  /\ ~poolDown
  /\ poolDown' = TRUE
  /\ UNCHANGED <<runnerVars, posterVars, workerVars, pending, histVars>>

\* The pool's Shutdown, or the deadline of a graceful one, clears its queue.
PoolClear ==
  /\ poolDown
  /\ pending' = 0
  /\ UNCHANGED <<runnerVars, posterVars, workerVars, poolDown, histVars>>

-----------------------------------------------------------------------------
PosterInCall(p) ==
  \/ PostBarrier(p)
  \/ Push(p)
  \/ EnsureRunning(p)
  \/ PosterPostsRunLoop(p)
  \/ WaitIdleDone(p)

RunLoop(w) ==
  \/ SanityCheck(w)
  \/ PopTask(w)
  \/ ExecuteTask(w)
  \/ CheckMore(w)
  \/ WorkerPostsRunLoop(w)
  \/ GoIdle(w)
  \/ ScheduleNextIfNeeded(w)
  \/ ReacquireToken(w)

Next ==
  \/ \E p \in Posters :
       PostTask(p) \/ WaitIdle(p) \/ PosterInCall(p) \/ WaitIdleCancelled(p)
  \/ \E w \in Workers : TakeRunLoop(w) \/ RunLoop(w)
  \/ Shutdown
  \/ ClearQueue
  \/ PoolShutdown
  \/ PoolClear

\* A goroutine that is inside a call or a runLoop goes on, tasks end, and a
\* pool that is up hands queued runLoops to its workers.  Nobody has to begin
\* a call, to cancel a context or to shut anything down.
Fairness ==
  /\ \A p \in Posters : WF_vars(PosterInCall(p))
  /\ \A w \in Workers : WF_vars(RunLoop(w))
  /\ WF_vars(~poolDown /\ \E w \in Workers : TakeRunLoop(w))
  /\ WF_vars(ClearQueue)

Safety == Init /\ [][Next]_vars
Spec == Safety /\ Fairness

-----------------------------------------------------------------------------
(* Properties.                                                             *)

\* Where a worker that carries the running token can be in runLoop.
TokenStates == {"start", "pop", "exec", "check", "store", "post"}

PosterStates == {"idle", "barrier", "push", "cas", "post", "wait"}
WorkerStates == TokenStates \cup {"idle", "recheck", "cas"}

\* Type correctness; in particular the atomic runningCount that ensureRunning
\* and runLoop write only ever holds 0 or 1.
TypeOK ==
  /\ queue \in Seq(Task)
  /\ runningCount \in {0, 1}
  /\ closed \in BOOLEAN
  /\ cleared \in BOOLEAN
  /\ ppc \in [Posters -> PosterStates]
  /\ mode \in [Posters -> {"post", "waitIdle"}]
  /\ calls \in [Posters -> 0..MaxCalls]
  /\ wpc \in [Workers -> WorkerStates]
  /\ cur \in [Workers -> Task \cup {NoTask}]
  /\ pending \in Nat
  /\ poolDown \in BOOLEAN
  /\ finished \subseteq Task
  /\ discarded \subseteq Task
  /\ before \in [Posters -> SUBSET Task]

\* "Only one runLoop is active at a time": of the runLoops in the pool's
\* queue, the posters about to queue one and the workers inside one (before
\* runLoop gives the token up) there is at most one, whatever the pushes, the
\* compare-and-swaps of ensureRunning, the store of 0 and Shutdown interleave.
OneRunLoop ==
  /\ pending <= 1
  /\ \A p, q \in Posters : ppc[p] = "post" /\ ppc[q] = "post" => p = q
  /\ \A w, v \in Workers :
       wpc[w] \in TokenStates /\ wpc[v] \in TokenStates => w = v
  /\ \A p \in Posters, w \in Workers :
       ~(ppc[p] = "post" /\ wpc[w] \in TokenStates)
  /\ pending = 1 => /\ \A p \in Posters : ppc[p] # "post"
                    /\ \A w \in Workers : wpc[w] \notin TokenStates

\* The panic of runLoop's sanity check never happens: a runLoop that starts
\* finds runningCount at 1.
SanityCheckHolds == \A w \in Workers : wpc[w] = "start" => runningCount = 1

\* No task is left behind: while the pool is up and the queue holds a task,
\* a runLoop is queued or running, or a goroutine is between its push and its
\* compare-and-swap, or between its store of 0 and its second look at the queue.
NoStrandedTask ==
  queue # << >> /\ ~poolDown =>
    \/ pending > 0
    \/ \E p \in Posters : ppc[p] \in {"cas", "post"}
    \/ \E w \in Workers : wpc[w] # "idle"

-----------------------------------------------------------------------------
(* The inductive invariant behind OneRunLoop, SanityCheckHolds and          *)
(* NoStrandedTask: runningCount counts the runLoops in existence, and a     *)
(* task in the queue always has somebody watching over it.                  *)

RunLoopExists ==
  \/ pending = 1
  \/ \E p \in Posters : ppc[p] = "post"
  \/ \E w \in Workers : wpc[w] \in TokenStates

\* The token is held by whoever acts on it, and is lost only to a pool that
\* drops a runLoop.
TokenHeld ==
  /\ RunLoopExists => runningCount = 1
  /\ runningCount = 1 /\ ~poolDown => RunLoopExists

\* A queued task is watched over by the token, by the goroutine that has pushed
\* it or by a worker that will look at the queue again.
QueueWatched ==
  queue # << >> =>
    \/ runningCount = 1
    \/ \E p \in Posters : ppc[p] = "cas"
    \/ \E w \in Workers : wpc[w] \in {"recheck", "cas"}

\* A poster inside a call has a task to push; a worker that executes has one.
TasksInHand ==
  /\ \A p \in Posters : ppc[p] # "idle" => calls[p] >= 1
  /\ \A w \in Workers : wpc[w] = "exec" => cur[w] \in Task

IInv == TypeOK /\ TasksInHand /\ OneRunLoop /\ TokenHeld /\ QueueWatched

-----------------------------------------------------------------------------
\* WaitIdle's promise: once its barrier task has run, every task that had been
\* accepted when WaitIdle was called has run, except those Shutdown discarded.
WaitIdleBarrier ==
  \A p \in Posters :
    mode[p] = "waitIdle" /\ taskOf(p) \in finished =>
      before[p] \subseteq finished \cup discarded

\* A WaitIdle whose context is never cancelled returns, unless the runner or
\* the pool is shut down meanwhile (then its barrier may be thrown away).
WaitIdleReturns ==
  \A p \in Posters : ppc[p] = "wait" ~> ppc[p] # "wait" \/ closed \/ poolDown

\* The runner implements the sequential executor of module Strand: what runs
\* is at most one task, in the order of the pushes, and every accepted task is
\* started unless Shutdown discards it or the pool goes down.
strand == INSTANCE Strand WITH
  waiting <- queue,
  running <- {cur[w] : w \in {v \in Workers : wpc[v] = "exec"}},
  down <- poolDown

StrandSafety == strand!Safety
StrandSpec == strand!Spec

=============================================================================
