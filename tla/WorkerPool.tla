----------------------------- MODULE WorkerPool -----------------------------
(***************************************************************************)
(* GoroutineThreadPool over TaskScheduler: goroutines post tasks to the    *)
(* ready queue and poke a bounded signal channel; workers pop tasks, and   *)
(* sleep on the channel when there are none; Stop and StopGraceful close   *)
(* the scheduler, cancel the workers' context and join them.               *)
(*                                                                         *)
(* Each atomic operation, each critical section and each channel           *)
(* operation is one action.  The ready queue is the set of the tasks it    *)
(* holds: which of them Pop returns is the queue's own matter (FIFO or     *)
(* priority order), and what is said here holds for every order.           *)
(***************************************************************************)
EXTENDS Integers, FiniteSets

CONSTANTS
  Posters,     \* goroutines that call PostInternal
  DelayLoop,   \* the one of them that is the delay manager's goroutine
  Workers,     \* worker goroutines
  Stoppers,    \* goroutines that call Stop or StopGraceful, once each
  MaxPosts,    \* bound: posts each poster makes
  MaxStarts,   \* bound: calls of Start
  NoTask       \* what a worker that holds no task has in hand

Task == Posters \X (1..MaxPosts)

ASSUME PostersAssumption == IsFiniteSet(Posters) /\ DelayLoop \in Posters
ASSUME WorkersAssumption == IsFiniteSet(Workers) /\ Workers # {}
ASSUME BoundsAssumption == MaxPosts \in Nat /\ MaxStarts \in Nat
ASSUME NoTaskAssumption == NoTask \notin Task

\* The capacity of the signal channel.
SignalCap == 2 * Cardinality(Workers)

VARIABLES
  ready,         \* the tasks in the scheduler's queue
  signal,        \* tokens in the signal channel
  metricQueued,  \* the atomic count of waiting tasks
  metricActive,  \* the atomic count of executing tasks
  shuttingDown,  \* the scheduler's atomic flag
  dmStopped,     \* the delay manager's goroutine has exited
  running,       \* the pool's flag, under runningMu
  cancelled,     \* the workers' context is cancelled, by a stopper or by the
                 \* owner of the context that Start was given
  starts,        \* calls of Start so far
  ppc,           \* where each poster is in PostInternal
  posts,         \* posts each poster has begun
  wpc,           \* where each worker is in workerLoop
  hand,          \* the task each worker has popped
  spc,           \* where each stopper is in its call
  kind,          \* "stop" or "graceful"
  result,        \* what the stopper's call returned
  executed,      \* history: tasks that were run
  atStop,        \* history: tasks whose post had returned, unfinished, when
                 \* ShutdownGraceful raised the flag
  calm           \* history: no post was under way at that moment

schedVars  == <<ready, signal, metricQueued, metricActive, shuttingDown, dmStopped>>
poolVars   == <<running, cancelled, starts>>
posterVars == <<ppc, posts>>
workerVars == <<wpc, hand>>
stopVars   == <<spc, kind, result>>
histVars   == <<executed, atStop, calm>>
vars == <<schedVars, poolVars, posterVars, workerVars, stopVars, histVars>>

Init ==
  /\ ready = {}
  /\ signal = 0
  /\ metricQueued = 0
  /\ metricActive = 0
  /\ shuttingDown = FALSE
  /\ dmStopped = FALSE
  /\ running = FALSE
  /\ cancelled = FALSE
  /\ starts = 0
  /\ ppc = [p \in Posters |-> "idle"]
  /\ posts = [p \in Posters |-> 0]
  /\ wpc = [w \in Workers |-> "off"]
  /\ hand = [w \in Workers |-> NoTask]
  /\ spc = [s \in Stoppers |-> "idle"]
  /\ kind = [s \in Stoppers |-> "stop"]
  /\ result = [s \in Stoppers |-> "none"]
  /\ executed = {}
  /\ atStop = [s \in Stoppers |-> {}]
  /\ calm = [s \in Stoppers |-> FALSE]

-----------------------------------------------------------------------------
(* PostInternal.                                                           *)

\* The task of the poster's present call.
taskOf(p) == <<p, posts[p]>>

\* A scheduler that is shutting down rejects the task.
PostInternal(p) ==
  /\ ppc[p] = "idle"
  /\ posts[p] < MaxPosts
  /\ p = DelayLoop => ~dmStopped
  /\ posts' = [posts EXCEPT ![p] = @ + 1]
  /\ ppc' = [ppc EXCEPT ![p] = IF shuttingDown THEN "idle" ELSE "push"]
  /\ UNCHANGED <<schedVars, poolVars, workerVars, stopVars, histVars>>

PushReady(p) ==
  /\ ppc[p] = "push"
  /\ ready' = ready \cup {taskOf(p)}
  /\ ppc' = [ppc EXCEPT ![p] = "count"]
  /\ UNCHANGED <<signal, metricQueued, metricActive, shuttingDown, dmStopped,
                 poolVars, posts, workerVars, stopVars, histVars>>

\* Fault: the wake-up after the count is missing.
CountQueuedAndReturn(p) ==
  /\ ppc[p] = "count"
  /\ metricQueued' = metricQueued + 1
  /\ ppc' = [ppc EXCEPT ![p] = "idle"]
  /\ UNCHANGED <<ready, signal, metricActive, shuttingDown, dmStopped,
                 poolVars, posts, workerVars, stopVars, histVars>>

CountQueued(p) ==
  /\ ppc[p] = "count"
  /\ metricQueued' = metricQueued + 1
  /\ ppc' = [ppc EXCEPT ![p] = "signal"]
  /\ UNCHANGED <<ready, signal, metricActive, shuttingDown, dmStopped,
                 poolVars, posts, workerVars, stopVars, histVars>>

\* Fault: a channel of capacity one, whatever the number of workers.
SendSignalCapOne(p) ==
  /\ ppc[p] = "signal"
  /\ signal' = 1
  /\ ppc' = [ppc EXCEPT ![p] = "idle"]
  /\ UNCHANGED <<ready, metricQueued, metricActive, shuttingDown, dmStopped,
                 poolVars, posts, workerVars, stopVars, histVars>>

\* The non-blocking send: a full channel drops the token.
SendSignal(p) ==
  /\ ppc[p] = "signal"
  /\ signal' = IF signal < SignalCap THEN signal + 1 ELSE signal
  /\ ppc' = [ppc EXCEPT ![p] = "idle"]
  /\ UNCHANGED <<ready, metricQueued, metricActive, shuttingDown, dmStopped,
                 poolVars, posts, workerVars, stopVars, histVars>>

-----------------------------------------------------------------------------
(* Start and workerLoop.                                                   *)

\* A running pool ignores Start; otherwise every worker gets a goroutine.  (A
\* Start that races with two Stops can find running unset while workers of the
\* earlier Start live on; that restart is left out.)
Start ==
  /\ starts < MaxStarts
  /\ starts' = starts + 1
  /\ IF running
       THEN UNCHANGED <<running, cancelled, wpc>>
       ELSE /\ \A w \in Workers : wpc[w] = "off"
            /\ running' = TRUE
            /\ cancelled' = FALSE
            /\ wpc' = [w \in Workers |-> "pop"]
  /\ UNCHANGED <<schedVars, posterVars, hand, stopVars, histVars>>

\* The workers' context is derived from the one the caller gave to Start: when
\* its owner cancels that one the workers leave as after a Stop, but nothing
\* tells the scheduler or the pool, which goes on to accept posts and to count
\* as running.
CallerCancels ==
  /\ running
  /\ ~cancelled
  /\ cancelled' = TRUE
  /\ UNCHANGED <<schedVars, running, starts, posterVars, workerVars, stopVars,
                 histVars>>

moveWorker(w, to) == wpc' = [wpc EXCEPT ![w] = to]

\* GetWork's Pop.
PopReady(w) ==
  /\ wpc[w] = "pop"
  /\ \/ /\ ready = {}
        /\ moveWorker(w, "select")
        /\ UNCHANGED <<ready, hand>>
     \/ \E t \in ready :
          /\ ready' = ready \ {t}
          /\ hand' = [hand EXCEPT ![w] = t]
          /\ moveWorker(w, "uncount")
  /\ UNCHANGED <<signal, metricQueued, metricActive, shuttingDown, dmStopped,
                 poolVars, posterVars, stopVars, histVars>>

\* Fault: the receive goes on without a token.
ReceiveWithoutToken(w) ==
  /\ wpc[w] = "select"
  /\ signal' = signal - 1
  /\ moveWorker(w, "pop")
  /\ UNCHANGED <<ready, metricQueued, metricActive, shuttingDown, dmStopped,
                 poolVars, posterVars, hand, stopVars, histVars>>

\* GetWork's select: a token arrives.
ReceiveSignal(w) ==
  /\ wpc[w] = "select"
  /\ signal > 0
  /\ signal' = signal - 1
  /\ moveWorker(w, "pop")
  /\ UNCHANGED <<ready, metricQueued, metricActive, shuttingDown, dmStopped,
                 poolVars, posterVars, hand, stopVars, histVars>>

\* GetWork's select: the context is cancelled; workerLoop returns.
WorkerExits(w) ==
  /\ wpc[w] = "select"
  /\ cancelled
  /\ moveWorker(w, "off")
  /\ UNCHANGED <<schedVars, poolVars, posterVars, hand, stopVars, histVars>>

CountDequeued(w) ==
  /\ wpc[w] = "uncount"
  /\ metricQueued' = metricQueued - 1
  /\ moveWorker(w, "start")
  /\ UNCHANGED <<ready, signal, metricActive, shuttingDown, dmStopped,
                 poolVars, posterVars, hand, stopVars, histVars>>

OnTaskStart(w) ==
  /\ wpc[w] = "start"
  /\ metricActive' = metricActive + 1
  /\ moveWorker(w, "exec")
  /\ UNCHANGED <<ready, signal, metricQueued, shuttingDown, dmStopped,
                 poolVars, posterVars, hand, stopVars, histVars>>

\* Fault: OnTaskEnd is not deferred, so a task that panics skips it.
RunTaskWithoutEnd(w) ==
  /\ wpc[w] = "exec"
  /\ executed' = executed \cup {hand[w]}
  /\ hand' = [hand EXCEPT ![w] = NoTask]
  /\ \E to \in {"end", "pop"} : moveWorker(w, to)
  /\ UNCHANGED <<schedVars, poolVars, posterVars, stopVars, atStop, calm>>

\* The task returns, or panics and the panic is recovered.
RunTask(w) ==
  /\ wpc[w] = "exec"
  /\ executed' = executed \cup {hand[w]}
  /\ hand' = [hand EXCEPT ![w] = NoTask]
  /\ moveWorker(w, "end")
  /\ UNCHANGED <<schedVars, poolVars, posterVars, stopVars, atStop, calm>>

OnTaskEnd(w) ==
  /\ wpc[w] = "end"
  /\ metricActive' = metricActive - 1
  /\ moveWorker(w, "pop")
  /\ UNCHANGED <<ready, signal, metricQueued, shuttingDown, dmStopped,
                 poolVars, posterVars, hand, stopVars, histVars>>

-----------------------------------------------------------------------------
(* Stop and StopGraceful.                                                  *)

moveStopper(s, to) == spc' = [spc EXCEPT ![s] = to]

\* The tasks in the queue or in a worker's hands whose PostInternal has returned.
settled ==
  (ready \cup {hand[w] : w \in Workers}) \
    ({NoTask} \cup {taskOf(p) : p \in {q \in Posters : ppc[q] # "idle"}})

\* Stop begins with the scheduler's Shutdown, which raises the flag.
Stop(s) ==
  /\ spc[s] = "idle"
  /\ kind' = [kind EXCEPT ![s] = "stop"]
  /\ shuttingDown' = TRUE
  /\ moveStopper(s, "stopDelays")
  /\ UNCHANGED <<ready, signal, metricQueued, metricActive, dmStopped, poolVars,
                 posterVars, workerVars, result, histVars>>

\* StopGraceful first looks at running: a pool that is not running is left alone.
StopGraceful(s) ==
  /\ spc[s] = "idle"
  /\ kind' = [kind EXCEPT ![s] = "graceful"]
  /\ moveStopper(s, IF running THEN "flag" ELSE "done")
  /\ UNCHANGED <<schedVars, poolVars, posterVars, workerVars, result, histVars>>

\* ShutdownGraceful raises the flag.
RaiseFlag(s) ==
  /\ spc[s] = "flag"
  /\ shuttingDown' = TRUE
  /\ moveStopper(s, "stopDelays")
  /\ atStop' = [atStop EXCEPT ![s] = settled]
  /\ calm' = [calm EXCEPT ![s] = \A p \in Posters : ppc[p] = "idle"]
  /\ UNCHANGED <<ready, signal, metricQueued, metricActive, dmStopped, poolVars,
                 posterVars, workerVars, kind, result, executed>>

\* DelayManager.Stop waits for its goroutine, which may be inside a post.
StopDelayManager(s) ==
  /\ spc[s] = "stopDelays"
  /\ ppc[DelayLoop] = "idle"
  /\ dmStopped' = TRUE
  /\ moveStopper(s, IF kind[s] = "stop" THEN "clear" ELSE "pollQueued")
  /\ UNCHANGED <<ready, signal, metricQueued, metricActive, shuttingDown,
                 poolVars, posterVars, workerVars, kind, result, histVars>>

\* Fault: the tick looks at the active tasks only.
PollActiveOnly(s) ==
  /\ spc[s] = "pollQueued"
  /\ moveStopper(s, "pollActive")
  /\ UNCHANGED <<schedVars, poolVars, posterVars, workerVars, kind, result,
                 histVars>>

\* A tick of ShutdownGraceful: metricQueued is read first ...
PollQueued(s) ==
  /\ spc[s] = "pollQueued"
  /\ metricQueued = 0
  /\ moveStopper(s, "pollActive")
  /\ UNCHANGED <<schedVars, poolVars, posterVars, workerVars, kind, result,
                 histVars>>

\* ... and metricActive after it.
PollActive(s) ==
  /\ spc[s] = "pollActive"
  /\ IF metricActive = 0
       THEN /\ moveStopper(s, "cancel")
            /\ result' = [result EXCEPT ![s] = "nil"]
       ELSE /\ moveStopper(s, "pollQueued")
            /\ UNCHANGED result
  /\ UNCHANGED <<schedVars, poolVars, posterVars, workerVars, kind, histVars>>

\* The deadline of ShutdownGraceful: what is left is cleared.
DeadlinePasses(s) ==
  /\ spc[s] = "pollQueued"
  /\ moveStopper(s, "clear")
  /\ result' = [result EXCEPT ![s] = "error"]
  /\ UNCHANGED <<schedVars, poolVars, posterVars, workerVars, kind, histVars>>

ClearReady(s) ==
  /\ spc[s] = "clear"
  /\ ready' = {}
  /\ moveStopper(s, "zero")
  /\ UNCHANGED <<signal, metricQueued, metricActive, shuttingDown, dmStopped,
                 poolVars, posterVars, workerVars, kind, result, histVars>>

\* Stop goes on only if the pool is running; StopGraceful has looked already.
ZeroQueued(s) ==
  /\ spc[s] = "zero"
  /\ metricQueued' = 0
  /\ moveStopper(s, IF kind[s] = "stop" THEN "look" ELSE "cancel")
  /\ UNCHANGED <<ready, signal, metricActive, shuttingDown, dmStopped,
                 poolVars, posterVars, workerVars, kind, result, histVars>>

LookAtRunning(s) ==
  /\ spc[s] = "look"
  /\ moveStopper(s, IF running THEN "cancel" ELSE "done")
  /\ UNCHANGED <<schedVars, poolVars, posterVars, workerVars, kind, result,
                 histVars>>

\* Fault: the workers' context is not cancelled before they are joined.
JoinUncancelled(s) ==
  /\ spc[s] = "cancel"
  /\ moveStopper(s, "join")
  /\ UNCHANGED <<schedVars, poolVars, posterVars, workerVars, kind, result,
                 histVars>>

Cancel(s) ==
  /\ spc[s] = "cancel"
  /\ cancelled' = TRUE
  /\ moveStopper(s, "join")
  /\ UNCHANGED <<schedVars, running, starts, posterVars, workerVars, kind,
                 result, histVars>>

\* Fault: the stopper does not wait for the workers.
SkipJoin(s) ==
  /\ spc[s] = "join"
  /\ moveStopper(s, "unset")
  /\ UNCHANGED <<schedVars, poolVars, posterVars, workerVars, kind, result,
                 histVars>>

Join(s) ==
  /\ spc[s] = "join"
  /\ \A w \in Workers : wpc[w] = "off"
  /\ moveStopper(s, "unset")
  /\ UNCHANGED <<schedVars, poolVars, posterVars, workerVars, kind, result,
                 histVars>>

UnsetRunning(s) ==
  /\ spc[s] = "unset"
  /\ running' = FALSE
  /\ moveStopper(s, "done")
  /\ UNCHANGED <<schedVars, cancelled, starts, posterVars, workerVars, kind,
                 result, histVars>>

-----------------------------------------------------------------------------
PosterInCall(p) == PushReady(p) \/ CountQueued(p) \/ SendSignal(p)

WorkerLoop(w) ==
  \/ PopReady(w)
  \/ ReceiveSignal(w)
  \/ WorkerExits(w)
  \/ CountDequeued(w)
  \/ OnTaskStart(w)
  \/ RunTask(w)
  \/ OnTaskEnd(w)

StopperInCall(s) ==
  \/ RaiseFlag(s)
  \/ StopDelayManager(s)
  \/ PollQueued(s)
  \/ PollActive(s)
  \/ DeadlinePasses(s)
  \/ ClearReady(s)
  \/ ZeroQueued(s)
  \/ LookAtRunning(s)
  \/ Cancel(s)
  \/ Join(s)
  \/ UnsetRunning(s)

Next ==
  \/ \E p \in Posters : PostInternal(p) \/ PosterInCall(p)
  \/ Start
  \/ CallerCancels
  \/ \E w \in Workers : WorkerLoop(w)
  \/ \E s \in Stoppers : Stop(s) \/ StopGraceful(s) \/ StopperInCall(s)

\* A goroutine inside a call or a task goes on, and the deadline of a graceful
\* shutdown passes eventually.  A worker that sleeps on the channel takes a
\* token that stays there, and one whose context is cancelled leaves rather
\* than take tokens for ever.  Nobody has to post, to start, to stop or to
\* cancel the caller's context.
Fairness ==
  /\ \A p \in Posters : WF_vars(PosterInCall(p))
  /\ \A w \in Workers : WF_vars(WorkerLoop(w))
  /\ \A s \in Stoppers : WF_vars(StopperInCall(s))
  /\ \A s \in Stoppers : SF_vars(DeadlinePasses(s))

Safety == Init /\ [][Next]_vars
Spec == Safety /\ Fairness

-----------------------------------------------------------------------------
(* Properties.                                                             *)

PosterStates == {"idle", "push", "count", "signal"}
WorkerStates == {"off", "pop", "select", "uncount", "start", "exec", "end"}
StopperStates == {"idle", "flag", "stopDelays", "pollQueued", "pollActive",
                  "clear", "zero", "look", "cancel", "join", "unset", "done"}

\* Type correctness; in particular the signal channel never holds more tokens
\* than its capacity.
TypeOK ==
  /\ ready \subseteq Task
  /\ signal \in 0..SignalCap
  /\ metricQueued \in Int
  /\ metricActive \in Int
  /\ shuttingDown \in BOOLEAN
  /\ dmStopped \in BOOLEAN
  /\ running \in BOOLEAN
  /\ cancelled \in BOOLEAN
  /\ starts \in 0..MaxStarts
  /\ ppc \in [Posters -> PosterStates]
  /\ posts \in [Posters -> 0..MaxPosts]
  /\ wpc \in [Workers -> WorkerStates]
  /\ hand \in [Workers -> Task \cup {NoTask}]
  /\ spc \in [Stoppers -> StopperStates]
  /\ kind \in [Stoppers -> {"stop", "graceful"}]
  /\ result \in [Stoppers -> {"none", "nil", "error"}]
  /\ executed \subseteq Task
  /\ atStop \in [Stoppers -> SUBSET Task]
  /\ calm \in [Stoppers -> BOOLEAN]

\* How many workers, and how many posters, are at one of the given points.
workersAt(points) == Cardinality({w \in Workers : wpc[w] \in points})
postersAt(points) == Cardinality({p \in Posters : ppc[p] \in points})

\* No wake-up is lost, although PostInternal pushes before it signals, drops the
\* token when the channel is full, and GetWork sleeps after a Pop that failed:
\* either every queued task has a wake-up of its own (a token in the channel, a
\* poster about to send one, a worker about to pop), or every sleeping worker
\* has a token to wake it.
NoLostWakeup ==
  \/ Cardinality(ready) <= signal + postersAt({"count", "signal"}) + workersAt({"pop"})
  \/ workersAt({"select"}) <= signal

\* A stopper is on, or past, the way to a forced Clear.
ForcedClear ==
  \E s \in Stoppers :
    spc[s] # "idle" /\ (kind[s] = "stop" \/ result[s] = "error")

\* The counters that StopGraceful polls are right but for the goroutines that
\* are between an operation on the queue and the update of its counter, as long
\* as no forced Clear resets metricQueued.
MetricsExact ==
  /\ metricActive = workersAt({"exec", "end"})
  /\ ~ForcedClear =>
       metricQueued =
         Cardinality(ready) + workersAt({"uncount"}) - postersAt({"count"})

-----------------------------------------------------------------------------
(* The inductive invariant behind NoLostWakeup and MetricsExact.           *)

\* What is queued, in hand or being posted is a task that was begun, and a
\* poster that is about to push pushes a task that is not in the queue.
TasksBegun ==
  /\ \A p \in Posters : ppc[p] # "idle" => posts[p] >= 1
  /\ \A t \in ready : /\ t[2] <= posts[t[1]]
                      /\ ppc[t[1]] = "push" => t[2] < posts[t[1]]
  /\ \A w \in Workers : wpc[w] \in {"uncount", "start", "exec"} => hand[w] \in Task

\* The queue is cleared by Stop or after the deadline, and a stopper has no
\* result before its poll ends.
ClearIsForced ==
  \A s \in Stoppers :
    /\ spc[s] \in {"clear", "zero"} => kind[s] = "stop" \/ result[s] = "error"
    /\ spc[s] \in {"idle", "flag", "stopDelays", "pollQueued", "pollActive"} =>
         result[s] = "none"

IInv ==
  /\ TypeOK
  /\ IsFiniteSet(ready)
  /\ TasksBegun
  /\ ClearIsForced
  /\ NoLostWakeup
  /\ MetricsExact

-----------------------------------------------------------------------------
\* StopGraceful that returns nil keeps its promise when no PostInternal was under
\* way as it raised the flag and nobody else forces a Clear: every task posted
\* before has been run.
GracefulDrains ==
  ~ForcedClear =>
    \A s \in Stoppers :
      spc[s] = "done" /\ result[s] = "nil" /\ calm[s] => atStop[s] \subseteq executed

\* At most one call of Stop or StopGraceful was ever made.
OneStopper ==
  \A s, t \in Stoppers : spc[s] # "idle" /\ spc[t] # "idle" => s = t

\* What the pool is left with once Stop or StopGraceful has brought it down: no
\* worker is alive, so no task is executing or in hand.  Two Stops around a
\* restart are out: the second resets running under the new workers.
StoppedPoolIsQuiet ==
  OneStopper \/ starts <= 1 =>
    (~running => \A w \in Workers : wpc[w] = "off" /\ hand[w] = NoTask)

\* Work conservation over time: a task in the queue of a running pool is taken
\* by a worker and run, unless the scheduler is shut down or the context given
\* to Start is cancelled.  In the second case the task may stay in the queue
\* although the pool still says that it runs: no worker is left to take it.
QueuedTaskRuns ==
  \A t \in Task :
    (t \in ready /\ running) ~> (t \in executed \/ shuttingDown \/ cancelled)

\* Stop and StopGraceful return as long as tasks end: two of them at once, of
\* either kind, do not wait for each other, and none waits for ever for the
\* delay manager's goroutine, for workers asleep on the signal channel or for
\* a queue that workers whose caller cancelled them no longer drain.
StopReturns == \A s \in Stoppers : spc[s] # "idle" ~> spc[s] = "done"

=============================================================================
