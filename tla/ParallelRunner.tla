--------------------------- MODULE ParallelRunner ---------------------------
(***************************************************************************)
(* ParallelTaskRunner: callers send closures to an internal single-thread  *)
(* scheduler, whose goroutine alone pushes to the queue and dispatches to  *)
(* the thread pool, never more than maxConcurrency items at a time.        *)
(* FlushAsync and WaitIdle queue a barrier item that must wait for all     *)
(* items before it.  Items that end lower runningCount on a worker and     *)
(* send the scheduler another closure.                                     *)
(*                                                                         *)
(* Items are numbered in the order in which the scheduler's channel        *)
(* receives them.  The thread pool starts dispatched items in any order    *)
(* and runs any number of them at once; it is up throughout.               *)
(***************************************************************************)
EXTENDS Integers, Sequences, FiniteSets

CONSTANTS
  MaxConcurrency,   \* the runner's limit on items in the pool
  MaxCalls,         \* bound: calls of PostTask, FlushAsync and WaitIdle
  Kinds             \* bound: which of the three calls are made

ASSUME ConcurrencyAssumption == MaxConcurrency \in Nat \ {0}
ASSUME CallsAssumption == MaxCalls \in Nat
ASSUME KindsAssumption == Kinds \subseteq {"task", "flush", "wait"}

Item == 1..MaxCalls
NoItem == 0

VARIABLES
  issued,           \* calls made so far
  kind,             \* "task", "flush" or "wait" (WaitIdle), for each item
  stage,            \* where each item is
  waiter,           \* where the WaitIdle call of each item is; whether it
                    \* returned nil or an error makes no difference here
  inbox,            \* closures in the scheduler's channel
  queue,            \* the runner's FIFO queue
  spc,              \* where the scheduler's goroutine is
  current,          \* the item that the closure it runs will push
  parked,           \* pendingBarrierTask
  barrierRunning,   \* barrierTaskRunning
  runningCount,     \* the atomic count of dispatched items
  shutdown          \* how far Shutdown has come

callVars  == <<issued, kind, waiter>>
schedVars == <<spc, current, parked>>
vars == <<callVars, stage, inbox, queue, schedVars, barrierRunning, runningCount,
          shutdown>>

Init ==
  /\ issued = 0
  /\ kind = [i \in Item |-> "task"]
  /\ stage = [i \in Item |-> "new"]
  /\ waiter = [i \in Item |-> "none"]
  /\ inbox = << >>
  /\ queue = << >>
  /\ spc = "idle"
  /\ current = NoItem
  /\ parked = NoItem
  /\ barrierRunning = FALSE
  /\ runningCount = 0
  /\ shutdown = "no"

isBarrier(i) == kind[i] \in {"flush", "wait"}

\* What Shutdown has done so far, in its order.
closed == shutdown # "no"

\* Fault: Shutdown does not close shutdownChan.
chanNeverClosed == FALSE

chanClosed == shutdown \in {"scheduler", "done"}
schedulerClosed == shutdown = "done"

move(i, to) == stage' = [stage EXCEPT ![i] = to]

\* The scheduler's PostTask: once it is shut down, closures are dropped.
send(op, i) ==
  inbox' = IF schedulerClosed THEN inbox ELSE Append(inbox, [op |-> op, item |-> i])

-----------------------------------------------------------------------------
(* The callers.                                                            *)

\* PostTask and FlushAsync: all checks are made by the scheduler.
Post(k) ==
  /\ issued < MaxCalls
  /\ issued' = issued + 1
  /\ kind' = [kind EXCEPT ![issued'] = k]
  /\ send("post", issued')
  /\ move(issued', IF schedulerClosed THEN "dropped" ELSE "inbox")
  /\ UNCHANGED <<waiter, queue, schedVars, barrierRunning, runningCount, shutdown>>

\* WaitIdle returns an error at once if the runner is closed.
WaitIdle ==
  /\ "wait" \in Kinds
  /\ issued < MaxCalls
  /\ issued' = issued + 1
  /\ kind' = [kind EXCEPT ![issued'] = "wait"]
  /\ IF closed
       THEN /\ waiter' = [waiter EXCEPT ![issued'] = "returned"]
            /\ move(issued', "dropped")
            /\ UNCHANGED inbox
       ELSE /\ waiter' = [waiter EXCEPT ![issued'] = "waiting"]
            /\ move(issued', "inbox")
            /\ send("post", issued')
  /\ UNCHANGED <<queue, schedVars, barrierRunning, runningCount, shutdown>>

\* The stages of an item whose task has returned or panicked.
Ended == {"ended", "leave", "notify", "done"}

\* WaitIdle's select: its barrier has closed the done channel ...
WaitIdleDone(i) ==
  /\ waiter[i] = "waiting"
  /\ stage[i] \in Ended
  /\ waiter' = [waiter EXCEPT ![i] = "returned"]
  /\ UNCHANGED <<issued, kind, stage, inbox, queue, schedVars, barrierRunning,
                 runningCount, shutdown>>

\* ... or Shutdown has closed its channel ...
WaitIdleShutdown(i) ==
  /\ waiter[i] = "waiting"
  /\ chanClosed
  /\ waiter' = [waiter EXCEPT ![i] = "returned"]
  /\ UNCHANGED <<issued, kind, stage, inbox, queue, schedVars, barrierRunning,
                 runningCount, shutdown>>

\* ... or the caller's context is cancelled.
WaitIdleCancelled(i) ==
  /\ waiter[i] = "waiting"
  /\ waiter' = [waiter EXCEPT ![i] = "returned"]
  /\ UNCHANGED <<issued, kind, stage, inbox, queue, schedVars, barrierRunning,
                 runningCount, shutdown>>

-----------------------------------------------------------------------------
(* The scheduler's goroutine.                                              *)

\* The goroutine receives a closure.  A posted item that finds the runner
\* closed is dropped; a barrier that has ended resets the flag; an item that
\* has completed only looks for more work.
ReceiveClosure ==
  /\ spc = "idle"
  /\ inbox # << >>
  /\ inbox' = Tail(inbox)
  /\ LET c == Head(inbox) IN
       \/ /\ c.op = "post"
          /\ IF closed
               THEN move(c.item, "dropped") /\ UNCHANGED <<spc, current>>
               ELSE spc' = "push" /\ current' = c.item /\ UNCHANGED stage
          /\ UNCHANGED barrierRunning
       \/ /\ c.op = "clear"
          /\ barrierRunning' = FALSE
          /\ UNCHANGED <<spc, current, stage>>
       \/ /\ c.op = "try"
          /\ spc' = "try"
          /\ UNCHANGED <<barrierRunning, current, stage>>
  /\ UNCHANGED <<callVars, queue, parked, runningCount, shutdown>>

Push ==
  /\ spc = "push"
  /\ queue' = Append(queue, current)
  /\ move(current, "queue")
  /\ current' = NoItem
  /\ spc' = "try"
  /\ UNCHANGED <<callVars, inbox, parked, barrierRunning, runningCount, shutdown>>

\* An item goes to the pool: runningCount.Add(1) and PostInternal.
dispatch(i) ==
  /\ runningCount' = runningCount + 1
  /\ move(i, "pool")

\* tryScheduleInternal up to its loop: nothing is started beside a barrier, and
\* a parked barrier is posted when nothing runs.
TrySchedule ==
  /\ spc = "try"
  /\ IF ~barrierRunning /\ parked # NoItem /\ runningCount = 0
       THEN /\ dispatch(parked)
            /\ parked' = NoItem
            /\ barrierRunning' = TRUE
       ELSE UNCHANGED <<stage, runningCount, parked, barrierRunning>>
  /\ spc' = IF barrierRunning \/ parked # NoItem THEN "idle" ELSE "slot"
  /\ UNCHANGED <<callVars, inbox, queue, current, shutdown>>

\* Fault: the loop's condition allows one item too many.
CheckSlotOffByOne ==
  /\ spc = "slot"
  /\ spc' = IF runningCount <= MaxConcurrency THEN "pop" ELSE "idle"
  /\ UNCHANGED <<callVars, stage, inbox, queue, current, parked, barrierRunning,
                 runningCount, shutdown>>

\* The loop's condition.
CheckSlot ==
  /\ spc = "slot"
  /\ spc' = IF runningCount < MaxConcurrency THEN "pop" ELSE "idle"
  /\ UNCHANGED <<callVars, stage, inbox, queue, current, parked, barrierRunning,
                 runningCount, shutdown>>

\* Fault: a barrier is dispatched like any other item.
PopItemAtOnce ==
  /\ spc = "pop"
  /\ IF queue = << >>
       THEN /\ spc' = "idle"
            /\ UNCHANGED <<queue, stage, runningCount>>
       ELSE /\ queue' = Tail(queue)
            /\ spc' = "slot"
            /\ dispatch(Head(queue))
  /\ UNCHANGED <<callVars, inbox, current, parked, barrierRunning, shutdown>>

\* The loop's body: a normal item is dispatched; a barrier is dispatched if
\* nothing runs, without raising barrierTaskRunning, and parked otherwise.
PopItem ==
  /\ spc = "pop"
  /\ IF queue = << >>
       THEN /\ spc' = "idle"
            /\ UNCHANGED <<queue, stage, parked, runningCount>>
       ELSE LET i == Head(queue) IN
            /\ queue' = Tail(queue)
            /\ spc' = IF isBarrier(i) THEN "idle" ELSE "slot"
            /\ IF isBarrier(i) /\ runningCount # 0
                 THEN /\ parked' = i
                      /\ move(i, "parked")
                      /\ UNCHANGED runningCount
                 ELSE /\ dispatch(i)
                      /\ UNCHANGED parked
  /\ UNCHANGED <<callVars, inbox, current, barrierRunning, shutdown>>

-----------------------------------------------------------------------------
(* An item on a worker of the pool: runLoop and onTaskComplete.            *)

StartItem(i) ==
  /\ stage[i] = "pool"
  /\ move(i, "exec")
  /\ UNCHANGED <<callVars, inbox, queue, schedVars, barrierRunning, runningCount,
                 shutdown>>

\* The task returns, or panics and the panic is recovered.
EndItem(i) ==
  /\ stage[i] = "exec"
  /\ move(i, IF isBarrier(i) THEN "ended" ELSE "leave")
  /\ UNCHANGED <<callVars, inbox, queue, schedVars, barrierRunning, runningCount,
                 shutdown>>

\* Fault: the deferred call of a barrier gives its slot up, which onTaskComplete
\* does as well.
SendClearAndLeave(i) ==
  /\ stage[i] = "ended"
  /\ send("clear", NoItem)
  /\ runningCount' = runningCount - 1
  /\ move(i, "leave")
  /\ UNCHANGED <<callVars, queue, schedVars, barrierRunning, shutdown>>

\* The deferred call of a barrier sends the closure that resets the flag.
SendClear(i) ==
  /\ stage[i] = "ended"
  /\ send("clear", NoItem)
  /\ move(i, "leave")
  /\ UNCHANGED <<callVars, queue, schedVars, barrierRunning, runningCount, shutdown>>

LeavePool(i) ==
  /\ stage[i] = "leave"
  /\ runningCount' = runningCount - 1
  /\ move(i, "notify")
  /\ UNCHANGED <<callVars, inbox, queue, schedVars, barrierRunning, shutdown>>

\* Fault: a completed item does not tell the scheduler.
SendNothing(i) ==
  /\ stage[i] = "notify"
  /\ move(i, "done")
  /\ UNCHANGED <<callVars, inbox, queue, schedVars, barrierRunning, runningCount,
                 shutdown>>

SendTry(i) ==
  /\ stage[i] = "notify"
  /\ send("try", NoItem)
  /\ move(i, "done")
  /\ UNCHANGED <<callVars, queue, schedVars, barrierRunning, runningCount, shutdown>>

-----------------------------------------------------------------------------
(* Shutdown.                                                               *)

Shutdown ==
  /\ shutdown = "no"
  /\ shutdown' = "clear"
  /\ UNCHANGED <<callVars, stage, inbox, queue, schedVars, barrierRunning,
                 runningCount>>

\* The queue is cleared; a parked barrier is not in it.
ClearQueue ==
  /\ shutdown = "clear"
  /\ shutdown' = "chan"
  /\ stage' = [i \in Item |-> IF \E n \in 1..Len(queue) : queue[n] = i
                                THEN "dropped" ELSE stage[i]]
  /\ queue' = << >>
  /\ UNCHANGED <<callVars, inbox, schedVars, barrierRunning, runningCount>>

CloseChannel ==
  /\ shutdown = "chan"
  /\ shutdown' = "scheduler"
  /\ UNCHANGED <<callVars, stage, inbox, queue, schedVars, barrierRunning,
                 runningCount>>

ShutdownScheduler ==
  /\ shutdown = "scheduler"
  /\ shutdown' = "done"
  /\ UNCHANGED <<callVars, stage, inbox, queue, schedVars, barrierRunning,
                 runningCount>>

-----------------------------------------------------------------------------
SchedulerStep == ReceiveClosure \/ Push \/ TrySchedule \/ CheckSlot \/ PopItem

ItemStep(i) ==
  StartItem(i) \/ EndItem(i) \/ SendClear(i) \/ LeavePool(i) \/ SendTry(i)

ShutdownStep == ClearQueue \/ CloseChannel \/ ShutdownScheduler

Next ==
  \/ \E k \in Kinds \ {"wait"} : Post(k)
  \/ WaitIdle
  \/ \E i \in Item : \/ WaitIdleDone(i) \/ WaitIdleShutdown(i)
                     \/ WaitIdleCancelled(i) \/ ItemStep(i)
  \/ SchedulerStep
  \/ Shutdown
  \/ ShutdownStep

\* The scheduler's goroutine, the pool, the items it runs and a Shutdown that
\* has begun go on; nobody has to call, to cancel or to shut down.
Fairness ==
  /\ WF_vars(SchedulerStep)
  /\ \A i \in Item : WF_vars(ItemStep(i))
  /\ \A i \in Item : WF_vars(WaitIdleDone(i) \/ WaitIdleShutdown(i))
  /\ WF_vars(ShutdownStep)

Safety == Init /\ [][Next]_vars
Spec == Safety /\ Fairness

-----------------------------------------------------------------------------
(* Properties.                                                             *)

Stages == {"new", "inbox", "queue", "parked", "pool", "exec", "dropped"} \cup Ended

\* Type correctness.
TypeOK ==
  /\ issued \in 0..MaxCalls
  /\ kind \in [Item -> {"task", "flush", "wait"}]
  /\ stage \in [Item -> Stages]
  /\ waiter \in [Item -> {"none", "waiting", "returned"}]
  /\ inbox \in Seq([op : {"post", "clear", "try"}, item : Item \cup {NoItem}])
  /\ queue \in Seq(Item)
  /\ spc \in {"idle", "push", "try", "slot", "pop"}
  /\ current \in Item \cup {NoItem}
  /\ parked \in Item \cup {NoItem}
  /\ barrierRunning \in BOOLEAN
  /\ runningCount \in Nat
  /\ shutdown \in {"no", "clear", "chan", "scheduler", "done"}

\* The items that hold one of the runner's slots.
PoolStages == {"pool", "exec", "ended", "leave"}
InPool == {i \in Item : stage[i] \in PoolStages}

\* The runner never has more than maxConcurrency items in the pool, and
\* runningCount, which workers lower while the scheduler reads it, counts them.
ConcurrencyBound ==
  /\ runningCount = Cardinality(InPool)
  /\ runningCount <= MaxConcurrency

\* A barrier is a barrier for what came before it: while the callback of a
\* FlushAsync or the barrier of a WaitIdle is in the pool or executes, every
\* item posted earlier has ended or was dropped.
BarrierAfterPrior ==
  \A b \in Item : isBarrier(b) /\ stage[b] \in {"pool", "exec"} =>
    \A i \in 1..(b - 1) : stage[i] \in Ended \cup {"dropped"}

-----------------------------------------------------------------------------
(* The inductive invariant behind ConcurrencyBound and BarrierAfterPrior.   *)

\* The scheduler pops only while a slot is free: nobody else takes one.
SlotIsFree == spc = "pop" => runningCount < MaxConcurrency

posts(n) == inbox[n].op = "post"

\* An item's stage says where it is found.
Placement ==
  /\ \A i \in Item : stage[i] = "new" <=> i > issued
  /\ \A n \in 1..Len(queue) : stage[queue[n]] = "queue"
  /\ \A i \in Item : stage[i] = "queue" => \E n \in 1..Len(queue) : queue[n] = i
  /\ parked # NoItem => stage[parked] = "parked"
  /\ \A i \in Item : stage[i] = "parked" => parked = i
  /\ spc \in {"slot", "pop"} => parked = NoItem
  /\ spc = "push" => current \in Item /\ stage[current] = "inbox"
  /\ \A n \in 1..Len(inbox) :
       posts(n) => inbox[n].item \in Item /\ stage[inbox[n].item] = "inbox"
  /\ \A i \in Item : stage[i] = "inbox" =>
       \/ spc = "push" /\ current = i
       \/ \E n \in 1..Len(inbox) : posts(n) /\ inbox[n].item = i

\* Channel, queue and parking place keep the order of the calls: no item is
\* further on than an earlier one that still waits.
InOrder ==
  /\ \A m, n \in 1..Len(queue) : m < n => queue[m] < queue[n]
  /\ \A m, n \in 1..Len(inbox) :
       m < n /\ posts(m) /\ posts(n) => inbox[m].item < inbox[n].item
  /\ \A n \in 1..Len(inbox) : spc = "push" /\ posts(n) => current < inbox[n].item
  /\ \A i, j \in Item : i < j /\ stage[i] = "inbox" =>
       stage[j] \in {"new", "inbox", "dropped"}
  /\ \A i, j \in Item : i < j /\ stage[i] \in {"queue", "parked"} =>
       stage[j] \in {"new", "inbox", "queue", "dropped"}

IInv ==
  /\ TypeOK
  /\ ConcurrencyBound
  /\ SlotIsFree
  /\ Placement
  /\ InOrder
  /\ BarrierAfterPrior

-----------------------------------------------------------------------------
\* "Tasks posted after FlushAsync() will not run before the callback": while a
\* barrier has not started, no item posted after it has started.
NoOvertaking ==
  \A b \in Item : isBarrier(b) /\ stage[b] \in {"queue", "parked", "pool"} =>
    \A i \in (b + 1)..MaxCalls : stage[i] \notin {"exec"} \cup Ended

\* No wake-up of the scheduler is lost: every item that enters the queue ends,
\* unless the runner is shut down, however barriers, their flag and the
\* closures of completed items interleave.
QueuedItemEnds ==
  \A i \in Item : stage[i] = "queue" ~> stage[i] \in Ended \/ closed

\* WaitIdle returns: its barrier runs or Shutdown releases it.
WaitIdleReturns == \A i \in Item : waiter[i] = "waiting" ~> waiter[i] # "waiting"

=============================================================================
