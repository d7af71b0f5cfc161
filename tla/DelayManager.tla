---------------------------- MODULE DelayManager ----------------------------
(***************************************************************************)
(* DelayManager: a heap of delayed tasks ordered by the time they are due  *)
(* and one goroutine (loop) that sleeps until the first of them is.        *)
(*                                                                         *)
(* The heap is a set of entries; container/heap only matters through its   *)
(* minimum, and which of two entries due at the same time comes first is   *)
(* left open.  Actions leave the variables of other modules alone: module  *)
(* Timers composes them with the runners that use the delay manager.       *)
(***************************************************************************)
EXTENDS Naturals, FiniteSets

CONSTANTS
  Item,      \* what can be delayed
  MaxTime    \* bound: the clock stops here, at a time that stands for all later
             \* ones: what is due after it is due then

ASSUME TimeAssumption == MaxTime \in Nat

\* The time of a timer for an empty heap (1000 hours): later than any due time.
Never == MaxTime + 1

\* Time t on the bounded clock.
clip(t) == IF t <= MaxTime THEN t ELSE MaxTime

Entry == [item : Item, at : 0..MaxTime]

VARIABLES
  now,         \* time.Now
  pq,          \* the entries of the heap
  wakeup,      \* the one-slot channel holds a signal
  loop,        \* where the goroutine is
  calcAt,      \* when calculateNextRun read the clock
  aim,         \* the due time it sleeps for
  timer,       \* when the armed timer fires
  batch,       \* the expired entries still to be posted
  cancelled,   \* Stop has cancelled the context
  cleared      \* Stop has emptied the heap: it returns

loopVars == <<calcAt, aim, timer>>
dmVars == <<now, pq, wakeup, loop, loopVars, batch, cancelled, cleared>>

DMInit ==
  /\ now = 0
  /\ pq = {}
  /\ wakeup = FALSE
  /\ loop = "calc"
  /\ calcAt = 0 /\ aim = Never /\ timer = Never
  /\ batch = {}
  /\ cancelled = FALSE
  /\ cleared = FALSE

ClockTick ==
  /\ now < MaxTime
  /\ now' = now + 1
  /\ UNCHANGED <<pq, wakeup, loop, loopVars, batch, cancelled, cleared>>

\* x is the head of heap h.
isHead(x, h) == x \in h /\ \A y \in h : x.at <= y.at

\* Fault: only the first entry of an empty heap wakes the loop.
onlyEntry(t) == pq = {}

\* Fault: nothing wakes the loop.
wakesNobody(t) == FALSE

\* The pushed entry ends at index 0: it is due before every other one.
becomesHead(t) == \A y \in pq : t < y.at

\* The send on wakeup is dropped when a signal is pending.
AddDelayedTask(i, delay) ==
  /\ pq' = pq \cup {[item |-> i, at |-> clip(now + delay)]}
  /\ wakeup' = (wakeup \/ becomesHead(clip(now + delay)))
  /\ UNCHANGED <<now, loop, loopVars, batch, cancelled, cleared>>

-----------------------------------------------------------------------------
(* The loop.                                                               *)

\* The values that calculateNextRun returns are local to one round of the loop.
roundOver == calcAt' = 0 /\ aim' = Never /\ timer' = Never

calculateNextRun ==
  /\ loop = "calc"
  /\ \/ /\ pq = {}
        /\ calcAt' = now /\ aim' = Never /\ loop' = "arm"
     \/ \E x \in pq :
          /\ isHead(x, pq)
          /\ \/ x.at > now /\ calcAt' = now /\ aim' = x.at /\ loop' = "arm"
             \/ x.at <= now /\ UNCHANGED <<calcAt, aim>> /\ loop' = "process"
  /\ UNCHANGED <<now, pq, wakeup, timer, batch, cancelled, cleared>>

\* timer.Reset takes a duration: time that passed since calculateNextRun is
\* slept again.
ArmTimer ==
  /\ loop = "arm"
  /\ timer' = IF aim = Never THEN Never ELSE clip(now + (aim - calcAt))
  /\ loop' = "select"
  /\ UNCHANGED <<now, pq, wakeup, calcAt, aim, batch, cancelled, cleared>>

TimerFires ==
  /\ loop = "select"
  /\ timer <= now
  /\ loop' = "process"
  /\ roundOver
  /\ UNCHANGED <<now, pq, wakeup, batch, cancelled, cleared>>

Wake ==
  /\ loop = "select"
  /\ wakeup
  /\ wakeup' = FALSE
  /\ loop' = "calc"
  /\ roundOver
  /\ UNCHANGED <<now, pq, batch, cancelled, cleared>>

LoopExits ==
  /\ loop = "select"
  /\ cancelled
  /\ loop' = "done"
  /\ roundOver
  /\ UNCHANGED <<now, pq, wakeup, batch, cancelled, cleared>>

\* The expired entries are popped under the lock and posted after it is released.
processExpiredTasks ==
  /\ loop = "process"
  /\ batch' = {x \in pq : x.at <= now}
  /\ pq' = pq \ batch'
  /\ loop' = "post"
  /\ UNCHANGED <<now, wakeup, loopVars, cancelled, cleared>>

\* The post of x to its target has returned.
PostExpired(x) ==
  /\ loop = "post"
  /\ isHead(x, batch)
  /\ batch' = batch \ {x}
  /\ UNCHANGED <<now, pq, wakeup, loop, loopVars, cancelled, cleared>>

BatchDone ==
  /\ loop = "post"
  /\ batch = {}
  /\ loop' = "calc"
  /\ UNCHANGED <<now, pq, wakeup, loopVars, batch, cancelled, cleared>>

-----------------------------------------------------------------------------
(* Stop.                                                                   *)

CancelLoop ==
  /\ ~cancelled
  /\ cancelled' = TRUE
  /\ UNCHANGED <<now, pq, wakeup, loop, loopVars, batch, cleared>>

ClearHeap ==
  /\ cancelled /\ loop = "done"
  /\ ~cleared
  /\ cleared' = TRUE
  /\ pq' = {}
  /\ UNCHANGED <<now, wakeup, loop, loopVars, batch, cancelled>>

LoopStep ==
  \/ calculateNextRun \/ ArmTimer \/ TimerFires \/ Wake \/ LoopExits
  \/ processExpiredTasks \/ BatchDone

DMNext ==
  \/ ClockTick
  \/ \E i \in Item, d \in 0..MaxTime : AddDelayedTask(i, d)
  \/ LoopStep
  \/ \E x \in batch : PostExpired(x)
  \/ CancelLoop
  \/ ClearHeap

DMSpec == DMInit /\ [][DMNext]_dmVars

-----------------------------------------------------------------------------
(* Properties.                                                             *)

DMTypeOK ==
  /\ now \in 0..MaxTime
  /\ pq \subseteq Entry
  /\ wakeup \in BOOLEAN
  /\ loop \in {"calc", "arm", "select", "process", "post", "done"}
  /\ calcAt \in 0..MaxTime
  /\ aim \in 0..Never
  /\ timer \in 0..Never
  /\ batch \subseteq Entry /\ (batch # {} => loop = "post")
  /\ cancelled \in BOOLEAN
  /\ cleared \in BOOLEAN

\* The loop never sleeps past an entry: when it is about to sleep or asleep, it
\* aims at the first due time, or a signal that makes it look again is pending.
NoOversleep ==
  loop \in {"arm", "select"} => wakeup \/ \A x \in pq : aim <= x.at

\* Delayed tasks reach their targets in the order of their due times: what is
\* posted is due, and nothing that the manager still holds is due before it,
\* whichever batches the two are in.
PostedInDueOrder ==
  [][\A x \in batch \ batch' : x.at <= now /\ \A y \in batch' \cup pq' : x.at <= y.at]_batch

=============================================================================
