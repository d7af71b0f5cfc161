------------------------ MODULE SequencedRunnerProofs ------------------------
(***************************************************************************)
(* Proofs about SequencedRunner for any number of posters, workers and     *)
(* calls: its type invariant, that at most one runLoop exists, that the    *)
(* sanity check never panics, that no task is stranded, that the runner    *)
(* implements the safety part of Strand, and that WaitIdle is a barrier.   *)
(***************************************************************************)
EXTENDS SequencedRunner, TLAPS

USE MaxCallsAssumption

\* The initial state, an idle runner on an idle pool, satisfies the invariant.
LEMMA InitIInv == Init => IInv
<1> SUFFICES ASSUME Init PROVE IInv
  OBVIOUS
<1>1. TypeOK
  <2>1. /\ closed \in BOOLEAN /\ cleared \in BOOLEAN /\ poolDown \in BOOLEAN
    BY Zenon DEF Init
  <2>2. /\ queue \in Seq(Task) /\ runningCount \in {0, 1} /\ pending \in Nat
    BY DEF Init
  <2>4. ppc \in [Posters -> PosterStates]
    BY DEF Init,PosterStates
  <2>5. mode \in [Posters -> {"post", "waitIdle"}]
    BY DEF Init
  <2>6. calls \in [Posters -> 0..MaxCalls]
    BY MaxCallsAssumption DEF Init
  <2>7. wpc \in [Workers -> WorkerStates]
    BY DEF Init, WorkerStates
  <2>8. cur \in [Workers -> Task \cup {NoTask}]
    BY DEF Init
  <2>9. finished \subseteq Task /\ discarded \subseteq Task
    BY DEF Init
  <2>10. before \in [Posters -> SUBSET Task]
    BY DEF Init
  <2> QED
    BY <2>1, <2>2, <2>4, <2>5, <2>6, <2>7, <2>8, <2>9, <2>10 DEF TypeOK
<1>2. TasksInHand /\ OneRunLoop /\ TokenHeld /\ QueueWatched
  BY DEF Init, TasksInHand, OneRunLoop, TokenHeld, RunLoopExists, QueueWatched,
         TokenStates
<1> QED
  BY <1>1, <1>2 DEF IInv

\* Every step keeps the types, and keeps a task in the hands of the posters
\* that are inside a call and of the workers that execute.
LEMMA NextType ==
  ASSUME IInv, [Next]_vars
  PROVE  TypeOK' /\ TasksInHand'
<1> USE DEF runnerVars, posterVars, workerVars, poolVars, histVars,
            TypeOK, PosterStates, WorkerStates, TokenStates, TasksInHand, Task
<1>1. TypeOK /\ TasksInHand
  BY DEF IInv
<1>2. ASSUME NEW p \in Posters, PostTask(p)
      PROVE  TypeOK' /\ TasksInHand'
  BY <1>1, <1>2 DEF PostTask
<1>3. ASSUME NEW p \in Posters, WaitIdle(p)
      PROVE  TypeOK' /\ TasksInHand'
  <2> HIDE DEF Task
  <2>1. accepted \subseteq Task
    BY <1>1 DEF accepted
  <2>2. before' \in [Posters -> SUBSET Task]
    BY <1>1, <1>3, <2>1 DEF WaitIdle
  <2>3. /\ calls' \in [Posters -> 0..MaxCalls]
        /\ mode' \in [Posters -> {"post", "waitIdle"}]
        /\ ppc' \in [Posters -> PosterStates]
        /\ \A q \in Posters : ppc'[q] # "idle" => calls'[q] >= 1
    BY <1>1, <1>3 DEF WaitIdle
  <2> QED
    BY <1>1, <1>3, <2>2, <2>3 DEF WaitIdle
<1>4. ASSUME NEW p \in Posters, PostBarrier(p)
      PROVE  TypeOK' /\ TasksInHand'
  BY <1>1, <1>4 DEF PostBarrier
<1>5. ASSUME NEW p \in Posters, Push(p)
      PROVE  TypeOK' /\ TasksInHand'
  BY <1>1, <1>5 DEF Push, taskOf
<1>6. ASSUME NEW p \in Posters, EnsureRunning(p)
      PROVE  TypeOK' /\ TasksInHand'
  BY <1>1, <1>6 DEF EnsureRunning, afterPost
<1>7. ASSUME NEW p \in Posters, PosterPostsRunLoop(p)
      PROVE  TypeOK' /\ TasksInHand'
  BY <1>1, <1>7 DEF PosterPostsRunLoop, afterPost, PostInternal
<1>8. ASSUME NEW p \in Posters, WaitIdleDone(p)
      PROVE  TypeOK' /\ TasksInHand'
  BY <1>1, <1>8 DEF WaitIdleDone
<1>9. ASSUME NEW p \in Posters, WaitIdleCancelled(p)
      PROVE  TypeOK' /\ TasksInHand'
  BY <1>1, <1>9 DEF WaitIdleCancelled
<1>10. ASSUME NEW w \in Workers, TakeRunLoop(w)
      PROVE  TypeOK' /\ TasksInHand'
  BY <1>1, <1>10 DEF TakeRunLoop, moveWorker
<1>11. ASSUME NEW w \in Workers, SanityCheck(w)
      PROVE  TypeOK' /\ TasksInHand'
  BY <1>1, <1>11 DEF SanityCheck, moveWorker
<1>12. ASSUME NEW w \in Workers, PopTask(w)
      PROVE  TypeOK' /\ TasksInHand'
  <2>1. CASE queue = << >>
    BY <1>1, <1>12, <2>1 DEF PopTask, moveWorker
  <2>2. CASE queue # << >>
    <3> HIDE DEF Task
    <3>1. Head(queue) \in Task /\ Tail(queue) \in Seq(Task)
      BY <1>1, <2>2
    <3> QED
      BY <1>1, <1>12, <2>2, <3>1 DEF PopTask, moveWorker
  <2> QED
    BY <2>1, <2>2
<1>13. ASSUME NEW w \in Workers, ExecuteTask(w)
      PROVE  TypeOK' /\ TasksInHand'
  BY <1>1, <1>13 DEF ExecuteTask, moveWorker
<1>14. ASSUME NEW w \in Workers, CheckMore(w)
      PROVE  TypeOK' /\ TasksInHand'
  BY <1>1, <1>14 DEF CheckMore, moveWorker
<1>15. ASSUME NEW w \in Workers, WorkerPostsRunLoop(w)
      PROVE  TypeOK' /\ TasksInHand'
  BY <1>1, <1>15 DEF WorkerPostsRunLoop, PostInternal, moveWorker
<1>16. ASSUME NEW w \in Workers, GoIdle(w)
      PROVE  TypeOK' /\ TasksInHand'
  BY <1>1, <1>16 DEF GoIdle, moveWorker
<1>17. ASSUME NEW w \in Workers, ScheduleNextIfNeeded(w)
      PROVE  TypeOK' /\ TasksInHand'
  BY <1>1, <1>17 DEF ScheduleNextIfNeeded, moveWorker
<1>18. ASSUME NEW w \in Workers, ReacquireToken(w)
      PROVE  TypeOK' /\ TasksInHand'
  <2> HIDE DEF Task
  <2>1. runningCount' \in {0, 1} /\ wpc' \in [Workers -> WorkerStates]
    BY <1>1, <1>18 DEF ReacquireToken, moveWorker
  <2>2. \A v \in Workers : wpc'[v] = "exec" => cur[v] \in Task
    BY <1>1, <1>18 DEF ReacquireToken, moveWorker
  <2> QED
    BY <1>1, <1>18, <2>1, <2>2 DEF ReacquireToken
<1>19. ASSUME Shutdown
      PROVE  TypeOK' /\ TasksInHand'
  BY <1>1, <1>19 DEF Shutdown
<1>20. ASSUME ClearQueue
      PROVE  TypeOK' /\ TasksInHand'
  BY <1>1, <1>20 DEF ClearQueue
<1>21. ASSUME PoolShutdown
      PROVE  TypeOK' /\ TasksInHand'
  BY <1>1, <1>21 DEF PoolShutdown
<1>22. ASSUME PoolClear
      PROVE  TypeOK' /\ TasksInHand'
  BY <1>1, <1>22 DEF PoolClear
<1>23. CASE UNCHANGED vars
  BY <1>1, <1>23 DEF vars
<1> QED
  BY <1>2, <1>3, <1>4, <1>5, <1>6, <1>7, <1>8, <1>9, <1>10, <1>11, <1>12,
     <1>13, <1>14, <1>15, <1>16, <1>17, <1>18, <1>19, <1>20, <1>21, <1>22, <1>23
  DEF Next, PosterInCall, RunLoop

\* Every step keeps the token accounting: who may hold a runLoop, what
\* runningCount says about it, and who watches over the queue.
LEMMA NextToken ==
  ASSUME IInv, [Next]_vars
  PROVE  OneRunLoop' /\ TokenHeld' /\ QueueWatched'
<1> USE DEF runnerVars, posterVars, workerVars, poolVars, histVars,
            TypeOK, PosterStates, WorkerStates, TokenStates,
            OneRunLoop, TokenHeld, RunLoopExists, QueueWatched
<1>1. TypeOK /\ OneRunLoop /\ TokenHeld /\ QueueWatched
  BY DEF IInv
<1>2. ASSUME NEW p \in Posters, PostTask(p)
      PROVE  OneRunLoop' /\ TokenHeld' /\ QueueWatched'
  BY <1>1, <1>2 DEF PostTask
<1>3. ASSUME NEW p \in Posters, WaitIdle(p)
      PROVE  OneRunLoop' /\ TokenHeld' /\ QueueWatched'
  BY <1>1, <1>3 DEF WaitIdle, accepted
<1>4. ASSUME NEW p \in Posters, PostBarrier(p)
      PROVE  OneRunLoop' /\ TokenHeld' /\ QueueWatched'
  BY <1>1, <1>4 DEF PostBarrier
<1>5. ASSUME NEW p \in Posters, Push(p)
      PROVE  OneRunLoop' /\ TokenHeld' /\ QueueWatched'
  BY <1>1, <1>5 DEF Push, taskOf
<1>6. ASSUME NEW p \in Posters, EnsureRunning(p)
      PROVE  OneRunLoop' /\ TokenHeld' /\ QueueWatched'
  BY <1>1, <1>6 DEF EnsureRunning, afterPost
<1>7. ASSUME NEW p \in Posters, PosterPostsRunLoop(p)
      PROVE  OneRunLoop' /\ TokenHeld' /\ QueueWatched'
  BY <1>1, <1>7 DEF PosterPostsRunLoop, afterPost, PostInternal
<1>8. ASSUME NEW p \in Posters, WaitIdleDone(p)
      PROVE  OneRunLoop' /\ TokenHeld' /\ QueueWatched'
  BY <1>1, <1>8 DEF WaitIdleDone
<1>9. ASSUME NEW p \in Posters, WaitIdleCancelled(p)
      PROVE  OneRunLoop' /\ TokenHeld' /\ QueueWatched'
  BY <1>1, <1>9 DEF WaitIdleCancelled
<1>10. ASSUME NEW w \in Workers, TakeRunLoop(w)
      PROVE  OneRunLoop' /\ TokenHeld' /\ QueueWatched'
  BY <1>1, <1>10 DEF TakeRunLoop, moveWorker
<1>11. ASSUME NEW w \in Workers, SanityCheck(w)
      PROVE  OneRunLoop' /\ TokenHeld' /\ QueueWatched'
  BY <1>1, <1>11 DEF SanityCheck, moveWorker
<1>12. ASSUME NEW w \in Workers, PopTask(w)
      PROVE  OneRunLoop' /\ TokenHeld' /\ QueueWatched'
  <2>1. /\ UNCHANGED <<ppc, pending, runningCount, poolDown>>
        /\ \E to \in {"store", "exec"} : wpc' = [wpc EXCEPT ![w] = to]
    BY <1>12 DEF PopTask, moveWorker
  <2>2. wpc[w] = "pop" /\ runningCount = 1
    BY <1>1, <1>12 DEF PopTask
  <2> QED
    BY <1>1, <2>1, <2>2
<1>13. ASSUME NEW w \in Workers, ExecuteTask(w)
      PROVE  OneRunLoop' /\ TokenHeld' /\ QueueWatched'
  BY <1>1, <1>13 DEF ExecuteTask, moveWorker
<1>14. ASSUME NEW w \in Workers, CheckMore(w)
      PROVE  OneRunLoop' /\ TokenHeld' /\ QueueWatched'
  BY <1>1, <1>14 DEF CheckMore, moveWorker
<1>15. ASSUME NEW w \in Workers, WorkerPostsRunLoop(w)
      PROVE  OneRunLoop' /\ TokenHeld' /\ QueueWatched'
  BY <1>1, <1>15 DEF WorkerPostsRunLoop, PostInternal, moveWorker
<1>16. ASSUME NEW w \in Workers, GoIdle(w)
      PROVE  OneRunLoop' /\ TokenHeld' /\ QueueWatched'
  BY <1>1, <1>16 DEF GoIdle, moveWorker
<1>17. ASSUME NEW w \in Workers, ScheduleNextIfNeeded(w)
      PROVE  OneRunLoop' /\ TokenHeld' /\ QueueWatched'
  BY <1>1, <1>17 DEF ScheduleNextIfNeeded, moveWorker
<1>18. ASSUME NEW w \in Workers, ReacquireToken(w)
      PROVE  OneRunLoop' /\ TokenHeld' /\ QueueWatched'
  BY <1>1, <1>18 DEF ReacquireToken, moveWorker
<1>19. ASSUME Shutdown
      PROVE  OneRunLoop' /\ TokenHeld' /\ QueueWatched'
  BY <1>1, <1>19 DEF Shutdown
<1>20. ASSUME ClearQueue
      PROVE  OneRunLoop' /\ TokenHeld' /\ QueueWatched'
  BY <1>1, <1>20 DEF ClearQueue
<1>21. ASSUME PoolShutdown
      PROVE  OneRunLoop' /\ TokenHeld' /\ QueueWatched'
  BY <1>1, <1>21 DEF PoolShutdown
<1>22. ASSUME PoolClear
      PROVE  OneRunLoop' /\ TokenHeld' /\ QueueWatched'
  BY <1>1, <1>22 DEF PoolClear
<1>23. CASE UNCHANGED vars
  BY <1>1, <1>23 DEF vars
<1> QED
  BY <1>2, <1>3, <1>4, <1>5, <1>6, <1>7, <1>8, <1>9, <1>10, <1>11, <1>12,
     <1>13, <1>14, <1>15, <1>16, <1>17, <1>18, <1>19, <1>20, <1>21, <1>22, <1>23
  DEF Next, PosterInCall, RunLoop

\* The conjunction of the invariant's parts is inductive.
LEMMA NextIInv == IInv /\ [Next]_vars => IInv'
BY NextType, NextToken DEF IInv

\* The inductive invariant holds in every reachable state.
THEOREM Invariance == Safety => []IInv
<1>1. Init => IInv
  BY InitIInv
<1>2. IInv /\ [Next]_vars => IInv'
  BY NextIInv
<1> QED
  BY <1>1, <1>2, PTL DEF Safety

\* SequencedTaskRunner keeps its types: runningCount stays within {0, 1} and
\* only tasks that were posted are queued, executed or discarded.
THEOREM TypeCorrect == Safety => []TypeOK
BY Invariance, PTL DEF IInv

\* At most one runLoop is ever queued, about to be queued or running.
THEOREM AtMostOneRunLoop == Safety => []OneRunLoop
BY Invariance, PTL DEF IInv

\* The panic of runLoop's sanity check is unreachable.
THEOREM SanityCheckNeverPanics == Safety => []SanityCheckHolds
<1>1. IInv => SanityCheckHolds
  BY DEF IInv, TokenHeld, RunLoopExists, TokenStates, SanityCheckHolds
<1> QED
  BY <1>1, Invariance, PTL

\* A queued task always has a runLoop or a goroutine that will look at it.
THEOREM NoTaskStranded == Safety => []NoStrandedTask
<1>1. IInv => NoStrandedTask
  BY DEF IInv, TypeOK, TokenHeld, RunLoopExists, TokenStates, QueueWatched,
         NoStrandedTask
<1> QED
  BY <1>1, Invariance, PTL

-----------------------------------------------------------------------------
(* The runner implements the safety part of Strand.                        *)

\* The tasks in execution, as the refinement mapping sees them.
running == {cur[w] : w \in {v \in Workers : wpc[v] = "exec"}}

\* A step that moves no worker into or out of "exec" and leaves the tasks in
\* hand alone leaves the running tasks alone.
LEMMA RunningUnchanged ==
  ASSUME TypeOK, NEW w \in Workers, NEW to, wpc[w] # "exec", to # "exec",
         wpc' = [wpc EXCEPT ![w] = to], cur' = cur
  PROVE  running' = running
BY DEF running, TypeOK

\* Each step of the runner is a step of the sequential executor or leaves its
\* state unchanged.
LEMMA StepRefines ==
  ASSUME IInv, [Next]_vars
  PROVE  [strand!Next]_(strand!vars)
<1> USE DEF strand!vars, runnerVars, posterVars, workerVars, poolVars, histVars
<1>1. TypeOK /\ TasksInHand /\ OneRunLoop
  BY DEF IInv
<1>2. ASSUME NEW p \in Posters,
             \/ PostTask(p) \/ WaitIdle(p) \/ PostBarrier(p) \/ EnsureRunning(p)
             \/ PosterPostsRunLoop(p) \/ WaitIdleDone(p) \/ WaitIdleCancelled(p)
      PROVE  UNCHANGED strand!vars
  BY <1>2 DEF PostTask, WaitIdle, PostBarrier, EnsureRunning,
              PosterPostsRunLoop, WaitIdleDone, WaitIdleCancelled
<1>3. ASSUME NEW p \in Posters, Push(p)
      PROVE  \E t \in Task : strand!Accept(t)
  <2>1. taskOf(p) \in Task
    BY <1>1, <1>3 DEF Push, taskOf, Task, TypeOK, TasksInHand
  <2>2. strand!Accept(taskOf(p))
    BY <1>3 DEF Push, strand!Accept
  <2> QED
    BY <2>1, <2>2
<1>4. ASSUME NEW w \in Workers,
             \/ TakeRunLoop(w) \/ SanityCheck(w) \/ CheckMore(w)
             \/ WorkerPostsRunLoop(w) \/ GoIdle(w) \/ ScheduleNextIfNeeded(w)
             \/ ReacquireToken(w)
      PROVE  UNCHANGED strand!vars
  <2>1. PICK to : wpc[w] # "exec" /\ to # "exec" /\ wpc' = [wpc EXCEPT ![w] = to]
    BY <1>4 DEF moveWorker, TakeRunLoop, SanityCheck, CheckMore,
                WorkerPostsRunLoop, GoIdle, ScheduleNextIfNeeded, ReacquireToken
  <2>2. /\ cur' = cur /\ queue' = queue /\ finished' = finished
        /\ closed' = closed /\ cleared' = cleared /\ poolDown' = poolDown
    BY <1>4 DEF TakeRunLoop, SanityCheck, CheckMore,
                WorkerPostsRunLoop, GoIdle, ScheduleNextIfNeeded, ReacquireToken
  <2>3. running' = running
    BY <1>1, <2>1, <2>2, RunningUnchanged
  <2> QED
    BY <2>2, <2>3 DEF running
<1>5. ASSUME NEW w \in Workers, PopTask(w)
      PROVE  strand!Start \/ UNCHANGED strand!vars
  <2>1. CASE queue = << >>
    <3>1. running' = running
      BY <1>1, <1>5, <2>1, RunningUnchanged DEF PopTask, moveWorker
    <3> QED
      BY <1>5, <2>1, <3>1 DEF PopTask, running
  <2>2. CASE queue # << >>
    <3>1. \A v \in Workers : wpc[v] # "exec"
      BY <1>1, <1>5 DEF PopTask, OneRunLoop, TokenStates
    <3>2. running = {}
      BY <3>1 DEF running
    <3>3. wpc' = [wpc EXCEPT ![w] = "exec"] /\ cur' = [cur EXCEPT ![w] = Head(queue)]
      BY <1>5, <2>2 DEF PopTask, moveWorker
    <3>4. running' = {Head(queue)}
      BY <1>1, <3>1, <3>3 DEF running, TypeOK
    <3> QED
      BY <1>5, <2>2, <3>2, <3>4 DEF PopTask, running, strand!Start
  <2> QED
    BY <2>1, <2>2
<1>6. ASSUME NEW w \in Workers, ExecuteTask(w)
      PROVE  \E t \in Task : strand!Finish(t)
  <2>1. cur[w] \in Task
    BY <1>1, <1>6 DEF ExecuteTask, TasksInHand
  <2>2. \A v \in Workers : wpc[v] = "exec" <=> v = w
    BY <1>1, <1>6 DEF ExecuteTask, OneRunLoop, TokenStates
  <2>3. running = {cur[w]}
    BY <2>2 DEF running
  <2>4. running' = {}
    BY <1>1, <1>6, <2>2 DEF ExecuteTask, moveWorker, running, TypeOK
  <2>5. strand!Finish(cur[w])
    BY <1>6, <2>3, <2>4 DEF ExecuteTask, running, strand!Finish
  <2> QED
    BY <2>1, <2>5 DEF strand!Finish
<1>7. CASE Shutdown
  BY <1>7 DEF Shutdown, strand!Close, strand!Next
<1>8. CASE ClearQueue
  BY <1>8 DEF ClearQueue, strand!Discard, strand!Next
<1>9. CASE PoolShutdown
  BY <1>9 DEF PoolShutdown, strand!PoolGoesDown, strand!Next
<1>10. CASE PoolClear
  BY <1>10 DEF PoolClear
<1>11. CASE UNCHANGED vars
  BY <1>11 DEF vars
<1> QED
  BY <1>2, <1>3, <1>4, <1>5, <1>6, <1>7, <1>8, <1>9, <1>10, <1>11
  DEF Next, PosterInCall, RunLoop, strand!Next

\* SequencedTaskRunner is a sequential FIFO executor: it implements the safety
\* part of Strand, with the tasks in execution as the running ones.
THEOREM ImplementsStrand == Safety => StrandSafety
<1>1. Init => strand!Init
  BY DEF Init, strand!Init
<1>2. IInv /\ [Next]_vars => [strand!Next]_(strand!vars)
  BY StepRefines
<1> QED
  BY <1>1, <1>2, Invariance, PTL DEF Safety, StrandSafety, strand!Safety

-----------------------------------------------------------------------------
(* WaitIdle is a barrier.                                                  *)

\* Where a task that was pushed is.
queued(t) == \E i \in DOMAIN queue : queue[i] = t
executing(t) == \E w \in Workers : wpc[w] = "exec" /\ cur[w] = t
known(t) == queued(t) \/ executing(t) \/ t \in finished \/ t \in discarded

\* A task that was pushed belongs to a call that has begun, and not to one that
\* has yet to push.
PushedOnce ==
  \A t \in Task : known(t) =>
    t[2] <= calls[t[1]] /\ (ppc[t[1]] \in {"barrier", "push"} => t[2] # calls[t[1]])

\* Everything that WaitIdle has to wait for stands in front of its barrier until
\* the barrier is taken, and is over from then on.
BarrierBehind ==
  \A p \in Posters : mode[p] = "waitIdle" =>
    \A t \in before[p] :
      /\ t # taskOf(p)
      /\ known(t)
      /\ \A i, j \in DOMAIN queue : queue[i] = taskOf(p) /\ queue[j] = t => j < i
      /\ executing(taskOf(p)) \/ taskOf(p) \in finished => t \in finished \cup discarded

BarrierInv == PushedOnce /\ BarrierBehind

\* A step that pushes, takes, ends, discards and calls nothing.
LEMMA QuietStep ==
  ASSUME BarrierInv, UNCHANGED <<queue, finished, discarded, before, calls, mode, cur>>,
         \A w \in Workers : wpc'[w] = "exec" <=> wpc[w] = "exec",
         \A p \in Posters : ppc'[p] \in {"barrier", "push"} => ppc[p] \in {"barrier", "push"}
  PROVE  BarrierInv'
<1>1. \A t : executing(t)' <=> executing(t)
  BY DEF executing
<1>2. \A t : queued(t)' <=> queued(t)
  BY DEF queued
<1>3. \A t : known(t)' <=> known(t)
  BY <1>1, <1>2 DEF known
<1>4. \A p \in Posters : taskOf(p)' = taskOf(p)
  BY DEF taskOf
<1>5. PushedOnce'
  <2> SUFFICES ASSUME NEW t \in Task, known(t)'
               PROVE  t[2] <= calls[t[1]] /\ (ppc'[t[1]] \in {"barrier", "push"} => t[2] # calls[t[1]])
    BY DEF PushedOnce
  <2>1. t[1] \in Posters
    BY DEF Task
  <2> QED BY <1>3, <2>1 DEF BarrierInv, PushedOnce
<1>6. BarrierBehind'
  BY <1>1, <1>3, <1>4 DEF BarrierInv, BarrierBehind
<1> QED BY <1>5, <1>6 DEF BarrierInv

\* A call begins: its task is new.
LEMMA BeginStep ==
  ASSUME IInv, BarrierInv, NEW p \in Posters, PostTask(p) \/ WaitIdle(p)
  PROVE  BarrierInv'
<1> USE DEF runnerVars, workerVars, poolVars, histVars
<1>1. /\ UNCHANGED <<queue, finished, discarded, cur, wpc>>
      /\ calls' = [calls EXCEPT ![p] = @ + 1] /\ calls \in [Posters -> Nat]
      /\ ppc' \in [Posters -> PosterStates] /\ ppc \in [Posters -> PosterStates]
      /\ \A q \in Posters : q # p => ppc'[q] = ppc[q]
      /\ \A q \in Posters : q # p => mode'[q] = mode[q] /\ before'[q] = before[q]
      /\ mode \in [Posters -> {"post", "waitIdle"}] /\ before \in [Posters -> SUBSET Task]
  <2>1. /\ calls \in [Posters -> Nat] /\ ppc \in [Posters -> PosterStates]
        /\ mode \in [Posters -> {"post", "waitIdle"}] /\ before \in [Posters -> SUBSET Task]
    BY DEF IInv, TypeOK
  <2>2. CASE PostTask(p)
    BY <2>1, <2>2 DEF PostTask, PosterStates
  <2>3. CASE WaitIdle(p)
    BY <2>1, <2>3 DEF WaitIdle, PosterStates
  <2> QED BY <2>2, <2>3
<1>2. \A t : (executing(t)' <=> executing(t)) /\ (known(t)' <=> known(t)) /\ (queued(t)' <=> queued(t))
  BY <1>1 DEF executing, queued, known
<1>3. PushedOnce'
  <2> SUFFICES ASSUME NEW t \in Task, known(t)'
               PROVE  t[2] <= calls'[t[1]] /\ (ppc'[t[1]] \in {"barrier", "push"} => t[2] # calls'[t[1]])
    BY DEF PushedOnce
  <2>1. t[1] \in Posters /\ t[2] \in Nat
    BY DEF Task
  <2>2. t[2] <= calls[t[1]] /\ (ppc[t[1]] \in {"barrier", "push"} => t[2] # calls[t[1]])
    BY <1>2 DEF BarrierInv, PushedOnce
  <2>3. CASE t[1] = p
    BY <1>1, <2>1, <2>2, <2>3
  <2>4. CASE t[1] # p
    BY <1>1, <2>1, <2>2, <2>4
  <2> QED BY <2>3, <2>4
<1>4. BarrierBehind'
  <2> SUFFICES ASSUME NEW q \in Posters, mode'[q] = "waitIdle", NEW t \in before'[q]
               PROVE  /\ t # taskOf(q)'
                      /\ known(t)'
                      /\ \A i, j \in DOMAIN queue : queue[i] = taskOf(q)' /\ queue[j] = t => j < i
                      /\ executing(taskOf(q))' \/ taskOf(q)' \in finished => t \in finished \cup discarded
    BY <1>1 DEF BarrierBehind
  <2>1. CASE q # p
    <3>1. taskOf(q)' = taskOf(q) /\ t \in before[q] /\ mode[q] = "waitIdle"
      BY <1>1, <2>1 DEF taskOf
    <3> QED BY <1>2, <3>1 DEF BarrierInv, BarrierBehind
  <2>2. CASE q = p
    <3>1. WaitIdle(p) /\ t \in accepted /\ calls[p] < MaxCalls
      BY <1>1, <2>2 DEF PostTask, WaitIdle
    <3>2. known(t) /\ t \in Task
      <4>1. known(t)
        BY <3>1 DEF accepted, known, queued, executing, IInv, TypeOK
      <4>2. accepted \subseteq Task
        BY DEF IInv, TypeOK, TasksInHand, accepted
      <4> QED BY <3>1, <4>1, <4>2
    <3>3. ~known(taskOf(p)')
      <4> DEFINE b == taskOf(p)'
      <4>1. b = <<p, calls[p] + 1>> /\ b \in Task
        BY <1>1, <3>1 DEF taskOf, Task
      <4>2. b[1] = p /\ b[2] = calls[p] + 1
        BY <4>1
      <4>3. ~(b[2] <= calls[b[1]])
        BY <1>1, <4>2
      <4> HIDE DEF b
      <4>4. ~known(b)
        BY <4>1, <4>3 DEF BarrierInv, PushedOnce
      <4> QED BY <4>4 DEF b
    <3>4. ~queued(taskOf(p)') /\ ~executing(taskOf(p)') /\ taskOf(p)' \notin finished
      BY <3>3 DEF known
    <3> QED BY <1>2, <2>2, <3>2, <3>3, <3>4 DEF queued
  <2> QED BY <2>1, <2>2
<1> QED BY <1>3, <1>4 DEF BarrierInv

\* The push: a barrier goes behind what is queued, and no task that a WaitIdle has
\* to wait for is pushed after it.
LEMMA PushStep ==
  ASSUME IInv, BarrierInv, NEW p \in Posters, Push(p)
  PROVE  BarrierInv'
<1> USE DEF runnerVars, workerVars, poolVars, histVars
<1> DEFINE x == taskOf(p)
           n == Len(queue) + 1
<1>1. /\ UNCHANGED <<finished, discarded, before, calls, mode, cur, wpc>>
      /\ ppc[p] = "push" /\ ppc' = [ppc EXCEPT ![p] = "cas"]
      /\ ppc \in [Posters -> PosterStates] /\ calls \in [Posters -> Nat]
      /\ queue \in Seq(Task)
      /\ before \in [Posters -> SUBSET Task]
  BY DEF Push, IInv, TypeOK
<1>2. x \in Task /\ x[1] = p /\ x[2] = calls[p]
  BY <1>1 DEF taskOf, Task, IInv, TypeOK, TasksInHand
<1>3. ~known(x)
  BY <1>1, <1>2 DEF BarrierInv, PushedOnce
<1>4. \A q \in Posters : taskOf(q)' = taskOf(q)
  BY <1>1 DEF taskOf
<1> HIDE DEF x
<1>5. /\ queue' = Append(queue, x)
      /\ DOMAIN queue' = DOMAIN queue \cup {n} /\ n \notin DOMAIN queue
      /\ queue'[n] = x /\ \A i \in DOMAIN queue : queue'[i] = queue[i] /\ i < n
  BY <1>1, <1>2 DEF Push, x
<1>6. \A t : queued(t)' <=> queued(t) \/ t = x
  BY <1>5 DEF queued
<1>7. \A t : executing(t)' <=> executing(t)
  BY <1>1 DEF executing
<1>8. \A t : known(t)' <=> known(t) \/ t = x
  BY <1>1, <1>6, <1>7 DEF known
<1> HIDE DEF n
<1>9. PushedOnce'
  <2> SUFFICES ASSUME NEW t \in Task, known(t)'
               PROVE  t[2] <= calls[t[1]] /\ (ppc'[t[1]] \in {"barrier", "push"} => t[2] # calls[t[1]])
    BY <1>1 DEF PushedOnce
  <2>1. CASE known(t)
    <3>1. t[1] \in Posters
      BY DEF Task
    <3> QED BY <1>1, <2>1, <3>1 DEF BarrierInv, PushedOnce
  <2>2. CASE t = x
    <3>1. t[1] = p /\ t[2] = calls[p]
      BY <1>2, <2>2
    <3>2. ppc'[p] = "cas" /\ calls[p] \in Nat
      BY <1>1
    <3> QED BY <3>1, <3>2
  <2> QED BY <1>8, <2>1, <2>2
<1>10. BarrierBehind'
  <2> SUFFICES ASSUME NEW q \in Posters, mode[q] = "waitIdle", NEW t \in before[q]
               PROVE  /\ t # taskOf(q)
                      /\ known(t)'
                      /\ \A i, j \in DOMAIN queue' : queue'[i] = taskOf(q) /\ queue'[j] = t => j < i
                      /\ executing(taskOf(q)) \/ taskOf(q) \in finished => t \in finished \cup discarded
    BY <1>1, <1>4, <1>7 DEF BarrierBehind
  <2>1. /\ t # taskOf(q) /\ known(t)
        /\ \A i, j \in DOMAIN queue : queue[i] = taskOf(q) /\ queue[j] = t => j < i
        /\ executing(taskOf(q)) \/ taskOf(q) \in finished => t \in finished \cup discarded
    BY DEF BarrierInv, BarrierBehind
  <2>2. t # x
    BY <1>3, <2>1
  <2>3. ASSUME NEW i \in DOMAIN queue', NEW j \in DOMAIN queue', queue'[i] = taskOf(q), queue'[j] = t
        PROVE  j < i
    <3>1. j \in DOMAIN queue /\ queue[j] = t
      BY <1>5, <2>2, <2>3
    <3>2. CASE i = n
      BY <1>5, <3>1, <3>2
    <3>3. CASE i # n
      BY <1>5, <2>1, <2>3, <3>1, <3>3
    <3> QED BY <3>2, <3>3
  <2> QED BY <1>8, <2>1, <2>3
<1> QED BY <1>9, <1>10 DEF BarrierInv

\* The pop: when a barrier is taken, nothing that it waits for is left before it.
LEMMA PopStep ==
  ASSUME IInv, BarrierInv, NEW w \in Workers, PopTask(w), queue # << >>
  PROVE  BarrierInv'
<1> USE DEF runnerVars, posterVars, poolVars, histVars
<1> DEFINE h == Head(queue)
<1>1. /\ UNCHANGED <<finished, discarded, before, calls, mode, ppc>>
      /\ wpc[w] = "pop" /\ wpc' = [wpc EXCEPT ![w] = "exec"]
      /\ cur' = [cur EXCEPT ![w] = h] /\ queue' = Tail(queue)
  BY DEF PopTask, moveWorker
<1>2. /\ queue \in Seq(Task) /\ wpc \in [Workers -> WorkerStates]
      /\ cur \in [Workers -> Task \cup {NoTask}] /\ before \in [Posters -> SUBSET Task]
  BY DEF IInv, TypeOK
<1>3. \A v \in Workers : wpc[v] # "exec"
  BY <1>1 DEF IInv, OneRunLoop, TokenStates
<1>4. /\ 1 \in DOMAIN queue /\ h = queue[1]
      /\ \A k \in DOMAIN queue' :
           k \in Nat /\ k + 1 \in DOMAIN queue /\ queue'[k] = queue[k + 1]
      /\ \A k \in DOMAIN queue : k # 1 => k - 1 \in DOMAIN queue' /\ queue'[k - 1] = queue[k] /\ k \in Nat
      /\ \A k \in DOMAIN queue : ~(k < 1)
  BY <1>1, <1>2
<1> HIDE DEF h
<1>5. \A t : ~executing(t)
  BY <1>3 DEF executing
<1>6. \A t : executing(t)' <=> t = h
  BY <1>1, <1>2, <1>3 DEF executing
<1>7. \A t : /\ queued(t)' => queued(t)
             /\ queued(t) => queued(t)' \/ t = h
  BY <1>4 DEF queued
<1>8. queued(h)
  BY <1>4 DEF queued
<1>9. \A t : known(t)' <=> known(t)
  BY <1>1, <1>5, <1>6, <1>7, <1>8 DEF known
<1>10. \A q \in Posters : taskOf(q)' = taskOf(q)
  BY <1>1 DEF taskOf
<1>11. PushedOnce'
  BY <1>1, <1>9 DEF BarrierInv, PushedOnce
<1>12. BarrierBehind'
  <2> SUFFICES ASSUME NEW q \in Posters, mode[q] = "waitIdle", NEW t \in before[q]
               PROVE  /\ t # taskOf(q)
                      /\ known(t)
                      /\ \A i, j \in DOMAIN queue' : queue'[i] = taskOf(q) /\ queue'[j] = t => j < i
                      /\ taskOf(q) = h \/ taskOf(q) \in finished => t \in finished \cup discarded
    BY <1>1, <1>6, <1>9, <1>10 DEF BarrierBehind
  <2>1. /\ t # taskOf(q) /\ known(t)
        /\ \A i, j \in DOMAIN queue : queue[i] = taskOf(q) /\ queue[j] = t => j < i
        /\ taskOf(q) \in finished => t \in finished \cup discarded
    BY DEF BarrierInv, BarrierBehind
  <2>2. ASSUME NEW i \in DOMAIN queue', NEW j \in DOMAIN queue', queue'[i] = taskOf(q), queue'[j] = t
        PROVE  j < i
    <3>1. j + 1 < i + 1
      BY <1>4, <2>1, <2>2
    <3> QED BY <1>4, <3>1
  <2>3. ASSUME taskOf(q) = h PROVE t \in finished \cup discarded
    <3>1. ~queued(t)
      BY <1>4, <2>1, <2>3 DEF queued
    <3> QED BY <1>5, <2>1, <3>1 DEF known
  <2> QED BY <2>1, <2>2, <2>3
<1> QED BY <1>11, <1>12 DEF BarrierInv

\* A task ends, and with it the wait of whoever waits for it.
LEMMA ExecuteStep ==
  ASSUME IInv, BarrierInv, NEW w \in Workers, ExecuteTask(w)
  PROVE  BarrierInv'
<1> USE DEF runnerVars, posterVars, poolVars
<1> DEFINE x == cur[w]
<1>1. /\ UNCHANGED <<queue, discarded, before, calls, mode, ppc>>
      /\ wpc[w] = "exec" /\ wpc' = [wpc EXCEPT ![w] = "check"]
      /\ cur' = [cur EXCEPT ![w] = NoTask] /\ finished' = finished \cup {x}
  BY DEF ExecuteTask, moveWorker
<1>2. /\ wpc \in [Workers -> WorkerStates] /\ cur \in [Workers -> Task \cup {NoTask}]
  BY DEF IInv, TypeOK
<1>3. \A v \in Workers : wpc[v] = "exec" => v = w
  BY <1>1 DEF IInv, OneRunLoop, TokenStates
<1>4. \A t : executing(t) <=> t = x
  BY <1>1, <1>3 DEF executing
<1> HIDE DEF x
<1>5. \A t : ~executing(t)'
  BY <1>1, <1>2, <1>3 DEF executing
<1>6. \A t : queued(t)' <=> queued(t)
  BY <1>1 DEF queued
<1>7. \A t : known(t)' <=> known(t)
  BY <1>1, <1>4, <1>5, <1>6 DEF known
<1>8. \A q \in Posters : taskOf(q)' = taskOf(q)
  BY <1>1 DEF taskOf
<1>9. PushedOnce'
  BY <1>1, <1>7 DEF BarrierInv, PushedOnce
<1>10. BarrierBehind'
  <2> SUFFICES ASSUME NEW q \in Posters, mode[q] = "waitIdle", NEW t \in before[q]
               PROVE  /\ t # taskOf(q)
                      /\ known(t)
                      /\ \A i, j \in DOMAIN queue : queue[i] = taskOf(q) /\ queue[j] = t => j < i
                      /\ taskOf(q) \in finished' => t \in finished' \cup discarded
    BY <1>1, <1>5, <1>7, <1>8 DEF BarrierBehind
  <2>1. /\ t # taskOf(q) /\ known(t)
        /\ \A i, j \in DOMAIN queue : queue[i] = taskOf(q) /\ queue[j] = t => j < i
        /\ executing(taskOf(q)) \/ taskOf(q) \in finished => t \in finished \cup discarded
    BY DEF BarrierInv, BarrierBehind
  <2> QED BY <1>1, <1>4, <2>1
<1> QED BY <1>9, <1>10 DEF BarrierInv

\* Shutdown discards the queue, barriers and what they wait for alike.
LEMMA ClearStep ==
  ASSUME IInv, BarrierInv, ClearQueue
  PROVE  BarrierInv'
<1> USE DEF posterVars, workerVars, poolVars
<1>1. /\ UNCHANGED <<finished, before, calls, mode, ppc, wpc, cur>>
      /\ queue' = << >> /\ discarded' = discarded \cup {queue[i] : i \in 1..Len(queue)}
  BY DEF ClearQueue
<1>2. queue \in Seq(Task)
  BY DEF IInv, TypeOK
<1>3. \A t : queued(t) <=> t \in {queue[i] : i \in 1..Len(queue)}
  BY <1>2 DEF queued
<1>4. \A t : ~queued(t)'
  BY <1>1 DEF queued
<1>5. \A t : executing(t)' <=> executing(t)
  BY <1>1 DEF executing
<1>6. \A t : known(t)' <=> known(t)
  BY <1>1, <1>3, <1>4, <1>5 DEF known
<1>7. \A q \in Posters : taskOf(q)' = taskOf(q)
  BY <1>1 DEF taskOf
<1>8. PushedOnce'
  BY <1>1, <1>6 DEF BarrierInv, PushedOnce
<1>9. BarrierBehind'
  BY <1>1, <1>5, <1>6, <1>7 DEF BarrierInv, BarrierBehind
<1> QED BY <1>8, <1>9 DEF BarrierInv

\* Every step keeps the barriers behind what they wait for.
LEMMA NextBarrier == IInv /\ BarrierInv /\ [Next]_vars => BarrierInv'
<1> SUFFICES ASSUME IInv, BarrierInv, [Next]_vars PROVE BarrierInv'
  OBVIOUS
<1> USE DEF runnerVars, posterVars, workerVars, poolVars, histVars
<1>1. wpc \in [Workers -> WorkerStates] /\ ppc \in [Posters -> PosterStates]
  BY DEF IInv, TypeOK
<1>2. ASSUME NEW p \in Posters, PostTask(p) \/ WaitIdle(p) PROVE BarrierInv'
  BY <1>2, BeginStep
<1>3. ASSUME NEW p \in Posters,
             \/ PostBarrier(p) \/ EnsureRunning(p) \/ PosterPostsRunLoop(p)
             \/ WaitIdleDone(p) \/ WaitIdleCancelled(p)
      PROVE  BarrierInv'
  <2>1. /\ UNCHANGED <<queue, finished, discarded, before, calls, mode, cur, wpc>>
        /\ \E to : ppc' = [ppc EXCEPT ![p] = to] /\ (to = "push" => ppc[p] = "barrier") /\ to # "barrier"
    BY <1>3 DEF PostBarrier, EnsureRunning, PosterPostsRunLoop, WaitIdleDone, WaitIdleCancelled,
                afterPost
  <2> QED BY <1>1, <2>1, QuietStep
<1>4. ASSUME NEW p \in Posters, Push(p) PROVE BarrierInv'
  BY <1>4, PushStep
<1>5. ASSUME NEW w \in Workers,
             \/ TakeRunLoop(w) \/ SanityCheck(w) \/ CheckMore(w)
             \/ WorkerPostsRunLoop(w) \/ GoIdle(w) \/ ScheduleNextIfNeeded(w)
             \/ ReacquireToken(w) \/ (PopTask(w) /\ queue = << >>)
      PROVE  BarrierInv'
  <2>1. /\ UNCHANGED <<queue, finished, discarded, before, calls, mode, cur, ppc>>
        /\ \E to : wpc' = [wpc EXCEPT ![w] = to] /\ to # "exec" /\ wpc[w] # "exec"
    BY <1>5 DEF TakeRunLoop, SanityCheck, CheckMore, WorkerPostsRunLoop, GoIdle,
                ScheduleNextIfNeeded, ReacquireToken, PopTask, moveWorker
  <2> QED BY <1>1, <2>1, QuietStep
<1>6. ASSUME NEW w \in Workers, PopTask(w), queue # << >> PROVE BarrierInv'
  BY <1>6, PopStep
<1>7. ASSUME NEW w \in Workers, ExecuteTask(w) PROVE BarrierInv'
  BY <1>7, ExecuteStep
<1>8. CASE ClearQueue
  BY <1>8, ClearStep
<1>9. CASE Shutdown \/ PoolShutdown \/ PoolClear \/ UNCHANGED vars
  <2>1. UNCHANGED <<queue, finished, discarded, before, calls, mode, cur, wpc, ppc>>
    BY <1>9 DEF Shutdown, PoolShutdown, PoolClear, vars
  <2> QED BY <2>1, QuietStep
<1> QED BY <1>2, <1>3, <1>4, <1>5, <1>6, <1>7, <1>8, <1>9 DEF Next, PosterInCall, RunLoop

\* When the barrier of a WaitIdle has run, everything that the runner had accepted
\* when WaitIdle was called has run or was discarded by Shutdown.
THEOREM WaitIdleIsBarrier == Safety => []WaitIdleBarrier
<1>1. Init => BarrierInv
  BY DEF Init, BarrierInv, PushedOnce, BarrierBehind, known, queued, executing
<1>2. BarrierInv => WaitIdleBarrier
  BY DEF BarrierInv, BarrierBehind, WaitIdleBarrier
<1> QED BY <1>1, <1>2, NextBarrier, Invariance, PTL DEF Safety

=============================================================================
