-------------------------- MODULE WorkerPoolProofs --------------------------
(***************************************************************************)
(* Proofs about WorkerPool for any finite number of posters and workers,   *)
(* any stoppers and any bounds: its type invariant, that no wake-up is     *)
(* lost, that the counters StopGraceful polls are exact, that a graceful   *)
(* stop drains the queue and that a stopped pool has no live worker.       *)
(***************************************************************************)
EXTENDS WorkerPool, FiniteSetTheorems, TLAPS

-----------------------------------------------------------------------------
(* Counting the goroutines at a point of the code.                         *)

\* What one goroutine's move adds to the number of those at the given points.
delta(from, to, points) ==
  (IF to \in points THEN 1 ELSE 0) - (IF from \in points THEN 1 ELSE 0)

\* Two finite sets that agree but for one element differ by at most one.
LEMMA CountMoves ==
  ASSUME NEW F, NEW G, NEW x, IsFiniteSet(F), IsFiniteSet(G), F \ {x} = G \ {x}
  PROVE  /\ Cardinality(F) \in Nat
         /\ Cardinality(G) \in Nat
         /\ Cardinality(G) = Cardinality(F) + (IF x \in G THEN 1 ELSE 0)
                                            - (IF x \in F THEN 1 ELSE 0)
<1>1. Cardinality(F) \in Nat /\ Cardinality(G) \in Nat
  BY FS_CardinalityType
<1>2. CASE x \in G /\ x \notin F
  <2>1. G = F \cup {x}
    BY <1>2
  <2>2. Cardinality(G) = Cardinality(F) + 1
    BY <1>2, <2>1, FS_AddElement
  <2> QED
    BY <1>1, <1>2, <2>2
<1>3. CASE x \notin G /\ x \in F
  <2>1. F = G \cup {x}
    BY <1>3
  <2>2. Cardinality(F) = Cardinality(G) + 1
    BY <1>3, <2>1, FS_AddElement
  <2> QED
    BY <1>1, <1>3, <2>2
<1>4. CASE x \in G <=> x \in F
  <2>1. F = G
    BY <1>4
  <2> QED
    BY <1>1, <1>4, <2>1
<1> QED
  BY <1>2, <1>3, <1>4

\* How a step of one worker changes the number of workers at some points.
LEMMA WorkerMoves ==
  ASSUME TypeOK, NEW w \in Workers, NEW to, wpc' = [wpc EXCEPT ![w] = to],
         NEW points
  PROVE  /\ workersAt(points) \in Nat
         /\ workersAt(points)' \in Nat
         /\ workersAt(points)' = workersAt(points) + delta(wpc[w], to, points)
<1> DEFINE F == {v \in Workers : wpc[v] \in points}
           G == {v \in Workers : wpc'[v] \in points}
<1>1. IsFiniteSet(F) /\ IsFiniteSet(G)
  BY FS_Subset, WorkersAssumption
<1>2. /\ F \ {w} = G \ {w}
      /\ w \in F <=> wpc[w] \in points
      /\ w \in G <=> to \in points
  BY DEF TypeOK
<1>3. workersAt(points) = Cardinality(F) /\ workersAt(points)' = Cardinality(G)
  BY DEF workersAt
<1> HIDE DEF F, G
<1> QED
  BY <1>1, <1>2, <1>3, CountMoves DEF delta

\* How a step of one poster changes the number of posters at some points.
LEMMA PosterMoves ==
  ASSUME TypeOK, NEW p \in Posters, NEW to, ppc' = [ppc EXCEPT ![p] = to],
         NEW points
  PROVE  /\ postersAt(points) \in Nat
         /\ postersAt(points)' \in Nat
         /\ postersAt(points)' = postersAt(points) + delta(ppc[p], to, points)
<1> DEFINE F == {q \in Posters : ppc[q] \in points}
           G == {q \in Posters : ppc'[q] \in points}
<1>1. IsFiniteSet(F) /\ IsFiniteSet(G)
  BY FS_Subset, PostersAssumption
<1>2. /\ F \ {p} = G \ {p}
      /\ p \in F <=> ppc[p] \in points
      /\ p \in G <=> to \in points
  BY DEF TypeOK
<1>3. postersAt(points) = Cardinality(F) /\ postersAt(points)' = Cardinality(G)
  BY DEF postersAt
<1> HIDE DEF F, G
<1> QED
  BY <1>1, <1>2, <1>3, CountMoves DEF delta

\* The counts are naturals, and no more workers sleep than there are.
LEMMA CountsAreNat ==
  /\ \A points : workersAt(points) \in Nat /\ postersAt(points) \in Nat
  /\ \A points : workersAt(points) <= Cardinality(Workers)
  /\ Cardinality(Workers) \in Nat
BY FS_Subset, FS_CardinalityType, WorkersAssumption, PostersAssumption
   DEF workersAt, postersAt

-----------------------------------------------------------------------------
(* The invariant holds initially and every step keeps it.                  *)

\* A new pool, not started and with nothing posted, satisfies the invariant.
LEMMA InitIInv == Init => IInv
<1> SUFFICES ASSUME Init PROVE IInv
  OBVIOUS
<1>1. TypeOK
  <2>1. /\ shuttingDown \in BOOLEAN /\ dmStopped \in BOOLEAN /\ running \in BOOLEAN
        /\ cancelled \in BOOLEAN /\ calm \in [Stoppers -> BOOLEAN]
    BY Zenon DEF Init
  <2>2. signal \in 0..SignalCap
    BY CountsAreNat DEF Init, SignalCap
  <2>3. starts \in 0..MaxStarts /\ posts \in [Posters -> 0..MaxPosts]
    BY BoundsAssumption DEF Init
  <2>4. /\ ready \subseteq Task /\ executed \subseteq Task
        /\ metricQueued \in Int /\ metricActive \in Int
        /\ atStop \in [Stoppers -> SUBSET Task]
        /\ hand \in [Workers -> Task \cup {NoTask}]
    BY DEF Init
  <2>5. /\ ppc \in [Posters -> PosterStates]
        /\ wpc \in [Workers -> WorkerStates]
    BY DEF Init, PosterStates, WorkerStates
  <2>6. /\ spc \in [Stoppers -> StopperStates]
        /\ kind \in [Stoppers -> {"stop", "graceful"}]
        /\ result \in [Stoppers -> {"none", "nil", "error"}]
    BY DEF Init, StopperStates
  <2> QED
    BY <2>1, <2>2, <2>3, <2>4, <2>5, <2>6 DEF TypeOK
<1>2. IsFiniteSet(ready) /\ Cardinality(ready) = 0
  BY FS_EmptySet DEF Init
<1>3. TasksBegun /\ ClearIsForced
  BY DEF Init, TasksBegun, ClearIsForced
<1>4. NoLostWakeup
  BY <1>2, CountsAreNat DEF Init, NoLostWakeup
<1>5. /\ workersAt({"exec", "end"}) = 0
      /\ workersAt({"uncount"}) = 0
      /\ postersAt({"count"}) = 0
  <2>1. /\ {w \in Workers : wpc[w] \in {"exec", "end"}} = {}
        /\ {w \in Workers : wpc[w] \in {"uncount"}} = {}
        /\ {p \in Posters : ppc[p] \in {"count"}} = {}
    BY DEF Init
  <2> QED
    BY <2>1, FS_EmptySet DEF workersAt, postersAt
<1>6. MetricsExact
  BY <1>2, <1>5 DEF Init, MetricsExact
<1> QED
  BY <1>1, <1>2, <1>3, <1>4, <1>6 DEF IInv

\* Every step keeps the types, and a finite queue of tasks that were begun.
LEMMA NextType ==
  ASSUME IInv, [Next]_vars
  PROVE  TypeOK' /\ TasksBegun' 
<1> USE DEF schedVars, poolVars, posterVars, workerVars, stopVars, histVars,
            TypeOK, PosterStates, WorkerStates, StopperStates, TasksBegun, Task
<1>1. TypeOK /\ TasksBegun /\ SignalCap \in Nat /\ MaxPosts \in Nat /\ MaxStarts \in Nat
  BY CountsAreNat, BoundsAssumption DEF IInv, SignalCap
<1>2. ASSUME NEW p \in Posters, PostInternal(p)
      PROVE  TypeOK' /\ TasksBegun'
  BY <1>1, <1>2 DEF PostInternal
<1>3. ASSUME NEW p \in Posters, PushReady(p)
      PROVE  TypeOK' /\ TasksBegun'
  BY <1>1, <1>3 DEF PushReady, taskOf
<1>4. ASSUME NEW p \in Posters, CountQueued(p)
      PROVE  TypeOK' /\ TasksBegun'
  BY <1>1, <1>4 DEF CountQueued
<1>5. ASSUME NEW p \in Posters, SendSignal(p)
      PROVE  TypeOK' /\ TasksBegun'
  BY <1>1, <1>5 DEF SendSignal
<1>6. ASSUME Start
      PROVE  TypeOK' /\ TasksBegun'
  <2>1. CASE running
    BY <1>1, <1>6, <2>1 DEF Start
  <2>2. CASE ~running
    <3>1. running' = TRUE /\ cancelled' = FALSE
      BY <1>6, <2>2 DEF Start
    <3>2. wpc' = [v \in Workers |-> "pop"] /\ starts' \in 0..MaxStarts
      BY <1>1, <1>6, <2>2 DEF Start
    <3> QED
      BY <1>1, <1>6, <3>1, <3>2 DEF Start
  <2> QED
    BY <2>1, <2>2
<1>7. ASSUME NEW w \in Workers, PopReady(w)
      PROVE  TypeOK' /\ TasksBegun'
  BY <1>1, <1>7 DEF PopReady, moveWorker
<1>8. ASSUME NEW w \in Workers, ReceiveSignal(w)
      PROVE  TypeOK' /\ TasksBegun'
  BY <1>1, <1>8 DEF ReceiveSignal, moveWorker
<1>9. ASSUME NEW w \in Workers, WorkerExits(w)
      PROVE  TypeOK' /\ TasksBegun'
  BY <1>1, <1>9 DEF WorkerExits, moveWorker
<1>10. ASSUME NEW w \in Workers, CountDequeued(w)
      PROVE  TypeOK' /\ TasksBegun'
  BY <1>1, <1>10 DEF CountDequeued, moveWorker
<1>11. ASSUME NEW w \in Workers, OnTaskStart(w)
      PROVE  TypeOK' /\ TasksBegun'
  BY <1>1, <1>11 DEF OnTaskStart, moveWorker
<1>12. ASSUME NEW w \in Workers, RunTask(w)
      PROVE  TypeOK' /\ TasksBegun'
  BY <1>1, <1>12 DEF RunTask, moveWorker
<1>13. ASSUME NEW w \in Workers, OnTaskEnd(w)
      PROVE  TypeOK' /\ TasksBegun'
  BY <1>1, <1>13 DEF OnTaskEnd, moveWorker
<1>14. ASSUME NEW s \in Stoppers, Stop(s)
      PROVE  TypeOK' /\ TasksBegun'
  BY <1>1, <1>14 DEF Stop, moveStopper
<1>15. ASSUME NEW s \in Stoppers, StopGraceful(s)
      PROVE  TypeOK' /\ TasksBegun'
  BY <1>1, <1>15 DEF StopGraceful, moveStopper
<1>16. ASSUME NEW s \in Stoppers, RaiseFlag(s)
      PROVE  TypeOK' /\ TasksBegun'
  BY <1>1, <1>16 DEF RaiseFlag, settled, moveStopper
<1>17. ASSUME NEW s \in Stoppers, StopDelayManager(s)
      PROVE  TypeOK' /\ TasksBegun'
  BY <1>1, <1>17 DEF StopDelayManager, moveStopper
<1>18. ASSUME NEW s \in Stoppers, PollQueued(s)
      PROVE  TypeOK' /\ TasksBegun'
  BY <1>1, <1>18 DEF PollQueued, moveStopper
<1>19. ASSUME NEW s \in Stoppers, PollActive(s)
      PROVE  TypeOK' /\ TasksBegun'
  BY <1>1, <1>19 DEF PollActive, moveStopper
<1>20. ASSUME NEW s \in Stoppers, DeadlinePasses(s)
      PROVE  TypeOK' /\ TasksBegun'
  BY <1>1, <1>20 DEF DeadlinePasses, moveStopper
<1>21. ASSUME NEW s \in Stoppers, ClearReady(s)
      PROVE  TypeOK' /\ TasksBegun'
  BY <1>1, <1>21 DEF ClearReady, moveStopper
<1>22. ASSUME NEW s \in Stoppers, ZeroQueued(s)
      PROVE  TypeOK' /\ TasksBegun'
  BY <1>1, <1>22 DEF ZeroQueued, moveStopper
<1>23. ASSUME NEW s \in Stoppers, LookAtRunning(s)
      PROVE  TypeOK' /\ TasksBegun'
  BY <1>1, <1>23 DEF LookAtRunning, moveStopper
<1>24. ASSUME NEW s \in Stoppers, Cancel(s)
      PROVE  TypeOK' /\ TasksBegun'
  BY <1>1, <1>24 DEF Cancel, moveStopper
<1>25. ASSUME NEW s \in Stoppers, Join(s)
      PROVE  TypeOK' /\ TasksBegun'
  BY <1>1, <1>25 DEF Join, moveStopper
<1>26. ASSUME NEW s \in Stoppers, UnsetRunning(s)
      PROVE  TypeOK' /\ TasksBegun'
  BY <1>1, <1>26 DEF UnsetRunning, moveStopper
<1>27. CASE UNCHANGED vars
  BY <1>1, <1>27 DEF vars
<1>28. ASSUME CallerCancels
      PROVE  TypeOK' /\ TasksBegun'
  BY <1>1, <1>28 DEF CallerCancels
<1> QED
  BY <1>2, <1>3, <1>4, <1>5, <1>6, <1>7, <1>8, <1>9, <1>10, <1>11,
     <1>12, <1>13, <1>14, <1>15, <1>16, <1>17, <1>18, <1>19, <1>20, <1>21,
     <1>22, <1>23, <1>24, <1>25, <1>26, <1>27, <1>28
  DEF Next, PosterInCall, WorkerLoop, StopperInCall

\* Every step keeps the queue finite, and the forced Clear to those who may.
LEMMA NextQueue ==
  ASSUME IInv, [Next]_vars
  PROVE  IsFiniteSet(ready') /\ ClearIsForced' 
<1> USE DEF schedVars, poolVars, posterVars, workerVars, stopVars, histVars,
            TypeOK, StopperStates, ClearIsForced
<1>1. TypeOK /\ IsFiniteSet(ready) /\ ClearIsForced
  BY DEF IInv
<1>2. ASSUME NEW p \in Posters, PostInternal(p)
      PROVE  IsFiniteSet(ready') /\ ClearIsForced'
  BY <1>1, <1>2 DEF PostInternal
<1>3. ASSUME NEW p \in Posters, PushReady(p)
      PROVE  IsFiniteSet(ready') /\ ClearIsForced'
  BY <1>1, <1>3, FS_AddElement DEF PushReady
<1>4. ASSUME NEW p \in Posters, CountQueued(p)
      PROVE  IsFiniteSet(ready') /\ ClearIsForced'
  BY <1>1, <1>4 DEF CountQueued
<1>5. ASSUME NEW p \in Posters, SendSignal(p)
      PROVE  IsFiniteSet(ready') /\ ClearIsForced'
  BY <1>1, <1>5 DEF SendSignal
<1>6. ASSUME Start
      PROVE  IsFiniteSet(ready') /\ ClearIsForced'
  BY <1>1, <1>6 DEF Start
<1>7. ASSUME NEW w \in Workers, PopReady(w)
      PROVE  IsFiniteSet(ready') /\ ClearIsForced'
  BY <1>1, <1>7, FS_RemoveElement DEF PopReady, moveWorker
<1>8. ASSUME NEW w \in Workers, ReceiveSignal(w)
      PROVE  IsFiniteSet(ready') /\ ClearIsForced'
  BY <1>1, <1>8 DEF ReceiveSignal, moveWorker
<1>9. ASSUME NEW w \in Workers, WorkerExits(w)
      PROVE  IsFiniteSet(ready') /\ ClearIsForced'
  BY <1>1, <1>9 DEF WorkerExits, moveWorker
<1>10. ASSUME NEW w \in Workers, CountDequeued(w)
      PROVE  IsFiniteSet(ready') /\ ClearIsForced'
  BY <1>1, <1>10 DEF CountDequeued, moveWorker
<1>11. ASSUME NEW w \in Workers, OnTaskStart(w)
      PROVE  IsFiniteSet(ready') /\ ClearIsForced'
  BY <1>1, <1>11 DEF OnTaskStart, moveWorker
<1>12. ASSUME NEW w \in Workers, RunTask(w)
      PROVE  IsFiniteSet(ready') /\ ClearIsForced'
  BY <1>1, <1>12 DEF RunTask, moveWorker
<1>13. ASSUME NEW w \in Workers, OnTaskEnd(w)
      PROVE  IsFiniteSet(ready') /\ ClearIsForced'
  BY <1>1, <1>13 DEF OnTaskEnd, moveWorker
<1>14. ASSUME NEW s \in Stoppers, Stop(s)
      PROVE  IsFiniteSet(ready') /\ ClearIsForced'
  BY <1>1, <1>14 DEF Stop, moveStopper
<1>15. ASSUME NEW s \in Stoppers, StopGraceful(s)
      PROVE  IsFiniteSet(ready') /\ ClearIsForced'
  BY <1>1, <1>15 DEF StopGraceful, moveStopper
<1>16. ASSUME NEW s \in Stoppers, RaiseFlag(s)
      PROVE  IsFiniteSet(ready') /\ ClearIsForced'
  BY <1>1, <1>16 DEF RaiseFlag, settled, moveStopper
<1>17. ASSUME NEW s \in Stoppers, StopDelayManager(s)
      PROVE  IsFiniteSet(ready') /\ ClearIsForced'
  BY <1>1, <1>17 DEF StopDelayManager, moveStopper
<1>18. ASSUME NEW s \in Stoppers, PollQueued(s)
      PROVE  IsFiniteSet(ready') /\ ClearIsForced'
  BY <1>1, <1>18 DEF PollQueued, moveStopper
<1>19. ASSUME NEW s \in Stoppers, PollActive(s)
      PROVE  IsFiniteSet(ready') /\ ClearIsForced'
  BY <1>1, <1>19 DEF PollActive, moveStopper
<1>20. ASSUME NEW s \in Stoppers, DeadlinePasses(s)
      PROVE  IsFiniteSet(ready') /\ ClearIsForced'
  BY <1>1, <1>20 DEF DeadlinePasses, moveStopper
<1>21. ASSUME NEW s \in Stoppers, ClearReady(s)
      PROVE  IsFiniteSet(ready') /\ ClearIsForced'
  BY <1>1, <1>21, FS_EmptySet DEF ClearReady, moveStopper
<1>22. ASSUME NEW s \in Stoppers, ZeroQueued(s)
      PROVE  IsFiniteSet(ready') /\ ClearIsForced'
  BY <1>1, <1>22 DEF ZeroQueued, moveStopper
<1>23. ASSUME NEW s \in Stoppers, LookAtRunning(s)
      PROVE  IsFiniteSet(ready') /\ ClearIsForced'
  BY <1>1, <1>23 DEF LookAtRunning, moveStopper
<1>24. ASSUME NEW s \in Stoppers, Cancel(s)
      PROVE  IsFiniteSet(ready') /\ ClearIsForced'
  BY <1>1, <1>24 DEF Cancel, moveStopper
<1>25. ASSUME NEW s \in Stoppers, Join(s)
      PROVE  IsFiniteSet(ready') /\ ClearIsForced'
  BY <1>1, <1>25 DEF Join, moveStopper
<1>26. ASSUME NEW s \in Stoppers, UnsetRunning(s)
      PROVE  IsFiniteSet(ready') /\ ClearIsForced'
  BY <1>1, <1>26 DEF UnsetRunning, moveStopper
<1>27. CASE UNCHANGED vars
  BY <1>1, <1>27 DEF vars
<1>28. ASSUME CallerCancels
      PROVE  IsFiniteSet(ready') /\ ClearIsForced'
  BY <1>1, <1>28 DEF CallerCancels
<1> QED
  BY <1>2, <1>3, <1>4, <1>5, <1>6, <1>7, <1>8, <1>9, <1>10, <1>11,
     <1>12, <1>13, <1>14, <1>15, <1>16, <1>17, <1>18, <1>19, <1>20, <1>21,
     <1>22, <1>23, <1>24, <1>25, <1>26, <1>27, <1>28
  DEF Next, PosterInCall, WorkerLoop, StopperInCall

\* Every step keeps a wake-up for every queued task or for every sleeper.
LEMMA NextWakeup ==
  ASSUME IInv, [Next]_vars
  PROVE  NoLostWakeup' 
<1> USE DEF schedVars, poolVars, posterVars, workerVars, stopVars, histVars, NoLostWakeup
<1>1. /\ TypeOK /\ NoLostWakeup /\ IsFiniteSet(ready)
      /\ signal \in Nat /\ SignalCap \in Nat /\ Cardinality(ready) \in Nat
      /\ workersAt({"select"}) \in Nat /\ workersAt({"pop"}) \in Nat
      /\ postersAt({"count", "signal"}) \in Nat
  BY CountsAreNat, FS_CardinalityType DEF IInv, SignalCap, TypeOK
<1>2. IsFiniteSet(ready')
  BY NextQueue
<1>3. /\ \A points : workersAt(points)' \in Nat
      /\ \A points : postersAt(points)' \in Nat
  BY FS_Subset, FS_CardinalityType, WorkersAssumption, PostersAssumption
     DEF workersAt, postersAt
<1>4. ASSUME NEW p \in Posters, PostInternal(p)
      PROVE  NoLostWakeup'
  <2>1. ppc' = [ppc EXCEPT ![p] = IF shuttingDown THEN "idle" ELSE "push"] /\ UNCHANGED wpc
    BY <1>4 DEF PostInternal
  <2>2. UNCHANGED <<workersAt({"select"}), workersAt({"pop"})>>
    BY <2>1 DEF workersAt
  <2>3. postersAt({"count", "signal"})' =
          postersAt({"count", "signal"}) + delta(ppc[p], IF shuttingDown THEN "idle" ELSE "push", {"count", "signal"})
    BY <1>1, <2>1, PosterMoves
  <2>4. postersAt({"count", "signal"})' = postersAt({"count", "signal"})
    BY <1>1, <1>4, <2>3 DEF PostInternal, delta
  <2> QED
    BY <1>1, <1>4, <2>2, <2>4 DEF PostInternal
<1>5. ASSUME NEW p \in Posters, PushReady(p)
      PROVE  NoLostWakeup'
  <2>1. ppc' = [ppc EXCEPT ![p] = "count"] /\ UNCHANGED wpc
    BY <1>5 DEF PushReady, taskOf
  <2>2. UNCHANGED <<workersAt({"select"}), workersAt({"pop"})>>
    BY <2>1 DEF workersAt
  <2>3. postersAt({"count", "signal"})' =
          postersAt({"count", "signal"}) + delta(ppc[p], "count", {"count", "signal"})
    BY <1>1, <2>1, PosterMoves
  <2>4. postersAt({"count", "signal"})' = postersAt({"count", "signal"}) + 1
    BY <1>1, <1>5, <2>3 DEF PushReady, delta
  <2>5. Cardinality(ready') <= Cardinality(ready) + 1
    <3>1. ready' = ready \cup {taskOf(p)}
      BY <1>5 DEF PushReady
    <3>2. CASE taskOf(p) \in ready
      <4>1. ready' = ready
        BY <3>1, <3>2
      <4> QED
        BY <1>1, <4>1
    <3>3. CASE taskOf(p) \notin ready
      <4>1. Cardinality(ready') = Cardinality(ready) + 1
        BY <1>1, <3>1, <3>3, FS_AddElement
      <4> QED
        BY <1>1, <4>1
    <3> QED
      BY <3>2, <3>3
  <2>6. Cardinality(ready') \in Nat
    BY <1>2, FS_CardinalityType
  <2> QED
    BY <1>1, <1>5, <2>2, <2>4, <2>5, <2>6 DEF PushReady
<1>6. ASSUME NEW p \in Posters, CountQueued(p)
      PROVE  NoLostWakeup'
  <2>1. ppc' = [ppc EXCEPT ![p] = "signal"] /\ UNCHANGED wpc
    BY <1>6 DEF CountQueued
  <2>2. UNCHANGED <<workersAt({"select"}), workersAt({"pop"})>>
    BY <2>1 DEF workersAt
  <2>3. postersAt({"count", "signal"})' =
          postersAt({"count", "signal"}) + delta(ppc[p], "signal", {"count", "signal"})
    BY <1>1, <2>1, PosterMoves
  <2>4. postersAt({"count", "signal"})' = postersAt({"count", "signal"})
    BY <1>1, <1>6, <2>3 DEF CountQueued, delta
  <2> QED
    BY <1>1, <1>6, <2>2, <2>4 DEF CountQueued
<1>7. ASSUME NEW p \in Posters, SendSignal(p)
      PROVE  NoLostWakeup'
  <2>1. ppc' = [ppc EXCEPT ![p] = "idle"] /\ UNCHANGED wpc
    BY <1>7 DEF SendSignal
  <2>2. UNCHANGED <<workersAt({"select"}), workersAt({"pop"})>>
    BY <2>1 DEF workersAt
  <2>3. postersAt({"count", "signal"})' =
          postersAt({"count", "signal"}) + delta(ppc[p], "idle", {"count", "signal"})
    BY <1>1, <2>1, PosterMoves
  <2>4. postersAt({"count", "signal"})' = postersAt({"count", "signal"}) - 1
    BY <1>1, <1>7, <2>3 DEF SendSignal, delta
  <2>5. CASE signal < SignalCap
    BY <1>1, <1>7, <2>2, <2>4, <2>5 DEF SendSignal
  <2>6. CASE ~(signal < SignalCap)
    <3>1. signal' = signal /\ workersAt({"select"}) <= signal
      BY <1>1, <1>7, <2>6, CountsAreNat DEF SendSignal, SignalCap
    <3> QED
      BY <2>2, <3>1
  <2> QED
    BY <2>5, <2>6
<1>8. ASSUME Start
      PROVE  NoLostWakeup'
  <2>1. CASE running
    BY <1>1, <1>8, <2>1 DEF Start, workersAt, postersAt
  <2>2. CASE ~running
    <3>1. {w \in Workers : wpc'[w] \in {"select"}} = {}
      BY <1>8, <2>2 DEF Start
    <3>2. workersAt({"select"})' = 0 /\ signal' = signal
      BY <1>8, <3>1, FS_EmptySet DEF Start, workersAt
    <3> QED
      BY <1>1, <3>2
  <2> QED
    BY <2>1, <2>2
<1>9. ASSUME NEW w \in Workers, PopReady(w)
      PROVE  NoLostWakeup'
  <2>1. UNCHANGED <<ppc, signal>>
    BY <1>9 DEF PopReady
  <2>2. UNCHANGED postersAt({"count", "signal"})
    BY <2>1 DEF postersAt
  <2>3. CASE ready = {} /\ UNCHANGED ready
    <3>1. Cardinality(ready') = 0
      BY <2>3, FS_EmptySet
    <3>2. postersAt({"count", "signal"})' \in Nat /\ workersAt({"pop"})' \in Nat
      BY <1>3
    <3> QED
      BY <1>1, <2>1, <3>1, <3>2
  <2>4. ASSUME NEW t \in ready, ready' = ready \ {t},
               wpc' = [wpc EXCEPT ![w] = "uncount"]
        PROVE  NoLostWakeup'
    <3>1. /\ workersAt({"select"})' = workersAt({"select"}) + delta(wpc[w], "uncount", {"select"})
          /\ workersAt({"pop"})' = workersAt({"pop"}) + delta(wpc[w], "uncount", {"pop"})
      BY <1>1, <2>4, WorkerMoves
    <3>2. Cardinality(ready') = Cardinality(ready) - 1
      BY <1>1, <2>4, FS_RemoveElement
    <3> QED
      BY <1>1, <1>9, <2>1, <2>2, <3>1, <3>2 DEF PopReady, delta
  <2> QED
    BY <1>9, <2>3, <2>4 DEF PopReady, moveWorker
<1>10. ASSUME NEW w \in Workers, ReceiveSignal(w)
      PROVE  NoLostWakeup'
  <2>1. wpc' = [wpc EXCEPT ![w] = "pop"] /\ UNCHANGED ppc
    BY <1>10 DEF ReceiveSignal, moveWorker
  <2>2. UNCHANGED postersAt({"count", "signal"})
    BY <2>1 DEF postersAt
  <2>3. /\ workersAt({"select"})' = workersAt({"select"}) + delta(wpc[w], "pop", {"select"})
        /\ workersAt({"pop"})' = workersAt({"pop"}) + delta(wpc[w], "pop", {"pop"})
    BY <1>1, <2>1, WorkerMoves
  <2> QED
    BY <1>1, <1>10, <2>2, <2>3 DEF ReceiveSignal, delta
<1>11. ASSUME NEW w \in Workers, WorkerExits(w)
      PROVE  NoLostWakeup'
  <2>1. wpc' = [wpc EXCEPT ![w] = "off"] /\ UNCHANGED ppc
    BY <1>11 DEF WorkerExits, moveWorker
  <2>2. UNCHANGED postersAt({"count", "signal"})
    BY <2>1 DEF postersAt
  <2>3. /\ workersAt({"select"})' = workersAt({"select"}) + delta(wpc[w], "off", {"select"})
        /\ workersAt({"pop"})' = workersAt({"pop"}) + delta(wpc[w], "off", {"pop"})
    BY <1>1, <2>1, WorkerMoves
  <2> QED
    BY <1>1, <1>11, <2>2, <2>3 DEF WorkerExits, delta
<1>12. ASSUME NEW w \in Workers, CountDequeued(w)
      PROVE  NoLostWakeup'
  <2>1. wpc' = [wpc EXCEPT ![w] = "start"] /\ UNCHANGED ppc
    BY <1>12 DEF CountDequeued, moveWorker
  <2>2. UNCHANGED postersAt({"count", "signal"})
    BY <2>1 DEF postersAt
  <2>3. /\ workersAt({"select"})' = workersAt({"select"}) + delta(wpc[w], "start", {"select"})
        /\ workersAt({"pop"})' = workersAt({"pop"}) + delta(wpc[w], "start", {"pop"})
    BY <1>1, <2>1, WorkerMoves
  <2> QED
    BY <1>1, <1>12, <2>2, <2>3 DEF CountDequeued, delta
<1>13. ASSUME NEW w \in Workers, OnTaskStart(w)
      PROVE  NoLostWakeup'
  <2>1. wpc' = [wpc EXCEPT ![w] = "exec"] /\ UNCHANGED ppc
    BY <1>13 DEF OnTaskStart, moveWorker
  <2>2. UNCHANGED postersAt({"count", "signal"})
    BY <2>1 DEF postersAt
  <2>3. /\ workersAt({"select"})' = workersAt({"select"}) + delta(wpc[w], "exec", {"select"})
        /\ workersAt({"pop"})' = workersAt({"pop"}) + delta(wpc[w], "exec", {"pop"})
    BY <1>1, <2>1, WorkerMoves
  <2> QED
    BY <1>1, <1>13, <2>2, <2>3 DEF OnTaskStart, delta
<1>14. ASSUME NEW w \in Workers, RunTask(w)
      PROVE  NoLostWakeup'
  <2>1. wpc' = [wpc EXCEPT ![w] = "end"] /\ UNCHANGED ppc
    BY <1>14 DEF RunTask, moveWorker
  <2>2. UNCHANGED postersAt({"count", "signal"})
    BY <2>1 DEF postersAt
  <2>3. /\ workersAt({"select"})' = workersAt({"select"}) + delta(wpc[w], "end", {"select"})
        /\ workersAt({"pop"})' = workersAt({"pop"}) + delta(wpc[w], "end", {"pop"})
    BY <1>1, <2>1, WorkerMoves
  <2> QED
    BY <1>1, <1>14, <2>2, <2>3 DEF RunTask, delta
<1>15. ASSUME NEW w \in Workers, OnTaskEnd(w)
      PROVE  NoLostWakeup'
  <2>1. wpc' = [wpc EXCEPT ![w] = "pop"] /\ UNCHANGED ppc
    BY <1>15 DEF OnTaskEnd, moveWorker
  <2>2. UNCHANGED postersAt({"count", "signal"})
    BY <2>1 DEF postersAt
  <2>3. /\ workersAt({"select"})' = workersAt({"select"}) + delta(wpc[w], "pop", {"select"})
        /\ workersAt({"pop"})' = workersAt({"pop"}) + delta(wpc[w], "pop", {"pop"})
    BY <1>1, <2>1, WorkerMoves
  <2> QED
    BY <1>1, <1>15, <2>2, <2>3 DEF OnTaskEnd, delta
<1>16. ASSUME NEW s \in Stoppers, Stop(s)
      PROVE  NoLostWakeup'
  BY <1>1, <1>16 DEF Stop, moveStopper, workersAt, postersAt
<1>17. ASSUME NEW s \in Stoppers, StopGraceful(s)
      PROVE  NoLostWakeup'
  BY <1>1, <1>17 DEF StopGraceful, moveStopper, workersAt, postersAt
<1>18. ASSUME NEW s \in Stoppers, RaiseFlag(s)
      PROVE  NoLostWakeup'
  BY <1>1, <1>18 DEF RaiseFlag, settled, moveStopper, workersAt, postersAt
<1>19. ASSUME NEW s \in Stoppers, StopDelayManager(s)
      PROVE  NoLostWakeup'
  BY <1>1, <1>19 DEF StopDelayManager, moveStopper, workersAt, postersAt
<1>20. ASSUME NEW s \in Stoppers, PollQueued(s)
      PROVE  NoLostWakeup'
  BY <1>1, <1>20 DEF PollQueued, moveStopper, workersAt, postersAt
<1>21. ASSUME NEW s \in Stoppers, PollActive(s)
      PROVE  NoLostWakeup'
  BY <1>1, <1>21 DEF PollActive, moveStopper, workersAt, postersAt
<1>22. ASSUME NEW s \in Stoppers, DeadlinePasses(s)
      PROVE  NoLostWakeup'
  BY <1>1, <1>22 DEF DeadlinePasses, moveStopper, workersAt, postersAt
<1>23. ASSUME NEW s \in Stoppers, ClearReady(s)
      PROVE  NoLostWakeup'
  <2>1. Cardinality(ready') = 0 /\ signal' = signal
    BY <1>23, FS_EmptySet DEF ClearReady
  <2>2. postersAt({"count", "signal"})' \in Nat /\ workersAt({"pop"})' \in Nat
    BY <1>3
  <2> QED
    BY <1>1, <2>1, <2>2
<1>24. ASSUME NEW s \in Stoppers, ZeroQueued(s)
      PROVE  NoLostWakeup'
  BY <1>1, <1>24 DEF ZeroQueued, moveStopper, workersAt, postersAt
<1>25. ASSUME NEW s \in Stoppers, LookAtRunning(s)
      PROVE  NoLostWakeup'
  BY <1>1, <1>25 DEF LookAtRunning, moveStopper, workersAt, postersAt
<1>26. ASSUME NEW s \in Stoppers, Cancel(s)
      PROVE  NoLostWakeup'
  BY <1>1, <1>26 DEF Cancel, moveStopper, workersAt, postersAt
<1>27. ASSUME NEW s \in Stoppers, Join(s)
      PROVE  NoLostWakeup'
  BY <1>1, <1>27 DEF Join, moveStopper, workersAt, postersAt
<1>28. ASSUME NEW s \in Stoppers, UnsetRunning(s)
      PROVE  NoLostWakeup'
  BY <1>1, <1>28 DEF UnsetRunning, moveStopper, workersAt, postersAt
<1>29. CASE UNCHANGED vars
  BY <1>1, <1>29 DEF vars, workersAt, postersAt
<1>30. ASSUME CallerCancels
      PROVE  NoLostWakeup'
  BY <1>1, <1>30 DEF CallerCancels, workersAt, postersAt
<1> QED
  BY <1>4, <1>5, <1>6, <1>7, <1>8, <1>9, <1>10, <1>11, <1>12, <1>13,
     <1>14, <1>15, <1>16, <1>17, <1>18, <1>19, <1>20, <1>21, <1>22, <1>23,
     <1>24, <1>25, <1>26, <1>27, <1>28, <1>29, <1>30
  DEF Next, PosterInCall, WorkerLoop, StopperInCall

\* Every step keeps the two counters exact.
LEMMA NextMetrics ==
  ASSUME IInv, [Next]_vars
  PROVE  MetricsExact' 
<1> USE DEF schedVars, poolVars, posterVars, workerVars, stopVars, histVars, MetricsExact
<1>1. /\ TypeOK /\ TasksBegun /\ ClearIsForced /\ MetricsExact /\ IsFiniteSet(ready)
      /\ metricQueued \in Int /\ metricActive \in Int /\ Cardinality(ready) \in Nat
      /\ workersAt({"exec", "end"}) \in Nat /\ workersAt({"uncount"}) \in Nat
      /\ postersAt({"count"}) \in Nat
  BY CountsAreNat, FS_CardinalityType DEF IInv, TypeOK
<1>2. ASSUME NEW p \in Posters, PostInternal(p)
      PROVE  MetricsExact'
  <2>1. ppc' = [ppc EXCEPT ![p] = IF shuttingDown THEN "idle" ELSE "push"] /\ UNCHANGED <<wpc, spc, kind, result>>
    BY <1>2 DEF PostInternal
  <2>2. UNCHANGED <<workersAt({"exec", "end"}), workersAt({"uncount"}), ForcedClear>>
    BY <2>1 DEF workersAt, ForcedClear
  <2>3. postersAt({"count"})' = postersAt({"count"}) + delta(ppc[p], IF shuttingDown THEN "idle" ELSE "push", {"count"})
    BY <1>1, <2>1, PosterMoves
  <2>4. postersAt({"count"})' = postersAt({"count"})
    BY <1>1, <1>2, <2>3 DEF PostInternal, delta
  <2> QED
    BY <1>1, <1>2, <2>2, <2>4 DEF PostInternal
<1>3. ASSUME NEW p \in Posters, PushReady(p)
      PROVE  MetricsExact'
  <2>1. ppc' = [ppc EXCEPT ![p] = "count"] /\ UNCHANGED <<wpc, spc, kind, result>>
    BY <1>3 DEF PushReady, taskOf
  <2>2. UNCHANGED <<workersAt({"exec", "end"}), workersAt({"uncount"}), ForcedClear>>
    BY <2>1 DEF workersAt, ForcedClear
  <2>3. postersAt({"count"})' = postersAt({"count"}) + delta(ppc[p], "count", {"count"})
    BY <1>1, <2>1, PosterMoves
  <2>4. postersAt({"count"})' = postersAt({"count"}) + 1
    BY <1>1, <1>3, <2>3 DEF PushReady, delta
  <2>5. Cardinality(ready') = Cardinality(ready) + 1
    <3>1. ready' = ready \cup {taskOf(p)}
      BY <1>3 DEF PushReady
    <3>2. taskOf(p) \notin ready
      BY <1>1, <1>3 DEF PushReady, TasksBegun, taskOf, TypeOK
    <3> QED
      BY <1>1, <3>1, <3>2, FS_AddElement
  <2> QED
    BY <1>1, <1>3, <2>2, <2>4, <2>5 DEF PushReady
<1>4. ASSUME NEW p \in Posters, CountQueued(p)
      PROVE  MetricsExact'
  <2>1. ppc' = [ppc EXCEPT ![p] = "signal"] /\ UNCHANGED <<wpc, spc, kind, result>>
    BY <1>4 DEF CountQueued
  <2>2. UNCHANGED <<workersAt({"exec", "end"}), workersAt({"uncount"}), ForcedClear>>
    BY <2>1 DEF workersAt, ForcedClear
  <2>3. postersAt({"count"})' = postersAt({"count"}) + delta(ppc[p], "signal", {"count"})
    BY <1>1, <2>1, PosterMoves
  <2>4. postersAt({"count"})' = postersAt({"count"}) - 1
    BY <1>1, <1>4, <2>3 DEF CountQueued, delta
  <2> QED
    BY <1>1, <1>4, <2>2, <2>4 DEF CountQueued
<1>5. ASSUME NEW p \in Posters, SendSignal(p)
      PROVE  MetricsExact'
  <2>1. ppc' = [ppc EXCEPT ![p] = "idle"] /\ UNCHANGED <<wpc, spc, kind, result>>
    BY <1>5 DEF SendSignal
  <2>2. UNCHANGED <<workersAt({"exec", "end"}), workersAt({"uncount"}), ForcedClear>>
    BY <2>1 DEF workersAt, ForcedClear
  <2>3. postersAt({"count"})' = postersAt({"count"}) + delta(ppc[p], "idle", {"count"})
    BY <1>1, <2>1, PosterMoves
  <2>4. postersAt({"count"})' = postersAt({"count"})
    BY <1>1, <1>5, <2>3 DEF SendSignal, delta
  <2> QED
    BY <1>1, <1>5, <2>2, <2>4 DEF SendSignal
<1>6. ASSUME Start
      PROVE  MetricsExact'
  <2>1. UNCHANGED <<ppc, spc, kind, result>>
    BY <1>6 DEF Start
  <2>2. UNCHANGED <<postersAt({"count"}), ForcedClear>>
    BY <2>1 DEF postersAt, ForcedClear
  <2>3. CASE running
    BY <1>1, <1>6, <2>2, <2>3 DEF Start, workersAt
  <2>4. CASE ~running
    <3>1. /\ {w \in Workers : wpc[w] \in {"exec", "end"}} = {w \in Workers : wpc'[w] \in {"exec", "end"}}
          /\ {w \in Workers : wpc[w] \in {"uncount"}} = {w \in Workers : wpc'[w] \in {"uncount"}}
      BY <1>6, <2>4 DEF Start
    <3>2. UNCHANGED <<workersAt({"exec", "end"}), workersAt({"uncount"})>>
      BY <3>1 DEF workersAt
    <3> QED
      BY <1>1, <1>6, <2>2, <3>2 DEF Start
  <2> QED
    BY <2>3, <2>4
<1>7. ASSUME NEW w \in Workers, PopReady(w)
      PROVE  MetricsExact'
  <2>1. UNCHANGED <<ppc, spc, kind, result, metricQueued, metricActive>>
    BY <1>7 DEF PopReady
  <2>2. UNCHANGED <<postersAt({"count"}), ForcedClear>>
    BY <2>1 DEF postersAt, ForcedClear
  <2>3. ASSUME NEW to, wpc' = [wpc EXCEPT ![w] = to]
        PROVE  /\ workersAt({"exec", "end"})' = workersAt({"exec", "end"}) + delta(wpc[w], to, {"exec", "end"})
               /\ workersAt({"uncount"})' = workersAt({"uncount"}) + delta(wpc[w], to, {"uncount"})
    BY <1>1, <2>3, WorkerMoves
  <2>4. CASE wpc' = [wpc EXCEPT ![w] = "select"] /\ UNCHANGED ready
    <3>1. /\ workersAt({"exec", "end"})' = workersAt({"exec", "end"}) + delta(wpc[w], "select", {"exec", "end"})
          /\ workersAt({"uncount"})' = workersAt({"uncount"}) + delta(wpc[w], "select", {"uncount"})
      BY <2>3, <2>4
    <3> QED
      BY <1>1, <1>7, <2>1, <2>2, <2>4, <3>1 DEF PopReady, delta
  <2>5. ASSUME NEW t \in ready, ready' = ready \ {t},
               wpc' = [wpc EXCEPT ![w] = "uncount"]
        PROVE  MetricsExact'
    <3>1. /\ workersAt({"exec", "end"})' = workersAt({"exec", "end"}) + delta(wpc[w], "uncount", {"exec", "end"})
          /\ workersAt({"uncount"})' = workersAt({"uncount"}) + delta(wpc[w], "uncount", {"uncount"})
      BY <2>3, <2>5
    <3>2. Cardinality(ready') = Cardinality(ready) - 1
      BY <1>1, <2>5, FS_RemoveElement
    <3> QED
      BY <1>1, <1>7, <2>1, <2>2, <3>1, <3>2 DEF PopReady, delta
  <2> QED
    BY <1>7, <2>4, <2>5 DEF PopReady, moveWorker
<1>8. ASSUME NEW w \in Workers, ReceiveSignal(w)
      PROVE  MetricsExact'
  <2>1. wpc' = [wpc EXCEPT ![w] = "pop"] /\ UNCHANGED <<ppc, spc, kind, result>>
    BY <1>8 DEF ReceiveSignal, moveWorker
  <2>2. UNCHANGED <<postersAt({"count"}), ForcedClear>>
    BY <2>1 DEF postersAt, ForcedClear
  <2>3. /\ workersAt({"exec", "end"})' = workersAt({"exec", "end"}) + delta(wpc[w], "pop", {"exec", "end"})
        /\ workersAt({"uncount"})' = workersAt({"uncount"}) + delta(wpc[w], "pop", {"uncount"})
    BY <1>1, <2>1, WorkerMoves
  <2> QED
    BY <1>1, <1>8, <2>2, <2>3 DEF ReceiveSignal, delta
<1>9. ASSUME NEW w \in Workers, WorkerExits(w)
      PROVE  MetricsExact'
  <2>1. wpc' = [wpc EXCEPT ![w] = "off"] /\ UNCHANGED <<ppc, spc, kind, result>>
    BY <1>9 DEF WorkerExits, moveWorker
  <2>2. UNCHANGED <<postersAt({"count"}), ForcedClear>>
    BY <2>1 DEF postersAt, ForcedClear
  <2>3. /\ workersAt({"exec", "end"})' = workersAt({"exec", "end"}) + delta(wpc[w], "off", {"exec", "end"})
        /\ workersAt({"uncount"})' = workersAt({"uncount"}) + delta(wpc[w], "off", {"uncount"})
    BY <1>1, <2>1, WorkerMoves
  <2> QED
    BY <1>1, <1>9, <2>2, <2>3 DEF WorkerExits, delta
<1>10. ASSUME NEW w \in Workers, CountDequeued(w)
      PROVE  MetricsExact'
  <2>1. wpc' = [wpc EXCEPT ![w] = "start"] /\ UNCHANGED <<ppc, spc, kind, result>>
    BY <1>10 DEF CountDequeued, moveWorker
  <2>2. UNCHANGED <<postersAt({"count"}), ForcedClear>>
    BY <2>1 DEF postersAt, ForcedClear
  <2>3. /\ workersAt({"exec", "end"})' = workersAt({"exec", "end"}) + delta(wpc[w], "start", {"exec", "end"})
        /\ workersAt({"uncount"})' = workersAt({"uncount"}) + delta(wpc[w], "start", {"uncount"})
    BY <1>1, <2>1, WorkerMoves
  <2> QED
    BY <1>1, <1>10, <2>2, <2>3 DEF CountDequeued, delta
<1>11. ASSUME NEW w \in Workers, OnTaskStart(w)
      PROVE  MetricsExact'
  <2>1. wpc' = [wpc EXCEPT ![w] = "exec"] /\ UNCHANGED <<ppc, spc, kind, result>>
    BY <1>11 DEF OnTaskStart, moveWorker
  <2>2. UNCHANGED <<postersAt({"count"}), ForcedClear>>
    BY <2>1 DEF postersAt, ForcedClear
  <2>3. /\ workersAt({"exec", "end"})' = workersAt({"exec", "end"}) + delta(wpc[w], "exec", {"exec", "end"})
        /\ workersAt({"uncount"})' = workersAt({"uncount"}) + delta(wpc[w], "exec", {"uncount"})
    BY <1>1, <2>1, WorkerMoves
  <2> QED
    BY <1>1, <1>11, <2>2, <2>3 DEF OnTaskStart, delta
<1>12. ASSUME NEW w \in Workers, RunTask(w)
      PROVE  MetricsExact'
  <2>1. wpc' = [wpc EXCEPT ![w] = "end"] /\ UNCHANGED <<ppc, spc, kind, result>>
    BY <1>12 DEF RunTask, moveWorker
  <2>2. UNCHANGED <<postersAt({"count"}), ForcedClear>>
    BY <2>1 DEF postersAt, ForcedClear
  <2>3. /\ workersAt({"exec", "end"})' = workersAt({"exec", "end"}) + delta(wpc[w], "end", {"exec", "end"})
        /\ workersAt({"uncount"})' = workersAt({"uncount"}) + delta(wpc[w], "end", {"uncount"})
    BY <1>1, <2>1, WorkerMoves
  <2> QED
    BY <1>1, <1>12, <2>2, <2>3 DEF RunTask, delta
<1>13. ASSUME NEW w \in Workers, OnTaskEnd(w)
      PROVE  MetricsExact'
  <2>1. wpc' = [wpc EXCEPT ![w] = "pop"] /\ UNCHANGED <<ppc, spc, kind, result>>
    BY <1>13 DEF OnTaskEnd, moveWorker
  <2>2. UNCHANGED <<postersAt({"count"}), ForcedClear>>
    BY <2>1 DEF postersAt, ForcedClear
  <2>3. /\ workersAt({"exec", "end"})' = workersAt({"exec", "end"}) + delta(wpc[w], "pop", {"exec", "end"})
        /\ workersAt({"uncount"})' = workersAt({"uncount"}) + delta(wpc[w], "pop", {"uncount"})
    BY <1>1, <2>1, WorkerMoves
  <2> QED
    BY <1>1, <1>13, <2>2, <2>3 DEF OnTaskEnd, delta
<1>14. ASSUME NEW s \in Stoppers, Stop(s)
      PROVE  MetricsExact'
  <2>1. ForcedClear => ForcedClear'
    BY <1>1, <1>14 DEF Stop, moveStopper, ForcedClear, ClearIsForced, TypeOK
  <2>2. UNCHANGED <<workersAt({"exec", "end"}), workersAt({"uncount"}), postersAt({"count"})>>
    BY <1>14 DEF Stop, workersAt, postersAt
  <2> QED
    BY <1>1, <1>14, <2>1, <2>2 DEF Stop
<1>15. ASSUME NEW s \in Stoppers, StopGraceful(s)
      PROVE  MetricsExact'
  <2>1. ForcedClear => ForcedClear'
    BY <1>1, <1>15 DEF StopGraceful, moveStopper, ForcedClear, ClearIsForced, TypeOK
  <2>2. UNCHANGED <<workersAt({"exec", "end"}), workersAt({"uncount"}), postersAt({"count"})>>
    BY <1>15 DEF StopGraceful, workersAt, postersAt
  <2> QED
    BY <1>1, <1>15, <2>1, <2>2 DEF StopGraceful
<1>16. ASSUME NEW s \in Stoppers, RaiseFlag(s)
      PROVE  MetricsExact'
  <2>1. ForcedClear => ForcedClear'
    BY <1>1, <1>16 DEF RaiseFlag, moveStopper, ForcedClear, ClearIsForced, TypeOK
  <2>2. UNCHANGED <<workersAt({"exec", "end"}), workersAt({"uncount"}), postersAt({"count"})>>
    BY <1>16 DEF RaiseFlag, workersAt, postersAt
  <2> QED
    BY <1>1, <1>16, <2>1, <2>2 DEF RaiseFlag
<1>17. ASSUME NEW s \in Stoppers, StopDelayManager(s)
      PROVE  MetricsExact'
  <2>1. ForcedClear => ForcedClear'
    BY <1>1, <1>17 DEF StopDelayManager, moveStopper, ForcedClear, ClearIsForced, TypeOK
  <2>2. UNCHANGED <<workersAt({"exec", "end"}), workersAt({"uncount"}), postersAt({"count"})>>
    BY <1>17 DEF StopDelayManager, workersAt, postersAt
  <2> QED
    BY <1>1, <1>17, <2>1, <2>2 DEF StopDelayManager
<1>18. ASSUME NEW s \in Stoppers, PollQueued(s)
      PROVE  MetricsExact'
  <2>1. ForcedClear => ForcedClear'
    BY <1>1, <1>18 DEF PollQueued, moveStopper, ForcedClear, ClearIsForced, TypeOK
  <2>2. UNCHANGED <<workersAt({"exec", "end"}), workersAt({"uncount"}), postersAt({"count"})>>
    BY <1>18 DEF PollQueued, workersAt, postersAt
  <2> QED
    BY <1>1, <1>18, <2>1, <2>2 DEF PollQueued
<1>19. ASSUME NEW s \in Stoppers, PollActive(s)
      PROVE  MetricsExact'
  <2>1. ForcedClear => ForcedClear'
    BY <1>1, <1>19 DEF PollActive, moveStopper, ForcedClear, ClearIsForced, TypeOK
  <2>2. UNCHANGED <<workersAt({"exec", "end"}), workersAt({"uncount"}), postersAt({"count"})>>
    BY <1>19 DEF PollActive, workersAt, postersAt
  <2> QED
    BY <1>1, <1>19, <2>1, <2>2 DEF PollActive
<1>20. ASSUME NEW s \in Stoppers, DeadlinePasses(s)
      PROVE  MetricsExact'
  <2>1. ForcedClear => ForcedClear'
    BY <1>1, <1>20 DEF DeadlinePasses, moveStopper, ForcedClear, ClearIsForced, TypeOK
  <2>2. UNCHANGED <<workersAt({"exec", "end"}), workersAt({"uncount"}), postersAt({"count"})>>
    BY <1>20 DEF DeadlinePasses, workersAt, postersAt
  <2> QED
    BY <1>1, <1>20, <2>1, <2>2 DEF DeadlinePasses
<1>21. ASSUME NEW s \in Stoppers, ClearReady(s)
      PROVE  MetricsExact'
  <2>1. ForcedClear => ForcedClear'
    BY <1>1, <1>21 DEF ClearReady, moveStopper, ForcedClear, ClearIsForced, TypeOK
  <2>2. UNCHANGED <<workersAt({"exec", "end"}), workersAt({"uncount"}), postersAt({"count"})>>
    BY <1>21 DEF ClearReady, workersAt, postersAt
  <2>3. ForcedClear
    BY <1>1, <1>21 DEF ClearReady, ForcedClear, ClearIsForced
  <2> QED
    BY <1>1, <1>21, <2>1, <2>2, <2>3 DEF ClearReady
<1>22. ASSUME NEW s \in Stoppers, ZeroQueued(s)
      PROVE  MetricsExact'
  <2>1. ForcedClear => ForcedClear'
    BY <1>1, <1>22 DEF ZeroQueued, moveStopper, ForcedClear, ClearIsForced, TypeOK
  <2>2. UNCHANGED <<workersAt({"exec", "end"}), workersAt({"uncount"}), postersAt({"count"})>>
    BY <1>22 DEF ZeroQueued, workersAt, postersAt
  <2>3. ForcedClear
    BY <1>1, <1>22 DEF ZeroQueued, ForcedClear, ClearIsForced
  <2> QED
    BY <1>1, <1>22, <2>1, <2>2, <2>3 DEF ZeroQueued
<1>23. ASSUME NEW s \in Stoppers, LookAtRunning(s)
      PROVE  MetricsExact'
  <2>1. ForcedClear => ForcedClear'
    BY <1>1, <1>23 DEF LookAtRunning, moveStopper, ForcedClear, ClearIsForced, TypeOK
  <2>2. UNCHANGED <<workersAt({"exec", "end"}), workersAt({"uncount"}), postersAt({"count"})>>
    BY <1>23 DEF LookAtRunning, workersAt, postersAt
  <2> QED
    BY <1>1, <1>23, <2>1, <2>2 DEF LookAtRunning
<1>24. ASSUME NEW s \in Stoppers, Cancel(s)
      PROVE  MetricsExact'
  <2>1. ForcedClear => ForcedClear'
    BY <1>1, <1>24 DEF Cancel, moveStopper, ForcedClear, ClearIsForced, TypeOK
  <2>2. UNCHANGED <<workersAt({"exec", "end"}), workersAt({"uncount"}), postersAt({"count"})>>
    BY <1>24 DEF Cancel, workersAt, postersAt
  <2> QED
    BY <1>1, <1>24, <2>1, <2>2 DEF Cancel
<1>25. ASSUME NEW s \in Stoppers, Join(s)
      PROVE  MetricsExact'
  <2>1. ForcedClear => ForcedClear'
    BY <1>1, <1>25 DEF Join, moveStopper, ForcedClear, ClearIsForced, TypeOK
  <2>2. UNCHANGED <<workersAt({"exec", "end"}), workersAt({"uncount"}), postersAt({"count"})>>
    BY <1>25 DEF Join, workersAt, postersAt
  <2> QED
    BY <1>1, <1>25, <2>1, <2>2 DEF Join
<1>26. ASSUME NEW s \in Stoppers, UnsetRunning(s)
      PROVE  MetricsExact'
  <2>1. ForcedClear => ForcedClear'
    BY <1>1, <1>26 DEF UnsetRunning, moveStopper, ForcedClear, ClearIsForced, TypeOK
  <2>2. UNCHANGED <<workersAt({"exec", "end"}), workersAt({"uncount"}), postersAt({"count"})>>
    BY <1>26 DEF UnsetRunning, workersAt, postersAt
  <2> QED
    BY <1>1, <1>26, <2>1, <2>2 DEF UnsetRunning
<1>27. CASE UNCHANGED vars
  BY <1>1, <1>27 DEF vars, workersAt, postersAt, ForcedClear
<1>28. ASSUME CallerCancels
      PROVE  MetricsExact'
  <2>1. UNCHANGED <<wpc, ppc, spc, kind, result, ready, metricQueued, metricActive>>
    BY <1>28 DEF CallerCancels
  <2>2. UNCHANGED <<workersAt({"exec", "end"}), workersAt({"uncount"}), postersAt({"count"}), ForcedClear>>
    BY <2>1 DEF workersAt, postersAt, ForcedClear
  <2> QED
    BY <1>1, <2>1, <2>2
<1> QED
  BY <1>2, <1>3, <1>4, <1>5, <1>6, <1>7, <1>8, <1>9, <1>10, <1>11,
     <1>12, <1>13, <1>14, <1>15, <1>16, <1>17, <1>18, <1>19, <1>20, <1>21,
     <1>22, <1>23, <1>24, <1>25, <1>26, <1>27, <1>28
  DEF Next, PosterInCall, WorkerLoop, StopperInCall

\* The parts of the invariant together are inductive.
LEMMA NextIInv == IInv /\ [Next]_vars => IInv'
BY NextType, NextQueue, NextWakeup, NextMetrics DEF IInv

\* The inductive invariant holds in every reachable state.
THEOREM Invariance == Safety => []IInv
<1>1. Init => IInv
  BY InitIInv
<1>2. IInv /\ [Next]_vars => IInv'
  BY NextIInv
<1> QED
  BY <1>1, <1>2, PTL DEF Safety

\* The pool keeps its types; the signal channel never exceeds its capacity.
THEOREM TypeCorrect == Safety => []TypeOK
BY Invariance, PTL DEF IInv

\* PostInternal and GetWork never lose a wake-up.
THEOREM WakeupsAreNotLost == Safety => []NoLostWakeup
BY Invariance, PTL DEF IInv

\* metricActive always, and metricQueued until a forced Clear, count what they
\* are meant to count.
THEOREM MetricsAreExact == Safety => []MetricsExact
BY Invariance, PTL DEF IInv

-----------------------------------------------------------------------------
(* What is left of a pool that was stopped.                                *)

busy == {"uncount", "start", "exec"}

\* A worker that is not about to run a task holds none.
HandsEmpty == \A w \in Workers : wpc[w] \notin busy => hand[w] = NoTask

allOff == \A w \in Workers : wpc[w] = "off"

\* The stopper's call has seen a running pool and has not yet reset running.
sawRunning(s) ==
  \/ spc[s] \in {"flag", "pollQueued", "pollActive", "cancel", "join", "unset"}
  \/ kind[s] = "graceful" /\ spc[s] \in {"stopDelays", "clear", "zero"}

\* A pool that runs, or ran when a stopper looked, was started; while no second
\* stopper can have brought it down meanwhile it is still running; and a pool
\* that is down, or about to be, has no worker.
QuietInv ==
  /\ HandsEmpty
  /\ running => starts >= 1
  /\ \A s \in Stoppers : sawRunning(s) => starts >= 1
  /\ OneStopper => \A s \in Stoppers : sawRunning(s) => running
  /\ OneStopper \/ starts <= 1 =>
       /\ ~running => allOff
       /\ \A s \in Stoppers : spc[s] = "unset" => allOff

\* A new pool has no worker and no stopper.
LEMMA InitQuiet == Init => QuietInv
BY DEF Init, QuietInv, HandsEmpty, busy, sawRunning, allOff

\* Every step keeps a pool that is down without workers.
LEMMA NextQuiet ==
  ASSUME TypeOK, QuietInv, [Next]_vars
  PROVE  QuietInv'
<1> USE DEF schedVars, poolVars, posterVars, workerVars, stopVars, histVars,
            QuietInv, HandsEmpty, busy, allOff
<1>1. ASSUME UNCHANGED <<running, starts, wpc, hand, spc, kind>>
      PROVE  QuietInv'
  BY <1>1 DEF sawRunning, OneStopper
<1>2. ASSUME NEW p \in Posters, PostInternal(p) \/ PosterInCall(p)
      PROVE  QuietInv'
  BY <1>1, <1>2 DEF PostInternal, PosterInCall, PushReady, CountQueued, SendSignal
<1>3. ASSUME Start
      PROVE  QuietInv'
  <2>1. UNCHANGED <<hand, spc, kind>> /\ starts' = starts + 1 /\ starts \in Nat
    BY <1>3 DEF Start, TypeOK
  <2>2. UNCHANGED OneStopper /\ \A s \in Stoppers : sawRunning(s)' = sawRunning(s)
    BY <2>1 DEF OneStopper, sawRunning
  <2>3. CASE running
    BY <1>3, <2>1, <2>2, <2>3 DEF Start
  <2>4. CASE ~running
    <3>1. /\ running'
          /\ \A w \in Workers : wpc[w] = "off" /\ wpc'[w] = "pop"
      BY <1>3, <2>4 DEF Start
    <3>2. HandsEmpty'
      BY <2>1, <3>1
    <3>3. ASSUME OneStopper \/ starts' <= 1, NEW s \in Stoppers, spc'[s] = "unset"
          PROVE  FALSE
      <4>1. sawRunning(s) /\ starts >= 1
        BY <2>1, <3>3 DEF sawRunning
      <4> QED
        BY <2>1, <2>4, <3>3, <4>1
    <3> QED
      BY <2>1, <2>2, <3>1, <3>2, <3>3
  <2> QED
    BY <2>3, <2>4
<1>4. ASSUME NEW w \in Workers, WorkerLoop(w)
      PROVE  QuietInv'
  <2>1. /\ UNCHANGED <<running, starts, spc, kind>>
        /\ wpc[w] # "off"
        /\ \A v \in Workers \ {w} : wpc'[v] = wpc[v] /\ hand'[v] = hand[v]
    <3>1. CASE PopReady(w) \/ ReceiveSignal(w)
      BY <3>1 DEF PopReady, ReceiveSignal, moveWorker, TypeOK
    <3>2. CASE WorkerExits(w) \/ CountDequeued(w) \/ OnTaskStart(w)
      BY <3>2 DEF WorkerExits, CountDequeued, OnTaskStart, moveWorker, TypeOK
    <3>3. CASE RunTask(w) \/ OnTaskEnd(w)
      BY <3>3 DEF RunTask, OnTaskEnd, moveWorker, TypeOK
    <3> QED
      BY <1>4, <3>1, <3>2, <3>3 DEF WorkerLoop
  <2>2. wpc'[w] \notin busy => hand'[w] = NoTask
    <3>1. CASE PopReady(w) \/ ReceiveSignal(w)
      BY <3>1 DEF PopReady, ReceiveSignal, moveWorker, TypeOK
    <3>2. CASE WorkerExits(w) \/ CountDequeued(w) \/ OnTaskStart(w)
      BY <3>2 DEF WorkerExits, CountDequeued, OnTaskStart, moveWorker, TypeOK
    <3>3. CASE RunTask(w) \/ OnTaskEnd(w)
      BY <3>3 DEF RunTask, OnTaskEnd, moveWorker, TypeOK
    <3> QED
      BY <1>4, <3>1, <3>2, <3>3 DEF WorkerLoop
  <2>3. HandsEmpty'
    BY <2>1, <2>2
  <2>4. UNCHANGED OneStopper /\ \A s \in Stoppers : sawRunning(s)' = sawRunning(s)
    BY <2>1 DEF OneStopper, sawRunning
  <2> QED
    BY <2>1, <2>3, <2>4
<1>5. ASSUME NEW s \in Stoppers, spc' = [spc EXCEPT ![s] = spc'[s]], spc'[s] # "idle",
             kind' = [kind EXCEPT ![s] = kind'[s]],
             UNCHANGED <<running, starts, wpc, hand>>,
             sawRunning(s)' => sawRunning(s) \/ running,
             spc'[s] = "unset" => allOff
      PROVE  QuietInv'
  <2>1. /\ \A t \in Stoppers \ {s} : spc'[t] = spc[t] /\ kind'[t] = kind[t]
        /\ OneStopper' => OneStopper
    BY <1>5 DEF OneStopper, TypeOK
  <2>2. \A t \in Stoppers \ {s} : sawRunning(t)' = sawRunning(t)
    BY <2>1 DEF sawRunning
  <2>3. HandsEmpty' /\ allOff' = allOff
    BY <1>5
  <2>4. \A t \in Stoppers : sawRunning(t)' => sawRunning(t) \/ running
    BY <1>5, <2>2
  <2>5. ASSUME OneStopper' \/ starts <= 1, NEW t \in Stoppers, spc'[t] = "unset"
        PROVE  allOff
    BY <1>5, <2>1, <2>5
  <2> QED
    BY <1>5, <2>1, <2>3, <2>4, <2>5
<1>6. ASSUME NEW s \in Stoppers, Stop(s)
      PROVE  QuietInv'
  <2>1. /\ UNCHANGED <<running, starts, wpc, hand>>
        /\ spc' = [spc EXCEPT ![s] = spc'[s]] /\ spc'[s] # "idle"
        /\ kind' = [kind EXCEPT ![s] = kind'[s]]
    BY <1>6 DEF Stop, moveStopper, TypeOK
  <2>2. /\ sawRunning(s)' => sawRunning(s) \/ running
        /\ spc'[s] = "unset" => allOff
    BY <1>6 DEF Stop, moveStopper, TypeOK, sawRunning
  <2> QED
    BY <1>5, <2>1, <2>2
<1>7. ASSUME NEW s \in Stoppers, StopGraceful(s)
      PROVE  QuietInv'
  <2>1. /\ UNCHANGED <<running, starts, wpc, hand>>
        /\ spc' = [spc EXCEPT ![s] = spc'[s]] /\ spc'[s] # "idle"
        /\ kind' = [kind EXCEPT ![s] = kind'[s]]
    BY <1>7 DEF StopGraceful, moveStopper, TypeOK
  <2>2. /\ sawRunning(s)' => sawRunning(s) \/ running
        /\ spc'[s] = "unset" => allOff
    BY <1>7 DEF StopGraceful, moveStopper, TypeOK, sawRunning
  <2> QED
    BY <1>5, <2>1, <2>2
<1>8. ASSUME NEW s \in Stoppers, RaiseFlag(s)
      PROVE  QuietInv'
  <2>1. /\ UNCHANGED <<running, starts, wpc, hand>>
        /\ spc' = [spc EXCEPT ![s] = spc'[s]] /\ spc'[s] # "idle"
        /\ kind' = [kind EXCEPT ![s] = kind'[s]]
    BY <1>8 DEF RaiseFlag, moveStopper, TypeOK
  <2>2. /\ sawRunning(s)' => sawRunning(s) \/ running
        /\ spc'[s] = "unset" => allOff
    BY <1>8 DEF RaiseFlag, moveStopper, TypeOK, sawRunning
  <2> QED
    BY <1>5, <2>1, <2>2
<1>9. ASSUME NEW s \in Stoppers, StopDelayManager(s)
      PROVE  QuietInv'
  <2>1. /\ UNCHANGED <<running, starts, wpc, hand>>
        /\ spc' = [spc EXCEPT ![s] = spc'[s]] /\ spc'[s] # "idle"
        /\ kind' = [kind EXCEPT ![s] = kind'[s]]
    BY <1>9 DEF StopDelayManager, moveStopper, TypeOK
  <2>2. /\ sawRunning(s)' => sawRunning(s) \/ running
        /\ spc'[s] = "unset" => allOff
    BY <1>9 DEF StopDelayManager, moveStopper, TypeOK, sawRunning
  <2> QED
    BY <1>5, <2>1, <2>2
<1>10. ASSUME NEW s \in Stoppers, PollQueued(s)
      PROVE  QuietInv'
  <2>1. /\ UNCHANGED <<running, starts, wpc, hand>>
        /\ spc' = [spc EXCEPT ![s] = spc'[s]] /\ spc'[s] # "idle"
        /\ kind' = [kind EXCEPT ![s] = kind'[s]]
    BY <1>10 DEF PollQueued, moveStopper, TypeOK
  <2>2. /\ sawRunning(s)' => sawRunning(s) \/ running
        /\ spc'[s] = "unset" => allOff
    BY <1>10 DEF PollQueued, moveStopper, TypeOK, sawRunning
  <2> QED
    BY <1>5, <2>1, <2>2
<1>11. ASSUME NEW s \in Stoppers, PollActive(s)
      PROVE  QuietInv'
  <2>1. /\ UNCHANGED <<running, starts, wpc, hand>>
        /\ spc' = [spc EXCEPT ![s] = spc'[s]] /\ spc'[s] # "idle"
        /\ kind' = [kind EXCEPT ![s] = kind'[s]]
    BY <1>11 DEF PollActive, moveStopper, TypeOK
  <2>2. /\ sawRunning(s)' => sawRunning(s) \/ running
        /\ spc'[s] = "unset" => allOff
    BY <1>11 DEF PollActive, moveStopper, TypeOK, sawRunning
  <2> QED
    BY <1>5, <2>1, <2>2
<1>12. ASSUME NEW s \in Stoppers, DeadlinePasses(s)
      PROVE  QuietInv'
  <2>1. /\ UNCHANGED <<running, starts, wpc, hand>>
        /\ spc' = [spc EXCEPT ![s] = spc'[s]] /\ spc'[s] # "idle"
        /\ kind' = [kind EXCEPT ![s] = kind'[s]]
    BY <1>12 DEF DeadlinePasses, moveStopper, TypeOK
  <2>2. /\ sawRunning(s)' => sawRunning(s) \/ running
        /\ spc'[s] = "unset" => allOff
    BY <1>12 DEF DeadlinePasses, moveStopper, TypeOK, sawRunning
  <2> QED
    BY <1>5, <2>1, <2>2
<1>13. ASSUME NEW s \in Stoppers, ClearReady(s)
      PROVE  QuietInv'
  <2>1. /\ UNCHANGED <<running, starts, wpc, hand>>
        /\ spc' = [spc EXCEPT ![s] = spc'[s]] /\ spc'[s] # "idle"
        /\ kind' = [kind EXCEPT ![s] = kind'[s]]
    BY <1>13 DEF ClearReady, moveStopper, TypeOK
  <2>2. /\ sawRunning(s)' => sawRunning(s) \/ running
        /\ spc'[s] = "unset" => allOff
    BY <1>13 DEF ClearReady, moveStopper, TypeOK, sawRunning
  <2> QED
    BY <1>5, <2>1, <2>2
<1>14. ASSUME NEW s \in Stoppers, ZeroQueued(s)
      PROVE  QuietInv'
  <2>1. /\ UNCHANGED <<running, starts, wpc, hand>>
        /\ spc' = [spc EXCEPT ![s] = spc'[s]] /\ spc'[s] # "idle"
        /\ kind' = [kind EXCEPT ![s] = kind'[s]]
    BY <1>14 DEF ZeroQueued, moveStopper, TypeOK
  <2>2. /\ sawRunning(s)' => sawRunning(s) \/ running
        /\ spc'[s] = "unset" => allOff
    BY <1>14 DEF ZeroQueued, moveStopper, TypeOK, sawRunning
  <2> QED
    BY <1>5, <2>1, <2>2
<1>15. ASSUME NEW s \in Stoppers, LookAtRunning(s)
      PROVE  QuietInv'
  <2>1. /\ UNCHANGED <<running, starts, wpc, hand>>
        /\ spc' = [spc EXCEPT ![s] = spc'[s]] /\ spc'[s] # "idle"
        /\ kind' = [kind EXCEPT ![s] = kind'[s]]
    BY <1>15 DEF LookAtRunning, moveStopper, TypeOK
  <2>2. /\ sawRunning(s)' => sawRunning(s) \/ running
        /\ spc'[s] = "unset" => allOff
    BY <1>15 DEF LookAtRunning, moveStopper, TypeOK, sawRunning
  <2> QED
    BY <1>5, <2>1, <2>2
<1>16. ASSUME NEW s \in Stoppers, Cancel(s)
      PROVE  QuietInv'
  <2>1. /\ UNCHANGED <<running, starts, wpc, hand>>
        /\ spc' = [spc EXCEPT ![s] = spc'[s]] /\ spc'[s] # "idle"
        /\ kind' = [kind EXCEPT ![s] = kind'[s]]
    BY <1>16 DEF Cancel, moveStopper, TypeOK
  <2>2. /\ sawRunning(s)' => sawRunning(s) \/ running
        /\ spc'[s] = "unset" => allOff
    BY <1>16 DEF Cancel, moveStopper, TypeOK, sawRunning
  <2> QED
    BY <1>5, <2>1, <2>2
<1>17. ASSUME NEW s \in Stoppers, Join(s)
      PROVE  QuietInv'
  <2>1. /\ UNCHANGED <<running, starts, wpc, hand>>
        /\ spc' = [spc EXCEPT ![s] = spc'[s]] /\ spc'[s] # "idle"
        /\ kind' = [kind EXCEPT ![s] = kind'[s]]
    BY <1>17 DEF Join, moveStopper, TypeOK
  <2>2. /\ sawRunning(s)' => sawRunning(s) \/ running
        /\ spc'[s] = "unset" => allOff
    BY <1>17 DEF Join, moveStopper, TypeOK, sawRunning
  <2> QED
    BY <1>5, <2>1, <2>2
<1>18. ASSUME NEW s \in Stoppers, UnsetRunning(s)
      PROVE  QuietInv'
  <2>1. /\ UNCHANGED <<starts, wpc, hand, kind>> /\ ~running'
        /\ spc[s] = "unset" /\ spc'[s] = "done"
        /\ \A t \in Stoppers \ {s} : spc'[t] = spc[t]
    BY <1>18 DEF UnsetRunning, moveStopper, TypeOK
  <2>2. OneStopper' => OneStopper
    BY <2>1 DEF OneStopper
  <2>3. /\ ~sawRunning(s)'
        /\ \A t \in Stoppers \ {s} : sawRunning(t)' = sawRunning(t)
    BY <2>1 DEF sawRunning
  <2>4. OneStopper' => \A t \in Stoppers : ~sawRunning(t)'
    BY <2>1, <2>3 DEF OneStopper, sawRunning
  <2>5. OneStopper' \/ starts' <= 1 => allOff
    BY <2>1, <2>2
  <2> QED
    BY <2>1, <2>3, <2>4, <2>5
<1>19. CASE UNCHANGED vars
  BY <1>1, <1>19 DEF vars
<1>20. ASSUME CallerCancels
      PROVE  QuietInv'
  BY <1>1, <1>20 DEF CallerCancels
<1> QED
  BY <1>2, <1>3, <1>4, <1>6, <1>7, <1>8, <1>9, <1>10, <1>11,
     <1>12, <1>13, <1>14, <1>15, <1>16, <1>17, <1>18, <1>19, <1>20
  DEF Next, StopperInCall

-----------------------------------------------------------------------------
(* What a graceful stop waits for.                                         *)

\* The tasks that workers have popped and not yet run.
inHand == {hand[w] : w \in {v \in Workers : wpc[v] \in busy}}

\* The stopper found metricQueued at zero and has not begun to poll anew.
polled(s) == spc[s] = "pollActive" \/ result[s] = "nil"

\* A stopper that raised the flag in a calm moment keeps the posters out; the
\* tasks of that moment are queued, in hand or run; none is queued or uncounted
\* once its poll has found metricQueued at zero; and all have been run once it
\* has joined the workers.
Drains(s) ==
  /\ calm[s] => /\ shuttingDown
                /\ \A p \in Posters : ppc[p] = "idle"
                /\ spc[s] \notin {"idle", "flag"}
  /\ spc[s] \in {"idle", "flag"} => atStop[s] = {}
  /\ result[s] = "nil" => spc[s] \in {"cancel", "join", "unset", "done"}
  /\ ~ForcedClear =>
       /\ atStop[s] \subseteq executed \cup ready \cup inHand
       /\ calm[s] /\ polled(s) =>
            ready = {} /\ \A w \in Workers : wpc[w] # "uncount"
       /\ calm[s] /\ result[s] = "nil" /\ spc[s] \in {"unset", "done"} =>
            atStop[s] \subseteq executed

DrainInv == \A s \in Stoppers : Drains(s)

\* Once a stopper is on the way to a forced Clear there is always one.
LEMMA ForcedStays ==
  ASSUME TypeOK, ClearIsForced, [Next]_vars, ForcedClear
  PROVE  ForcedClear'
<1> USE DEF schedVars, poolVars, posterVars, workerVars, stopVars, histVars
<1>1. ASSUME UNCHANGED <<spc, kind, result>>
      PROVE  ForcedClear'
  BY <1>1 DEF ForcedClear
<1>2. ASSUME NEW p \in Posters, PostInternal(p) \/ PosterInCall(p)
      PROVE  ForcedClear'
  BY <1>1, <1>2 DEF PostInternal, PosterInCall, PushReady, CountQueued, SendSignal
<1>3. ASSUME Start
      PROVE  ForcedClear'
  BY <1>1, <1>3 DEF Start
<1>4. ASSUME NEW w \in Workers, WorkerLoop(w)
      PROVE  ForcedClear'
  BY <1>1, <1>4 DEF WorkerLoop, PopReady, ReceiveSignal, WorkerExits, CountDequeued,
                    OnTaskStart, RunTask, OnTaskEnd
<1>5. PICK r \in Stoppers : spc[r] # "idle" /\ (kind[r] = "stop" \/ result[r] = "error")
  BY DEF ForcedClear
<1>6. ASSUME NEW s \in Stoppers, Stop(s)
      PROVE  ForcedClear'
  BY <1>5, <1>6 DEF Stop, moveStopper, ForcedClear, ClearIsForced, TypeOK
<1>7. ASSUME NEW s \in Stoppers, StopGraceful(s)
      PROVE  ForcedClear'
  BY <1>5, <1>7 DEF StopGraceful, moveStopper, ForcedClear, ClearIsForced, TypeOK
<1>8. ASSUME NEW s \in Stoppers, RaiseFlag(s)
      PROVE  ForcedClear'
  BY <1>5, <1>8 DEF RaiseFlag, moveStopper, ForcedClear, ClearIsForced, TypeOK
<1>9. ASSUME NEW s \in Stoppers, StopDelayManager(s)
      PROVE  ForcedClear'
  BY <1>5, <1>9 DEF StopDelayManager, moveStopper, ForcedClear, ClearIsForced, TypeOK
<1>10. ASSUME NEW s \in Stoppers, PollQueued(s)
      PROVE  ForcedClear'
  BY <1>5, <1>10 DEF PollQueued, moveStopper, ForcedClear, ClearIsForced, TypeOK
<1>11. ASSUME NEW s \in Stoppers, PollActive(s)
      PROVE  ForcedClear'
  BY <1>5, <1>11 DEF PollActive, moveStopper, ForcedClear, ClearIsForced, TypeOK
<1>12. ASSUME NEW s \in Stoppers, DeadlinePasses(s)
      PROVE  ForcedClear'
  BY <1>5, <1>12 DEF DeadlinePasses, moveStopper, ForcedClear, ClearIsForced, TypeOK
<1>13. ASSUME NEW s \in Stoppers, ClearReady(s)
      PROVE  ForcedClear'
  BY <1>5, <1>13 DEF ClearReady, moveStopper, ForcedClear, ClearIsForced, TypeOK
<1>14. ASSUME NEW s \in Stoppers, ZeroQueued(s)
      PROVE  ForcedClear'
  BY <1>5, <1>14 DEF ZeroQueued, moveStopper, ForcedClear, ClearIsForced, TypeOK
<1>15. ASSUME NEW s \in Stoppers, LookAtRunning(s)
      PROVE  ForcedClear'
  BY <1>5, <1>15 DEF LookAtRunning, moveStopper, ForcedClear, ClearIsForced, TypeOK
<1>16. ASSUME NEW s \in Stoppers, Cancel(s)
      PROVE  ForcedClear'
  BY <1>5, <1>16 DEF Cancel, moveStopper, ForcedClear, ClearIsForced, TypeOK
<1>17. ASSUME NEW s \in Stoppers, Join(s)
      PROVE  ForcedClear'
  BY <1>5, <1>17 DEF Join, moveStopper, ForcedClear, ClearIsForced, TypeOK
<1>18. ASSUME NEW s \in Stoppers, UnsetRunning(s)
      PROVE  ForcedClear'
  BY <1>5, <1>18 DEF UnsetRunning, moveStopper, ForcedClear, ClearIsForced, TypeOK
<1>19. CASE UNCHANGED vars
  BY <1>1, <1>19 DEF vars
<1>20. ASSUME CallerCancels
      PROVE  ForcedClear'
  BY <1>1, <1>20 DEF CallerCancels
<1> QED
  BY <1>2, <1>3, <1>4, <1>6, <1>7, <1>8, <1>9, <1>10, <1>11,
     <1>12, <1>13, <1>14, <1>15, <1>16, <1>17, <1>18, <1>19, <1>20
  DEF Next, StopperInCall

\* No task that is queued, in hand or run gets lost without a forced Clear.
LEMMA TasksKept ==
  ASSUME TypeOK, ClearIsForced, HandsEmpty, [Next]_vars, ~ForcedClear'
  PROVE  executed \cup ready \cup inHand \subseteq (executed \cup ready \cup inHand)'
<1> DEFINE kept == executed \cup ready \cup inHand
<1> USE DEF schedVars, poolVars, posterVars, workerVars, stopVars, histVars
<1>1. ASSUME UNCHANGED <<wpc, hand, executed>>, ready \subseteq ready'
      PROVE  kept \subseteq kept'
  BY <1>1 DEF inHand
<1>2. ASSUME NEW p \in Posters, PostInternal(p) \/ PosterInCall(p)
      PROVE  kept \subseteq kept'
  BY <1>1, <1>2 DEF PostInternal, PosterInCall, PushReady, CountQueued, SendSignal
<1>3. ASSUME Start
      PROVE  kept \subseteq kept'
  <2>1. CASE running
    BY <1>1, <1>3, <2>1 DEF Start
  <2>2. CASE ~running
    <3>1. inHand = {} /\ UNCHANGED <<executed, ready>>
      BY <1>3, <2>2 DEF Start, inHand, busy
    <3> QED
      BY <3>1
  <2> QED
    BY <2>1, <2>2
<1>4. ASSUME NEW w \in Workers, WorkerLoop(w)
      PROVE  kept \subseteq kept'
  <2>1. ASSUME UNCHANGED <<ready, executed, hand>>,
               \A v \in Workers : wpc[v] \in busy => wpc'[v] \in busy
        PROVE  kept \subseteq kept'
    BY <2>1 DEF inHand
  <2>2. CASE PopReady(w)
    <3>1. CASE UNCHANGED <<ready, hand>> /\ wpc[w] = "pop" /\ moveWorker(w, "select")
      BY <2>1, <2>2, <3>1 DEF PopReady, moveWorker, busy, TypeOK
    <3>2. ASSUME NEW t \in ready, ready' = ready \ {t}, hand' = [hand EXCEPT ![w] = t],
                 wpc[w] = "pop", wpc' = [wpc EXCEPT ![w] = "uncount"]
          PROVE  kept \subseteq kept'
      <4>1. UNCHANGED executed
        BY <2>2 DEF PopReady
      <4>2. \A v \in Workers : wpc[v] \in busy => v # w /\ wpc'[v] = wpc[v] /\ hand'[v] = hand[v]
        BY <3>2 DEF busy, TypeOK
      <4>3. inHand \subseteq inHand'
        BY <4>2 DEF inHand
      <4>4. t \in inHand'
        BY <3>2 DEF inHand, busy, TypeOK
      <4> QED
        BY <3>2, <4>1, <4>3, <4>4
    <3> QED
      BY <2>2, <3>1, <3>2 DEF PopReady, moveWorker
  <2>3. CASE ReceiveSignal(w) \/ WorkerExits(w) \/ OnTaskEnd(w)
    BY <2>1, <2>3 DEF ReceiveSignal, WorkerExits, OnTaskEnd, moveWorker, busy, TypeOK
  <2>4. CASE CountDequeued(w) \/ OnTaskStart(w)
    BY <2>1, <2>4 DEF CountDequeued, OnTaskStart, moveWorker, busy, TypeOK
  <2>5. CASE RunTask(w)
    <3>1. UNCHANGED ready /\ executed' = executed \cup {hand[w]}
      BY <2>5 DEF RunTask
    <3>2. \A v \in Workers \ {w} : wpc'[v] = wpc[v] /\ hand'[v] = hand[v]
      BY <2>5 DEF RunTask, moveWorker, TypeOK
    <3>3. inHand \subseteq inHand' \cup {hand[w]}
      BY <3>2 DEF inHand
    <3> QED
      BY <3>1, <3>3
  <2> QED
    BY <1>4, <2>2, <2>3, <2>4, <2>5 DEF WorkerLoop
<1>5. ASSUME NEW s \in Stoppers, Stop(s) \/ StopGraceful(s) \/ StopperInCall(s)
      PROVE  kept \subseteq kept'
  <2>1. ~ClearReady(s)
    BY ForcedStays DEF ClearReady, ClearIsForced, ForcedClear
  <2> QED
    BY <1>1, <1>5, <2>1 DEF Stop, StopGraceful, StopperInCall, RaiseFlag, StopDelayManager, PollQueued, PollActive,
       DeadlinePasses, ZeroQueued, LookAtRunning, Cancel, Join, UnsetRunning
<1>6. CASE UNCHANGED vars
  BY <1>1, <1>6 DEF vars
<1>7. ASSUME CallerCancels
      PROVE  kept \subseteq kept'
  BY <1>1, <1>7 DEF CallerCancels
<1> QED
  BY <1>2, <1>3, <1>4, <1>5, <1>6, <1>7 DEF Next

\* Nothing waits and no worker has yet to count a task it popped when
\* metricQueued is read as zero while no poster is in a call.
LEMMA ZeroMeansEmpty ==
  ASSUME IInv, ~ForcedClear, metricQueued = 0, \A p \in Posters : ppc[p] = "idle"
  PROVE  ready = {} /\ \A w \in Workers : wpc[w] # "uncount"
<1>1. postersAt({"count"}) = 0
  <2>1. {p \in Posters : ppc[p] \in {"count"}} = {}
    OBVIOUS
  <2> QED
    BY <2>1, FS_EmptySet DEF postersAt
<1>2. /\ Cardinality(ready) \in Nat /\ workersAt({"uncount"}) \in Nat
      /\ IsFiniteSet(ready)
  BY CountsAreNat, FS_CardinalityType DEF IInv
<1>3. Cardinality(ready) = 0 /\ workersAt({"uncount"}) = 0
  BY <1>1, <1>2 DEF IInv, MetricsExact
<1>4. ready = {}
  BY <1>2, <1>3, FS_EmptySet
<1>5. {w \in Workers : wpc[w] \in {"uncount"}} = {}
  <2>1. IsFiniteSet({w \in Workers : wpc[w] \in {"uncount"}})
    BY WorkersAssumption, FS_Subset
  <2> QED
    BY <1>3, <2>1, FS_EmptySet DEF workersAt
<1> QED
  BY <1>4, <1>5

\* In a new pool no stopper has raised the flag.
LEMMA InitDrain == Init => DrainInv
BY DEF Init, DrainInv, Drains, polled

\* A step that leaves a stopper where it is, and neither queues nor pops a task
\* in its calm, keeps what the stopper waits for.
LEMMA OthersDrain ==
  ASSUME TypeOK, ClearIsForced, HandsEmpty, [Next]_vars,
         NEW s \in Stoppers, Drains(s),
         UNCHANGED <<spc[s], result[s], calm[s], atStop[s]>>,
         shuttingDown => shuttingDown',
         calm[s] => \A p \in Posters : ppc'[p] = "idle",
         calm[s] /\ polled(s) /\ ~ForcedClear /\ ready = {}
           /\ (\A w \in Workers : wpc[w] # "uncount") =>
           ready' = {} /\ \A w \in Workers : wpc'[w] # "uncount",
         executed \subseteq executed'
  PROVE  Drains(s)'
<1>1. ~ForcedClear' =>
        /\ ~ForcedClear
        /\ executed \cup ready \cup inHand \subseteq (executed \cup ready \cup inHand)'
  BY ForcedStays, TasksKept
<1>2. polled(s)' = polled(s)
  BY DEF polled
<1>3. /\ calm'[s] => shuttingDown' /\ spc'[s] \notin {"idle", "flag"}
      /\ calm'[s] => \A p \in Posters : ppc'[p] = "idle"
      /\ spc'[s] \in {"idle", "flag"} => atStop'[s] = {}
      /\ result'[s] = "nil" => spc'[s] \in {"cancel", "join", "unset", "done"}
  BY DEF Drains
<1>4. ASSUME ~ForcedClear'
      PROVE  /\ atStop'[s] \subseteq (executed \cup ready \cup inHand)'
             /\ calm'[s] /\ polled(s)' =>
                  ready' = {} /\ \A w \in Workers : wpc'[w] # "uncount"
             /\ calm'[s] /\ result'[s] = "nil" /\ spc'[s] \in {"unset", "done"} =>
                  atStop'[s] \subseteq executed'
  BY <1>1, <1>2, <1>4 DEF Drains
<1> QED
  BY <1>3, <1>4 DEF Drains

\* A stopper's own step keeps what it waits for.
LEMMA OwnDrain ==
  ASSUME IInv, QuietInv, [Next]_vars, NEW s \in Stoppers, Drains(s),
         Stop(s) \/ StopGraceful(s) \/ StopperInCall(s)
  PROVE  Drains(s)'
<1> USE DEF schedVars, poolVars, posterVars, workerVars, stopVars, histVars
<1>1. TypeOK /\ ClearIsForced /\ HandsEmpty
  BY DEF IInv, QuietInv
<1>2. ~ForcedClear' =>
        /\ ~ForcedClear
        /\ executed \cup ready \cup inHand \subseteq (executed \cup ready \cup inHand)'
  BY <1>1, ForcedStays, TasksKept
<1>3. CASE Stop(s) \/ StopGraceful(s)
  <2>1. /\ UNCHANGED <<result, calm, atStop, executed, ppc>>
        /\ shuttingDown => shuttingDown'
        /\ spc[s] = "idle"
    BY <1>3 DEF Stop, StopGraceful
  <2>2. result[s] # "nil" /\ ~calm[s] /\ atStop[s] = {}
    BY <2>1 DEF Drains
  <2> QED
    BY <2>1, <2>2 DEF Drains
<1>4. CASE RaiseFlag(s)
  <2>1. /\ UNCHANGED <<result, executed, ready, wpc, hand, ppc>>
        /\ shuttingDown' /\ spc'[s] = "stopDelays"
        /\ atStop'[s] = settled
        /\ calm'[s] => \A p \in Posters : ppc[p] = "idle"
    BY <1>1, <1>4 DEF RaiseFlag, moveStopper, TypeOK
  <2>2. result[s] = "none"
    BY <1>1, <1>4 DEF RaiseFlag, ClearIsForced
  <2>3. settled \subseteq ready \cup inHand
    <3>1. ASSUME NEW w \in Workers, hand[w] # NoTask
          PROVE  hand[w] \in inHand
      BY <1>1, <3>1 DEF HandsEmpty, inHand
    <3> QED
      BY <3>1 DEF settled
  <2>4. UNCHANGED inHand
    BY <2>1 DEF inHand
  <2> QED
    BY <2>1, <2>2, <2>3, <2>4 DEF Drains, polled
<1>5. ASSUME spc[s] \notin {"idle", "flag"}, spc'[s] \notin {"idle", "flag"},
             UNCHANGED <<calm, atStop, executed, ppc, shuttingDown>>,
             result'[s] = "nil" => spc'[s] \in {"cancel", "join", "unset", "done"},
             ~ForcedClear' /\ calm[s] /\ polled(s)' =>
               ready' = {} /\ \A w \in Workers : wpc'[w] # "uncount",
             ~ForcedClear' /\ calm[s] /\ result'[s] = "nil"
               /\ spc'[s] \in {"unset", "done"} => atStop[s] \subseteq executed
      PROVE  Drains(s)'
  BY <1>2, <1>5 DEF Drains
<1>6. CASE PollQueued(s)
  <2>1. /\ UNCHANGED <<calm, atStop, executed, ppc, shuttingDown, ready, wpc, result>>
        /\ spc[s] = "pollQueued" /\ spc'[s] = "pollActive" /\ metricQueued = 0
    BY <1>1, <1>6 DEF PollQueued, moveStopper, TypeOK
  <2>2. result[s] = "none"
    BY <1>1, <2>1 DEF ClearIsForced
  <2>3. ~ForcedClear' /\ calm[s] => ready = {} /\ \A w \in Workers : wpc[w] # "uncount"
    BY <1>2, <2>1, ZeroMeansEmpty DEF Drains
  <2> QED
    BY <1>5, <2>1, <2>2, <2>3
<1>7. CASE Join(s)
  <2>1. /\ UNCHANGED <<calm, atStop, executed, ppc, shuttingDown, ready, wpc, result>>
        /\ spc[s] = "join" /\ spc'[s] = "unset"
        /\ \A w \in Workers : wpc[w] = "off"
    BY <1>1, <1>7 DEF Join, moveStopper, TypeOK
  <2>2. inHand = {}
    BY <2>1 DEF inHand, busy
  <2>3. ~ForcedClear' /\ calm[s] /\ result[s] = "nil" => atStop[s] \subseteq executed
    BY <1>2, <2>2 DEF Drains, polled
  <2>4. ~ForcedClear' /\ calm[s] /\ polled(s)' =>
          ready' = {} /\ \A w \in Workers : wpc'[w] # "uncount"
    BY <1>2, <2>1 DEF Drains, polled
  <2> QED
    BY <1>5, <2>1, <2>3, <2>4
<1>8. CASE StopDelayManager(s)
  <2>1. /\ UNCHANGED <<calm, atStop, executed, ppc, shuttingDown, wpc>>
        /\ spc[s] \notin {"idle", "flag"} /\ spc'[s] \notin {"idle", "flag"}
        /\ ready = {} => ready' = {}
    BY <1>1, <1>8 DEF StopDelayManager, moveStopper, TypeOK
  <2>2. /\ result'[s] = "nil" => spc'[s] \in {"cancel", "join", "unset", "done"}
        /\ polled(s)' => polled(s)
        /\ result'[s] = "nil" /\ spc'[s] \in {"unset", "done"} =>
             result[s] = "nil" /\ spc[s] \in {"unset", "done"}
    BY <1>1, <1>8 DEF StopDelayManager, moveStopper, TypeOK, ClearIsForced, polled, Drains
  <2> QED
    BY <1>2, <1>5, <2>1, <2>2 DEF Drains
<1>9. CASE PollActive(s)
  <2>1. /\ UNCHANGED <<calm, atStop, executed, ppc, shuttingDown, wpc>>
        /\ spc[s] \notin {"idle", "flag"} /\ spc'[s] \notin {"idle", "flag"}
        /\ ready = {} => ready' = {}
    BY <1>1, <1>9 DEF PollActive, moveStopper, TypeOK
  <2>2. /\ result'[s] = "nil" => spc'[s] \in {"cancel", "join", "unset", "done"}
        /\ polled(s)' => polled(s)
        /\ result'[s] = "nil" /\ spc'[s] \in {"unset", "done"} =>
             result[s] = "nil" /\ spc[s] \in {"unset", "done"}
    BY <1>1, <1>9 DEF PollActive, moveStopper, TypeOK, ClearIsForced, polled, Drains
  <2> QED
    BY <1>2, <1>5, <2>1, <2>2 DEF Drains
<1>10. CASE DeadlinePasses(s)
  <2>1. /\ UNCHANGED <<calm, atStop, executed, ppc, shuttingDown, wpc>>
        /\ spc[s] \notin {"idle", "flag"} /\ spc'[s] \notin {"idle", "flag"}
        /\ ready = {} => ready' = {}
    BY <1>1, <1>10 DEF DeadlinePasses, moveStopper, TypeOK
  <2>2. /\ result'[s] = "nil" => spc'[s] \in {"cancel", "join", "unset", "done"}
        /\ polled(s)' => polled(s)
        /\ result'[s] = "nil" /\ spc'[s] \in {"unset", "done"} =>
             result[s] = "nil" /\ spc[s] \in {"unset", "done"}
    BY <1>1, <1>10 DEF DeadlinePasses, moveStopper, TypeOK, ClearIsForced, polled, Drains
  <2> QED
    BY <1>2, <1>5, <2>1, <2>2 DEF Drains
<1>11. CASE ZeroQueued(s)
  <2>1. /\ UNCHANGED <<calm, atStop, executed, ppc, shuttingDown, wpc>>
        /\ spc[s] \notin {"idle", "flag"} /\ spc'[s] \notin {"idle", "flag"}
        /\ ready = {} => ready' = {}
    BY <1>1, <1>11 DEF ZeroQueued, moveStopper, TypeOK
  <2>2. /\ result'[s] = "nil" => spc'[s] \in {"cancel", "join", "unset", "done"}
        /\ polled(s)' => polled(s)
        /\ result'[s] = "nil" /\ spc'[s] \in {"unset", "done"} =>
             result[s] = "nil" /\ spc[s] \in {"unset", "done"}
    BY <1>1, <1>11 DEF ZeroQueued, moveStopper, TypeOK, ClearIsForced, polled, Drains
  <2> QED
    BY <1>2, <1>5, <2>1, <2>2 DEF Drains
<1>12. CASE LookAtRunning(s)
  <2>1. /\ UNCHANGED <<calm, atStop, executed, ppc, shuttingDown, wpc>>
        /\ spc[s] \notin {"idle", "flag"} /\ spc'[s] \notin {"idle", "flag"}
        /\ ready = {} => ready' = {}
    BY <1>1, <1>12 DEF LookAtRunning, moveStopper, TypeOK
  <2>2. /\ result'[s] = "nil" => spc'[s] \in {"cancel", "join", "unset", "done"}
        /\ polled(s)' => polled(s)
        /\ result'[s] = "nil" /\ spc'[s] \in {"unset", "done"} =>
             result[s] = "nil" /\ spc[s] \in {"unset", "done"}
    BY <1>1, <1>12 DEF LookAtRunning, moveStopper, TypeOK, ClearIsForced, polled, Drains
  <2> QED
    BY <1>2, <1>5, <2>1, <2>2 DEF Drains
<1>13. CASE Cancel(s)
  <2>1. /\ UNCHANGED <<calm, atStop, executed, ppc, shuttingDown, wpc>>
        /\ spc[s] \notin {"idle", "flag"} /\ spc'[s] \notin {"idle", "flag"}
        /\ ready = {} => ready' = {}
    BY <1>1, <1>13 DEF Cancel, moveStopper, TypeOK
  <2>2. /\ result'[s] = "nil" => spc'[s] \in {"cancel", "join", "unset", "done"}
        /\ polled(s)' => polled(s)
        /\ result'[s] = "nil" /\ spc'[s] \in {"unset", "done"} =>
             result[s] = "nil" /\ spc[s] \in {"unset", "done"}
    BY <1>1, <1>13 DEF Cancel, moveStopper, TypeOK, ClearIsForced, polled, Drains
  <2> QED
    BY <1>2, <1>5, <2>1, <2>2 DEF Drains
<1>14. CASE UnsetRunning(s)
  <2>1. /\ UNCHANGED <<calm, atStop, executed, ppc, shuttingDown, wpc>>
        /\ spc[s] \notin {"idle", "flag"} /\ spc'[s] \notin {"idle", "flag"}
        /\ ready = {} => ready' = {}
    BY <1>1, <1>14 DEF UnsetRunning, moveStopper, TypeOK
  <2>2. /\ result'[s] = "nil" => spc'[s] \in {"cancel", "join", "unset", "done"}
        /\ polled(s)' => polled(s)
        /\ result'[s] = "nil" /\ spc'[s] \in {"unset", "done"} =>
             result[s] = "nil" /\ spc[s] \in {"unset", "done"}
    BY <1>1, <1>14 DEF UnsetRunning, moveStopper, TypeOK, ClearIsForced, polled, Drains
  <2> QED
    BY <1>2, <1>5, <2>1, <2>2 DEF Drains
<1>15. CASE ClearReady(s)
  <2>1. /\ UNCHANGED <<calm, atStop, executed, ppc, shuttingDown, wpc>>
        /\ spc[s] \notin {"idle", "flag"} /\ spc'[s] \notin {"idle", "flag"}
        /\ ready = {} => ready' = {}
    BY <1>1, <1>15 DEF ClearReady, moveStopper, TypeOK
  <2>2. /\ result'[s] = "nil" => spc'[s] \in {"cancel", "join", "unset", "done"}
        /\ polled(s)' => polled(s)
        /\ result'[s] = "nil" /\ spc'[s] \in {"unset", "done"} =>
             result[s] = "nil" /\ spc[s] \in {"unset", "done"}
    BY <1>1, <1>15 DEF ClearReady, moveStopper, TypeOK, ClearIsForced, polled, Drains
  <2> QED
    BY <1>2, <1>5, <2>1, <2>2 DEF Drains
<1> QED
  BY <1>3, <1>4, <1>6, <1>7, <1>8, <1>9, <1>10, <1>11, <1>12, <1>13, <1>14, <1>15 DEF StopperInCall

\* Every step keeps what a graceful stop waits for.
LEMMA NextDrain ==
  ASSUME IInv, QuietInv, DrainInv, [Next]_vars
  PROVE  DrainInv'
<1> USE DEF schedVars, poolVars, posterVars, workerVars, stopVars, histVars
<1> SUFFICES ASSUME NEW s \in Stoppers
             PROVE  Drains(s)'
  BY DEF DrainInv
<1>1. TypeOK /\ ClearIsForced /\ HandsEmpty /\ Drains(s)
  BY DEF IInv, QuietInv, DrainInv
<1>2. calm[s] => shuttingDown /\ \A p \in Posters : ppc[p] = "idle"
  BY <1>1 DEF Drains
<1>3. ASSUME NEW p \in Posters, PostInternal(p)
      PROVE  Drains(s)'
  <2>1. /\ UNCHANGED <<spc, result, calm, atStop, shuttingDown, ready, wpc, executed>>
        /\ ppc' = [ppc EXCEPT ![p] = IF shuttingDown THEN "idle" ELSE "push"]
    BY <1>3 DEF PostInternal
  <2>2. calm[s] => \A q \in Posters : ppc'[q] = "idle"
    BY <1>1, <1>2, <2>1 DEF TypeOK
  <2> QED
    BY <1>1, <2>1, <2>2, OthersDrain
<1>4. ASSUME NEW p \in Posters, PosterInCall(p)
      PROVE  Drains(s)'
  <2>1. /\ UNCHANGED <<spc, result, calm, atStop, shuttingDown, executed>>
        /\ ppc[p] # "idle"
    BY <1>4 DEF PosterInCall, PushReady, CountQueued, SendSignal
  <2> QED
    BY <1>1, <1>2, <2>1, OthersDrain
<1>5. ASSUME Start
      PROVE  Drains(s)'
  <2>1. /\ UNCHANGED <<spc, result, calm, atStop, shuttingDown, ready, ppc, executed>>
        /\ \A w \in Workers : wpc'[w] \in {wpc[w], "pop"}
    BY <1>5 DEF Start
  <2> QED
    BY <1>1, <1>2, <2>1, OthersDrain
<1>6. ASSUME NEW w \in Workers, WorkerLoop(w)
      PROVE  Drains(s)'
  <2>1. /\ UNCHANGED <<spc, result, calm, atStop, shuttingDown, ppc>>
        /\ executed \subseteq executed'
    BY <1>6 DEF WorkerLoop, PopReady, ReceiveSignal, WorkerExits, CountDequeued,
                OnTaskStart, RunTask, OnTaskEnd
  <2>2. /\ ready = {} => ready' = {}
        /\ \A v \in Workers : wpc'[v] = "uncount" => wpc[v] = "uncount" \/ ready # {}
    <3>1. CASE PopReady(w) \/ ReceiveSignal(w) \/ WorkerExits(w) \/ CountDequeued(w)
      BY <1>1, <3>1 DEF PopReady, ReceiveSignal, WorkerExits, CountDequeued, moveWorker, TypeOK
    <3>2. CASE OnTaskStart(w) \/ RunTask(w) \/ OnTaskEnd(w)
      BY <1>1, <3>2 DEF OnTaskStart, RunTask, OnTaskEnd, moveWorker, TypeOK
    <3> QED
      BY <1>6, <3>1, <3>2 DEF WorkerLoop
  <2> QED
    BY <1>1, <1>2, <2>1, <2>2, OthersDrain
<1>7. ASSUME NEW t \in Stoppers, Stop(t) \/ StopGraceful(t) \/ StopperInCall(t)
      PROVE  Drains(s)'
  <2>1. CASE t = s
    BY <1>1, <1>7, <2>1, OwnDrain
  <2>2. CASE t # s
    <3>1. UNCHANGED <<spc[s], result[s], calm[s], atStop[s]>>
      <4>1. CASE Stop(t) \/ StopGraceful(t) \/ RaiseFlag(t) \/ StopDelayManager(t)
        BY <1>1, <2>2, <4>1 DEF Stop, StopGraceful, RaiseFlag, StopDelayManager,
                                moveStopper, TypeOK
      <4>2. CASE PollQueued(t) \/ PollActive(t) \/ DeadlinePasses(t) \/ ClearReady(t)
        BY <1>1, <2>2, <4>2 DEF PollQueued, PollActive, DeadlinePasses, ClearReady,
                                moveStopper, TypeOK
      <4>3. CASE ZeroQueued(t) \/ LookAtRunning(t) \/ Cancel(t) \/ Join(t) \/ UnsetRunning(t)
        BY <1>1, <2>2, <4>3 DEF ZeroQueued, LookAtRunning, Cancel, Join, UnsetRunning,
                                moveStopper, TypeOK
      <4> QED
        BY <1>7, <4>1, <4>2, <4>3 DEF StopperInCall
    <3>2. /\ UNCHANGED <<ppc, wpc, executed>>
          /\ ready = {} => ready' = {}
          /\ shuttingDown => shuttingDown'
      BY <1>7 DEF StopperInCall, Stop, StopGraceful, RaiseFlag, StopDelayManager,
                  PollQueued, PollActive, DeadlinePasses, ClearReady, ZeroQueued,
                  LookAtRunning, Cancel, Join, UnsetRunning
    <3> QED
      BY <1>1, <1>2, <3>1, <3>2, OthersDrain
  <2> QED
    BY <2>1, <2>2
<1>8. CASE UNCHANGED vars
  BY <1>1, <1>2, <1>8, OthersDrain DEF vars
<1>9. ASSUME CallerCancels
      PROVE  Drains(s)'
  <2>1. UNCHANGED <<spc, result, calm, atStop, shuttingDown, ready, ppc, wpc, executed>>
    BY <1>9 DEF CallerCancels
  <2> QED
    BY <1>1, <1>2, <2>1, OthersDrain
<1> QED
  BY <1>3, <1>4, <1>5, <1>6, <1>7, <1>8, <1>9 DEF Next

\* Both are invariants of the pool.
LEMMA StopInvariance == Safety => [](QuietInv /\ DrainInv)
<1>1. Init => QuietInv /\ DrainInv
  BY InitQuiet, InitDrain
<1>2. IInv /\ QuietInv /\ DrainInv /\ [Next]_vars => QuietInv' /\ DrainInv'
  BY NextQuiet, NextDrain DEF IInv
<1> QED
  BY <1>1, <1>2, Invariance, PTL DEF Safety

\* StopGraceful that returns nil has drained the pool: the tasks that were posted
\* when it raised the flag in a calm moment have been run.
THEOREM GracefulStopDrains == Safety => []GracefulDrains
<1>1. DrainInv => GracefulDrains
  BY DEF DrainInv, Drains, GracefulDrains
<1> QED
  BY <1>1, StopInvariance, PTL

\* A pool that Stop or StopGraceful brought down has no worker and no task in
\* hand, as long as no second Stop meets a restart.
THEOREM StoppedIsQuiet == Safety => []StoppedPoolIsQuiet
<1>1. QuietInv => StoppedPoolIsQuiet
  BY DEF QuietInv, StoppedPoolIsQuiet, HandsEmpty, busy, allOff
<1> QED
  BY <1>1, StopInvariance, PTL

=============================================================================
