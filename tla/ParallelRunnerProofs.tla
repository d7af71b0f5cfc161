------------------------ MODULE ParallelRunnerProofs ------------------------
(***************************************************************************)
(* Proofs about ParallelRunner for any limit on concurrency and any number *)
(* of calls: its type invariant, that runningCount counts the dispatched   *)
(* items and never exceeds the limit, and that a barrier runs only after   *)
(* everything that was posted before it.                                   *)
(***************************************************************************)
EXTENDS ParallelRunner, TLAPS, FiniteSetTheorems

\* How the number of items in the pool changes when one item changes its stage.
LEMMA PoolMoves ==
  ASSUME TypeOK, NEW i \in Item, NEW to \in Stages, move(i, to)
  PROVE  /\ IsFiniteSet(InPool)
         /\ Cardinality(InPool) \in Nat
         /\ to \in PoolStages /\ stage[i] \notin PoolStages =>
              Cardinality(InPool') = Cardinality(InPool) + 1
         /\ to \notin PoolStages /\ stage[i] \in PoolStages =>
              /\ Cardinality(InPool') = Cardinality(InPool) - 1
              /\ Cardinality(InPool') \in Nat
         /\ (to \in PoolStages <=> stage[i] \in PoolStages) => InPool' = InPool
<1>1. /\ stage \in [Item -> Stages]
      /\ stage' = [stage EXCEPT ![i] = to]
  BY DEF TypeOK, move
<1>2. IsFiniteSet(InPool)
  <2>1. IsFiniteSet(Item)
    BY CallsAssumption, FS_Interval DEF Item
  <2> QED
    BY <2>1, FS_Subset DEF InPool
<1>3. Cardinality(InPool) \in Nat
  BY <1>2, FS_CardinalityType
<1>4. ASSUME to \in PoolStages, stage[i] \notin PoolStages
      PROVE  Cardinality(InPool') = Cardinality(InPool) + 1
  <2>1. InPool' = InPool \cup {i} /\ i \notin InPool
    BY <1>1, <1>4 DEF InPool
  <2> QED
    BY <1>2, <2>1, FS_AddElement
<1>5. ASSUME to \notin PoolStages, stage[i] \in PoolStages
      PROVE  /\ Cardinality(InPool') = Cardinality(InPool) - 1
             /\ Cardinality(InPool') \in Nat
  <2>1. InPool' = InPool \ {i} /\ i \in InPool
    BY <1>1, <1>5 DEF InPool
  <2>2. Cardinality(InPool \ {i}) = Cardinality(InPool) - 1
    BY <1>2, <2>1, FS_RemoveElement
  <2>3. Cardinality(InPool \ {i}) \in Nat
    BY <1>2, FS_RemoveElement, FS_CardinalityType
  <2> QED
    BY <2>1, <2>2, <2>3
<1>6. ASSUME to \in PoolStages <=> stage[i] \in PoolStages
      PROVE  InPool' = InPool
  BY <1>1, <1>6 DEF InPool
<1> QED
  BY <1>2, <1>3, <1>4, <1>5, <1>6

\* The initial state, nothing posted, satisfies the invariant.
LEMMA InitIInv == Init => IInv
<1> SUFFICES ASSUME Init PROVE IInv
  OBVIOUS
<1>1. TypeOK
  <2>1. barrierRunning \in BOOLEAN
    BY Zenon DEF Init
  <2>2. inbox \in Seq([op : {"post", "clear", "try"}, item : Item \cup {NoItem}])
    BY DEF Init
  <2> QED
    BY <2>1, <2>2, CallsAssumption DEF Init, TypeOK, Stages
<1>2. ConcurrencyBound
  <2>1. InPool = {}
    BY DEF Init, InPool, PoolStages
  <2>2. Cardinality({}) = 0
    BY FS_EmptySet
  <2> QED
    BY <2>1, <2>2, ConcurrencyAssumption DEF Init, ConcurrencyBound
<1>3. SlotIsFree /\ BarrierAfterPrior
  BY DEF Init, SlotIsFree, BarrierAfterPrior
<1>4. Placement
  BY CallsAssumption DEF Init, Placement, Item
<1>5. InOrder
  BY DEF Init, InOrder
<1> QED
  BY <1>1, <1>2, <1>3, <1>4, <1>5 DEF IInv

Closure == [op : {"post", "clear", "try"}, item : Item \cup {NoItem}]

\* What is sent to the scheduler is appended to its channel or dropped.
LEMMA SendType ==
  ASSUME inbox \in Seq(Closure), NEW op \in {"post", "clear", "try"},
         NEW i \in Item \cup {NoItem}, send(op, i)
  PROVE  inbox' \in Seq(Closure)
<1>1. [op |-> op, item |-> i] \in Closure
  BY DEF Closure
<1> HIDE DEF Closure
<1> QED
  BY <1>1 DEF send

\* Every step keeps the types.
LEMMA NextType ==
  ASSUME IInv, [Next]_vars
  PROVE  TypeOK'
<1> USE DEF callVars, schedVars, Ended
<1>1. TypeOK
  BY DEF IInv
<1>2. inbox \in Seq(Closure)
  BY <1>1 DEF TypeOK, Closure
<1>3. ASSUME NEW k \in Kinds, Post(k)
      PROVE  TypeOK'
  <2>1. issued' \in Item /\ issued' \in 0..MaxCalls
    BY <1>1, <1>3, CallsAssumption DEF TypeOK, Post, Item
  <2>2. inbox' \in Seq(Closure)
    BY <1>2, <1>3, <2>1, SendType DEF Post
  <2>3. stage' \in [Item -> Stages] /\ kind' \in [Item -> {"task", "flush", "wait"}]
    BY <1>1, <1>3, <2>1, KindsAssumption DEF TypeOK, Post, move, Stages
  <2> QED
    BY <1>1, <1>3, <2>1, <2>2, <2>3 DEF TypeOK, Post, Closure
<1>4. ASSUME WaitIdle
      PROVE  TypeOK'
  <2>1. issued' \in Item /\ issued' \in 0..MaxCalls
    BY <1>1, <1>4, CallsAssumption DEF TypeOK, WaitIdle, Item
  <2>2. inbox' \in Seq(Closure)
    BY <1>2, <1>4, <2>1, SendType DEF WaitIdle
  <2>3. /\ stage' \in [Item -> Stages]
        /\ kind' \in [Item -> {"task", "flush", "wait"}]
        /\ waiter' \in [Item -> {"none", "waiting", "returned"}]
    BY <1>1, <1>4, <2>1 DEF TypeOK, WaitIdle, move, Stages
  <2> QED
    BY <1>1, <1>4, <2>1, <2>2, <2>3 DEF TypeOK, WaitIdle, Closure
<1>5. ASSUME NEW i \in Item,
             WaitIdleDone(i) \/ WaitIdleShutdown(i) \/ WaitIdleCancelled(i)
      PROVE  TypeOK'
  BY <1>1, <1>5 DEF TypeOK, WaitIdleDone, WaitIdleShutdown, WaitIdleCancelled
<1>6. ASSUME ReceiveClosure
      PROVE  TypeOK'
  <2> DEFINE c == Head(inbox)
  <2>1. c \in Closure /\ inbox' \in Seq(Closure)
    <3> HIDE DEF Closure
    <3> QED
      BY <1>2, <1>6 DEF ReceiveClosure
  <2>2. barrierRunning' \in BOOLEAN
    BY <1>1, <1>6, Zenon DEF TypeOK, ReceiveClosure
  <2>3. c.item \in Item \cup {NoItem}
    BY <2>1 DEF Closure
  <2>4. /\ spc' \in {"idle", "push", "try", "slot", "pop"}
        /\ current' \in Item \cup {NoItem}
        /\ stage' \in [Item -> Stages]
    BY <1>1, <1>6, <2>3 DEF TypeOK, ReceiveClosure, move, Stages
  <2> QED
    BY <1>1, <1>6, <2>1, <2>2, <2>4 DEF TypeOK, ReceiveClosure, Closure
<1>7. ASSUME Push
      PROVE  TypeOK'
  <2>1. current \in Item
    BY <1>7 DEF IInv, Placement, Push
  <2> QED
    BY <1>1, <1>7, <2>1 DEF TypeOK, Push, move, Stages
<1>8. ASSUME TrySchedule
      PROVE  TypeOK'
  <2>1. barrierRunning' \in BOOLEAN
    BY <1>1, <1>8, Zenon DEF TypeOK, TrySchedule
  <2>2. /\ stage' \in [Item -> Stages]
        /\ runningCount' \in Nat
        /\ parked' \in Item \cup {NoItem}
    <3>1. CASE ~barrierRunning /\ parked # NoItem /\ runningCount = 0
      BY <1>1, <1>8, <3>1 DEF TypeOK, TrySchedule, dispatch, move, Stages
    <3>2. CASE ~(~barrierRunning /\ parked # NoItem /\ runningCount = 0)
      BY <1>1, <1>8, <3>2 DEF TypeOK, TrySchedule
    <3> QED
      BY <3>1, <3>2
  <2>3. spc' \in {"idle", "slot"}
    BY <1>8, Zenon DEF TrySchedule
  <2> QED
    BY <1>1, <1>8, <2>1, <2>2, <2>3 DEF TypeOK, TrySchedule
<1>9. ASSUME CheckSlot
      PROVE  TypeOK'
  BY <1>1, <1>9 DEF TypeOK, CheckSlot
<1>10. ASSUME PopItem
      PROVE  TypeOK'
  <2>1. CASE queue = << >>
    BY <1>1, <1>10, <2>1 DEF TypeOK, PopItem
  <2>2. CASE queue # << >>
    <3>1. Head(queue) \in Item /\ Tail(queue) \in Seq(Item)
      BY <1>1, <2>2 DEF TypeOK
    <3>2. queue' \in Seq(Item) /\ spc' \in {"idle", "slot"}
      BY <1>10, <2>2, <3>1 DEF PopItem
    <3>3. CASE isBarrier(Head(queue)) /\ runningCount # 0
      BY <1>1, <1>10, <2>2, <3>1, <3>2, <3>3 DEF TypeOK, PopItem, move, Stages
    <3>4. CASE ~(isBarrier(Head(queue)) /\ runningCount # 0)
      BY <1>1, <1>10, <2>2, <3>1, <3>2, <3>4
      DEF TypeOK, PopItem, dispatch, move, Stages
    <3> QED
      BY <3>3, <3>4
  <2> QED
    BY <2>1, <2>2
<1>11. ASSUME NEW i \in Item, StartItem(i) \/ EndItem(i)
      PROVE  TypeOK'
  BY <1>1, <1>11 DEF TypeOK, StartItem, EndItem, move, Stages
<1>12. ASSUME NEW i \in Item, SendClear(i) \/ SendTry(i)
      PROVE  TypeOK'
  <2>1. inbox' \in Seq(Closure)
    BY <1>2, <1>12, SendType DEF SendClear, SendTry
  <2> QED
    BY <1>1, <1>12, <2>1 DEF TypeOK, SendClear, SendTry, move, Stages, Closure
<1>13. ASSUME NEW i \in Item, LeavePool(i)
      PROVE  TypeOK'
  <2>1. stage[i] = "leave" /\ move(i, "notify")
    BY <1>13 DEF LeavePool
  <2>2. Cardinality(InPool) - 1 \in Nat
    BY <1>1, <2>1, PoolMoves DEF Stages, PoolStages
  <2>3. runningCount' \in Nat
    BY <1>13, <2>2 DEF IInv, ConcurrencyBound, LeavePool
  <2> QED
    BY <1>1, <1>13, <2>3 DEF TypeOK, LeavePool, move, Stages
<1>14. ASSUME Shutdown \/ CloseChannel \/ ShutdownScheduler
      PROVE  TypeOK'
  BY <1>1, <1>14 DEF TypeOK, Shutdown, CloseChannel, ShutdownScheduler
<1>15. ASSUME ClearQueue
      PROVE  TypeOK'
  BY <1>1, <1>15 DEF TypeOK, ClearQueue, Stages
<1>16. CASE UNCHANGED vars
  BY <1>1, <1>16 DEF TypeOK, vars
<1> QED
  BY <1>3, <1>4, <1>5, <1>6, <1>7, <1>8, <1>9, <1>10, <1>11, <1>12, <1>13,
     <1>14, <1>15, <1>16
  DEF Next, SchedulerStep, ItemStep, ShutdownStep

\* An item that neither enters nor leaves the pool leaves the count right.
LEMMA CountStays ==
  ASSUME TypeOK, ConcurrencyBound, UNCHANGED runningCount,
         NEW i \in Item, NEW to \in Stages, move(i, to),
         to \in PoolStages <=> stage[i] \in PoolStages
  PROVE  ConcurrencyBound'
<1>1. InPool' = InPool
  BY PoolMoves
<1> QED
  BY <1>1 DEF ConcurrencyBound

\* An item that is dispatched takes a slot that was free.
LEMMA CountRises ==
  ASSUME TypeOK, ConcurrencyBound, runningCount < MaxConcurrency,
         NEW i \in Item, stage[i] \notin PoolStages, dispatch(i)
  PROVE  ConcurrencyBound'
<1>1. move(i, "pool") /\ runningCount' = runningCount + 1
  BY DEF dispatch
<1>2. "pool" \in Stages /\ "pool" \in PoolStages
  BY DEF Stages, PoolStages
<1>3. Cardinality(InPool') = Cardinality(InPool) + 1
  BY <1>1, <1>2, PoolMoves
<1>4. runningCount \in Nat
  BY DEF TypeOK
<1> QED
  BY <1>1, <1>3, <1>4, ConcurrencyAssumption DEF ConcurrencyBound

\* Every step keeps the count and its limit: the scheduler dispatches only after
\* it has seen a free slot, and meanwhile others can only free more of them.
LEMMA NextCount ==
  ASSUME IInv, [Next]_vars
  PROVE  ConcurrencyBound' /\ SlotIsFree'
<1> USE DEF callVars, schedVars, Ended
<1>1. TypeOK /\ ConcurrencyBound /\ SlotIsFree
  BY DEF IInv
<1>2. ASSUME UNCHANGED <<stage, runningCount>>
      PROVE  ConcurrencyBound'
  <2>1. InPool' = InPool
    BY <1>2 DEF InPool
  <2> QED
    BY <1>1, <1>2, <2>1 DEF ConcurrencyBound
<1>3. ASSUME UNCHANGED runningCount, spc' = spc \/ spc' # "pop"
      PROVE  SlotIsFree'
  BY <1>1, <1>3 DEF SlotIsFree
<1>4. ASSUME (\E k \in Kinds : Post(k)) \/ WaitIdle
      PROVE  ConcurrencyBound' /\ SlotIsFree'
  <2>1. issued' = issued + 1 /\ issued' \in Item /\ issued \in Nat
    BY <1>1, <1>4, CallsAssumption DEF TypeOK, Post, WaitIdle, Item
  <2>2. stage[issued'] = "new"
    BY <2>1 DEF IInv, Placement
  <2>3. PICK to \in {"inbox", "dropped"} : move(issued', to)
    BY <1>4 DEF Post, WaitIdle
  <2>4. UNCHANGED <<runningCount, spc>>
    BY <1>4 DEF Post, WaitIdle
  <2>5. to \in Stages /\ to \notin PoolStages /\ stage[issued'] \notin PoolStages
    BY <2>2 DEF Stages, PoolStages
  <2> QED
    BY <1>1, <1>3, <2>1, <2>3, <2>4, <2>5, CountStays
<1>5. ASSUME NEW i \in Item,
             WaitIdleDone(i) \/ WaitIdleShutdown(i) \/ WaitIdleCancelled(i)
      PROVE  ConcurrencyBound' /\ SlotIsFree'
  BY <1>2, <1>3, <1>5 DEF WaitIdleDone, WaitIdleShutdown, WaitIdleCancelled
<1>6. ASSUME ReceiveClosure
      PROVE  ConcurrencyBound' /\ SlotIsFree'
  <2>1. UNCHANGED runningCount /\ (spc' = spc \/ spc' # "pop")
    BY <1>6 DEF ReceiveClosure
  <2>2. CASE UNCHANGED stage
    BY <1>2, <1>3, <2>1, <2>2
  <2>3. CASE Head(inbox).op = "post" /\ move(Head(inbox).item, "dropped")
    <3>1. 1 \in 1..Len(inbox) /\ inbox[1] = Head(inbox)
      BY <1>1, <1>6 DEF ReceiveClosure, TypeOK
    <3>2. Head(inbox).item \in Item /\ stage[Head(inbox).item] = "inbox"
      BY <2>3, <3>1 DEF IInv, Placement, posts
    <3>3. /\ "dropped" \in Stages /\ "dropped" \notin PoolStages
          /\ stage[Head(inbox).item] \notin PoolStages
      BY <3>2 DEF Stages, PoolStages
    <3> QED
      BY <1>1, <1>3, <2>1, <2>3, <3>2, <3>3, CountStays
  <2> QED
    BY <1>6, <2>2, <2>3 DEF ReceiveClosure
<1>7. ASSUME Push
      PROVE  ConcurrencyBound' /\ SlotIsFree'
  <2>1. current \in Item /\ stage[current] = "inbox"
    BY <1>7 DEF IInv, Placement, Push
  <2>2. "queue" \in Stages /\ "queue" \notin PoolStages /\ stage[current] \notin PoolStages
    BY <2>1 DEF Stages, PoolStages
  <2>3. move(current, "queue") /\ UNCHANGED runningCount /\ spc' # "pop"
    BY <1>7 DEF Push
  <2> QED
    BY <1>1, <1>3, <2>1, <2>2, <2>3, CountStays
<1>8. ASSUME TrySchedule
      PROVE  ConcurrencyBound' /\ SlotIsFree'
  <2>1. SlotIsFree'
    <3>1. spc' # "pop"
      BY <1>8, Zenon DEF TrySchedule
    <3> QED
      BY <3>1 DEF SlotIsFree
  <2>2. CASE ~barrierRunning /\ parked # NoItem /\ runningCount = 0
    <3>1. parked \in Item /\ stage[parked] = "parked"
      BY <1>1, <2>2 DEF IInv, Placement, TypeOK
    <3>2. stage[parked] \notin PoolStages /\ runningCount < MaxConcurrency
      BY <2>2, <3>1, ConcurrencyAssumption DEF PoolStages
    <3>3. dispatch(parked)
      BY <1>8, <2>2 DEF TrySchedule
    <3> QED
      BY <1>1, <2>1, <3>1, <3>2, <3>3, CountRises
  <2>3. CASE ~(~barrierRunning /\ parked # NoItem /\ runningCount = 0)
    <3>1. UNCHANGED <<stage, runningCount>>
      BY <1>8, <2>3 DEF TrySchedule
    <3> QED
      BY <1>2, <2>1, <3>1
  <2> QED
    BY <2>2, <2>3
<1>9. ASSUME CheckSlot
      PROVE  ConcurrencyBound' /\ SlotIsFree'
  <2>1. UNCHANGED <<stage, runningCount>>
    BY <1>9 DEF CheckSlot
  <2>2. spc' = "pop" => runningCount < MaxConcurrency
    BY <1>9 DEF CheckSlot
  <2> QED
    BY <1>2, <2>1, <2>2 DEF SlotIsFree
<1>10. ASSUME PopItem
      PROVE  ConcurrencyBound' /\ SlotIsFree'
  <2>1. SlotIsFree'
    <3>1. spc' # "pop"
      BY <1>10 DEF PopItem
    <3> QED
      BY <3>1 DEF SlotIsFree
  <2>2. CASE queue = << >>
    <3>1. UNCHANGED <<stage, runningCount>>
      BY <1>10, <2>2 DEF PopItem
    <3> QED
      BY <1>2, <2>1, <3>1
  <2>3. CASE queue # << >>
    <3>1. /\ Head(queue) \in Item
          /\ 1 \in 1..Len(queue)
          /\ Head(queue) = queue[1]
      BY <1>1, <2>3 DEF TypeOK
    <3>2. stage[Head(queue)] \notin PoolStages
      BY <3>1 DEF IInv, Placement, PoolStages
    <3>3. CASE UNCHANGED runningCount /\ move(Head(queue), "parked")
      <4>1. "parked" \in Stages /\ "parked" \notin PoolStages
        BY DEF Stages, PoolStages
      <4> QED
        BY <1>1, <2>1, <3>1, <3>2, <3>3, <4>1, CountStays
    <3>4. CASE dispatch(Head(queue))
      <4>1. runningCount < MaxConcurrency
        BY <1>1, <1>10 DEF PopItem, SlotIsFree
      <4> QED
        BY <1>1, <2>1, <3>1, <3>2, <3>4, <4>1, CountRises
    <3> QED
      BY <1>10, <2>3, <3>3, <3>4 DEF PopItem
  <2> QED
    BY <2>2, <2>3
<1>11. ASSUME NEW i \in Item, StartItem(i) \/ EndItem(i) \/ SendClear(i) \/ SendTry(i)
      PROVE  ConcurrencyBound' /\ SlotIsFree'
  <2>1. PICK to \in {"exec", "ended", "leave", "done"} :
          move(i, to) /\ (to \in PoolStages <=> stage[i] \in PoolStages)
    BY <1>11 DEF StartItem, EndItem, SendClear, SendTry, PoolStages
  <2>2. UNCHANGED <<runningCount, spc>>
    BY <1>11 DEF StartItem, EndItem, SendClear, SendTry
  <2>3. to \in Stages
    BY DEF Stages
  <2> QED
    BY <1>1, <1>3, <2>1, <2>2, <2>3, CountStays
<1>12. ASSUME NEW i \in Item, LeavePool(i)
      PROVE  ConcurrencyBound' /\ SlotIsFree'
  <2>1. /\ move(i, "notify")
        /\ runningCount' = runningCount - 1
        /\ UNCHANGED spc
        /\ stage[i] \in PoolStages
    BY <1>12 DEF LeavePool, PoolStages
  <2>2. "notify" \in Stages /\ "notify" \notin PoolStages
    BY DEF Stages, PoolStages
  <2>3. Cardinality(InPool') = Cardinality(InPool) - 1
    BY <1>1, <2>1, <2>2, PoolMoves
  <2>4. runningCount \in Nat
    BY <1>1 DEF TypeOK
  <2> QED
    BY <1>1, <2>1, <2>3, <2>4, ConcurrencyAssumption DEF ConcurrencyBound, SlotIsFree
<1>13. ASSUME Shutdown \/ CloseChannel \/ ShutdownScheduler
      PROVE  ConcurrencyBound' /\ SlotIsFree'
  BY <1>2, <1>3, <1>13 DEF Shutdown, CloseChannel, ShutdownScheduler
<1>14. ASSUME ClearQueue
      PROVE  ConcurrencyBound' /\ SlotIsFree'
  <2>1. InPool' = InPool
    <3>1. ASSUME NEW i \in Item
          PROVE  stage'[i] \in PoolStages <=> stage[i] \in PoolStages
      BY <1>14 DEF ClearQueue, IInv, Placement, PoolStages
    <3> QED
      BY <3>1 DEF InPool
  <2>2. UNCHANGED <<runningCount, spc>>
    BY <1>14 DEF ClearQueue
  <2> QED
    BY <1>1, <1>3, <2>1, <2>2 DEF ConcurrencyBound
<1>15. CASE UNCHANGED vars
  BY <1>2, <1>3, <1>15 DEF vars
<1> QED
  BY <1>4, <1>5, <1>6, <1>7, <1>8, <1>9, <1>10, <1>11, <1>12, <1>13, <1>14, <1>15
  DEF Next, SchedulerStep, ItemStep, ShutdownStep

\* The stages of an item that the scheduler has dispatched.
Late == {"pool", "exec"} \cup Ended

\* Items on their way through the pool, and closures that post nothing, leave
\* the placement and the order of the waiting items alone.
LEMMA LateMoves ==
  ASSUME TypeOK, Placement, InOrder, NEW i \in Item, NEW to \in Late,
         stage[i] \in Late, move(i, to),
         UNCHANGED <<issued, queue, spc, current, parked>>,
         \/ UNCHANGED inbox
         \/ \E op \in {"clear", "try"} : send(op, NoItem)
  PROVE  Placement' /\ InOrder'
<1> USE DEF Late, Ended
<1>1. /\ stage \in [Item -> Stages]
      /\ inbox \in Seq(Closure)
      /\ queue \in Seq(Item)
  BY DEF TypeOK, Closure
<1>2. stage' = [stage EXCEPT ![i] = to]
  BY DEF move
<1>3. /\ Len(inbox') \in Nat /\ Len(inbox) \in Nat
      /\ \A n \in 1..Len(inbox) : n \in 1..Len(inbox') /\ inbox'[n] = inbox[n]
      /\ \A n \in 1..Len(inbox') : posts(n)' => n \in 1..Len(inbox) /\ inbox'[n] = inbox[n]
  <2>1. CASE UNCHANGED inbox
    BY <1>1, <2>1 DEF posts
  <2>2. ASSUME NEW op \in {"clear", "try"}, send(op, NoItem), inbox' # inbox
        PROVE  <1>3!:
    <3> DEFINE c == [op |-> op, item |-> NoItem]
    <3>1. c \in Closure /\ c.op # "post"
      BY DEF Closure
    <3>2. inbox' = Append(inbox, c)
      BY <2>2 DEF send
    <3> HIDE DEF c, Closure
    <3> QED
      BY <1>1, <3>1, <3>2 DEF posts
  <2> QED
    BY <2>1, <2>2
<1>4. \A n \in 1..Len(inbox) : posts(n)' <=> posts(n)
  BY <1>3 DEF posts
<1>5. Placement'
  <2>1. \A j \in Item : stage'[j] = "new" <=> j > issued'
    BY <1>1, <1>2 DEF Placement
  <2>2. \A n \in 1..Len(queue') : stage'[queue'[n]] = "queue"
    BY <1>1, <1>2 DEF Placement
  <2>3. \A j \in Item : stage'[j] = "queue" => \E n \in 1..Len(queue') : queue'[n] = j
    BY <1>1, <1>2 DEF Placement
  <2>4. /\ parked' # NoItem => stage'[parked'] = "parked"
        /\ \A j \in Item : stage'[j] = "parked" => parked' = j
        /\ spc' \in {"slot", "pop"} => parked' = NoItem
        /\ spc' = "push" => current' \in Item /\ stage'[current'] = "inbox"
    BY <1>1, <1>2 DEF Placement
  <2>5. ASSUME NEW n \in 1..Len(inbox'), posts(n)'
        PROVE  inbox'[n].item \in Item /\ stage'[inbox'[n].item] = "inbox"
    BY <1>1, <1>2, <1>3, <1>4, <2>5 DEF Placement
  <2>6. ASSUME NEW j \in Item, stage'[j] = "inbox"
        PROVE  \/ spc' = "push" /\ current' = j
               \/ \E n \in 1..Len(inbox') : posts(n)' /\ inbox'[n].item = j
    <3>1. stage[j] = "inbox"
      BY <1>1, <1>2, <2>6
    <3>2. \/ spc = "push" /\ current = j
          \/ \E n \in 1..Len(inbox) : posts(n) /\ inbox[n].item = j
      BY <3>1 DEF Placement
    <3> QED
      BY <1>3, <1>4, <3>2
  <2> QED
    BY <2>1, <2>2, <2>3, <2>4, <2>5, <2>6 DEF Placement
<1>6. InOrder'
  <2>1. \A m, n \in 1..Len(queue') : m < n => queue'[m] < queue'[n]
    BY DEF InOrder
  <2>2. ASSUME NEW m \in 1..Len(inbox'), NEW n \in 1..Len(inbox'),
               m < n, posts(m)', posts(n)'
        PROVE  inbox'[m].item < inbox'[n].item
    BY <1>3, <1>4, <2>2 DEF InOrder
  <2>3. ASSUME NEW n \in 1..Len(inbox'), spc' = "push", posts(n)'
        PROVE  current' < inbox'[n].item
    BY <1>3, <1>4, <2>3 DEF InOrder
  <2>4. ASSUME NEW j \in Item, NEW k \in Item, j < k, stage'[j] = "inbox"
        PROVE  stage'[k] \in {"new", "inbox", "dropped"}
    BY <1>1, <1>2, <2>4 DEF InOrder
  <2>5. ASSUME NEW j \in Item, NEW k \in Item, j < k, stage'[j] \in {"queue", "parked"}
        PROVE  stage'[k] \in {"new", "inbox", "queue", "dropped"}
    BY <1>1, <1>2, <2>5 DEF InOrder
  <2> QED
    BY <2>1, <2>2, <2>3, <2>4, <2>5 DEF InOrder
<1> QED
  BY <1>5, <1>6

\* A step that moves no item keeps placement and order when the scheduler was
\* and is not between receiving and pushing an item.
LEMMA NothingMoves ==
  ASSUME Placement, InOrder, UNCHANGED <<issued, stage, inbox, queue, current, parked>>,
         spc' = "push" <=> spc = "push",
         spc' \in {"slot", "pop"} => parked = NoItem
  PROVE  Placement' /\ InOrder'
<1>1. \A n : posts(n)' <=> posts(n)
  BY DEF posts
<1>2. Placement'
  <2>1. \A i \in Item : stage'[i] = "inbox" =>
          \/ spc' = "push" /\ current' = i
          \/ \E n \in 1..Len(inbox') : posts(n)' /\ inbox'[n].item = i
    BY <1>1 DEF Placement
  <2>2. \A n \in 1..Len(inbox') :
          posts(n)' => inbox'[n].item \in Item /\ stage'[inbox'[n].item] = "inbox"
    BY <1>1 DEF Placement
  <2> QED
    BY <2>1, <2>2 DEF Placement
<1>3. InOrder'
  <2>1. \A m, n \in 1..Len(inbox') :
          m < n /\ posts(m)' /\ posts(n)' => inbox'[m].item < inbox'[n].item
    BY <1>1 DEF InOrder
  <2>2. \A n \in 1..Len(inbox') : spc' = "push" /\ posts(n)' => current' < inbox'[n].item
    BY <1>1 DEF InOrder
  <2> QED
    BY <2>1, <2>2 DEF InOrder
<1> QED
  BY <1>2, <1>3

\* What is left in the channel once a closure has been received.
LEMMA Received ==
  ASSUME TypeOK, ReceiveClosure
  PROVE  /\ Head(inbox) = inbox[1]
         /\ 1 \in 1..Len(inbox)
         /\ \A n \in 1..Len(inbox') :
              /\ n + 1 \in 1..Len(inbox)
              /\ inbox'[n] = inbox[n + 1]
              /\ posts(n)' <=> posts(n + 1)
         /\ \A n \in 1..Len(inbox) :
              n # 1 => /\ n - 1 \in 1..Len(inbox')
                       /\ inbox'[n - 1] = inbox[n]
                       /\ posts(n - 1)' <=> posts(n)
<1>1. inbox \in Seq(Closure) /\ inbox # << >> /\ inbox' = Tail(inbox)
  BY DEF TypeOK, Closure, ReceiveClosure
<1> HIDE DEF Closure
<1>2. /\ Head(inbox) = inbox[1]
      /\ 1 \in 1..Len(inbox)
      /\ Len(inbox) \in Nat /\ Len(inbox') = Len(inbox) - 1
      /\ \A n \in 1..Len(inbox') : inbox'[n] = inbox[n + 1]
  BY <1>1
<1>3. \A n \in 1..Len(inbox') : n + 1 \in 1..Len(inbox) /\ inbox'[n] = inbox[n + 1]
  BY <1>2
<1>4. \A n \in 1..Len(inbox) :
        n # 1 => n - 1 \in 1..Len(inbox') /\ inbox'[n - 1] = inbox[n]
  BY <1>2
<1> QED
  BY <1>2, <1>3, <1>4 DEF posts

\* Receiving a closure keeps placement and order: the first item posted goes to
\* the scheduler, or is dropped, before any later one.
LEMMA ReceiveKeeps ==
  ASSUME TypeOK, Placement, InOrder, ReceiveClosure
  PROVE  Placement' /\ InOrder'
<1> DEFINE c == Head(inbox)
<1>1. /\ spc = "idle"
      /\ UNCHANGED <<issued, queue, parked>>
      /\ stage \in [Item -> Stages]
      /\ queue \in Seq(Item)
  BY DEF ReceiveClosure, TypeOK, callVars
<1>2. \A n \in 1..Len(inbox') : posts(n)' =>
        inbox'[n].item \in Item /\ stage[inbox'[n].item] = "inbox"
  BY Received DEF Placement
<1>3. \A m, n \in 1..Len(inbox') :
        m < n /\ posts(m)' /\ posts(n)' => inbox'[m].item < inbox'[n].item
  <2> SUFFICES ASSUME NEW m \in 1..Len(inbox'), NEW n \in 1..Len(inbox'),
                      m < n, posts(m)', posts(n)'
               PROVE  inbox'[m].item < inbox'[n].item
    OBVIOUS
  <2>1. /\ m + 1 \in 1..Len(inbox) /\ inbox'[m] = inbox[m + 1] /\ posts(m + 1)
        /\ n + 1 \in 1..Len(inbox) /\ inbox'[n] = inbox[n + 1] /\ posts(n + 1)
    BY Received
  <2>2. m + 1 < n + 1
    OBVIOUS
  <2> QED
    BY <2>1, <2>2 DEF InOrder
<1>4. CASE c.op # "post"
  <2>1. UNCHANGED <<stage, current>> /\ spc' \in {"idle", "try"}
    BY <1>1, <1>4 DEF ReceiveClosure
  <2>2. \A i \in Item : stage[i] = "inbox" =>
          \E n \in 1..Len(inbox') : posts(n)' /\ inbox'[n].item = i
    <3> SUFFICES ASSUME NEW i \in Item, stage[i] = "inbox"
                 PROVE  \E n \in 1..Len(inbox') : posts(n)' /\ inbox'[n].item = i
      OBVIOUS
    <3>1. PICK n \in 1..Len(inbox) : posts(n) /\ inbox[n].item = i
      BY <1>1 DEF Placement
    <3>2. n # 1
      BY <1>4, <3>1, Received DEF posts
    <3>3. n - 1 \in 1..Len(inbox') /\ posts(n - 1)' /\ inbox'[n - 1].item = i
      BY <3>1, <3>2, Received
    <3> QED
      BY <3>3
  <2>3. Placement'
    BY <1>1, <1>2, <2>1, <2>2 DEF Placement
  <2>4. InOrder'
    BY <1>1, <1>3, <2>1 DEF InOrder
  <2> QED
    BY <2>3, <2>4
<1>5. ASSUME c.op = "post"
      PROVE  /\ c.item \in Item /\ stage[c.item] = "inbox"
             /\ \A i \in Item : stage[i] = "inbox" /\ i # c.item =>
                  \E n \in 1..Len(inbox') : posts(n)' /\ inbox'[n].item = i
             /\ \A n \in 1..Len(inbox') : posts(n)' => c.item < inbox'[n].item
  <2>1. posts(1) /\ inbox[1] = c
    BY <1>5, Received DEF posts
  <2>2. c.item \in Item /\ stage[c.item] = "inbox"
    BY <2>1, Received DEF Placement
  <2>3. ASSUME NEW i \in Item, stage[i] = "inbox", i # c.item
        PROVE  \E n \in 1..Len(inbox') : posts(n)' /\ inbox'[n].item = i
    <3>1. PICK n \in 1..Len(inbox) : posts(n) /\ inbox[n].item = i
      BY <1>1, <2>3 DEF Placement
    <3>2. n # 1
      BY <2>1, <2>3, <3>1
    <3>3. n - 1 \in 1..Len(inbox') /\ posts(n - 1)' /\ inbox'[n - 1].item = i
      BY <3>1, <3>2, Received
    <3> QED
      BY <3>3
  <2>4. ASSUME NEW n \in 1..Len(inbox'), posts(n)'
        PROVE  c.item < inbox'[n].item
    <3>1. n + 1 \in 1..Len(inbox) /\ posts(n + 1) /\ inbox'[n] = inbox[n + 1]
      BY <2>4, Received
    <3>2. 1 < n + 1
      OBVIOUS
    <3> QED
      BY <2>1, <3>1, <3>2, Received DEF InOrder
  <2> QED
    BY <2>2, <2>3, <2>4
<1>6. CASE c.op = "post" /\ closed
  <2>1. stage' = [stage EXCEPT ![c.item] = "dropped"] /\ UNCHANGED <<spc, current>>
    BY <1>6 DEF ReceiveClosure, move
  <2>2. \A n \in 1..Len(inbox') : posts(n)' =>
          inbox'[n].item \in Item /\ stage'[inbox'[n].item] = "inbox"
    BY <1>1, <1>2, <1>5, <1>6, <2>1 DEF Item
  <2>3. \A i \in Item : stage'[i] = "inbox" =>
          \E n \in 1..Len(inbox') : posts(n)' /\ inbox'[n].item = i
    BY <1>1, <1>5, <1>6, <2>1
  <2>4. Placement'
    <3>1. \A i \in Item : stage'[i] = "new" <=> i > issued'
      BY <1>1, <1>5, <1>6, <2>1 DEF Placement
    <3>2. /\ \A n \in 1..Len(queue') : stage'[queue'[n]] = "queue"
          /\ \A i \in Item : stage'[i] = "queue" => \E n \in 1..Len(queue') : queue'[n] = i
      BY <1>1, <1>5, <1>6, <2>1 DEF Placement
    <3>3. /\ parked' # NoItem => stage'[parked'] = "parked"
          /\ \A i \in Item : stage'[i] = "parked" => parked' = i
          /\ spc' = "idle"
      BY <1>1, <1>5, <1>6, <2>1 DEF Placement
    <3> QED
      BY <2>2, <2>3, <3>1, <3>2, <3>3 DEF Placement
  <2>5. InOrder'
    <3>1. /\ \A i, j \in Item : i < j /\ stage'[i] = "inbox" =>
               stage'[j] \in {"new", "inbox", "dropped"}
          /\ \A i, j \in Item : i < j /\ stage'[i] \in {"queue", "parked"} =>
               stage'[j] \in {"new", "inbox", "queue", "dropped"}
      BY <1>1, <1>5, <1>6, <2>1 DEF InOrder
    <3> QED
      BY <1>1, <1>3, <2>1, <3>1 DEF InOrder
  <2> QED
    BY <2>4, <2>5
<1>7. CASE c.op = "post" /\ ~closed
  <2>1. UNCHANGED stage /\ spc' = "push" /\ current' = c.item
    BY <1>7 DEF ReceiveClosure
  <2>2. Placement'
    BY <1>1, <1>2, <1>5, <1>7, <2>1 DEF Placement
  <2>3. InOrder'
    BY <1>1, <1>3, <1>5, <1>7, <2>1 DEF InOrder
  <2> QED
    BY <2>2, <2>3
<1> QED
  BY <1>4, <1>6, <1>7

\* A new item is behind all others: in the channel's last place, or dropped.
LEMMA ArrivalKeeps ==
  ASSUME TypeOK, Placement, InOrder, (\E k \in Kinds : Post(k)) \/ WaitIdle
  PROVE  Placement' /\ InOrder'
<1> DEFINE a == issued'
<1>1. /\ a = issued + 1 /\ a \in Item /\ issued \in Nat
      /\ UNCHANGED <<queue, spc, current, parked>>
  BY CallsAssumption DEF TypeOK, Post, WaitIdle, Item, schedVars
<1>2. /\ stage \in [Item -> Stages]
      /\ inbox \in Seq(Closure)
      /\ queue \in Seq(Item)
      /\ current \in Item \cup {NoItem}
      /\ Item \subseteq Int
  BY DEF TypeOK, Closure, Item
<1>3. stage[a] = "new"
  BY <1>1, <1>2 DEF Placement
<1>4. \A j \in Item : j > a => stage[j] = "new"
  BY <1>1, <1>2 DEF Placement
<1>5. \A j \in Item : stage[j] # "new" => j < a
  BY <1>1, <1>2 DEF Placement
<1>6. PICK to \in {"inbox", "dropped"} :
        /\ stage' = [stage EXCEPT ![a] = to]
        /\ to = "dropped" => inbox' = inbox
        /\ to = "inbox" => inbox' = Append(inbox, [op |-> "post", item |-> a])
  <2>1. CASE schedulerClosed
    <3>1. closed
      BY <2>1 DEF closed, schedulerClosed
    <3>2. stage' = [stage EXCEPT ![a] = "dropped"] /\ inbox' = inbox
      BY <2>1, <3>1 DEF Post, WaitIdle, send, move
    <3> QED
      BY <3>2
  <2>2. CASE ~schedulerClosed /\ inbox' = inbox
    <3>1. [op |-> "post", item |-> a] \in Closure
      BY <1>1 DEF Closure
    <3>2. inbox # Append(inbox, [op |-> "post", item |-> a])
      <4> DEFINE c == [op |-> "post", item |-> a]
      <4> HIDE DEF c, Closure
      <4> QED
        BY <1>2, <3>1
    <3>3. stage' = [stage EXCEPT ![a] = "dropped"]
      BY <2>2, <3>2 DEF Post, WaitIdle, send, move
    <3> QED
      BY <2>2, <3>3
  <2>3. CASE ~schedulerClosed /\ inbox' # inbox
    <3>1. /\ stage' = [stage EXCEPT ![a] = "inbox"]
          /\ inbox' = Append(inbox, [op |-> "post", item |-> a])
      BY <2>3 DEF Post, WaitIdle, send, move
    <3> QED
      BY <3>1
  <2> QED
    BY <2>1, <2>2, <2>3
<1>7. /\ Len(inbox) \in Nat /\ Len(inbox') \in Nat
      /\ \A n \in 1..Len(inbox) :
           n \in 1..Len(inbox') /\ inbox'[n] = inbox[n] /\ (posts(n)' <=> posts(n))
      /\ \A n \in 1..Len(inbox') : n \notin 1..Len(inbox) =>
           n > Len(inbox) /\ n = Len(inbox') /\ to = "inbox" /\ inbox'[n].item = a
      /\ to = "inbox" => \E n \in 1..Len(inbox') : posts(n)' /\ inbox'[n].item = a
  <2> DEFINE c == [op |-> "post", item |-> a]
  <2>1. c \in Closure /\ c.op = "post" /\ c.item = a
    BY <1>1 DEF Closure
  <2>2. CASE to = "dropped"
    BY <1>2, <1>6, <2>2 DEF posts
  <2>3. CASE to = "inbox"
    <3>1. inbox' = Append(inbox, c)
      BY <1>6, <2>3
    <3> HIDE DEF c, Closure
    <3>2. /\ Len(inbox) \in Nat /\ Len(inbox') = Len(inbox) + 1
          /\ \A n \in 1..Len(inbox) : inbox'[n] = inbox[n]
          /\ inbox'[Len(inbox) + 1] = c
      BY <1>2, <2>1, <3>1
    <3>3. ASSUME NEW n, n = Len(inbox) + 1
          PROVE  posts(n)' /\ inbox'[n].item = a /\ n \in 1..Len(inbox')
      BY <2>1, <3>2, <3>3 DEF posts
    <3>4. \A n \in 1..Len(inbox) : n \in 1..Len(inbox') /\ (posts(n)' <=> posts(n))
      BY <3>2 DEF posts
    <3>5. \A n \in 1..Len(inbox') : n \notin 1..Len(inbox) =>
            n > Len(inbox) /\ n = Len(inbox') /\ n = Len(inbox) + 1
      BY <3>2
    <3>6. \E n \in 1..Len(inbox') : posts(n)' /\ inbox'[n].item = a
      BY <3>3
    <3>7. \A n \in 1..Len(inbox') : n \notin 1..Len(inbox) => inbox'[n].item = a
      BY <2>1, <3>2, <3>5
    <3> QED
      BY <2>3, <3>2, <3>4, <3>5, <3>6, <3>7
  <2> QED
    BY <2>2, <2>3
<1>8. Placement'
  <2>1. \A i \in Item : stage'[i] = "new" <=> i > issued'
    <3> SUFFICES ASSUME NEW i \in Item PROVE stage'[i] = "new" <=> i > issued'
      OBVIOUS
    <3>1. stage[i] = "new" <=> i > issued
      BY DEF Placement
    <3>2. stage'[i] = IF i = a THEN to ELSE stage[i]
      BY <1>2, <1>6
    <3> QED
      BY <1>1, <1>2, <3>1, <3>2
  <2>2. /\ \A n \in 1..Len(queue') : stage'[queue'[n]] = "queue"
        /\ \A i \in Item : stage'[i] = "queue" => \E n \in 1..Len(queue') : queue'[n] = i
    BY <1>1, <1>2, <1>3, <1>6 DEF Placement
  <2>3. /\ parked' # NoItem => stage'[parked'] = "parked"
        /\ \A i \in Item : stage'[i] = "parked" => parked' = i
        /\ spc' \in {"slot", "pop"} => parked' = NoItem
        /\ spc' = "push" => current' \in Item /\ stage'[current'] = "inbox"
    BY <1>1, <1>2, <1>3, <1>6 DEF Placement
  <2>4. ASSUME NEW n \in 1..Len(inbox'), posts(n)'
        PROVE  inbox'[n].item \in Item /\ stage'[inbox'[n].item] = "inbox"
    <3>1. CASE n \in 1..Len(inbox)
      <4>1. inbox[n].item \in Item /\ stage[inbox[n].item] = "inbox"
        BY <1>7, <2>4, <3>1 DEF Placement
      <4> QED
        BY <1>2, <1>3, <1>6, <1>7, <3>1, <4>1
    <3>2. CASE n \notin 1..Len(inbox)
      BY <1>1, <1>2, <1>6, <1>7, <3>2
    <3> QED
      BY <3>1, <3>2
  <2>5. ASSUME NEW i \in Item, stage'[i] = "inbox"
        PROVE  \/ spc' = "push" /\ current' = i
               \/ \E n \in 1..Len(inbox') : posts(n)' /\ inbox'[n].item = i
    <3>1. CASE i = a
      BY <1>2, <1>6, <1>7, <2>5, <3>1
    <3>2. CASE i # a
      <4>1. stage[i] = "inbox"
        BY <1>2, <1>6, <2>5, <3>2
      <4>2. \/ spc = "push" /\ current = i
            \/ \E n \in 1..Len(inbox) : posts(n) /\ inbox[n].item = i
        BY <4>1 DEF Placement
      <4> QED
        BY <1>1, <1>7, <4>2
    <3> QED
      BY <3>1, <3>2
  <2> QED
    BY <2>1, <2>2, <2>3, <2>4, <2>5 DEF Placement
<1>9. InOrder'
  <2>1. \A m, n \in 1..Len(queue') : m < n => queue'[m] < queue'[n]
    BY <1>1 DEF InOrder
  <2>2. ASSUME NEW m \in 1..Len(inbox'), NEW n \in 1..Len(inbox'),
               m < n, posts(m)', posts(n)'
        PROVE  inbox'[m].item < inbox'[n].item
    <3>1. m \in 1..Len(inbox)
      BY <1>7, <2>2
    <3>2. CASE n \in 1..Len(inbox)
      BY <1>7, <2>2, <3>1, <3>2 DEF InOrder
    <3>3. CASE n \notin 1..Len(inbox)
      <4>1. inbox[m].item \in Item /\ stage[inbox[m].item] = "inbox"
        BY <1>7, <2>2, <3>1 DEF Placement
      <4> QED
        BY <1>5, <1>7, <3>1, <3>3, <4>1
    <3> QED
      BY <3>2, <3>3
  <2>3. ASSUME NEW n \in 1..Len(inbox'), spc' = "push", posts(n)'
        PROVE  current' < inbox'[n].item
    <3>1. CASE n \in 1..Len(inbox)
      BY <1>1, <1>7, <2>3, <3>1 DEF InOrder
    <3>2. CASE n \notin 1..Len(inbox)
      <4>1. current \in Item /\ stage[current] = "inbox"
        BY <1>1, <2>3 DEF Placement
      <4> QED
        BY <1>1, <1>5, <1>7, <3>2, <4>1
    <3> QED
      BY <3>1, <3>2
  <2>4. ASSUME NEW i \in Item, NEW j \in Item, i < j
        PROVE  /\ stage'[i] = "inbox" => stage'[j] \in {"new", "inbox", "dropped"}
               /\ stage'[i] \in {"queue", "parked"} =>
                    stage'[j] \in {"new", "inbox", "queue", "dropped"}
    <3>1. CASE j = a
      BY <1>2, <1>6, <3>1
    <3>2. CASE i = a
      BY <1>2, <1>4, <1>6, <2>4, <3>2
    <3>3. CASE i # a /\ j # a
      BY <1>2, <1>6, <2>4, <3>3 DEF InOrder
    <3> QED
      BY <3>1, <3>2, <3>3
  <2> QED
    BY <2>1, <2>2, <2>3, <2>4 DEF InOrder
<1> QED
  BY <1>8, <1>9

\* The item that is pushed came after everything in the queue and before
\* everything in the channel.
LEMMA PushKeeps ==
  ASSUME TypeOK, Placement, InOrder, Push
  PROVE  Placement' /\ InOrder'
<1>1. /\ spc = "push" /\ spc' = "try"
      /\ UNCHANGED <<issued, inbox, parked>>
      /\ queue' = Append(queue, current)
      /\ stage' = [stage EXCEPT ![current] = "queue"]
      /\ stage \in [Item -> Stages]
      /\ queue \in Seq(Item)
      /\ Item \subseteq Int
  BY DEF Push, move, TypeOK, callVars, Item
<1>2. current \in Item /\ stage[current] = "inbox"
  BY <1>1 DEF Placement
<1>3. /\ Len(queue) \in Nat /\ Len(queue') = Len(queue) + 1
      /\ \A n \in 1..Len(queue) : n \in 1..Len(queue') /\ queue'[n] = queue[n]
      /\ queue'[Len(queue')] = current
      /\ \A n \in 1..Len(queue') : n \notin 1..Len(queue) => n = Len(queue')
  BY <1>1, <1>2
<1>4. \A n : posts(n)' <=> posts(n)
  BY <1>1 DEF posts
<1>5. \A i \in Item : i # current => stage'[i] = stage[i]
  BY <1>1
<1>6. \A n \in 1..Len(inbox) : posts(n) =>
        inbox[n].item \in Item /\ inbox[n].item # current
  BY <1>1, <1>2 DEF Placement, InOrder
<1>7. Placement'
  <2>1. \A i \in Item : stage'[i] = "new" <=> i > issued'
    BY <1>1, <1>2 DEF Placement
  <2>2. ASSUME NEW n \in 1..Len(queue')
        PROVE  stage'[queue'[n]] = "queue"
    <3>1. CASE n \in 1..Len(queue)
      <4>1. queue[n] \in Item /\ stage[queue[n]] = "queue"
        BY <1>1, <3>1 DEF Placement
      <4> QED
        BY <1>1, <1>2, <1>3, <3>1, <4>1
    <3>2. CASE n \notin 1..Len(queue)
      BY <1>1, <1>2, <1>3, <3>2
    <3> QED
      BY <3>1, <3>2
  <2>3. ASSUME NEW i \in Item, stage'[i] = "queue"
        PROVE  \E n \in 1..Len(queue') : queue'[n] = i
    <3>1. CASE i = current
      BY <1>3, <3>1
    <3>2. CASE i # current
      BY <1>3, <1>5, <2>3, <3>2 DEF Placement
    <3> QED
      BY <3>1, <3>2
  <2>4. /\ parked' # NoItem => stage'[parked'] = "parked"
        /\ \A i \in Item : stage'[i] = "parked" => parked' = i
    BY <1>1, <1>2 DEF Placement
  <2>5. \A n \in 1..Len(inbox') :
          posts(n)' => inbox'[n].item \in Item /\ stage'[inbox'[n].item] = "inbox"
    BY <1>1, <1>4, <1>5, <1>6 DEF Placement
  <2>6. \A i \in Item : stage'[i] = "inbox" =>
          \E n \in 1..Len(inbox') : posts(n)' /\ inbox'[n].item = i
    <3> SUFFICES ASSUME NEW i \in Item, stage'[i] = "inbox"
                 PROVE  \E n \in 1..Len(inbox') : posts(n)' /\ inbox'[n].item = i
      OBVIOUS
    <3>1. i # current /\ stage[i] = "inbox"
      BY <1>1, <1>2
    <3>2. PICK n \in 1..Len(inbox) : posts(n) /\ inbox[n].item = i
      BY <3>1 DEF Placement
    <3> QED
      BY <1>1, <1>4, <3>2
  <2> QED
    BY <1>1, <2>1, <2>2, <2>3, <2>4, <2>5, <2>6 DEF Placement
<1>8. InOrder'
  <2>1. ASSUME NEW m \in 1..Len(queue'), NEW n \in 1..Len(queue'), m < n
        PROVE  queue'[m] < queue'[n]
    <3>1. m \in 1..Len(queue) /\ queue'[m] = queue[m]
      BY <1>3, <2>1
    <3>2. CASE n \in 1..Len(queue)
      BY <1>3, <2>1, <3>1, <3>2 DEF InOrder
    <3>3. CASE n \notin 1..Len(queue)
      <4>1. queue'[n] = current
        BY <1>3, <3>3
      <4>2. queue[m] \in Item /\ stage[queue[m]] = "queue"
        BY <1>1, <3>1 DEF Placement
      <4>3. ~(current < queue[m]) /\ current # queue[m]
        BY <1>2, <4>2 DEF InOrder
      <4>4. current \in Int /\ queue[m] \in Int
        BY <1>1, <1>2, <4>2
      <4>5. queue[m] < current
        BY <4>3, <4>4
      <4> QED
        BY <3>1, <4>1, <4>5
    <3> QED
      BY <3>2, <3>3
  <2>2. \A m, n \in 1..Len(inbox') :
          m < n /\ posts(m)' /\ posts(n)' => inbox'[m].item < inbox'[n].item
    BY <1>1, <1>4 DEF InOrder
  <2>3. ASSUME NEW i \in Item, NEW j \in Item, i < j, stage'[i] = "inbox"
        PROVE  stage'[j] \in {"new", "inbox", "dropped"}
    <3>1. i # current /\ stage[i] = "inbox"
      BY <1>1, <1>2, <2>3
    <3>2. PICK n \in 1..Len(inbox) : posts(n) /\ inbox[n].item = i
      BY <1>1, <3>1 DEF Placement
    <3>3. current < i
      BY <1>1, <3>2 DEF InOrder
    <3>4. j # current
      BY <1>1, <1>2, <2>3, <3>3
    <3> QED
      BY <1>5, <2>3, <3>1, <3>4 DEF InOrder
  <2>4. ASSUME NEW i \in Item, NEW j \in Item, i < j, stage'[i] \in {"queue", "parked"}
        PROVE  stage'[j] \in {"new", "inbox", "queue", "dropped"}
    <3>1. CASE j = current
      BY <1>1, <3>1
    <3>2. CASE j # current /\ i # current
      BY <1>5, <2>4, <3>2 DEF InOrder
    <3>3. CASE j # current /\ i = current
      BY <1>2, <1>5, <2>4, <3>3 DEF InOrder
    <3> QED
      BY <3>1, <3>2, <3>3
  <2> QED
    BY <1>1, <2>1, <2>2, <2>3, <2>4 DEF InOrder
<1> QED
  BY <1>7, <1>8

\* The parked barrier goes to the pool before the items behind it.
LEMMA TryKeeps ==
  ASSUME TypeOK, Placement, InOrder, TrySchedule
  PROVE  Placement' /\ InOrder'
<1>1. /\ spc = "try" /\ spc' \in {"idle", "slot"}
      /\ spc' = "slot" => parked = NoItem
      /\ UNCHANGED <<issued, inbox, queue, current>>
  <2>1. spc = "try" /\ UNCHANGED <<issued, inbox, queue, current>>
    BY DEF TrySchedule, callVars
  <2>2. spc' = "idle" \/ (spc' = "slot" /\ parked = NoItem)
    BY Zenon DEF TrySchedule
  <2> QED
    BY <2>1, <2>2
<1>2. CASE ~barrierRunning /\ parked # NoItem /\ runningCount = 0
  <2>1. /\ stage' = [stage EXCEPT ![parked] = "pool"]
        /\ parked' = NoItem
        /\ parked \in Item
        /\ stage \in [Item -> Stages]
        /\ queue \in Seq(Item)
    BY <1>2 DEF TrySchedule, dispatch, move, TypeOK
  <2>2. stage[parked] = "parked"
    BY <1>2 DEF Placement
  <2>3. \A n : posts(n)' <=> posts(n)
    BY <1>1 DEF posts
  <2>4. Placement'
    <3>1. \A i \in Item : stage'[i] = "new" <=> i > issued'
      BY <1>1, <2>1, <2>2 DEF Placement
    <3>2. /\ \A n \in 1..Len(queue') : stage'[queue'[n]] = "queue"
          /\ \A i \in Item : stage'[i] = "queue" => \E n \in 1..Len(queue') : queue'[n] = i
      BY <1>1, <2>1, <2>2 DEF Placement
    <3>3. \A i \in Item : stage'[i] # "parked"
      BY <2>1, <2>2 DEF Placement
    <3>4. \A n \in 1..Len(inbox') :
            posts(n)' => inbox'[n].item \in Item /\ stage'[inbox'[n].item] = "inbox"
      BY <1>1, <2>1, <2>2, <2>3 DEF Placement
    <3>5. \A i \in Item : stage'[i] = "inbox" =>
            \E n \in 1..Len(inbox') : posts(n)' /\ inbox'[n].item = i
      BY <1>1, <2>1, <2>2, <2>3 DEF Placement
    <3> QED
      BY <1>1, <2>1, <3>1, <3>2, <3>3, <3>4, <3>5 DEF Placement
  <2>5. InOrder'
    <3>1. \A m, n \in 1..Len(inbox') :
            m < n /\ posts(m)' /\ posts(n)' => inbox'[m].item < inbox'[n].item
      BY <1>1, <2>3 DEF InOrder
    <3>2. ASSUME NEW i \in Item, NEW j \in Item, i < j
          PROVE  /\ stage'[i] = "inbox" => stage'[j] \in {"new", "inbox", "dropped"}
                 /\ stage'[i] \in {"queue", "parked"} =>
                      stage'[j] \in {"new", "inbox", "queue", "dropped"}
      BY <2>1, <2>2, <3>2 DEF InOrder
    <3> QED
      BY <1>1, <3>1, <3>2 DEF InOrder
  <2> QED
    BY <2>4, <2>5
<1>3. CASE ~(~barrierRunning /\ parked # NoItem /\ runningCount = 0)
  <2>1. UNCHANGED <<stage, parked>>
    BY <1>3 DEF TrySchedule
  <2> QED
    BY <1>1, <2>1, NothingMoves
<1> QED
  BY <1>2, <1>3

\* The head of the queue is its earliest item; nothing is parked then.
LEMMA PopKeeps ==
  ASSUME TypeOK, Placement, InOrder, PopItem
  PROVE  Placement' /\ InOrder'
<1>1. /\ spc = "pop" /\ spc' \in {"idle", "slot"}
      /\ UNCHANGED <<issued, inbox, current>>
      /\ stage \in [Item -> Stages]
      /\ queue \in Seq(Item)
      /\ Item \subseteq Int
  BY DEF PopItem, TypeOK, callVars, Item
<1>2. parked = NoItem
  BY <1>1 DEF Placement
<1>3. CASE queue = << >>
  <2>1. UNCHANGED <<queue, stage, parked>>
    BY <1>3 DEF PopItem
  <2> QED
    BY <1>1, <1>2, <2>1, NothingMoves
<1>4. CASE queue # << >>
  <2> DEFINE h == Head(queue)
  <2>1. /\ h = queue[1] /\ 1 \in 1..Len(queue) /\ h \in Item
        /\ Len(queue) \in Nat /\ queue' = Tail(queue) /\ Len(queue') = Len(queue) - 1
        /\ \A n \in 1..Len(queue') : queue'[n] = queue[n + 1]
    BY <1>1, <1>4 DEF PopItem
  <2>2. /\ \A n \in 1..Len(queue') : n + 1 \in 1..Len(queue) /\ queue'[n] = queue[n + 1]
        /\ \A n \in 1..Len(queue) : n # 1 => n - 1 \in 1..Len(queue') /\ queue'[n - 1] = queue[n]
    BY <2>1
  <2>3. stage[h] = "queue"
    BY <2>1 DEF Placement
  <2>4. PICK to \in {"pool", "parked"} :
          /\ stage' = [stage EXCEPT ![h] = to]
          /\ to = "parked" => parked' = h /\ spc' = "idle"
          /\ to = "pool" => parked' = NoItem
    BY <1>2, <1>4 DEF PopItem, dispatch, move
  <2>5. \A n : posts(n)' <=> posts(n)
    BY <1>1 DEF posts
  <2>6. \A i \in Item : i # h => stage'[i] = stage[i]
    BY <1>1, <2>4
  <2>7. stage'[h] = to
    BY <1>1, <2>1, <2>4
  <2>8. \A n \in 1..Len(queue') : queue'[n] \in Item /\ queue'[n] # h /\ h < queue'[n]
    <3> SUFFICES ASSUME NEW n \in 1..Len(queue')
                 PROVE  queue'[n] \in Item /\ queue'[n] # h /\ h < queue'[n]
      OBVIOUS
    <3>1. n + 1 \in 1..Len(queue) /\ queue'[n] = queue[n + 1] /\ 1 < n + 1
      BY <2>2
    <3>2. queue[1] < queue[n + 1] /\ queue[n + 1] \in Item
      BY <1>1, <2>1, <3>1 DEF InOrder
    <3>3. queue[1] \in Int /\ queue[n + 1] \in Int
      BY <1>1, <2>1, <3>2
    <3>4. queue[n + 1] # queue[1]
      BY <3>2, <3>3
    <3> QED
      BY <2>1, <3>1, <3>2, <3>4
  <2>9. \A i \in Item : stage[i] = "queue" /\ i # h => h < i
    <3> SUFFICES ASSUME NEW i \in Item, stage[i] = "queue", i # h
                 PROVE  h < i
      OBVIOUS
    <3>1. PICK n \in 1..Len(queue) : queue[n] = i
      BY DEF Placement
    <3>2. n # 1
      BY <2>1, <3>1
    <3> QED
      BY <2>2, <2>8, <3>1, <3>2
  <2>10. Placement'
    <3>1. \A i \in Item : stage'[i] = "new" <=> i > issued'
      BY <1>1, <2>3, <2>4, <2>6, <2>7 DEF Placement
    <3>2. ASSUME NEW n \in 1..Len(queue')
          PROVE  stage'[queue'[n]] = "queue"
      <4>1. stage[queue'[n]] = "queue"
        BY <2>2 DEF Placement
      <4> QED
        BY <2>6, <2>8, <4>1
    <3>3. ASSUME NEW i \in Item, stage'[i] = "queue"
          PROVE  \E n \in 1..Len(queue') : queue'[n] = i
      <4>1. i # h /\ stage[i] = "queue"
        BY <2>6, <2>7, <3>3
      <4>2. PICK n \in 1..Len(queue) : queue[n] = i
        BY <4>1 DEF Placement
      <4>3. n # 1
        BY <2>1, <4>1, <4>2
      <4> QED
        BY <2>2, <4>2, <4>3
    <3>4. /\ parked' # NoItem => stage'[parked'] = "parked"
          /\ \A i \in Item : stage'[i] = "parked" => parked' = i
          /\ spc' \in {"slot", "pop"} => parked' = NoItem
      <4>1. ASSUME NEW i \in Item
            PROVE  stage[i] # "parked"
        BY <1>2, CallsAssumption DEF Placement, NoItem, Item
      <4> QED
        BY <1>1, <2>1, <2>4, <2>6, <2>7, <4>1
    <3>5. \A n \in 1..Len(inbox') :
            posts(n)' => inbox'[n].item \in Item /\ stage'[inbox'[n].item] = "inbox"
      BY <1>1, <2>3, <2>5, <2>6 DEF Placement
    <3>6. \A i \in Item : stage'[i] = "inbox" =>
            \E n \in 1..Len(inbox') : posts(n)' /\ inbox'[n].item = i
      <4> SUFFICES ASSUME NEW i \in Item, stage'[i] = "inbox"
                   PROVE  \E n \in 1..Len(inbox') : posts(n)' /\ inbox'[n].item = i
        OBVIOUS
      <4>1. stage[i] = "inbox"
        BY <2>6, <2>7
      <4>2. PICK n \in 1..Len(inbox) : posts(n) /\ inbox[n].item = i
        BY <1>1, <4>1 DEF Placement
      <4> QED
        BY <1>1, <2>5, <4>2
    <3> QED
      BY <1>1, <3>1, <3>2, <3>3, <3>4, <3>5, <3>6 DEF Placement
  <2>11. InOrder'
    <3>1. ASSUME NEW m \in 1..Len(queue'), NEW n \in 1..Len(queue'), m < n
          PROVE  queue'[m] < queue'[n]
      <4>1. /\ m + 1 \in 1..Len(queue) /\ queue'[m] = queue[m + 1]
            /\ n + 1 \in 1..Len(queue) /\ queue'[n] = queue[n + 1]
            /\ m + 1 < n + 1
        BY <2>2, <3>1
      <4> QED
        BY <4>1 DEF InOrder
    <3>2. \A m, n \in 1..Len(inbox') :
            m < n /\ posts(m)' /\ posts(n)' => inbox'[m].item < inbox'[n].item
      BY <1>1, <2>5 DEF InOrder
    <3>3. ASSUME NEW i \in Item, NEW j \in Item, i < j, stage'[i] = "inbox"
          PROVE  stage'[j] \in {"new", "inbox", "dropped"}
      <4>1. i # h /\ stage[i] = "inbox"
        BY <2>6, <2>7, <3>3
      <4>2. stage[j] \in {"new", "inbox", "dropped"}
        BY <3>3, <4>1 DEF InOrder
      <4> QED
        BY <2>3, <2>6, <4>2
    <3>4. ASSUME NEW i \in Item, NEW j \in Item, i < j, stage'[i] \in {"queue", "parked"}
          PROVE  stage'[j] \in {"new", "inbox", "queue", "dropped"}
      <4>1. stage[i] \in {"queue", "parked"}
        BY <2>3, <2>6, <3>4
      <4>2. stage[j] \in {"new", "inbox", "queue", "dropped"}
        BY <3>4, <4>1 DEF InOrder
      <4>3. stage[i] # "parked"
        BY <1>2, CallsAssumption DEF Placement, NoItem, Item
      <4>4. j # h
        <5>1. i # h => h < i
          BY <2>9, <4>1, <4>3
        <5>2. i \in Int /\ j \in Int /\ h \in Int
          BY <1>1, <2>1
        <5> QED
          BY <3>4, <5>1, <5>2
      <4> QED
        BY <2>6, <4>2, <4>4
    <3> QED
      BY <1>1, <3>1, <3>2, <3>3, <3>4 DEF InOrder
  <2> QED
    BY <2>10, <2>11
<1> QED
  BY <1>3, <1>4

\* Clearing the queue drops just the items in it.
LEMMA ClearKeeps ==
  ASSUME TypeOK, Placement, InOrder, ClearQueue
  PROVE  Placement' /\ InOrder'
<1>1. /\ UNCHANGED <<issued, inbox, spc, current, parked>>
      /\ queue' = << >>
      /\ Len(queue') = 0
      /\ queue \in Seq(Item)
  BY DEF ClearQueue, TypeOK, callVars, schedVars
<1>2. \A i \in Item : stage'[i] = IF stage[i] = "queue" THEN "dropped" ELSE stage[i]
  BY DEF ClearQueue, Placement
<1>3. \A n : posts(n)' <=> posts(n)
  BY <1>1 DEF posts
<1>4. Placement'
  <2>1. \A i \in Item : stage'[i] = "new" <=> i > issued'
    BY <1>1, <1>2 DEF Placement
  <2>2. \A i \in Item : stage'[i] # "queue"
    BY <1>2
  <2>3. parked \in Item \cup {NoItem}
    BY DEF TypeOK
  <2>4. /\ parked' # NoItem => stage'[parked'] = "parked"
        /\ \A i \in Item : stage'[i] = "parked" => parked' = i
        /\ spc' \in {"slot", "pop"} => parked' = NoItem
        /\ spc' = "push" => current' \in Item /\ stage'[current'] = "inbox"
    BY <1>1, <1>2, <2>3 DEF Placement
  <2>5. \A n \in 1..Len(inbox') :
          posts(n)' => inbox'[n].item \in Item /\ stage'[inbox'[n].item] = "inbox"
    BY <1>1, <1>2, <1>3 DEF Placement
  <2>6. \A i \in Item : stage'[i] = "inbox" =>
          \/ spc' = "push" /\ current' = i
          \/ \E n \in 1..Len(inbox') : posts(n)' /\ inbox'[n].item = i
    BY <1>1, <1>2, <1>3 DEF Placement
  <2> QED
    BY <1>1, <2>1, <2>2, <2>4, <2>5, <2>6 DEF Placement
<1>5. InOrder'
  <2>1. /\ \A m, n \in 1..Len(inbox') :
             m < n /\ posts(m)' /\ posts(n)' => inbox'[m].item < inbox'[n].item
        /\ \A n \in 1..Len(inbox') : spc' = "push" /\ posts(n)' => current' < inbox'[n].item
    BY <1>1, <1>3 DEF InOrder
  <2>2. ASSUME NEW i \in Item, NEW j \in Item, i < j
        PROVE  /\ stage'[i] = "inbox" => stage'[j] \in {"new", "inbox", "dropped"}
               /\ stage'[i] \in {"queue", "parked"} =>
                    stage'[j] \in {"new", "inbox", "queue", "dropped"}
    BY <1>2, <2>2 DEF InOrder
  <2> QED
    BY <1>1, <2>1, <2>2 DEF InOrder
<1> QED
  BY <1>4, <1>5

\* The stages in which an item no longer holds a barrier up.
Over == Ended \cup {"dropped"}

\* A step that dispatches nothing cannot start a barrier too early.
LEMMA BarrierStays ==
  ASSUME BarrierAfterPrior,
         \A i \in Item : stage[i] \in Over => stage'[i] \in Over,
         \A i \in Item : stage'[i] \in {"pool", "exec"} =>
           stage[i] \in {"pool", "exec"} /\ kind'[i] = kind[i]
  PROVE  BarrierAfterPrior'
<1> SUFFICES ASSUME NEW b \in Item, isBarrier(b)', stage'[b] \in {"pool", "exec"},
                    NEW i \in 1..(b - 1)
             PROVE  stage'[i] \in Over
  BY DEF BarrierAfterPrior, Over
<1>1. isBarrier(b) /\ stage[b] \in {"pool", "exec"}
  BY DEF isBarrier
<1>2. i \in Item
  BY CallsAssumption DEF Item
<1>3. stage[i] \in Over
  BY <1>1 DEF BarrierAfterPrior, Over
<1> QED
  BY <1>2, <1>3

\* A barrier is dispatched when the pool is empty and no earlier item waits in
\* the queue: then all earlier items are over.
LEMMA BarrierStarts ==
  ASSUME TypeOK, Placement, InOrder, ConcurrencyBound, BarrierAfterPrior,
         NEW h \in Item, dispatch(h), UNCHANGED kind,
         stage[h] \in {"queue", "parked"},
         isBarrier(h) => /\ runningCount = 0
                         /\ \A i \in Item : i < h => stage[i] \notin {"queue", "parked"}
  PROVE  BarrierAfterPrior'
<1>1. stage \in [Item -> Stages] /\ stage' = [stage EXCEPT ![h] = "pool"]
  BY DEF TypeOK, dispatch, move
<1>2. SUFFICES ASSUME NEW b \in Item, isBarrier(b)', stage'[b] \in {"pool", "exec"},
                      NEW i \in 1..(b - 1)
               PROVE  stage'[i] \in Over
  BY DEF BarrierAfterPrior, Over
<1>3. isBarrier(b)
  BY <1>2 DEF isBarrier
<1>4. i \in Item /\ i < b
  BY CallsAssumption DEF Item
<1>5. CASE b = h
  <2>1. stage[i] # "new"
    <3>1. (stage[h] = "new" <=> h > issued) /\ (stage[i] = "new" <=> i > issued)
      BY <1>4 DEF Placement
    <3>2. issued \in Int /\ h \in Int /\ i \in Int
      BY <1>4 DEF TypeOK, Item
    <3> QED
      BY <1>4, <1>5, <3>1, <3>2
  <2>2. stage[i] # "inbox"
    BY <1>4, <1>5 DEF InOrder
  <2>3. stage[i] \notin {"queue", "parked"}
    BY <1>3, <1>4, <1>5
  <2>4. stage[i] \notin PoolStages
    <3>1. IsFiniteSet(InPool)
      BY PoolMoves DEF dispatch, Stages
    <3>2. Cardinality(InPool) = 0
      BY <1>3, <1>5 DEF ConcurrencyBound
    <3>3. InPool = {}
      BY <3>1, <3>2, FS_EmptySet
    <3> QED
      BY <1>4, <3>3 DEF InPool
  <2>5. stage[i] \in Over
    BY <1>1, <1>4, <2>1, <2>2, <2>3, <2>4 DEF Stages, PoolStages, Over, Ended
  <2>6. i # h
    BY <1>4, <1>5 DEF Item
  <2> QED
    BY <1>1, <1>4, <2>5, <2>6
<1>6. CASE b # h
  <2>1. stage[b] \in {"pool", "exec"}
    BY <1>1, <1>2, <1>6
  <2>2. stage[i] \in Over
    BY <1>3, <2>1 DEF BarrierAfterPrior, Over
  <2>3. i # h
    BY <2>2 DEF Over, Ended
  <2> QED
    BY <1>1, <1>4, <2>2, <2>3
<1> QED
  BY <1>5, <1>6

\* Every step keeps the placement and the order of the items, and starts no
\* barrier before its time.
LEMMA NextOrder ==
  ASSUME IInv, [Next]_vars
  PROVE  Placement' /\ InOrder' /\ BarrierAfterPrior'
<1> USE DEF callVars, schedVars, Over, Ended
<1>1. /\ TypeOK /\ Placement /\ InOrder /\ ConcurrencyBound /\ BarrierAfterPrior
      /\ stage \in [Item -> Stages]
  BY DEF IInv, TypeOK
<1>2. ASSUME UNCHANGED <<stage, kind>>
      PROVE  BarrierAfterPrior'
  BY <1>1, <1>2, BarrierStays
<1>3. ASSUME (\E k \in Kinds : Post(k)) \/ WaitIdle
      PROVE  Placement' /\ InOrder' /\ BarrierAfterPrior'
  <2>1. Placement' /\ InOrder'
    BY <1>1, <1>3, ArrivalKeeps
  <2>2. issued' = issued + 1 /\ issued' \in Item /\ issued \in Nat
    BY <1>1, <1>3, CallsAssumption DEF TypeOK, Post, WaitIdle, Item
  <2>3. stage[issued'] = "new"
    BY <1>1, <2>2 DEF Placement
  <2>4. \A i \in Item : i # issued' => stage'[i] = stage[i] /\ kind'[i] = kind[i]
    BY <1>1, <1>3, <2>2 DEF Post, WaitIdle, move, TypeOK
  <2>5. stage'[issued'] \in {"inbox", "dropped"}
    BY <1>1, <1>3, <2>2 DEF Post, WaitIdle, move
  <2> QED
    BY <1>1, <2>1, <2>3, <2>4, <2>5, BarrierStays
<1>4. ASSUME NEW i \in Item,
             WaitIdleDone(i) \/ WaitIdleShutdown(i) \/ WaitIdleCancelled(i)
      PROVE  Placement' /\ InOrder' /\ BarrierAfterPrior'
  <2>1. UNCHANGED <<issued, stage, kind, inbox, queue, current, parked, spc>>
    BY <1>4 DEF WaitIdleDone, WaitIdleShutdown, WaitIdleCancelled
  <2>2. spc \in {"slot", "pop"} => parked = NoItem
    BY <1>1 DEF Placement
  <2> QED
    BY <1>1, <1>2, <2>1, <2>2, NothingMoves
<1>5. ASSUME ReceiveClosure
      PROVE  Placement' /\ InOrder' /\ BarrierAfterPrior'
  <2>1. Placement' /\ InOrder'
    BY <1>1, <1>5, ReceiveKeeps
  <2>2. UNCHANGED kind
    BY <1>5 DEF ReceiveClosure
  <2>3. CASE UNCHANGED stage
    BY <1>2, <2>1, <2>2, <2>3
  <2>4. CASE Head(inbox).op = "post" /\ move(Head(inbox).item, "dropped")
    <3>1. \A i \in Item : stage'[i] = stage[i] \/ stage'[i] = "dropped"
      BY <1>1, <2>4 DEF move
    <3> QED
      BY <1>1, <2>1, <2>2, <3>1, BarrierStays
  <2> QED
    BY <1>5, <2>3, <2>4 DEF ReceiveClosure
<1>6. ASSUME Push
      PROVE  Placement' /\ InOrder' /\ BarrierAfterPrior'
  <2>1. Placement' /\ InOrder'
    BY <1>1, <1>6, PushKeeps
  <2>2. current \in Item /\ stage[current] = "inbox"
    BY <1>1, <1>6 DEF Placement, Push
  <2>3. UNCHANGED kind /\ stage' = [stage EXCEPT ![current] = "queue"]
    BY <1>6 DEF Push, move
  <2>4. \A i \in Item : stage'[i] = IF i = current THEN "queue" ELSE stage[i]
    BY <1>1, <2>3
  <2> QED
    BY <1>1, <2>1, <2>2, <2>3, <2>4, BarrierStays
<1>7. ASSUME TrySchedule
      PROVE  Placement' /\ InOrder' /\ BarrierAfterPrior'
  <2>1. Placement' /\ InOrder'
    BY <1>1, <1>7, TryKeeps
  <2>2. UNCHANGED kind
    BY <1>7 DEF TrySchedule
  <2>3. CASE ~barrierRunning /\ parked # NoItem /\ runningCount = 0
    <3>1. dispatch(parked)
      BY <1>7, <2>3 DEF TrySchedule
    <3>2. parked \in Item /\ stage[parked] = "parked"
      BY <1>1, <2>3 DEF Placement, TypeOK
    <3>3. \A i \in Item : i < parked => stage[i] \notin {"queue", "parked"}
      BY <1>1, <3>2 DEF InOrder
    <3> QED
      BY <1>1, <2>1, <2>2, <2>3, <3>1, <3>2, <3>3, BarrierStarts
  <2>4. CASE ~(~barrierRunning /\ parked # NoItem /\ runningCount = 0)
    <3>1. UNCHANGED stage
      BY <1>7, <2>4 DEF TrySchedule
    <3> QED
      BY <1>2, <2>1, <2>2, <3>1
  <2> QED
    BY <2>3, <2>4
<1>8. ASSUME CheckSlot
      PROVE  Placement' /\ InOrder' /\ BarrierAfterPrior'
  <2>1. /\ UNCHANGED <<issued, stage, kind, inbox, queue, current, parked>>
        /\ spc = "slot" /\ spc' \in {"pop", "idle"}
    BY <1>8 DEF CheckSlot
  <2>2. parked = NoItem
    BY <1>1, <2>1 DEF Placement
  <2> QED
    BY <1>1, <1>2, <2>1, <2>2, NothingMoves
<1>9. ASSUME PopItem
      PROVE  Placement' /\ InOrder' /\ BarrierAfterPrior'
  <2>1. Placement' /\ InOrder'
    BY <1>1, <1>9, PopKeeps
  <2>2. UNCHANGED kind /\ spc = "pop"
    BY <1>9 DEF PopItem
  <2>3. CASE queue = << >>
    <3>1. UNCHANGED stage
      BY <1>9, <2>3 DEF PopItem
    <3> QED
      BY <1>2, <2>1, <2>2, <3>1
  <2>4. CASE queue # << >>
    <3> DEFINE h == Head(queue)
    <3>1. h = queue[1] /\ 1 \in 1..Len(queue) /\ h \in Item
      BY <1>1, <2>4 DEF TypeOK
    <3>2. stage[h] = "queue"
      BY <1>1, <3>1 DEF Placement
    <3>3. CASE move(h, "parked")
      <4>1. \A i \in Item : stage'[i] = IF i = h THEN "parked" ELSE stage[i]
        BY <1>1, <3>3 DEF move
      <4> QED
        BY <1>1, <2>1, <2>2, <3>1, <3>2, <4>1, BarrierStays
    <3>4. CASE dispatch(h) /\ (isBarrier(h) => runningCount = 0)
      <4>1. ASSUME NEW i \in Item, i < h
            PROVE  stage[i] \notin {"queue", "parked"}
        <5>1. stage[i] # "parked"
          BY <1>1, <2>2, CallsAssumption DEF Placement, NoItem, Item
        <5>2. ASSUME stage[i] = "queue"
              PROVE  FALSE
          <6>1. PICK n \in 1..Len(queue) : queue[n] = i
            BY <1>1, <5>2 DEF Placement
          <6>2. n # 1
            BY <3>1, <4>1, <6>1 DEF Item
          <6>3. 1 < n
            BY <6>2
          <6>4. h < i
            BY <1>1, <3>1, <6>1, <6>3 DEF InOrder
          <6>5. h \in Int /\ i \in Int
            BY <3>1 DEF Item
          <6> QED
            BY <4>1, <6>4, <6>5
        <5> QED
          BY <5>1, <5>2
      <4> QED
        BY <1>1, <2>1, <2>2, <3>1, <3>2, <3>4, <4>1, BarrierStarts
    <3> QED
      BY <1>9, <2>4, <3>3, <3>4 DEF PopItem
  <2> QED
    BY <2>3, <2>4
<1>10. ASSUME NEW i \in Item, ItemStep(i)
      PROVE  Placement' /\ InOrder' /\ BarrierAfterPrior'
  <2>1. PICK to \in {"exec", "ended", "leave", "notify", "done"} :
          /\ move(i, to)
          /\ stage[i] \in Over => to \in Over
          /\ to = "exec" => stage[i] = "pool"
    BY <1>10 DEF ItemStep, StartItem, EndItem, SendClear, LeavePool, SendTry
  <2>2. /\ stage[i] \in Late
        /\ UNCHANGED <<issued, kind, queue, spc, current, parked>>
    BY <1>10 DEF ItemStep, StartItem, EndItem, SendClear, LeavePool, SendTry, Late
  <2>3. UNCHANGED inbox \/ \E op \in {"clear", "try"} : send(op, NoItem)
    BY <1>10 DEF ItemStep, StartItem, EndItem, SendClear, LeavePool, SendTry
  <2>4. Placement' /\ InOrder'
    <3>1. to \in Late
      BY DEF Late
    <3> QED
      BY <1>1, <2>1, <2>2, <2>3, <3>1, LateMoves
  <2>5. \A j \in Item : stage'[j] = IF j = i THEN to ELSE stage[j]
    BY <1>1, <2>1 DEF move
  <2> QED
    BY <1>1, <2>1, <2>2, <2>4, <2>5, BarrierStays
<1>11. ASSUME Shutdown \/ CloseChannel \/ ShutdownScheduler
      PROVE  Placement' /\ InOrder' /\ BarrierAfterPrior'
  <2>1. UNCHANGED <<issued, stage, kind, inbox, queue, current, parked, spc>>
    BY <1>11 DEF Shutdown, CloseChannel, ShutdownScheduler
  <2>2. spc \in {"slot", "pop"} => parked = NoItem
    BY <1>1 DEF Placement
  <2> QED
    BY <1>1, <1>2, <2>1, <2>2, NothingMoves
<1>12. ASSUME ClearQueue
      PROVE  Placement' /\ InOrder' /\ BarrierAfterPrior'
  <2>1. Placement' /\ InOrder'
    BY <1>1, <1>12, ClearKeeps
  <2>2. /\ UNCHANGED kind
        /\ \A i \in Item : stage'[i] = stage[i] \/ stage'[i] = "dropped"
    BY <1>12 DEF ClearQueue
  <2> QED
    BY <1>1, <2>1, <2>2, BarrierStays
<1>13. CASE UNCHANGED vars
  <2>1. UNCHANGED <<issued, stage, kind, inbox, queue, current, parked, spc>>
    BY <1>13 DEF vars
  <2>2. spc \in {"slot", "pop"} => parked = NoItem
    BY <1>1 DEF Placement
  <2> QED
    BY <1>1, <1>2, <2>1, <2>2, NothingMoves
<1> QED
  BY <1>3, <1>4, <1>5, <1>6, <1>7, <1>8, <1>9, <1>10, <1>11, <1>12, <1>13
  DEF Next, SchedulerStep, ShutdownStep

-----------------------------------------------------------------------------
\* IInv holds throughout every behaviour of the runner, fair or not.
THEOREM Invariance == Safety => []IInv
<1>1. IInv /\ [Next]_vars => IInv'
  <2> SUFFICES ASSUME IInv, [Next]_vars PROVE IInv'
    OBVIOUS
  <2> QED
    BY NextType, NextCount, NextOrder DEF IInv
<1> QED
  BY InitIInv, <1>1, PTL DEF Safety

\* Type correctness.
THEOREM TypeCorrect == Safety => []TypeOK
<1>1. IInv => TypeOK
  BY DEF IInv
<1> QED
  BY Invariance, <1>1, PTL

\* ParallelTaskRunner never has more than maxConcurrency items in the pool, and
\* its atomic runningCount is exact at every step, whatever the limit, the
\* number of calls and the moment of Shutdown.
THEOREM ConcurrencyIsBounded == Safety => []ConcurrencyBound
<1>1. IInv => ConcurrencyBound
  BY DEF IInv
<1> QED
  BY Invariance, <1>1, PTL

\* FlushAsync's callback and WaitIdle's barrier run only when every item posted
\* before them has ended or was dropped.
THEOREM BarriersWait == Safety => []BarrierAfterPrior
<1>1. IInv => BarrierAfterPrior
  BY DEF IInv
<1> QED
  BY Invariance, <1>1, PTL

=============================================================================
