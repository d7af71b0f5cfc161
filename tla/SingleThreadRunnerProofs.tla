---------------------- MODULE SingleThreadRunnerProofs ----------------------
(***************************************************************************)
(* The safety of the single-thread runner for every set of tasks, every    *)
(* capacity of its channel and any choice of policies: WaitIdle is a       *)
(* barrier, nothing runs after Stop, and a stopped handle ticks at most    *)
(* once more.                                                              *)
(***************************************************************************)
EXTENDS SingleThreadRunner, TLAPS

Busy == {"taken", "passed", "running"}
Over == {"done", "panicked"}

\* The channel holds exactly the queued items, each of them once.
ChannelExact ==
  /\ \A k \in DOMAIN workQueue : status[workQueue[k]] = "queued"
  /\ \A k, l \in DOMAIN workQueue : workQueue[k] = workQueue[l] => k = l
  /\ \A i \in Item : status[i] = "queued" => \E k \in DOMAIN workQueue : workQueue[k] = i

\* runLoop executes the one item that is taken and not over; only a tick has
\* checks before its body.
LoopExact ==
  /\ \A i \in Item : status[i] \in Busy => loop = i
  /\ loop # None => status[loop] \in Busy
  /\ \A t \in Task : status[t] \notin {"taken", "passed"}

\* A barrier is behind what is left of everything that was in the runner when it
\* was called, and has not run yet while anything is.
BarrierBehind ==
  \A b \in Barrier : \A i \in before[b] :
    /\ i # b
    /\ status[i] \in {"queued"} \cup Busy
    /\ \A k, l \in DOMAIN workQueue : workQueue[k] = i /\ workQueue[l] = b => k < l
    /\ status[b] \notin Busy \cup Over

\* The loop ends between two items, and before Stop returns.
EndOrder == (exited => loop = None) /\ (stop = "returned" => exited)

\* The inductive invariant.
IInv == TypeOK /\ ChannelExact /\ LoopExact /\ BarrierBehind /\ EndOrder

\* The invariant holds initially.
LEMMA InitInv == Init => IInv
<1> SUFFICES ASSUME Init PROVE IInv
  OBVIOUS
<1> USE DEF Init
<1>1. TypeOK
  <2>1. workQueue \in Seq(Item) /\ Len(workQueue) <= Capacity
    BY CapacityAssumption
  <2>2. status \in [Item -> Status]
    BY DEF Status
  <2>3. lateTicks \in 0..2
    OBVIOUS
  <2>4. closed \in BOOLEAN /\ exited \in BOOLEAN
    BY Zenon
  <2> QED BY <2>1, <2>2, <2>3, <2>4 DEF TypeOK
<1>2. ChannelExact /\ LoopExact
  BY DEF ChannelExact, LoopExact, Item, Busy
<1>3. BarrierBehind /\ EndOrder
  BY DEF BarrierBehind, EndOrder
<1> QED BY <1>1, <1>2, <1>3 DEF IInv

-----------------------------------------------------------------------------

Early == {"new", "called", "armed", "checked", "sending"}
Out == {"called", "armed", "checked", "sending", "lost", "rejected"}

\* An item moves on outside the runner.
LEMMA OutsideKeeps ==
  ASSUME IInv, NEW i \in Item, NEW s \in Out, status[i] \in Early, Set(i, s),
         UNCHANGED <<before, workQueue, loop, exited, stop>>
  PROVE  /\ status' \in [Item -> Status]
         /\ ChannelExact' /\ LoopExact' /\ BarrierBehind' /\ EndOrder'
<1> USE DEF IInv, Set, Early, Out
<1>1. status' \in [Item -> Status]
  BY DEF TypeOK, Status
<1>2. ChannelExact'
  BY DEF TypeOK, ChannelExact
<1>3. LoopExact'
  BY TickAssumption DEF TypeOK, LoopExact, Busy, Item
<1>4. BarrierBehind'
  BY BarrierAssumption DEF TypeOK, BarrierBehind, Busy, Over, Item
<1>5. EndOrder'
  BY DEF EndOrder
<1> QED BY <1>1, <1>2, <1>3, <1>4, <1>5

\* Posts up to the send.
LEMMA PostKeeps ==
  ASSUME IInv, NEW i \in Item,
         EnqueueCheck(i) \/ PostDelayedTask(i) \/ PostFromTask(i) \/ ReadPolicy(i)
           \/ GiveUp(i) \/ Reject(i)
  PROVE  IInv'
<1>1. PICK s \in Out : status[i] \in Early /\ Set(i, s)
  BY DEF EnqueueCheck, PostDelayedTask, PostFromTask, ReadPolicy, GiveUp, Reject, endsPost,
         ready, Early, Out
<1>2. UNCHANGED <<before, workQueue, loop, exited, stop>>
  BY DEF EnqueueCheck, PostDelayedTask, PostFromTask, ReadPolicy, GiveUp, Reject, endsPost,
         queueVars, lifeVars, loopVars
<1>3. /\ UNCHANGED <<queuePolicy, closed, handle, lateTicks>>
      /\ posting' \in {posting, None, i}
      /\ readPolicy' \in [Item -> Policy \cup {None}]
  BY DEF EnqueueCheck, PostDelayedTask, PostFromTask, ReadPolicy, GiveUp, Reject, endsPost,
         queueVars, lifeVars, loopVars, handleVars, IInv, TypeOK
<1>4. /\ status' \in [Item -> Status]
      /\ ChannelExact' /\ LoopExact' /\ BarrierBehind' /\ EndOrder'
  BY <1>1, <1>2, OutsideKeeps
<1>5. TypeOK'
  BY <1>2, <1>3, <1>4 DEF IInv, TypeOK
<1> QED BY <1>4, <1>5 DEF IInv

\* WaitIdle: everything in the runner is ahead of a barrier not yet posted.
LEMMA WaitIdleKeeps ==
  ASSUME IInv, NEW b \in Barrier, WaitIdle(b)
  PROVE  IInv'
<1> USE DEF IInv, WaitIdle, Set
<1>1. b \in Item /\ Task \subseteq Item
  BY BarrierAssumption DEF Item
<1>2. UNCHANGED <<workQueue, loop, exited, stop, readPolicy, queuePolicy, closed, posting,
                  handle, lateTicks>>
  BY DEF queueVars, loopVars, lifeVars, handleVars
<1>3. TypeOK'
  BY <1>1, <1>2 DEF TypeOK, Status
<1>4. ChannelExact'
  BY <1>1, <1>2 DEF TypeOK, ChannelExact
<1>5. LoopExact'
  BY <1>1, <1>2 DEF TypeOK, LoopExact, Busy
<1>6. BarrierBehind'
  <2> SUFFICES ASSUME NEW c \in Barrier, NEW i \in before'[c]
               PROVE  /\ i # c
                      /\ status'[i] \in {"queued"} \cup Busy
                      /\ \A k, l \in DOMAIN workQueue :
                           workQueue[k] = i /\ workQueue[l] = c => k < l
                      /\ status'[c] \notin Busy \cup Over
    BY <1>2 DEF BarrierBehind
  <2>1. CASE c = b
    <3>1. i \in Item /\ inRunner(i)
      BY <2>1 DEF TypeOK
    <3>2. status[i] \in {"queued"} \cup Busy
      BY <3>1 DEF inRunner, Busy
    <3>3. i # b
      BY <3>2 DEF Busy
    <3>4. status'[i] = status[i] /\ status'[b] \notin Busy \cup Over
      BY <1>1, <3>1, <3>3 DEF TypeOK, Busy, Over
    <3>5. \A l \in DOMAIN workQueue : workQueue[l] # b
      BY DEF ChannelExact
    <3> QED BY <2>1, <3>2, <3>3, <3>4, <3>5
  <2>2. CASE c # b
    <3>1. i \in before[c] /\ i \in Item
      BY <2>2 DEF TypeOK
    <3>2. i # b
      BY <3>1 DEF BarrierBehind, Busy
    <3>3. status'[i] = status[i] /\ status'[c] = status[c]
      BY <1>1, <2>2, <3>1, <3>2, BarrierAssumption DEF TypeOK, Item
    <3> QED BY <3>1, <3>3 DEF BarrierBehind
  <2> QED BY <2>1, <2>2
<1>7. EndOrder'
  BY <1>2 DEF EndOrder
<1> QED BY <1>3, <1>4, <1>5, <1>6, <1>7

\* The send: the item goes to the end of the channel.
LEMMA SendKeeps ==
  ASSUME IInv, NEW i \in Item, Send(i)
  PROVE  IInv'
<1> USE DEF IInv, Send, endsPost, Set
<1>1. UNCHANGED <<before, loop, exited, stop, queuePolicy, closed, handle, lateTicks>>
  BY DEF queueVars, loopVars, lifeVars, handleVars
<1>2. workQueue \in Seq(Item) /\ status \in [Item -> Status] /\ status[i] = "sending"
  BY DEF TypeOK
<1>3. /\ workQueue' \in Seq(Item)
      /\ Len(workQueue') = Len(workQueue) + 1
      /\ DOMAIN workQueue' = DOMAIN workQueue \cup {Len(workQueue) + 1}
      /\ \A k \in DOMAIN workQueue : workQueue'[k] = workQueue[k] /\ k < Len(workQueue) + 1
      /\ workQueue'[Len(workQueue) + 1] = i
      /\ Len(workQueue) + 1 \notin DOMAIN workQueue
  BY <1>2
<1>4. status' = [status EXCEPT ![i] = "queued"]
  OBVIOUS
<1>5. \A k \in DOMAIN workQueue : workQueue[k] # i /\ workQueue[k] \in Item
  BY <1>2 DEF ChannelExact
<1>6. TypeOK'
  BY <1>1, <1>3, <1>4, CapacityAssumption DEF TypeOK, Status, full
<1>7. ChannelExact'
  <2>1. \A k \in DOMAIN workQueue' : status'[workQueue'[k]] = "queued"
    BY <1>2, <1>3, <1>4, <1>5 DEF ChannelExact
  <2>2. \A k, l \in DOMAIN workQueue' : workQueue'[k] = workQueue'[l] => k = l
    BY <1>3, <1>5 DEF ChannelExact
  <2>3. \A j \in Item : status'[j] = "queued" => \E k \in DOMAIN workQueue' : workQueue'[k] = j
    BY <1>2, <1>3, <1>4 DEF ChannelExact
  <2> QED BY <2>1, <2>2, <2>3 DEF ChannelExact
<1>8. LoopExact'
  BY <1>1, <1>2, <1>4, TickAssumption DEF LoopExact, Busy, TypeOK, Item
<1>9. BarrierBehind'
  <2> SUFFICES ASSUME NEW b \in Barrier, NEW j \in before[b]
               PROVE  /\ j # b
                      /\ status'[j] \in {"queued"} \cup Busy
                      /\ \A k, l \in DOMAIN workQueue' :
                           workQueue'[k] = j /\ workQueue'[l] = b => k < l
                      /\ status'[b] \notin Busy \cup Over
    BY <1>1 DEF BarrierBehind
  <2>1. j # b /\ j # i /\ b \in Item /\ j \in Item
    BY <1>2, BarrierAssumption DEF BarrierBehind, Busy, Item, TypeOK
  <2>2. status'[j] = status[j] /\ (b # i => status'[b] = status[b])
    BY <1>2, <1>4, <2>1
  <2>3. \A k, l \in DOMAIN workQueue' : workQueue'[k] = j /\ workQueue'[l] = b => k < l
    BY <1>3, <2>1 DEF BarrierBehind
  <2>4. status'[b] \notin Busy \cup Over
    BY <1>2, <1>4, <2>1, <2>2 DEF BarrierBehind, Busy, Over
  <2> QED BY <2>1, <2>2, <2>3, <2>4 DEF BarrierBehind
<1>10. EndOrder'
  BY <1>1 DEF EndOrder
<1> QED BY <1>6, <1>7, <1>8, <1>9, <1>10

-----------------------------------------------------------------------------

\* runLoop takes the head of the channel: what is ahead of a barrier is over then.
LEMMA TakeKeeps ==
  ASSUME IInv, LoopTake
  PROVE  IInv'
<1> DEFINE h == Head(workQueue)
           s == IF h = Tick THEN "taken" ELSE "running"
<1> USE DEF IInv
<1>1. UNCHANGED <<before, exited, stop, readPolicy, queuePolicy, closed, posting, handle,
                  lateTicks>>
  BY DEF LoopTake, lifeVars, handleVars
<1>2. workQueue \in Seq(Item) /\ workQueue # << >> /\ status \in [Item -> Status]
  BY DEF TypeOK, LoopTake
<1>3. /\ workQueue' = Tail(workQueue) /\ loop = None /\ loop' = h /\ ~exited
      /\ status' = [status EXCEPT ![h] = s]
  BY DEF LoopTake, Set
<1>4. 1 \in DOMAIN workQueue /\ h = workQueue[1] /\ h \in Item
  BY <1>2
<1>5. /\ workQueue' \in Seq(Item)
      /\ Len(workQueue') = Len(workQueue) - 1
      /\ \A k \in DOMAIN workQueue' :
           k \in Nat /\ k + 1 \in DOMAIN workQueue /\ workQueue'[k] = workQueue[k + 1]
      /\ \A k \in DOMAIN workQueue : k # 1 => k - 1 \in DOMAIN workQueue' /\ k \in Nat
  BY <1>2, <1>3
<1>6. status[h] = "queued"
  BY <1>4 DEF ChannelExact
<1>7. s \in Busy /\ (h \in Task => s = "running") /\ s \in Status /\ s # "queued"
  BY TickAssumption DEF Busy, Status
<1> HIDE DEF h, s
<1>8. TypeOK'
  BY <1>1, <1>2, <1>3, <1>4, <1>5, <1>7, CapacityAssumption DEF TypeOK
<1>9. \A k \in DOMAIN workQueue' : workQueue'[k] # h /\ workQueue'[k] \in Item
  <2> SUFFICES ASSUME NEW k \in DOMAIN workQueue'
               PROVE  workQueue'[k] # h /\ workQueue'[k] \in Item
    OBVIOUS
  <2>1. workQueue[k + 1] \in Item
    BY <1>2, <1>5
  <2>2. k + 1 # 1
    BY <1>5, <1>2
  <2>3. workQueue[k + 1] # workQueue[1]
    BY <1>4, <1>5, <2>2 DEF ChannelExact
  <2> QED BY <1>4, <1>5, <2>1, <2>3
<1>10. ChannelExact'
  <2>1. \A k \in DOMAIN workQueue' : status'[workQueue'[k]] = "queued"
    BY <1>2, <1>3, <1>5, <1>9 DEF ChannelExact
  <2>2. ASSUME NEW k \in DOMAIN workQueue', NEW l \in DOMAIN workQueue',
               workQueue'[k] = workQueue'[l]
        PROVE  k = l
    <3>1. k + 1 = l + 1
      BY <1>5, <2>2 DEF ChannelExact
    <3> QED BY <1>5, <3>1
  <2>3. ASSUME NEW j \in Item, status'[j] = "queued"
        PROVE  \E k \in DOMAIN workQueue' : workQueue'[k] = j
    <3>1. j # h /\ status[j] = "queued"
      BY <1>2, <1>3, <1>4, <1>7, <2>3
    <3>2. PICK k \in DOMAIN workQueue : workQueue[k] = j
      BY <3>1 DEF ChannelExact
    <3>3. k # 1
      BY <1>4, <3>1, <3>2
    <3>4. k - 1 \in DOMAIN workQueue' /\ workQueue'[k - 1] = workQueue[(k - 1) + 1]
      BY <1>5, <3>3
    <3>5. (k - 1) + 1 = k
      BY <1>5, <3>3
    <3> QED BY <3>2, <3>4, <3>5
  <2> QED BY <2>1, <2>2, <2>3 DEF ChannelExact
<1>11. \A i \in Item : status[i] \notin Busy
  BY <1>3, TickAssumption DEF LoopExact, Item
<1>12. LoopExact'
  BY <1>2, <1>3, <1>4, <1>7, <1>11, TickAssumption DEF LoopExact, Item
<1>13. BarrierBehind'
  <2> SUFFICES ASSUME NEW b \in Barrier, NEW j \in before[b]
               PROVE  /\ j # b
                      /\ status'[j] \in {"queued"} \cup Busy
                      /\ \A k, l \in DOMAIN workQueue' :
                           workQueue'[k] = j /\ workQueue'[l] = b => k < l
                      /\ status'[b] \notin Busy \cup Over
    BY <1>1 DEF BarrierBehind
  <2>1. b \in Item /\ j \in Item /\ j # b
    BY BarrierAssumption DEF BarrierBehind, Item, TypeOK
  <2>2. status[j] = "queued"
    BY <1>11, <2>1 DEF BarrierBehind
  <2>3. status'[j] \in {"queued"} \cup Busy
    BY <1>2, <1>3, <1>7, <2>1, <2>2
  <2>4. ASSUME NEW k \in DOMAIN workQueue', NEW l \in DOMAIN workQueue',
               workQueue'[k] = j, workQueue'[l] = b
        PROVE  k < l
    <3>1. k + 1 < l + 1
      BY <1>5, <2>4 DEF BarrierBehind
    <3> QED BY <1>5, <3>1
  <2>5. b # h
    <3> SUFFICES ASSUME b = h PROVE FALSE
      OBVIOUS
    <3>1. PICK k \in DOMAIN workQueue : workQueue[k] = j
      BY <2>1, <2>2 DEF ChannelExact
    <3>2. k < 1
      BY <1>4, <3>1 DEF BarrierBehind
    <3> QED BY <1>2, <3>2
  <2>6. status'[b] = status[b]
    BY <1>2, <1>3, <2>1, <2>5
  <2> QED BY <2>1, <2>3, <2>4, <2>6 DEF BarrierBehind
<1>14. EndOrder'
  BY <1>1, <1>3 DEF EndOrder
<1> QED BY <1>8, <1>10, <1>12, <1>13, <1>14

\* The tick that runLoop executes moves on.
LEMMA TickKeeps ==
  ASSUME IInv, NEW s \in Busy, loop = Tick, loop' = Tick, Set(Tick, s),
         UNCHANGED <<before, workQueue, exited, stop>>
  PROVE  /\ status' \in [Item -> Status]
         /\ ChannelExact' /\ LoopExact' /\ BarrierBehind' /\ EndOrder'
<1> USE DEF IInv, Set
<1>1. Tick \in Item /\ Tick \notin Barrier /\ Tick # None /\ status[Tick] \in Busy
  BY BarrierAssumption, TickAssumption DEF LoopExact, Item
<1>2. status' \in [Item -> Status]
  BY DEF TypeOK, Busy, Status
<1>3. ChannelExact'
  BY <1>1 DEF TypeOK, ChannelExact, Busy
<1>4. LoopExact'
  BY <1>1, TickAssumption DEF TypeOK, LoopExact, Busy, Item
<1>5. BarrierBehind'
  BY <1>1, BarrierAssumption DEF TypeOK, BarrierBehind, Busy, Item
<1>6. EndOrder'
  BY <1>1 DEF EndOrder
<1> QED BY <1>2, <1>3, <1>4, <1>5, <1>6

\* The item that runLoop executes ends and leaves the loop free: no barrier waits
\* for it any longer.
LEMMA EndKeeps ==
  ASSUME IInv, NEW i \in Item, NEW s \in {"armed"} \cup Over, loop = i, loop' = None, End(i, s),
         UNCHANGED <<workQueue, exited, stop>>
  PROVE  /\ status' \in [Item -> Status] /\ before' \in [Barrier -> SUBSET Item]
         /\ ChannelExact' /\ LoopExact' /\ BarrierBehind' /\ EndOrder'
<1> USE DEF IInv, End, Set
<1>1. status[i] \in Busy /\ s # "queued" /\ s \notin Busy /\ i # None
  BY TickAssumption DEF LoopExact, Busy, Over, Item
<1>2. status' \in [Item -> Status] /\ before' \in [Barrier -> SUBSET Item]
  BY DEF TypeOK, Status, Over
<1>3. ChannelExact'
  BY <1>1 DEF TypeOK, ChannelExact, Busy
<1>4. LoopExact'
  <2>1. \A j \in Item : status'[j] \in Busy => j # i /\ status[j] \in Busy
    BY <1>1 DEF TypeOK
  <2>2. \A j \in Item : status'[j] \notin Busy
    BY <2>1 DEF LoopExact
  <2>3. Task \subseteq Item
    BY DEF Item
  <2> QED BY <2>2, <2>3 DEF LoopExact, Busy
<1>5. BarrierBehind'
  <2> SUFFICES ASSUME NEW b \in Barrier, NEW j \in before'[b]
               PROVE  /\ j # b
                      /\ status'[j] \in {"queued"} \cup Busy
                      /\ \A k, l \in DOMAIN workQueue :
                           workQueue[k] = j /\ workQueue[l] = b => k < l
                      /\ status'[b] \notin Busy \cup Over
    BY DEF BarrierBehind
  <2>1. j \in before[b] /\ j # i /\ j \in Item /\ b \in Item
    BY BarrierAssumption DEF TypeOK, Item
  <2>2. b # i
    BY <1>1, <2>1 DEF BarrierBehind
  <2>3. status'[j] = status[j] /\ status'[b] = status[b]
    BY <2>1, <2>2 DEF TypeOK
  <2> QED BY <2>1, <2>3 DEF BarrierBehind
<1>6. EndOrder'
  BY DEF EndOrder
<1> QED BY <1>2, <1>3, <1>4, <1>5, <1>6

\* Every step of runLoop keeps the invariant.
LEMMA RunLoopKeeps ==
  ASSUME IInv, RunLoop
  PROVE  IInv'
<1>1. CASE LoopTake
  BY <1>1, TakeKeeps
<1>2. CASE LoopExit
  BY <1>2 DEF LoopExit, IInv, TypeOK, ChannelExact, LoopExact, BarrierBehind, EndOrder, itemVars,
              queueVars, lifeVars, handleVars
<1>3. ASSUME NEW r \in {"done", "panicked"}, TaskEnds(r) PROVE IInv'
  <2>1. UNCHANGED <<workQueue, exited, stop, readPolicy, queuePolicy, closed, posting,
                    handle, lateTicks>>
    BY <1>3 DEF TaskEnds, queueVars, lifeVars, handleVars
  <2>2. loop \in Item /\ loop' = None
    BY <1>3 DEF TaskEnds, Item
  <2>3. PICK s \in {"armed"} \cup Over : End(loop, s)
    BY <1>3 DEF TaskEnds, Over
  <2>4. /\ status' \in [Item -> Status] /\ before' \in [Barrier -> SUBSET Item]
        /\ ChannelExact' /\ LoopExact' /\ BarrierBehind' /\ EndOrder'
    BY <2>1, <2>2, <2>3, EndKeeps
  <2> QED BY <2>1, <2>2, <2>4 DEF IInv, TypeOK
<1>4. CASE TickCheck \/ TickBody \/ TickEnds \/ TickPanics
  <2>1. /\ UNCHANGED <<workQueue, exited, stop, readPolicy, queuePolicy, closed, posting, handle>>
        /\ lateTicks' \in 0..2
    BY <1>4 DEF TickCheck, TickBody, TickEnds, TickPanics, queueVars, lifeVars, handleVars,
                loopVars, IInv, TypeOK
  <2>2. loop = Tick /\ Tick \in Item
    BY <1>4 DEF TickCheck, TickBody, TickEnds, TickPanics, Item
  <2>3. \/ \E s \in Busy : Set(Tick, s) /\ loop' = Tick /\ UNCHANGED before
        \/ \E s \in {"armed"} \cup Over : End(Tick, s) /\ loop' = None
    <3>1. CASE TickCheck
      BY <2>2, <3>1 DEF TickCheck, Busy, Over
    <3>2. CASE TickBody
      BY <2>2, <3>2 DEF TickBody, Busy, loopVars
    <3>3. CASE TickEnds \/ TickPanics
      BY <3>3 DEF TickEnds, TickPanics, Over
    <3> QED BY <1>4, <3>1, <3>2, <3>3
  <2>4. ASSUME NEW s \in Busy, Set(Tick, s), loop' = Tick, UNCHANGED before
        PROVE  IInv'
    <3>1. /\ status' \in [Item -> Status]
          /\ ChannelExact' /\ LoopExact' /\ BarrierBehind' /\ EndOrder'
      BY <2>1, <2>2, <2>4, TickKeeps
    <3> QED BY <2>1, <2>2, <2>4, <3>1 DEF IInv, TypeOK
  <2>5. ASSUME NEW s \in {"armed"} \cup Over, End(Tick, s), loop' = None
        PROVE  IInv'
    <3>1. /\ status' \in [Item -> Status] /\ before' \in [Barrier -> SUBSET Item]
          /\ ChannelExact' /\ LoopExact' /\ BarrierBehind' /\ EndOrder'
      BY <2>1, <2>2, <2>5, EndKeeps
    <3> QED BY <2>1, <2>2, <2>5, <3>1 DEF IInv, TypeOK
  <2> QED BY <2>3, <2>4, <2>5
<1> QED BY <1>1, <1>2, <1>3, <1>4 DEF RunLoop

\* Every step keeps the invariant.
LEMMA NextInv == IInv /\ [Next]_vars => IInv'
<1> SUFFICES ASSUME IInv, [Next]_vars PROVE IInv'
  OBVIOUS
<1>1. ASSUME NEW b \in Barrier, WaitIdle(b) PROVE IInv'
  BY <1>1, WaitIdleKeeps
<1>2. CASE Poster
  BY <1>2, PostKeeps, SendKeeps DEF Poster
<1>3. ASSUME NEW p \in Policy, SetQueuePolicy(p) PROVE IInv'
  BY <1>3 DEF SetQueuePolicy, IInv, TypeOK, ChannelExact, LoopExact, BarrierBehind, EndOrder,
              itemVars, lifeVars, loopVars, handleVars
<1>4. CASE RunLoop
  BY <1>4, RunLoopKeeps
<1>5. CASE HandleStop
  BY <1>5 DEF HandleStop, IInv, TypeOK, ChannelExact, LoopExact, BarrierBehind, EndOrder,
              itemVars, queueVars, lifeVars, loopVars
<1>6. CASE Shutdown \/ Stop \/ Cancel \/ StopReturns
  <2>1. closed' \in BOOLEAN /\ stop' \in {"none", "closed", "cancelled", "returned"}
    BY <1>6, Zenon DEF Shutdown, Stop, Cancel, StopReturns, IInv, TypeOK
  <2>2. UNCHANGED <<itemVars, queueVars, loopVars, handleVars>>
    BY <1>6 DEF Shutdown, Stop, Cancel, StopReturns
  <2>3. TypeOK'
    BY <2>1, <2>2 DEF IInv, TypeOK, itemVars, queueVars, loopVars, handleVars
  <2>4. ChannelExact' /\ LoopExact' /\ BarrierBehind'
    BY <2>2 DEF IInv, ChannelExact, LoopExact, BarrierBehind, itemVars, queueVars, loopVars
  <2>5. EndOrder'
    BY <1>6, <2>2 DEF Shutdown, Stop, Cancel, StopReturns, IInv, EndOrder, loopVars
  <2> QED BY <2>3, <2>4, <2>5 DEF IInv
<1>7. CASE UNCHANGED vars
  BY <1>7 DEF vars, IInv, TypeOK, ChannelExact, LoopExact, BarrierBehind, EndOrder,
              itemVars, queueVars, lifeVars, loopVars, handleVars
<1> QED BY <1>1, <1>2, <1>3, <1>4, <1>5, <1>6, <1>7 DEF Next

\* The invariant holds throughout.
LEMMA Invariant == Spec => []IInv
BY InitInv, NextInv, PTL DEF Spec

\* Type correctness of the runner, the capacity of its channel included.
THEOREM TypeCorrect == Spec => []TypeOK
BY Invariant, PTL DEF IInv

\* WaitIdle is a barrier: what was in the channel or in runLoop's hands when it was
\* called, a tick included, has ended when it returns, under any policy and with
\* blocked senders around it.
THEOREM WaitIdleIsBarrier == Spec => []WaitIdleBarrier
<1>1. IInv => WaitIdleBarrier
  BY DEF IInv, BarrierBehind, WaitIdleBarrier, Over
<1> QED BY <1>1, Invariant, PTL

\* After Stop has returned nothing is executed, whatever the channel holds.
THEOREM StoppedRunnerIsQuiet == Spec => []StoppedIsQuiet
<1>1. IInv => StoppedIsQuiet
  BY TickAssumption DEF IInv, EndOrder, LoopExact, StoppedIsQuiet, Busy, Item
<1> QED BY <1>1, Invariant, PTL

-----------------------------------------------------------------------------
(* Late ticks.                                                             *)

\* A handle that was stopped while no tick had passed its checks finds none that
\* has; a handle stopped late lets that one tick begin, if it has not begun yet.
TickInv ==
  /\ handle = "live" => lateTicks = 0
  /\ handle = "stopped" => lateTicks = 0 /\ status[Tick] # "passed"
  /\ handle = "late" => lateTicks = IF status[Tick] = "passed" THEN 0 ELSE 1

\* Only the tick's own check lets it pass, and only its body and handle.Stop touch
\* the handle.
LEMMA TickAlone ==
  ASSUME IInv, [Next]_vars, ~TickCheck, ~TickBody, ~HandleStop
  PROVE  UNCHANGED handleVars /\ (status'[Tick] = "passed" <=> status[Tick] = "passed")
<1> USE DEF Set, End
<1>1. status \in [Item -> Status] /\ Tick \in Item
  BY DEF IInv, TypeOK, Item
<1>2. ASSUME NEW b \in Barrier, WaitIdle(b)
      PROVE  UNCHANGED handleVars /\ (status'[Tick] = "passed" <=> status[Tick] = "passed")
  <2>1. b # Tick /\ b \in Item
    BY BarrierAssumption, TickAssumption DEF Item
  <2> QED BY <1>1, <1>2, <2>1 DEF WaitIdle
<1>3. ASSUME NEW i \in Item,
             EnqueueCheck(i) \/ PostDelayedTask(i) \/ PostFromTask(i) \/ ReadPolicy(i)
               \/ Send(i) \/ GiveUp(i) \/ Reject(i)
      PROVE  UNCHANGED handleVars /\ (status'[Tick] = "passed" <=> status[Tick] = "passed")
  BY <1>1, <1>3 DEF EnqueueCheck, PostDelayedTask, PostFromTask, ReadPolicy, Send, GiveUp, Reject,
                    endsPost, ready
<1>4. ASSUME NEW p \in Policy, SetQueuePolicy(p)
      PROVE  UNCHANGED handleVars /\ (status'[Tick] = "passed" <=> status[Tick] = "passed")
  BY <1>4 DEF SetQueuePolicy, itemVars
<1>5. CASE LoopTake
  <2>1. Head(workQueue) \in Item /\ status[Head(workQueue)] = "queued"
    <3>1. workQueue \in Seq(Item) /\ workQueue # << >>
      BY <1>5 DEF LoopTake, IInv, TypeOK
    <3>2. 1 \in DOMAIN workQueue /\ Head(workQueue) = workQueue[1] /\ Head(workQueue) \in Item
      BY <3>1
    <3> QED BY <3>2 DEF IInv, ChannelExact
  <2> QED BY <1>1, <1>5, <2>1 DEF LoopTake
<1>6. CASE LoopExit
  BY <1>6 DEF LoopExit, itemVars
<1>7. ASSUME NEW r \in {"done", "panicked"}, TaskEnds(r)
      PROVE  UNCHANGED handleVars /\ (status'[Tick] = "passed" <=> status[Tick] = "passed")
  <2>1. loop # Tick
    BY <1>7, TickAssumption DEF TaskEnds
  <2> QED BY <1>1, <1>7, <2>1 DEF TaskEnds
<1>8. CASE TickEnds \/ TickPanics
  BY <1>1, <1>8 DEF TickEnds, TickPanics
<1>9. CASE Shutdown \/ Stop \/ Cancel \/ StopReturns
  BY <1>9 DEF Shutdown, Stop, Cancel, StopReturns, itemVars
<1>10. CASE UNCHANGED vars
  BY <1>10 DEF vars, itemVars
<1> QED BY <1>2, <1>3, <1>4, <1>5, <1>6, <1>7, <1>8, <1>9, <1>10 DEF Next, Poster, RunLoop

\* Every step keeps the account of late ticks.
LEMMA NextTick == IInv /\ TickInv /\ [Next]_vars => TickInv'
<1> SUFFICES ASSUME IInv, TickInv, [Next]_vars PROVE TickInv'
  OBVIOUS
<1> USE DEF TickInv, Set, End
<1>1. /\ status \in [Item -> Status] /\ Tick \in Item /\ lateTicks \in 0..2
      /\ handle \in {"live", "stopped", "late"}
  BY DEF IInv, TypeOK, Item
<1>2. CASE TickCheck
  BY <1>1, <1>2 DEF TickCheck, tickMayRun, handleVars
<1>3. CASE TickBody
  BY <1>1, <1>3 DEF TickBody
<1>4. CASE HandleStop
  BY <1>1, <1>4 DEF HandleStop, itemVars
<1>5. CASE ~TickCheck /\ ~TickBody /\ ~HandleStop
  BY <1>1, <1>5, TickAlone DEF handleVars
<1> QED BY <1>2, <1>3, <1>4, <1>5

\* After handle.Stop at most one tick begins, and only one that had passed both of
\* its checks before, however the ticks, the channel and the shutdowns interleave.
THEOREM StoppedHandleTicksOnce == Spec => []LateTicks
<1>1. Init => TickInv
  BY DEF Init, TickInv
<1>2. IInv /\ TickInv => LateTicks
  BY DEF IInv, TypeOK, TickInv, LateTicks
<1> QED BY <1>1, <1>2, NextTick, Invariant, PTL DEF Spec

=============================================================================
