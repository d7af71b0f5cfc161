---------------------------- MODULE TimersProofs ----------------------------
(***************************************************************************)
(* The safety of the delay manager; that the timers of the runners use it  *)
(* as its specification says, so that what is proved of it holds for them; *)
(* and that a reply follows its task, for every set of tasks and delays.   *)
(***************************************************************************)
EXTENDS Timers, TLAPS

-----------------------------------------------------------------------------
(* The delay manager, for every set of items and every bound on time.      *)

\* What is being posted is due, and nothing in the heap is due before it.
BatchIsDue == \A x \in batch : x.at <= now /\ \A y \in pq : x.at <= y.at

\* The duration that calculateNextRun returns is not negative.
AimsAhead == loop = "arm" => calcAt <= aim

\* The inductive invariant.
DMInv == DMTypeOK /\ NoOversleep /\ BatchIsDue /\ AimsAhead

\* The time an entry is given lies on the clock and not in the past.
LEMMA ClipBounds ==
  ASSUME NEW t \in 0..MaxTime, NEW d \in 0..MaxTime
  PROVE  clip(t + d) \in 0..MaxTime /\ t <= clip(t + d)
BY TimeAssumption DEF clip

\* The invariant holds initially.
LEMMA DMInitInv == DMInit => DMInv
<1> SUFFICES ASSUME DMInit PROVE DMInv
  OBVIOUS
<1> USE DEF DMInit
<1>1. 0 \in 0..MaxTime /\ Never \in 0..Never
  BY TimeAssumption DEF Never
<1>2. DMTypeOK
  BY <1>1 DEF DMTypeOK
<1> QED BY <1>2 DEF DMInv, NoOversleep, BatchIsDue, AimsAhead

\* AddDelayedTask keeps the invariant: a new entry that is due before the time
\* the loop aims at comes with a signal, and no entry is due in the past.
LEMMA AddKeeps ==
  ASSUME DMInv, NEW i \in Item, NEW d \in 0..MaxTime, AddDelayedTask(i, d)
  PROVE  DMInv'
<1> DEFINE t == clip(now + d)
           e == [item |-> i, at |-> t]
<1> USE DEF DMInv
<1>1. t \in 0..MaxTime /\ now <= t
  BY ClipBounds DEF DMTypeOK
<1>2. e \in Entry /\ e.at = t
  BY <1>1 DEF Entry
<1>3. pq' = pq \cup {e} /\ wakeup' = (wakeup \/ becomesHead(t))
  BY DEF AddDelayedTask
<1>4. UNCHANGED <<now, loop, loopVars, batch, cancelled, cleared>>
  BY DEF AddDelayedTask
<1> HIDE DEF t, e
<1>5. DMTypeOK'
  BY <1>2, <1>3, <1>4 DEF DMTypeOK, loopVars
<1>6. NoOversleep'
  <2> SUFFICES ASSUME loop \in {"arm", "select"}, ~wakeup', NEW x \in pq'
               PROVE  aim <= x.at
    BY <1>4 DEF NoOversleep, loopVars
  <2>1. \A y \in pq : aim <= y.at
    BY <1>3 DEF NoOversleep, DMTypeOK
  <2>2. PICK y \in pq : ~(t < y.at)
    BY <1>3 DEF becomesHead, DMTypeOK
  <2>3. y.at \in 0..MaxTime /\ aim \in 0..Never
    BY DEF DMTypeOK, Entry
  <2>4. aim <= t
    BY <1>1, <2>1, <2>2, <2>3, TimeAssumption DEF Never
  <2> QED BY <1>2, <1>3, <2>1, <2>4
<1>7. BatchIsDue'
  <2> SUFFICES ASSUME NEW x \in batch, NEW y \in pq' PROVE x.at <= now /\ x.at <= y.at
    BY <1>4 DEF BatchIsDue
  <2>1. x.at \in 0..MaxTime /\ now \in 0..MaxTime
    BY DEF DMTypeOK, Entry
  <2>2. CASE y \in pq
    BY <2>2 DEF BatchIsDue
  <2>3. CASE y = e
    BY <1>1, <1>2, <2>1, <2>3, TimeAssumption DEF BatchIsDue
  <2> QED BY <1>3, <2>2, <2>3
<1>8. AimsAhead'
  BY <1>4 DEF AimsAhead, loopVars
<1> QED BY <1>5, <1>6, <1>7, <1>8

\* A step of the loop keeps the invariant.
LEMMA LoopKeeps ==
  ASSUME DMInv, LoopStep
  PROVE  DMInv'
<1> USE DEF DMInv
<1>1. CASE calculateNextRun
  <2> USE <1>1 DEF calculateNextRun
  <2>1. \A x \in pq : x.at \in 0..MaxTime
    BY DEF DMTypeOK, Entry
  <2>2. DMTypeOK'
    BY <2>1, TimeAssumption DEF DMTypeOK, Never
  <2>3. NoOversleep'
    BY <2>1 DEF NoOversleep, isHead
  <2>4. BatchIsDue'
    BY DEF BatchIsDue
  <2>5. AimsAhead'
    BY <2>1, TimeAssumption DEF AimsAhead, Never, DMTypeOK
  <2> QED BY <2>2, <2>3, <2>4, <2>5
<1>2. CASE ArmTimer
  <2> USE <1>2 DEF ArmTimer
  <2>1. timer' \in 0..Never
    BY TimeAssumption DEF DMTypeOK, AimsAhead, Never, clip
  <2>2. DMTypeOK'
    BY <2>1 DEF DMTypeOK
  <2> QED BY <2>2 DEF NoOversleep, BatchIsDue, AimsAhead
<1>3. CASE TimerFires \/ Wake \/ LoopExits
  <2>1. 0 \in 0..MaxTime /\ Never \in 0..Never
    BY TimeAssumption DEF Never
  <2>2. UNCHANGED <<now, pq, batch, cancelled, cleared>> /\ wakeup' \in BOOLEAN
    BY <1>3 DEF TimerFires, Wake, LoopExits, DMTypeOK
  <2>3. loop' \in {"process", "calc", "done"} /\ batch = {} /\ roundOver
    BY <1>3 DEF TimerFires, Wake, LoopExits, DMTypeOK
  <2>4. DMTypeOK'
    BY <2>1, <2>2, <2>3 DEF DMTypeOK, roundOver
  <2> QED BY <2>2, <2>3, <2>4 DEF NoOversleep, BatchIsDue, AimsAhead
<1>4. CASE processExpiredTasks
  <2> USE <1>4 DEF processExpiredTasks
  <2>1. DMTypeOK' /\ NoOversleep' /\ AimsAhead'
    BY DEF DMTypeOK, NoOversleep, AimsAhead, loopVars
  <2>2. \A x \in pq : x.at \in 0..MaxTime /\ now \in 0..MaxTime
    BY DEF DMTypeOK, Entry
  <2>3. BatchIsDue'
    BY <2>2, TimeAssumption DEF BatchIsDue
  <2> QED BY <2>1, <2>3
<1>5. CASE BatchDone
  BY <1>5 DEF BatchDone, DMTypeOK, NoOversleep, BatchIsDue, AimsAhead, loopVars
<1> QED BY <1>1, <1>2, <1>3, <1>4, <1>5 DEF LoopStep

\* Every step keeps the invariant.
LEMMA DMNextInv == DMInv /\ [DMNext]_dmVars => DMInv'
<1> SUFFICES ASSUME DMInv, [DMNext]_dmVars PROVE DMInv'
  OBVIOUS
<1>1. CASE ClockTick
  <2>1. \A x \in batch : x.at \in 0..MaxTime
    BY DEF DMInv, DMTypeOK, Entry
  <2> QED
    BY <1>1, <2>1, TimeAssumption DEF ClockTick, DMInv, DMTypeOK, NoOversleep, BatchIsDue, AimsAhead, loopVars
<1>2. ASSUME NEW i \in Item, NEW d \in 0..MaxTime, AddDelayedTask(i, d) PROVE DMInv'
  BY <1>2, AddKeeps
<1>3. CASE LoopStep
  BY <1>3, LoopKeeps
<1>4. ASSUME NEW x \in batch, PostExpired(x) PROVE DMInv'
  BY <1>4 DEF PostExpired, DMInv, DMTypeOK, NoOversleep, BatchIsDue, AimsAhead, loopVars
<1>5. CASE CancelLoop \/ ClearHeap
  BY <1>5 DEF CancelLoop, ClearHeap, DMInv, DMTypeOK, NoOversleep, BatchIsDue, AimsAhead, loopVars
<1>6. CASE UNCHANGED dmVars
  BY <1>6 DEF dmVars, DMInv, DMTypeOK, NoOversleep, BatchIsDue, AimsAhead, loopVars
<1> QED BY <1>1, <1>2, <1>3, <1>4, <1>5, <1>6 DEF DMNext

\* The invariant holds throughout.
LEMMA DMInvariant == DMSpec => []DMInv
BY DMInitInv, DMNextInv, PTL DEF DMSpec

\* Type correctness of the delay manager.
THEOREM DMTypeCorrect == DMSpec => []DMTypeOK
BY DMInvariant, PTL DEF DMInv

\* The loop of the delay manager never sleeps past an entry (AddDelayedTask, loop).
THEOREM NeverOversleeps == DMSpec => []NoOversleep
BY DMInvariant, PTL DEF DMInv

\* One step posts only what is due, and nothing before what is due earlier.
LEMMA StepPostsInOrder ==
  ASSUME DMInv, [DMNext]_dmVars, NEW x \in batch \ batch'
  PROVE  x.at <= now /\ \A y \in batch' \cup pq' : x.at <= y.at
<1>1. PICK z \in batch : PostExpired(z)
  <2>1. CASE LoopStep
    BY <2>1 DEF LoopStep, calculateNextRun, ArmTimer, TimerFires, Wake, LoopExits,
                processExpiredTasks, BatchDone, DMInv, DMTypeOK
  <2>2. CASE ClockTick \/ CancelLoop \/ ClearHeap \/ UNCHANGED dmVars
    BY <2>2 DEF ClockTick, CancelLoop, ClearHeap, dmVars
  <2>3. CASE \E i \in Item, d \in 0..MaxTime : AddDelayedTask(i, d)
    BY <2>3 DEF AddDelayedTask
  <2> QED BY <2>1, <2>2, <2>3 DEF DMNext
<1> QED BY <1>1 DEF PostExpired, isHead, DMInv, BatchIsDue

\* Delayed tasks are posted to their targets in the order of their due times
\* (processExpiredTasks), although others are added meanwhile.
THEOREM PostsInDueOrder == DMSpec => PostedInDueOrder
<1>1. DMInv /\ [DMNext]_dmVars =>
        [\A x \in batch \ batch' : x.at <= now /\ \A y \in batch' \cup pq' : x.at <= y.at]_batch
  BY StepPostsInOrder
<1> QED BY <1>1, DMInvariant, PTL DEF DMSpec, PostedInDueOrder

-----------------------------------------------------------------------------
(* Its users.                                                              *)

\* A step of the delay loop's goroutine is one of the delay manager.
LEMMA DelayLoopIsDM ==
  ASSUME DelayLoop
  PROVE  [DMNext]_dmVars
<1>1. CASE LoopStep
  BY <1>1 DEF DMNext
<1>2. ASSUME NEW x \in batch, CheckTarget(x) \/ PushToTarget(x) \/ PostToParallel(x)
      PROVE  [DMNext]_dmVars
  BY <1>2 DEF CheckTarget, PushToTarget, PostToParallel, DMNext
<1> QED BY <1>1, <1>2 DEF DelayLoop

\* Every step is a step of the delay manager or leaves it alone.
LEMMA NextIsDM == [Next]_vars => [DMNext]_dmVars
<1> SUFFICES ASSUME [Next]_vars PROVE [DMNext]_dmVars
  OBVIOUS
<1>1. CASE ClockTick
  BY <1>1 DEF DMNext
<1>2. ASSUME NEW d, PostRepeatingTask(d) PROVE UNCHANGED dmVars
  BY <1>2 DEF PostRepeatingTask, postNow, postDelayed
<1>3. ASSUME NEW w, PostTaskAndReply(w) PROVE UNCHANGED dmVars
  BY <1>3 DEF PostTaskAndReply, postNow
<1>4. ASSUME NEW w, NEW d, PostDelayedTaskAndReply(w, d) PROVE UNCHANGED dmVars
  BY <1>4 DEF PostDelayedTaskAndReply, postDelayed
<1>5. ASSUME NEW i \in Item, NEW d \in Delay, Add(i, d) PROVE DMNext
  BY <1>5, DelayAssumption DEF Add, DMNext
<1>6. CASE DelayLoop
  BY <1>6, DelayLoopIsDM
<1>7. CASE RunClosure
  BY <1>7 DEF RunClosure
<1>8. CASE RunnerStep
  BY <1>8 DEF RunnerStep, Start, Finish, TickCheck, TickEnds, TickPanics, WorkEnds,
                PostReply, givesReply
<1>9. ASSUME NEW w \in Work, RunReply(w) PROVE UNCHANGED dmVars
  BY <1>9 DEF RunReply
<1>10. CASE HandleStop \/ Shutdown
  BY <1>10 DEF HandleStop, Shutdown
<1>11. CASE ShutDownScheduler
  BY <1>11 DEF ShutDownScheduler, DMNext
<1>12. CASE UNCHANGED vars
  BY <1>12 DEF vars
<1> QED
  BY <1>1, <1>2, <1>3, <1>4, <1>5, <1>6, <1>7, <1>8, <1>9, <1>10, <1>11, <1>12 DEF Next

\* The timers implement the delay manager's specification, posts to the runners,
\* shutdowns and all.
THEOREM TimersUseDelayManager == Spec => DMSpec
<1>1. Init => DMInit
  BY DEF Init
<1> QED BY <1>1, NextIsDM, PTL DEF Spec, DMSpec

\* The delay loop never sleeps past an entry, whoever adds it: a delayed post, the
\* next tick of a repeating task or a task with a reply.
THEOREM TimersNeverOversleep == Spec => []NoOversleep
BY TimersUseDelayManager, NeverOversleeps, PTL

-----------------------------------------------------------------------------

\* The inductive invariant of a reply: the value is stored before the reply is
\* posted.
ReplyInv ==
  /\ ended \in [Work -> {"no", "ok", "panic"}]
  /\ result \in [Work -> {"unset", "final"}]
  /\ reply \in [Work -> {"none", "posted", "refused", "done"}]
  /\ seen \in [Work -> {"nothing", "unset", "final"}]
  /\ \A w \in Work :
       /\ reply[w] # "none" => ended[w] = "ok"
       /\ ended[w] = "ok" => result[w] = "final"
       /\ reply[w] = "done" => seen[w] = "final"

\* The end of a task keeps the invariant.
LEMMA WorkEndsKeeps ==
  ASSUME ReplyInv, NEW w \in Work, NEW how \in {"ok", "panic"}, WorkEnds(w, how)
  PROVE  ReplyInv'
BY DEF ReplyInv, WorkEnds

\* So does the post of its reply: the value has been stored by then.
LEMMA PostReplyKeeps ==
  ASSUME ReplyInv, NEW w \in Work, PostReply(w)
  PROVE  ReplyInv'
BY DEF ReplyInv, PostReply, givesReply

\* The reply keeps it as well.
LEMMA RunReplyKeeps ==
  ASSUME ReplyInv, NEW w \in Work, RunReply(w)
  PROVE  ReplyInv'
BY DEF ReplyInv, RunReply

\* Every step keeps the invariant of replies.
LEMMA ReplyNext == ReplyInv /\ [Next]_vars => ReplyInv'
<1> SUFFICES ASSUME ReplyInv, [Next]_vars PROVE ReplyInv'
  OBVIOUS
<1>1. ASSUME UNCHANGED replyVars PROVE ReplyInv'
  BY <1>1 DEF replyVars, ReplyInv
<1>2. ASSUME NEW d, PostRepeatingTask(d) PROVE UNCHANGED replyVars
  BY <1>2 DEF PostRepeatingTask, postNow, postDelayed
<1>3. ASSUME NEW w, PostTaskAndReply(w) PROVE UNCHANGED replyVars
  BY <1>3 DEF PostTaskAndReply, postNow
<1>4. ASSUME NEW w, NEW d, PostDelayedTaskAndReply(w, d) PROVE UNCHANGED replyVars
  BY <1>4 DEF PostDelayedTaskAndReply, postDelayed
<1>5. ASSUME NEW i, NEW d, Add(i, d) PROVE UNCHANGED replyVars
  BY <1>5 DEF Add
<1>6. CASE DelayLoop
  BY <1>1, <1>6 DEF DelayLoop, CheckTarget, PushToTarget, PostToParallel
<1>7. CASE RunClosure
  BY <1>1, <1>7 DEF RunClosure
<1>8. CASE RunnerStep
  <2>1. CASE Start \/ Finish \/ TickCheck \/ TickEnds \/ TickPanics
    BY <1>1, <2>1 DEF Start, Finish, TickCheck, TickEnds, TickPanics
  <2> QED BY <1>8, <2>1, WorkEndsKeeps, PostReplyKeeps DEF RunnerStep
<1>9. CASE HandleStop \/ Shutdown \/ ShutDownScheduler
  BY <1>1, <1>9 DEF HandleStop, Shutdown, ShutDownScheduler
<1>10. CASE UNCHANGED vars
  BY <1>1, <1>10 DEF vars
<1> QED
  BY <1>1, <1>2, <1>3, <1>4, <1>5, <1>6, <1>7, <1>8, <1>9, <1>10, RunReplyKeeps DEF Next

\* A reply reaches its runner only after its task returned without a panic, and
\* reads the value the task returned (executeTaskWithRecovery and the wrapper of
\* postTaskAndReplyInternalWithTraits).
THEOREM RepliesFollowTasks == Spec => []ReplyAfterTask
<1>1. Init => ReplyInv
  BY DEF Init, ReplyInv
<1>2. ReplyInv => ReplyAfterTask
  BY DEF ReplyInv, ReplyAfterTask
<1> QED BY <1>1, <1>2, ReplyNext, PTL DEF Spec

=============================================================================
