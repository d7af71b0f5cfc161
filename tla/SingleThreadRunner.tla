------------------------- MODULE SingleThreadRunner -------------------------
(***************************************************************************)
(* SingleThreadTaskRunner: one goroutine (runLoop) that takes tasks from a *)
(* bounded channel.  Posts are made by callers, by time.AfterFunc          *)
(* goroutines (delayed tasks) and by the running task itself, which then   *)
(* waits on the channel that only it can drain.                            *)
(*                                                                         *)
(* Checks of the closed flag that follow one another with no effect in     *)
(* between are one step: the flag is never cleared, so the last one        *)
(* decides.                                                                *)
(***************************************************************************)
EXTENDS Naturals, Sequences, FiniteSets

CONSTANTS
  Task,       \* tasks that are posted once
  Barrier,    \* the tasks of WaitIdle calls, a subset of Task
  Tick,       \* the repeating task of a RepeatingTaskHandle
  Policy,     \* the queue policies in use
  Capacity,   \* capacity of workQueue (100 in the code)
  None

ASSUME BarrierAssumption == Barrier \subseteq Task
ASSUME TickAssumption == Tick \notin Task /\ None \notin Task \cup {Tick}
ASSUME PolicyAssumption == Policy \subseteq {"drop", "reject", "wait"}
ASSUME CapacityAssumption == Capacity \in Nat \ {0}

Item == Task \cup {Tick}

\* Where an item is.  A tick is "taken" before its checks and "passed" after
\* them.  "lost" items found the runner closed or cancelled, "rejected" ones the
\* queue full: neither will run.
Status ==
  {"new", "called", "armed", "checked", "sending", "queued", "taken", "passed",
   "running", "done", "panicked", "lost", "rejected"}

VARIABLES
  status,       \* where each item is
  readPolicy,   \* the policy that the item's enqueueTask has read
  before,       \* history: of the items that were in the runner when a WaitIdle
                \* was called, those that have not ended since
  workQueue,
  queuePolicy,
  closed,
  stop,         \* progress of the call of Stop
  loop,         \* what runLoop executes; None when in its select
  exited,       \* runLoop has returned and closed the stopped channel
  posting,      \* the item that the running task is posting to its own runner
  handle,       \* the handle of the repeating task; "late": stopped when the
                \* running tick had already passed its checks
  lateTicks     \* history: bodies of the tick begun after handle.Stop

itemVars == <<status, readPolicy, before>>
queueVars == <<workQueue, queuePolicy>>
lifeVars == <<closed, stop>>
loopVars == <<loop, exited, posting>>
handleVars == <<handle, lateTicks>>
vars == <<itemVars, queueVars, lifeVars, loopVars, handleVars>>

Init ==
  /\ status = [i \in Item |-> "new"]
  /\ readPolicy = [i \in Item |-> None]
  /\ before = [b \in Barrier |-> {}]
  /\ workQueue = << >>
  /\ queuePolicy \in Policy
  /\ closed = FALSE
  /\ stop = "none"
  /\ loop = None
  /\ exited = FALSE
  /\ posting = None
  /\ handle = "live"
  /\ lateTicks = 0

\* Stop has cancelled the runner's context.
cancelled == stop \in {"cancelled", "returned"}

Set(i, s) == status' = [status EXCEPT ![i] = s]

\* runLoop is through with the item, which goes on to s.
End(i, s) ==
  /\ Set(i, s)
  /\ before' = [b \in Barrier |-> before[b] \ {i}]

-----------------------------------------------------------------------------
(* Posting.                                                                *)

\* WaitIdle: its own closed check; the barrier is posted in a later step.
inRunner(i) == status[i] \in {"queued", "taken", "passed", "running"}

WaitIdle(b) ==
  /\ status[b] = "new"
  /\ Set(b, IF closed THEN "lost" ELSE "called")
  /\ before' = [before EXCEPT ![b] = {i \in Item : inRunner(i)}]
  /\ UNCHANGED <<readPolicy, queueVars, lifeVars, loopVars, handleVars>>

\* Where a post may come from: a call of PostTask, FlushAsync or
\* PostRepeatingTask, the second half of WaitIdle, or a timer that fires.
ready(i) ==
  \/ status[i] = "armed"
  \/ i \in Barrier /\ status[i] = "called"
  \/ i \notin Barrier /\ status[i] = "new"

\* PostDelayedTask, and a repeating task with an initial delay.
PostDelayedTask(i) ==
  /\ i \notin Barrier
  /\ status[i] = "new"
  /\ Set(i, IF closed THEN "lost" ELSE "armed")
  /\ UNCHANGED <<readPolicy, before, queueVars, lifeVars, loopVars, handleVars>>

\* enqueueTask, first half: the check of the closed flag.
EnqueueCheck(i) ==
  /\ ready(i)
  /\ Set(i, IF closed THEN "lost" ELSE "checked")
  /\ UNCHANGED <<readPolicy, before, queueVars, lifeVars, loopVars, handleVars>>

\* A running task posts to its own runner and waits for the post to return.
PostFromTask(i) ==
  /\ loop \in Task \ Barrier
  /\ posting = None
  /\ i \notin Barrier /\ status[i] = "new"
  /\ Set(i, IF closed THEN "lost" ELSE "checked")
  /\ posting' = IF closed THEN None ELSE i
  /\ UNCHANGED <<readPolicy, before, queueVars, lifeVars, loop, exited, handleVars>>

\* enqueueTask: the policy in force is read, under the policy lock.
ReadPolicy(i) ==
  /\ status[i] = "checked"
  /\ Set(i, "sending")
  /\ readPolicy' = [readPolicy EXCEPT ![i] = queuePolicy]
  /\ UNCHANGED <<before, queueVars, lifeVars, loopVars, handleVars>>

full == Len(workQueue) >= Capacity

\* What select does with a send on workQueue: send, give up, or the default case.
endsPost(i, s) ==
  /\ status[i] = "sending"
  /\ Set(i, s)
  /\ readPolicy' = [readPolicy EXCEPT ![i] = None]
  /\ posting' = IF posting = i THEN None ELSE posting
  /\ UNCHANGED <<before, queuePolicy, lifeVars, loop, exited, handleVars>>

Send(i) ==
  /\ ~full
  /\ endsPost(i, "queued")
  /\ workQueue' = Append(workQueue, i)

\* Fault: a blocked sender does not watch the context.
NeverGiveUp(i) == FALSE /\ UNCHANGED vars

GiveUp(i) ==
  /\ cancelled
  /\ endsPost(i, "lost")
  /\ UNCHANGED workQueue

\* Only QueuePolicyReject has a default case, taken when no other case is ready.
Reject(i) ==
  /\ full /\ ~cancelled
  /\ readPolicy[i] = "reject"
  /\ endsPost(i, "rejected")
  /\ UNCHANGED workQueue

SetQueuePolicy(p) ==
  /\ queuePolicy # p
  /\ queuePolicy' = p
  /\ UNCHANGED <<itemVars, workQueue, lifeVars, loopVars, handleVars>>

-----------------------------------------------------------------------------
(* runLoop.                                                                *)

\* Fault: the newest item is taken first.
LoopTakeNewest ==
  LET newest == workQueue[Len(workQueue)] IN
  /\ ~exited /\ loop = None
  /\ workQueue # << >>
  /\ loop' = newest
  /\ workQueue' = SubSeq(workQueue, 1, Len(workQueue) - 1)
  /\ Set(newest, IF newest = Tick THEN "taken" ELSE "running")
  /\ UNCHANGED <<readPolicy, before, queuePolicy, lifeVars, exited, posting, handleVars>>

LoopTake ==
  /\ ~exited /\ loop = None
  /\ workQueue # << >>
  /\ loop' = Head(workQueue)
  /\ workQueue' = Tail(workQueue)
  /\ Set(Head(workQueue), IF Head(workQueue) = Tick THEN "taken" ELSE "running")
  /\ UNCHANGED <<readPolicy, before, queuePolicy, lifeVars, exited, posting, handleVars>>

\* Fault: Shutdown ends the loop, as Stop does.
LoopExitClosed ==
  /\ ~exited /\ loop = None
  /\ closed
  /\ exited' = TRUE
  /\ UNCHANGED <<itemVars, queueVars, lifeVars, loop, posting, handleVars>>

LoopExit ==
  /\ ~exited /\ loop = None
  /\ cancelled
  /\ exited' = TRUE
  /\ UNCHANGED <<itemVars, queueVars, lifeVars, loop, posting, handleVars>>

\* A task returns, or panics and is recovered.  A barrier wakes its WaitIdle.
TaskEnds(s) ==
  /\ loop \in Task
  /\ posting = None
  /\ End(loop, IF loop \in Barrier THEN "done" ELSE s)
  /\ loop' = None
  /\ UNCHANGED <<readPolicy, queueVars, lifeVars, exited, posting, handleVars>>

\* Fault: only the runner is looked at.
runnerOpen == ~closed

\* The repeating task: its checks, its body and what follows the body.
tickMayRun == ~closed /\ handle = "live"

TickCheck ==
  /\ loop = Tick
  /\ status[Tick] = "taken"
  /\ IF tickMayRun
       THEN Set(Tick, "passed") /\ UNCHANGED <<before, loop>>
       ELSE End(Tick, "done") /\ loop' = None
  /\ UNCHANGED <<readPolicy, queueVars, lifeVars, exited, posting, handleVars>>

TickBody ==
  /\ loop = Tick
  /\ status[Tick] = "passed"
  /\ Set(Tick, "running")
  /\ lateTicks' = IF handle = "live" \/ lateTicks = 2 THEN lateTicks ELSE lateTicks + 1
  /\ UNCHANGED <<readPolicy, before, queueVars, lifeVars, loopVars, handle>>

TickEnds ==
  /\ loop = Tick
  /\ status[Tick] = "running"
  /\ End(Tick, IF tickMayRun THEN "armed" ELSE "done")
  /\ loop' = None
  /\ UNCHANGED <<readPolicy, queueVars, lifeVars, exited, posting, handleVars>>

\* The panic of a tick is recovered by runLoop: nothing arms the next one.
TickPanics ==
  /\ loop = Tick
  /\ status[Tick] = "running"
  /\ End(Tick, "panicked")
  /\ loop' = None
  /\ UNCHANGED <<readPolicy, queueVars, lifeVars, exited, posting, handleVars>>

HandleStop ==
  /\ handle = "live"
  /\ handle' = IF status[Tick] = "passed" THEN "late" ELSE "stopped"
  /\ UNCHANGED <<itemVars, queueVars, lifeVars, loopVars, lateTicks>>

-----------------------------------------------------------------------------
(* Shutdown and Stop.                                                      *)

Shutdown ==
  /\ ~closed
  /\ closed' = TRUE
  /\ UNCHANGED <<itemVars, queueVars, stop, loopVars, handleVars>>

Stop ==
  /\ stop = "none"
  /\ stop' = "closed"
  /\ closed' = TRUE
  /\ UNCHANGED <<itemVars, queueVars, loopVars, handleVars>>

Cancel ==
  /\ stop = "closed"
  /\ stop' = "cancelled"
  /\ UNCHANGED <<itemVars, queueVars, closed, loopVars, handleVars>>

StopReturns ==
  /\ stop = "cancelled"
  /\ exited
  /\ stop' = "returned"
  /\ UNCHANGED <<itemVars, queueVars, closed, loopVars, handleVars>>

Poster ==
  \E i \in Item :
    \/ EnqueueCheck(i) \/ PostDelayedTask(i) \/ PostFromTask(i) \/ ReadPolicy(i)
    \/ Send(i) \/ GiveUp(i) \/ Reject(i)

RunLoop ==
  \/ LoopTake \/ LoopExit
  \/ \E s \in {"done", "panicked"} : TaskEnds(s)
  \/ TickCheck \/ TickBody \/ TickEnds \/ TickPanics

Next ==
  \/ \E b \in Barrier : WaitIdle(b)
  \/ Poster
  \/ \E p \in Policy : SetQueuePolicy(p)
  \/ RunLoop
  \/ HandleStop \/ Shutdown \/ Stop \/ Cancel \/ StopReturns

\* A call that has begun goes on: goroutines that can run do run, a timer that
\* is armed fires, a task that runs ends, and the runner takes what it has in
\* its channel.  Nothing obliges anyone to begin a call.
Fairness ==
  /\ WF_vars(RunLoop)
  /\ \A i \in Item :
       /\ WF_vars(status[i] \in {"armed", "called"} /\ EnqueueCheck(i))
       /\ WF_vars(ReadPolicy(i))
       /\ SF_vars(Send(i) \/ GiveUp(i) \/ Reject(i))
  /\ WF_vars(Cancel)
  /\ WF_vars(StopReturns)

Spec == Init /\ [][Next]_vars /\ Fairness

-----------------------------------------------------------------------------
(* Properties.                                                             *)

TypeOK ==
  /\ status \in [Item -> Status]
  /\ readPolicy \in [Item -> Policy \cup {None}]
  /\ before \in [Barrier -> SUBSET Item]
  /\ workQueue \in Seq(Item) /\ Len(workQueue) <= Capacity
  /\ queuePolicy \in Policy
  /\ closed \in BOOLEAN
  /\ stop \in {"none", "closed", "cancelled", "returned"}
  /\ loop \in Item \cup {None}
  /\ exited \in BOOLEAN
  /\ posting \in Item \cup {None}
  /\ handle \in {"live", "stopped", "late"}
  /\ lateTicks \in 0..2

\* The running task posts to its own full channel: only Stop ends the wait.
Wedged == posting # None /\ status[posting] = "sending" /\ full

\* When WaitIdle returns, every item that was in the channel or in runLoop's
\* hands when it was called has ended, a tick of the repeating task included:
\* the barrier stays behind them while the policy changes, senders block and
\* the tasks post to their own runner.
WaitIdleBarrier == \A b \in Barrier : status[b] = "done" => before[b] = {}

\* Stop returns after the task that was running has ended, and nothing runs
\* afterwards, whatever is left in the channel.
StoppedIsQuiet ==
  stop = "returned" => loop = None /\ \A i \in Item : status[i] \notin {"taken", "passed", "running"}

\* After handle.Stop the repeated function starts once more only if its tick
\* had passed both checks before, and never a second time.
LateTicks == lateTicks <= IF handle = "late" THEN 1 ELSE 0

\* Shutdown does not lose tasks: what the channel holds is executed, unless Stop
\* cancels the runner or a task waits on its own full channel.
AcceptedRuns ==
  \A t \in Task : status[t] = "queued" ~> status[t] \in {"done", "panicked"} \/ cancelled \/ Wedged

\* Stop returns, also when senders are blocked on a full channel and when the
\* running task is one of them.
StopEnds == stop = "closed" ~> stop = "returned"

\* QueuePolicyDrop: "Silently drop tasks when queue is full": a post under it
\* returns, whoever makes it.
DropReturns ==
  \A i \in Item : (status[i] = "sending" /\ readPolicy[i] = "drop") ~> status[i] # "sending"

=============================================================================
