------------------------------- MODULE Timers -------------------------------
(***************************************************************************)
(* The users of the delay manager on a runner of a thread pool: delayed    *)
(* tasks, repeating tasks and tasks with a reply.  The runner is a         *)
(* SequencedTaskRunner, seen as the sequential executor of module Strand   *)
(* that it implements, or a ParallelTaskRunner, whose posts are closures   *)
(* for a scheduler goroutine and which has a place for every task here.    *)
(* The reply runner executes a reply at some time, or refuses it.          *)
(***************************************************************************)
EXTENDS DelayManager, Sequences

CONSTANTS
  Repeating,   \* the task of a RepeatingTaskHandle
  Work,        \* tasks posted once, each with a reply
  Delay,       \* delays and intervals in use
  Kinds,       \* the kinds of runner in use
  None

ASSUME ItemAssumption == Item = {Repeating} \cup Work /\ Repeating \notin Work
ASSUME DelayAssumption == Delay \subseteq 0..MaxTime
ASSUME KindAssumption == Kinds \subseteq {"sequenced", "parallel"}
ASSUME NoneAssumption == None \notin Entry

VARIABLES
  called,         \* the items whose first post has been made
  adding,         \* delayed posts past the scheduler's shutdown check
  shuttingDown,   \* the scheduler refuses work
  postChecked,    \* the entry whose target was found open by the delay loop
  tick,           \* progress of the running tick
  handle,         \* the handle is "live" or "stopped"
  ended,          \* how each work ended
  result,         \* the variable that a work and its reply share
  reply,          \* progress of each reply
  seen,           \* history: what each reply has read
  kind,           \* the kind of the runner
  closures,       \* posts that the parallel runner's scheduler has not taken yet
  waiting, running, finished, closed, discarded, down    \* the runner

callVars == <<called, adding, shuttingDown>>
tickVars == <<tick, handle>>
replyVars == <<ended, result, reply, seen>>
runnerVars == <<waiting, running, finished, closed, discarded, down>>
postVars == <<kind, closures>>
vars == <<dmVars, callVars, postChecked, tickVars, replyVars, postVars, runnerVars>>

runner == INSTANCE Strand WITH Task <- Item, cleared <- discarded

Init ==
  /\ DMInit
  /\ called = {}
  /\ adding = {}
  /\ shuttingDown = FALSE
  /\ postChecked = None
  /\ tick = "off"
  /\ handle = "live"
  /\ ended = [w \in Work |-> "no"]
  /\ result = [w \in Work |-> "unset"]
  /\ reply = [w \in Work |-> "none"]
  /\ seen = [w \in Work |-> "nothing"]
  /\ kind \in Kinds
  /\ closures = << >>
  /\ runner!Init

-----------------------------------------------------------------------------
(* Posts.                                                                  *)

\* PostTask.  A goroutine may have found the runner open long before its push.
posts(i) ==
  \/ kind = "sequenced" /\ runner!Accept(i) /\ UNCHANGED closures
  \/ kind = "parallel" /\ closures' = Append(closures, i) /\ UNCHANGED runnerVars
  \/ closed /\ UNCHANGED <<closures, runnerVars>>

postNow(i) ==
  /\ i \notin called
  /\ called' = called \cup {i}
  /\ posts(i)
  /\ UNCHANGED <<dmVars, adding, shuttingDown, postChecked, tickVars, replyVars, kind>>

\* PostDelayedInternal of the scheduler: refused once it shuts down.
delays(i, d) ==
  adding' = IF shuttingDown THEN adding ELSE adding \cup {<<i, d>>}

\* PostDelayedTask: the parallel runner looks at its closed flag first.
postDelayed(i, d) ==
  /\ i \notin called
  /\ called' = called \cup {i}
  /\ IF kind = "parallel" /\ closed THEN UNCHANGED adding ELSE delays(i, d)
  /\ UNCHANGED <<dmVars, shuttingDown, postChecked, tickVars, replyVars, postVars, runnerVars>>

\* PostRepeatingTaskWithInitialDelay; 0 is the delay of PostRepeatingTask.
PostRepeatingTask(d) == IF d = 0 THEN postNow(Repeating) ELSE postDelayed(Repeating, d)

PostTaskAndReply(w) == postNow(w)
PostDelayedTaskAndReply(w, d) == postDelayed(w, d)

Add(i, d) ==
  /\ <<i, d>> \in adding
  /\ adding' = adding \ {<<i, d>>}
  /\ AddDelayedTask(i, d)
  /\ UNCHANGED <<called, shuttingDown, postChecked, tickVars, replyVars, postVars, runnerVars>>

\* The delay loop posts an expired entry: the target's check, then its push.
CheckTarget(x) ==
  /\ kind = "sequenced"
  /\ postChecked = None
  /\ IF closed THEN PostExpired(x) /\ UNCHANGED postChecked
               ELSE /\ loop = "post" /\ isHead(x, batch)
                    /\ postChecked' = x
                    /\ UNCHANGED dmVars
  /\ UNCHANGED <<callVars, tickVars, replyVars, postVars, runnerVars>>

PushToTarget(x) ==
  /\ postChecked = x
  /\ postChecked' = None
  /\ PostExpired(x)
  /\ runner!Accept(x.item)
  /\ UNCHANGED <<callVars, tickVars, replyVars, postVars>>

\* The parallel runner leaves the check to its scheduler goroutine.
PostToParallel(x) ==
  /\ kind = "parallel"
  /\ PostExpired(x)
  /\ posts(x.item)
  /\ UNCHANGED <<callVars, postChecked, tickVars, replyVars, kind>>

-----------------------------------------------------------------------------
(* The runner.                                                             *)

\* The scheduler goroutine takes a closure.  (Module ParallelRunner has the steps
\* between its check and its push.)
RunClosure ==
  /\ closures # << >>
  /\ closures' = Tail(closures)
  /\ IF closed THEN UNCHANGED runnerVars ELSE runner!Accept(Head(closures))
  /\ UNCHANGED <<dmVars, callVars, postChecked, tickVars, replyVars, kind>>

\* The pool starts the first task, beside others if the runner is parallel.
StartBeside ==
  /\ kind = "parallel" /\ running # {}
  /\ waiting # << >>
  /\ running' = running \cup {Head(waiting)}
  /\ waiting' = Tail(waiting)
  /\ UNCHANGED <<finished, closed, discarded, down>>

Start ==
  /\ runner!Start \/ StartBeside
  /\ tick' = IF Head(waiting) = Repeating THEN "taken" ELSE tick
  /\ UNCHANGED <<dmVars, callVars, postChecked, handle, replyVars, postVars>>

\* The checks of a tick, before its body and again before the next is posted.
tickMayRun == ~closed /\ handle = "live"

TickCheck ==
  /\ Repeating \in running /\ tick = "taken"
  /\ tick' = IF tickMayRun THEN "body" ELSE "over"
  /\ UNCHANGED <<dmVars, callVars, postChecked, handle, replyVars, postVars, runnerVars>>

\* Fault: the tick of a chain is posted again only when nothing else waits.
repostsIfIdle == IF pq = {} THEN \E d \in Delay \ {0} : delays(Repeating, d) ELSE UNCHANGED adding

\* createRepeatingTask posts itself again, with the interval.
repostsTick == \E d \in Delay \ {0} : delays(Repeating, d)

TickEnds ==
  /\ tick = "body"
  /\ tick' = "over"
  /\ IF tickMayRun THEN repostsTick ELSE UNCHANGED adding
  /\ UNCHANGED <<dmVars, called, shuttingDown, postChecked, handle, replyVars, postVars, runnerVars>>

\* The worker recovers the panic of a tick: the chain ends.
TickPanics ==
  /\ tick = "body"
  /\ tick' = "panicked"
  /\ UNCHANGED <<dmVars, callVars, postChecked, handle, replyVars, postVars, runnerVars>>

\* executeTaskWithRecovery runs the wrapped task: its value is stored in the shared
\* variable when it returns; a panic is recovered and leaves the variable alone.
WorkEnds(w, how) ==
  /\ w \in running /\ ended[w] = "no"
  /\ ended' = [ended EXCEPT ![w] = how]
  /\ result' = [result EXCEPT ![w] = IF how = "ok" THEN "final" ELSE @]
  /\ UNCHANGED <<dmVars, callVars, postChecked, tickVars, reply, seen, postVars, runnerVars>>

\* The reply runner takes the reply, or refuses it because it is closed.
givesReply(w) ==
  /\ \E s \in {"posted", "refused"} : reply' = [reply EXCEPT ![w] = s]
  /\ UNCHANGED <<dmVars, callVars, postChecked, tickVars, ended, result, seen, postVars, runnerVars>>

\* Fault: the reply is handed over beside the task instead of behind it.
PostReplyBeside(w) ==
  /\ w \in running /\ reply[w] = "none"
  /\ givesReply(w)

\* Back in the wrapper, the worker posts the reply unless the task panicked.
PostReply(w) ==
  /\ w \in running /\ ended[w] = "ok" /\ reply[w] = "none"
  /\ givesReply(w)

\* The reply runner executes the reply.
RunReply(w) ==
  /\ reply[w] = "posted"
  /\ reply' = [reply EXCEPT ![w] = "done"]
  /\ seen' = [seen EXCEPT ![w] = result[w]]
  /\ UNCHANGED <<dmVars, callVars, postChecked, tickVars, ended, result, postVars, runnerVars>>

FinishBeside(i) ==
  /\ running # {i}
  /\ running' = running \ {i}
  /\ finished' = finished \cup {i}
  /\ UNCHANGED <<waiting, closed, discarded, down>>

\* The wrapper of a work has nothing left to do.
wrapperReturns(w) == ended[w] = "panic" \/ reply[w] # "none"

Finish ==
  /\ \E i \in running :
       /\ runner!Finish(i) \/ FinishBeside(i)
       /\ IF i = Repeating THEN tick \in {"over", "panicked"} ELSE wrapperReturns(i)
  /\ UNCHANGED <<dmVars, callVars, postChecked, tickVars, replyVars, postVars>>

-----------------------------------------------------------------------------
(* Stopping.                                                               *)

HandleStop ==
  /\ handle = "live"
  /\ handle' = "stopped"
  /\ UNCHANGED <<dmVars, callVars, postChecked, tick, replyVars, postVars, runnerVars>>

Shutdown ==
  /\ runner!Close \/ runner!Discard
  /\ UNCHANGED <<dmVars, callVars, postChecked, tickVars, replyVars, postVars>>

\* Shutdown of the scheduler: the flag, then DelayManager.Stop, then the pool.
ShutDownScheduler ==
  /\ \/ /\ ~shuttingDown /\ shuttingDown' = TRUE
        /\ UNCHANGED <<dmVars, runnerVars>>
     \/ /\ shuttingDown
        /\ CancelLoop \/ ClearHeap
        /\ UNCHANGED <<shuttingDown, runnerVars>>
     \/ /\ cleared /\ ~down
        /\ runner!PoolGoesDown
        /\ UNCHANGED <<dmVars, shuttingDown>>
  /\ UNCHANGED <<called, adding, postChecked, tickVars, replyVars, postVars>>

DelayLoop ==
  \/ LoopStep /\ UNCHANGED <<callVars, postChecked, tickVars, replyVars, postVars, runnerVars>>
  \/ \E x \in batch : CheckTarget(x) \/ PushToTarget(x) \/ PostToParallel(x)

RunnerStep ==
  \/ Start \/ Finish
  \/ TickCheck \/ TickEnds \/ TickPanics
  \/ \E w \in Work : \E how \in {"ok", "panic"} : WorkEnds(w, how)
  \/ \E w \in Work : PostReply(w)

Next ==
  \/ ClockTick /\ UNCHANGED <<callVars, postChecked, tickVars, replyVars, postVars, runnerVars>>
  \/ \E d \in Delay \cup {0} : PostRepeatingTask(d)
  \/ \E w \in Work : PostTaskAndReply(w)
  \/ \E w \in Work, d \in Delay : PostDelayedTaskAndReply(w, d)
  \/ \E i \in Item, d \in Delay : Add(i, d)
  \/ DelayLoop
  \/ RunClosure
  \/ RunnerStep
  \/ \E w \in Work : RunReply(w)
  \/ HandleStop \/ Shutdown \/ ShutDownScheduler

\* Time passes; the delay loop, the pool's workers and a shutdown that has begun
\* go on; a call that has passed its check adds its entry.  Nothing obliges
\* anyone to post, to stop a handle or to begin a shutdown.
Fairness ==
  /\ WF_vars(ClockTick /\ UNCHANGED <<callVars, postChecked, tickVars, replyVars, postVars, runnerVars>>)
  /\ WF_vars(DelayLoop)
  /\ WF_vars(RunClosure)
  /\ WF_vars(~down /\ RunnerStep)
  /\ WF_vars(\E i \in Item, d \in Delay : Add(i, d))
  /\ \A w \in Work : WF_vars(RunReply(w))
  /\ WF_vars(shuttingDown /\ ShutDownScheduler)

Spec == Init /\ [][Next]_vars /\ Fairness

-----------------------------------------------------------------------------
(* Properties.                                                             *)

\* A delayed task is posted to its target once it is due, unless the scheduler
\* is shut down, whatever was added while the loop slept.
DueIsPosted ==
  \A i \in Item : (\E x \in pq : x.item = i) ~> shuttingDown \/ ~\E x \in pq \cup batch : x.item = i

\* A repeating task goes on until it is stopped, its runner or the scheduler shut
\* down, or it panics: no tick is lost between the runner and the delay loop.
ChainGoesOn ==
  tick = "body" ~> tick \in {"taken", "panicked"} \/ handle # "live" \/ closed \/ shuttingDown

\* The reply of a task reaches its runner only once the task has returned without
\* a panic; whenever that runner executes it, beside the worker that is still in
\* the wrapper or later, it reads the value that the task returned (the
\* "Happens-Before" guarantee of PostTaskAndReplyWithResult).
ReplyAfterTask ==
  \A w \in Work : reply[w] # "none" => ended[w] = "ok" /\ (reply[w] = "done" => seen[w] = "final")

=============================================================================
