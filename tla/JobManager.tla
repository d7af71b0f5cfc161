----------------------------- MODULE JobManager -----------------------------
(***************************************************************************)
(* JobManager: jobs are admitted on a control runner, written to a store   *)
(* on an IO runner and executed on an execution runner.  The control and   *)
(* the IO runner are sequential (module Strand): a queue whose head is the *)
(* closure that is running, which may wait for the other runner.  The      *)
(* execution runner starts what it is given in any order, after any delay. *)
(* A crash loses everything but the rows of a store on disk, and Start      *)
(* recovers them.                                                          *)
(*                                                                         *)
(* One job type.  Between two crashes a job is submitted at most once and  *)
(* Start is called at most once, with a context that is not cancelled: an  *)
(* instance of a job is the job and how it was admitted.                   *)
(***************************************************************************)
EXTENDS JobStore, Sequences

CONSTANTS
  OldRows,      \* rows that earlier processes may have left in the store
  EarlySubmit,  \* whether callers submit without waiting for Start to return
  MaxRetries,   \* retryPolicy.MaxRetries
  MaxCrashes,   \* bound: crashes in a behaviour
  None

ASSUME EarlyAssumption == EarlySubmit \in BOOLEAN
ASSUME BoundAssumption == MaxRetries \in Nat /\ MaxCrashes \in Nat

Instance == Job \X {"submit", "recover"}

ASSUME NoneAssumption == None \notin {"nil", "error"} /\ None \notin Job /\ None \notin Instance

ASSUME RowAssumption == OldRows \subseteq JobStatus \cup {"none"} /\ OldRows # {}

VARIABLES
  acked,        \* history: jobs whose SubmitJob has returned nil, since the store exists
  gaveUp,       \* history: jobs with a final status that no retry could store
  crashes,
  \* the callers
  submit,       \* progress of SubmitJob
  ctxDone,      \* jobs whose caller's context is cancelled
  start,        \* progress of Start
  \* the manager
  closed,
  shutdown,     \* progress of Shutdown
  handlers,     \* a handler is registered
  active,       \* activeJobs: the instance that each active id stands for
  cancelled,    \* the instances whose own context is cancelled
  created,      \* the result that submitJobIO hands back to the control runner
  pendingFinalize,
  \* the runners
  control, controlAt,   \* closures, and where the first of them is
  io, ioAt,             \* the same, with what its loop has left to do
  exec,                 \* where the execution of each instance is
  down                  \* the runners that Shutdown has closed

storeVars == <<row, store, acked, gaveUp, crashes>>
callerVars == <<submit, ctxDone, start>>
lifeVars == <<closed, shutdown>>
jobVars == <<handlers, active, cancelled, created, pendingFinalize>>
controlVars == <<control, controlAt>>
ioVars == <<io, ioAt>>
runVars == <<exec, down>>
vars == <<storeVars, callerVars, lifeVars, jobVars, controlVars, ioVars, runVars>>

IdleIO == [step |-> "idle", left |-> 0, todo |-> {}]

Init ==
  /\ store \in Stores
  /\ row \in [Job -> IF store = "memory" THEN {"none"} ELSE OldRows]
  /\ acked = {} /\ gaveUp = {} /\ crashes = 0
  /\ submit = [j \in Job |-> "no"]
  /\ ctxDone = {}
  /\ start = "no"
  /\ closed = FALSE /\ shutdown = "no"
  /\ handlers = FALSE
  /\ active = [j \in Job |-> None]
  /\ cancelled = {}
  /\ created = None
  /\ pendingFinalize = 0
  /\ control = << >> /\ controlAt = "idle"
  /\ io = << >> /\ ioAt = IdleIO
  /\ exec = [i \in Instance |-> "none"]
  /\ down = {}

\* The process dies and another one starts on the rows it left.
Crash ==
  /\ crashes < MaxCrashes
  /\ crashes' = crashes + 1
  /\ row' = rowsAfterCrash
  /\ acked' = IF store = "memory" THEN {} ELSE acked
  /\ gaveUp' = IF store = "memory" THEN {} ELSE gaveUp
  /\ submit' = [j \in Job |-> "no"]
  /\ ctxDone' = {}
  /\ start' = "no"
  /\ closed' = FALSE /\ shutdown' = "no"
  /\ handlers' = FALSE
  /\ active' = [j \in Job |-> None]
  /\ cancelled' = {}
  /\ created' = None
  /\ pendingFinalize' = 0
  /\ control' = << >> /\ controlAt' = "idle"
  /\ io' = << >> /\ ioAt' = IdleIO
  /\ exec' = [i \in Instance |-> "none"]
  /\ down' = {}
  /\ UNCHANGED store

\* The context of an instance: that of a submitted job derives from the caller's.
contextDone(i) == i \in cancelled \/ (i[2] = "submit" /\ i[1] \in ctxDone)

\* A closure, and its post: a runner that is shut down drops it.
call(op, j, arg) == [op |-> op, job |-> j, arg |-> arg]
posted(queue, runner, c) == IF runner \in down THEN queue ELSE Append(queue, c)
toControl(c) == control' = posted(control, "control", c)
toIO(c) == io' = posted(io, "io", c)

-----------------------------------------------------------------------------
(* The callers.                                                            *)

\* SubmitDelayedJob: the checks, the post to the control runner, the wait.
SubmitJob(j) ==
  /\ submit[j] = "no"
  /\ EarlySubmit \/ start \in {"returned", "failed"}
  /\ submit' = [submit EXCEPT ![j] = IF closed \/ j \in ctxDone THEN "error" ELSE "checked"]
  /\ UNCHANGED <<storeVars, ctxDone, start, lifeVars, jobVars, controlVars, ioVars, runVars>>

PostSubmit(j) ==
  /\ submit[j] = "checked"
  /\ submit' = [submit EXCEPT ![j] = "waiting"]
  /\ toControl(call("submit", j, None))
  /\ UNCHANGED <<storeVars, ctxDone, start, lifeVars, jobVars, controlAt, ioVars, runVars>>

\* The caller cancels its context, also after SubmitJob has returned.
CallerCancels(j) ==
  /\ j \notin ctxDone
  /\ ctxDone' = ctxDone \cup {j}
  /\ UNCHANGED <<storeVars, submit, start, lifeVars, jobVars, controlVars, ioVars, runVars>>

CallerLeaves(j) ==
  /\ submit[j] = "waiting" /\ j \in ctxDone
  /\ submit' = [submit EXCEPT ![j] = "error"]
  /\ UNCHANGED <<storeVars, ctxDone, start, lifeVars, jobVars, controlVars, ioVars, runVars>>

\* CancelJob, RegisterHandler and UnregisterHandler post one closure each.
\* Bound: one such closure in the queue at a time.
isCall(c) == c.op \in {"cancel", "register", "unregister"}

PostCall(c) ==
  /\ isCall(c) /\ ~closed
  /\ \A k \in DOMAIN control : ~isCall(control[k])
  /\ toControl(c)
  /\ UNCHANGED <<storeVars, callerVars, lifeVars, jobVars, controlAt, ioVars, runVars>>

CancelJob(j) == PostCall(call("cancel", j, None))
RegisterHandler == ~handlers /\ PostCall(call("register", None, None))
UnregisterHandler == handlers /\ PostCall(call("unregister", None, None))

Start ==
  /\ start = "no"
  /\ start' = "waiting"
  /\ toIO(call("start", None, None))
  /\ UNCHANGED <<storeVars, submit, ctxDone, lifeVars, jobVars, controlVars, ioAt, runVars>>

-----------------------------------------------------------------------------
(* The control runner.                                                     *)

controlRuns(op, at) == control # << >> /\ Head(control).op = op /\ controlAt = at
endsControl == control' = Tail(control) /\ controlAt' = "idle"

\* The answer that the closure sends to the caller of SubmitJob, if it waits.
answers(j, nil) ==
  /\ submit' = IF submit[j] # "waiting" THEN submit
               ELSE [submit EXCEPT ![j] = IF nil THEN "nil" ELSE "error"]
  /\ acked' = IF nil /\ submit[j] = "waiting" THEN acked \cup {j} ELSE acked

\* submitJobControl and submitJobIO up to the post to the IO runner.
RunSubmit ==
  /\ controlRuns("submit", "idle")
  /\ LET j == Head(control).job
     IN IF active[j] # None \/ ~handlers
          THEN /\ endsControl /\ answers(j, FALSE)
               /\ UNCHANGED <<active, io>>
          ELSE /\ active' = [active EXCEPT ![j] = <<j, "submit">>]
               /\ toIO(call("create", j, None))
               /\ controlAt' = "await"
               /\ UNCHANGED <<control, submit, acked>>
  /\ UNCHANGED <<row, store, gaveUp, crashes, ctxDone, start, lifeVars, handlers, cancelled,
                 created, pendingFinalize, ioAt, runVars>>

\* Fault: the acknowledgement does not wait for the store.
AckAtOnce ==
  /\ controlRuns("submit", "await")
  /\ answers(Head(control).job, TRUE)
  /\ endsControl
  /\ UNCHANGED <<row, store, gaveUp, crashes, ctxDone, start, lifeVars, jobVars, ioVars, runVars>>

\* submitJobIO waits on the control runner for the result or the caller's context.
AwaitCreated ==
  /\ controlRuns("submit", "await")
  /\ LET j == Head(control).job
     IN \/ created # None /\ answers(j, created = "nil")
        \/ j \in ctxDone /\ answers(j, FALSE)
  /\ created' = None
  /\ endsControl
  /\ UNCHANGED <<row, store, gaveUp, crashes, ctxDone, start, lifeVars, handlers, active,
                 cancelled, pendingFinalize, ioVars, runVars>>

RunCancel ==
  /\ controlRuns("cancel", "idle")
  /\ LET j == Head(control).job
     IN cancelled' = IF active[j] = None THEN cancelled ELSE cancelled \cup {active[j]}
  /\ endsControl
  /\ UNCHANGED <<storeVars, callerVars, lifeVars, handlers, active, created, pendingFinalize,
                 ioVars, runVars>>

RunRegister ==
  /\ controlRuns("register", "idle") \/ controlRuns("unregister", "idle")
  /\ handlers' = (Head(control).op = "register")
  /\ endsControl
  /\ UNCHANGED <<storeVars, callerVars, lifeVars, active, cancelled, created, pendingFinalize,
                 ioVars, runVars>>

\* finalizeJobControl: LoadAndDelete and cancel, then the count and the post.
RunFinalize ==
  /\ controlRuns("finalize", "idle")
  /\ LET j == Head(control).job
     IN IF active[j] = None
          THEN endsControl /\ UNCHANGED <<active, cancelled>>
          ELSE /\ active' = [active EXCEPT ![j] = None]
               /\ cancelled' = cancelled \cup {active[j]}
               /\ controlAt' = "removed"
               /\ UNCHANGED control
  /\ UNCHANGED <<storeVars, callerVars, lifeVars, handlers, created, pendingFinalize, ioVars, runVars>>

CountFinalize ==
  /\ controlRuns("finalize", "removed")
  /\ pendingFinalize' = pendingFinalize + 1
  /\ toIO(call("final", Head(control).job, Head(control).arg))
  /\ endsControl
  /\ UNCHANGED <<storeVars, callerVars, lifeVars, handlers, active, cancelled, created, ioAt, runVars>>

\* scheduleExecution: a post to the execution runner.
schedules(i) == exec' = [exec EXCEPT ![i] = IF "exec" \in down THEN "dropped" ELSE "posted"]

\* The closure of doRecoveryIO: no look at activeJobs.  The IO runner waits for it.
RunRecover ==
  /\ controlRuns("recover", "idle")
  /\ LET j == Head(control).job
     IN IF handlers
          THEN /\ active' = [active EXCEPT ![j] = <<j, "recover">>]
               /\ schedules(<<j, "recover">>)
               /\ UNCHANGED io
          ELSE /\ toIO(call("missing", j, "FAILED"))
               /\ UNCHANGED <<active, exec>>
  /\ ioAt' = [ioAt EXCEPT !.step = "pending"]
  /\ endsControl
  /\ UNCHANGED <<storeVars, callerVars, lifeVars, handlers, cancelled, created, pendingFinalize, down>>

\* The closure of Shutdown, which then goes on to poll.
RunCancelAll ==
  /\ controlRuns("cancelAll", "idle")
  /\ cancelled' = cancelled \cup {active[j] : j \in {k \in Job : active[k] # None}}
  /\ shutdown' = IF shutdown = "waiting" THEN "polling" ELSE shutdown
  /\ endsControl
  /\ UNCHANGED <<storeVars, callerVars, closed, handlers, active, created,
                 pendingFinalize, ioVars, runVars>>

ControlStep ==
  \/ RunSubmit \/ AwaitCreated \/ RunCancel \/ RunRegister \/ RunFinalize \/ CountFinalize
  \/ RunRecover \/ RunCancelAll

-----------------------------------------------------------------------------
(* The IO runner.                                                          *)

ioRuns(op, step) == io # << >> /\ Head(io).op = op /\ ioAt.step = step
endsIO == io' = Tail(io) /\ ioAt' = IdleIO
ioUnchanged == UNCHANGED <<store, crashes, ctxDone, submit, lifeVars, handlers, acked>>

\* retryIOOperation: attempts left, the running one included.
attempts == IF ioAt.left = 0 THEN MaxRetries + 1 ELSE ioAt.left
retries(step) == attempts > 1 /\ ioAt' = [ioAt EXCEPT !.step = step, !.left = attempts - 1]

\* The result is handed to the control runner, if that still waits for it.
handsBack(j, result) ==
  created' = IF controlRuns("submit", "await") /\ Head(control).job = j THEN result ELSE created

\* Fault: no error is handed back.
failsSilently(j) ==
  /\ active' = [active EXCEPT ![j] = None]
  /\ cancelled' = cancelled \cup {<<j, "submit">>}
  /\ endsIO
  /\ UNCHANGED created

\* submitJobIO gives up: the job is no longer active and the error is handed back.
failsCreate(j) ==
  /\ active' = [active EXCEPT ![j] = None]
  /\ cancelled' = cancelled \cup {<<j, "submit">>}
  /\ handsBack(j, "error")
  /\ endsIO

\* Without CreateJob, GetJob is asked for a job that is not finished.
unfinished(j) == store = "legacy" /\ row[j] \in {"PENDING", "RUNNING"}

\* The closure of submitJobIO begins: its context, and without CreateJob a look
\* at the row, which may fail; a row that is final does not stop the job.
CreateBegins ==
  /\ ioRuns("create", "idle")
  /\ LET j == Head(io).job
     IN \/ (contextDone(<<j, "submit">>) \/ unfinished(j)) /\ failsCreate(j)
        \/ /\ ~contextDone(<<j, "submit">>)
           /\ ioAt' = [ioAt EXCEPT !.step = "write"]
           /\ UNCHANGED <<active, cancelled, created, io>>
  /\ ioUnchanged
  /\ UNCHANGED <<row, gaveUp, start, pendingFinalize, controlVars, runVars>>

\* One attempt of persistNewJobIO to write the row.
CreateAttempt(err) ==
  /\ ioRuns("create", "write")
  /\ LET j == Head(io).job
     IN \/ /\ j \in ctxDone
           /\ failsCreate(j)
           /\ UNCHANGED row
        \/ /\ j \notin ctxDone
           /\ CreateJob(j, "PENDING", err) \/ SaveJob(j, "PENDING", err)
           /\ \/ /\ err = "nil" /\ ioAt' = [ioAt EXCEPT !.step = "written"]
                 /\ UNCHANGED <<active, cancelled, created, io>>
              \/ /\ err = "failed" /\ retries("write")
                 /\ UNCHANGED <<active, cancelled, created, io>>
              \/ /\ err = "exists" \/ (err = "failed" /\ attempts = 1)
                 /\ failsCreate(j)
  /\ ioUnchanged
  /\ UNCHANGED <<gaveUp, start, pendingFinalize, controlVars, runVars>>

\* After the write: a job cancelled in the meantime keeps its PENDING row.
CreateEnds ==
  /\ ioRuns("create", "written")
  /\ LET j == Head(io).job
     IN IF contextDone(<<j, "submit">>)
          THEN failsCreate(j) /\ UNCHANGED exec
          ELSE /\ schedules(<<j, "submit">>)
               /\ handsBack(j, "nil")
               /\ endsIO
               /\ UNCHANGED <<active, cancelled>>
  /\ ioUnchanged
  /\ UNCHANGED <<row, gaveUp, start, pendingFinalize, controlVars, down>>

\* The status updates: RUNNING, under the job's context; the final status, whose
\* end lowers the count; FAILED for a recovered job without a handler.
isUpdate == io # << >> /\ Head(io).op \in {"running", "final", "missing"}
statusOf(c) == IF c.op = "running" THEN "RUNNING" ELSE c.arg

endsUpdate ==
  /\ endsIO
  /\ pendingFinalize' = IF Head(io).op = "final" THEN pendingFinalize - 1 ELSE pendingFinalize

updateStatusIO(err) ==
  /\ isUpdate
  /\ LET c == Head(io)
         skipped == c.op = "running" /\ contextDone(<<c.job, c.arg>>)
     IN \/ skipped /\ endsUpdate /\ UNCHANGED <<row, gaveUp>>
        \/ /\ ~skipped
           /\ UpdateStatus(c.job, statusOf(c), err)
           /\ \/ err = "nil" /\ endsUpdate /\ UNCHANGED gaveUp
              \/ err # "nil" /\ retries("write") /\ UNCHANGED <<io, gaveUp, pendingFinalize>>
              \/ /\ err # "nil" /\ attempts = 1
                 /\ endsUpdate
                 /\ gaveUp' = IF statusOf(c) \in Final THEN gaveUp \cup {c.job} ELSE gaveUp
  /\ ioUnchanged
  /\ UNCHANGED <<start, active, cancelled, created, controlVars, runVars>>

\* doRecoveryIO lists the interrupted jobs and then the recoverable ones.  Rows are
\* taken in one fixed order.
lists(jobs, step) ==
  /\ ioAt' = [step |-> step, left |-> 0, todo |-> jobs]
  /\ UNCHANGED <<start, io>>

endsStart(how) == start' = how /\ endsIO

ListRows ==
  /\ \/ /\ ioRuns("start", "idle")
        /\ lists(ListJobs("RUNNING"), "interrupted") \/ endsStart("failed")
     \/ /\ ioRuns("start", "interrupted") /\ ioAt.todo = {}
        /\ lists(GetRecoverableJobs, "pending") \/ endsStart("failed")
     \/ /\ ioRuns("start", "pending") /\ ioAt.todo = {}
        /\ endsStart("returned")
  /\ ioUnchanged
  /\ UNCHANGED <<row, gaveUp, active, cancelled, created, pendingFinalize, controlVars, runVars>>

nextRow == CHOOSE j \in ioAt.todo : TRUE
rowDone(step) == ioAt' = [step |-> step, left |-> 0, todo |-> ioAt.todo \ {nextRow}]

MarkInterrupted(err) ==
  /\ ioRuns("start", "interrupted") /\ ioAt.todo # {}
  /\ UpdateStatus(nextRow, "FAILED", err)
  /\ \/ err = "nil" /\ rowDone("interrupted") /\ UNCHANGED gaveUp
     \/ err # "nil" /\ retries("interrupted") /\ UNCHANGED gaveUp
     \/ err # "nil" /\ attempts = 1 /\ rowDone("interrupted") /\ gaveUp' = gaveUp \cup {nextRow}
  /\ ioUnchanged
  /\ UNCHANGED <<start, active, cancelled, created, pendingFinalize, io, controlVars, runVars>>

\* The IO runner posts to the control runner and waits.
RecoverNext ==
  /\ ioRuns("start", "pending") /\ ioAt.todo # {}
  /\ toControl(call("recover", nextRow, None))
  /\ rowDone("await")
  /\ ioUnchanged
  /\ UNCHANGED <<row, gaveUp, start, active, cancelled, created, pendingFinalize, io, controlAt, runVars>>

IOStep ==
  \/ CreateBegins \/ CreateEnds \/ ListRows \/ RecoverNext
  \/ \E err \in Outcome : CreateAttempt(err) \/ updateStatusIO(err) \/ MarkInterrupted(err)

-----------------------------------------------------------------------------
(* The execution runner.                                                   *)

\* Fault: a job cancelled before its execution is dropped without a finalization.
ExecStartQuietly(i) ==
  /\ exec[i] = "posted"
  /\ exec' = [exec EXCEPT ![i] = IF contextDone(i) THEN "ended" ELSE "running"]
  /\ IF contextDone(i) THEN UNCHANGED io ELSE toIO(call("running", i[1], i[2]))
  /\ UNCHANGED <<storeVars, callerVars, lifeVars, jobVars, controlVars, ioAt, down>>

\* The wrapper of scheduleExecution: the check of the job's context, then RUNNING.
ExecStart(i) ==
  /\ exec[i] = "posted"
  /\ IF contextDone(i)
       THEN /\ exec' = [exec EXCEPT ![i] = "ended"]
            /\ toControl(call("finalize", i[1], "CANCELED"))
            /\ UNCHANGED io
       ELSE /\ exec' = [exec EXCEPT ![i] = "running"]
            /\ toIO(call("running", i[1], i[2]))
            /\ UNCHANGED control
  /\ UNCHANGED <<storeVars, callerVars, lifeVars, jobVars, controlAt, ioAt, down>>

\* The handler returns, or fails or panics.
ExecEnd(i) ==
  /\ exec[i] = "running"
  /\ exec' = [exec EXCEPT ![i] = "ended"]
  /\ \/ toControl(call("finalize", i[1], "COMPLETED"))
     \/ toControl(call("finalize", i[1], IF contextDone(i) THEN "CANCELED" ELSE "FAILED"))
  /\ UNCHANGED <<storeVars, callerVars, lifeVars, jobVars, controlAt, ioVars, down>>

-----------------------------------------------------------------------------
(* Shutdown.                                                               *)

BeginShutdown ==
  /\ ~closed
  /\ closed' = TRUE
  /\ shutdown' = "waiting"
  /\ toControl(call("cancelAll", None, None))
  /\ UNCHANGED <<storeVars, callerVars, jobVars, controlAt, ioVars, runVars>>

PollActive ==
  /\ shutdown = "polling"
  /\ \A j \in Job : active[j] = None
  /\ shutdown' = "counted"
  /\ UNCHANGED <<storeVars, callerVars, closed, jobVars, controlVars, ioVars, runVars>>

\* Fault: the writes under way are not waited for.
PollActiveOnly ==
  /\ shutdown = "counted"
  /\ shutdown' \in {"closing", "returned"}
  /\ UNCHANGED <<storeVars, callerVars, closed, jobVars, controlVars, ioVars, runVars>>

\* The second operand of the poll, and the runners' Shutdown if they are owned.
PollFinalize ==
  /\ shutdown = "counted"
  /\ \/ pendingFinalize # 0 /\ shutdown' = "polling"
     \/ pendingFinalize = 0 /\ shutdown' \in {"closing", "returned"}  \* shutdownRunners or not
  /\ UNCHANGED <<storeVars, callerVars, closed, jobVars, controlVars, ioVars, runVars>>

\* A runner that is shut down drops its queue, not the closure it is running.
kept(queue, busy) == IF busy /\ queue # << >> THEN <<Head(queue)>> ELSE << >>

CloseRunners ==
  /\ shutdown = "closing"
  /\ \/ /\ "control" \notin down
        /\ down' = down \cup {"control"}
        /\ control' = kept(control, controlAt # "idle")
        /\ UNCHANGED <<shutdown, io, exec>>
     \/ /\ "control" \in down /\ "io" \notin down
        /\ down' = down \cup {"io"}
        /\ io' = kept(io, ioAt.step # "idle")
        /\ UNCHANGED <<shutdown, control, exec>>
     \/ /\ "io" \in down
        /\ down' = down \cup {"exec"}
        /\ exec' = [i \in Instance |-> IF exec[i] = "posted" THEN "dropped" ELSE exec[i]]
        /\ shutdown' = "returned"
        /\ UNCHANGED <<control, io>>
  /\ UNCHANGED <<storeVars, callerVars, closed, jobVars, controlAt, ioAt>>

\* The context of Shutdown is done first.
ShutdownTimesOut ==
  /\ shutdown \in {"waiting", "polling", "counted"}
  /\ shutdown' = "timeout"
  /\ UNCHANGED <<storeVars, callerVars, closed, jobVars, controlVars, ioVars, runVars>>

Next ==
  \/ \E j \in Job :
       \/ SubmitJob(j) \/ PostSubmit(j) \/ CallerCancels(j) \/ CallerLeaves(j) \/ CancelJob(j)
  \/ RegisterHandler \/ UnregisterHandler \/ Start
  \/ ControlStep
  \/ IOStep
  \/ \E i \in Instance : ExecStart(i) \/ ExecEnd(i)
  \/ BeginShutdown \/ PollActive \/ PollFinalize \/ CloseRunners \/ ShutdownTimesOut
  \/ Crash

\* The runners go on with what they have, handlers return, a caller that is in
\* SubmitJob goes on, and a process calls Start.
Fairness ==
  /\ WF_vars(ControlStep)
  /\ WF_vars(IOStep)
  /\ \A i \in Instance : WF_vars(ExecStart(i) \/ ExecEnd(i))
  /\ \A j \in Job : WF_vars(PostSubmit(j) \/ CallerLeaves(j))
  /\ WF_vars(Start)

Spec == Init /\ [][Next]_vars /\ Fairness

-----------------------------------------------------------------------------
(* Properties.                                                             *)

\* A job whose SubmitJob returned nil is in the store, through crashes, retries
\* of writes that had taken effect, cancellations and late answers.
DurableAck == \A j \in acked : row[j] # "none"

\* A final status is never overwritten: not by a late RUNNING, a retried write, a
\* cancellation or recovery.  Only SaveJob starts a finished job again.
FinalIsFinal ==
  [][\A j \in Job : row[j] \in Final =>
       \/ row'[j] = row[j]
       \/ store = "legacy" /\ row'[j] = "PENDING"
       \/ store = "memory" /\ crashes' > crashes]_row

\* An execution begins only while the job's row is PENDING: no job is run that
\* the store holds as running or finished, whatever crash or retry came before.
StartsPending ==
  [][\A i \in Instance : exec[i] = "posted" /\ exec'[i] = "running" => row[i[1]] = "PENDING"]_exec

\* Shutdown goes on to close the runners only when every execution that ended has
\* its final status in the store, unless no retry could write it, or its finalize
\* closure is queued or between the removal of the job and the count.
finalizing(j) == \E k \in DOMAIN control : control[k].op = "finalize" /\ control[k].job = j

ShutdownSaves ==
  [][shutdown = "counted" /\ shutdown' \in {"closing", "returned"} /\ store # "legacy" =>
       \A i \in Instance : exec[i] = "ended" /\ ~finalizing(i[1]) =>
         row[i[1]] \in Final \/ i[1] \in gaveUp]_shutdown

\* A job whose SubmitJob returned nil ends with a final status, after any number
\* of crashes, unless the store fails for good or the manager is shut down.  (A
\* store without CreateJob lets a failed resubmission put it back to PENDING.)
AckedEventuallyFinal ==
  \A j \in Job : j \in acked /\ store # "legacy" ~>
    row[j] \in Final \/ j \in gaveUp \/ closed \/ start = "failed" \/ j \notin acked

\* SubmitJob returns, without its context having to end, unless Shutdown closes
\* the manager meanwhile.
SubmitReturns ==
  \A j \in Job : submit[j] \in {"checked", "waiting"} ~> submit[j] \notin {"checked", "waiting"} \/ closed

\* "Start() should not return before recovery flow finishes", and it returns.
StartReturns == start = "waiting" ~> start # "waiting" \/ closed

=============================================================================
