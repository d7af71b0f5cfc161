-------------------------- MODULE JobManagerProofs --------------------------
(***************************************************************************)
(* The durable acknowledgement of JobManager, for any number of jobs,      *)
(* retries and crashes, any rows left by earlier processes and any store;  *)
(* and, when callers submit after Start has returned, that a final status  *)
(* stays, that an execution begins on a PENDING row, and that Shutdown     *)
(* does not leave a final status behind.  These three rest on OneInstance: *)
(* a job has one instance that is created, executed or finalized at a      *)
(* time, and what the IO runner has to write for it is in order.           *)
(***************************************************************************)
EXTENDS JobManager, TLAPS, FiniteSetTheorems

Rows == [Job -> JobStatus \cup {"none"}]

\* The closures of the two runners.  A final status is always one of Final.
ControlCall ==
  {c \in [op : {"submit", "cancel", "register", "unregister", "finalize", "recover", "cancelAll"},
          job : Job \cup {None}, arg : Final \cup {None}] :
     /\ c.op \in {"submit", "cancel", "finalize", "recover"} => c.job \in Job
     /\ c.op = "finalize" => c.arg \in Final}

IOCall ==
  {c \in [op : {"create", "running", "final", "missing", "start"},
          job : Job \cup {None}, arg : Final \cup {"submit", "recover", None}] :
     /\ c.op = "start" => c.job = None
     /\ c.op # "start" => c.job \in Job
     /\ c.op \in {"final", "missing"} => c.arg \in Final}

\* Where the IO runner is, with the rows that recovery has left.
IOState ==
  [step : {"idle", "write", "written", "interrupted", "pending", "await"}, left : Nat, todo : SUBSET Job]

TypeInv ==
  /\ row \in Rows
  /\ ioAt \in IOState
  /\ acked \subseteq Job
  /\ control \in Seq(ControlCall)
  /\ io \in Seq(IOCall)

\* A create that is past its write has its row.
WrittenInv ==
  ioAt.step = "written" =>
    io # << >> /\ Head(io).op = "create" /\ row[Head(io).job] # "none"

\* The answer nil is there for the submission that waits for it, whose row exists.
CreatedInv ==
  created = "nil" =>
    controlRuns("submit", "await") /\ row[Head(control).job] # "none"

\* The inductive invariant.
IInv == TypeInv /\ WrittenInv /\ CreatedInv /\ DurableAck

-----------------------------------------------------------------------------
(* Queues.                                                                 *)

\* A post goes to the end of a runner's queue, if anywhere.
LEMMA PostedKeeps ==
  ASSUME NEW S, NEW q \in Seq(S), NEW c \in S, NEW r
  PROVE  /\ posted(q, r, c) \in Seq(S)
         /\ q # << >> => posted(q, r, c) # << >> /\ Head(posted(q, r, c)) = Head(q)
BY DEF posted

\* The running closure leaves the queue.
LEMMA TailKeeps ==
  ASSUME NEW S, NEW q \in Seq(S), q # << >>
  PROVE  Tail(q) \in Seq(S) /\ Head(q) \in S
OBVIOUS

\* A runner that is shut down keeps the closure it is running.
LEMMA KeptKeeps ==
  ASSUME NEW S, NEW q \in Seq(S), NEW busy \in BOOLEAN
  PROVE  /\ kept(q, busy) \in Seq(S)
         /\ busy /\ q # << >> => kept(q, busy) # << >> /\ Head(kept(q, busy)) = Head(q)
<1>1. CASE busy /\ q # << >>
  <2>1. kept(q, busy) = <<Head(q)>> /\ Head(q) \in S
    BY <1>1, TailKeeps DEF kept
  <2> QED BY <2>1
<1>2. CASE ~(busy /\ q # << >>)
  <2>1. kept(q, busy) = << >>
    BY <1>2 DEF kept
  <2> QED BY <1>2, <2>1
<1> QED BY <1>1, <1>2

-----------------------------------------------------------------------------
(* The store.                                                              *)

RowsStay == row' \in Rows /\ \A x \in Job : row[x] # "none" => row'[x] # "none"

\* No operation of a store removes a row, whatever its outcome.
LEMMA StoreKeepsRows ==
  ASSUME row \in Rows, NEW j, NEW s \in JobStatus, NEW err,
         CreateJob(j, s, err) \/ SaveJob(j, s, err) \/ UpdateStatus(j, s, err)
  PROVE  RowsStay
<1>1. row' = row \/ row' = [row EXCEPT ![j] = s]
  BY DEF CreateJob, SaveJob, UpdateStatus, InsertJob, UpsertJob, UpdateJobStatus, LoadOrStore,
         LoadAndStore, executes, fails
<1>2. s # "none"
  BY DEF JobStatus, Final
<1> QED BY <1>1, <1>2 DEF RowsStay, Rows

\* A create that reports success has written its row.
LEMMA CreateWrites ==
  ASSUME row \in Rows, NEW j \in Job, CreateJob(j, "PENDING", "nil") \/ SaveJob(j, "PENDING", "nil")
  PROVE  row'[j] # "none"
BY DEF CreateJob, SaveJob, InsertJob, UpsertJob, LoadOrStore, executes, fails, Rows

-----------------------------------------------------------------------------
(* Steps.                                                                  *)

\* A step that at most posts closures.
LEMMA PostsKeep ==
  ASSUME IInv,
         control' = control \/ \E c \in ControlCall : toControl(c),
         io' = io \/ \E c \in IOCall : toIO(c),
         UNCHANGED <<row, acked, created, controlAt, ioAt>>
  PROVE  IInv'
<1> USE DEF IInv
<1>1. /\ control' \in Seq(ControlCall)
      /\ control # << >> => control' # << >> /\ Head(control') = Head(control)
  BY PostedKeeps DEF TypeInv, toControl
<1>2. /\ io' \in Seq(IOCall)
      /\ io # << >> => io' # << >> /\ Head(io') = Head(io)
  BY PostedKeeps DEF TypeInv, toIO
<1>3. TypeInv'
  BY <1>1, <1>2 DEF TypeInv
<1>4. WrittenInv'
  BY <1>2 DEF WrittenInv
<1>5. CreatedInv'
  BY <1>1 DEF CreatedInv, controlRuns
<1>6. DurableAck'
  BY DEF DurableAck
<1> QED BY <1>3, <1>4, <1>5, <1>6

\* The closures that are posted.
LEMMA Calls ==
  ASSUME NEW j \in Job
  PROVE  /\ call("submit", j, None) \in ControlCall
         /\ call("cancel", j, None) \in ControlCall
         /\ call("recover", j, None) \in ControlCall
         /\ call("create", j, None) \in IOCall
         /\ call("missing", j, "FAILED") \in IOCall
         /\ \A a \in {"submit", "recover"} : call("running", j, a) \in IOCall
         /\ \A f \in Final : call("finalize", j, f) \in ControlCall
BY DEF call, ControlCall, IOCall, Final

\* The closures without a job.
LEMMA OtherCalls ==
  /\ call("register", None, None) \in ControlCall
  /\ call("unregister", None, None) \in ControlCall
  /\ call("cancelAll", None, None) \in ControlCall
  /\ call("start", None, None) \in IOCall
BY DEF call, ControlCall, IOCall

\* Steps of the callers and of Shutdown that only post.
LEMMA CallersKeep ==
  ASSUME IInv,
         \/ \E j \in Job : SubmitJob(j) \/ PostSubmit(j) \/ CallerCancels(j) \/ CallerLeaves(j)
                             \/ CancelJob(j)
         \/ RegisterHandler \/ UnregisterHandler \/ Start
         \/ BeginShutdown \/ PollActive \/ PollFinalize \/ ShutdownTimesOut
  PROVE  IInv'
<1>1. ASSUME NEW j \in Job,
             SubmitJob(j) \/ PostSubmit(j) \/ CallerCancels(j) \/ CallerLeaves(j) \/ CancelJob(j)
      PROVE  IInv'
  <2>1. control' = control \/ \E c \in ControlCall : toControl(c)
    BY <1>1, Calls DEF SubmitJob, PostSubmit, CallerCancels, CallerLeaves, CancelJob, PostCall,
                       controlVars
  <2>2. io' = io /\ UNCHANGED <<row, acked, created, controlAt, ioAt>>
    BY <1>1 DEF SubmitJob, PostSubmit, CallerCancels, CallerLeaves, CancelJob, PostCall,
                storeVars, jobVars, controlVars, ioVars
  <2> QED BY <2>1, <2>2, PostsKeep
<1>2. CASE RegisterHandler \/ UnregisterHandler \/ BeginShutdown
  <2>1. \E c \in ControlCall : toControl(c)
    BY <1>2, OtherCalls DEF RegisterHandler, UnregisterHandler, BeginShutdown, PostCall
  <2>2. io' = io /\ UNCHANGED <<row, acked, created, controlAt, ioAt>>
    BY <1>2 DEF RegisterHandler, UnregisterHandler, BeginShutdown, PostCall, storeVars, jobVars,
                ioVars
  <2> QED BY <2>1, <2>2, PostsKeep
<1>3. CASE Start
  <2>1. \E c \in IOCall : toIO(c)
    BY <1>3, OtherCalls DEF Start
  <2>2. control' = control /\ UNCHANGED <<row, acked, created, controlAt, ioAt>>
    BY <1>3 DEF Start, storeVars, jobVars, controlVars
  <2> QED BY <2>1, <2>2, PostsKeep
<1>4. CASE PollActive \/ PollFinalize \/ ShutdownTimesOut
  <2>1. control' = control /\ io' = io /\ UNCHANGED <<row, acked, created, controlAt, ioAt>>
    BY <1>4 DEF PollActive, PollFinalize, ShutdownTimesOut, storeVars, jobVars, controlVars, ioVars
  <2> QED BY <2>1, PostsKeep
<1> QED BY <1>1, <1>2, <1>3, <1>4

\* Executions post to one of the two runners.
LEMMA ExecKeeps ==
  ASSUME IInv, NEW i \in Instance, ExecStart(i) \/ ExecEnd(i)
  PROVE  IInv'
<1>1. i[1] \in Job /\ i[2] \in {"submit", "recover"}
  BY DEF Instance
<1>2. /\ call("running", i[1], i[2]) \in IOCall
      /\ \A f \in {"CANCELED", "COMPLETED", "FAILED"} : call("finalize", i[1], f) \in ControlCall
  BY <1>1, Calls DEF Final
<1>3. control' = control \/ \E c \in ControlCall : toControl(c)
  BY <1>2 DEF ExecStart, ExecEnd
<1>4. io' = io \/ \E c \in IOCall : toIO(c)
  BY <1>2 DEF ExecStart, ExecEnd, ioVars
<1>5. UNCHANGED <<row, acked, created, controlAt, ioAt>>
  BY DEF ExecStart, ExecEnd, storeVars, jobVars, ioVars
<1> QED BY <1>3, <1>4, <1>5, PostsKeep

\* A closure of the control runner ends that is not a submission waiting for its
\* answer, or the answer is taken; acked grows by a job with a row at most.
LEMMA ControlEnds ==
  ASSUME IInv, control # << >>, endsControl, created' # "nil",
         io' = io \/ \E c \in IOCall : toIO(c),
         acked' \subseteq Job, \A j \in acked' : row[j] # "none",
         ioAt' = ioAt \/ (ioAt' \in IOState /\ ioAt'.step # "written"), UNCHANGED row
  PROVE  IInv'
<1> USE DEF IInv
<1>1. control' \in Seq(ControlCall)
  BY TailKeeps DEF TypeInv, endsControl
<1>2. /\ io' \in Seq(IOCall)
      /\ io # << >> => io' # << >> /\ Head(io') = Head(io)
  BY PostedKeeps DEF TypeInv, toIO
<1>3. TypeInv'
  BY <1>1, <1>2 DEF TypeInv
<1>4. WrittenInv'
  BY <1>2 DEF WrittenInv
<1>5. CreatedInv' /\ DurableAck'
  BY DEF CreatedInv, DurableAck
<1> QED BY <1>3, <1>4, <1>5

\* A closure of the control runner that is not waiting: there is no answer nil.
LEMMA NoAnswer ==
  ASSUME IInv, controlAt # "await"
  PROVE  created # "nil"
BY DEF IInv, CreatedInv, controlRuns

\* RunSubmit, with or without the post to the IO runner.
LEMMA RunSubmitKeeps ==
  ASSUME IInv, RunSubmit
  PROVE  IInv'
<1> DEFINE j == Head(control).job
<1>1. control # << >> /\ Head(control).op = "submit" /\ controlAt # "await" /\ created' = created
  BY DEF RunSubmit, controlRuns
<1>2. created' # "nil"
  BY <1>1, NoAnswer
<1>3. j \in Job
  BY <1>1, TailKeeps DEF IInv, TypeInv, ControlCall
<1>4. CASE active[j] # None \/ ~handlers
  <2>1. endsControl /\ acked' = acked /\ io' = io /\ ioAt' = ioAt /\ row' = row
    BY <1>4 DEF RunSubmit, answers
  <2> QED BY <1>1, <1>2, <2>1, ControlEnds DEF IInv, TypeInv, DurableAck
<1>5. CASE ~(active[j] # None \/ ~handlers)
  <2>1. /\ toIO(call("create", j, None))
        /\ UNCHANGED <<control, acked, row, ioAt>>
    BY <1>5 DEF RunSubmit
  <2>2. /\ io' \in Seq(IOCall)
        /\ io # << >> => io' # << >> /\ Head(io') = Head(io)
    BY <1>3, <2>1, Calls, PostedKeeps DEF toIO, IInv, TypeInv
  <2>3. TypeInv'
    BY <2>1, <2>2 DEF IInv, TypeInv
  <2>4. WrittenInv'
    BY <2>1, <2>2 DEF IInv, WrittenInv
  <2>5. CreatedInv' /\ DurableAck'
    BY <1>2, <2>1 DEF IInv, CreatedInv, DurableAck
  <2> QED BY <2>3, <2>4, <2>5 DEF IInv
<1> QED BY <1>4, <1>5

\* The acknowledgement: nil is answered only when the row exists.
LEMMA AwaitKeeps ==
  ASSUME IInv, AwaitCreated
  PROVE  IInv'
<1> DEFINE j == Head(control).job
<1>1. control # << >> /\ Head(control).op = "submit" /\ endsControl
  BY DEF AwaitCreated, controlRuns
<1>2. j \in Job
  BY <1>1, TailKeeps DEF IInv, TypeInv, ControlCall
<1>3. created' # "nil" /\ io' = io /\ ioAt' = ioAt /\ row' = row
  BY NoneAssumption DEF AwaitCreated, ioVars
<1>4. \/ acked' = acked
      \/ created = "nil" /\ acked' = acked \cup {j}
  BY DEF AwaitCreated, answers
<1>5. acked' \subseteq Job /\ \A k \in acked' : row[k] # "none"
  BY <1>2, <1>4 DEF IInv, TypeInv, DurableAck, CreatedInv
<1> QED BY <1>1, <1>3, <1>5, ControlEnds

\* Every step of the control runner.
LEMMA ControlKeeps ==
  ASSUME IInv, ControlStep
  PROVE  IInv'
<1> USE DEF IInv, TypeInv, DurableAck
<1>1. CASE RunSubmit
  BY <1>1, RunSubmitKeeps
<1>2. CASE AwaitCreated
  BY <1>2, AwaitKeeps
<1>3. CASE RunCancel \/ RunRegister \/ RunCancelAll
  <2>1. /\ control # << >> /\ controlAt # "await" /\ endsControl
        /\ UNCHANGED <<created, io, acked, ioAt, row>>
    BY <1>3 DEF RunCancel, RunRegister, RunCancelAll, controlRuns, storeVars, ioVars
  <2> QED BY <2>1, NoAnswer, ControlEnds
<1>4. CASE RunFinalize
  <2>1. control # << >> /\ controlAt # "await" /\ UNCHANGED <<created, io, acked, ioAt, row>>
    BY <1>4 DEF RunFinalize, controlRuns, storeVars, ioVars
  <2>2. endsControl \/ UNCHANGED control
    BY <1>4 DEF RunFinalize
  <2>3. CASE UNCHANGED control
    BY <2>1, <2>3, NoAnswer DEF WrittenInv, CreatedInv
  <2> QED BY <2>1, <2>2, <2>3, NoAnswer, ControlEnds
<1>5. CASE CountFinalize
  <2>1. /\ control # << >> /\ controlAt # "await" /\ endsControl
        /\ Head(control).op = "finalize"
        /\ UNCHANGED <<created, acked, ioAt, row>>
    BY <1>5 DEF CountFinalize, controlRuns, storeVars
  <2>2. Head(control) \in ControlCall
    BY <2>1, TailKeeps
  <2>3. call("final", Head(control).job, Head(control).arg) \in IOCall
    BY <2>1, <2>2 DEF call, ControlCall, IOCall
  <2>4. \E c \in IOCall : toIO(c)
    BY <1>5, <2>3 DEF CountFinalize
  <2> QED BY <2>1, <2>4, NoAnswer, ControlEnds
<1>6. CASE RunRecover
  <2>1. /\ control # << >> /\ controlAt # "await" /\ endsControl
        /\ Head(control).op = "recover"
        /\ UNCHANGED <<created, acked, row>>
    BY <1>6 DEF RunRecover, controlRuns, storeVars
  <2>2. Head(control) \in ControlCall
    BY <2>1, TailKeeps
  <2>3. call("missing", Head(control).job, "FAILED") \in IOCall
    BY <2>1, <2>2 DEF call, ControlCall, IOCall, Final
  <2>4. io' = io \/ \E c \in IOCall : toIO(c)
    BY <1>6, <2>3 DEF RunRecover
  <2>5. ioAt' \in IOState /\ ioAt'.step # "written"
    BY <1>6 DEF RunRecover, IOState
  <2> QED BY <2>1, <2>4, <2>5, NoAnswer, ControlEnds
<1> QED BY <1>1, <1>2, <1>3, <1>4, <1>5, <1>6 DEF ControlStep

-----------------------------------------------------------------------------

\* A retry, with a smaller number of attempts left.
LEMMA RetryKeeps ==
  ASSUME IInv, NEW step \in {"write", "interrupted"}, retries(step)
  PROVE  ioAt' \in IOState /\ ioAt'.step # "written"
<1>1. ioAt \in IOState
  BY DEF IInv, TypeInv
<1>2. attempts - 1 \in Nat
  BY <1>1, BoundAssumption DEF IOState, attempts
<1>3. ioAt' = [step |-> step, left |-> attempts - 1, todo |-> ioAt.todo]
  BY <1>1 DEF retries, IOState
<1> QED BY <1>1, <1>2, <1>3 DEF IOState

\* A step of the IO runner that hands no nil back: rows stay, and the closure at
\* the head goes on or ends.
LEMMA IOKeeps ==
  ASSUME IInv, RowsStay,
         \/ endsIO /\ io # << >>
         \/ io' = io /\ ioAt' \in IOState /\ ioAt'.step # "written"
         \/ /\ io' = io /\ io # << >> /\ Head(io).op = "create" /\ row'[Head(io).job] # "none"
            /\ ioAt' \in IOState,
         created' = created \/ created' # "nil",
         control' = control \/ \E c \in ControlCall : toControl(c),
         UNCHANGED <<acked, controlAt>>
  PROVE  IInv'
<1> USE DEF IInv
<1>1. /\ control' \in Seq(ControlCall)
      /\ control # << >> => control' # << >> /\ Head(control') = Head(control)
  BY PostedKeeps DEF TypeInv, toControl
<1>2. io' \in Seq(IOCall) /\ ioAt' \in IOState
  <2>1. CASE endsIO /\ io # << >>
    BY <2>1, TailKeeps DEF TypeInv, endsIO, IdleIO, IOState
  <2>2. CASE io' = io /\ ioAt' \in IOState
    BY <2>2 DEF TypeInv
  <2> QED BY <2>1, <2>2
<1>3. TypeInv'
  BY <1>1, <1>2 DEF TypeInv, RowsStay
<1>4. WrittenInv'
  BY DEF WrittenInv, endsIO, IdleIO
<1>5. CreatedInv'
  <2> SUFFICES ASSUME created' = "nil"
               PROVE  controlRuns("submit", "await")' /\ row'[Head(control').job] # "none"
    BY DEF CreatedInv
  <2>1. controlRuns("submit", "await") /\ row[Head(control).job] # "none"
    BY DEF CreatedInv
  <2>2. Head(control).job \in Job
    BY <2>1, TailKeeps DEF TypeInv, ControlCall, controlRuns
  <2> QED BY <1>1, <2>1, <2>2 DEF controlRuns, RowsStay
<1>6. DurableAck'
  BY DEF TypeInv, DurableAck, RowsStay
<1> QED BY <1>3, <1>4, <1>5, <1>6

\* The rows do not change.
LEMMA SameRows == ASSUME IInv, UNCHANGED row PROVE RowsStay
BY DEF IInv, TypeInv, RowsStay

\* A create that gives up ends with an error.
LEMMA FailedCreate ==
  ASSUME NEW j, failsCreate(j)
  PROVE  endsIO /\ (created' = created \/ created' # "nil")
BY DEF failsCreate, handsBack

\* CreateBegins and the attempts to write.
LEMMA CreateKeeps ==
  ASSUME IInv, CreateBegins \/ \E err \in Outcome : CreateAttempt(err)
  PROVE  IInv'
<1> DEFINE j == Head(io).job
<1>1. CASE CreateBegins
  <2>1. io # << >> /\ UNCHANGED <<row, acked, controlAt, control>>
    BY <1>1 DEF CreateBegins, ioRuns, ioUnchanged, controlVars
  <2>2. \/ endsIO /\ (created' = created \/ created' # "nil")
        \/ io' = io /\ ioAt' \in IOState /\ ioAt'.step # "written" /\ created' = created
    <3>1. CASE failsCreate(j)
      BY <3>1, FailedCreate
    <3>2. CASE ioAt' = [ioAt EXCEPT !.step = "write"] /\ UNCHANGED <<created, io>>
      <4>1. ioAt' \in IOState /\ ioAt'.step # "written"
        BY <3>2 DEF IInv, TypeInv, IOState
      <4> QED BY <3>2, <4>1
    <3> QED BY <1>1, <3>1, <3>2 DEF CreateBegins
  <2> QED BY <2>1, <2>2, SameRows, IOKeeps
<1>2. ASSUME NEW err \in Outcome, CreateAttempt(err) PROVE IInv'
  <2>1. io # << >> /\ Head(io).op = "create" /\ UNCHANGED <<acked, controlAt, control>>
    BY <1>2 DEF CreateAttempt, ioRuns, ioUnchanged, controlVars
  <2>2. j \in Job
    BY <2>1, TailKeeps DEF IInv, TypeInv, IOCall
  <2>3. CASE failsCreate(j) /\ UNCHANGED row
    BY <2>1, <2>3, FailedCreate, SameRows, IOKeeps
  <2>4. CASE CreateJob(j, "PENDING", err) \/ SaveJob(j, "PENDING", err)
    <3>1. RowsStay
      BY <2>4, StoreKeepsRows DEF IInv, TypeInv, JobStatus
    <3>2. CASE failsCreate(j)
      BY <2>1, <3>1, <3>2, FailedCreate, IOKeeps
    <3>3. CASE err = "nil" /\ ioAt' = [ioAt EXCEPT !.step = "written"] /\ UNCHANGED <<created, io>>
      <4>1. row'[j] # "none"
        BY <2>2, <2>4, <3>3, CreateWrites DEF IInv, TypeInv
      <4>2. ioAt' \in IOState
        BY <3>3 DEF IInv, TypeInv, IOState
      <4> QED BY <2>1, <3>1, <3>3, <4>1, <4>2, IOKeeps
    <3>4. CASE retries("write") /\ UNCHANGED <<created, io>>
      <4>1. ioAt' \in IOState /\ ioAt'.step # "written"
        BY <3>4, RetryKeeps
      <4> QED BY <2>1, <3>1, <3>4, <4>1, IOKeeps
    <3> QED BY <1>2, <2>3, <3>2, <3>3, <3>4 DEF CreateAttempt
  <2> QED BY <1>2, <2>3, <2>4 DEF CreateAttempt
<1> QED BY <1>1, <1>2

\* CreateEnds hands nil back for the row that was written.
LEMMA CreateEndsKeeps ==
  ASSUME IInv, CreateEnds
  PROVE  IInv'
<1> DEFINE j == Head(io).job
<1>1. /\ io # << >> /\ endsIO /\ UNCHANGED <<row, acked, controlAt, control>>
      /\ row[j] # "none"
  BY DEF CreateEnds, ioRuns, ioUnchanged, controlVars, failsCreate, IInv, WrittenInv
<1>2. \/ created' = created \/ created' # "nil"
      \/ controlRuns("submit", "await") /\ Head(control).job = j
  BY DEF CreateEnds, failsCreate, handsBack
<1>3. CASE created' = created \/ created' # "nil"
  BY <1>1, <1>3, SameRows, IOKeeps
<1>4. CASE controlRuns("submit", "await") /\ Head(control).job = j
  <2>1. TypeInv'
    BY <1>1, TailKeeps DEF IInv, TypeInv, endsIO, IdleIO, IOState
  <2>2. WrittenInv' /\ DurableAck'
    BY <1>1 DEF IInv, WrittenInv, DurableAck, endsIO, IdleIO
  <2>3. CreatedInv'
    BY <1>1, <1>4 DEF CreatedInv, controlRuns
  <2> QED BY <2>1, <2>2, <2>3 DEF IInv
<1> QED BY <1>2, <1>3, <1>4

\* The status updates write RUNNING or a final status.
LEMMA UpdateKeeps ==
  ASSUME IInv, NEW err \in Outcome, updateStatusIO(err)
  PROVE  IInv'
<1> DEFINE c == Head(io)
<1>1. /\ io # << >> /\ c.op \in {"running", "final", "missing"}
      /\ UNCHANGED <<acked, controlAt, control, created>>
  BY DEF updateStatusIO, isUpdate, ioUnchanged, controlVars
<1>2. c \in IOCall
  BY <1>1, TailKeeps DEF IInv, TypeInv
<1>3. statusOf(c) \in JobStatus
  BY <1>1, <1>2 DEF statusOf, IOCall, JobStatus
<1>4. CASE endsUpdate /\ UNCHANGED row
  BY <1>1, <1>4, SameRows, IOKeeps DEF endsUpdate
<1>5. CASE UpdateStatus(c.job, statusOf(c), err)
  <2>1. RowsStay
    BY <1>3, <1>5, StoreKeepsRows DEF IInv, TypeInv
  <2>2. CASE endsUpdate
    BY <1>1, <2>1, <2>2, IOKeeps DEF endsUpdate
  <2>3. CASE retries("write") /\ UNCHANGED io
    <3>1. ioAt' \in IOState /\ ioAt'.step # "written"
      BY <2>3, RetryKeeps
    <3> QED BY <1>1, <2>1, <2>3, <3>1, IOKeeps
  <2> QED BY <1>4, <2>2, <2>3 DEF updateStatusIO
<1> QED BY <1>4, <1>5 DEF updateStatusIO

\* The steps of recovery.
LEMMA RecoveryKeeps ==
  ASSUME IInv, ListRows \/ RecoverNext \/ \E err \in Outcome : MarkInterrupted(err)
  PROVE  IInv'
<1>1. CASE ListRows
  <2>1. /\ io # << >> /\ UNCHANGED <<row, acked, controlAt, control, created>>
    BY <1>1 DEF ListRows, ioRuns, ioUnchanged, controlVars
  <2>2. ASSUME NEW jobs \in SUBSET Job, NEW step \in {"interrupted", "pending"}, lists(jobs, step)
        PROVE  io' = io /\ ioAt' \in IOState /\ ioAt'.step # "written"
    BY <2>2 DEF lists, IOState
  <2>3. ListJobs("RUNNING") \in SUBSET Job /\ GetRecoverableJobs \in SUBSET Job
    BY DEF ListJobs, ListJobsByStatus, GetRecoverableJobs, GetPendingJobs
  <2>4. endsIO \/ (io' = io /\ ioAt' \in IOState /\ ioAt'.step # "written")
    BY <1>1, <2>2, <2>3 DEF ListRows, endsStart
  <2> QED BY <2>1, <2>4, SameRows, IOKeeps
<1>2. ASSUME NEW step \in {"interrupted", "await"}, rowDone(step)
      PROVE  ioAt' \in IOState /\ ioAt'.step # "written"
  BY <1>2 DEF rowDone, IInv, TypeInv, IOState
<1>3. CASE RecoverNext
  <2>1. /\ io' = io /\ UNCHANGED <<row, acked, controlAt, created>>
        /\ toControl(call("recover", nextRow, None)) /\ rowDone("await")
    BY <1>3 DEF RecoverNext, ioUnchanged
  <2>2. nextRow \in Job
    BY <1>3 DEF RecoverNext, nextRow, IInv, TypeInv, IOState
  <2> QED BY <1>2, <2>1, <2>2, Calls, SameRows, IOKeeps
<1>4. ASSUME NEW err \in Outcome, MarkInterrupted(err) PROVE IInv'
  <2>1. io' = io /\ UNCHANGED <<acked, controlAt, control, created>>
    BY <1>4 DEF MarkInterrupted, ioUnchanged, controlVars
  <2>2. RowsStay
    BY <1>4, StoreKeepsRows DEF MarkInterrupted, IInv, TypeInv, JobStatus, Final
  <2>3. ioAt' \in IOState /\ ioAt'.step # "written"
    BY <1>2, <1>4, RetryKeeps DEF MarkInterrupted
  <2> QED BY <2>1, <2>2, <2>3, IOKeeps
<1> QED BY <1>1, <1>3, <1>4

-----------------------------------------------------------------------------

\* Shutdown of the runners: the closures they are running stay.
LEMMA CloseKeeps ==
  ASSUME IInv, CloseRunners
  PROVE  IInv'
<1> USE DEF IInv
<1>1. UNCHANGED <<row, acked, created, controlAt, ioAt>>
  BY DEF CloseRunners, storeVars, jobVars
<1>2. \/ control' = control /\ io' = io
      \/ control' = kept(control, controlAt # "idle") /\ io' = io
      \/ control' = control /\ io' = kept(io, ioAt.step # "idle")
  BY DEF CloseRunners
<1>3. CASE control' = control /\ io' = io
  BY <1>1, <1>3 DEF TypeInv, WrittenInv, CreatedInv, controlRuns, DurableAck
<1>4. CASE control' = kept(control, controlAt # "idle") /\ io' = io
  <2>1. /\ control' \in Seq(ControlCall)
        /\ controlAt # "idle" /\ control # << >> =>
             control' # << >> /\ Head(control') = Head(control)
    BY <1>4, KeptKeeps DEF TypeInv
  <2> QED BY <1>1, <1>4, <2>1 DEF TypeInv, WrittenInv, CreatedInv, controlRuns, DurableAck
<1>5. CASE control' = control /\ io' = kept(io, ioAt.step # "idle")
  <2>1. /\ io' \in Seq(IOCall)
        /\ ioAt.step # "idle" /\ io # << >> => io' # << >> /\ Head(io') = Head(io)
    BY <1>5, KeptKeeps DEF TypeInv
  <2> QED BY <1>1, <1>5, <2>1 DEF TypeInv, WrittenInv, CreatedInv, controlRuns, DurableAck
<1> QED BY <1>2, <1>3, <1>4, <1>5

\* A crash loses the acknowledgements together with the rows, or neither.
LEMMA CrashKeeps ==
  ASSUME IInv, Crash
  PROVE  IInv'
<1>1. row' \in Rows /\ acked' \subseteq Job
  BY DEF Crash, rowsAfterCrash, IInv, TypeInv, Rows
<1>2. control' \in Seq(ControlCall) /\ io' \in Seq(IOCall) /\ ioAt' \in IOState
  BY DEF Crash, IdleIO, IOState
<1>3. WrittenInv' /\ CreatedInv'
  BY NoneAssumption DEF Crash, IdleIO, WrittenInv, CreatedInv
<1>4. DurableAck'
  BY DEF Crash, rowsAfterCrash, IInv, DurableAck
<1> QED BY <1>1, <1>2, <1>3, <1>4 DEF IInv, TypeInv

\* The invariant holds initially.
LEMMA InitInv == Init => IInv
<1> SUFFICES ASSUME Init PROVE IInv
  OBVIOUS
<1>1. row \in Rows /\ acked \subseteq Job
  BY RowAssumption DEF Init, Rows
<1>2. control \in Seq(ControlCall) /\ io \in Seq(IOCall) /\ ioAt \in IOState
  BY DEF Init, IdleIO, IOState
<1>3. WrittenInv /\ CreatedInv /\ DurableAck
  BY NoneAssumption DEF Init, IdleIO, WrittenInv, CreatedInv, DurableAck
<1> QED BY <1>1, <1>2, <1>3 DEF IInv, TypeInv

\* Every step keeps the invariant.
LEMMA NextInv == IInv /\ [Next]_vars => IInv'
<1> SUFFICES ASSUME IInv, [Next]_vars PROVE IInv'
  OBVIOUS
<1>1. CASE IOStep
  BY <1>1, CreateKeeps, CreateEndsKeeps, UpdateKeeps, RecoveryKeeps DEF IOStep
<1>2. CASE UNCHANGED vars
  BY <1>2, PostsKeep DEF vars, storeVars, jobVars, controlVars, ioVars
<1> QED
  BY <1>1, <1>2, CallersKeep, ControlKeeps, ExecKeeps, CloseKeeps, CrashKeeps DEF Next

\* A job whose SubmitJob returned nil is in the store: through crashes, retries of
\* writes with or without effect, cancellations and a Shutdown at any point
\* (submitJobIO, persistNewJobIO).
THEOREM AcknowledgedIsDurable == Spec => []DurableAck
<1>1. IInv => DurableAck
  BY DEF IInv
<1> QED BY <1>1, InitInv, NextInv, PTL DEF Spec

-----------------------------------------------------------------------------
(* One instance at a time.  What follows is about callers that submit only *)
(* after Start has returned.                                               *)

executing(j) == \E how \in {"submit", "recover"} : exec[<<j, how>>] \in {"posted", "running"}
unqueued(j) == \A k \in DOMAIN io : io[k].job # j
onlyRunning(j) == \A k \in DOMAIN io : io[k].job = j => io[k].op = "running"

\* A job that nobody but its recovery will do anything about.
untouched(j) == row[j] = "PENDING" /\ ~executing(j) /\ ~finalizing(j) /\ unqueued(j)

JobTypes ==
  /\ exec \in [Instance -> {"none", "posted", "running", "ended", "dropped"}]
  /\ active \in [Job -> Instance \cup {None}]
  /\ crashes \in Nat

\* The closure of Start is the first that the IO runner gets, and nothing is
\* submitted before it has ended.
StartInv ==
  /\ \A k \in DOMAIN io : io[k].op = "start" => k = 1 /\ start = "waiting"
  /\ start = "no" => io = << >>
  /\ start \in {"no", "waiting"} =>
       /\ \A j \in Job : submit[j] = "no"
       /\ \A k \in DOMAIN control : control[k].op # "submit"
       /\ \A k \in DOMAIN io : io[k].op # "create"
  /\ ioAt.step \in {"interrupted", "pending", "await"} =>
       1 \in DOMAIN io /\ io[1].op = "start"

\* Until it begins to recover jobs, nothing is executed, finalized or written.
early ==
  \/ start = "no"
  \/ 1 \in DOMAIN io /\ io[1].op = "start" /\ ioAt.step \in {"idle", "interrupted"}

EarlyInv ==
  early => /\ \A j \in Job : ~executing(j)
           /\ \A k \in DOMAIN control : control[k].op \notin {"finalize", "recover"}
           /\ \A k \in DOMAIN io : io[k].op = "start"

\* The rows that recovery has yet to treat are as it listed them.
RecoverInv ==
  /\ ioAt.step = "interrupted" => \A j \in ioAt.todo : row[j] \in {"RUNNING", "FAILED"}
  /\ ioAt.step \in {"pending", "await"} => \A j \in ioAt.todo : untouched(j)
  /\ \A k \in DOMAIN control : control[k].op = "recover" =>
       /\ ioAt.step = "await"
       /\ control[k].job \notin ioAt.todo
       /\ untouched(control[k].job)
       /\ \A m \in DOMAIN control : control[m].op = "recover" => m = k

\* What the IO runner has for one job is in order: RUNNING, the final status, a
\* new submission.
QueueInv ==
  \A k, m \in DOMAIN io : k < m /\ io[k].job = io[m].job =>
    \/ io[k].op \in {"running", "start"}
    \/ io[k].op \in {"final", "missing"} /\ io[m].op = "create"

\* An instance that is executed is the active one of its job, not yet finalized.
ExecInv ==
  \A j \in Job, how \in {"submit", "recover"} :
    exec[<<j, how>>] \in {"posted", "running"} =>
      /\ active[j] = <<j, how>>
      /\ row[j] \notin Final
      /\ ~finalizing(j)
      /\ onlyRunning(j)
      /\ exec[<<j, how>>] = "posted" => row[j] = "PENDING" /\ unqueued(j)

\* A job is finalized once, and stays active until finalizeJobControl removes it.
FinalizeInv ==
  /\ controlAt = "removed" => 1 \in DOMAIN control /\ control[1].op = "finalize"
  /\ \A k \in DOMAIN control : control[k].op = "finalize" =>
       /\ row[control[k].job] \notin Final
       /\ onlyRunning(control[k].job)
       /\ k = 1 /\ controlAt = "removed" <=> active[control[k].job] = None
       /\ \A m \in DOMAIN control :
            control[m].op = "finalize" /\ control[m].job = control[k].job => m = k

\* A job that is being created is active.
CreateInv ==
  /\ \A k \in DOMAIN io : io[k].op = "create" => active[io[k].job] = <<io[k].job, "submit">>
  /\ ioAt.step = "written" =>
       1 \in DOMAIN io /\ io[1].op = "create" /\ row[io[1].job] = "PENDING"

\* A final status is there to stay: what is left to do for the job is the write of
\* that very status, or a new submission.
FinalInv ==
  \A j \in Job : row[j] \in Final =>
    \A k \in DOMAIN io : io[k].job = j =>
      \/ io[k].op = "create"
      \/ k = 1 /\ io[k].op \in {"final", "missing"} /\ io[k].arg = row[j]

OneInstance ==
  /\ JobTypes /\ StartInv /\ EarlyInv /\ RecoverInv
  /\ QueueInv /\ ExecInv /\ FinalizeInv /\ CreateInv /\ FinalInv

-----------------------------------------------------------------------------
(* Places in a queue.                                                      *)

\* The indices of a queue, and its head.
LEMMA QueueIs ==
  ASSUME NEW S, NEW q \in Seq(S)
  PROVE  /\ DOMAIN q = 1..Len(q) /\ Len(q) \in Nat
         /\ \A k \in DOMAIN q : q[k] \in S
         /\ q # << >> <=> 1 \in DOMAIN q
         /\ q # << >> => Head(q) = q[1]
OBVIOUS

\* A post keeps the places; what is new is at the end.
LEMMA PostedIs ==
  ASSUME NEW S, NEW q \in Seq(S), NEW c \in S, NEW r
  PROVE  /\ \A k \in DOMAIN q : k \in DOMAIN posted(q, r, c) /\ posted(q, r, c)[k] = q[k]
         /\ \A k \in DOMAIN posted(q, r, c) :
              k \in DOMAIN q \/ (k = Len(q) + 1 /\ posted(q, r, c)[k] = c)
BY DEF posted

\* When the running closure ends, the others move up by one place.
LEMMA TailIs ==
  ASSUME NEW S, NEW q \in Seq(S), q # << >>
  PROVE  \A k \in DOMAIN Tail(q) : k \in Nat /\ k >= 1 /\ k + 1 \in DOMAIN q /\ Tail(q)[k] = q[k + 1]
OBVIOUS

\* What a runner that is shut down keeps.
LEMMA KeptIs ==
  ASSUME NEW S, NEW q \in Seq(S), NEW busy \in BOOLEAN
  PROVE  /\ \A k \in DOMAIN kept(q, busy) : k = 1 /\ busy /\ 1 \in DOMAIN q /\ kept(q, busy)[k] = q[1]
         /\ busy /\ 1 \in DOMAIN q => 1 \in DOMAIN kept(q, busy) /\ kept(q, busy)[1] = q[1]
BY DEF kept

\* The types of the closures, place by place.
LEMMA PlacesTyped ==
  ASSUME TypeInv
  PROVE  /\ DOMAIN io = 1..Len(io) /\ Len(io) \in Nat
         /\ DOMAIN control = 1..Len(control) /\ Len(control) \in Nat
         /\ io # << >> <=> 1 \in DOMAIN io
         /\ io # << >> => Head(io) = io[1]
         /\ control # << >> <=> 1 \in DOMAIN control
         /\ control # << >> => Head(control) = control[1]
         /\ \A k \in DOMAIN io :
              /\ io[k].op = "start" => io[k].job \notin Job
              /\ io[k].op # "start" => io[k].job \in Job
              /\ io[k].op \in {"final", "missing"} => io[k].arg \in Final
              /\ io[k].op \in {"create", "running", "final", "missing", "start"}
         /\ \A k \in DOMAIN control :
              control[k].op \in {"submit", "cancel", "finalize", "recover"} => control[k].job \in Job
<1>1. \A k \in DOMAIN io : io[k] \in IOCall
  BY QueueIs DEF TypeInv
<1>2. \A k \in DOMAIN control : control[k] \in ControlCall
  BY QueueIs DEF TypeInv
<1>3. \A c \in IOCall :
        /\ c.op = "start" => c.job \notin Job
        /\ c.op # "start" => c.job \in Job
        /\ c.op \in {"final", "missing"} => c.arg \in Final
        /\ c.op \in {"create", "running", "final", "missing", "start"}
  BY NoneAssumption DEF IOCall
<1>4. \A c \in ControlCall :
        c.op \in {"submit", "cancel", "finalize", "recover"} => c.job \in Job
  BY DEF ControlCall
<1>5. io \in Seq(IOCall) /\ control \in Seq(ControlCall)
  BY DEF TypeInv
<1>6. /\ DOMAIN io = 1..Len(io) /\ Len(io) \in Nat
      /\ io # << >> <=> 1 \in DOMAIN io
      /\ io # << >> => Head(io) = io[1]
  BY <1>5, QueueIs
<1>7. /\ DOMAIN control = 1..Len(control) /\ Len(control) \in Nat
      /\ control # << >> <=> 1 \in DOMAIN control
      /\ control # << >> => Head(control) = control[1]
  BY <1>5, QueueIs
<1> QED BY <1>1, <1>2, <1>3, <1>4, <1>6, <1>7

-----------------------------------------------------------------------------
(* Steps.                                                                  *)

\* A step that leaves the IO runner and the executions alone, and the control
\* runner with what it had, moved up at most, and with calls that touch no job.
LEMMA ControlAlone ==
  ASSUME IInv, OneInstance, NEW d \in {0, 1},
         UNCHANGED <<row, start, ioAt, io, active, exec, crashes>>,
         start \in {"no", "waiting"} => submit' = submit,
         \A k \in DOMAIN control' :
           \/ k + d \in DOMAIN control /\ control'[k] = control[k + d]
           \/ /\ control'[k].op \notin {"finalize", "recover"}
              /\ start \in {"no", "waiting"} => control'[k].op # "submit",
         d = 0 => controlAt' = controlAt /\ \A k \in DOMAIN control : k \in DOMAIN control' /\ control'[k] = control[k],
         d = 1 => controlAt' # "removed",
         \A k \in DOMAIN control' : k \in Nat /\ k >= 1
  PROVE  OneInstance'
<1> USE DEF OneInstance
<1>1. \A j : finalizing(j)' => finalizing(j)
  BY DEF finalizing
<1>2. \A j : (executing(j)' => executing(j)) /\ (unqueued(j) => unqueued(j)') /\ (onlyRunning(j) => onlyRunning(j)')
  BY DEF executing, unqueued, onlyRunning
<1>3. \A j : untouched(j) => untouched(j)'
  BY <1>1, <1>2 DEF untouched
<1>4. JobTypes'
  BY DEF JobTypes
<1>5. StartInv'
  BY DEF StartInv
<1>6. EarlyInv'
  BY <1>2 DEF EarlyInv, early
<1>7. RecoverInv'
  <2>1. ASSUME NEW k \in DOMAIN control', control'[k].op = "recover"
        PROVE  k + d \in DOMAIN control /\ control'[k] = control[k + d]
    BY <2>1
  <2> QED
    BY <1>3, <2>1 DEF RecoverInv
<1>8. QueueInv' /\ CreateInv' /\ FinalInv'
  BY DEF QueueInv, CreateInv, FinalInv
<1>9. ExecInv'
  BY <1>1, <1>2 DEF ExecInv
<1>10. FinalizeInv'
  <2>1. ASSUME NEW k \in DOMAIN control', control'[k].op = "finalize"
        PROVE  k + d \in DOMAIN control /\ control'[k] = control[k + d]
    BY <2>1
  <2>2. CASE d = 0
    BY <1>2, <2>1, <2>2 DEF FinalizeInv
  <2>3. CASE d = 1
    BY <1>2, <2>1, <2>3 DEF FinalizeInv
  <2> QED BY <2>2, <2>3
<1> QED BY <1>4, <1>5, <1>6, <1>7, <1>8, <1>9, <1>10

\* What a post to the IO runner adds is its last closure.
LEMMA IOPosted ==
  ASSUME TypeInv, NEW c \in IOCall, toIO(c)
  PROVE  /\ \A k \in DOMAIN io : k \in DOMAIN io' /\ io'[k] = io[k]
         /\ \A k \in DOMAIN io' : k \in DOMAIN io \/ io'[k] = c
         /\ \A k, m \in DOMAIN io' : k < m => k \in DOMAIN io
         /\ 1 \in DOMAIN io' => 1 \in DOMAIN io \/ io = << >>
         /\ \A x : unqueued(x) /\ c.job # x => unqueued(x)'
         /\ \A x : onlyRunning(x) /\ (c.job = x => c.op = "running") => onlyRunning(x)'
<1>1. /\ \A k \in DOMAIN io : k \in DOMAIN io' /\ io'[k] = io[k]
      /\ \A k \in DOMAIN io' : k \in DOMAIN io \/ (k = Len(io) + 1 /\ io'[k] = c)
  BY PostedIs DEF TypeInv, toIO
<1>2. /\ \A k, m \in DOMAIN io' : k < m => k \in DOMAIN io
      /\ 1 \in DOMAIN io' => 1 \in DOMAIN io \/ io = << >>
  BY <1>1, PlacesTyped
<1>3. \A x : unqueued(x) /\ c.job # x => unqueued(x)'
  BY <1>1 DEF unqueued
<1>4. \A x : onlyRunning(x) /\ (c.job = x => c.op = "running") => onlyRunning(x)'
  BY <1>1 DEF onlyRunning
<1> QED BY <1>1, <1>2, <1>3, <1>4

\* What a post to the control runner adds is its last closure.
LEMMA ControlPosted ==
  ASSUME TypeInv, NEW c \in ControlCall, toControl(c)
  PROVE  /\ \A k \in DOMAIN control : k \in DOMAIN control' /\ control'[k] = control[k]
         /\ \A k \in DOMAIN control' :
              /\ k \in Nat /\ k >= 1
              /\ k \in DOMAIN control \/ (control'[k] = c /\ \A m \in DOMAIN control : m < k)
         /\ \A x : finalizing(x)' => finalizing(x) \/ (c.op = "finalize" /\ c.job = x)
<1>1. /\ \A k \in DOMAIN control : k \in DOMAIN control' /\ control'[k] = control[k]
      /\ \A k \in DOMAIN control' : k \in DOMAIN control \/ (k = Len(control) + 1 /\ control'[k] = c)
  BY PostedIs DEF TypeInv, toControl
<1>2. \A k \in DOMAIN control' :
        /\ k \in Nat /\ k >= 1
        /\ k \in DOMAIN control \/ (control'[k] = c /\ \A m \in DOMAIN control : m < k)
  BY <1>1, PlacesTyped
<1>3. \A x : finalizing(x)' => finalizing(x) \/ (c.op = "finalize" /\ c.job = x)
  BY <1>1 DEF finalizing
<1> QED BY <1>1, <1>2, <1>3

\* When the control runner's closure ends, the others move up.
LEMMA ControlMovesUp ==
  ASSUME TypeInv, control # << >>, control' = Tail(control)
  PROVE  /\ \A k \in DOMAIN control' :
              k \in Nat /\ k >= 1 /\ k + 1 \in DOMAIN control /\ control'[k] = control[k + 1]
         /\ \A x : finalizing(x)' => finalizing(x)
<1>1. \A k \in DOMAIN control' :
        k \in Nat /\ k >= 1 /\ k + 1 \in DOMAIN control /\ control'[k] = control[k + 1]
  BY TailIs DEF TypeInv
<1> QED BY <1>1 DEF finalizing

\* When the IO runner's closure ends, the others move up.
LEMMA IOMovesUp ==
  ASSUME TypeInv, io # << >>, io' = Tail(io)
  PROVE  /\ \A k \in DOMAIN io' : k \in Nat /\ k >= 1 /\ k + 1 \in DOMAIN io /\ io'[k] = io[k + 1]
         /\ \A x : unqueued(x) => unqueued(x)'
         /\ \A x : onlyRunning(x) => onlyRunning(x)'
<1>1. \A k \in DOMAIN io' : k \in Nat /\ k >= 1 /\ k + 1 \in DOMAIN io /\ io'[k] = io[k + 1]
  BY TailIs DEF TypeInv
<1> QED BY <1>1 DEF unqueued, onlyRunning

-----------------------------------------------------------------------------
(* Steps of the callers and of the control runner.                         *)

\* Calls that touch no job, and the steps of Shutdown before it closes runners.
LEMMA CallersOne ==
  ASSUME IInv, OneInstance, ~EarlySubmit,
         \/ \E j \in Job : SubmitJob(j) \/ PostSubmit(j) \/ CallerCancels(j) \/ CallerLeaves(j)
                             \/ CancelJob(j)
         \/ RegisterHandler \/ UnregisterHandler
         \/ BeginShutdown \/ PollActive \/ PollFinalize \/ ShutdownTimesOut
         \/ UNCHANGED vars
  PROVE  OneInstance'
<1> USE DEF storeVars, callerVars, lifeVars, jobVars, controlVars, ioVars, runVars, vars
<1>1. UNCHANGED <<row, start, ioAt, io, active, exec, crashes, controlAt>>
  BY DEF SubmitJob, PostSubmit, CallerCancels, CallerLeaves, CancelJob, RegisterHandler,
         UnregisterHandler, PostCall, BeginShutdown, PollActive, PollFinalize, ShutdownTimesOut
<1>2. start \in {"no", "waiting"} => submit' = submit
  BY DEF SubmitJob, PostSubmit, CallerCancels, CallerLeaves, CancelJob, RegisterHandler,
         UnregisterHandler, PostCall, BeginShutdown, PollActive, PollFinalize, ShutdownTimesOut,
         OneInstance, StartInv
<1>3. \/ control' = control
      \/ \E c \in ControlCall :
           /\ toControl(c)
           /\ c.op \notin {"finalize", "recover"}
           /\ start \in {"no", "waiting"} => c.op # "submit"
  <2>1. ASSUME NEW j \in Job, PostSubmit(j)
        PROVE  start \notin {"no", "waiting"} /\ toControl(call("submit", j, None))
    BY <2>1 DEF PostSubmit, OneInstance, StartInv
  <2>2. ASSUME NEW j \in Job, CancelJob(j)
        PROVE  toControl(call("cancel", j, None))
    BY <2>2 DEF CancelJob, PostCall
  <2>3. CASE RegisterHandler \/ UnregisterHandler \/ BeginShutdown
    <3>1. \/ toControl(call("register", None, None))
          \/ toControl(call("unregister", None, None))
          \/ toControl(call("cancelAll", None, None))
      BY <2>3 DEF RegisterHandler, UnregisterHandler, PostCall, BeginShutdown
    <3> QED BY <3>1, OtherCalls DEF call
  <2>4. CASE \/ \E j \in Job : SubmitJob(j) \/ CallerCancels(j) \/ CallerLeaves(j)
             \/ PollActive \/ PollFinalize \/ ShutdownTimesOut \/ UNCHANGED vars
    BY <2>4 DEF SubmitJob, CallerCancels, CallerLeaves, PollActive, PollFinalize, ShutdownTimesOut
  <2>5. ASSUME NEW j \in Job, PostSubmit(j) \/ CancelJob(j)
        PROVE  \E c \in ControlCall :
                 /\ toControl(c)
                 /\ c.op \notin {"finalize", "recover"}
                 /\ start \in {"no", "waiting"} => c.op # "submit"
    BY <2>1, <2>2, <2>5, Calls DEF call
  <2> QED BY <2>3, <2>4, <2>5
<1>4. TypeInv /\ \A k \in DOMAIN control : k \in Nat /\ k >= 1 /\ k + 0 = k
  BY PlacesTyped DEF IInv
<1>5. CASE control' = control
  BY <1>1, <1>2, <1>4, <1>5, ControlAlone
<1>6. ASSUME NEW c \in ControlCall, toControl(c), c.op \notin {"finalize", "recover"},
             start \in {"no", "waiting"} => c.op # "submit"
      PROVE  OneInstance'
  <2>1. /\ \A k \in DOMAIN control : k \in DOMAIN control' /\ control'[k] = control[k]
        /\ \A k \in DOMAIN control' :
             k \in Nat /\ k >= 1 /\ (k + 0 \in DOMAIN control \/ control'[k] = c)
    BY <1>4, <1>6, ControlPosted
  <2>2. \A k \in DOMAIN control' :
          \/ k + 0 \in DOMAIN control /\ control'[k] = control[k + 0]
          \/ /\ control'[k].op \notin {"finalize", "recover"}
             /\ start \in {"no", "waiting"} => control'[k].op # "submit"
    BY <1>4, <1>6, <2>1
  <2> QED BY <1>1, <1>2, <2>1, <2>2, ControlAlone
<1> QED BY <1>3, <1>5, <1>6

\* Closures of the control runner that end and touch no job.
LEMMA ControlEndsOne ==
  ASSUME IInv, OneInstance, control # << >>, endsControl,
         UNCHANGED <<row, start, ioAt, io, active, exec, crashes>>,
         start \in {"no", "waiting"} => submit' = submit
  PROVE  OneInstance'
<1>1. /\ \A k \in DOMAIN control' :
           k \in Nat /\ k >= 1 /\ k + 1 \in DOMAIN control /\ control'[k] = control[k + 1]
      /\ controlAt' # "removed"
  BY ControlMovesUp DEF IInv, endsControl
<1> QED BY <1>1, ControlAlone

\* Start's closure is the first that the IO runner gets.
LEMMA StartOne ==
  ASSUME IInv, OneInstance, Start
  PROVE  OneInstance'
<1> USE DEF storeVars, callerVars, lifeVars, jobVars, controlVars, ioVars, runVars, OneInstance
<1>1. /\ UNCHANGED <<row, ioAt, active, exec, crashes, control, controlAt, submit>>
      /\ start = "no" /\ start' = "waiting" /\ io = << >>
      /\ toIO(call("start", None, None))
  BY DEF Start, StartInv
<1>2. TypeInv /\ call("start", None, None) \in IOCall
  BY OtherCalls DEF IInv
<1>3. io' = << >> \/ io' = <<call("start", None, None)>>
  BY <1>1 DEF toIO, posted
<1>4. \A k \in DOMAIN io' : k = 1 /\ io'[k].op = "start" /\ io'[k].job = None
  BY <1>3 DEF call
<1>5. ioAt.step \notin {"interrupted", "pending", "await", "written"}
  BY <1>1, <1>2, PlacesTyped DEF StartInv, CreateInv
<1>6. \A j \in Job : ~executing(j) /\ ~executing(j)'
  BY <1>1 DEF EarlyInv, early, executing
<1>7. \A k \in DOMAIN control : control[k].op \notin {"finalize", "recover", "submit"}
  BY <1>1 DEF EarlyInv, early, StartInv
<1>8. JobTypes'
  BY <1>1 DEF JobTypes
<1>9. StartInv'
  BY <1>1, <1>4, <1>5, <1>7 DEF StartInv
<1>10. EarlyInv'
  BY <1>1, <1>4, <1>6, <1>7 DEF EarlyInv
<1>11. RecoverInv'
  BY <1>1, <1>5, <1>7 DEF RecoverInv
<1>12. QueueInv' /\ FinalInv' /\ CreateInv'
  BY <1>1, <1>4, <1>5, NoneAssumption DEF QueueInv, FinalInv, CreateInv
<1>13. ExecInv'
  BY <1>6 DEF ExecInv, executing
<1>14. FinalizeInv'
  BY <1>1, <1>7 DEF FinalizeInv
<1> QED BY <1>8, <1>9, <1>10, <1>11, <1>12, <1>13, <1>14

\* A submission makes its job active and posts its creation; the job had none.
LEMMA SubmitOne ==
  ASSUME IInv, OneInstance, RunSubmit
  PROVE  OneInstance'
<1> DEFINE j == Head(control).job
<1> USE DEF storeVars, callerVars, lifeVars, jobVars, controlVars, ioVars, runVars, OneInstance
<1>1. /\ UNCHANGED <<row, start, ioAt, exec, crashes>>
      /\ control # << >> /\ Head(control).op = "submit" /\ controlAt = "idle"
  BY DEF RunSubmit, controlRuns
<1>2. TypeInv /\ 1 \in DOMAIN control /\ control[1].op = "submit" /\ j = control[1].job /\ j \in Job
  BY <1>1, PlacesTyped DEF IInv
<1>3. start \notin {"no", "waiting"}
  BY <1>2 DEF StartInv
<1>4. CASE active[j] # None \/ ~handlers
  <2>1. endsControl /\ UNCHANGED <<io, active>>
    BY <1>4 DEF RunSubmit
  <2> QED BY <1>1, <1>3, <2>1, ControlEndsOne
<1>5. CASE active[j] = None /\ handlers
  <2>1. /\ active' = [active EXCEPT ![j] = <<j, "submit">>]
        /\ toIO(call("create", j, None))
        /\ controlAt' = "await"
        /\ UNCHANGED <<control, submit>>
    BY <1>5 DEF RunSubmit
  <2> DEFINE c == call("create", j, None)
  <2>2. c \in IOCall /\ c.op = "create" /\ c.job = j
    BY <1>2, Calls DEF call
  <2> HIDE DEF j, c
  <2>3. /\ \A k \in DOMAIN io : k \in DOMAIN io' /\ io'[k] = io[k]
        /\ \A k \in DOMAIN io' : k \in DOMAIN io \/ io'[k] = c
        /\ \A k, m \in DOMAIN io' : k < m => k \in DOMAIN io
        /\ \A x : unqueued(x) /\ j # x => unqueued(x)'
        /\ \A x : onlyRunning(x) /\ j # x => onlyRunning(x)'
    BY <1>2, <2>1, <2>2, IOPosted DEF c
  <2>4. \A x : (executing(x)' => executing(x)) /\ (finalizing(x)' => finalizing(x))
    BY <1>1, <2>1 DEF executing, finalizing
  <2>5. ~executing(j) /\ ~finalizing(j)
    <3>1. \A how \in {"submit", "recover"} : active[j] # <<j, how>>
      BY <1>2, <1>5, NoneAssumption DEF Instance
    <3>2. ~executing(j)
      BY <1>2, <3>1 DEF ExecInv, executing
    <3>3. ~finalizing(j)
      BY <1>1, <1>2, <1>5 DEF FinalizeInv, finalizing
    <3> QED BY <3>2, <3>3
  <2>6. \A k \in DOMAIN io : io[k].op # "start" /\ (io[k].job = j => io[k].op # "create")
    <3>1. <<j, "submit">> # None
      BY <1>2, NoneAssumption DEF Instance
    <3> QED BY <1>3, <1>5, <3>1 DEF StartInv, CreateInv
  <2>7. ioAt.step \notin {"interrupted", "pending", "await"}
    BY <2>6 DEF StartInv
  <2>8. JobTypes'
    BY <1>1, <1>2, <2>1 DEF JobTypes, Instance
  <2>9. StartInv' /\ EarlyInv'
    BY <1>1, <1>3, <2>2, <2>3, <2>6, <2>7 DEF StartInv, EarlyInv, early
  <2>10. RecoverInv'
    BY <1>1, <2>1, <2>7 DEF RecoverInv
  <2>11. QueueInv'
    <3>1. ASSUME NEW k \in DOMAIN io', NEW m \in DOMAIN io', k < m, io'[k].job = io'[m].job
          PROVE  \/ io'[k].op \in {"running", "start"}
                 \/ io'[k].op \in {"final", "missing"} /\ io'[m].op = "create"
      <4>1. CASE m \in DOMAIN io
        BY <2>3, <3>1, <4>1 DEF QueueInv
      <4>2. CASE m \notin DOMAIN io
        BY <1>2, <2>2, <2>3, <2>6, <3>1, <4>2, PlacesTyped
      <4> QED BY <4>1, <4>2
    <3> QED BY <3>1 DEF QueueInv
  <2>12. ExecInv'
    BY <1>1, <2>1, <2>3, <2>4, <2>5 DEF ExecInv, JobTypes, executing
  <2>13. FinalizeInv'
    BY <1>1, <1>2, <2>1, <2>3, <2>4, <2>5, NoneAssumption, PlacesTyped
       DEF FinalizeInv, finalizing, JobTypes, Instance
  <2>14. CreateInv'
    BY <1>1, <1>2, <2>1, <2>2, <2>3, <2>6, PlacesTyped DEF CreateInv, JobTypes
  <2>15. FinalInv'
    BY <1>1, <2>2, <2>3 DEF FinalInv
  <2> QED BY <2>8, <2>9, <2>10, <2>11, <2>12, <2>13, <2>14, <2>15
<1> QED BY <1>4, <1>5

\* finalizeJobControl removes the job of an instance that has ended.
LEMMA FinalizeOne ==
  ASSUME IInv, OneInstance, RunFinalize
  PROVE  OneInstance'
<1> DEFINE j == Head(control).job
<1> USE DEF storeVars, callerVars, lifeVars, jobVars, controlVars, ioVars, runVars, OneInstance
<1>1. /\ UNCHANGED <<row, start, ioAt, io, exec, crashes, submit>>
      /\ control # << >> /\ Head(control).op = "finalize" /\ controlAt = "idle"
  BY DEF RunFinalize, controlRuns
<1>2. TypeInv /\ 1 \in DOMAIN control /\ control[1].op = "finalize" /\ j = control[1].job /\ j \in Job
  BY <1>1, PlacesTyped DEF IInv
<1>3. CASE active[j] = None
  <2>1. endsControl /\ UNCHANGED active
    BY <1>3 DEF RunFinalize
  <2> QED BY <1>1, <2>1, ControlEndsOne
<1>4. CASE active[j] # None
  <2>1. /\ active' = [active EXCEPT ![j] = None]
        /\ controlAt' = "removed"
        /\ UNCHANGED control
    BY <1>4 DEF RunFinalize
  <2> HIDE DEF j
  <2>2. finalizing(j) /\ onlyRunning(j) /\ ~executing(j)
    BY <1>2 DEF finalizing, FinalizeInv, ExecInv, executing
  <2>3. \A x : /\ (executing(x)' => executing(x)) /\ (finalizing(x)' => finalizing(x))
               /\ (unqueued(x) => unqueued(x)') /\ (onlyRunning(x) => onlyRunning(x)')
    BY <1>1, <2>1 DEF executing, finalizing, unqueued, onlyRunning
  <2>4. JobTypes'
    BY <1>1, <1>2, <2>1 DEF JobTypes
  <2>5. StartInv' /\ EarlyInv' /\ QueueInv' /\ FinalInv'
    BY <1>1, <2>1, <2>3 DEF StartInv, EarlyInv, early, QueueInv, FinalInv
  <2>6. RecoverInv'
    BY <1>1, <2>1, <2>3 DEF RecoverInv, untouched
  <2>7. ExecInv'
    BY <1>1, <2>1, <2>2, <2>3 DEF ExecInv, JobTypes, executing
  <2>8. FinalizeInv'
    BY <1>1, <1>2, <2>1, <2>3, PlacesTyped DEF FinalizeInv, JobTypes
  <2>9. CreateInv'
    BY <1>1, <1>2, <2>1, <2>2, PlacesTyped DEF CreateInv, JobTypes, onlyRunning
  <2> QED BY <2>4, <2>5, <2>6, <2>7, <2>8, <2>9
<1> QED BY <1>3, <1>4

\* ... and posts the write of its final status, behind its RUNNING.
LEMMA CountOne ==
  ASSUME IInv, OneInstance, CountFinalize
  PROVE  OneInstance'
<1> DEFINE j == Head(control).job
           c == call("final", j, Head(control).arg)
<1> USE DEF storeVars, callerVars, lifeVars, jobVars, controlVars, ioVars, runVars, OneInstance
<1>1. /\ UNCHANGED <<row, start, ioAt, active, exec, crashes, submit>>
      /\ control # << >> /\ Head(control).op = "finalize" /\ controlAt = "removed"
      /\ toIO(c) /\ control' = Tail(control) /\ controlAt' = "idle"
  BY DEF CountFinalize, controlRuns, endsControl
<1>2. TypeInv /\ 1 \in DOMAIN control /\ control[1].op = "finalize" /\ j = control[1].job /\ j \in Job
  BY <1>1, PlacesTyped DEF IInv
<1>3. c \in IOCall /\ c.op = "final" /\ c.job = j
  <2>1. Head(control) \in ControlCall
    BY <1>1, <1>2, TailKeeps DEF TypeInv
  <2> QED BY <1>1, <2>1 DEF call, ControlCall, IOCall
<1> HIDE DEF j, c
<1>4. /\ \A k \in DOMAIN io : k \in DOMAIN io' /\ io'[k] = io[k]
      /\ \A k \in DOMAIN io' : k \in DOMAIN io \/ io'[k] = c
      /\ \A k, m \in DOMAIN io' : k < m => k \in DOMAIN io
      /\ \A x : unqueued(x) /\ j # x => unqueued(x)'
      /\ \A x : onlyRunning(x) /\ j # x => onlyRunning(x)'
  BY <1>1, <1>2, <1>3, IOPosted
<1>5. /\ \A k \in DOMAIN control' :
           k \in Nat /\ k >= 1 /\ k + 1 \in DOMAIN control /\ control'[k] = control[k + 1]
      /\ \A x : finalizing(x)' => finalizing(x)
  BY <1>1, <1>2, ControlMovesUp
<1>6. finalizing(j) /\ onlyRunning(j) /\ row[j] \notin Final
  BY <1>2 DEF finalizing, FinalizeInv
<1>7. ~executing(j) /\ \A x : (executing(x)' => executing(x))
  BY <1>1, <1>2, <1>6 DEF ExecInv, executing
<1>8. \A k \in DOMAIN control' : control'[k].op = "finalize" => control'[k].job # j
  BY <1>2, <1>5 DEF FinalizeInv
<1>9. ~early
  BY <1>2 DEF EarlyInv
<1>10. JobTypes'
  BY <1>1 DEF JobTypes
<1>11. StartInv'
  BY <1>1, <1>3, <1>4, <1>5, <1>9 DEF StartInv, early
<1>12. EarlyInv'
  BY <1>1, <1>3, <1>4, <1>9 DEF EarlyInv, early
<1>13. RecoverInv'
  <2>1. \A x : untouched(x) => x # j /\ untouched(x)'
    BY <1>1, <1>4, <1>5, <1>6, <1>7 DEF untouched
  <2> QED BY <1>1, <1>5, <2>1 DEF RecoverInv
<1>14. QueueInv'
  BY <1>3, <1>4, <1>6 DEF QueueInv, onlyRunning
<1>15. ExecInv'
  <2>1. \A x \in Job, how \in {"submit", "recover"} : exec[<<x, how>>] \in {"posted", "running"} => x # j
    BY <1>7 DEF executing
  <2> QED BY <1>1, <1>4, <1>5, <2>1 DEF ExecInv
<1>16. FinalizeInv'
  BY <1>1, <1>4, <1>5, <1>8 DEF FinalizeInv
<1>17. CreateInv'
  BY <1>1, <1>3, <1>4 DEF CreateInv
<1>18. FinalInv'
  BY <1>1, <1>3, <1>4, <1>6 DEF FinalInv
<1> QED BY <1>10, <1>11, <1>12, <1>13, <1>14, <1>15, <1>16, <1>17, <1>18

\* A recovered job is executed, or marked as failed when it has no handler.
LEMMA RecoverOne ==
  ASSUME IInv, OneInstance, RunRecover
  PROVE  OneInstance'
<1> USE DEF storeVars, callerVars, lifeVars, jobVars, controlVars, ioVars, runVars, OneInstance
<1>1. /\ UNCHANGED <<row, start, crashes, submit>>
      /\ control # << >> /\ Head(control).op = "recover" /\ controlAt = "idle"
      /\ control' = Tail(control) /\ controlAt' = "idle"
      /\ ioAt' = [ioAt EXCEPT !.step = "pending"]
  BY DEF RunRecover, controlRuns, endsControl
<1>2. PICK j \in Job :
        TypeInv /\ 1 \in DOMAIN control /\ control[1].op = "recover" /\ Head(control).job = j
          /\ control[1].job = j
  BY <1>1, PlacesTyped DEF IInv
<1> DEFINE c == call("missing", j, "FAILED")
<1>3. ioAt.step = "await" /\ j \notin ioAt.todo /\ untouched(j)
  BY <1>2 DEF RecoverInv
<1>4. ioAt'.step = "pending" /\ ioAt'.todo = ioAt.todo
  BY <1>1, <1>2 DEF TypeInv, IOState
<1>5. /\ \A k \in DOMAIN control' :
           k \in Nat /\ k >= 1 /\ k + 1 \in DOMAIN control /\ control'[k] = control[k + 1]
      /\ \A x : finalizing(x)' => finalizing(x)
  BY <1>1, <1>2, ControlMovesUp
<1>6. \A k \in DOMAIN control' : control'[k].op # "recover"
  BY <1>2, <1>5 DEF RecoverInv
<1>7. 1 \in DOMAIN io /\ io[1].op = "start" /\ start = "waiting"
  BY <1>3 DEF StartInv
<1>8. CASE handlers
  <2>1. /\ active' = [active EXCEPT ![j] = <<j, "recover">>]
        /\ \E how \in {"posted", "dropped"} : exec' = [exec EXCEPT ![<<j, "recover">>] = how]
        /\ UNCHANGED io
    BY <1>2, <1>8 DEF RunRecover, schedules
  <2>2. /\ active'[j] = <<j, "recover">> /\ \A x \in Job \ {j} : active'[x] = active[x]
        /\ JobTypes'
    BY <1>1, <1>2, <2>1 DEF JobTypes, Instance
  <2>3. /\ \A x \in Job, how \in {"submit", "recover"} :
             exec'[<<x, how>>] = exec[<<x, how>>] \/ (x = j /\ how = "recover")
        /\ exec'[<<j, "recover">>] \in {"posted", "dropped"}
    BY <1>2, <2>1 DEF JobTypes, Instance
  <2> HIDE DEF c
  <2>4. /\ \A x \in Job \ {j} : (executing(x)' => executing(x))
        /\ \A x : (unqueued(x) => unqueued(x)') /\ (onlyRunning(x) => onlyRunning(x)')
    BY <2>1, <2>3 DEF executing, unqueued, onlyRunning
  <2>5. StartInv' /\ EarlyInv'
    BY <1>1, <1>4, <1>5, <1>7, <2>1 DEF StartInv, EarlyInv, early
  <2>6. RecoverInv'
    <3>1. ASSUME NEW x \in ioAt.todo
          PROVE  untouched(x)'
      BY <1>1, <1>2, <1>3, <1>5, <2>4 DEF RecoverInv, untouched, TypeInv, IOState
    <3> QED BY <1>4, <1>6, <3>1 DEF RecoverInv
  <2>7. QueueInv' /\ FinalInv'
    BY <1>1, <2>1 DEF QueueInv, FinalInv
  <2>8. ExecInv'
    <3>1. ASSUME NEW x \in Job \ {j}, NEW how \in {"submit", "recover"},
                 exec'[<<x, how>>] \in {"posted", "running"}
          PROVE  /\ active'[x] = <<x, how>> /\ row'[x] \notin Final /\ ~finalizing(x)' /\ onlyRunning(x)'
                 /\ exec'[<<x, how>>] = "posted" => row'[x] = "PENDING" /\ unqueued(x)'
      <4>1. exec[<<x, how>>] \in {"posted", "running"} /\ exec'[<<x, how>>] = exec[<<x, how>>]
        BY <2>3, <3>1
      <4>2. /\ active[x] = <<x, how>> /\ row[x] \notin Final /\ ~finalizing(x) /\ onlyRunning(x)
            /\ exec[<<x, how>>] = "posted" => row[x] = "PENDING" /\ unqueued(x)
        BY <4>1 DEF ExecInv
      <4> QED BY <1>1, <1>5, <2>2, <2>4, <4>1, <4>2
    <3>2. row'[j] = "PENDING" /\ ~finalizing(j)' /\ unqueued(j)' /\ onlyRunning(j)'
      <4>1. row'[j] = "PENDING" /\ ~finalizing(j)' /\ unqueued(j)'
        BY <1>1, <1>3, <1>5, <2>4 DEF untouched
      <4> QED BY <4>1 DEF unqueued, onlyRunning
    <3>3. exec'[<<j, "submit">>] \notin {"posted", "running"}
      BY <1>2, <1>3, <2>3 DEF untouched, executing
    <3>4. row'[j] \notin Final
      BY <3>2 DEF Final
    <3> QED BY <2>2, <3>1, <3>2, <3>3, <3>4 DEF ExecInv
  <2>9. FinalizeInv'
    <3>1. \A k \in DOMAIN control' : control'[k].op = "finalize" =>
            control'[k].job \in Job /\ control'[k].job # j
      BY <1>2, <1>3, <1>5, PlacesTyped DEF untouched, finalizing
    <3> QED BY <1>1, <1>5, <2>2, <2>4, <3>1 DEF FinalizeInv
  <2>10. CreateInv'
    <3>1. \A k \in DOMAIN io : io[k].op = "create" => io[k].job \in Job \ {j}
      BY <1>2, <1>3, PlacesTyped DEF untouched, unqueued
    <3> QED BY <1>1, <1>4, <2>1, <2>2, <3>1 DEF CreateInv
  <2> QED BY <2>2, <2>5, <2>6, <2>7, <2>8, <2>9, <2>10
<1>9. CASE ~handlers
  <2>1. toIO(c) /\ UNCHANGED <<active, exec>>
    BY <1>2, <1>9 DEF RunRecover
  <2>2. c \in IOCall /\ c.op = "missing" /\ c.job = j
    BY <1>2, Calls DEF call
  <2> HIDE DEF c
  <2>3. /\ \A k \in DOMAIN io : k \in DOMAIN io' /\ io'[k] = io[k]
        /\ \A k \in DOMAIN io' : k \in DOMAIN io \/ io'[k] = c
        /\ \A k, m \in DOMAIN io' : k < m => k \in DOMAIN io
        /\ \A x : unqueued(x) /\ j # x => unqueued(x)'
        /\ \A x : onlyRunning(x) /\ j # x => onlyRunning(x)'
    BY <1>2, <2>1, <2>2, IOPosted
  <2>4. \A x : (executing(x)' => executing(x))
    BY <2>1 DEF executing
  <2>5. JobTypes'
    BY <1>1, <2>1 DEF JobTypes
  <2>6. StartInv' /\ EarlyInv'
    BY <1>1, <1>4, <1>5, <1>7, <2>2, <2>3 DEF StartInv, EarlyInv, early
  <2>7. RecoverInv'
    <3>1. ASSUME NEW x \in ioAt.todo
          PROVE  untouched(x)'
      BY <1>1, <1>3, <1>5, <2>3, <2>4 DEF RecoverInv, untouched
    <3> QED BY <1>4, <1>6, <3>1 DEF RecoverInv
  <2>8. QueueInv'
    BY <1>3, <2>2, <2>3 DEF QueueInv, untouched, unqueued
  <2>9. ExecInv'
    <3>1. \A x \in Job, how \in {"submit", "recover"} : exec[<<x, how>>] \in {"posted", "running"} => x # j
      BY <1>3 DEF executing, untouched
    <3> QED BY <1>1, <1>5, <2>1, <2>3, <3>1 DEF ExecInv
  <2>10. FinalizeInv'
    <3>1. \A k \in DOMAIN control' : control'[k].op = "finalize" => control'[k].job # j
      BY <1>3, <1>5 DEF untouched, finalizing
    <3> QED BY <1>1, <1>5, <2>1, <2>3, <3>1 DEF FinalizeInv
  <2>11. CreateInv'
    BY <1>1, <1>4, <2>1, <2>2, <2>3 DEF CreateInv
  <2>12. FinalInv'
    BY <1>1, <1>3, <2>2, <2>3 DEF FinalInv, untouched, Final
  <2> QED BY <2>5, <2>6, <2>7, <2>8, <2>9, <2>10, <2>11, <2>12
<1> QED BY <1>8, <1>9

\* Every step of the control runner.
LEMMA ControlOne ==
  ASSUME IInv, OneInstance, ControlStep
  PROVE  OneInstance'
<1> USE DEF storeVars, callerVars, lifeVars, jobVars, controlVars, ioVars, runVars
<1>1. CASE AwaitCreated
  <2>1. /\ UNCHANGED <<row, start, ioAt, io, active, exec, crashes>>
        /\ control # << >> /\ Head(control).op = "submit" /\ endsControl
    BY <1>1 DEF AwaitCreated, controlRuns
  <2>2. start \notin {"no", "waiting"}
    BY <2>1, PlacesTyped DEF IInv, OneInstance, StartInv
  <2> QED BY <2>1, <2>2, ControlEndsOne
<1>2. CASE RunCancel \/ RunRegister \/ RunCancelAll
  <2>1. /\ UNCHANGED <<row, start, ioAt, io, active, exec, crashes, submit>>
        /\ control # << >> /\ endsControl
    BY <1>2 DEF RunCancel, RunRegister, RunCancelAll, controlRuns
  <2> QED BY <2>1, ControlEndsOne
<1> QED BY <1>1, <1>2, SubmitOne, FinalizeOne, CountOne, RecoverOne DEF ControlStep

-----------------------------------------------------------------------------
(* Steps of the IO runner.                                                 *)

\* While a closure other than Start's runs, no recovery is under way.
LEMMA NotStarting ==
  ASSUME TypeInv, OneInstance, 1 \in DOMAIN io, io[1].op # "start"
  PROVE  /\ io[1].job \in Job
         /\ start # "no" /\ ~early
         /\ ioAt.step \notin {"interrupted", "pending", "await"}
         /\ \A k \in DOMAIN control : control[k].op # "recover"
         /\ \A k \in DOMAIN io : io[k].op # "start"
<1> USE DEF OneInstance
<1>1. io[1].job \in Job
  BY PlacesTyped
<1>2. start # "no" /\ ioAt.step \notin {"interrupted", "pending", "await"}
  BY PlacesTyped DEF StartInv
<1>3. ~early
  BY <1>2 DEF early
<1>4. \A k \in DOMAIN control : control[k].op # "recover"
  BY <1>2 DEF RecoverInv
<1>5. \A k \in DOMAIN io : io[k].op # "start"
  BY DEF StartInv
<1> QED BY <1>1, <1>2, <1>3, <1>4, <1>5

\* A step of such a closure, which ends (d = 1) or goes on (d = 0), touches one job:
\* what has to hold of that job afterwards.
LEMMA WriterOne ==
  ASSUME IInv, OneInstance, 1 \in DOMAIN io, io[1].op # "start",
         NEW d \in {0, 1}, NEW j \in Job,
         UNCHANGED <<start, control, controlAt, submit>>,
         JobTypes',
         \A k \in DOMAIN io' : k \in Nat /\ k >= 1 /\ k + d \in DOMAIN io /\ io'[k] = io[k + d],
         ioAt'.step \in {"idle", "write", "written"},
         \A x \in Job \ {j} : row'[x] = row[x] /\ active'[x] = active[x],
         \A x \in Job \ {j}, how \in {"submit", "recover"} : exec'[<<x, how>>] = exec[<<x, how>>],
         \A how \in {"submit", "recover"} : exec'[<<j, how>>] \in {"posted", "running"} =>
           /\ active'[j] = <<j, how>> /\ row'[j] \notin Final
           /\ ~finalizing(j) /\ onlyRunning(j)'
           /\ exec'[<<j, how>>] = "posted" => row'[j] = "PENDING" /\ unqueued(j)',
         finalizing(j) => row'[j] \notin Final /\ active'[j] = active[j],
         \A k \in DOMAIN io' : io'[k].op = "create" /\ io'[k].job = j => active'[j] = <<j, "submit">>,
         ioAt'.step = "written" =>
           1 \in DOMAIN io' /\ io'[1].op = "create" /\ io'[1].job = j /\ row'[j] = "PENDING",
         row'[j] \in Final =>
           \A k \in DOMAIN io' : io'[k].job = j =>
             \/ io'[k].op = "create"
             \/ k = 1 /\ io'[k].op \in {"final", "missing"} /\ io'[k].arg = row'[j]
  PROVE  OneInstance'
<1> USE DEF OneInstance
<1>1. TypeInv /\ start # "no"
      /\ (\A k \in DOMAIN control : control[k].op # "recover")
      /\ (\A k \in DOMAIN io : io[k].op # "start")
  BY NotStarting DEF IInv
<1>2. /\ \A x : onlyRunning(x) => onlyRunning(x)'
      /\ \A x : unqueued(x) => unqueued(x)'
      /\ \A x : finalizing(x)' => finalizing(x)
  BY DEF onlyRunning, unqueued, finalizing
<1>3. StartInv' /\ EarlyInv' /\ RecoverInv'
  BY <1>1 DEF StartInv, EarlyInv, early, RecoverInv
<1>4. QueueInv'
  <2>1. CASE d = 0
    BY <2>1 DEF QueueInv
  <2>2. CASE d = 1
    BY <2>2 DEF QueueInv
  <2> QED BY <2>1, <2>2
<1>5. ExecInv'
  <2>1. ASSUME NEW x \in Job \ {j}, NEW how \in {"submit", "recover"},
               exec'[<<x, how>>] \in {"posted", "running"}
        PROVE  /\ active'[x] = <<x, how>> /\ row'[x] \notin Final /\ ~finalizing(x)' /\ onlyRunning(x)'
               /\ exec'[<<x, how>>] = "posted" => row'[x] = "PENDING" /\ unqueued(x)'
    <3>1. exec[<<x, how>>] \in {"posted", "running"} /\ exec'[<<x, how>>] = exec[<<x, how>>]
      BY <2>1
    <3>2. /\ active[x] = <<x, how>> /\ row[x] \notin Final /\ ~finalizing(x) /\ onlyRunning(x)
          /\ exec[<<x, how>>] = "posted" => row[x] = "PENDING" /\ unqueued(x)
      BY <3>1 DEF ExecInv
    <3> QED BY <1>2, <3>1, <3>2
  <2>2. ~finalizing(j) => ~finalizing(j)'
    BY <1>2
  <2> QED BY <2>1, <2>2 DEF ExecInv
<1>6. FinalizeInv'
  <2>1. \A k \in DOMAIN control : control[k].op = "finalize" =>
          /\ control[k].job \in Job
          /\ control[k].job = j => finalizing(j)
    BY <1>1, PlacesTyped DEF finalizing
  <2>2. \A k \in DOMAIN control : control[k].op = "finalize" =>
          row'[control[k].job] \notin Final /\ active'[control[k].job] = active[control[k].job]
    BY <2>1 DEF FinalizeInv
  <2> QED BY <1>2, <2>2 DEF FinalizeInv
<1>7. CreateInv'
  <2>1. ASSUME NEW k \in DOMAIN io', io'[k].op = "create"
        PROVE  active'[io'[k].job] = <<io'[k].job, "submit">>
    <3>1. PICK m \in DOMAIN io : io'[k] = io[m]
      BY <2>1
    <3>2. io[m].op = "create" /\ io[m].job \in Job /\ active[io[m].job] = <<io[m].job, "submit">>
      BY <1>1, <2>1, <3>1, PlacesTyped DEF CreateInv
    <3>3. CASE io[m].job = j
      BY <2>1, <3>1, <3>3
    <3>4. CASE io[m].job # j
      BY <3>1, <3>2, <3>4
    <3> QED BY <3>3, <3>4
  <2> QED BY <2>1 DEF CreateInv
<1>8. FinalInv'
  <2>1. ASSUME NEW x \in Job \ {j}, row'[x] \in Final, NEW k \in DOMAIN io', io'[k].job = x
        PROVE  \/ io'[k].op = "create"
               \/ k = 1 /\ io'[k].op \in {"final", "missing"} /\ io'[k].arg = row'[x]
    <3>1. CASE d = 0
      BY <2>1, <3>1 DEF FinalInv
    <3>2. CASE d = 1
      BY <2>1, <3>2 DEF FinalInv
    <3> QED BY <3>1, <3>2
  <2> QED BY <2>1 DEF FinalInv
<1> QED BY <1>3, <1>4, <1>5, <1>6, <1>7, <1>8

\* While a job is being created it is neither executed nor finalized, and there is
\* nothing behind its creation.
LEMMA CreatedAlone ==
  ASSUME TypeInv, OneInstance, 1 \in DOMAIN io, io[1].op = "create"
  PROVE  /\ io[1].job \in Job
         /\ ~executing(io[1].job) /\ ~finalizing(io[1].job)
         /\ active[io[1].job] = <<io[1].job, "submit">>
         /\ \A k \in DOMAIN io : k # 1 => io[k].job # io[1].job
<1> USE DEF OneInstance
<1>1. io[1].job \in Job
  BY PlacesTyped
<1>2. ~executing(io[1].job)
  BY <1>1 DEF ExecInv, executing, onlyRunning
<1>3. ~finalizing(io[1].job)
  BY DEF FinalizeInv, finalizing, onlyRunning
<1>4. active[io[1].job] = <<io[1].job, "submit">>
  BY DEF CreateInv
<1>5. \A k \in DOMAIN io : k # 1 => io[k].job # io[1].job
  BY PlacesTyped DEF QueueInv
<1> QED BY <1>1, <1>2, <1>3, <1>4, <1>5

\* The operations of a store change the row of one job at most.
LEMMA StoreWrites ==
  ASSUME NEW j, NEW s, NEW err, CreateJob(j, s, err) \/ SaveJob(j, s, err) \/ UpdateStatus(j, s, err)
  PROVE  row' = row \/ row' = [row EXCEPT ![j] = s]
BY DEF CreateJob, SaveJob, UpdateStatus, InsertJob, UpsertJob, UpdateJobStatus, LoadOrStore,
       LoadAndStore, executes, fails

\* The closure that creates a job goes on.
LEMMA CreateGoesOn ==
  ASSUME IInv, OneInstance, NEW j \in Job, 1 \in DOMAIN io, io[1].op = "create", io[1].job = j,
         UNCHANGED <<start, control, controlAt, submit, io, active, exec, crashes>>,
         row' = row \/ row' = [row EXCEPT ![j] = "PENDING"],
         ioAt'.step \in {"write", "written"},
         ioAt'.step = "written" => row'[j] = "PENDING"
  PROVE  OneInstance'
<1>1. TypeInv /\ ~executing(j) /\ ~finalizing(j)
  BY CreatedAlone DEF IInv
<1>2. /\ \A x \in Job \ {j} : row'[x] = row[x]
      /\ row'[j] = row[j] \/ row'[j] = "PENDING"
  BY <1>1 DEF TypeInv, Rows
<1>3. JobTypes'
  BY DEF OneInstance, JobTypes
<1>4. \A k \in DOMAIN io' : k \in Nat /\ k >= 1 /\ k + 0 \in DOMAIN io /\ io'[k] = io[k + 0]
  BY <1>1, PlacesTyped
<1>5. \A how \in {"submit", "recover"} : exec'[<<j, how>>] \notin {"posted", "running"}
  BY <1>1 DEF executing
<1>6. \A k \in DOMAIN io' : io'[k].op = "create" /\ io'[k].job = j => active'[j] = <<j, "submit">>
  BY DEF OneInstance, CreateInv
<1>7. row'[j] \in Final =>
        \A k \in DOMAIN io' : io'[k].job = j =>
          \/ io'[k].op = "create"
          \/ k = 1 /\ io'[k].op \in {"final", "missing"} /\ io'[k].arg = row'[j]
  BY <1>2 DEF OneInstance, FinalInv, Final
<1> QED
  BY <1>1, <1>2, <1>3, <1>4, <1>5, <1>6, <1>7, WriterOne

\* It ends without an execution: the job is no longer active.
LEMMA CreateFailsOne ==
  ASSUME IInv, OneInstance, NEW j \in Job, 1 \in DOMAIN io, io[1].op = "create", io[1].job = j,
         UNCHANGED <<start, control, controlAt, submit, exec, crashes>>,
         row' = row \/ row' = [row EXCEPT ![j] = "PENDING"],
         failsCreate(j)
  PROVE  OneInstance'
<1>1. /\ TypeInv /\ ~executing(j) /\ ~finalizing(j)
      /\ \A k \in DOMAIN io : k # 1 => io[k].job # j
  BY CreatedAlone DEF IInv
<1>2. io # << >> /\ io' = Tail(io) /\ ioAt'.step = "idle" /\ active' = [active EXCEPT ![j] = None]
  BY <1>1, PlacesTyped DEF failsCreate, endsIO, IdleIO
<1>3. \A k \in DOMAIN io' : k \in Nat /\ k >= 1 /\ k + 1 \in DOMAIN io /\ io'[k] = io[k + 1]
  BY <1>1, <1>2, IOMovesUp
<1>4. \A x \in Job \ {j} : row'[x] = row[x] /\ active'[x] = active[x]
  BY <1>1, <1>2 DEF TypeInv, Rows, OneInstance, JobTypes
<1>5. JobTypes'
  BY <1>2 DEF OneInstance, JobTypes
<1>6. \A how \in {"submit", "recover"} : exec'[<<j, how>>] \notin {"posted", "running"}
  BY <1>1 DEF executing
<1>7. \A k \in DOMAIN io' : io'[k].job # j
  BY <1>1, <1>3
<1>8. /\ io[1].op # "start"
      /\ ioAt'.step \in {"idle", "write", "written"} /\ ioAt'.step # "written"
      /\ finalizing(j) => row'[j] \notin Final /\ active'[j] = active[j]
      /\ \A x \in Job \ {j}, how \in {"submit", "recover"} : exec'[<<x, how>>] = exec[<<x, how>>]
  BY <1>1, <1>2
<1> QED
  BY <1>3, <1>4, <1>5, <1>6, <1>7, <1>8, WriterOne

\* It ends with a post to the execution runner.
LEMMA CreateEndsOne ==
  ASSUME IInv, OneInstance, CreateEnds
  PROVE  OneInstance'
<1> USE DEF storeVars, callerVars, lifeVars, jobVars, controlVars, ioVars, runVars
<1>1. TypeInv /\ io # << >> /\ Head(io).op = "create" /\ ioAt.step = "written"
  BY DEF IInv, CreateEnds, ioRuns
<1>2. PICK j \in Job : /\ 1 \in DOMAIN io /\ io[1].op = "create" /\ io[1].job = j /\ Head(io).job = j
                       /\ row[j] = "PENDING"
  BY <1>1, PlacesTyped DEF OneInstance, CreateInv
<1>3. UNCHANGED <<start, control, controlAt, submit, crashes, row>>
  BY DEF CreateEnds, ioUnchanged
<1>4. CASE contextDone(<<j, "submit">>)
  <2>1. failsCreate(j) /\ UNCHANGED exec
    BY <1>2, <1>4 DEF CreateEnds
  <2> QED BY <1>2, <1>3, <2>1, CreateFailsOne
<1>5. CASE ~contextDone(<<j, "submit">>)
  <2>1. /\ \E to \in {"posted", "dropped"} : exec' = [exec EXCEPT ![<<j, "submit">>] = to]
        /\ io' = Tail(io) /\ ioAt'.step = "idle" /\ UNCHANGED active
    BY <1>2, <1>5 DEF CreateEnds, schedules, endsIO, IdleIO
  <2>2. /\ ~executing(j) /\ ~finalizing(j) /\ active[j] = <<j, "submit">>
        /\ \A k \in DOMAIN io : k # 1 => io[k].job # j
    BY <1>1, <1>2, CreatedAlone
  <2>3. \A k \in DOMAIN io' : k \in Nat /\ k >= 1 /\ k + 1 \in DOMAIN io /\ io'[k] = io[k + 1]
    BY <1>1, <2>1, IOMovesUp
  <2>4. \A k \in DOMAIN io' : io'[k].job # j
    BY <2>2, <2>3
  <2>5. unqueued(j)' /\ onlyRunning(j)'
    BY <2>4 DEF unqueued, onlyRunning
  <2>6. JobTypes' /\ \A x \in Job \ {j}, how \in {"submit", "recover"} : exec'[<<x, how>>] = exec[<<x, how>>]
    BY <1>2, <1>3, <2>1 DEF OneInstance, JobTypes, Instance
  <2>7. exec'[<<j, "recover">>] \notin {"posted", "running"} /\ exec'[<<j, "submit">>] # "running"
    BY <1>2, <2>1, <2>2 DEF executing, OneInstance, JobTypes, Instance
  <2>8. row'[j] \notin Final
    BY <1>2, <1>3 DEF Final
  <2>9. \A how \in {"submit", "recover"} : exec'[<<j, how>>] \in {"posted", "running"} =>
          /\ active'[j] = <<j, how>> /\ row'[j] \notin Final
          /\ ~finalizing(j) /\ onlyRunning(j)'
          /\ exec'[<<j, how>>] = "posted" => row'[j] = "PENDING" /\ unqueued(j)'
    BY <1>2, <1>3, <2>1, <2>2, <2>5, <2>7, <2>8
  <2> QED
    BY <1>2, <1>3, <2>1, <2>2, <2>3, <2>4, <2>6, <2>8, <2>9, WriterOne
<1> QED BY <1>4, <1>5

\* The beginning of a creation and its attempts to write.
LEMMA CreateOne ==
  ASSUME IInv, OneInstance, CreateBegins \/ \E err \in Outcome : CreateAttempt(err)
  PROVE  OneInstance'
<1> USE DEF storeVars, callerVars, lifeVars, jobVars, controlVars, ioVars, runVars
<1>1. /\ TypeInv /\ io # << >> /\ Head(io).op = "create"
      /\ UNCHANGED <<start, control, controlAt, submit, exec, crashes>>
  BY DEF IInv, CreateBegins, CreateAttempt, ioRuns, ioUnchanged
<1>2. PICK j \in Job : 1 \in DOMAIN io /\ io[1].op = "create" /\ io[1].job = j /\ Head(io).job = j
  BY <1>1, PlacesTyped
<1>3. CASE CreateBegins
  <2>1. row' = row
    BY <1>3 DEF CreateBegins
  <2>2. CASE failsCreate(j)
    BY <1>1, <1>2, <2>1, <2>2, CreateFailsOne
  <2>3. CASE ioAt' = [ioAt EXCEPT !.step = "write"] /\ UNCHANGED <<active, io>>
    <3>1. ioAt'.step = "write"
      BY <1>1, <2>3 DEF TypeInv, IOState
    <3> QED BY <1>1, <1>2, <2>1, <2>3, <3>1, CreateGoesOn
  <2> QED BY <1>2, <1>3, <2>2, <2>3 DEF CreateBegins
<1>4. ASSUME NEW err \in Outcome, CreateAttempt(err) PROVE OneInstance'
  <2>1. row' = row \/ row' = [row EXCEPT ![j] = "PENDING"]
    BY <1>2, <1>4, StoreWrites DEF CreateAttempt
  <2>2. CASE failsCreate(j)
    BY <1>1, <1>2, <2>1, <2>2, CreateFailsOne
  <2>3. CASE retries("write") /\ UNCHANGED <<active, io>>
    <3>1. ioAt'.step = "write"
      BY <1>1, <2>3 DEF retries, TypeInv, IOState
    <3> QED BY <1>1, <1>2, <2>1, <2>3, <3>1, CreateGoesOn
  <2>4. CASE /\ err = "nil" /\ ioAt' = [ioAt EXCEPT !.step = "written"] /\ UNCHANGED <<active, io>>
             /\ CreateJob(j, "PENDING", err) \/ SaveJob(j, "PENDING", err)
    <3>1. ioAt'.step = "written"
      BY <1>1, <2>4 DEF TypeInv, IOState
    <3>2. row'[j] = "PENDING"
      BY <1>1, <1>2, <2>4 DEF CreateJob, SaveJob, InsertJob, UpsertJob, LoadOrStore, executes, fails,
                              TypeInv, Rows
    <3> QED BY <1>1, <1>2, <2>1, <2>4, <3>1, <3>2, CreateGoesOn
  <2> QED BY <1>2, <1>4, <2>2, <2>3, <2>4 DEF CreateAttempt
<1> QED BY <1>3, <1>4

\* The status updates: RUNNING comes before the job is finalized, and behind the
\* final status there is only a new submission.
LEMMA UpdateOne ==
  ASSUME IInv, OneInstance, NEW err \in Outcome, updateStatusIO(err)
  PROVE  OneInstance'
<1> USE DEF storeVars, callerVars, lifeVars, jobVars, controlVars, ioVars, runVars
<1>1. /\ TypeInv /\ io # << >> /\ Head(io).op \in {"running", "final", "missing"}
      /\ UNCHANGED <<start, control, controlAt, submit, active, exec, crashes>>
  BY DEF IInv, updateStatusIO, isUpdate, ioUnchanged
<1>2. PICK j \in Job :
        /\ 1 \in DOMAIN io /\ Head(io) = io[1] /\ io[1].job = j
        /\ io[1].op \in {"running", "final", "missing"}
        /\ io[1].op # "start"
  BY <1>1, PlacesTyped
<1>3. PICK s : s = statusOf(io[1]) /\ (row' = row \/ row' = [row EXCEPT ![j] = s])
  <2>1. row' = row \/ UpdateStatus(j, statusOf(io[1]), err)
    BY <1>2 DEF updateStatusIO
  <2> QED BY <2>1, StoreWrites
<1>4. /\ \A x \in Job \ {j} : row'[x] = row[x]
      /\ row'[j] = row[j] \/ row'[j] = s
  BY <1>1, <1>3 DEF TypeInv, Rows
<1>5. \E d \in {0, 1} :
        /\ \A k \in DOMAIN io' : k \in Nat /\ k >= 1 /\ k + d \in DOMAIN io /\ io'[k] = io[k + d]
        /\ ioAt'.step \in {"idle", "write"}
  <2>1. CASE endsUpdate
    <3>1. io' = Tail(io) /\ ioAt'.step = "idle"
      BY <2>1 DEF endsUpdate, endsIO, IdleIO
    <3> QED BY <1>1, <3>1, IOMovesUp
  <2>2. CASE retries("write") /\ UNCHANGED io
    <3>1. ioAt'.step = "write"
      BY <1>1, <2>2 DEF retries, TypeInv, IOState
    <3>2. \A k \in DOMAIN io' : k \in Nat /\ k >= 1 /\ k + 0 \in DOMAIN io /\ io'[k] = io[k + 0]
      BY <1>1, <2>2, PlacesTyped
    <3> QED BY <3>1, <3>2
  <2> QED BY <2>1, <2>2 DEF updateStatusIO
<1>6. PICK d \in {0, 1} :
        /\ \A k \in DOMAIN io' : k \in Nat /\ k >= 1 /\ k + d \in DOMAIN io /\ io'[k] = io[k + d]
        /\ ioAt'.step \in {"idle", "write"}
  BY <1>5
<1>7. JobTypes'
  BY <1>1 DEF OneInstance, JobTypes
<1>8. onlyRunning(j) => io[1].op = "running" /\ onlyRunning(j)'
  BY <1>2, <1>6 DEF onlyRunning
<1>9. io[1].op = "running" => row[j] \notin Final /\ row'[j] \notin Final
  <2>1. io[1].op = "running" => row[j] \notin Final
    BY <1>2 DEF OneInstance, FinalInv
  <2>2. io[1].op = "running" => s \notin Final
    BY <1>3 DEF statusOf, Final
  <2> QED BY <1>4, <2>1, <2>2
<1>10. \A how \in {"submit", "recover"} : exec'[<<j, how>>] \in {"posted", "running"} =>
         /\ active'[j] = <<j, how>> /\ row'[j] \notin Final
         /\ ~finalizing(j) /\ onlyRunning(j)'
         /\ exec'[<<j, how>>] = "posted" => row'[j] = "PENDING" /\ unqueued(j)'
  <2>1. ASSUME NEW how \in {"submit", "recover"}, exec[<<j, how>>] \in {"posted", "running"}
        PROVE  /\ active[j] = <<j, how>> /\ ~finalizing(j) /\ onlyRunning(j)
               /\ exec[<<j, how>>] # "posted"
    BY <1>2, <2>1 DEF OneInstance, ExecInv, unqueued
  <2> QED BY <1>1, <1>8, <1>9, <2>1
<1>11. finalizing(j) => row'[j] \notin Final /\ active'[j] = active[j]
  <2>1. finalizing(j) => onlyRunning(j)
    BY DEF OneInstance, FinalizeInv, finalizing
  <2> QED BY <1>1, <1>8, <1>9, <2>1
<1>12. \A k \in DOMAIN io' : io'[k].op = "create" /\ io'[k].job = j => active'[j] = <<j, "submit">>
  BY <1>1, <1>6 DEF OneInstance, CreateInv
<1>13. row'[j] \in Final =>
         \A k \in DOMAIN io' : io'[k].job = j =>
           \/ io'[k].op = "create"
           \/ k = 1 /\ io'[k].op \in {"final", "missing"} /\ io'[k].arg = row'[j]
  <2> SUFFICES ASSUME row'[j] \in Final, NEW k \in DOMAIN io', io'[k].job = j
               PROVE  \/ io'[k].op = "create"
                      \/ k = 1 /\ io'[k].op \in {"final", "missing"} /\ io'[k].arg = row'[j]
    OBVIOUS
  <2>1. io[1].op \in {"final", "missing"}
    BY <1>2, <1>9
  <2>2. CASE k + d = 1
    <3>1. k = 1 /\ io'[k] = io[1]
      BY <1>6, <2>2
    <3>2. row'[j] = io[1].arg
      BY <1>2, <1>3, <1>4, <2>1 DEF OneInstance, FinalInv, statusOf
    <3> QED BY <2>1, <3>1, <3>2
  <2>3. CASE k + d # 1
    <3>1. 1 < k + d /\ k + d \in DOMAIN io /\ io'[k] = io[k + d]
      BY <1>6, <2>3
    <3> QED BY <1>2, <2>1, <3>1 DEF OneInstance, QueueInv
  <2> QED BY <2>2, <2>3
<1>14. /\ \A x \in Job \ {j} : row'[x] = row[x] /\ active'[x] = active[x]
       /\ \A x \in Job \ {j}, how \in {"submit", "recover"} : exec'[<<x, how>>] = exec[<<x, how>>]
       /\ ioAt'.step \in {"idle", "write", "written"} /\ ioAt'.step # "written"
  BY <1>1, <1>4, <1>6
<1> QED
  BY <1>1, <1>2, <1>6, <1>7, <1>10, <1>11, <1>12, <1>13, <1>14, WriterOne

-----------------------------------------------------------------------------
(* Recovery.                                                               *)

\* While recovery is early, nothing has to do with any job.
LEMMA EarlyQuiet ==
  ASSUME TypeInv, OneInstance, early
  PROVE  /\ \A j \in Job : ~executing(j) /\ ~finalizing(j) /\ unqueued(j)
         /\ \A k \in DOMAIN control : control[k].op \notin {"finalize", "recover"}
         /\ \A k \in DOMAIN io : io[k].op = "start" /\ io[k].job \notin Job
         /\ controlAt # "removed"
<1> USE DEF OneInstance
<1>1. /\ \A j \in Job : ~executing(j)
      /\ \A k \in DOMAIN control : control[k].op \notin {"finalize", "recover"}
      /\ \A k \in DOMAIN io : io[k].op = "start"
  BY DEF EarlyInv
<1>2. \A k \in DOMAIN io : io[k].job \notin Job
  BY <1>1, PlacesTyped
<1>3. \A j \in Job : ~finalizing(j) /\ unqueued(j)
  BY <1>1, <1>2 DEF finalizing, unqueued
<1>4. controlAt # "removed"
  BY <1>1 DEF FinalizeInv
<1> QED BY <1>1, <1>2, <1>3, <1>4

\* A list of rows is read.
LEMMA ListsOne ==
  ASSUME IInv, OneInstance, early, 1 \in DOMAIN io, io[1].op = "start",
         UNCHANGED <<row, start, submit, control, controlAt, io, active, exec, crashes>>,
         \/ ioAt'.step = "interrupted" /\ ioAt'.todo = ListJobs("RUNNING")
         \/ ioAt'.step = "pending" /\ ioAt'.todo = GetRecoverableJobs
  PROVE  OneInstance'
<1> USE DEF OneInstance
<1>1. /\ TypeInv
      /\ \A j \in Job : ~executing(j) /\ ~finalizing(j) /\ unqueued(j)
      /\ \A k \in DOMAIN control : control[k].op \notin {"finalize", "recover"}
      /\ \A k \in DOMAIN io : io[k].op = "start" /\ io[k].job \notin Job
      /\ controlAt # "removed"
  BY EarlyQuiet DEF IInv
<1>2. /\ \A j \in Job : (executing(j)' => executing(j)) /\ (finalizing(j)' => finalizing(j))
      /\ \A j \in Job : (unqueued(j) => unqueued(j)')
  BY DEF executing, finalizing, unqueued
<1>3. JobTypes' /\ StartInv' /\ QueueInv' /\ FinalInv'
  BY DEF JobTypes, StartInv, QueueInv, FinalInv
<1>4. EarlyInv'
  BY <1>1, <1>2 DEF EarlyInv
<1>5. RecoverInv'
  <2>1. ioAt'.step = "pending" => \A j \in ioAt'.todo : untouched(j)'
    BY <1>1, <1>2 DEF GetRecoverableJobs, GetPendingJobs, untouched
  <2>2. ioAt'.step = "interrupted" => \A j \in ioAt'.todo : row'[j] \in {"RUNNING", "FAILED"}
    BY DEF ListJobs, ListJobsByStatus
  <2>3. ioAt'.step # "await"
    OBVIOUS
  <2> QED BY <1>1, <2>1, <2>2, <2>3 DEF RecoverInv
<1>6. ExecInv'
  BY <1>1, <1>2 DEF ExecInv, executing
<1>7. FinalizeInv' /\ CreateInv'
  BY <1>1 DEF FinalizeInv, CreateInv
<1> QED BY <1>3, <1>4, <1>5, <1>6, <1>7

\* Start returns.
LEMMA StartEndsOne ==
  ASSUME IInv, OneInstance, 1 \in DOMAIN io, io[1].op = "start",
         ioAt.step # "await",
         UNCHANGED <<row, submit, control, controlAt, active, exec, crashes>>,
         start' \in {"returned", "failed"}, endsIO
  PROVE  OneInstance'
<1> USE DEF OneInstance
<1>1. TypeInv /\ io # << >> /\ io' = Tail(io) /\ ioAt'.step = "idle"
  BY PlacesTyped DEF IInv, endsIO, IdleIO
<1>2. /\ \A k \in DOMAIN io' : k \in Nat /\ k >= 1 /\ k + 1 \in DOMAIN io /\ io'[k] = io[k + 1]
      /\ \A x : unqueued(x) => unqueued(x)'
      /\ \A x : onlyRunning(x) => onlyRunning(x)'
  BY <1>1, IOMovesUp
<1>3. \A k \in DOMAIN io' : io'[k].op # "start"
  BY <1>2 DEF StartInv
<1>4. \A k \in DOMAIN control : control[k].op # "recover"
  BY DEF RecoverInv
<1>5. \A x : (executing(x)' => executing(x)) /\ (finalizing(x)' => finalizing(x))
  BY DEF executing, finalizing
<1>6. JobTypes' /\ StartInv' /\ EarlyInv' /\ RecoverInv'
  BY <1>1, <1>3, <1>4 DEF JobTypes, StartInv, EarlyInv, early, RecoverInv
<1>7. QueueInv'
  BY <1>2 DEF QueueInv
<1>8. ExecInv'
  BY <1>2, <1>5 DEF ExecInv
<1>9. FinalizeInv'
  BY <1>2 DEF FinalizeInv
<1>10. CreateInv'
  BY <1>1, <1>2 DEF CreateInv
<1>11. FinalInv'
  BY <1>2 DEF FinalInv
<1> QED BY <1>6, <1>7, <1>8, <1>9, <1>10, <1>11

\* doRecoveryIO between its loops.
LEMMA ListRowsOne ==
  ASSUME IInv, OneInstance, ListRows
  PROVE  OneInstance'
<1> USE DEF storeVars, callerVars, lifeVars, jobVars, controlVars, ioVars, runVars
<1>1. /\ UNCHANGED <<row, submit, control, controlAt, active, exec, crashes>>
      /\ io # << >> /\ Head(io).op = "start" /\ ioAt.step \in {"idle", "interrupted", "pending"}
  BY DEF ListRows, ioRuns, ioUnchanged
<1>2. 1 \in DOMAIN io /\ io[1].op = "start"
  BY <1>1, PlacesTyped DEF IInv
<1>3. \/ /\ ioAt.step \in {"idle", "interrupted"} /\ UNCHANGED <<start, io>>
         /\ \/ ioAt'.step = "interrupted" /\ ioAt'.todo = ListJobs("RUNNING")
            \/ ioAt'.step = "pending" /\ ioAt'.todo = GetRecoverableJobs
      \/ start' \in {"returned", "failed"} /\ endsIO
  BY DEF ListRows, ioRuns, lists, endsStart
<1>4. CASE start' \in {"returned", "failed"} /\ endsIO
  <2>1. ioAt.step # "await"
    BY <1>1
  <2> QED BY <1>1, <1>2, <1>4, <2>1, StartEndsOne
<1>5. CASE /\ ioAt.step \in {"idle", "interrupted"} /\ UNCHANGED <<start, io>>
           /\ \/ ioAt'.step = "interrupted" /\ ioAt'.todo = ListJobs("RUNNING")
              \/ ioAt'.step = "pending" /\ ioAt'.todo = GetRecoverableJobs
  <2>1. early
    BY <1>2, <1>5 DEF early
  <2> QED BY <1>1, <1>2, <1>5, <2>1, ListsOne
<1> QED BY <1>3, <1>4, <1>5

\* A job that was running when the process died is marked as failed.
LEMMA MarkOne ==
  ASSUME IInv, OneInstance, NEW err \in Outcome, MarkInterrupted(err)
  PROVE  OneInstance'
<1> USE DEF storeVars, callerVars, lifeVars, jobVars, controlVars, ioVars, runVars, OneInstance
<1>1. /\ UNCHANGED <<start, submit, control, controlAt, io, active, exec, crashes>>
      /\ io # << >> /\ Head(io).op = "start" /\ ioAt.step = "interrupted" /\ ioAt.todo # {}
  BY DEF MarkInterrupted, ioRuns, ioUnchanged
<1>2. TypeInv /\ 1 \in DOMAIN io /\ io[1].op = "start" /\ early
  BY <1>1, PlacesTyped DEF IInv, early
<1>3. PICK j \in Job : j \in ioAt.todo /\ j = nextRow
  BY <1>1, <1>2 DEF nextRow, TypeInv, IOState
<1>4. row' = row \/ row' = [row EXCEPT ![j] = "FAILED"]
  <2>1. UpdateStatus(j, "FAILED", err)
    BY <1>3 DEF MarkInterrupted
  <2> QED BY <2>1, StoreWrites
<1>5. ioAt'.step = "interrupted" /\ ioAt'.todo \subseteq ioAt.todo
  <2>1. rowDone("interrupted") \/ retries("interrupted")
    BY DEF MarkInterrupted
  <2>2. CASE rowDone("interrupted")
    BY <2>2 DEF rowDone
  <2>3. CASE retries("interrupted")
    BY <1>2, <2>3 DEF retries, TypeInv, IOState
  <2> QED BY <2>1, <2>2, <2>3
<1>6. /\ \A x \in Job : ~executing(x) /\ ~finalizing(x) /\ unqueued(x)
      /\ \A k \in DOMAIN control : control[k].op \notin {"finalize", "recover"}
      /\ \A k \in DOMAIN io : io[k].op = "start" /\ io[k].job \notin Job
      /\ controlAt # "removed"
  BY <1>2, EarlyQuiet
<1>7. \A x \in Job : ~executing(x)'
  BY <1>1, <1>6 DEF executing
<1>8. JobTypes' /\ StartInv' /\ QueueInv'
  BY <1>1, <1>2, <1>5 DEF JobTypes, StartInv, QueueInv
<1>9. EarlyInv'
  BY <1>1, <1>6, <1>7 DEF EarlyInv
<1>10. RecoverInv'
  <2>1. \A x \in ioAt'.todo : row'[x] \in {"RUNNING", "FAILED"}
    BY <1>1, <1>2, <1>4, <1>5 DEF RecoverInv, TypeInv, Rows, IOState
  <2> QED BY <1>1, <1>5, <1>6, <2>1 DEF RecoverInv
<1>11. ExecInv'
  BY <1>7 DEF ExecInv, executing
<1>12. FinalizeInv' /\ CreateInv' /\ FinalInv'
  BY <1>1, <1>5, <1>6 DEF FinalizeInv, CreateInv, FinalInv
<1> QED BY <1>8, <1>9, <1>10, <1>11, <1>12

\* A pending job is handed to the control runner.
LEMMA RecoverNextOne ==
  ASSUME IInv, OneInstance, RecoverNext
  PROVE  OneInstance'
<1> USE DEF storeVars, callerVars, lifeVars, jobVars, controlVars, ioVars, runVars, OneInstance
<1>1. /\ UNCHANGED <<row, start, submit, controlAt, io, active, exec, crashes>>
      /\ io # << >> /\ Head(io).op = "start" /\ ioAt.step = "pending" /\ ioAt.todo # {}
      /\ ioAt' = [step |-> "await", left |-> 0, todo |-> ioAt.todo \ {nextRow}]
  BY DEF RecoverNext, ioRuns, ioUnchanged, rowDone
<1>2. TypeInv /\ 1 \in DOMAIN io /\ io[1].op = "start" /\ start = "waiting"
  BY <1>1, PlacesTyped DEF IInv, StartInv
<1>3. PICK j \in Job : j \in ioAt.todo /\ j = nextRow
  BY <1>1, <1>2 DEF nextRow, TypeInv, IOState
<1>4. PICK c \in ControlCall : toControl(c) /\ c.op = "recover" /\ c.job = j
  BY <1>3, Calls DEF RecoverNext, call
<1>5. /\ \A k \in DOMAIN control : k \in DOMAIN control' /\ control'[k] = control[k]
      /\ \A k \in DOMAIN control' :
           /\ k \in Nat /\ k >= 1
           /\ k \in DOMAIN control \/ (control'[k] = c /\ \A m \in DOMAIN control : m < k)
      /\ \A x : finalizing(x)' => finalizing(x)
  BY <1>2, <1>4, ControlPosted
<1>6. \A k \in DOMAIN control : control[k].op # "recover"
  BY <1>1 DEF RecoverInv
<1>7. \A x : untouched(x) => untouched(x)'
  <2>1. \A x : (executing(x)' => executing(x)) /\ (unqueued(x) => unqueued(x)')
    BY <1>1 DEF executing, unqueued
  <2> QED BY <1>1, <1>5, <2>1 DEF untouched
<1>8. ~early'
  BY <1>1, <1>2 DEF early
<1>9. JobTypes' /\ QueueInv' /\ FinalInv'
  BY <1>1 DEF JobTypes, QueueInv, FinalInv
<1>10. StartInv'
  BY <1>1, <1>2, <1>4, <1>5 DEF StartInv
<1>11. EarlyInv'
  BY <1>8 DEF EarlyInv
<1>12. RecoverInv'
  <2>1. ioAt'.step = "await" /\ j \notin ioAt'.todo /\ ioAt'.todo \subseteq ioAt.todo
    BY <1>1, <1>3
  <2>2. \A x \in ioAt.todo : untouched(x)'
    BY <1>1, <1>7 DEF RecoverInv
  <2>3. \A k \in DOMAIN control' : control'[k].op = "recover" =>
          control'[k] = c /\ k \notin DOMAIN control
    BY <1>5, <1>6
  <2>4. \A k, m \in DOMAIN control' : k \notin DOMAIN control /\ m \notin DOMAIN control => m = k
    BY <1>2, <1>4, PostedIs DEF toControl, TypeInv
  <2> QED BY <1>3, <1>4, <2>1, <2>2, <2>3, <2>4 DEF RecoverInv
<1>13. ExecInv'
  <2>1. \A x : onlyRunning(x) => onlyRunning(x)'
    BY <1>1 DEF onlyRunning
  <2>2. \A x : unqueued(x) => unqueued(x)'
    BY <1>1 DEF unqueued
  <2> QED BY <1>1, <1>5, <2>1, <2>2 DEF ExecInv
<1>14. FinalizeInv'
  <2>1. \A x : onlyRunning(x) => onlyRunning(x)'
    BY <1>1 DEF onlyRunning
  <2> QED BY <1>1, <1>4, <1>5, <2>1 DEF FinalizeInv
<1>15. CreateInv'
  BY <1>1 DEF CreateInv
<1> QED BY <1>9, <1>10, <1>11, <1>12, <1>13, <1>14, <1>15

\* Every step of the IO runner.
LEMMA IOOne ==
  ASSUME IInv, OneInstance, IOStep
  PROVE  OneInstance'
BY CreateOne, CreateEndsOne, UpdateOne, ListRowsOne, MarkOne, RecoverNextOne DEF IOStep

-----------------------------------------------------------------------------
(* Executions, the end of the runners, and a crash.                        *)

\* The instance that is executed is the only one of its job.
LEMMA OnlyExecuting ==
  ASSUME OneInstance, NEW j \in Job, NEW how \in {"submit", "recover"},
         exec[<<j, how>>] \in {"posted", "running"}
  PROVE  /\ executing(j) /\ ~early /\ ~finalizing(j) /\ onlyRunning(j) /\ row[j] \notin Final
         /\ active[j] = <<j, how>>
         /\ \A h \in {"submit", "recover"} : exec[<<j, h>>] \in {"posted", "running"} => h = how
         /\ exec[<<j, how>>] = "posted" => row[j] = "PENDING" /\ unqueued(j)
<1> USE DEF OneInstance
<1>1. executing(j)
  BY DEF executing
<1>2. ~early
  BY <1>1 DEF EarlyInv
<1>3. \A h \in {"submit", "recover"} : exec[<<j, h>>] \in {"posted", "running"} => active[j] = <<j, h>>
  BY DEF ExecInv
<1>4. /\ ~finalizing(j) /\ onlyRunning(j) /\ row[j] \notin Final
      /\ exec[<<j, how>>] = "posted" => row[j] = "PENDING" /\ unqueued(j)
  BY DEF ExecInv
<1> QED BY <1>1, <1>2, <1>3, <1>4

\* An execution that begins posts RUNNING.
LEMMA RunsOne ==
  ASSUME IInv, OneInstance, NEW j \in Job, NEW how \in {"submit", "recover"},
         exec[<<j, how>>] = "posted",
         exec' = [exec EXCEPT ![<<j, how>>] = "running"],
         toIO(call("running", j, how)),
         UNCHANGED <<row, start, submit, control, controlAt, ioAt, active, crashes>>
  PROVE  OneInstance'
<1> USE DEF OneInstance
<1>1. /\ executing(j) /\ ~early /\ ~finalizing(j) /\ onlyRunning(j) /\ row[j] \notin Final
      /\ active[j] = <<j, how>> /\ unqueued(j)
      /\ \A h \in {"submit", "recover"} : exec[<<j, h>>] \in {"posted", "running"} => h = how
  BY OnlyExecuting
<1>2. PICK c \in IOCall : toIO(c) /\ c.op = "running" /\ c.job = j
  BY Calls DEF call
<1>3. TypeInv
  BY DEF IInv
<1>4. /\ \A k \in DOMAIN io : k \in DOMAIN io' /\ io'[k] = io[k]
      /\ \A k \in DOMAIN io' : k \in DOMAIN io \/ io'[k] = c
      /\ \A k, m \in DOMAIN io' : k < m => k \in DOMAIN io
      /\ \A x : unqueued(x) /\ j # x => unqueued(x)'
      /\ \A x : onlyRunning(x) => onlyRunning(x)'
  BY <1>2, <1>3, IOPosted
<1>5. /\ \A x \in Job, h \in {"submit", "recover"} : exec'[<<x, h>>] = exec[<<x, h>>] \/ (x = j /\ h = how)
      /\ exec'[<<j, how>>] = "running"
      /\ JobTypes'
  BY DEF JobTypes, Instance
<1>6. \A x : finalizing(x)' => finalizing(x)
  BY DEF finalizing
<1>7. \A x \in Job \ {j} : executing(x)' => executing(x)
  BY <1>5 DEF executing
<1>8. ~early'
  BY <1>1, <1>2, <1>4 DEF early
<1>9. StartInv'
  BY <1>1, <1>2, <1>4 DEF StartInv, early
<1>10. EarlyInv'
  BY <1>8 DEF EarlyInv
<1>11. RecoverInv'
  <2>1. \A x \in Job : untouched(x) => x # j /\ untouched(x)'
    BY <1>1, <1>4, <1>6, <1>7 DEF untouched
  <2>2. ioAt.todo \subseteq Job /\ \A k \in DOMAIN control : control[k].op = "recover" => control[k].job \in Job
    BY <1>3, PlacesTyped DEF TypeInv, IOState
  <2> QED BY <2>1, <2>2 DEF RecoverInv
<1>12. QueueInv'
  <2>1. ASSUME NEW k \in DOMAIN io', NEW m \in DOMAIN io', k < m, io'[k].job = io'[m].job
        PROVE  \/ io'[k].op \in {"running", "start"}
               \/ io'[k].op \in {"final", "missing"} /\ io'[m].op = "create"
    <3>1. k \in DOMAIN io /\ io'[k] = io[k]
      BY <1>4, <2>1
    <3>2. CASE m \in DOMAIN io
      BY <1>4, <2>1, <3>1, <3>2 DEF QueueInv
    <3>3. CASE m \notin DOMAIN io
      BY <1>1, <1>2, <1>4, <2>1, <3>1, <3>3 DEF unqueued
    <3> QED BY <3>2, <3>3
  <2> QED BY <2>1 DEF QueueInv
<1>13. ExecInv'
  <2>1. ASSUME NEW x \in Job \ {j}, NEW h \in {"submit", "recover"},
               exec'[<<x, h>>] \in {"posted", "running"}
        PROVE  /\ active'[x] = <<x, h>> /\ row'[x] \notin Final /\ ~finalizing(x)' /\ onlyRunning(x)'
               /\ exec'[<<x, h>>] = "posted" => row'[x] = "PENDING" /\ unqueued(x)'
    <3>1. exec[<<x, h>>] \in {"posted", "running"} /\ exec'[<<x, h>>] = exec[<<x, h>>]
      BY <1>5, <2>1
    <3>2. /\ active[x] = <<x, h>> /\ row[x] \notin Final /\ ~finalizing(x) /\ onlyRunning(x)
          /\ exec[<<x, h>>] = "posted" => row[x] = "PENDING" /\ unqueued(x)
      BY <3>1 DEF ExecInv
    <3> QED BY <1>4, <1>6, <3>1, <3>2
  <2>2. /\ active'[j] = <<j, how>> /\ row'[j] \notin Final /\ ~finalizing(j)' /\ onlyRunning(j)'
    BY <1>1, <1>4, <1>6
  <2>3. \A h \in {"submit", "recover"} :
          exec'[<<j, h>>] \in {"posted", "running"} => h = how /\ exec'[<<j, h>>] # "posted"
    BY <1>1, <1>5
  <2> QED BY <2>1, <2>2, <2>3 DEF ExecInv
<1>14. FinalizeInv'
  BY <1>4 DEF FinalizeInv
<1>15. CreateInv'
  BY <1>2, <1>4 DEF CreateInv
<1>16. FinalInv'
  BY <1>1, <1>2, <1>4 DEF FinalInv
<1> QED BY <1>5, <1>9, <1>10, <1>11, <1>12, <1>13, <1>14, <1>15, <1>16

\* An execution that ends posts its finalization, the first for the instance.
LEMMA EndsOne ==
  ASSUME IInv, OneInstance, NEW j \in Job, NEW how \in {"submit", "recover"}, NEW s \in Final,
         exec[<<j, how>>] \in {"posted", "running"},
         exec' = [exec EXCEPT ![<<j, how>>] = "ended"],
         toControl(call("finalize", j, s)),
         UNCHANGED <<row, start, submit, controlAt, io, ioAt, active, crashes>>
  PROVE  OneInstance'
<1> USE DEF OneInstance
<1>1. /\ executing(j) /\ ~early /\ ~finalizing(j) /\ onlyRunning(j) /\ row[j] \notin Final
      /\ active[j] = <<j, how>>
      /\ \A h \in {"submit", "recover"} : exec[<<j, h>>] \in {"posted", "running"} => h = how
  BY OnlyExecuting
<1>2. PICK c \in ControlCall : toControl(c) /\ c.op = "finalize" /\ c.job = j
  <2>1. call("finalize", j, s) \in ControlCall
    BY DEF call, ControlCall
  <2> QED BY <2>1 DEF call
<1>3. TypeInv /\ active[j] # None
  BY <1>1, NoneAssumption DEF IInv, Instance
<1>4. /\ \A k \in DOMAIN control : k \in DOMAIN control' /\ control'[k] = control[k]
      /\ \A k \in DOMAIN control' :
           /\ k \in Nat /\ k >= 1
           /\ k \in DOMAIN control \/ (control'[k] = c /\ \A m \in DOMAIN control : m < k)
      /\ \A x : finalizing(x)' => finalizing(x) \/ x = j
  BY <1>2, <1>3, ControlPosted
<1>5. /\ \A x \in Job, h \in {"submit", "recover"} : exec'[<<x, h>>] = exec[<<x, h>>] \/ (x = j /\ h = how)
      /\ exec'[<<j, how>>] = "ended"
      /\ JobTypes'
  BY DEF JobTypes, Instance
<1>6. \A x : (onlyRunning(x) => onlyRunning(x)') /\ (unqueued(x) => unqueued(x)')
  BY DEF onlyRunning, unqueued
<1>7. \A x \in Job : executing(x)' => executing(x)
  BY <1>1, <1>5 DEF executing
<1>8. ~early'
  BY <1>1 DEF early
<1>9. StartInv'
  BY <1>2, <1>4 DEF StartInv
<1>10. EarlyInv' /\ QueueInv' /\ CreateInv' /\ FinalInv'
  BY <1>8 DEF EarlyInv, QueueInv, CreateInv, FinalInv
<1>11. RecoverInv'
  <2>1. \A x \in Job : untouched(x) => x # j /\ untouched(x)'
    BY <1>1, <1>4, <1>6, <1>7 DEF untouched
  <2>2. ioAt.todo \subseteq Job /\ \A k \in DOMAIN control : control[k].op = "recover" => control[k].job \in Job
    BY <1>3, PlacesTyped DEF TypeInv, IOState
  <2>3. \A k \in DOMAIN control' : control'[k].op = "recover" => k \in DOMAIN control /\ control'[k] = control[k]
    BY <1>2, <1>4
  <2> QED BY <2>1, <2>2, <2>3 DEF RecoverInv
<1>12. ExecInv'
  <2>1. ASSUME NEW x \in Job, NEW h \in {"submit", "recover"},
               exec'[<<x, h>>] \in {"posted", "running"}
        PROVE  /\ active'[x] = <<x, h>> /\ row'[x] \notin Final /\ ~finalizing(x)' /\ onlyRunning(x)'
               /\ exec'[<<x, h>>] = "posted" => row'[x] = "PENDING" /\ unqueued(x)'
    <3>1. exec[<<x, h>>] \in {"posted", "running"} /\ exec'[<<x, h>>] = exec[<<x, h>>] /\ x # j
      BY <1>1, <1>5, <2>1
    <3>2. /\ active[x] = <<x, h>> /\ row[x] \notin Final /\ ~finalizing(x) /\ onlyRunning(x)
          /\ exec[<<x, h>>] = "posted" => row[x] = "PENDING" /\ unqueued(x)
      BY <3>1 DEF ExecInv
    <3> QED BY <1>4, <1>6, <3>1, <3>2
  <2> QED BY <2>1 DEF ExecInv
<1>13. FinalizeInv'
  <2>1. \A k \in DOMAIN control : control[k].op = "finalize" => control[k].job # j
    BY <1>1 DEF finalizing
  <2>2. controlAt = "removed" => 1 \in DOMAIN control
    BY DEF FinalizeInv
  <2>3. ASSUME NEW k \in DOMAIN control', k \notin DOMAIN control
        PROVE  /\ control'[k] = c /\ ~(k = 1 /\ controlAt = "removed")
               /\ \A m \in DOMAIN control' : m \notin DOMAIN control => m = k
    <3>1. control'[k] = c /\ ~(k = 1 /\ controlAt = "removed")
      BY <1>4, <2>2, <2>3
    <3>2. \A m \in DOMAIN control' : m \notin DOMAIN control => m = k
      BY <1>2, <1>3, <2>3, PostedIs DEF toControl, TypeInv
    <3> QED BY <3>1, <3>2
  <2>4. ASSUME NEW k \in DOMAIN control', k \notin DOMAIN control
        PROVE  /\ row'[control'[k].job] \notin Final /\ onlyRunning(control[k].job)'
               /\ k = 1 /\ controlAt' = "removed" <=> active'[control'[k].job] = None
               /\ \A m \in DOMAIN control' :
                    control'[m].op = "finalize" /\ control'[m].job = control'[k].job => m = k
    <3>1. control'[k].job = j
      BY <1>2, <2>3, <2>4
    <3>2. \A m \in DOMAIN control' :
            control'[m].op = "finalize" /\ control'[m].job = j => m = k
      BY <1>4, <2>1, <2>3, <2>4
    <3>3. onlyRunning(j)'
      BY <1>1, <1>6
    <3>4. onlyRunning(control[k].job)'
      BY <3>1, <3>3 DEF onlyRunning
    <3> QED BY <1>1, <1>3, <2>3, <2>4, <3>1, <3>2, <3>4
  <2>5. ASSUME NEW k \in DOMAIN control, control[k].op = "finalize"
        PROVE  /\ row'[control'[k].job] \notin Final /\ onlyRunning(control[k].job)'
               /\ k = 1 /\ controlAt' = "removed" <=> active'[control'[k].job] = None
               /\ \A m \in DOMAIN control' :
                    control'[m].op = "finalize" /\ control'[m].job = control'[k].job => m = k
    <3>1. control'[k] = control[k] /\ control[k].job # j
      BY <1>4, <2>1, <2>5
    <3>2. /\ row[control[k].job] \notin Final /\ onlyRunning(control[k].job)
          /\ k = 1 /\ controlAt = "removed" <=> active[control[k].job] = None
          /\ \A m \in DOMAIN control :
               control[m].op = "finalize" /\ control[m].job = control[k].job => m = k
      BY <2>5 DEF FinalizeInv
    <3>3. onlyRunning(control[k].job)'
      BY <3>1, <3>2 DEF onlyRunning
    <3>4. \A m \in DOMAIN control' :
            control'[m].op = "finalize" /\ control'[m].job = control'[k].job => m = k
      BY <1>2, <1>4, <3>1, <3>2
    <3> QED BY <3>1, <3>2, <3>3, <3>4
  <2>6. controlAt' = "removed" => 1 \in DOMAIN control' /\ control'[1].op = "finalize"
    BY <1>4 DEF FinalizeInv
  <2>7. \A k \in DOMAIN control' : k \in DOMAIN control => control'[k] = control[k]
    BY <1>4
  <2> QED BY <2>4, <2>5, <2>6, <2>7 DEF FinalizeInv
<1> QED BY <1>5, <1>9, <1>10, <1>11, <1>12, <1>13

\* The steps of an execution.
LEMMA ExecOne ==
  ASSUME IInv, OneInstance, NEW i \in Instance, ExecStart(i) \/ ExecEnd(i)
  PROVE  OneInstance'
<1> USE DEF storeVars, callerVars, lifeVars, jobVars, controlVars, ioVars, runVars
<1>1. PICK j \in Job, how \in {"submit", "recover"} : i = <<j, how>> /\ i[1] = j /\ i[2] = how
  BY DEF Instance
<1>2. UNCHANGED <<row, start, submit, controlAt, ioAt, active, crashes>>
  BY DEF ExecStart, ExecEnd
<1>3. CASE ExecStart(i) /\ ~contextDone(i)
  <2>1. /\ exec[i] = "posted" /\ exec' = [exec EXCEPT ![i] = "running"]
        /\ toIO(call("running", j, how)) /\ UNCHANGED control
    BY <1>1, <1>3 DEF ExecStart
  <2> QED BY <1>1, <1>2, <2>1, RunsOne
<1>4. CASE ExecStart(i) /\ contextDone(i)
  <2>1. /\ exec[i] = "posted" /\ exec' = [exec EXCEPT ![i] = "ended"]
        /\ toControl(call("finalize", j, "CANCELED")) /\ UNCHANGED io
    BY <1>1, <1>4 DEF ExecStart
  <2>2. "CANCELED" \in Final
    BY DEF Final
  <2> QED BY <1>1, <1>2, <2>1, <2>2, EndsOne
<1>5. CASE ExecEnd(i)
  <2>1. /\ exec[i] = "running" /\ exec' = [exec EXCEPT ![i] = "ended"]
        /\ \E s \in Final : toControl(call("finalize", j, s))
        /\ UNCHANGED io
    BY <1>1, <1>5 DEF ExecEnd, Final
  <2> QED BY <1>1, <1>2, <2>1, EndsOne
<1> QED BY <1>3, <1>4, <1>5

\* A runner that is closed drops closures or executions, never one that it is in.
LEMMA CloseOne ==
  ASSUME IInv, OneInstance, CloseRunners
  PROVE  OneInstance'
<1> USE DEF storeVars, callerVars, lifeVars, jobVars, controlVars, ioVars, runVars, OneInstance
<1>1. UNCHANGED <<row, start, submit, controlAt, ioAt, active, crashes>>
  BY DEF CloseRunners
<1>2. TypeInv
  BY DEF IInv
<1>3. /\ \A k \in DOMAIN control' : k \in DOMAIN control /\ control'[k] = control[k]
      /\ controlAt = "removed" /\ 1 \in DOMAIN control => 1 \in DOMAIN control' /\ control'[1] = control[1]
  <2> DEFINE busy == controlAt # "idle"
  <2>1. control' = control \/ control' = kept(control, busy)
    BY DEF CloseRunners
  <2>2. /\ \A k \in DOMAIN kept(control, busy) :
             k = 1 /\ 1 \in DOMAIN control /\ kept(control, busy)[k] = control[1]
        /\ busy /\ 1 \in DOMAIN control =>
             1 \in DOMAIN kept(control, busy) /\ kept(control, busy)[1] = control[1]
    <3>1. control \in Seq(ControlCall) /\ busy \in BOOLEAN
      BY <1>2 DEF TypeInv
    <3> HIDE DEF busy
    <3> QED BY <3>1, KeptIs
  <2>3. controlAt = "removed" => busy
    OBVIOUS
  <2> HIDE DEF busy
  <2> QED BY <2>1, <2>2, <2>3
<1>4. /\ \A k \in DOMAIN io' : k \in DOMAIN io /\ io'[k] = io[k]
      /\ ioAt.step # "idle" /\ 1 \in DOMAIN io => 1 \in DOMAIN io' /\ io'[1] = io[1]
      /\ io = << >> => io' = << >>
  <2> DEFINE busy == ioAt.step # "idle"
  <2>1. io' = io \/ io' = kept(io, busy)
    BY DEF CloseRunners
  <2>2. /\ \A k \in DOMAIN kept(io, busy) : k = 1 /\ 1 \in DOMAIN io /\ kept(io, busy)[k] = io[1]
        /\ busy /\ 1 \in DOMAIN io => 1 \in DOMAIN kept(io, busy) /\ kept(io, busy)[1] = io[1]
    <3>1. io \in Seq(IOCall) /\ busy \in BOOLEAN
      BY <1>2 DEF TypeInv
    <3> HIDE DEF busy
    <3> QED BY <3>1, KeptIs
  <2>3. io = << >> => kept(io, busy) = << >>
    BY DEF kept
  <2> HIDE DEF busy
  <2>4. \A k \in DOMAIN io' : k \in DOMAIN io /\ io'[k] = io[k]
    BY <2>1, <2>2
  <2>5. busy /\ 1 \in DOMAIN io => 1 \in DOMAIN io' /\ io'[1] = io[1]
    BY <2>1, <2>2
  <2>6. io = << >> => io' = << >>
    BY <2>1, <2>3
  <2> QED BY <2>4, <2>5, <2>6 DEF busy
<1>5. /\ JobTypes'
      /\ \A i \in Instance : exec'[i] \in {"posted", "running"} => exec'[i] = exec[i]
  <2>1. exec' = exec \/ exec' = [i \in Instance |-> IF exec[i] = "posted" THEN "dropped" ELSE exec[i]]
    BY DEF CloseRunners
  <2> QED BY <1>1, <2>1 DEF JobTypes
<1>6. /\ \A x : unqueued(x) => unqueued(x)'
      /\ \A x : onlyRunning(x) => onlyRunning(x)'
  BY <1>4 DEF unqueued, onlyRunning
<1>7. \A x : finalizing(x)' => finalizing(x)
  BY <1>3 DEF finalizing
<1>8. \A x \in Job : executing(x)' => executing(x)
  BY <1>5 DEF executing, Instance
<1>9. StartInv'
  BY <1>1, <1>3, <1>4 DEF StartInv
<1>10. EarlyInv'
  <2>1. early' => early
    BY <1>1, <1>4 DEF early
  <2> QED BY <1>3, <1>4, <1>8, <2>1 DEF EarlyInv
<1>11. RecoverInv'
  <2>1. \A x \in Job : untouched(x) => untouched(x)'
    BY <1>1, <1>6, <1>7, <1>8 DEF untouched
  <2>2. ioAt.todo \subseteq Job /\ \A k \in DOMAIN control : control[k].op = "recover" => control[k].job \in Job
    BY <1>2, PlacesTyped DEF TypeInv, IOState
  <2> QED BY <1>1, <1>3, <2>1, <2>2 DEF RecoverInv
<1>12. QueueInv'
  BY <1>4 DEF QueueInv
<1>13. ExecInv'
  <2>1. ASSUME NEW x \in Job, NEW h \in {"submit", "recover"},
               exec'[<<x, h>>] \in {"posted", "running"}
        PROVE  /\ active'[x] = <<x, h>> /\ row'[x] \notin Final /\ ~finalizing(x)' /\ onlyRunning(x)'
               /\ exec'[<<x, h>>] = "posted" => row'[x] = "PENDING" /\ unqueued(x)'
    <3>1. exec[<<x, h>>] \in {"posted", "running"} /\ exec'[<<x, h>>] = exec[<<x, h>>]
      BY <1>5, <2>1 DEF Instance
    <3>2. /\ active[x] = <<x, h>> /\ row[x] \notin Final /\ ~finalizing(x) /\ onlyRunning(x)
          /\ exec[<<x, h>>] = "posted" => row[x] = "PENDING" /\ unqueued(x)
      BY <3>1 DEF ExecInv
    <3> QED BY <1>1, <1>6, <1>7, <3>1, <3>2
  <2> QED BY <2>1 DEF ExecInv
<1>14. FinalizeInv'
  BY <1>1, <1>3, <1>6 DEF FinalizeInv
<1>15. CreateInv'
  <2>1. ioAt.step = "written" => ioAt.step # "idle"
    OBVIOUS
  <2> QED BY <1>1, <1>4, <2>1 DEF CreateInv
<1>16. FinalInv'
  BY <1>1, <1>4 DEF FinalInv
<1> QED BY <1>5, <1>9, <1>10, <1>11, <1>12, <1>13, <1>14, <1>15, <1>16

\* A process begins with runners that have nothing, on any rows.
LEMMA BeginOne ==
  ASSUME JobTypes, start = "no", submit = [j \in Job |-> "no"], controlAt = "idle",
         control = << >>, io = << >>, ioAt = IdleIO, exec = [i \in Instance |-> "none"]
  PROVE  OneInstance
<1>1. /\ \A k \in DOMAIN control : FALSE
      /\ \A k \in DOMAIN io : FALSE
      /\ ioAt.step = "idle"
  BY DEF IdleIO
<1>2. \A j \in Job, how \in {"submit", "recover"} : exec[<<j, how>>] = "none"
  BY DEF Instance
<1>3. \A j \in Job : ~executing(j)
  BY <1>2 DEF executing
<1>4. StartInv /\ EarlyInv /\ RecoverInv
  BY <1>1, <1>3 DEF StartInv, EarlyInv, RecoverInv
<1>5. QueueInv /\ FinalizeInv /\ CreateInv /\ FinalInv
  BY <1>1 DEF QueueInv, FinalizeInv, CreateInv, FinalInv
<1>6. ExecInv
  BY <1>2 DEF ExecInv
<1> QED BY <1>4, <1>5, <1>6 DEF OneInstance

\* It does when the first process starts ...
LEMMA InitOne == Init => OneInstance
<1> SUFFICES ASSUME Init PROVE OneInstance
  OBVIOUS
<1>1. JobTypes
  BY DEF Init, JobTypes
<1> QED BY <1>1, BeginOne DEF Init

\* ... and when another one follows it.
LEMMA CrashOne ==
  ASSUME OneInstance, Crash
  PROVE  OneInstance'
<1>1. JobTypes'
  BY DEF Crash, JobTypes, OneInstance
<1>2. /\ start' = "no" /\ submit' = [j \in Job |-> "no"] /\ controlAt' = "idle"
      /\ control' = << >> /\ io' = << >> /\ ioAt' = IdleIO /\ exec' = [i \in Instance |-> "none"]
  BY DEF Crash
<1>3. /\ \A k \in DOMAIN control' : FALSE
      /\ \A k \in DOMAIN io' : FALSE
      /\ ioAt'.step = "idle"
  BY <1>2 DEF IdleIO
<1>4. \A j \in Job, how \in {"submit", "recover"} : exec'[<<j, how>>] = "none"
  BY <1>2 DEF Instance
<1>5. \A j \in Job : ~executing(j)'
  BY <1>4 DEF executing
<1>6. StartInv' /\ EarlyInv' /\ RecoverInv'
  BY <1>2, <1>3, <1>5 DEF StartInv, EarlyInv, RecoverInv
<1>7. QueueInv' /\ FinalizeInv' /\ CreateInv' /\ FinalInv'
  BY <1>2, <1>3 DEF QueueInv, FinalizeInv, CreateInv, FinalInv
<1>8. ExecInv'
  BY <1>4 DEF ExecInv
<1> QED BY <1>1, <1>6, <1>7, <1>8 DEF OneInstance

\* Every step keeps the invariant.
LEMMA NextOne ==
  ASSUME IInv, OneInstance, [Next]_vars, ~EarlySubmit
  PROVE  OneInstance'
<1>1. CASE \/ \E j \in Job : SubmitJob(j) \/ PostSubmit(j) \/ CallerCancels(j) \/ CallerLeaves(j)
                               \/ CancelJob(j)
           \/ RegisterHandler \/ UnregisterHandler
           \/ BeginShutdown \/ PollActive \/ PollFinalize \/ ShutdownTimesOut
           \/ UNCHANGED vars
  BY <1>1, CallersOne
<1> QED
  BY <1>1, StartOne, ControlOne, IOOne, ExecOne, CloseOne, CrashOne DEF Next

-----------------------------------------------------------------------------

\* The steps that change a row keep a final status, but for SaveJob.
LEMMA FinalStep ==
  ASSUME IInv, OneInstance, [Next]_vars, NEW j \in Job, row[j] \in Final
  PROVE  \/ row'[j] = row[j]
         \/ store = "legacy" /\ row'[j] = "PENDING"
         \/ store = "memory" /\ crashes' > crashes
<1> USE DEF OneInstance
<1>1. TypeInv /\ row \in Rows /\ row[j] # "none"
  BY DEF IInv, TypeInv, Final
<1>2. CASE Crash
  BY <1>2 DEF Crash, rowsAfterCrash, JobTypes
<1>3. ASSUME NEW err \in Outcome, CreateAttempt(err)
      PROVE  row'[j] = row[j] \/ (store = "legacy" /\ row'[j] = "PENDING")
  <2>1. io # << >> /\ Head(io).job \in Job
    BY <1>1, <1>3, PlacesTyped DEF CreateAttempt, ioRuns
  <2>2. \/ row' = row
        \/ CreateJob(Head(io).job, "PENDING", err)
        \/ SaveJob(Head(io).job, "PENDING", err)
    BY <1>3 DEF CreateAttempt
  <2>3. CASE CreateJob(Head(io).job, "PENDING", err)
    BY <1>1, <2>1, <2>3 DEF CreateJob, InsertJob, LoadOrStore, executes, fails, Rows
  <2>4. CASE SaveJob(Head(io).job, "PENDING", err)
    BY <1>1, <2>1, <2>4 DEF SaveJob, UpsertJob, executes, Rows
  <2> QED BY <2>2, <2>3, <2>4
<1>4. ASSUME NEW err \in Outcome, updateStatusIO(err)
      PROVE  row'[j] = row[j]
  <2>1. /\ 1 \in DOMAIN io /\ Head(io) = io[1] /\ io[1].job \in Job
        /\ io[1].op \in {"running", "final", "missing"}
    BY <1>1, <1>4, PlacesTyped DEF updateStatusIO, isUpdate
  <2>2. row' = row \/ UpdateStatus(io[1].job, statusOf(io[1]), err)
    BY <1>4, <2>1 DEF updateStatusIO
  <2>3. row' = row \/ row' = [row EXCEPT ![io[1].job] = statusOf(io[1])]
    BY <2>2, StoreWrites
  <2>4. io[1].job = j => io[1].op # "running" /\ io[1].arg = row[j]
    BY <2>1 DEF FinalInv
  <2>5. io[1].job = j => statusOf(io[1]) = row[j]
    BY <2>4 DEF statusOf
  <2> QED BY <1>1, <2>1, <2>3, <2>5 DEF Rows
<1>5. ASSUME NEW err \in Outcome, MarkInterrupted(err)
      PROVE  row'[j] = row[j]
  <2>1. ioAt.step = "interrupted" /\ nextRow \in ioAt.todo
    BY <1>5 DEF MarkInterrupted, ioRuns, nextRow
  <2>2. nextRow = j => row[j] = "FAILED"
    BY <2>1 DEF RecoverInv, Final
  <2>3. row' = row \/ row' = [row EXCEPT ![nextRow] = "FAILED"]
    BY <1>5, StoreWrites DEF MarkInterrupted
  <2> QED BY <1>1, <2>2, <2>3 DEF Rows
<1>6. CASE CreateBegins \/ CreateEnds \/ ListRows \/ RecoverNext
  BY <1>6 DEF CreateBegins, CreateEnds, ListRows, RecoverNext
<1>7. CASE ControlStep
  BY <1>7 DEF ControlStep, RunSubmit, AwaitCreated, RunCancel, RunRegister, RunFinalize,
              CountFinalize, RunRecover, RunCancelAll, storeVars
<1>8. CASE \/ \E x \in Job : SubmitJob(x) \/ PostSubmit(x) \/ CallerCancels(x) \/ CallerLeaves(x)
                               \/ CancelJob(x)
           \/ RegisterHandler \/ UnregisterHandler \/ Start
           \/ \E i \in Instance : ExecStart(i) \/ ExecEnd(i)
           \/ BeginShutdown \/ PollActive \/ PollFinalize \/ CloseRunners \/ ShutdownTimesOut
           \/ UNCHANGED vars
  BY <1>8 DEF SubmitJob, PostSubmit, CallerCancels, CallerLeaves, CancelJob, RegisterHandler,
              UnregisterHandler, PostCall, Start, ExecStart, ExecEnd, BeginShutdown, PollActive,
              PollFinalize, CloseRunners, ShutdownTimesOut, storeVars, vars
<1> QED BY <1>2, <1>3, <1>4, <1>5, <1>6, <1>7, <1>8 DEF Next, IOStep

\* Callers that submit after Start never see a final status overwritten: not by a
\* late RUNNING, a retried write, a cancellation, or the recovery of a process that
\* died (jobManager.updateStatusIO, doRecoveryIO, finalizeJobControl).
THEOREM FinalStatusStays ==
  ASSUME ~EarlySubmit
  PROVE  Spec => FinalIsFinal
<1>1. IInv /\ OneInstance /\ [Next]_vars => OneInstance'
  BY NextOne
<1>2. IInv /\ OneInstance /\ [Next]_vars =>
        [\A j \in Job : row[j] \in Final =>
           \/ row'[j] = row[j]
           \/ store = "legacy" /\ row'[j] = "PENDING"
           \/ store = "memory" /\ crashes' > crashes]_row
  BY FinalStep
<1> QED BY <1>1, <1>2, InitInv, NextInv, InitOne, PTL DEF Spec, FinalIsFinal

\* Under the same condition an execution begins only on a PENDING row: no job runs
\* that the store holds as running or finished (scheduleExecution).
THEOREM ExecutionStartsPending ==
  ASSUME ~EarlySubmit
  PROVE  Spec => StartsPending
<1>1. IInv /\ OneInstance /\ [Next]_vars => OneInstance'
  BY NextOne
<1>2. IInv /\ OneInstance =>
        \A i \in Instance : exec[i] = "posted" => row[i[1]] = "PENDING"
  <2> SUFFICES ASSUME OneInstance, NEW i \in Instance, exec[i] = "posted"
               PROVE  row[i[1]] = "PENDING"
    OBVIOUS
  <2>1. PICK j \in Job, how \in {"submit", "recover"} : i = <<j, how>> /\ i[1] = j
    BY DEF Instance
  <2>2. row[j] = "PENDING"
    BY <2>1, OnlyExecuting
  <2> QED BY <2>1, <2>2
<1>3. IInv /\ OneInstance /\ [Next]_vars =>
        [\A i \in Instance : exec[i] = "posted" /\ exec'[i] = "running" => row[i[1]] = "PENDING"]_exec
  BY <1>2
<1> QED BY <1>1, <1>3, InitInv, NextInv, InitOne, PTL DEF Spec, StartsPending

-----------------------------------------------------------------------------
(* What Shutdown waits for.                                                *)

\* The jobs whose final status waits for its write.
finals == {j \in Job : \E k \in DOMAIN io : io[k].op = "final" /\ io[k].job = j}

\* The final status of the job is on its way to the store, in it, or given up.
saved(j) == finalizing(j) \/ j \in finals \/ row[j] \in Final \/ j \in gaveUp

DownInv ==
  /\ shutdown # "no" => closed
  /\ down # {} => shutdown \in {"closing", "returned"}

\* As long as no runner is closed, the count is that of the writes, and no final
\* status is lost.
SavedInv ==
  down = {} =>
    /\ IsFiniteSet(finals) /\ pendingFinalize = Cardinality(finals)
    /\ store # "legacy" =>
         \A j \in Job, how \in {"submit", "recover"} : exec[<<j, how>>] = "ended" => saved(j)

\* Runners are closed by Shutdown alone, behind its polls.
LEMMA NextDown ==
  ASSUME DownInv, [Next]_vars
  PROVE  DownInv'
<1> USE DEF storeVars, callerVars, lifeVars, jobVars, controlVars, ioVars, runVars, DownInv
<1>1. CASE \/ \E x \in Job : SubmitJob(x) \/ PostSubmit(x) \/ CallerCancels(x) \/ CallerLeaves(x)
                               \/ CancelJob(x)
           \/ RegisterHandler \/ UnregisterHandler \/ Start
           \/ \E i \in Instance : ExecStart(i) \/ ExecEnd(i)
           \/ UNCHANGED vars
  BY <1>1 DEF SubmitJob, PostSubmit, CallerCancels, CallerLeaves, CancelJob, RegisterHandler,
              UnregisterHandler, PostCall, Start, ExecStart, ExecEnd, vars
<1>2. CASE BeginShutdown \/ PollActive \/ PollFinalize \/ CloseRunners \/ ShutdownTimesOut \/ Crash
  BY <1>2 DEF BeginShutdown, PollActive, PollFinalize, CloseRunners, ShutdownTimesOut, Crash
<1>3. CASE ControlStep
  BY <1>3 DEF ControlStep, RunSubmit, AwaitCreated, RunCancel, RunRegister, RunFinalize,
              CountFinalize, RunRecover, RunCancelAll
<1>4. CASE IOStep
  BY <1>4 DEF IOStep, CreateBegins, CreateEnds, ListRows, RecoverNext, CreateAttempt,
              updateStatusIO, MarkInterrupted, ioUnchanged
<1> QED BY <1>1, <1>2, <1>3, <1>4 DEF Next

\* A step that writes no final status and none that is asked for.
LEMMA FinalsSame ==
  ASSUME TypeInv,
         \/ io' = io
         \/ io # << >> /\ Head(io).op # "final" /\ io' = Tail(io)
         \/ \E c \in IOCall : c.op # "final" /\ toIO(c)
  PROVE  finals' = finals
<1>1. CASE io' = io
  BY <1>1 DEF finals
<1>2. CASE io # << >> /\ Head(io).op # "final" /\ io' = Tail(io)
  <2>1. /\ \A k \in DOMAIN io' : k + 1 \in DOMAIN io /\ io'[k] = io[k + 1]
        /\ \A k \in DOMAIN io : k # 1 => k - 1 \in DOMAIN io' /\ io'[k - 1] = io[k]
    BY <1>2 DEF TypeInv
  <2>2. io[1].op # "final"
    BY <1>2, PlacesTyped
  <2> QED BY <2>1, <2>2 DEF finals
<1>3. ASSUME NEW c \in IOCall, c.op # "final", toIO(c)
      PROVE  finals' = finals
  <2>1. /\ \A k \in DOMAIN io : k \in DOMAIN io' /\ io'[k] = io[k]
        /\ \A k \in DOMAIN io' : k \in DOMAIN io \/ io'[k] = c
    BY <1>3, IOPosted
  <2> QED BY <1>3, <2>1 DEF finals
<1> QED BY <1>1, <1>2, <1>3

\* A finalization stays queued while another closure ends or is posted.
LEMMA FinalizingStays ==
  ASSUME TypeInv,
         \/ control' = control
         \/ control # << >> /\ Head(control).op # "finalize" /\ control' = Tail(control)
         \/ \E c \in ControlCall : toControl(c)
  PROVE  \A x : finalizing(x) => finalizing(x)'
<1>1. CASE control' = control
  BY <1>1 DEF finalizing
<1>2. CASE control # << >> /\ Head(control).op # "finalize" /\ control' = Tail(control)
  <2>1. \A k \in DOMAIN control : k # 1 => k - 1 \in DOMAIN control' /\ control'[k - 1] = control[k]
    BY <1>2 DEF TypeInv
  <2>2. control[1].op # "finalize"
    BY <1>2, PlacesTyped
  <2> QED BY <2>1, <2>2 DEF finalizing
<1>3. ASSUME NEW c \in ControlCall, toControl(c)
      PROVE  \A x : finalizing(x) => finalizing(x)'
  BY <1>3, ControlPosted DEF finalizing
<1> QED BY <1>1, <1>2, <1>3

\* A final status stays until the process dies, except in a store without CreateJob.
LEMMA FinalRowStays ==
  ASSUME IInv, OneInstance, [Next]_vars, crashes' = crashes, store # "legacy",
         NEW j \in Job, row[j] \in Final
  PROVE  row'[j] \in Final
<1>1. ~(crashes' > crashes)
  BY DEF OneInstance, JobTypes
<1> QED BY <1>1, FinalStep

\* A step that neither ends an execution nor loses track of one.
LEMMA SavedAlone ==
  ASSUME IInv, OneInstance, SavedInv, [Next]_vars,
         UNCHANGED <<pendingFinalize, down, store, crashes>>,
         gaveUp \subseteq gaveUp', finals' = finals,
         \A x : finalizing(x) => finalizing(x)',
         \A i \in Instance : exec'[i] = "ended" => exec[i] = "ended"
  PROVE  SavedInv'
<1> SUFFICES ASSUME down = {}
             PROVE  /\ IsFiniteSet(finals)' /\ pendingFinalize' = Cardinality(finals)'
                    /\ store # "legacy" =>
                         \A j \in Job, how \in {"submit", "recover"} : exec'[<<j, how>>] = "ended" => saved(j)'
  BY DEF SavedInv
<1>1. IsFiniteSet(finals)' /\ pendingFinalize' = Cardinality(finals)'
  BY DEF SavedInv
<1>2. ASSUME store # "legacy", NEW j \in Job, NEW how \in {"submit", "recover"}, exec'[<<j, how>>] = "ended"
      PROVE  saved(j)'
  <2>1. exec[<<j, how>>] = "ended"
    BY <1>2 DEF Instance
  <2>2. saved(j)
    BY <1>2, <2>1 DEF SavedInv
  <2>3. row[j] \in Final => row'[j] \in Final
    BY <1>2, FinalRowStays
  <2> QED BY <2>2, <2>3 DEF saved
<1> QED BY <1>1, <1>2

\* The callers, the polls of Shutdown, and Start.
LEMMA CallersSaved ==
  ASSUME IInv, OneInstance, SavedInv, [Next]_vars,
         \/ \E j \in Job : SubmitJob(j) \/ PostSubmit(j) \/ CallerCancels(j) \/ CallerLeaves(j)
                             \/ CancelJob(j)
         \/ RegisterHandler \/ UnregisterHandler \/ Start
         \/ BeginShutdown \/ PollActive \/ PollFinalize \/ ShutdownTimesOut
         \/ UNCHANGED vars
  PROVE  SavedInv'
<1> USE DEF storeVars, callerVars, lifeVars, jobVars, controlVars, ioVars, runVars
<1>1. UNCHANGED <<pendingFinalize, down, store, crashes, gaveUp, exec>>
  BY DEF SubmitJob, PostSubmit, CallerCancels, CallerLeaves, CancelJob, RegisterHandler, Start,
         UnregisterHandler, PostCall, BeginShutdown, PollActive, PollFinalize, ShutdownTimesOut, vars
<1>2. TypeInv
  BY DEF IInv
<1>3. io' = io \/ \E c \in IOCall : c.op # "final" /\ toIO(c)
  <2>1. io' = io \/ toIO(call("start", None, None))
    BY DEF SubmitJob, PostSubmit, CallerCancels, CallerLeaves, CancelJob, RegisterHandler, Start,
           UnregisterHandler, PostCall, BeginShutdown, PollActive, PollFinalize, ShutdownTimesOut, vars
  <2> QED BY <2>1, OtherCalls DEF call
<1>4. control' = control \/ \E c \in ControlCall : toControl(c)
  <2>1. ASSUME NEW j \in Job, PostSubmit(j) \/ CancelJob(j)
        PROVE  toControl(call("submit", j, None)) \/ toControl(call("cancel", j, None))
    BY <2>1 DEF PostSubmit, CancelJob, PostCall
  <2>2. CASE RegisterHandler \/ UnregisterHandler \/ BeginShutdown
    <3>1. \/ toControl(call("register", None, None))
          \/ toControl(call("unregister", None, None))
          \/ toControl(call("cancelAll", None, None))
      BY <2>2 DEF RegisterHandler, UnregisterHandler, PostCall, BeginShutdown
    <3> QED BY <3>1, OtherCalls
  <2>3. CASE \/ \E j \in Job : SubmitJob(j) \/ CallerCancels(j) \/ CallerLeaves(j)
             \/ Start \/ PollActive \/ PollFinalize \/ ShutdownTimesOut \/ UNCHANGED vars
    BY <2>3 DEF SubmitJob, CallerCancels, CallerLeaves, Start, PollActive, PollFinalize,
                ShutdownTimesOut, vars
  <2>4. ASSUME NEW j \in Job, PostSubmit(j) \/ CancelJob(j)
        PROVE  \E c \in ControlCall : toControl(c)
    BY <2>1, <2>4, Calls
  <2> QED BY <2>2, <2>3, <2>4
<1>5. finals' = finals /\ \A x : finalizing(x) => finalizing(x)'
  BY <1>2, <1>3, <1>4, FinalsSame, FinalizingStays
<1> QED BY <1>1, <1>5, SavedAlone

\* The control runner, but for finalizeJobControl.
LEMMA ControlSaved ==
  ASSUME IInv, OneInstance, SavedInv, [Next]_vars,
         RunSubmit \/ AwaitCreated \/ RunCancel \/ RunRegister \/ RunRecover \/ RunCancelAll
  PROVE  SavedInv'
<1> USE DEF storeVars, callerVars, lifeVars, jobVars, controlVars, ioVars, runVars
<1>1. UNCHANGED <<pendingFinalize, down, store, crashes, gaveUp>>
  BY DEF RunSubmit, AwaitCreated, RunCancel, RunRegister, RunRecover, RunCancelAll
<1>2. /\ TypeInv /\ control # << >> /\ Head(control).op # "finalize"
      /\ control' = control \/ control' = Tail(control)
  BY DEF IInv, RunSubmit, AwaitCreated, RunCancel, RunRegister, RunRecover, RunCancelAll,
         controlRuns, endsControl
<1>3. \A i \in Instance : exec'[i] = "ended" => exec[i] = "ended"
  BY DEF RunSubmit, AwaitCreated, RunCancel, RunRegister, RunRecover, RunCancelAll, schedules,
         OneInstance, JobTypes
<1>4. io' = io \/ \E c \in IOCall : c.op # "final" /\ toIO(c)
  <2>1. CASE RunSubmit
    <3>1. Head(control).job \in Job
      BY <1>2, <2>1, PlacesTyped DEF RunSubmit, controlRuns
    <3>2. io' = io \/ toIO(call("create", Head(control).job, None))
      BY <2>1 DEF RunSubmit
    <3> QED BY <3>1, <3>2, Calls DEF call
  <2>2. CASE RunRecover
    <3>1. Head(control).job \in Job
      BY <1>2, <2>2, PlacesTyped DEF RunRecover, controlRuns
    <3>2. io' = io \/ toIO(call("missing", Head(control).job, "FAILED"))
      BY <2>2 DEF RunRecover
    <3> QED BY <3>1, <3>2, Calls DEF call
  <2>3. CASE AwaitCreated \/ RunCancel \/ RunRegister \/ RunCancelAll
    BY <2>3 DEF AwaitCreated, RunCancel, RunRegister, RunCancelAll
  <2> QED BY <2>1, <2>2, <2>3
<1>5. finals' = finals /\ \A x : finalizing(x) => finalizing(x)'
  BY <1>2, <1>4, FinalsSame, FinalizingStays
<1> QED BY <1>1, <1>3, <1>5, SavedAlone

\* A finalization finds its job active, and is kept until its write is counted.
LEMMA FinalizeSaved ==
  ASSUME IInv, OneInstance, SavedInv, [Next]_vars, RunFinalize
  PROVE  SavedInv'
<1> USE DEF storeVars, callerVars, lifeVars, jobVars, controlVars, ioVars, runVars
<1>1. /\ UNCHANGED <<pendingFinalize, down, store, crashes, gaveUp, io, exec>>
      /\ control # << >> /\ Head(control).op = "finalize" /\ controlAt = "idle"
  BY DEF RunFinalize, controlRuns
<1>2. active[Head(control).job] # None
  BY <1>1, PlacesTyped DEF IInv, OneInstance, FinalizeInv
<1>3. control' = control
  BY <1>2 DEF RunFinalize
<1>4. finals' = finals /\ \A x : finalizing(x) => finalizing(x)'
  BY <1>1, <1>3, FinalsSame, FinalizingStays DEF IInv
<1> QED BY <1>1, <1>4, SavedAlone

\* The count goes up with the post of the write.
LEMMA CountSaved ==
  ASSUME IInv, OneInstance, SavedInv, [Next]_vars, CountFinalize
  PROVE  SavedInv'
<1> USE DEF storeVars, callerVars, lifeVars, jobVars, controlVars, ioVars, runVars
<1>1. /\ UNCHANGED <<down, store, crashes, gaveUp, exec, row>>
      /\ control # << >> /\ Head(control).op = "finalize"
      /\ pendingFinalize' = pendingFinalize + 1
      /\ toIO(call("final", Head(control).job, Head(control).arg))
      /\ control' = Tail(control)
  BY DEF CountFinalize, controlRuns, endsControl
<1>2. PICK j \in Job :
        TypeInv /\ Head(control).job = j /\ 1 \in DOMAIN control /\ control[1] = Head(control)
  BY <1>1, PlacesTyped DEF IInv
<1>3. PICK c \in IOCall : toIO(c) /\ c.op = "final" /\ c.job = j
  <2>1. Head(control) \in ControlCall
    BY <1>1, <1>2, TailKeeps DEF TypeInv
  <2>2. call("final", j, Head(control).arg) \in IOCall
    BY <1>1, <1>2, <2>1 DEF call, ControlCall, IOCall
  <2> QED BY <1>1, <1>2, <2>2 DEF call
<1> SUFFICES ASSUME down = {}
             PROVE  /\ IsFiniteSet(finals)' /\ pendingFinalize' = Cardinality(finals)'
                    /\ store # "legacy" =>
                         \A x \in Job, how \in {"submit", "recover"} : exec'[<<x, how>>] = "ended" => saved(x)'
  BY <1>1 DEF SavedInv
<1>4. j \notin finals
  BY <1>1, <1>2 DEF OneInstance, FinalizeInv, onlyRunning, finals
<1>5. finals' = finals \cup {j}
  <2>1. /\ \A k \in DOMAIN io : k \in DOMAIN io' /\ io'[k] = io[k]
        /\ \A k \in DOMAIN io' : k \in DOMAIN io \/ io'[k] = c
    BY <1>2, <1>3, IOPosted
  <2>2. Len(io) + 1 \in DOMAIN io' /\ io'[Len(io) + 1] = c
    BY <1>2, <1>3 DEF toIO, posted, TypeInv
  <2> QED BY <1>3, <2>1, <2>2 DEF finals
<1>6. IsFiniteSet(finals) /\ pendingFinalize = Cardinality(finals)
  BY DEF SavedInv
<1>7. IsFiniteSet(finals \cup {j}) /\ Cardinality(finals \cup {j}) = Cardinality(finals) + 1
  BY <1>4, <1>6, FS_AddElement
<1>8. IsFiniteSet(finals)' /\ pendingFinalize' = Cardinality(finals)'
  BY <1>1, <1>5, <1>6, <1>7
<1>9. \A x \in Job : saved(x) => saved(x)'
  <2>1. \A x \in Job \ {j} : finalizing(x) => finalizing(x)'
    <3>1. \A k \in DOMAIN control : k # 1 => k - 1 \in DOMAIN control' /\ control'[k - 1] = control[k]
      BY <1>1, <1>2 DEF TypeInv
    <3> QED BY <1>2, <3>1 DEF finalizing
  <2> QED BY <1>1, <1>5, <2>1 DEF saved
<1> QED BY <1>1, <1>8, <1>9 DEF SavedInv

\* Closures of the IO runner that write no final status.
LEMMA IOSaved ==
  ASSUME IInv, OneInstance, SavedInv, [Next]_vars,
         \/ CreateBegins \/ CreateEnds \/ ListRows \/ RecoverNext
         \/ \E err \in Outcome : CreateAttempt(err) \/ MarkInterrupted(err)
  PROVE  SavedInv'
<1> USE DEF storeVars, callerVars, lifeVars, jobVars, controlVars, ioVars, runVars
<1>1. /\ UNCHANGED <<pendingFinalize, down, store, crashes>>
      /\ gaveUp \subseteq gaveUp'
  BY DEF CreateBegins, CreateEnds, ListRows, RecoverNext, CreateAttempt, MarkInterrupted, ioUnchanged
<1>2. TypeInv /\ io # << >> /\ Head(io).op # "final"
  BY DEF IInv, CreateBegins, CreateEnds, ListRows, RecoverNext, CreateAttempt, MarkInterrupted, ioRuns
<1>3. io' = io \/ io' = Tail(io)
  BY DEF CreateBegins, CreateEnds, ListRows, RecoverNext, CreateAttempt, MarkInterrupted,
         failsCreate, lists, endsStart, endsIO
<1>4. \A i \in Instance : exec'[i] = "ended" => exec[i] = "ended"
  BY DEF CreateBegins, CreateEnds, ListRows, RecoverNext, CreateAttempt, MarkInterrupted,
         schedules, OneInstance, JobTypes
<1>5. control' = control \/ \E c \in ControlCall : toControl(c)
  <2>1. CASE RecoverNext
    <3>1. nextRow \in Job /\ toControl(call("recover", nextRow, None))
      BY <1>2, <2>1 DEF RecoverNext, nextRow, TypeInv, IOState
    <3> QED BY <3>1, Calls
  <2>2. CASE \/ CreateBegins \/ CreateEnds \/ ListRows
             \/ \E err \in Outcome : CreateAttempt(err) \/ MarkInterrupted(err)
    BY <2>2 DEF CreateBegins, CreateEnds, ListRows, CreateAttempt, MarkInterrupted
  <2> QED BY <2>1, <2>2
<1>6. finals' = finals /\ \A x : finalizing(x) => finalizing(x)'
  BY <1>2, <1>3, <1>5, FinalsSame, FinalizingStays
<1> QED BY <1>1, <1>4, <1>6, SavedAlone

\* The update that stores a final status, or gives it up, lowers the count.
LEMMA UpdateSaved ==
  ASSUME IInv, OneInstance, SavedInv, [Next]_vars, NEW err \in Outcome, updateStatusIO(err)
  PROVE  SavedInv'
<1> USE DEF storeVars, callerVars, lifeVars, jobVars, controlVars, ioVars, runVars
<1>1. /\ UNCHANGED <<down, store, crashes, exec, control>>
      /\ gaveUp \subseteq gaveUp'
      /\ TypeInv /\ io # << >>
  BY DEF updateStatusIO, isUpdate, ioUnchanged, IInv
<1>2. \A x : finalizing(x) => finalizing(x)'
  BY <1>1 DEF finalizing
<1>3. CASE io' = io
  <2>1. pendingFinalize' = pendingFinalize \/ endsUpdate
    BY DEF updateStatusIO
  <2>2. ~endsUpdate
    BY <1>1, <1>3 DEF endsUpdate, endsIO, TypeInv
  <2>3. finals' = finals
    BY <1>1, <1>3, FinalsSame
  <2> QED BY <1>1, <1>2, <2>1, <2>2, <2>3, SavedAlone
<1>4. CASE endsUpdate /\ Head(io).op # "final"
  <2>1. pendingFinalize' = pendingFinalize /\ io' = Tail(io)
    BY <1>4 DEF endsUpdate, endsIO
  <2>2. finals' = finals
    BY <1>1, <1>4, <2>1, FinalsSame
  <2> QED BY <1>1, <1>2, <2>1, <2>2, SavedAlone
<1>5. CASE endsUpdate /\ Head(io).op = "final"
  <2>1. pendingFinalize' = pendingFinalize - 1 /\ io' = Tail(io)
    BY <1>5 DEF endsUpdate, endsIO
  <2>2. PICK j \in Job :
          /\ 1 \in DOMAIN io /\ Head(io) = io[1] /\ io[1].job = j /\ io[1].op = "final"
          /\ io[1].arg \in Final
    BY <1>1, <1>5, PlacesTyped
  <2>3. j \in finals
    BY <2>2 DEF finals
  <2>4. finals' = finals \ {j}
    <3>1. /\ \A k \in DOMAIN io' : k + 1 \in DOMAIN io /\ io'[k] = io[k + 1] /\ 1 < k + 1
          /\ \A k \in DOMAIN io : k # 1 => k - 1 \in DOMAIN io' /\ io'[k - 1] = io[k]
      BY <1>1, <2>1 DEF TypeInv
    <3>2. \A k \in DOMAIN io : 1 < k /\ io[k].job = j => io[k].op # "final"
      BY <2>2 DEF OneInstance, QueueInv
    <3>3. \A k \in DOMAIN io' : ~(io'[k].op = "final" /\ io'[k].job = j)
      BY <3>1, <3>2
    <3>4. finals' \subseteq finals \ {j}
      BY <3>1, <3>3 DEF finals
    <3>5. finals \ {j} \subseteq finals'
      BY <2>2, <3>1 DEF finals
    <3> QED BY <3>4, <3>5
  <2>5. row'[j] \in Final \/ j \in gaveUp'
    <3>1. statusOf(Head(io)) = io[1].arg /\ statusOf(Head(io)) \in Final
      BY <2>2 DEF statusOf
    <3>2. io' # io
      BY <1>1, <2>1 DEF TypeInv
    <3>3. UpdateStatus(j, statusOf(Head(io)), err) /\ (err = "nil" \/ j \in gaveUp')
      BY <2>2, <3>1, <3>2 DEF updateStatusIO
    <3>4. err = "nil" => row' = [row EXCEPT ![j] = statusOf(Head(io))]
      BY <3>3 DEF UpdateStatus, UpdateJobStatus, LoadAndStore, executes, fails
    <3> QED BY <1>1, <3>1, <3>3, <3>4 DEF TypeInv, Rows
  <2> SUFFICES ASSUME down = {}
               PROVE  /\ IsFiniteSet(finals)' /\ pendingFinalize' = Cardinality(finals)'
                      /\ store # "legacy" =>
                           \A x \in Job, how \in {"submit", "recover"} : exec'[<<x, how>>] = "ended" => saved(x)'
    BY <1>1 DEF SavedInv
  <2>6. IsFiniteSet(finals) /\ pendingFinalize = Cardinality(finals)
    BY DEF SavedInv
  <2>7. IsFiniteSet(finals \ {j}) /\ Cardinality(finals \ {j}) = Cardinality(finals) - 1
    BY <2>3, <2>6, FS_RemoveElement
  <2>8. IsFiniteSet(finals)' /\ pendingFinalize' = Cardinality(finals)'
    BY <2>1, <2>4, <2>6, <2>7
  <2>9. ASSUME store # "legacy", NEW x \in Job, saved(x)
        PROVE  saved(x)'
    <3>1. row[x] \in Final => row'[x] \in Final
      BY <1>1, <2>9, FinalRowStays
    <3>2. x \in finals => x \in finals' \/ row'[x] \in Final \/ x \in gaveUp'
      BY <2>4, <2>5
    <3> QED BY <1>1, <1>2, <2>9, <3>1, <3>2 DEF saved
  <2>10. store # "legacy" =>
           \A x \in Job, how \in {"submit", "recover"} : exec'[<<x, how>>] = "ended" => saved(x)'
    BY <1>1, <2>9 DEF SavedInv
  <2> QED BY <2>8, <2>10
<1>6. io' = io \/ endsUpdate
  BY DEF updateStatusIO
<1> QED BY <1>3, <1>4, <1>5, <1>6

\* An execution that ends has posted its finalization.
LEMMA ExecSaved ==
  ASSUME IInv, OneInstance, SavedInv, [Next]_vars, NEW i \in Instance, ExecStart(i) \/ ExecEnd(i)
  PROVE  SavedInv'
<1> USE DEF storeVars, callerVars, lifeVars, jobVars, controlVars, ioVars, runVars
<1>1. /\ UNCHANGED <<pendingFinalize, down, store, crashes, gaveUp, row>>
      /\ TypeInv
  BY DEF ExecStart, ExecEnd, IInv
<1>2. PICK j \in Job, how \in {"submit", "recover"} : i = <<j, how>> /\ i[1] = j /\ i[2] = how
  BY DEF Instance
<1>3. CASE ExecStart(i) /\ ~contextDone(i)
  <2>1. /\ exec' = [exec EXCEPT ![i] = "running"]
        /\ toIO(call("running", j, how)) /\ UNCHANGED control
    BY <1>2, <1>3 DEF ExecStart
  <2>2. \A x \in Instance : exec'[x] = "ended" => exec[x] = "ended"
    BY <2>1 DEF OneInstance, JobTypes
  <2>3. \E c \in IOCall : c.op # "final" /\ toIO(c)
    BY <2>1, Calls DEF call
  <2>4. finals' = finals /\ \A x : finalizing(x) => finalizing(x)'
    BY <1>1, <2>1, <2>3, FinalsSame, FinalizingStays
  <2> QED BY <1>1, <2>2, <2>4, SavedAlone
<1>4. CASE ExecEnd(i) \/ (ExecStart(i) /\ contextDone(i))
  <2>1. /\ exec' = [exec EXCEPT ![i] = "ended"] /\ UNCHANGED io
        /\ \E s \in Final : toControl(call("finalize", j, s))
    BY <1>2, <1>4 DEF ExecStart, ExecEnd, Final
  <2>2. PICK c \in ControlCall : toControl(c) /\ c.op = "finalize" /\ c.job = j
    <3>1. \A s \in Final : call("finalize", j, s) \in ControlCall
      BY DEF call, ControlCall
    <3> QED BY <2>1, <3>1 DEF call
  <2>3. finals' = finals /\ \A x : finalizing(x) => finalizing(x)'
    BY <1>1, <2>1, <2>2, FinalsSame, FinalizingStays
  <2> SUFFICES ASSUME down = {}
               PROVE  /\ IsFiniteSet(finals)' /\ pendingFinalize' = Cardinality(finals)'
                      /\ store # "legacy" =>
                           \A x \in Job, h \in {"submit", "recover"} : exec'[<<x, h>>] = "ended" => saved(x)'
    BY <1>1 DEF SavedInv
  <2>4. IsFiniteSet(finals)' /\ pendingFinalize' = Cardinality(finals)'
    BY <1>1, <2>3 DEF SavedInv
  <2>5. finalizing(j)'
    <3>1. Len(control) + 1 \in DOMAIN control' /\ control'[Len(control) + 1] = c
      BY <1>1, <2>2 DEF toControl, posted, TypeInv
    <3> QED BY <2>2, <3>1 DEF finalizing
  <2>6. \A x \in Job : saved(x) => saved(x)'
    BY <1>1, <2>3 DEF saved
  <2>7. \A x \in Job, h \in {"submit", "recover"} : exec'[<<x, h>>] = "ended" => exec[<<x, h>>] = "ended" \/ x = j
    BY <1>2, <2>1 DEF OneInstance, JobTypes, Instance
  <2>8. saved(j)'
    BY <2>5 DEF saved
  <2> QED BY <1>1, <2>4, <2>6, <2>7, <2>8 DEF SavedInv
<1> QED BY <1>3, <1>4

\* Every step keeps the count and the final statuses.
LEMMA NextSaved ==
  ASSUME IInv, OneInstance, SavedInv, [Next]_vars
  PROVE  SavedInv'
<1>1. CASE CloseRunners
  BY <1>1 DEF CloseRunners, SavedInv
<1>2. CASE Crash
  <2>1. io' = << >> /\ pendingFinalize' = 0 /\ exec' = [i \in Instance |-> "none"]
    BY <1>2 DEF Crash
  <2>2. finals' = {}
    BY <2>1 DEF finals
  <2>3. IsFiniteSet(finals)' /\ pendingFinalize' = Cardinality(finals)'
    BY <2>1, <2>2, FS_EmptySet
  <2>4. \A j \in Job, how \in {"submit", "recover"} : exec'[<<j, how>>] # "ended"
    BY <2>1 DEF Instance
  <2> QED BY <2>3, <2>4 DEF SavedInv
<1>3. CASE ControlStep
  BY <1>3, ControlSaved, FinalizeSaved, CountSaved DEF ControlStep
<1>4. CASE IOStep
  BY <1>4, IOSaved, UpdateSaved DEF IOStep
<1>5. CASE \/ \E j \in Job : SubmitJob(j) \/ PostSubmit(j) \/ CallerCancels(j) \/ CallerLeaves(j)
                               \/ CancelJob(j)
           \/ RegisterHandler \/ UnregisterHandler \/ Start
           \/ BeginShutdown \/ PollActive \/ PollFinalize \/ ShutdownTimesOut
           \/ UNCHANGED vars
  BY <1>5, CallersSaved
<1> QED BY <1>1, <1>2, <1>3, <1>4, <1>5, ExecSaved DEF Next

\* Nothing has ended when the first process starts.
LEMMA InitSaved == Init => SavedInv /\ DownInv
<1> SUFFICES ASSUME Init PROVE SavedInv /\ DownInv
  OBVIOUS
<1>1. finals = {}
  BY DEF Init, finals
<1>2. IsFiniteSet(finals) /\ pendingFinalize = Cardinality(finals)
  BY <1>1, FS_EmptySet DEF Init
<1>3. \A j \in Job, how \in {"submit", "recover"} : exec[<<j, how>>] # "ended"
  BY DEF Init, Instance
<1> QED BY <1>2, <1>3 DEF SavedInv, DownInv, Init

\* Shutdown leaves its poll for the runners' own Shutdown only when every execution
\* that ended has its final status in the store, or its finalization is queued, or
\* no retry could write it (Shutdown, finalizeJobControl, pendingFinalize).
THEOREM ShutdownKeepsFinals ==
  ASSUME ~EarlySubmit
  PROVE  Spec => ShutdownSaves
<1> DEFINE Inv == IInv /\ OneInstance /\ SavedInv /\ DownInv
<1>1. Inv /\ [Next]_vars => Inv'
  BY NextInv, NextOne, NextSaved, NextDown
<1>2. Init => Inv
  BY InitInv, InitOne, InitSaved
<1>3. Inv /\ [Next]_vars =>
        [shutdown = "counted" /\ shutdown' \in {"closing", "returned"} /\ store # "legacy" =>
           \A i \in Instance : exec[i] = "ended" /\ ~finalizing(i[1]) =>
             row[i[1]] \in Final \/ i[1] \in gaveUp]_shutdown
  <2> SUFFICES ASSUME Inv, [Next]_vars, shutdown = "counted", shutdown' \in {"closing", "returned"},
                      store # "legacy", NEW i \in Instance, exec[i] = "ended", ~finalizing(i[1])
               PROVE  row[i[1]] \in Final \/ i[1] \in gaveUp
    OBVIOUS
  <2>1. pendingFinalize = 0
    <3> USE DEF lifeVars
    <3>1. CASE PollFinalize
      BY <3>1 DEF PollFinalize
    <3>2. CASE \/ \E x \in Job : SubmitJob(x) \/ PostSubmit(x) \/ CallerCancels(x) \/ CallerLeaves(x)
                                   \/ CancelJob(x)
               \/ RegisterHandler \/ UnregisterHandler \/ Start
               \/ \E x \in Instance : ExecStart(x) \/ ExecEnd(x)
               \/ UNCHANGED vars
      BY <3>2 DEF SubmitJob, PostSubmit, CallerCancels, CallerLeaves, CancelJob, RegisterHandler,
                  UnregisterHandler, PostCall, Start, ExecStart, ExecEnd, vars
    <3>3. CASE BeginShutdown \/ PollActive \/ CloseRunners \/ ShutdownTimesOut \/ Crash
      BY <3>3 DEF BeginShutdown, PollActive, CloseRunners, ShutdownTimesOut, Crash
    <3>4. CASE ControlStep
      BY <3>4 DEF ControlStep, RunSubmit, AwaitCreated, RunCancel, RunRegister, RunFinalize,
                  CountFinalize, RunRecover, RunCancelAll
    <3>5. CASE IOStep
      BY <3>5 DEF IOStep, CreateBegins, CreateEnds, ListRows, RecoverNext, CreateAttempt,
                  updateStatusIO, MarkInterrupted, ioUnchanged
    <3> QED BY <3>1, <3>2, <3>3, <3>4, <3>5 DEF Next
  <2>2. down = {}
    BY DEF DownInv
  <2>3. finals = {}
    BY <2>1, <2>2, FS_EmptySet DEF SavedInv
  <2>4. PICK j \in Job, how \in {"submit", "recover"} : i = <<j, how>> /\ i[1] = j
    BY DEF Instance
  <2>5. saved(j)
    BY <2>2, <2>4 DEF SavedInv
  <2> QED BY <2>3, <2>4, <2>5 DEF saved
<1> HIDE DEF Inv
<1> QED BY <1>1, <1>2, <1>3, PTL DEF Spec, ShutdownSaves

=============================================================================
