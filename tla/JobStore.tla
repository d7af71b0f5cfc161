------------------------------ MODULE JobStore ------------------------------
(***************************************************************************)
(* The stores of JobManager.  The status of a job stands for its row; the  *)
(* other columns decide nothing.  An operation has an outcome: no error, a *)
(* row that exists or is missing, or any other failure of the database,    *)
(* which comes with or without the effect of the statement.                *)
(*                                                                         *)
(* A "legacy" store is an application's own, with the operations of        *)
(* JobStore and without CreateJob.                                         *)
(***************************************************************************)
EXTENDS Naturals

CONSTANTS
  Job,       \* job ids
  Stores     \* the kinds of store in use

ASSUME StoreAssumption == Stores \subseteq {"sqlite", "memory", "legacy"}

Final == {"COMPLETED", "FAILED", "CANCELED"}
JobStatus == {"PENDING", "RUNNING"} \cup Final
Outcome == {"nil", "exists", "missing", "failed"}

VARIABLES
  row,     \* the status of each job in the store, "none" without a row
  store    \* the kind of the store

\* A statement that changes the row of j, executed by the database.
executes(j, s, err) ==
  \/ err \in {"nil", "failed"} /\ row' = [row EXCEPT ![j] = s]
  \/ err = "failed" /\ UNCHANGED row

fails(err, why) == err \in {why, "failed"} /\ UNCHANGED row

InsertJob(j, s, err) == IF row[j] = "none" THEN executes(j, s, err) ELSE fails(err, "exists")
UpsertJob(j, s, err) == executes(j, s, err)
UpdateJobStatus(j, s, err) == IF row[j] = "none" THEN fails(err, "missing") ELSE executes(j, s, err)

\* MemoryJobStore: LoadOrStore, Load and Store do not fail.
LoadOrStore(j, s, err) ==
  \/ row[j] = "none" /\ err = "nil" /\ row' = [row EXCEPT ![j] = s]
  \/ row[j] # "none" /\ err = "exists" /\ UNCHANGED row

LoadAndStore(j, s, err) ==
  \/ row[j] # "none" /\ err = "nil" /\ row' = [row EXCEPT ![j] = s]
  \/ row[j] = "none" /\ err = "missing" /\ UNCHANGED row

CreateJob(j, s, err) ==
  \/ store = "sqlite" /\ InsertJob(j, s, err)
  \/ store = "memory" /\ LoadOrStore(j, s, err)

SaveJob(j, s, err) == store = "legacy" /\ UpsertJob(j, s, err)

UpdateStatus(j, s, err) ==
  \/ store # "memory" /\ UpdateJobStatus(j, s, err)
  \/ store = "memory" /\ LoadAndStore(j, s, err)

\* Fault: the status in the query is ignored.
listsAll(status) == {j \in Job : row[j] # "none"}
anyUnfinished == {j \in Job : row[j] \in {"PENDING", "RUNNING"}}

ListJobsByStatus(status) == {j \in Job : row[j] = status}
GetPendingJobs == {j \in Job : row[j] = "PENDING"}

ListJobs(status) == ListJobsByStatus(status)
GetRecoverableJobs == GetPendingJobs

\* What is left of the rows when the process dies.
rowsAfterCrash == IF store = "memory" THEN [j \in Job |-> "none"] ELSE row

=============================================================================
