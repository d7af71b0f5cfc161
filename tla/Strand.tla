------------------------------- MODULE Strand -------------------------------
(***************************************************************************)
(* What a sequenced task runner promises its callers: the tasks it         *)
(* accepts are run one at a time, in the order in which they were          *)
(* accepted; Shutdown discards, once, the tasks that are still waiting;    *)
(* and, while the thread pool underneath is up, a waiting task is          *)
(* eventually started and a started task eventually ends.                  *)
(*                                                                         *)
(* The module is the abstract specification that SequencedRunner           *)
(* implements.                                                             *)
(***************************************************************************)
EXTENDS Naturals, Sequences

CONSTANT Task    \* the tasks callers may post

VARIABLES
  waiting,    \* accepted tasks that have not been started, oldest first
  running,    \* the tasks that are executing: never more than one
  finished,   \* the tasks that have returned or panicked
  closed,     \* Shutdown has begun
  cleared,    \* Shutdown has discarded the waiting tasks
  down        \* the thread pool refuses work: nothing is promised any more

vars == <<waiting, running, finished, closed, cleared, down>>

Init ==
  /\ waiting = << >>
  /\ running = {}
  /\ finished = {}
  /\ closed = FALSE
  /\ cleared = FALSE
  /\ down = FALSE

Accept(t) ==
  /\ waiting' = Append(waiting, t)
  /\ UNCHANGED <<running, finished, closed, cleared, down>>

Start ==
  /\ running = {}
  /\ waiting # << >>
  /\ running' = {Head(waiting)}
  /\ waiting' = Tail(waiting)
  /\ UNCHANGED <<finished, closed, cleared, down>>

Finish(t) ==
  /\ running = {t}
  /\ running' = {}
  /\ finished' = finished \cup {t}
  /\ UNCHANGED <<waiting, closed, cleared, down>>

Close ==
  /\ ~closed
  /\ closed' = TRUE
  /\ UNCHANGED <<waiting, running, finished, cleared, down>>

\* Shutdown runs once, so the waiting tasks are discarded at most once.
Discard ==
  /\ closed
  /\ ~cleared
  /\ cleared' = TRUE
  /\ waiting' = << >>
  /\ UNCHANGED <<running, finished, closed, down>>

PoolGoesDown ==
  /\ down' = TRUE
  /\ UNCHANGED <<waiting, running, finished, closed, cleared>>

Next ==
  \/ \E t \in Task : Accept(t) \/ Finish(t)
  \/ Start
  \/ Close
  \/ Discard
  \/ PoolGoesDown

Safety == Init /\ [][Next]_vars

Fairness ==
  /\ WF_vars(~down /\ Start)
  /\ WF_vars(\E t \in Task : Finish(t))

Spec == Safety /\ Fairness
=============================================================================
