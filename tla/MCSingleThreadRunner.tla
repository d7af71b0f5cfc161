------------------------ MODULE MCSingleThreadRunner ------------------------
(* Small instances of SingleThreadRunner for TLC.                           *)
EXTENDS SingleThreadRunner

\* Two tasks beside the tick and the barriers fill the channel under a task that
\* posts to its own runner.  The second is posted once runLoop has taken the
\* first, or the first never got there.  The bound holds back a post, which
\* nobody is obliged to make, and no step that fairness is about.
first == CHOOSE t \in Task \ Barrier : TRUE

Load ==
  \A t \in Task \ (Barrier \cup {first}) : status[t] # "new" =>
    status[first] \notin {"new", "armed", "checked", "sending", "queued"}

=============================================================================
