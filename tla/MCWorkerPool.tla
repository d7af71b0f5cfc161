---------------------------- MODULE MCWorkerPool ----------------------------
(* Small instances of WorkerPool for TLC.                                   *)
EXTENDS WorkerPool, TLC, FiniteSetsExt

\* The posters other than the delay manager's goroutine are interchangeable,
\* and so are the workers and the stoppers.
Symmetry ==
  Permutations(Workers) \cup Permutations(Posters \ {DelayLoop})
    \cup Permutations(Stoppers)

\* How much is posted.  The bounds hold back the posters and the second stopper,
\* whose calls nobody is obliged to make, and no step that fairness is about.
begun == MapThenSumSet(LAMBDA p : posts[p], Posters)
allStop == \A s \in Stoppers : spc[s] # "idle"

\* Every interleaving of one stopper with MaxPosts posts of each poster, and of
\* two stoppers with one post.
SafetyLoad == allStop => begun <= 1

\* The same without symmetry: of two stoppers the first to be called is always
\* the same one, and the delay manager posts one task less than the others.
LiveLoad ==
  /\ SafetyLoad
  /\ (\E s \in Stoppers : spc[s] # "idle") => spc[CHOOSE s \in Stoppers : TRUE] # "idle"
  /\ posts[DelayLoop] < MaxPosts
=============================================================================
