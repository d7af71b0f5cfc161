----------------------------- MODULE MCEventBus -----------------------------
(* Small instances of EventBus for TLC.                                     *)
EXTENDS EventBus

\* How long the bus is used.  Five calls take the tables through two
\* cancellations, of one id or of two, and a publish after them.  Fewer calls
\* are made on a bus that ends: four when they are all about one event type,
\* three of any kind.  The bound holds back calls and shutdowns, which nobody is
\* obliged to make, and no step that fairness is about.
ended == busClosed \/ runnerClosed \/ down

oneType ==
  LET t == CHOOSE u \in Type : TRUE
  IN  \A c \in {calls[i] : i \in 1..Len(calls)} \cup checked :
        c.op \in {"subscribe", "publish"} => c.type = t

Load == ended => begun <= IF oneType THEN MaxCalls - 1 ELSE MaxCalls - 2
=============================================================================
