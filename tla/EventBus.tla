------------------------------ MODULE EventBus ------------------------------
(***************************************************************************)
(* EventBus: subscriptions and deliveries on one SequencedTaskRunner.      *)
(* Every call posts a closure; closures run one at a time, so the tables   *)
(* of subscribers need no lock.  The closure of a Publish posts one more   *)
(* task for every handler, behind whatever was posted in the meantime.     *)
(*                                                                         *)
(* The runner is the sequential executor of module Strand, which module    *)
(* SequencedRunner is shown to implement.                                  *)
(*                                                                         *)
(* Calls are numbered in the order in which the runner accepts them, and   *)
(* the number of a Subscribe is its subscription id.  Handlers that call   *)
(* the bus are covered: a post never blocks, so a call from a goroutine of *)
(* its own has the same effects in more orders.                            *)
(***************************************************************************)
EXTENDS Naturals, Sequences, FiniteSets

CONSTANTS
  Type,             \* event types
  MaxCalls,         \* bound: calls of Subscribe, Publish, Unsubscribe, WaitIdle
  MaxUnsubscribes   \* bound: calls of Unsubscribe with one id

ASSUME CallsAssumption == MaxCalls \in Nat
ASSUME UnsubscribesAssumption == MaxUnsubscribes \in Nat

Id == 1..MaxCalls

\* What is called, and for which event type or subscription.
Call ==
  [op : {"subscribe", "publish"}, type : Type]
    \cup [op : {"unsubscribe"}, id : Id] \cup [op : {"wait"}]

\* A task of the runner: <<n, 0>> is the closure of call n, and <<n, k>> runs
\* the handler of subscription k for the event that call n published.
Task == Id \X (0..MaxCalls)

VARIABLES
  begun,       \* calls begun so far
  checked,     \* calls that have passed the check for a closed bus or runner
  calls,       \* history: the calls whose closure was accepted, in that order
  subs,        \* the subscriptions of each event type
  byID,        \* the locator of each subscription id
  busClosed,   \* Close has stored true
  fan,         \* the position of the running fan-out, and whether it has
               \* passed the runner's closed check
  delivered,   \* history: the handlers called, as <<publish, subscription>>
  queue, running, finished, runnerClosed, cleared, down    \* the runner

busVars == <<subs, byID, fan, delivered>>
callVars == <<begun, checked, calls>>
runnerVars == <<queue, running, finished, runnerClosed, cleared, down>>
vars == <<callVars, busVars, busClosed, runnerVars>>

runner == INSTANCE Strand WITH
  waiting <- queue, closed <- runnerClosed

Init ==
  /\ begun = 0
  /\ checked = {}
  /\ calls = << >>
  /\ subs = [t \in Type |-> << >>]
  /\ byID = << >>
  /\ busClosed = FALSE
  /\ fan = [next |-> 1, checked |-> FALSE]
  /\ delivered = << >>
  /\ runner!Init

-----------------------------------------------------------------------------
(* The callers.                                                            *)

\* Callers hold the id of a subscription once Subscribe has returned.
timesUnsubscribed(k) ==
  Cardinality({n \in 1..Len(calls) : calls[n] = [op |-> "unsubscribe", id |-> k]})

mayCall(c) ==
  c.op = "unsubscribe" =>
    /\ c.id \in 1..Len(calls)
    /\ calls[c.id].op = "subscribe"
    /\ c \notin checked
    /\ timesUnsubscribed(c.id) < MaxUnsubscribes

\* The check of a call: Publish looks at the bus, the others are checked by the
\* runner.  A call that finds it closed has no effect.
BeginCall(c) ==
  /\ begun < MaxCalls
  /\ mayCall(c)
  /\ begun' = begun + 1
  /\ checked' = IF (c.op = "publish" /\ busClosed) \/ runnerClosed
                  THEN checked ELSE checked \cup {c}
  /\ UNCHANGED <<calls, busVars, busClosed, runnerVars>>

\* The runner accepts the closure.
PostClosure(c) ==
  /\ c \in checked
  /\ checked' = checked \ {c}
  /\ calls' = Append(calls, c)
  /\ runner!Accept(<<Len(calls'), 0>>)
  /\ UNCHANGED <<begun, busVars, busClosed>>

Close ==
  /\ ~busClosed
  /\ busClosed' = TRUE
  /\ UNCHANGED <<callVars, busVars, runnerVars>>

\* Close goes on to shut the runner down; so may the owner of a runner that the
\* bus was given by NewEventBusFromRunner, without a Close of the bus.
ShutdownRunner ==
  /\ runner!Close \/ runner!Discard
  /\ UNCHANGED <<callVars, busVars, busClosed>>

\* The thread pool under the runner is shut down: no task need be started.
PoolGoesDown ==
  /\ ~down
  /\ runner!PoolGoesDown
  /\ UNCHANGED <<callVars, busVars, busClosed>>

-----------------------------------------------------------------------------
(* The closures, on the runner.                                            *)

\* Fault: the runner hands out its newest task first.
StartNewestTask ==
  /\ running = {}
  /\ queue # << >>
  /\ running' = {queue[Len(queue)]}
  /\ queue' = SubSeq(queue, 1, Len(queue) - 1)
  /\ UNCHANGED <<finished, runnerClosed, cleared, down, callVars, busVars, busClosed>>

StartTask ==
  /\ runner!Start
  /\ UNCHANGED <<callVars, busVars, busClosed>>

\* The closure of call n is running, and the call is of the given kind.
isRunning(n, op) == running = {<<n, 0>>} /\ calls[n].op = op

endTask(n) == runner!Finish(<<n, 0>>)

RunSubscribe(n) ==
  /\ isRunning(n, "subscribe")
  /\ LET t == calls[n].type IN
       /\ subs' = [subs EXCEPT ![t] = Append(@, n)]
       /\ byID' = [k \in DOMAIN byID \cup {n} |->
                     IF k = n THEN [type |-> t, index |-> Len(subs'[t])] ELSE byID[k]]
  /\ endTask(n)
  /\ UNCHANGED <<callVars, busClosed, fan, delivered>>

\* A list without its element at index i, whose place the last one takes.
swapRemove(list, i) ==
  SubSeq([list EXCEPT ![i] = list[Len(list)]], 1, Len(list) - 1)

without(map, k) == [j \in DOMAIN map \ {k} |-> map[j]]

\* Fault: the locator of the subscription that was moved is not updated.
UnsubscribeKeepsLocator(k) ==
  LET loc  == byID[k]
      list == subs[loc.type]
      rest == swapRemove(list, loc.index)
  IN  IF k \notin DOMAIN byID \/ loc.index > Len(list)
        THEN UNCHANGED <<subs, byID>>
        ELSE /\ subs' = [subs EXCEPT ![loc.type] = rest]
             /\ byID' = without(byID, k)

\* Fault: the last subscription is dropped, whichever was meant.
UnsubscribeDropsLast(k) ==
  LET loc == byID[k] IN
    IF k \notin DOMAIN byID \/ subs[loc.type] = << >>
      THEN UNCHANGED <<subs, byID>>
      ELSE LET last == subs[loc.type][Len(subs[loc.type])] IN
           /\ subs' = [subs EXCEPT ![loc.type] = SubSeq(@, 1, Len(@) - 1)]
           /\ byID' = without(byID, last)

\* What Unsubscribe does to the tables.  An index out of range panics, and the
\* runner recovers: a stale locator leaves everything as it is, and the removal
\* of the last of several subscriptions leaves its locator behind.
unsubscribe(k) ==
  LET loc  == byID[k]
      list == subs[loc.type]
      rest == swapRemove(list, loc.index)
  IN  IF k \notin DOMAIN byID \/ loc.index > Len(list)
        THEN UNCHANGED <<subs, byID>>
        ELSE /\ subs' = [subs EXCEPT ![loc.type] = rest]
             /\ byID' = IF rest = << >>         THEN without(byID, k)
                        ELSE IF loc.index > Len(rest) THEN byID
                        ELSE without([byID EXCEPT ![rest[loc.index]] = loc], k)

RunUnsubscribe(n) ==
  /\ isRunning(n, "unsubscribe")
  /\ unsubscribe(calls[n].id)
  /\ endTask(n)
  /\ UNCHANGED <<callVars, busClosed, fan, delivered>>

\* The loop of a fan-out: PostTask's closed check for the next handler ...
FanOutCheck(n) ==
  /\ isRunning(n, "publish")
  /\ ~fan.checked
  /\ fan.next <= Len(subs[calls[n].type])
  /\ fan' = IF runnerClosed THEN [fan EXCEPT !.next = @ + 1]
                            ELSE [fan EXCEPT !.checked = TRUE]
  /\ UNCHANGED <<callVars, busClosed, subs, byID, delivered, runnerVars>>

\* ... and its push.
FanOutPost(n) ==
  /\ isRunning(n, "publish")
  /\ fan.checked
  /\ runner!Accept(<<n, subs[calls[n].type][fan.next]>>)
  /\ fan' = [next |-> fan.next + 1, checked |-> FALSE]
  /\ UNCHANGED <<callVars, busClosed, subs, byID, delivered>>

\* Fault: the loop stops before its last handler.
FanOutEndsEarly(n) ==
  /\ isRunning(n, "publish")
  /\ ~fan.checked
  /\ fan.next >= Len(subs[calls[n].type])
  /\ fan' = [next |-> 1, checked |-> FALSE]
  /\ endTask(n)
  /\ UNCHANGED <<callVars, busClosed, subs, byID, delivered>>

FanOutEnd(n) ==
  /\ isRunning(n, "publish")
  /\ ~fan.checked
  /\ fan.next > Len(subs[calls[n].type])
  /\ fan' = [next |-> 1, checked |-> FALSE]
  /\ endTask(n)
  /\ UNCHANGED <<callVars, busClosed, subs, byID, delivered>>

\* A handler returns, or panics and the runner recovers.
RunHandler(n, k) ==
  /\ running = {<<n, k>>}
  /\ delivered' = Append(delivered, <<n, k>>)
  /\ runner!Finish(<<n, k>>)
  /\ UNCHANGED <<callVars, busClosed, subs, byID, fan>>

\* The barrier task of WaitIdle, whose call returns nil from here on.
RunBarrier(n) ==
  /\ isRunning(n, "wait")
  /\ endTask(n)
  /\ UNCHANGED <<callVars, busClosed, busVars>>

-----------------------------------------------------------------------------
RunTask ==
  \/ \E n \in Id : \/ RunSubscribe(n) \/ RunUnsubscribe(n) \/ RunBarrier(n)
                   \/ FanOutCheck(n) \/ FanOutPost(n) \/ FanOutEnd(n)
  \/ \E n, k \in Id : RunHandler(n, k)

Next ==
  \/ \E c \in Call : BeginCall(c) \/ PostClosure(c)
  \/ Close
  \/ ShutdownRunner
  \/ PoolGoesDown
  \/ StartTask
  \/ RunTask

\* What the runner promises: while the pool is up a waiting task is started, and
\* a started task ends.  Nobody has to call or to close.
Fairness == WF_vars(~down /\ StartTask) /\ WF_vars(RunTask)

Safety == Init /\ [][Next]_vars
Spec == Safety /\ Fairness

-----------------------------------------------------------------------------
(* Properties.                                                             *)

\* The two tables agree: the locator of every subscription in the lists leads
\* to its place, however often unsubscribing moved subscriptions around.
LocatorsAgree ==
  \A t \in Type : \A i \in 1..Len(subs[t]) :
    LET k == subs[t][i] IN
      k \in DOMAIN byID /\ byID[k] = [type |-> t, index |-> i]

\* The reference for who must hear of an event: the subscriptions to its type
\* that were made before it was published and not cancelled before it.
audience(n) ==
  {k \in 1..(n - 1) :
     /\ calls[k] = [op |-> "subscribe", type |-> calls[n].type]
     /\ \A j \in k..n : calls[j] # [op |-> "unsubscribe", id |-> k]}

isPublish(n) == calls[n].op = "publish"

\* The subscriptions whose handler has been posted for publish n.
posted(n) ==
  {k \in Id : \/ <<n, k>> \in finished \cup running
              \/ \E i \in 1..Len(queue) : queue[i] = <<n, k>>}

\* No subscription is cancelled twice by the calls up to n.  The premise is
\* needed: Unsubscribe of the last of several subscriptions panics after it has
\* shortened the list and leaves the locator behind, and a second Unsubscribe
\* with that id then removes whoever has taken the place since.
cancelledOnce(n) ==
  \A i, j \in 1..n : calls[i].op = "unsubscribe" /\ calls[i] = calls[j] => i = j

\* A fan-out reaches exactly the subscriptions of the reference: nobody else
\* is ever called, and until the runner is closed nobody is forgotten, as long
\* as no subscription was cancelled twice before.
ReachesAudience ==
  \A n \in 1..Len(calls) : isPublish(n) /\ cancelledOnce(n) =>
    /\ ~cleared => posted(n) \subseteq audience(n)
    /\ ~runnerClosed /\ <<n, 0>> \in finished => posted(n) = audience(n)

\* Events reach the handlers one at a time, in the order in which they were
\* published, and no handler is called twice for an event.
EventsInOrder ==
  \A i, j \in 1..Len(delivered) : i < j =>
    delivered[i][1] <= delivered[j][1] /\ delivered[i] # delivered[j]

\* Every event that was accepted is delivered to all of its audience, unless
\* the runner is closed or the thread pool goes down, and as long as no
\* subscription was cancelled twice before it was published.
PublishDelivers ==
  \A n \in Id :
    LET accepted == n <= Len(calls) /\ isPublish(n) /\ cancelledOnce(n) IN
      accepted ~> \/ runnerClosed
                  \/ down
                  \/ accepted /\ \A k \in audience(n) : <<n, k>> \in finished

=============================================================================
