--------------------------- MODULE EventBusProofs ---------------------------
(***************************************************************************)
(* The bus, for any number of calls and event types: its two tables agree, *)
(* events are delivered in order and once, and, when no subscription is    *)
(* cancelled twice, a fan-out reaches exactly the subscriptions made and   *)
(* not cancelled before it.                                                *)
(***************************************************************************)
EXTENDS EventBus, TLAPS, FiniteSetTheorems

isClosure(t) == t[2] = 0
Waiting == {queue[i] : i \in DOMAIN queue}

\* The tasks of the calls that were accepted.
Known == (1..Len(calls)) \X (0..MaxCalls)

TypeInv ==
  /\ calls \in Seq(Call)
  /\ checked \subseteq Call
  /\ subs \in [Type -> Seq(Id)]
  /\ \A k \in DOMAIN byID : byID[k] \in [type : Type, index : Nat \ {0}]
  /\ fan \in [next : Nat \ {0}, checked : BOOLEAN]
  /\ delivered \in Seq(Known)
  /\ queue \in Seq(Known)
  /\ running \subseteq Known
  /\ finished \subseteq Known
  /\ {runnerClosed, cleared} \subseteq BOOLEAN
  /\ \A s, t \in running : s = t

\* Closures run in the order of their calls: one that waits is the newest of what
\* was handled before it, and no event handled so far is a later one.
ClosureInv ==
  /\ \A s \in running \cup finished : \A j \in DOMAIN queue :
       isClosure(queue[j]) => s[1] < queue[j][1]
  /\ \A i, j \in DOMAIN queue :
       isClosure(queue[j]) /\ (i < j \/ ~isClosure(queue[i])) => queue[i][1] < queue[j][1]
  /\ \A r \in running, f \in finished : isClosure(r) => f[1] < r[1]

\* The handlers that the running fan-out has posted are those before its position.
FanInv ==
  /\ \A r \in running : isClosure(r) /\ calls[r[1]].op = "publish" =>
       /\ fan.next <= Len(subs[calls[r[1]].type]) + 1
       /\ fan.checked => fan.next <= Len(subs[calls[r[1]].type])
  /\ \/ \E r \in running : isClosure(r) /\ calls[r[1]].op = "publish"
     \/ fan = [next |-> 1, checked |-> FALSE]
  /\ \A r \in running, i \in DOMAIN queue : isClosure(r) /\ ~isClosure(queue[i]) =>
       \/ queue[i][1] < r[1]
       \/ /\ queue[i][1] = r[1] /\ calls[r[1]].op = "publish"
          /\ \E m \in 1..(fan.next - 1) : queue[i][2] = subs[calls[r[1]].type][m]

\* Handlers wait, run and have run in the order of the events, each once per event.
HandlerInv ==
  /\ \A i, j \in DOMAIN queue : i < j /\ ~isClosure(queue[i]) /\ ~isClosure(queue[j]) =>
       queue[i][1] <= queue[j][1] /\ queue[i] # queue[j]
  /\ \A s \in running \cup finished, j \in DOMAIN queue : ~isClosure(s) /\ ~isClosure(queue[j]) =>
       s[1] <= queue[j][1] /\ s # queue[j]
  /\ \A f \in finished, r \in running : ~isClosure(f) /\ ~isClosure(r) => f[1] <= r[1] /\ f # r
  /\ \A i \in DOMAIN delivered : delivered[i] \in finished /\ ~isClosure(delivered[i])

\* Only subscriptions that were made have a locator.
IdInv == \A k \in DOMAIN byID : <<k, 0>> \in finished

BusInv ==
  TypeInv /\ ClosureInv /\ FanInv /\ HandlerInv /\ IdInv /\ LocatorsAgree /\ EventsInOrder

-----------------------------------------------------------------------------
(* Who is to be reached.                                                   *)

subscribes(k, t) == calls[k] = [op |-> "subscribe", type |-> t]
unsubscribes(j, k) == calls[j] = [op |-> "unsubscribe", id |-> k]

\* The tasks that were accepted and not discarded.
Tasks == finished \cup running \cup Waiting

inList(k, t) == \E i \in DOMAIN subs[t] : subs[t][i] = k
cancelled(k) == \E j \in 1..Len(calls) : <<j, 0>> \in finished /\ unsubscribes(j, k)

\* A subscription is cancelled after it was made.
CancelInv ==
  /\ \A j \in 1..Len(calls) : calls[j].op = "unsubscribe" =>
       calls[j].id \in 1..(j - 1) /\ calls[calls[j].id].op = "subscribe"
  /\ \A c \in checked : c.op = "unsubscribe" =>
       c.id \in 1..Len(calls) /\ calls[c.id].op = "subscribe"

\* No subscription has been cancelled twice by the closures that have run.
ranOnce ==
  \A i, j \in 1..Len(calls) :
    /\ <<i, 0>> \in finished /\ <<j, 0>> \in finished
    /\ calls[i].op = "unsubscribe" /\ calls[i] = calls[j]
    => i = j

\* No closure is lost, and the lists are what the closures run so far make them
\* until one of them used the locator that an earlier one had left behind.
TableInv ==
  ~cleared =>
    /\ \A n \in 1..Len(calls) : <<n, 0>> \in Tasks
    /\ ranOnce => \A t \in Type : \A k :
         inList(k, t) <=> <<k, 0>> \in finished /\ subscribes(k, t) /\ ~cancelled(k)

\* Until the bus is closed a fan-out leaves nobody out.
PostedInv ==
  /\ ~runnerClosed => ~cleared
  /\ ~runnerClosed =>
       \A r \in running : isClosure(r) /\ calls[r[1]].op = "publish" =>
         \A m \in 1..(fan.next - 1) : <<r[1], subs[calls[r[1]].type][m]>> \in Waiting

ReachInv == CancelInv /\ TableInv /\ PostedInv /\ ReachesAudience

-----------------------------------------------------------------------------
(* Sequences and calls.                                                    *)

\* What Append does, place by place.
LEMMA AppendIs ==
  ASSUME NEW S, NEW q \in Seq(S), NEW x \in S
  PROVE  /\ Append(q, x) \in Seq(S) /\ Len(Append(q, x)) = Len(q) + 1
         /\ \A k \in DOMAIN q : k \in DOMAIN Append(q, x) /\ Append(q, x)[k] = q[k]
         /\ Len(q) + 1 \in DOMAIN Append(q, x) /\ Append(q, x)[Len(q) + 1] = x
         /\ \A k \in DOMAIN Append(q, x) : k \in DOMAIN q \/ (k = Len(q) + 1 /\ Append(q, x)[k] = x)
         /\ \A k \in DOMAIN q : k \in Nat /\ 1 <= k /\ k < Len(q) + 1
         /\ DOMAIN q = 1..Len(q)
OBVIOUS

\* What Tail does, place by place.
LEMMA TailIs ==
  ASSUME NEW S, NEW q \in Seq(S), q # << >>
  PROVE  /\ Tail(q) \in Seq(S) /\ 1 \in DOMAIN q /\ Head(q) = q[1] /\ q[1] \in S
         /\ \A k \in DOMAIN Tail(q) : k \in Nat /\ 1 < k + 1 /\ k + 1 \in DOMAIN q /\ Tail(q)[k] = q[k + 1]
         /\ \A k \in DOMAIN q : k # 1 => k - 1 \in DOMAIN Tail(q) /\ Tail(q)[k - 1] = q[k]
OBVIOUS

\* A longer list of calls knows more tasks.
LEMMA SeqWider ==
  ASSUME NEW S, NEW T, S \subseteq T, NEW q \in Seq(S)
  PROVE  q \in Seq(T)
OBVIOUS

\* The calls by their kind.
LEMMA CallIs ==
  ASSUME NEW c \in Call
  PROVE  /\ c.op \in {"subscribe", "publish", "unsubscribe", "wait"}
         /\ c.op \in {"subscribe", "publish"} => c.type \in Type /\ c = [op |-> c.op, type |-> c.type]
         /\ c.op = "unsubscribe" => c.id \in Id /\ c = [op |-> "unsubscribe", id |-> c.id]
BY DEF Call

\* swapRemove drops the element at its index and nothing else.
LEMMA SwapRemoveIs ==
  ASSUME NEW list \in Seq(Id), NEW i \in 1..Len(list)
  PROVE  /\ swapRemove(list, i) \in Seq(Id)
         /\ Len(swapRemove(list, i)) = Len(list) - 1
         /\ \A m \in 1..(Len(list) - 1) :
              swapRemove(list, i)[m] = IF m = i THEN list[Len(list)] ELSE list[m]
<1> DEFINE l == [list EXCEPT ![i] = list[Len(list)]]
<1>1. l \in Seq(Id) /\ Len(l) = Len(list) /\ \A m \in 1..Len(list) : l[m] = IF m = i THEN list[Len(list)] ELSE list[m]
  OBVIOUS
<1> HIDE DEF l
<1>2. Len(list) \in Nat /\ Len(list) - 1 \in Nat
  OBVIOUS
<1>3. /\ SubSeq(l, 1, Len(l) - 1) \in Seq(Id)
      /\ Len(SubSeq(l, 1, Len(l) - 1)) = Len(l) - 1
      /\ \A m \in 1..(Len(l) - 1) : SubSeq(l, 1, Len(l) - 1)[m] = l[m]
  BY <1>1, <1>2
<1>4. swapRemove(list, i) = SubSeq(l, 1, Len(l) - 1)
  BY <1>1 DEF swapRemove, l
<1> QED BY <1>1, <1>2, <1>3, <1>4

\* The call of a closure that the runner knows.
LEMMA KnownIs ==
  ASSUME TypeInv, NEW t \in Known
  PROVE  /\ t[1] \in 1..Len(calls) /\ t[1] \in Nat /\ t[2] \in 0..MaxCalls
         /\ calls[t[1]] \in Call
         /\ t = <<t[1], t[2]>>
BY DEF TypeInv, Known

\* The running closure of a call.
LEMMA RunningIs ==
  ASSUME TypeInv, ClosureInv, NEW n \in Id, running = {<<n, 0>>}
  PROVE  /\ n \in 1..Len(calls) /\ calls[n] \in Call
         /\ <<n, 0>> \in running /\ isClosure(<<n, 0>>)
         /\ \A f \in finished : f[1] < n
         /\ <<n, 0>> \notin finished
<1>1. <<n, 0>> \in Known
  BY DEF TypeInv
<1>2. n \in 1..Len(calls) /\ calls[n] \in Call
  BY <1>1 DEF Known, TypeInv
<1>3. \A f \in finished : f[1] < n
  BY DEF ClosureInv, isClosure
<1> QED BY <1>2, <1>3 DEF isClosure

-----------------------------------------------------------------------------
(* Steps of the callers and of the runner.                                 *)

\* A call is accepted: its closure goes behind all that waits.
LEMMA PostClosureKeeps ==
  ASSUME BusInv, NEW c \in Call, PostClosure(c)
  PROVE  BusInv'
<1> USE DEF BusInv, busVars, runnerVars, callVars
<1> DEFINE new == <<Len(calls) + 1, 0>>
<1>1. /\ calls' = Append(calls, c) /\ checked' = checked \ {c}
      /\ UNCHANGED <<busVars, running, finished, runnerClosed, cleared>>
      /\ queue' = Append(queue, <<Len(calls'), 0>>)
  BY DEF PostClosure, runner!Accept
<1>2. /\ calls' \in Seq(Call) /\ Len(calls') = Len(calls) + 1 /\ Len(calls) \in Nat
      /\ \A n \in 1..Len(calls) : calls'[n] = calls[n]
  BY <1>1 DEF TypeInv
<1>3. Known \subseteq Known' /\ new \in Known' /\ isClosure(new)
  BY <1>2, CallsAssumption DEF Known, isClosure
<1>4. queue \in Seq(Known') /\ delivered \in Seq(Known')
  BY <1>3, SeqWider DEF TypeInv
<1>5. queue' = Append(queue, new)
  BY <1>1, <1>2
<1> HIDE DEF new
<1>6. /\ queue' \in Seq(Known')
      /\ \A k \in DOMAIN queue : k \in DOMAIN queue' /\ queue'[k] = queue[k]
      /\ \A k \in DOMAIN queue' : k \in DOMAIN queue \/ (queue'[k] = new /\ \A m \in DOMAIN queue : m < k)
      /\ \A k, m \in DOMAIN queue' : k < m => k \in DOMAIN queue
  BY <1>3, <1>4, <1>5, AppendIs
<1>7. \A t \in Known : t[1] \in 1..Len(calls) /\ t[1] < new[1] /\ calls'[t[1]] = calls[t[1]]
  BY <1>2 DEF Known, new
<1>8. TypeInv'
  BY <1>1, <1>2, <1>3, <1>4, <1>6 DEF TypeInv
<1>9. /\ \A s \in running \cup finished : s \in Known
      /\ \A k \in DOMAIN queue : queue[k] \in Known
  BY DEF TypeInv
<1>10. ClosureInv'
  <2>1. ASSUME NEW s \in running \cup finished, NEW j \in DOMAIN queue', isClosure(queue'[j])
        PROVE  s[1] < queue'[j][1]
    <3>1. CASE j \in DOMAIN queue
      BY <1>6, <2>1, <3>1 DEF ClosureInv
    <3>2. CASE j \notin DOMAIN queue
      BY <1>6, <1>7, <1>9, <3>2
    <3> QED BY <3>1, <3>2
  <2>2. ASSUME NEW i \in DOMAIN queue', NEW j \in DOMAIN queue', isClosure(queue'[j]),
               i < j \/ ~isClosure(queue'[i])
        PROVE  queue'[i][1] < queue'[j][1]
    <3>1. i \in DOMAIN queue /\ queue'[i] = queue[i]
      BY <1>3, <1>6, <2>2
    <3>2. CASE j \in DOMAIN queue
      BY <1>6, <2>2, <3>1, <3>2 DEF ClosureInv
    <3>3. CASE j \notin DOMAIN queue
      BY <1>6, <1>7, <1>9, <3>1, <3>3
    <3> QED BY <3>2, <3>3
  <2>3. ASSUME NEW r \in running, NEW f \in finished, isClosure(r)
        PROVE  f[1] < r[1]
    BY <2>3 DEF ClosureInv
  <2> QED BY <1>1, <2>1, <2>2, <2>3 DEF ClosureInv
<1>11. FanInv'
  <2>1. \A r \in running : calls'[r[1]] = calls[r[1]]
    BY <1>7, <1>9
  <2>2. UNCHANGED <<running, fan, subs>>
    BY <1>1
  <2>3. \A i \in DOMAIN queue' : ~isClosure(queue'[i]) => i \in DOMAIN queue /\ queue'[i] = queue[i]
    BY <1>3, <1>6
  <2>4. \A r \in running, i \in DOMAIN queue' : isClosure(r) /\ ~isClosure(queue'[i]) =>
          \/ queue'[i][1] < r[1]
          \/ /\ queue'[i][1] = r[1] /\ calls[r[1]].op = "publish"
             /\ \E m \in 1..(fan.next - 1) : queue'[i][2] = subs[calls[r[1]].type][m]
    BY <2>3 DEF FanInv
  <2> QED BY <2>1, <2>2, <2>4 DEF FanInv
<1>12. HandlerInv'
  <2>1. \A i \in DOMAIN queue' : ~isClosure(queue'[i]) => i \in DOMAIN queue /\ queue'[i] = queue[i]
    BY <1>3, <1>6
  <2>2. UNCHANGED <<running, finished, delivered>>
    BY <1>1
  <2> QED BY <2>1, <2>2 DEF HandlerInv
<1>13. IdInv' /\ LocatorsAgree' /\ EventsInOrder'
  BY <1>1 DEF IdInv, LocatorsAgree, EventsInOrder
<1> QED BY <1>8, <1>10, <1>11, <1>12, <1>13

\* The runner takes the oldest task.
LEMMA StartKeeps ==
  ASSUME BusInv, StartTask
  PROVE  BusInv'
<1> USE DEF BusInv, busVars, runnerVars, callVars
<1>1. /\ running = {} /\ queue # << >> /\ running' = {Head(queue)} /\ queue' = Tail(queue)
      /\ UNCHANGED <<finished, runnerClosed, cleared, callVars, busVars>>
  BY DEF StartTask, runner!Start
<1>2. /\ queue' \in Seq(Known) /\ 1 \in DOMAIN queue /\ Head(queue) = queue[1] /\ queue[1] \in Known
      /\ \A k \in DOMAIN queue' : k \in Nat /\ 1 < k + 1 /\ k + 1 \in DOMAIN queue /\ queue'[k] = queue[k + 1]
  BY <1>1, TailIs DEF TypeInv
<1>3. TypeInv'
  BY <1>1, <1>2 DEF TypeInv, Known
<1>4. ClosureInv'
  <2>1. ASSUME NEW s \in running' \cup finished', NEW j \in DOMAIN queue', isClosure(queue'[j])
        PROVE  s[1] < queue'[j][1]
    BY <1>1, <1>2, <2>1 DEF ClosureInv
  <2>2. ASSUME NEW i \in DOMAIN queue', NEW j \in DOMAIN queue', isClosure(queue'[j]),
               i < j \/ ~isClosure(queue'[i])
        PROVE  queue'[i][1] < queue'[j][1]
    <3>1. /\ i + 1 \in DOMAIN queue /\ j + 1 \in DOMAIN queue
          /\ queue'[i] = queue[i + 1] /\ queue'[j] = queue[j + 1]
          /\ i < j => i + 1 < j + 1
      BY <1>2
    <3> QED BY <2>2, <3>1 DEF ClosureInv
  <2>3. ASSUME NEW r \in running', NEW f \in finished', isClosure(r)
        PROVE  f[1] < r[1]
    BY <1>1, <1>2, <2>3 DEF ClosureInv
  <2> QED BY <2>1, <2>2, <2>3 DEF ClosureInv
<1>5. FanInv'
  <2>1. fan = [next |-> 1, checked |-> FALSE]
    BY <1>1 DEF FanInv
  <2>2. \A r \in running' : isClosure(r) /\ calls[r[1]].op = "publish" => Len(subs[calls[r[1]].type]) \in Nat
    <3>1. running' \subseteq Known
      BY <1>1, <1>2
    <3>2. \A r \in Known : calls[r[1]] \in Call
      BY KnownIs
    <3> QED BY <3>1, <3>2, CallIs DEF TypeInv
  <2>3. \A r \in running', i \in DOMAIN queue' : isClosure(r) /\ ~isClosure(queue'[i]) => queue'[i][1] < r[1]
    BY <1>1, <1>2 DEF ClosureInv
  <2> QED BY <1>1, <2>1, <2>2, <2>3 DEF FanInv
<1>6. HandlerInv'
  <2>1. ASSUME NEW i \in DOMAIN queue', NEW j \in DOMAIN queue', i < j,
               ~isClosure(queue'[i]), ~isClosure(queue'[j])
        PROVE  queue'[i][1] <= queue'[j][1] /\ queue'[i] # queue'[j]
    <3>1. /\ i + 1 \in DOMAIN queue /\ j + 1 \in DOMAIN queue
          /\ queue'[i] = queue[i + 1] /\ queue'[j] = queue[j + 1]
          /\ i + 1 < j + 1
      BY <1>2, <2>1
    <3> QED BY <2>1, <3>1 DEF HandlerInv
  <2>2. ASSUME NEW s \in running' \cup finished', NEW j \in DOMAIN queue', ~isClosure(s), ~isClosure(queue'[j])
        PROVE  s[1] <= queue'[j][1] /\ s # queue'[j]
    BY <1>1, <1>2, <2>2 DEF HandlerInv
  <2>3. ASSUME NEW f \in finished', NEW r \in running', ~isClosure(f), ~isClosure(r)
        PROVE  f[1] <= r[1] /\ f # r
    BY <1>1, <1>2, <2>3 DEF HandlerInv
  <2>4. \A i \in DOMAIN delivered' : delivered'[i] \in finished' /\ ~isClosure(delivered'[i])
    BY <1>1 DEF HandlerInv
  <2> QED BY <2>1, <2>2, <2>3, <2>4 DEF HandlerInv
<1>7. IdInv' /\ LocatorsAgree' /\ EventsInOrder'
  BY <1>1 DEF IdInv, LocatorsAgree, EventsInOrder
<1> QED BY <1>3, <1>4, <1>5, <1>6, <1>7

\* The running closure ends, after whatever it did to the tables.
LEMMA ClosureEnds ==
  ASSUME BusInv, NEW n \in Id, running = {<<n, 0>>}, endTask(n),
         UNCHANGED <<callVars, delivered>>,
         fan' = [next |-> 1, checked |-> FALSE],
         subs' \in [Type -> Seq(Id)],
         \A k \in DOMAIN byID' : byID'[k] \in [type : Type, index : Nat \ {0}],
         IdInv', LocatorsAgree'
  PROVE  BusInv'
<1> USE DEF BusInv, busVars, runnerVars, callVars
<1>1. /\ running' = {} /\ finished' = finished \cup {<<n, 0>>}
      /\ UNCHANGED <<queue, runnerClosed, cleared>>
  BY DEF endTask, runner!Finish
<1>2. TypeInv'
  BY <1>1 DEF TypeInv, Known
<1>3. <<n, 0>> \in running /\ isClosure(<<n, 0>>)
  BY DEF isClosure
<1>4. ClosureInv'
  BY <1>1, <1>3 DEF ClosureInv
<1>5. FanInv'
  BY <1>1 DEF FanInv
<1>6. HandlerInv'
  BY <1>1, <1>3 DEF HandlerInv
<1>7. EventsInOrder'
  BY DEF EventsInOrder
<1> QED BY <1>2, <1>4, <1>5, <1>6, <1>7

\* A handler returns.
LEMMA HandlerKeeps ==
  ASSUME BusInv, NEW n \in Id, NEW k \in Id, RunHandler(n, k)
  PROVE  BusInv'
<1> USE DEF BusInv, busVars, runnerVars, callVars
<1> DEFINE h == <<n, k>>
<1>1. /\ running = {h} /\ running' = {} /\ finished' = finished \cup {h}
      /\ delivered' = Append(delivered, h)
      /\ UNCHANGED <<queue, runnerClosed, cleared, callVars, subs, byID, fan>>
  BY DEF RunHandler, runner!Finish
<1>2. h \in running /\ h \in Known /\ ~isClosure(h) /\ h[1] = n
  BY <1>1 DEF TypeInv, isClosure, Id
<1> HIDE DEF h
<1>3. /\ delivered' \in Seq(Known)
      /\ \A i \in DOMAIN delivered : i \in DOMAIN delivered' /\ delivered'[i] = delivered[i]
      /\ \A i \in DOMAIN delivered' :
           i \in DOMAIN delivered \/ (delivered'[i] = h /\ i = Len(delivered) + 1)
      /\ DOMAIN delivered = 1..Len(delivered) /\ DOMAIN delivered' = 1..Len(delivered') /\ Len(delivered) \in Nat
  BY <1>1, <1>2, AppendIs DEF TypeInv
<1>4. TypeInv'
  BY <1>1, <1>2, <1>3 DEF TypeInv, Known
<1>5. ClosureInv' /\ IdInv' /\ LocatorsAgree'
  BY <1>1, <1>2 DEF ClosureInv, IdInv, LocatorsAgree
<1>6. FanInv'
  BY <1>1, <1>2 DEF FanInv
<1>7. HandlerInv'
  BY <1>1, <1>2, <1>3 DEF HandlerInv
<1>8. EventsInOrder'
  <2>1. ASSUME NEW i \in DOMAIN delivered', NEW j \in DOMAIN delivered', i < j
        PROVE  delivered'[i][1] <= delivered'[j][1] /\ delivered'[i] # delivered'[j]
    <3>1. i \in DOMAIN delivered /\ delivered'[i] = delivered[i]
      BY <1>3, <2>1
    <3>2. CASE j \in DOMAIN delivered
      BY <1>3, <2>1, <3>1, <3>2 DEF EventsInOrder
    <3>3. CASE j \notin DOMAIN delivered
      BY <1>2, <1>3, <3>1, <3>3 DEF HandlerInv
    <3> QED BY <3>2, <3>3
  <2> QED BY <1>3, <2>1 DEF EventsInOrder
<1> QED BY <1>4, <1>5, <1>6, <1>7, <1>8

-----------------------------------------------------------------------------
(* The closures.                                                           *)

\* A closure that is not a Publish leaves the fan-out at its beginning.
LEMMA NoFan ==
  ASSUME BusInv, NEW n \in Id, running = {<<n, 0>>}, calls[n].op # "publish"
  PROVE  fan = [next |-> 1, checked |-> FALSE]
BY DEF BusInv, FanInv

\* A subscription goes to the end of its list; its id is a new one.
LEMMA SubscribeKeeps ==
  ASSUME BusInv, NEW n \in Id, RunSubscribe(n)
  PROVE  BusInv'
<1> USE DEF callVars
<1>1. /\ running = {<<n, 0>>} /\ calls[n].op = "subscribe" /\ endTask(n)
      /\ UNCHANGED <<callVars, busClosed, fan, delivered>>
      /\ finished' = finished \cup {<<n, 0>>}
  BY DEF RunSubscribe, isRunning, endTask, runner!Finish
<1>2. calls[n] \in Call /\ <<n, 0>> \notin finished
  BY <1>1, RunningIs DEF BusInv
<1>3. PICK t \in Type : t = calls[n].type
  BY <1>1, <1>2, CallIs
<1>4. /\ subs' = [subs EXCEPT ![t] = Append(@, n)]
      /\ byID' = [k \in DOMAIN byID \cup {n} |->
                    IF k = n THEN [type |-> t, index |-> Len(subs'[t])] ELSE byID[k]]
  BY <1>3 DEF RunSubscribe
<1>5. subs \in [Type -> Seq(Id)]
  BY DEF BusInv, TypeInv
<1>6. /\ subs' \in [Type -> Seq(Id)]
      /\ subs'[t] = Append(subs[t], n)
      /\ \A u \in Type \ {t} : subs'[u] = subs[u]
  BY <1>4, <1>5
<1>7. /\ Len(subs'[t]) = Len(subs[t]) + 1 /\ Len(subs[t]) \in Nat
      /\ \A i \in 1..Len(subs[t]) : subs'[t][i] = subs[t][i]
      /\ subs'[t][Len(subs[t]) + 1] = n
  BY <1>5, <1>6
<1>8. n \notin DOMAIN byID
  BY <1>2 DEF BusInv, IdInv
<1>9. /\ DOMAIN byID' = DOMAIN byID \cup {n}
      /\ \A k \in DOMAIN byID : byID'[k] = byID[k]
      /\ byID'[n] = [type |-> t, index |-> Len(subs[t]) + 1]
  BY <1>4, <1>7, <1>8
<1>10. \A k \in DOMAIN byID' : byID'[k] \in [type : Type, index : Nat \ {0}]
  BY <1>7, <1>9 DEF BusInv, TypeInv
<1>11. IdInv'
  BY <1>1, <1>9 DEF BusInv, IdInv
<1>12. LocatorsAgree'
  <2>1. ASSUME NEW u \in Type, NEW i \in 1..Len(subs'[u])
        PROVE  subs'[u][i] \in DOMAIN byID' /\ byID'[subs'[u][i]] = [type |-> u, index |-> i]
    <3>1. CASE u # t \/ i # Len(subs[t]) + 1
      <4>1. i \in 1..Len(subs[u]) /\ subs'[u][i] = subs[u][i]
        BY <1>6, <1>7, <2>1, <3>1
      <4> QED BY <1>9, <4>1 DEF BusInv, LocatorsAgree
    <3>2. CASE u = t /\ i = Len(subs[t]) + 1
      BY <1>7, <1>9, <3>2
    <3> QED BY <3>1, <3>2
  <2> QED BY <2>1 DEF LocatorsAgree
<1>13. fan' = [next |-> 1, checked |-> FALSE]
  BY <1>1, NoFan
<1> QED BY <1>1, <1>6, <1>10, <1>11, <1>12, <1>13, ClosureEnds

\* The locator of a subscription, by its place.
LEMMA Located ==
  ASSUME LocatorsAgree, NEW t \in Type, NEW i \in 1..Len(subs[t]), NEW k, k = subs[t][i]
  PROVE  /\ k \in DOMAIN byID
         /\ byID[k] = [type |-> t, index |-> i] /\ byID[k].type = t /\ byID[k].index = i
<1>1. k \in DOMAIN byID /\ byID[k] = [type |-> t, index |-> i]
  BY DEF LocatorsAgree
<1> QED BY <1>1

\* The tables after an Unsubscribe, whether its locator is its own or a stale one.
LEMMA UnsubscribeAgrees ==
  ASSUME BusInv, NEW k, unsubscribe(k)
  PROVE  /\ subs' \in [Type -> Seq(Id)]
         /\ DOMAIN byID' \subseteq DOMAIN byID
         /\ \A m \in DOMAIN byID' : byID'[m] \in [type : Type, index : Nat \ {0}]
         /\ LocatorsAgree'
<1> USE DEF BusInv
<1> DEFINE loc == byID[k]
           list == subs[loc.type]
           rest == swapRemove(list, loc.index)
<1>1. CASE UNCHANGED <<subs, byID>>
  BY <1>1 DEF TypeInv, LocatorsAgree
<1>2. CASE ~(k \notin DOMAIN byID \/ loc.index > Len(list))
  <2>1. /\ subs' = [subs EXCEPT ![loc.type] = rest]
        /\ byID' = IF rest = << >> THEN without(byID, k)
                   ELSE IF loc.index > Len(rest) THEN byID
                   ELSE without([byID EXCEPT ![rest[loc.index]] = loc], k)
    BY <1>2 DEF unsubscribe
  <2>2. PICK t \in Type, x \in Nat \ {0} :
          loc = [type |-> t, index |-> x] /\ loc.type = t /\ loc.index = x /\ k \in DOMAIN byID
    BY <1>2 DEF TypeInv
  <2>3. subs \in [Type -> Seq(Id)] /\ subs[t] \in Seq(Id) /\ Len(subs[t]) \in Nat
    BY DEF TypeInv
  <2>4. x \in 1..Len(subs[t])
    BY <1>2, <2>2, <2>3
  <2>5. PICK r : /\ r = rest /\ r \in Seq(Id) /\ Len(r) = Len(subs[t]) - 1
                 /\ \A m \in 1..(Len(subs[t]) - 1) : r[m] = IF m = x THEN subs[t][Len(subs[t])] ELSE subs[t][m]
    BY <2>2, <2>3, <2>4, SwapRemoveIs
  <2>6. /\ subs' \in [Type -> Seq(Id)] /\ subs'[t] = r
        /\ \A u \in Type \ {t} : subs'[u] = subs[u]
    BY <2>1, <2>2, <2>3, <2>5
  <2>7. \/ byID' = without(byID, k)  /\ r = << >>
        \/ byID' = byID /\ x > Len(r)
        \/ byID' = without([byID EXCEPT ![r[x]] = loc], k) /\ x <= Len(r)
    BY <2>1, <2>2, <2>5
  <2>8. /\ DOMAIN byID' \subseteq DOMAIN byID
        /\ \A m \in DOMAIN byID : m # k => m \in DOMAIN byID'
        /\ k \in DOMAIN byID' => x > Len(r)
        /\ \A m \in DOMAIN byID' : byID'[m] = byID[m] \/ (x <= Len(r) /\ m = r[x] /\ byID'[m] = loc)
        /\ x <= Len(r) /\ r[x] \in DOMAIN byID' => byID'[r[x]] = loc
    <3>1. CASE byID' = without(byID, k) /\ r = << >>
      BY <2>4, <3>1 DEF without
    <3>2. CASE byID' = byID /\ x > Len(r)
      BY <2>3, <2>4, <2>5, <3>2
    <3>3. CASE byID' = without([byID EXCEPT ![r[x]] = loc], k) /\ x <= Len(r)
      BY <3>3 DEF without
    <3> QED BY <2>7, <3>1, <3>2, <3>3
  <2> HIDE DEF loc, list, rest
  <2>9. \A m \in DOMAIN byID' : byID'[m] \in [type : Type, index : Nat \ {0}]
    <3>1. loc \in [type : Type, index : Nat \ {0}]
      BY <2>2
    <3> QED BY <2>8, <3>1 DEF TypeInv
  <2>10. ASSUME NEW u \in Type, NEW i \in 1..Len(subs'[u])
         PROVE  subs'[u][i] \in DOMAIN byID' /\ byID'[subs'[u][i]] = [type |-> u, index |-> i]
    <3>1. byID[k] = [type |-> t, index |-> x] /\ byID[k].type = t /\ byID[k].index = x
      BY <2>2 DEF loc
    <3>2. x <= Len(r) => x \in 1..(Len(subs[t]) - 1) /\ r[x] = subs[t][Len(subs[t])]
                           /\ Len(subs[t]) \in 1..Len(subs[t]) /\ Len(subs[t]) # x
      BY <2>3, <2>4, <2>5
    <3>3. x <= Len(r) => r[x] \in DOMAIN byID /\ byID[r[x]].type = t /\ byID[r[x]].index = Len(subs[t])
      <4> SUFFICES ASSUME x <= Len(r)
                   PROVE  r[x] \in DOMAIN byID /\ byID[r[x]].type = t /\ byID[r[x]].index = Len(subs[t])
        OBVIOUS
      <4>1. PICK e : e = Len(subs[t]) /\ r[x] = subs[t][e] /\ e \in 1..Len(subs[t])
        BY <3>2
      <4>2. e \in 1..Len(subs[t])
        BY <4>1
      <4>3. PICK m : m = subs[t][e]
        OBVIOUS
      <4>4. m \in DOMAIN byID /\ byID[m] = [type |-> t, index |-> e]
        BY <4>2, <4>3, Located
      <4>5. byID[m].type = t /\ byID[m].index = e
        BY <4>4
      <4> QED BY <4>1, <4>3, <4>4, <4>5
    <3>4. CASE u # t
      <4>1. PICK m : m = subs[u][i] /\ subs'[u][i] = m /\ i \in 1..Len(subs[u])
        BY <2>6, <3>4
      <4>2. m \in DOMAIN byID /\ byID[m] = [type |-> u, index |-> i] /\ byID[m].type = u
        BY <4>1, Located
      <4>3. x <= Len(r) => r[x] \in DOMAIN byID /\ byID[r[x]].type = t
        BY <3>3
      <4>4. m # k /\ (x <= Len(r) => m # r[x])
        BY <3>1, <3>4, <4>2, <4>3
      <4>5. m \in DOMAIN byID' /\ byID'[m] = byID[m]
        BY <2>8, <4>2, <4>4
      <4> QED BY <4>1, <4>2, <4>5
    <3>5. CASE u = t /\ i # x
      <4>1. PICK m : m = subs[t][i] /\ subs'[u][i] = m /\ i \in 1..Len(subs[t]) /\ i # Len(subs[t])
        BY <2>3, <2>5, <2>6, <3>5
      <4>2. m \in DOMAIN byID /\ byID[m] = [type |-> t, index |-> i] /\ byID[m].index = i
        BY <4>1, Located
      <4>3. x <= Len(r) => r[x] \in DOMAIN byID /\ byID[r[x]].index = Len(subs[t])
        BY <3>3
      <4>4. m # k /\ (x <= Len(r) => m # r[x])
        BY <3>1, <3>5, <4>1, <4>2, <4>3
      <4>5. m \in DOMAIN byID' /\ byID'[m] = byID[m]
        BY <2>8, <4>2, <4>4
      <4> QED BY <3>5, <4>1, <4>2, <4>5
    <3>6. CASE u = t /\ i = x
      <4>1. x <= Len(r) /\ subs'[u][i] = r[x]
        BY <2>5, <2>6, <3>6
      <4>2. r[x] \in DOMAIN byID /\ byID[r[x]].index = Len(subs[t])
        BY <3>3, <4>1
      <4>3. r[x] # k
        BY <3>1, <3>2, <4>1, <4>2
      <4>4. r[x] \in DOMAIN byID' /\ byID'[r[x]] = loc
        BY <2>8, <4>1, <4>2, <4>3
      <4> QED BY <2>2, <3>6, <4>1, <4>4
    <3> QED BY <3>4, <3>5, <3>6
  <2>11. LocatorsAgree'
    BY <2>10 DEF LocatorsAgree
  <2> QED BY <2>6, <2>8, <2>9, <2>11
<1> QED BY <1>1, <1>2 DEF unsubscribe

\* Unsubscribe.
LEMMA UnsubscribeKeeps ==
  ASSUME BusInv, NEW n \in Id, RunUnsubscribe(n)
  PROVE  BusInv'
<1> USE DEF callVars
<1>1. /\ running = {<<n, 0>>} /\ calls[n].op = "unsubscribe" /\ endTask(n)
      /\ UNCHANGED <<callVars, busClosed, fan, delivered>>
      /\ finished' = finished \cup {<<n, 0>>}
      /\ unsubscribe(calls[n].id)
  BY DEF RunUnsubscribe, isRunning, endTask, runner!Finish
<1>2. /\ subs' \in [Type -> Seq(Id)]
      /\ DOMAIN byID' \subseteq DOMAIN byID
      /\ \A m \in DOMAIN byID' : byID'[m] \in [type : Type, index : Nat \ {0}]
      /\ LocatorsAgree'
  BY <1>1, UnsubscribeAgrees
<1>3. IdInv'
  BY <1>1, <1>2 DEF BusInv, IdInv
<1>4. fan' = [next |-> 1, checked |-> FALSE]
  BY <1>1, NoFan
<1> QED BY <1>1, <1>2, <1>3, <1>4, ClosureEnds

\* The barrier of WaitIdle, and the end of a fan-out.
LEMMA EndsKeep ==
  ASSUME BusInv, NEW n \in Id, RunBarrier(n) \/ FanOutEnd(n)
  PROVE  BusInv'
<1> USE DEF callVars, busVars
<1>1. /\ running = {<<n, 0>>} /\ endTask(n) /\ UNCHANGED <<callVars, subs, byID, delivered>>
      /\ finished' = finished \cup {<<n, 0>>}
  BY DEF RunBarrier, FanOutEnd, isRunning, endTask, runner!Finish
<1>2. fan' = [next |-> 1, checked |-> FALSE]
  BY NoFan DEF RunBarrier, FanOutEnd, isRunning
<1>3. IdInv' /\ LocatorsAgree'
  BY <1>1 DEF BusInv, IdInv, LocatorsAgree
<1>4. /\ subs' \in [Type -> Seq(Id)]
      /\ \A k \in DOMAIN byID' : byID'[k] \in [type : Type, index : Nat \ {0}]
  BY <1>1 DEF BusInv, TypeInv
<1> QED BY <1>1, <1>2, <1>3, <1>4, ClosureEnds

\* The places of a list that agrees with its locators hold different ids.
LEMMA ListsDistinct ==
  ASSUME LocatorsAgree, NEW t \in Type, NEW i \in 1..Len(subs[t]), NEW j \in 1..Len(subs[t]),
         subs[t][i] = subs[t][j]
  PROVE  i = j
<1>1. PICK k : k = subs[t][i] /\ k = subs[t][j]
  OBVIOUS
<1>2. byID[k] = [type |-> t, index |-> i]
  BY <1>1, Located
<1>3. byID[k] = [type |-> t, index |-> j]
  BY <1>1, Located
<1> QED BY <1>2, <1>3

\* The fan-out of a Publish, while it runs.
LEMMA FanOutIs ==
  ASSUME BusInv, NEW n \in Id, isRunning(n, "publish")
  PROVE  /\ running = {<<n, 0>>} /\ n \in 1..Len(calls) /\ calls[n].op = "publish"
         /\ calls[n].type \in Type
         /\ subs[calls[n].type] \in Seq(Id) /\ Len(subs[calls[n].type]) \in Nat
         /\ fan.next \in Nat \ {0} /\ fan.next <= Len(subs[calls[n].type]) + 1
         /\ fan.checked => fan.next \in 1..Len(subs[calls[n].type])
         /\ \A f \in finished : f[1] < n
         /\ \A i \in DOMAIN queue : ~isClosure(queue[i]) =>
              \/ queue[i][1] < n
              \/ queue[i][1] = n /\ \E m \in 1..(fan.next - 1) : queue[i][2] = subs[calls[n].type][m]
<1> USE DEF BusInv
<1>1. running = {<<n, 0>>} /\ calls[n].op = "publish"
  BY DEF isRunning
<1>2. /\ n \in 1..Len(calls) /\ calls[n] \in Call
      /\ <<n, 0>> \in running /\ isClosure(<<n, 0>>) /\ <<n, 0>>[1] = n
      /\ \A f \in finished : f[1] < n
  BY <1>1, RunningIs
<1>3. calls[n].type \in Type
  BY <1>1, <1>2, CallIs
<1>4. subs[calls[n].type] \in Seq(Id) /\ Len(subs[calls[n].type]) \in Nat /\ fan.next \in Nat \ {0}
  BY <1>3 DEF TypeInv
<1>5. /\ fan.next <= Len(subs[calls[n].type]) + 1
      /\ fan.checked => fan.next <= Len(subs[calls[n].type])
  BY <1>1, <1>2 DEF FanInv
<1>6. \A i \in DOMAIN queue : ~isClosure(queue[i]) =>
        \/ queue[i][1] < n
        \/ queue[i][1] = n /\ \E m \in 1..(fan.next - 1) : queue[i][2] = subs[calls[n].type][m]
  BY <1>1, <1>2 DEF FanInv
<1> QED BY <1>1, <1>2, <1>3, <1>4, <1>5, <1>6

\* The fan-out passes the runner's check, or skips a handler that it may not post.
LEMMA FanOutCheckKeeps ==
  ASSUME BusInv, NEW n \in Id, FanOutCheck(n)
  PROVE  BusInv'
<1> USE DEF BusInv, callVars, runnerVars
<1>1. /\ isRunning(n, "publish") /\ ~fan.checked /\ fan.next <= Len(subs[calls[n].type])
      /\ UNCHANGED <<calls, checked, subs, byID, delivered, queue, running, finished, runnerClosed, cleared>>
      /\ fan' = IF runnerClosed THEN [fan EXCEPT !.next = @ + 1] ELSE [fan EXCEPT !.checked = TRUE]
  BY DEF FanOutCheck
<1>2. /\ running = {<<n, 0>>} /\ calls[n].op = "publish"
      /\ Len(subs[calls[n].type]) \in Nat /\ fan.next \in Nat \ {0}
  BY <1>1, FanOutIs
<1>3. fan \in [next : Nat \ {0}, checked : BOOLEAN]
  BY DEF TypeInv
<1>4. /\ fan' \in [next : Nat \ {0}, checked : BOOLEAN]
      /\ fan'.next \in {fan.next, fan.next + 1}
      /\ fan'.next <= Len(subs[calls[n].type]) + 1
      /\ fan'.checked => fan'.next <= Len(subs[calls[n].type])
  <2>1. CASE runnerClosed
    <3>1. fan' = [next |-> fan.next + 1, checked |-> fan.checked]
      BY <1>1, <1>3, <2>1
    <3> QED BY <1>1, <1>2, <1>3, <3>1
  <2>2. CASE ~runnerClosed
    <3>1. fan' = [next |-> fan.next, checked |-> TRUE]
      BY <1>1, <1>3, <2>2
    <3>2. fan'.next = fan.next
      BY <3>1
    <3>3. fan' \in [next : Nat \ {0}, checked : BOOLEAN]
      BY <1>2, <3>1
    <3> QED BY <1>1, <1>2, <3>2, <3>3
  <2> QED BY <2>1, <2>2
<1>5. TypeInv'
  BY <1>1, <1>4 DEF TypeInv, Known
<1>6. ClosureInv' /\ HandlerInv' /\ IdInv' /\ LocatorsAgree' /\ EventsInOrder'
  BY <1>1 DEF ClosureInv, HandlerInv, IdInv, LocatorsAgree, EventsInOrder
<1>7. FanInv'
  <2>1. \A m \in 1..(fan.next - 1) : m \in 1..(fan'.next - 1)
    BY <1>2, <1>4
  <2>2. \A r \in running, i \in DOMAIN queue : isClosure(r) /\ ~isClosure(queue[i]) =>
          \/ queue[i][1] < r[1]
          \/ /\ queue[i][1] = r[1] /\ calls[r[1]].op = "publish"
             /\ \E m \in 1..(fan'.next - 1) : queue[i][2] = subs[calls[r[1]].type][m]
    BY <2>1 DEF FanInv
  <2>3. \A r \in running : r[1] = n
    BY <1>2
  <2>4. \E r \in running : isClosure(r) /\ calls[r[1]].op = "publish"
    BY <1>2 DEF isClosure
  <2> QED BY <1>1, <1>4, <2>2, <2>3, <2>4 DEF FanInv
<1> QED BY <1>5, <1>6, <1>7

\* It posts a handler, behind every task of an earlier event and of this one.
LEMMA FanOutPostKeeps ==
  ASSUME BusInv, NEW n \in Id, FanOutPost(n)
  PROVE  BusInv'
<1> USE DEF BusInv, callVars, busVars, runnerVars
<1>1. /\ isRunning(n, "publish") /\ fan.checked
      /\ queue' = Append(queue, <<n, subs[calls[n].type][fan.next]>>)
      /\ fan' = [next |-> fan.next + 1, checked |-> FALSE]
      /\ UNCHANGED <<calls, checked, subs, byID, delivered, running, finished, runnerClosed, cleared>>
  BY DEF FanOutPost, runner!Accept
<1>2. /\ running = {<<n, 0>>} /\ n \in 1..Len(calls) /\ calls[n].op = "publish"
      /\ Len(subs[calls[n].type]) \in Nat /\ fan.next \in Nat \ {0}
      /\ fan.next \in 1..Len(subs[calls[n].type])
      /\ \A f \in finished : f[1] < n
      /\ \A i \in DOMAIN queue : ~isClosure(queue[i]) =>
           \/ queue[i][1] < n
           \/ queue[i][1] = n /\ \E m \in 1..(fan.next - 1) : queue[i][2] = subs[calls[n].type][m]
  BY <1>1, FanOutIs
<1>3. PICK t \in Type : t = calls[n].type
  BY <1>1, FanOutIs
<1>4. PICK k \in Id : k = subs[t][fan.next]
  BY <1>2, <1>3 DEF TypeInv
<1> DEFINE new == <<n, k>>
<1>5. new \in Known /\ ~isClosure(new) /\ new[1] = n /\ new[2] = k
  BY <1>2, CallsAssumption DEF Known, isClosure, Id
<1>6. queue' = Append(queue, new)
  BY <1>1, <1>3, <1>4
<1> HIDE DEF new
<1>7. /\ queue' \in Seq(Known)
      /\ \A i \in DOMAIN queue : i \in DOMAIN queue' /\ queue'[i] = queue[i]
      /\ \A i \in DOMAIN queue' : i \in DOMAIN queue \/ queue'[i] = new
      /\ \A i, j \in DOMAIN queue' : i < j => i \in DOMAIN queue
  BY <1>5, <1>6, AppendIs DEF TypeInv
<1>8. \A m \in 1..(fan.next - 1) : subs[t][m] # k
  <2> SUFFICES ASSUME NEW m \in 1..(fan.next - 1), subs[t][m] = k
               PROVE  FALSE
    OBVIOUS
  <2>1. PICK e : e = fan.next /\ e \in 1..Len(subs[t]) /\ subs[t][e] = subs[t][m]
    BY <1>2, <1>3, <1>4
  <2>2. m \in 1..Len(subs[t]) /\ m # fan.next
    BY <1>2, <1>3
  <2> QED BY <2>1, <2>2, ListsDistinct
<1>9. \A i \in DOMAIN queue : ~isClosure(queue[i]) => queue[i][1] <= n /\ queue[i] # new
  <2> SUFFICES ASSUME NEW i \in DOMAIN queue, ~isClosure(queue[i])
               PROVE  queue[i][1] <= n /\ queue[i] # new
    OBVIOUS
  <2>1. queue[i][1] \in Nat
    BY DEF TypeInv, Known
  <2>2. CASE queue[i][1] < n
    <3>1. n \in Nat /\ new[1] = n
      BY <1>2, <1>5
    <3>2. queue[i][1] # new[1]
      BY <2>1, <2>2, <3>1
    <3>3. queue[i] # new
      BY <3>2
    <3> QED BY <2>1, <2>2, <3>1, <3>3
  <2>3. CASE queue[i][1] = n /\ \E m \in 1..(fan.next - 1) : queue[i][2] = subs[calls[n].type][m]
    BY <1>3, <1>5, <1>8, <2>1, <2>3
  <2> QED BY <1>2, <2>2, <2>3
<1>10. TypeInv'
  <2>1. fan' \in [next : Nat \ {0}, checked : BOOLEAN]
    BY <1>1, <1>2
  <2> QED BY <1>1, <1>7, <2>1 DEF TypeInv, Known
<1>11. \A j \in DOMAIN queue' : isClosure(queue'[j]) => j \in DOMAIN queue /\ queue'[j] = queue[j] /\ n < queue[j][1]
  <2>1. \A j \in DOMAIN queue : isClosure(queue[j]) => n < queue[j][1]
    BY <1>2 DEF ClosureInv
  <2> QED BY <1>5, <1>7, <2>1
<1>12. ClosureInv'
  <2>1. ASSUME NEW i \in DOMAIN queue', NEW j \in DOMAIN queue', isClosure(queue'[j]),
               i < j \/ ~isClosure(queue'[i])
        PROVE  queue'[i][1] < queue'[j][1]
    <3>1. CASE i \in DOMAIN queue
      BY <1>7, <1>11, <2>1, <3>1 DEF ClosureInv
    <3>2. CASE i \notin DOMAIN queue
      BY <1>5, <1>7, <1>11, <2>1, <3>2
    <3> QED BY <3>1, <3>2
  <2>2. \A s \in running' \cup finished' : \A j \in DOMAIN queue' : isClosure(queue'[j]) => s[1] < queue'[j][1]
    BY <1>1, <1>11 DEF ClosureInv
  <2>3. \A r \in running', f \in finished' : isClosure(r) => f[1] < r[1]
    BY <1>1 DEF ClosureInv
  <2> QED BY <2>1, <2>2, <2>3 DEF ClosureInv
<1>13. FanInv'
  <2>1. /\ fan'.next = fan.next + 1 /\ ~fan'.checked
        /\ fan'.next <= Len(subs[calls[n].type]) + 1
    BY <1>1, <1>2
  <2>2. ASSUME NEW i \in DOMAIN queue', ~isClosure(queue'[i])
        PROVE  \/ queue'[i][1] < n
               \/ queue'[i][1] = n /\ \E m \in 1..(fan'.next - 1) : queue'[i][2] = subs[calls[n].type][m]
    <3>1. CASE i \in DOMAIN queue
      <4>1. queue'[i] = queue[i]
        BY <1>7, <3>1
      <4>2. \A m \in 1..(fan.next - 1) : m \in 1..(fan'.next - 1)
        BY <1>2, <2>1
      <4> QED BY <1>2, <2>2, <3>1, <4>1, <4>2
    <3>2. CASE i \notin DOMAIN queue
      <4>1. queue'[i][1] = n /\ queue'[i][2] = k
        BY <1>5, <1>7, <3>2
      <4>2. fan.next \in 1..(fan'.next - 1)
        BY <1>2, <2>1
      <4> QED BY <1>3, <1>4, <4>1, <4>2
    <3> QED BY <3>1, <3>2
  <2>3. \A r \in running' : r[1] = n
    BY <1>1, <1>2
  <2>4. \E r \in running' : isClosure(r) /\ calls'[r[1]].op = "publish"
    BY <1>1, <1>2 DEF isClosure
  <2>5. calls' = calls /\ subs' = subs /\ calls[n].op = "publish"
    BY <1>1, <1>2
  <2> QED BY <2>1, <2>2, <2>3, <2>4, <2>5 DEF FanInv
<1>14. HandlerInv'
  <2>1. ASSUME NEW i \in DOMAIN queue', NEW j \in DOMAIN queue', i < j,
               ~isClosure(queue'[i]), ~isClosure(queue'[j])
        PROVE  queue'[i][1] <= queue'[j][1] /\ queue'[i] # queue'[j]
    <3>1. i \in DOMAIN queue /\ queue'[i] = queue[i]
      BY <1>7, <2>1
    <3>2. CASE j \in DOMAIN queue
      BY <1>7, <2>1, <3>1, <3>2 DEF HandlerInv
    <3>3. CASE j \notin DOMAIN queue
      BY <1>5, <1>7, <1>9, <2>1, <3>1, <3>3
    <3> QED BY <3>2, <3>3
  <2>2. ASSUME NEW s \in running' \cup finished', NEW j \in DOMAIN queue', ~isClosure(s), ~isClosure(queue'[j])
        PROVE  s[1] <= queue'[j][1] /\ s # queue'[j]
    <3>1. s \in finished
      BY <1>1, <1>2, <2>2 DEF isClosure
    <3>2. CASE j \in DOMAIN queue
      BY <1>7, <2>2, <3>1, <3>2 DEF HandlerInv
    <3>3. CASE j \notin DOMAIN queue
      <4>1. s[1] < n /\ s[1] \in Nat
        BY <1>2, <3>1 DEF TypeInv, Known
      <4>2. queue'[j] = new
        BY <1>7, <3>3
      <4>3. n \in Nat /\ new[1] = n
        BY <1>2, <1>5
      <4>4. s[1] # new[1] /\ s[1] <= new[1]
        BY <4>1, <4>3
      <4> QED BY <4>2, <4>4
    <3> QED BY <3>2, <3>3
  <2>3. /\ \A f \in finished', r \in running' : ~isClosure(f) /\ ~isClosure(r) => f[1] <= r[1] /\ f # r
        /\ \A i \in DOMAIN delivered' : delivered'[i] \in finished' /\ ~isClosure(delivered'[i])
    BY <1>1 DEF HandlerInv
  <2> QED BY <2>1, <2>2, <2>3 DEF HandlerInv
<1>15. IdInv' /\ LocatorsAgree' /\ EventsInOrder'
  BY <1>1 DEF IdInv, LocatorsAgree, EventsInOrder
<1> QED BY <1>10, <1>12, <1>13, <1>14, <1>15

\* The steps that leave the tasks alone, and Shutdown of the runner.
LEMMA OthersKeep ==
  ASSUME BusInv,
         \/ \E c \in Call : BeginCall(c)
         \/ Close \/ ShutdownRunner \/ PoolGoesDown \/ UNCHANGED vars
  PROVE  BusInv'
<1> USE DEF BusInv, callVars, busVars, runnerVars, vars
<1>1. UNCHANGED <<calls, subs, byID, fan, delivered, running, finished>>
  BY DEF BeginCall, Close, ShutdownRunner, runner!Close, runner!Discard, PoolGoesDown, runner!PoolGoesDown
<1>2. queue' = queue \/ queue' = << >>
  BY DEF BeginCall, Close, ShutdownRunner, runner!Close, runner!Discard, PoolGoesDown, runner!PoolGoesDown
<1>3. checked' \subseteq Call /\ {runnerClosed, cleared}' \subseteq BOOLEAN
  BY DEF BeginCall, Close, ShutdownRunner, runner!Close, runner!Discard, PoolGoesDown, runner!PoolGoesDown, TypeInv
<1>4. TypeInv'
  <2>1. Known' = Known
    BY <1>1 DEF Known
  <2>2. queue' \in Seq(Known)
    <3>1. queue \in Seq(Known)
      BY DEF TypeInv
    <3>2. << >> \in Seq(Known)
      OBVIOUS
    <3> QED BY <1>2, <3>1, <3>2
  <2>3. /\ calls' \in Seq(Call) /\ checked' \subseteq Call /\ subs' \in [Type -> Seq(Id)]
        /\ \A k \in DOMAIN byID' : byID'[k] \in [type : Type, index : Nat \ {0}]
    BY <1>1, <1>3 DEF TypeInv
  <2>4. fan' \in [next : Nat \ {0}, checked : BOOLEAN]
    BY <1>1 DEF TypeInv
  <2>5. /\ delivered' \in Seq(Known) /\ running' \subseteq Known /\ finished' \subseteq Known
        /\ \A s, t \in running' : s = t
    BY <1>1 DEF TypeInv
  <2> QED BY <1>3, <2>1, <2>2, <2>3, <2>4, <2>5 DEF TypeInv
<1>5. \A i \in DOMAIN queue' : i \in DOMAIN queue /\ queue'[i] = queue[i]
  BY <1>2
<1>6. ClosureInv'
  BY <1>1, <1>5 DEF ClosureInv
<1>7. FanInv'
  BY <1>1, <1>5 DEF FanInv
<1>8. HandlerInv'
  BY <1>1, <1>5 DEF HandlerInv
<1>9. IdInv' /\ LocatorsAgree' /\ EventsInOrder'
  BY <1>1 DEF IdInv, LocatorsAgree, EventsInOrder
<1> QED BY <1>4, <1>6, <1>7, <1>8, <1>9

\* The invariant holds initially ...
LEMMA InitBus == Init => BusInv
<1> SUFFICES ASSUME Init PROVE BusInv
  OBVIOUS
<1>1. /\ calls = << >> /\ checked = {} /\ subs = [t \in Type |-> << >>] /\ byID = << >>
      /\ fan = [next |-> 1, checked |-> FALSE] /\ delivered = << >>
      /\ queue = << >> /\ running = {} /\ finished = {}
      /\ runnerClosed = FALSE /\ cleared = FALSE
  BY DEF Init, runner!Init
<1>2. TypeInv
  <2>1. calls \in Seq(Call) /\ checked \subseteq Call /\ subs \in [Type -> Seq(Id)]
    BY <1>1
  <2>2. \A k \in DOMAIN byID : byID[k] \in [type : Type, index : Nat \ {0}]
    BY <1>1
  <2>3. fan \in [next : Nat \ {0}, checked : BOOLEAN]
    BY <1>1
  <2>4. delivered \in Seq(Known) /\ queue \in Seq(Known) /\ running \subseteq Known /\ finished \subseteq Known
    BY <1>1
  <2>5. {runnerClosed, cleared} \subseteq BOOLEAN
    BY <1>1
  <2>6. \A s, t \in running : s = t
    BY <1>1
  <2> QED BY <2>1, <2>2, <2>3, <2>4, <2>5, <2>6 DEF TypeInv
<1>3. ClosureInv /\ FanInv /\ HandlerInv /\ IdInv
  BY <1>1 DEF ClosureInv, FanInv, HandlerInv, IdInv
<1>4. LocatorsAgree /\ EventsInOrder
  BY <1>1 DEF LocatorsAgree, EventsInOrder
<1> QED BY <1>2, <1>3, <1>4 DEF BusInv

\* ... and every step keeps it.
LEMMA NextBus == BusInv /\ [Next]_vars => BusInv'
<1> SUFFICES ASSUME BusInv, [Next]_vars PROVE BusInv'
  OBVIOUS
<1>1. CASE RunTask
  BY <1>1, SubscribeKeeps, UnsubscribeKeeps, EndsKeep, FanOutCheckKeeps, FanOutPostKeeps, HandlerKeeps
     DEF RunTask
<1> QED BY <1>1, OthersKeep, PostClosureKeeps, StartKeeps DEF Next

\* The locator of every subscription in the lists leads to its place, however many
\* calls moved subscriptions around, and also when an Unsubscribe finds a stale
\* locator (EventBus.Subscribe, Unsubscribe).
THEOREM TablesAgree == Safety => []LocatorsAgree
<1>1. BusInv => LocatorsAgree
  BY DEF BusInv
<1> QED BY <1>1, InitBus, NextBus, PTL DEF Safety

\* Handlers are called in the order of the events, each at most once per event,
\* whatever is subscribed, unsubscribed or published meanwhile (EventBus.Publish).
THEOREM DeliveryInOrder == Safety => []EventsInOrder
<1>1. BusInv => EventsInOrder
  BY DEF BusInv
<1> QED BY <1>1, InitBus, NextBus, PTL DEF Safety


-----------------------------------------------------------------------------
(* Fan-outs reach their audience.                                          *)

\* The handlers posted for an event, as tasks.
LEMMA PostedIs ==
  ASSUME TypeInv, NEW n
  PROVE  posted(n) = {k \in Id : <<n, k>> \in Tasks}
<1>1. DOMAIN queue = 1..Len(queue)
  BY DEF TypeInv
<1> QED BY <1>1 DEF posted, Tasks, Waiting

LEMMA PostedAfter ==
  ASSUME TypeInv', NEW n
  PROVE  posted(n)' = {k \in Id : <<n, k>> \in Tasks'}
<1>1. DOMAIN queue' = 1..Len(queue')
  BY DEF TypeInv
<1> QED BY <1>1 DEF posted, Tasks, Waiting

\* An unsubscription names its kind and its subscription.
LEMMA UnsubscribesIs ==
  ASSUME NEW j, NEW k, unsubscribes(j, k)
  PROVE  calls[j].op = "unsubscribe" /\ calls[j].id = k
BY DEF unsubscribes

LEMMA SubscribesIs ==
  ASSUME NEW j, NEW t, subscribes(j, t)
  PROVE  calls[j].op = "subscribe" /\ calls[j].type = t
BY DEF subscribes

\* While the closure of a call runs, those of all earlier calls have run.
LEMMA EarlierDone ==
  ASSUME BusInv, TableInv, ~cleared, NEW n \in Id, running = {<<n, 0>>}, NEW j \in 1..Len(calls), j < n
  PROVE  <<j, 0>> \in finished
<1>1. <<j, 0>> \in finished \cup running \cup Waiting
  BY DEF TableInv, Tasks
<1>2. <<j, 0>> \notin running
  <2>1. j # n
    BY DEF Id
  <2> QED BY <2>1
<1>3. <<j, 0>> \notin Waiting
  <2> SUFFICES ASSUME NEW i \in DOMAIN queue, queue[i] = <<j, 0>>
               PROVE  FALSE
    BY DEF Waiting
  <2>1. <<n, 0>> \in running \cup finished /\ isClosure(queue[i]) /\ queue[i][1] = j /\ <<n, 0>>[1] = n
    BY DEF isClosure
  <2>2. <<n, 0>>[1] < queue[i][1]
    BY <2>1 DEF BusInv, ClosureInv
  <2>3. n < j
    BY <2>1, <2>2
  <2> QED BY <2>3 DEF Id
<1> QED BY <1>1, <1>2, <1>3

\* Nobody cancelled a subscription before it was made.
LEMMA CancelledLater ==
  ASSUME CancelInv, NEW j \in 1..Len(calls), NEW k, unsubscribes(j, k)
  PROVE  k \in 1..(j - 1) /\ calls[k].op = "subscribe"
BY UnsubscribesIs DEF CancelInv

\* The list that a fan-out goes through is the audience of its event.
LEMMA ListIsAudience ==
  ASSUME BusInv, CancelInv, TableInv, ~cleared, NEW n \in Id, isRunning(n, "publish"),
         cancelledOnce(n), NEW k
  PROVE  inList(k, calls[n].type) <=> k \in audience(n)
<1>1. running = {<<n, 0>>} /\ n \in 1..Len(calls) /\ calls[n].op = "publish" /\ calls[n].type \in Type
      /\ Len(calls) \in Nat
      /\ \A f \in finished : f[1] < n
  BY FanOutIs DEF BusInv, TypeInv
<1>2. inList(k, calls[n].type) <=> <<k, 0>> \in finished /\ subscribes(k, calls[n].type) /\ ~cancelled(k)
  <2>1. ASSUME NEW i \in 1..Len(calls), NEW j \in 1..Len(calls),
               <<i, 0>> \in finished, <<j, 0>> \in finished,
               calls[i].op = "unsubscribe", calls[i] = calls[j]
        PROVE  i = j
    <3>1. i < n /\ j < n
      BY <1>1, <2>1
    <3>2. i \in 1..n /\ j \in 1..n
      BY <1>1, <3>1
    <3> QED BY <2>1, <3>2 DEF cancelledOnce
  <2>2. ranOnce
    BY <2>1 DEF ranOnce
  <2> QED BY <1>1, <2>2 DEF TableInv
<1>3. ASSUME <<k, 0>> \in finished, subscribes(k, calls[n].type), ~cancelled(k)
      PROVE  k \in audience(n)
  <2>1. k \in 1..Len(calls)
    BY <1>3 DEF BusInv, TypeInv, Known
  <2>2. k < n
    BY <1>1, <1>3
  <2>3. ASSUME NEW j \in k..n
        PROVE  ~unsubscribes(j, k)
    <3>1. CASE j = n
      BY <1>1, <3>1, UnsubscribesIs
    <3>2. CASE j # n
      <4>1. j \in 1..Len(calls) /\ j < n
        BY <1>1, <2>1, <3>2
      <4>2. <<j, 0>> \in finished
        BY <1>1, <4>1, EarlierDone
      <4> QED BY <1>3, <4>1, <4>2 DEF cancelled
    <3> QED BY <3>1, <3>2
  <2>4. k \in 1..(n - 1)
    BY <1>1, <2>1, <2>2
  <2> QED BY <1>3, <2>3, <2>4 DEF audience, subscribes, unsubscribes
<1>4. ASSUME k \in audience(n)
      PROVE  <<k, 0>> \in finished /\ subscribes(k, calls[n].type) /\ ~cancelled(k)
  <2>1. /\ k \in 1..(n - 1) /\ subscribes(k, calls[n].type)
        /\ \A j \in k..n : ~unsubscribes(j, k)
    BY <1>4 DEF audience, subscribes, unsubscribes
  <2>2. k \in 1..Len(calls) /\ k < n
    BY <1>1, <2>1
  <2>3. <<k, 0>> \in finished
    BY <1>1, <2>2, EarlierDone
  <2>4. ASSUME NEW j \in 1..Len(calls), <<j, 0>> \in finished, unsubscribes(j, k)
        PROVE  FALSE
    <3>1. k \in 1..(j - 1)
      BY <2>4, CancelledLater
    <3>2. j < n
      BY <1>1, <2>4
    <3>3. j \in k..n
      BY <1>1, <2>2, <3>1, <3>2
    <3> QED BY <2>1, <2>4, <3>3
  <2> QED BY <2>1, <2>3, <2>4 DEF cancelled
<1> QED BY <1>2, <1>3, <1>4

holds(list, k) == \E m \in DOMAIN list : list[m] = k

\* A list without one of its elements.
LEMMA SwapRemoveDrops ==
  ASSUME NEW list \in Seq(Id), NEW i \in 1..Len(list),
         \A m, l \in 1..Len(list) : list[m] = list[l] => m = l, NEW k
  PROVE  holds(swapRemove(list, i), k) <=> holds(list, k) /\ k # list[i]
<1>1. PICK r : /\ r = swapRemove(list, i) /\ r \in Seq(Id) /\ Len(r) = Len(list) - 1
               /\ \A m \in 1..(Len(list) - 1) : r[m] = IF m = i THEN list[Len(list)] ELSE list[m]
  BY SwapRemoveIs
<1>2. Len(list) \in Nat /\ DOMAIN list = 1..Len(list) /\ DOMAIN r = 1..(Len(list) - 1)
  BY <1>1
<1>3. ASSUME NEW m \in DOMAIN r, r[m] = k
      PROVE  (\E l \in DOMAIN list : list[l] = k) /\ k # list[i]
  <2>1. CASE m = i
    <3>1. Len(list) \in DOMAIN list /\ Len(list) # i /\ list[Len(list)] = k
      BY <1>1, <1>2, <1>3, <2>1
    <3> QED BY <1>2, <3>1
  <2>2. CASE m # i
    <3>1. m \in DOMAIN list /\ list[m] = k
      BY <1>1, <1>2, <1>3, <2>2
    <3> QED BY <1>2, <2>2, <3>1
  <2> QED BY <2>1, <2>2
<1>4. ASSUME NEW m \in DOMAIN list, list[m] = k, k # list[i]
      PROVE  \E l \in DOMAIN r : r[l] = k
  <2>1. m # i
    BY <1>4
  <2>2. CASE m = Len(list)
    <3>1. i \in DOMAIN r /\ r[i] = k
      BY <1>1, <1>2, <1>4, <2>1, <2>2
    <3> QED BY <3>1
  <2>3. CASE m # Len(list)
    <3>1. m \in DOMAIN r /\ r[m] = k
      BY <1>1, <1>2, <1>4, <2>1, <2>3
    <3> QED BY <3>1
  <2> QED BY <2>2, <2>3
<1> QED BY <1>1, <1>3, <1>4 DEF holds

\* A step that leaves the calls and the set of tasks as they are, and ends no
\* fan-out, reaches nobody new.
LEMMA ReachStays ==
  ASSUME BusInv, BusInv', ReachesAudience, calls' = calls, Tasks' = Tasks,
         \A n : <<n, 0>> \in finished' => <<n, 0>> \in finished \/ calls[n].op # "publish",
         runnerClosed => runnerClosed', cleared => cleared'
  PROVE  ReachesAudience'
<1> SUFFICES ASSUME NEW n \in 1..Len(calls), isPublish(n), cancelledOnce(n)
             PROVE  /\ ~cleared' => posted(n)' \subseteq audience(n)'
                    /\ ~runnerClosed' /\ <<n, 0>> \in finished' => posted(n)' = audience(n)'
  BY DEF ReachesAudience, isPublish, cancelledOnce
<1>1. posted(n) = {k \in Id : <<n, k>> \in Tasks}
  BY PostedIs DEF BusInv
<1>2. posted(n)' = {k \in Id : <<n, k>> \in Tasks'}
  BY PostedAfter DEF BusInv
<1>3. audience(n)' = audience(n)
  BY DEF audience
<1>4. <<n, 0>> \in finished' => <<n, 0>> \in finished
  BY DEF isPublish
<1> QED BY <1>1, <1>2, <1>3, <1>4 DEF ReachesAudience

\* A closure that only ends, and is neither a Subscribe nor an Unsubscribe, leaves
\* the lists right.
LEMMA ListsStay ==
  ASSUME BusInv, TableInv, calls' = calls, subs' = subs, Tasks' = Tasks, cleared' = cleared,
         \A n : <<n, 0>> \in finished => <<n, 0>> \in finished',
         \A n : <<n, 0>> \in finished' => <<n, 0>> \in finished \/ calls[n].op \notin {"subscribe", "unsubscribe"}
  PROVE  TableInv'
<1> SUFFICES ASSUME ~cleared
             PROVE  /\ \A n \in 1..Len(calls) : <<n, 0>> \in Tasks
                    /\ ranOnce' => \A t \in Type : \A k :
                         inList(k, t)' <=> <<k, 0>> \in finished' /\ subscribes(k, t)' /\ ~cancelled(k)'
  BY DEF TableInv
<1>1. \A t, k : inList(k, t)' = inList(k, t) /\ subscribes(k, t)' = subscribes(k, t)
  BY DEF inList, subscribes
<1>2. \A k : cancelled(k)' <=> cancelled(k)
  <2>1. \A j, k : unsubscribes(j, k)' = unsubscribes(j, k)
    BY DEF unsubscribes
  <2>2. \A j, k : unsubscribes(j, k) => calls[j].op = "unsubscribe"
    BY UnsubscribesIs
  <2> QED BY <2>1, <2>2 DEF cancelled
<1>3. \A t, k : <<k, 0>> \in finished' /\ subscribes(k, t) => <<k, 0>> \in finished
  BY SubscribesIs
<1>4. ranOnce' => ranOnce
  BY DEF ranOnce
<1> QED BY <1>1, <1>2, <1>3, <1>4 DEF TableInv

\* The runner takes a task, or a handler returns, or the callers, Close and the
\* pool take a step: the tasks and the lists stay.
LEMMA QuietReach ==
  ASSUME BusInv, BusInv', CancelInv', TableInv, PostedInv, ReachesAudience,
         calls' = calls, subs' = subs, fan' = fan,
         Tasks' = Tasks, \A n : <<n, 0>> \in finished' <=> <<n, 0>> \in finished,
         cleared' = cleared, runnerClosed => runnerClosed',
         \A r \in running' : isClosure(r) /\ calls[r[1]].op = "publish" =>
            fan.next = 1 \/ (r \in running /\ Waiting' = Waiting)
  PROVE  ReachInv'
<1>1. ReachesAudience'
  BY ReachStays
<1>2. TableInv'
  BY ListsStay
<1>3. PostedInv'
  <2>1. ~runnerClosed' => ~cleared'
    BY DEF PostedInv
  <2>2. ASSUME ~runnerClosed', NEW r \in running', isClosure(r), calls[r[1]].op = "publish",
               NEW m \in 1..(fan.next - 1)
        PROVE  <<r[1], subs[calls[r[1]].type][m]>> \in Waiting'
    <3>1. CASE fan.next = 1
      BY <2>2, <3>1
    <3>2. CASE r \in running /\ Waiting' = Waiting
      BY <2>2, <3>2 DEF PostedInv
    <3> QED BY <2>2, <3>1, <3>2
  <2> QED BY <2>1, <2>2 DEF PostedInv
<1> QED BY <1>1, <1>2, <1>3 DEF ReachInv

\* The runner takes the oldest task.
LEMMA StartReach ==
  ASSUME BusInv, BusInv', ReachInv, StartTask
  PROVE  ReachInv'
<1> USE DEF busVars, runnerVars, callVars
<1>1. /\ running = {} /\ queue # << >> /\ running' = {Head(queue)} /\ queue' = Tail(queue)
      /\ UNCHANGED <<finished, runnerClosed, cleared, calls, checked, subs, fan>>
  BY DEF StartTask, runner!Start
<1>2. /\ 1 \in DOMAIN queue /\ Head(queue) = queue[1]
      /\ \A k \in DOMAIN queue' : k + 1 \in DOMAIN queue /\ queue'[k] = queue[k + 1]
      /\ \A k \in DOMAIN queue : k # 1 => k - 1 \in DOMAIN queue' /\ queue'[k - 1] = queue[k]
  BY <1>1, TailIs DEF BusInv, TypeInv
<1>3. Tasks' = Tasks
  <2>1. running' \cup Waiting' = Waiting
    BY <1>1, <1>2 DEF Waiting
  <2> QED BY <1>1, <2>1 DEF Tasks
<1>4. CancelInv'
  BY <1>1 DEF ReachInv, CancelInv
<1>5. fan.next = 1
  BY <1>1 DEF BusInv, FanInv
<1> QED BY <1>1, <1>3, <1>4, <1>5, QuietReach DEF ReachInv

\* A handler returns.
LEMMA HandlerReach ==
  ASSUME BusInv, BusInv', ReachInv, NEW n \in Id, NEW k \in Id, RunHandler(n, k)
  PROVE  ReachInv'
<1> USE DEF busVars, runnerVars, callVars
<1>1. /\ running = {<<n, k>>} /\ running' = {} /\ finished' = finished \cup {<<n, k>>}
      /\ UNCHANGED <<queue, runnerClosed, cleared, calls, checked, subs, fan>>
  BY DEF RunHandler, runner!Finish
<1>2. Tasks' = Tasks
  BY <1>1 DEF Tasks, Waiting
<1>3. \A m : <<m, 0>> \in finished' <=> <<m, 0>> \in finished
  BY <1>1 DEF Id
<1>4. CancelInv'
  BY <1>1 DEF ReachInv, CancelInv
<1> QED BY <1>1, <1>2, <1>3, <1>4, QuietReach DEF ReachInv

\* A call begins: an Unsubscribe is that of a subscription that was made.
LEMMA BeginCancels ==
  ASSUME CancelInv, NEW c \in Call, BeginCall(c)
  PROVE  CancelInv'
<1>1. calls' = calls /\ checked' \subseteq checked \cup {c} /\ mayCall(c)
  BY DEF BeginCall
<1>2. c.op = "unsubscribe" => c.id \in 1..Len(calls) /\ calls[c.id].op = "subscribe"
  BY <1>1 DEF mayCall
<1> QED BY <1>1, <1>2 DEF CancelInv

\* The callers, Close and the shutdown of the pool.
LEMMA CallersReach ==
  ASSUME BusInv, BusInv', ReachInv,
         \/ \E c \in Call : BeginCall(c)
         \/ Close \/ PoolGoesDown \/ UNCHANGED vars
  PROVE  ReachInv'
<1> USE DEF busVars, runnerVars, callVars, vars
<1>1. UNCHANGED <<calls, subs, fan, queue, running, finished, runnerClosed, cleared>>
  BY DEF BeginCall, Close, PoolGoesDown, runner!PoolGoesDown
<1>2. CancelInv'
  <2>1. CASE \E c \in Call : BeginCall(c)
    BY <2>1, BeginCancels DEF ReachInv
  <2>2. CASE ~\E c \in Call : BeginCall(c)
    <3>1. checked' = checked
      BY <2>2 DEF Close, PoolGoesDown
    <3> QED BY <1>1, <3>1 DEF ReachInv, CancelInv
  <2> QED BY <2>1, <2>2
<1>3. Tasks' = Tasks /\ Waiting' = Waiting
  BY <1>1 DEF Tasks, Waiting
<1> QED BY <1>1, <1>2, <1>3, QuietReach DEF ReachInv

\* Shutdown of the runner: from its mark on nobody need be reached, and when it
\* has discarded the tasks nothing is said of the fan-outs to come.
LEMMA ShutdownReach ==
  ASSUME BusInv, BusInv', ReachInv, ShutdownRunner
  PROVE  ReachInv'
<1> USE DEF busVars, runnerVars, callVars
<1>1. UNCHANGED <<calls, checked, subs, fan, running, finished>>
  BY DEF ShutdownRunner, runner!Close, runner!Discard
<1>2. CancelInv'
  BY <1>1 DEF ReachInv, CancelInv
<1>3. CASE runner!Close
  <2>1. UNCHANGED <<queue, cleared>> /\ runnerClosed' = TRUE
    BY <1>3 DEF runner!Close
  <2>2. Tasks' = Tasks /\ Waiting' = Waiting
    BY <1>1, <2>1 DEF Tasks, Waiting
  <2> QED BY <1>1, <1>2, <2>1, <2>2, QuietReach DEF ReachInv
<1>4. CASE runner!Discard
  <2>1. runnerClosed' /\ cleared'
    BY <1>4 DEF runner!Discard
  <2> QED BY <1>2, <2>1 DEF ReachInv, TableInv, PostedInv, ReachesAudience
<1> QED BY <1>3, <1>4 DEF ShutdownRunner

\* A call is accepted: nothing has been done for it yet.
LEMMA PostClosureReach ==
  ASSUME BusInv, BusInv', ReachInv, NEW c \in Call, PostClosure(c)
  PROVE  ReachInv'
<1> USE DEF busVars, runnerVars, callVars
<1> DEFINE new == <<Len(calls) + 1, 0>>
<1>1. /\ calls' = Append(calls, c) /\ checked' = checked \ {c} /\ c \in checked
      /\ UNCHANGED <<subs, fan, running, finished, runnerClosed, cleared>>
      /\ queue' = Append(queue, <<Len(calls'), 0>>)
  BY DEF PostClosure, runner!Accept
<1>2. /\ Len(calls') = Len(calls) + 1 /\ Len(calls) \in Nat
      /\ \A n \in 1..Len(calls) : calls'[n] = calls[n]
      /\ calls'[Len(calls) + 1] = c
      /\ \A n \in 1..Len(calls') : n \in 1..Len(calls) \/ n = Len(calls) + 1
      /\ \A n \in 1..Len(calls) : n \in 1..Len(calls')
  BY <1>1 DEF BusInv, TypeInv
<1>3. Waiting' = Waiting \cup {new} /\ Tasks' = Tasks \cup {new}
  <2>1. queue' = Append(queue, new)
    BY <1>1, <1>2
  <2>2. queue' \in Seq(Known') /\ queue \in Seq(Known)
    BY DEF BusInv, TypeInv
  <2>3. DOMAIN queue' = DOMAIN queue \cup {Len(queue) + 1} /\ queue'[Len(queue) + 1] = new
        /\ \A i \in DOMAIN queue : queue'[i] = queue[i]
    BY <2>1, <2>2
  <2>4. Waiting' = Waiting \cup {new}
    BY <2>3 DEF Waiting
  <2> QED BY <1>1, <2>4 DEF Tasks
<1>4. \A t \in Tasks : t[1] \in 1..Len(calls)
  BY DEF Tasks, Waiting, BusInv, TypeInv, Known
<1>5. CancelInv'
  <2>1. CancelInv
    BY DEF ReachInv
  <2>2. c.op = "unsubscribe" => c.id \in 1..Len(calls) /\ calls[c.id].op = "subscribe"
    BY <1>1, <2>1 DEF CancelInv
  <2>3. ASSUME NEW j \in 1..Len(calls'), calls'[j].op = "unsubscribe"
        PROVE  calls'[j].id \in 1..(j - 1) /\ calls'[calls'[j].id].op = "subscribe"
    <3>1. CASE j \in 1..Len(calls)
      <4>1. calls[j].id \in 1..(j - 1) /\ calls[calls[j].id].op = "subscribe" /\ calls'[j] = calls[j]
        BY <1>2, <2>1, <2>3, <3>1 DEF CancelInv
      <4>2. calls[j].id \in 1..Len(calls)
        BY <1>2, <3>1, <4>1
      <4> QED BY <1>2, <4>1, <4>2
    <3>2. CASE j = Len(calls) + 1
      BY <1>2, <2>2, <2>3, <3>2
    <3> QED BY <1>2, <3>1, <3>2
  <2>4. ASSUME NEW d \in checked', d.op = "unsubscribe"
        PROVE  d.id \in 1..Len(calls') /\ calls'[d.id].op = "subscribe"
    <3>1. d.id \in 1..Len(calls) /\ calls[d.id].op = "subscribe"
      BY <1>1, <2>1, <2>4 DEF CancelInv
    <3> QED BY <1>2, <3>1
  <2> QED BY <2>3, <2>4 DEF CancelInv
<1>6. \A n \in 1..Len(calls) : \A t, k :
        subscribes(n, t)' = subscribes(n, t) /\ unsubscribes(n, k)' = unsubscribes(n, k)
  BY <1>2 DEF subscribes, unsubscribes
<1>7. \A n : <<n, 0>> \in finished => n \in 1..Len(calls)
  BY DEF BusInv, TypeInv, Known
<1>8. TableInv'
  <2> SUFFICES ASSUME ~cleared
               PROVE  /\ \A n \in 1..Len(calls') : <<n, 0>> \in Tasks'
                      /\ ranOnce' => \A t \in Type : \A k :
                           inList(k, t)' <=> <<k, 0>> \in finished' /\ subscribes(k, t)' /\ ~cancelled(k)'
    BY <1>1 DEF TableInv
  <2>1. \A n \in 1..Len(calls') : <<n, 0>> \in Tasks'
    BY <1>2, <1>3 DEF ReachInv, TableInv
  <2>2. \A t, k : inList(k, t)' = inList(k, t)
    BY <1>1 DEF inList
  <2>3. \A k : cancelled(k)' <=> cancelled(k)
    BY <1>1, <1>2, <1>6, <1>7 DEF cancelled
  <2>4. ranOnce' => ranOnce
    BY <1>1, <1>2 DEF ranOnce
  <2>5. ranOnce => \A t \in Type : \A k :
          inList(k, t) <=> <<k, 0>> \in finished /\ subscribes(k, t) /\ ~cancelled(k)
    BY DEF ReachInv, TableInv
  <2> QED BY <1>1, <1>6, <1>7, <2>1, <2>2, <2>3, <2>4, <2>5
<1>9. PostedInv'
  <2>1. \A r \in running : r[1] \in 1..Len(calls) /\ calls'[r[1]] = calls[r[1]]
    BY <1>2, <1>4 DEF Tasks
  <2>2. Waiting \subseteq Waiting'
    BY <1>3
  <2> QED BY <1>1, <2>1, <2>2 DEF ReachInv, PostedInv
<1>10. ReachesAudience'
  <2> SUFFICES ASSUME NEW n \in 1..Len(calls'), isPublish(n)', cancelledOnce(n)'
               PROVE  /\ ~cleared' => posted(n)' \subseteq audience(n)'
                      /\ ~runnerClosed' /\ <<n, 0>> \in finished' => posted(n)' = audience(n)'
    BY DEF ReachesAudience
  <2>1. posted(n)' = posted(n)
    <3>1. posted(n) = {k \in Id : <<n, k>> \in Tasks}
      BY PostedIs DEF BusInv
    <3>2. posted(n)' = {k \in Id : <<n, k>> \in Tasks'}
      BY PostedAfter DEF BusInv
    <3>3. \A k \in Id : <<n, k>> \in Tasks' <=> <<n, k>> \in Tasks
      <4>1. \A k \in Id : <<n, k>> # new
        BY DEF Id
      <4> QED BY <1>3, <4>1
    <3> QED BY <3>1, <3>2, <3>3
  <2>2. CASE n \in 1..Len(calls)
    <3>1. audience(n)' = audience(n)
      <4>1. \A k \in 1..(n - 1) : k \in 1..Len(calls) /\ k..n \subseteq 1..Len(calls)
        BY <1>2, <2>2
      <4>2. calls'[n] = calls[n] /\ \A k \in 1..(n - 1) : calls'[k] = calls[k] /\ \A j \in k..n : calls'[j] = calls[j]
        BY <1>2, <2>2, <4>1
      <4> QED BY <4>2 DEF audience
    <3>2. isPublish(n)
      BY <1>2, <2>2 DEF isPublish
    <3>3. cancelledOnce(n)
      <4>1. \A i \in 1..n : calls'[i] = calls[i]
        BY <1>2, <2>2
      <4> QED BY <4>1 DEF cancelledOnce
    <3> QED BY <1>1, <2>1, <2>2, <3>1, <3>2, <3>3 DEF ReachInv, ReachesAudience
  <2>3. CASE n = Len(calls) + 1
    <3>1. \A k : <<n, k>> \notin Tasks
      BY <1>2, <1>4, <2>3
    <3>2. posted(n) = {}
      BY <3>1, PostedIs DEF BusInv
    <3>3. <<n, 0>> \notin finished
      BY <3>1 DEF Tasks
    <3> QED BY <1>1, <2>1, <3>2, <3>3
  <2> QED BY <1>2, <2>2, <2>3
<1> QED BY <1>5, <1>8, <1>9, <1>10 DEF ReachInv

\* A fan-out passes the runner's check, or, once the runner is closed, skips a
\* handler.
LEMMA FanOutCheckReach ==
  ASSUME BusInv, BusInv', ReachInv, NEW n \in Id, FanOutCheck(n)
  PROVE  ReachInv'
<1> USE DEF busVars, runnerVars, callVars
<1>1. /\ UNCHANGED <<calls, checked, subs, queue, running, finished, runnerClosed, cleared>>
      /\ fan' = IF runnerClosed THEN [fan EXCEPT !.next = @ + 1] ELSE [fan EXCEPT !.checked = TRUE]
  BY DEF FanOutCheck
<1>2. Tasks' = Tasks /\ Waiting' = Waiting
  BY <1>1 DEF Tasks, Waiting
<1>3. ReachesAudience'
  BY <1>1, <1>2, ReachStays DEF ReachInv
<1>4. TableInv'
  BY <1>1, <1>2, ListsStay DEF ReachInv
<1>5. CancelInv'
  BY <1>1 DEF ReachInv, CancelInv
<1>6. ~runnerClosed => fan'.next = fan.next
  BY <1>1 DEF BusInv, TypeInv
<1>7. PostedInv'
  BY <1>1, <1>2, <1>6 DEF ReachInv, PostedInv
<1> QED BY <1>3, <1>4, <1>5, <1>7 DEF ReachInv

\* A fan-out posts a handler, of a subscription in the audience.
LEMMA FanOutPostReach ==
  ASSUME BusInv, BusInv', ReachInv, NEW n \in Id, FanOutPost(n)
  PROVE  ReachInv'
<1> USE DEF busVars, runnerVars, callVars
<1>1. /\ isRunning(n, "publish") /\ fan.checked
      /\ queue' = Append(queue, <<n, subs[calls[n].type][fan.next]>>)
      /\ fan' = [next |-> fan.next + 1, checked |-> FALSE]
      /\ UNCHANGED <<calls, checked, subs, running, finished, runnerClosed, cleared>>
  BY DEF FanOutPost, runner!Accept
<1>2. /\ running = {<<n, 0>>} /\ n \in 1..Len(calls) /\ calls[n].op = "publish"
      /\ fan.next \in Nat \ {0} /\ fan.next \in 1..Len(subs[calls[n].type])
      /\ \A f \in finished : f[1] < n
  BY <1>1, FanOutIs
<1>3. PICK t \in Type : t = calls[n].type
  BY <1>1, FanOutIs
<1>4. PICK k \in Id : k = subs[t][fan.next] /\ inList(k, t)
  <2>1. subs[t] \in Seq(Id) /\ fan.next \in DOMAIN subs[t]
    BY <1>2, <1>3 DEF BusInv, TypeInv
  <2> QED BY <2>1 DEF inList
<1>5. Waiting' = Waiting \cup {<<n, k>>} /\ Tasks' = Tasks \cup {<<n, k>>}
  <2>1. queue' = Append(queue, <<n, k>>) /\ queue \in Seq(Known)
    BY <1>1, <1>3, <1>4 DEF BusInv, TypeInv
  <2>2. DOMAIN queue' = DOMAIN queue \cup {Len(queue) + 1} /\ queue'[Len(queue) + 1] = <<n, k>>
        /\ \A i \in DOMAIN queue : queue'[i] = queue[i]
    BY <2>1
  <2>3. Waiting' = Waiting \cup {<<n, k>>}
    BY <2>2 DEF Waiting
  <2> QED BY <1>1, <2>3 DEF Tasks
<1>6. CancelInv'
  BY <1>1 DEF ReachInv, CancelInv
<1>7. TableInv'
  <2>1. \A u, m : inList(m, u)' = inList(m, u) /\ subscribes(m, u)' = subscribes(m, u)
    BY <1>1 DEF inList, subscribes
  <2>2. \A m : cancelled(m)' = cancelled(m)
    BY <1>1 DEF cancelled, unsubscribes
  <2>3. ranOnce' = ranOnce
    BY <1>1 DEF ranOnce
  <2> QED BY <1>1, <1>5, <2>1, <2>2, <2>3 DEF ReachInv, TableInv
<1>8. PostedInv'
  <2>1. ~runnerClosed' => ~cleared'
    BY <1>1 DEF ReachInv, PostedInv
  <2>2. fan'.next = fan.next + 1
    BY <1>1
  <2>3. ASSUME ~runnerClosed, NEW m \in 1..(fan'.next - 1)
        PROVE  <<n, subs[t][m]>> \in Waiting'
    <3>1. CASE m = fan.next
      BY <1>4, <1>5, <3>1
    <3>2. CASE m # fan.next
      <4>1. m \in 1..(fan.next - 1)
        BY <1>2, <2>2, <3>2
      <4>2. <<n, 0>> \in running /\ isClosure(<<n, 0>>) /\ <<n, 0>>[1] = n
        BY <1>2 DEF isClosure
      <4>3. <<n, subs[t][m]>> \in Waiting
        BY <1>2, <1>3, <2>3, <4>1, <4>2 DEF ReachInv, PostedInv
      <4> QED BY <1>5, <4>3
    <3> QED BY <3>1, <3>2
  <2>4. \A r \in running : r[1] = n
    BY <1>2
  <2> QED BY <1>1, <1>3, <2>1, <2>3, <2>4 DEF PostedInv
<1>9. ReachesAudience'
  <2> SUFFICES ASSUME NEW m \in 1..Len(calls), isPublish(m), cancelledOnce(m)
               PROVE  /\ ~cleared' => posted(m)' \subseteq audience(m)'
                      /\ ~runnerClosed' /\ <<m, 0>> \in finished' => posted(m)' = audience(m)'
    BY <1>1 DEF ReachesAudience, isPublish, cancelledOnce
  <2>1. audience(m)' = audience(m)
    BY <1>1 DEF audience
  <2>2. posted(m) = {l \in Id : <<m, l>> \in Tasks} /\ posted(m)' = {l \in Id : <<m, l>> \in Tasks'}
    BY PostedIs, PostedAfter DEF BusInv
  <2>3. CASE m = n
    <3>1. ~cleared => k \in audience(n)
      BY <1>1, <1>3, <1>4, <2>3, ListIsAudience DEF ReachInv
    <3>2. posted(n)' = posted(n) \cup {k}
      BY <1>5, <2>2, <2>3
    <3>3. ~cleared => posted(n) \subseteq audience(n)
      BY <2>3 DEF ReachInv, ReachesAudience
    <3>4. <<n, 0>> \notin finished
      BY <1>2 DEF Id
    <3> QED BY <1>1, <2>1, <2>3, <3>1, <3>2, <3>3, <3>4
  <2>4. CASE m # n
    <3>1. posted(m)' = posted(m)
      BY <1>5, <2>2, <2>4
    <3> QED BY <1>1, <2>1, <3>1 DEF ReachInv, ReachesAudience
  <2> QED BY <2>3, <2>4
<1> QED BY <1>6, <1>7, <1>8, <1>9 DEF ReachInv

\* The closure of a call ends: no task is added, and no fan-out is under way.
LEMMA EndIs ==
  ASSUME NEW n \in Id, endTask(n)
  PROVE  /\ running = {<<n, 0>>} /\ running' = {} /\ finished' = finished \cup {<<n, 0>>}
         /\ UNCHANGED <<queue, runnerClosed, cleared>>
         /\ Tasks' = Tasks /\ Waiting' = Waiting
<1>1. /\ running = {<<n, 0>>} /\ running' = {} /\ finished' = finished \cup {<<n, 0>>}
      /\ UNCHANGED <<queue, runnerClosed, cleared>>
  BY DEF endTask, runner!Finish
<1>2. Waiting' = Waiting
  BY <1>1 DEF Waiting
<1> QED BY <1>1, <1>2 DEF Tasks

\* The barrier of WaitIdle.
LEMMA BarrierReach ==
  ASSUME BusInv, BusInv', ReachInv, NEW n \in Id, RunBarrier(n)
  PROVE  ReachInv'
<1> USE DEF busVars, callVars
<1>1. /\ calls[n].op = "wait" /\ endTask(n) /\ UNCHANGED <<calls, checked, subs>>
  BY DEF RunBarrier, isRunning
<1>2. /\ running' = {} /\ finished' = finished \cup {<<n, 0>>}
      /\ UNCHANGED <<runnerClosed, cleared>> /\ Tasks' = Tasks
  BY <1>1, EndIs
<1>3. \A m : <<m, 0>> \in finished' => <<m, 0>> \in finished \/ calls[m].op = "wait"
  BY <1>1, <1>2
<1>4. ReachesAudience' /\ TableInv'
  BY <1>1, <1>2, <1>3, ReachStays, ListsStay DEF ReachInv
<1>5. CancelInv' /\ PostedInv'
  BY <1>1, <1>2 DEF ReachInv, CancelInv, PostedInv
<1> QED BY <1>4, <1>5 DEF ReachInv

\* A fan-out ends, and has left nobody out unless the runner was closed.
LEMMA FanOutEndReach ==
  ASSUME BusInv, BusInv', ReachInv, NEW n \in Id, FanOutEnd(n)
  PROVE  ReachInv'
<1> USE DEF busVars, callVars
<1>1. /\ isRunning(n, "publish") /\ endTask(n) /\ UNCHANGED <<calls, checked, subs>>
      /\ fan.next > Len(subs[calls[n].type])
  BY DEF FanOutEnd
<1>2. /\ running = {<<n, 0>>} /\ running' = {} /\ finished' = finished \cup {<<n, 0>>}
      /\ UNCHANGED <<runnerClosed, cleared>> /\ Tasks' = Tasks
  BY <1>1, EndIs
<1>3. /\ calls[n].op = "publish" /\ calls[n].type \in Type /\ subs[calls[n].type] \in Seq(Id)
      /\ fan.next \in Nat \ {0} /\ fan.next <= Len(subs[calls[n].type]) + 1
      /\ Len(subs[calls[n].type]) \in Nat
  BY <1>1, FanOutIs
<1>4. TableInv'
  <2>1. \A m : <<m, 0>> \in finished' => <<m, 0>> \in finished \/ calls[m].op \notin {"subscribe", "unsubscribe"}
    BY <1>2, <1>3
  <2> QED BY <1>1, <1>2, <2>1, ListsStay DEF ReachInv
<1>5. CancelInv' /\ PostedInv'
  BY <1>1, <1>2 DEF ReachInv, CancelInv, PostedInv
<1>6. ~runnerClosed /\ cancelledOnce(n) => audience(n) \subseteq posted(n)
  <2> SUFFICES ASSUME ~runnerClosed, cancelledOnce(n), NEW k \in audience(n)
               PROVE  k \in posted(n)
    OBVIOUS
  <2>1. ~cleared
    BY DEF ReachInv, PostedInv
  <2>2. inList(k, calls[n].type)
    BY <1>1, <2>1, ListIsAudience DEF ReachInv
  <2>3. PICK i \in 1..Len(subs[calls[n].type]) : subs[calls[n].type][i] = k
    BY <1>3, <2>2 DEF inList
  <2>4. i \in 1..(fan.next - 1) /\ k \in Id
    BY <1>1, <1>3, <2>3
  <2>5. <<n, 0>> \in running /\ isClosure(<<n, 0>>) /\ <<n, 0>>[1] = n
    BY <1>2 DEF isClosure
  <2>6. <<n, k>> \in Waiting
    BY <1>3, <2>3, <2>4, <2>5 DEF ReachInv, PostedInv
  <2> QED BY <2>4, <2>6, PostedIs DEF BusInv, Tasks
<1>7. ReachesAudience'
  <2> SUFFICES ASSUME NEW m \in 1..Len(calls), isPublish(m), cancelledOnce(m)
               PROVE  /\ ~cleared' => posted(m)' \subseteq audience(m)'
                      /\ ~runnerClosed' /\ <<m, 0>> \in finished' => posted(m)' = audience(m)'
    BY <1>1 DEF ReachesAudience, isPublish, cancelledOnce
  <2>1. audience(m)' = audience(m)
    BY <1>1 DEF audience
  <2>2. posted(m)' = posted(m)
    <3>1. posted(m) = {l \in Id : <<m, l>> \in Tasks} /\ posted(m)' = {l \in Id : <<m, l>> \in Tasks'}
      BY PostedIs, PostedAfter DEF BusInv
    <3> QED BY <1>2, <3>1
  <2>3. ~cleared => posted(m) \subseteq audience(m)
    BY DEF ReachInv, ReachesAudience
  <2>4. CASE m = n
    <3>1. ~runnerClosed => ~cleared
      BY DEF ReachInv, PostedInv
    <3>2. ~runnerClosed => posted(m) = audience(m)
      BY <1>6, <2>3, <2>4, <3>1
    <3> QED BY <1>2, <2>1, <2>2, <2>3, <3>2
  <2>5. CASE m # n
    <3>1. <<m, 0>> \in finished' => <<m, 0>> \in finished
      BY <1>2, <2>5
    <3> QED BY <1>2, <2>1, <2>2, <2>3, <3>1 DEF ReachInv, ReachesAudience
  <2> QED BY <2>4, <2>5
<1> QED BY <1>4, <1>5, <1>7 DEF ReachInv

\* Closures that change the lists: what remains to be shown is that they are right.
LEMMA TableStepReach ==
  ASSUME BusInv, BusInv', ReachInv, NEW n \in Id, running = {<<n, 0>>}, endTask(n),
         calls[n].op # "publish", UNCHANGED <<calls, checked>>,
         ASSUME ~cleared, ranOnce'
         PROVE  \A t \in Type : \A k :
                  inList(k, t)' <=> <<k, 0>> \in finished' /\ subscribes(k, t) /\ ~cancelled(k)'
  PROVE  ReachInv'
<1>1. /\ running' = {} /\ finished' = finished \cup {<<n, 0>>}
      /\ UNCHANGED <<runnerClosed, cleared>> /\ Tasks' = Tasks
  BY EndIs
<1>2. \A m : <<m, 0>> \in finished' => <<m, 0>> \in finished \/ calls[m].op # "publish"
  BY <1>1
<1>3. ReachesAudience'
  BY <1>1, <1>2, ReachStays DEF ReachInv
<1>4. CancelInv' /\ PostedInv'
  BY <1>1 DEF ReachInv, CancelInv, PostedInv
<1>5. TableInv'
  <2>1. \A k, t : subscribes(k, t)' = subscribes(k, t)
    BY DEF subscribes
  <2> QED BY <1>1, <2>1 DEF ReachInv, TableInv
<1> QED BY <1>3, <1>4, <1>5 DEF ReachInv

\* The subscriptions cancelled once closure n has ended.
LEMMA CancelledIs ==
  ASSUME BusInv, NEW n \in Id, running = {<<n, 0>>}, finished' = finished \cup {<<n, 0>>}, calls' = calls
  PROVE  \A k : cancelled(k)' <=> cancelled(k) \/ unsubscribes(n, k)
<1>1. n \in 1..Len(calls)
  BY RunningIs DEF BusInv
<1>2. \A j, k : unsubscribes(j, k)' = unsubscribes(j, k)
  BY DEF unsubscribes
<1>3. \A j : <<j, 0>> \in finished' <=> <<j, 0>> \in finished \/ j = n
  OBVIOUS
<1> QED BY <1>1, <1>2, <1>3 DEF cancelled

\* A subscription appears in its list, and in no other.
LEMMA SubscribeReach ==
  ASSUME BusInv, BusInv', ReachInv, NEW n \in Id, RunSubscribe(n)
  PROVE  ReachInv'
<1> USE DEF callVars
<1>1. /\ running = {<<n, 0>>} /\ calls[n].op = "subscribe" /\ endTask(n)
      /\ UNCHANGED <<calls, checked>>
      /\ finished' = finished \cup {<<n, 0>>}
  BY DEF RunSubscribe, isRunning, endTask, runner!Finish
<1>2. /\ n \in 1..Len(calls) /\ calls[n] \in Call /\ <<n, 0>> \notin finished
      /\ \A f \in finished : f[1] < n
  BY <1>1, RunningIs DEF BusInv
<1>3. PICK t \in Type : t = calls[n].type
  BY <1>1, <1>2, CallIs
<1>4. /\ subs \in [Type -> Seq(Id)]
      /\ subs' = [subs EXCEPT ![t] = Append(@, n)]
  BY <1>3 DEF RunSubscribe, BusInv, TypeInv
<1>5. \A u \in Type : \A k : inList(k, u)' <=> inList(k, u) \/ (u = t /\ k = n)
  <2> SUFFICES ASSUME NEW u \in Type, NEW k
               PROVE  inList(k, u)' <=> inList(k, u) \/ (u = t /\ k = n)
    OBVIOUS
  <2>1. CASE u = t
    <3>1. subs'[t] = Append(subs[t], n) /\ subs[t] \in Seq(Id)
      BY <1>4
    <3>2. /\ DOMAIN subs'[t] = DOMAIN subs[t] \cup {Len(subs[t]) + 1}
          /\ subs'[t][Len(subs[t]) + 1] = n
          /\ \A i \in DOMAIN subs[t] : subs'[t][i] = subs[t][i]
      BY <3>1
    <3> QED BY <2>1, <3>2 DEF inList
  <2>2. CASE u # t
    BY <1>4, <2>2 DEF inList
  <2> QED BY <2>1, <2>2
<1>6. \A k : cancelled(k)' <=> cancelled(k)
  <2>1. \A k : ~unsubscribes(n, k)
    BY <1>1, UnsubscribesIs
  <2> QED BY <1>1, <2>1, CancelledIs
<1>7. ~cancelled(n)
  <2> SUFFICES ASSUME NEW j \in 1..Len(calls), <<j, 0>> \in finished, unsubscribes(j, n)
               PROVE  FALSE
    BY DEF cancelled
  <2>1. n \in 1..(j - 1)
    BY CancelledLater DEF ReachInv
  <2>2. j < n
    BY <1>2
  <2> QED BY <2>1, <2>2 DEF Id
<1>8. \A u : subscribes(n, u) <=> u = t
  <2>1. calls[n] = [op |-> "subscribe", type |-> t]
    BY <1>1, <1>2, <1>3, CallIs
  <2> QED BY <2>1 DEF subscribes
<1>9. ASSUME ~cleared, ranOnce', NEW u \in Type, NEW k
      PROVE  inList(k, u)' <=> <<k, 0>> \in finished' /\ subscribes(k, u) /\ ~cancelled(k)'
  <2>1. inList(k, u) <=> <<k, 0>> \in finished /\ subscribes(k, u) /\ ~cancelled(k)
    <3>1. ranOnce
      BY <1>1, <1>9 DEF ranOnce
    <3> QED BY <1>9, <3>1 DEF ReachInv, TableInv
  <2>2. CASE k = n
    BY <1>1, <1>2, <1>5, <1>6, <1>7, <1>8, <2>1, <2>2
  <2>3. CASE k # n
    <3>1. <<k, 0>> \in finished' <=> <<k, 0>> \in finished
      BY <1>1, <2>3
    <3> QED BY <1>5, <1>6, <2>1, <2>3, <3>1
  <2> QED BY <2>2, <2>3
<1> QED BY <1>1, <1>9, TableStepReach

\* Unsubscribe takes its subscription out of its list, and no other, as long as
\* the locator is its own: nobody cancelled the subscription before.
LEMMA UnsubscribeReach ==
  ASSUME BusInv, BusInv', ReachInv, NEW n \in Id, RunUnsubscribe(n)
  PROVE  ReachInv'
<1> USE DEF callVars
<1>1. /\ running = {<<n, 0>>} /\ calls[n].op = "unsubscribe" /\ endTask(n)
      /\ UNCHANGED <<calls, checked>>
      /\ finished' = finished \cup {<<n, 0>>}
      /\ unsubscribe(calls[n].id)
  BY DEF RunUnsubscribe, isRunning, endTask, runner!Finish
<1>2. n \in 1..Len(calls) /\ calls[n] \in Call /\ <<n, 0>> \notin finished
  BY <1>1, RunningIs DEF BusInv
<1>3. PICK k : /\ k = calls[n].id /\ calls[n] = [op |-> "unsubscribe", id |-> k]
               /\ k \in 1..(n - 1) /\ calls[k].op = "subscribe"
  BY <1>1, <1>2, CallIs DEF ReachInv, CancelInv
<1>4. k \in 1..Len(calls) /\ k < n /\ calls[k] \in Call
  BY <1>2, <1>3 DEF BusInv, TypeInv
<1>5. PICK t \in Type : subscribes(k, t)
  BY <1>3, <1>4, CallIs DEF subscribes
<1>6. \A m : unsubscribes(n, m) <=> m = k
  BY <1>3 DEF unsubscribes
<1>7. \A m : cancelled(m)' <=> cancelled(m) \/ m = k
  BY <1>1, <1>6, CancelledIs
<1>8. ASSUME ~cleared, ranOnce', NEW u \in Type, NEW m
      PROVE  inList(m, u)' <=> <<m, 0>> \in finished' /\ subscribes(m, u) /\ ~cancelled(m)'
  <2>1. \A v \in Type : \A l : inList(l, v) <=> <<l, 0>> \in finished /\ subscribes(l, v) /\ ~cancelled(l)
    <3>1. ranOnce
      BY <1>1, <1>8 DEF ranOnce
    <3> QED BY <1>8, <3>1 DEF ReachInv, TableInv
  <2>2. <<k, 0>> \in finished
    BY <1>1, <1>4, <1>8, EarlierDone DEF ReachInv
  <2>3. ~cancelled(k)
    <3> SUFFICES ASSUME NEW j \in 1..Len(calls), <<j, 0>> \in finished, unsubscribes(j, k)
                 PROVE  FALSE
      BY DEF cancelled
    <3>1. calls[j] = calls[n] /\ j # n
      BY <1>2, <1>3 DEF unsubscribes
    <3>2. <<j, 0>> \in finished' /\ <<n, 0>> \in finished'
      BY <1>1
    <3>3. j = n
      BY <1>1, <1>2, <1>8, <3>1, <3>2 DEF ranOnce
    <3> QED BY <3>1, <3>3
  <2>4. inList(k, t)
    BY <1>5, <2>1, <2>2, <2>3
  <2>5. subs \in [Type -> Seq(Id)] /\ subs[t] \in Seq(Id)
    BY DEF BusInv, TypeInv
  <2>6. PICK i \in 1..Len(subs[t]) : subs[t][i] = k
    BY <2>4, <2>5 DEF inList
  <2>7. k \in DOMAIN byID /\ byID[k].type = t /\ byID[k].index = i
    <3>1. k \in DOMAIN byID /\ byID[k] = [type |-> t, index |-> i]
      BY <2>6, Located DEF BusInv
    <3> QED BY <3>1
  <2>8. subs' = [subs EXCEPT ![t] = swapRemove(subs[t], i)]
    <3>1. ~(k \notin DOMAIN byID \/ byID[k].index > Len(subs[byID[k].type]))
      BY <2>5, <2>6, <2>7
    <3> QED BY <1>1, <1>3, <2>7, <3>1 DEF unsubscribe
  <2>9. \A l, o \in 1..Len(subs[t]) : subs[t][l] = subs[t][o] => l = o
    BY ListsDistinct DEF BusInv
  <2>10. inList(m, t)' <=> inList(m, t) /\ m # k
    <3>1. subs'[t] = swapRemove(subs[t], i)
      BY <2>5, <2>8
    <3>2. holds(swapRemove(subs[t], i), m) <=> holds(subs[t], m) /\ m # subs[t][i]
      BY <2>5, <2>9, SwapRemoveDrops
    <3> QED BY <2>6, <3>1, <3>2 DEF inList, holds
  <2>11. subscribes(m, u) => (<<m, 0>> \in finished' <=> <<m, 0>> \in finished)
    <3>1. subscribes(m, u) => m # n
      BY <1>1, SubscribesIs
    <3> QED BY <1>1, <3>1
  <2>12. CASE u = t
    BY <1>7, <2>1, <2>10, <2>11, <2>12
  <2>13. CASE u # t
    <3>1. inList(m, u)' <=> inList(m, u)
      BY <2>5, <2>8, <2>13 DEF inList
    <3>2. subscribes(m, u) => m # k
      BY <1>5, <2>13, SubscribesIs
    <3> QED BY <1>7, <2>1, <2>11, <3>1, <3>2
  <2> QED BY <2>12, <2>13
<1> QED BY <1>1, <1>8, TableStepReach

\* The invariant holds initially ...
LEMMA InitReach == Init => ReachInv
<1> SUFFICES ASSUME Init PROVE ReachInv
  OBVIOUS
<1>1. /\ calls = << >> /\ checked = {} /\ subs = [t \in Type |-> << >>]
      /\ running = {} /\ finished = {} /\ runnerClosed = FALSE /\ cleared = FALSE
  BY DEF Init, runner!Init
<1>2. Len(calls) = 0 /\ 1..Len(calls) = {}
  BY <1>1
<1>3. \A t \in Type : \A k : ~inList(k, t)
  BY <1>1 DEF inList
<1> QED BY <1>1, <1>2, <1>3 DEF ReachInv, CancelInv, TableInv, PostedInv, ReachesAudience

\* ... and every step keeps it.
LEMMA NextReach == BusInv /\ BusInv' /\ ReachInv /\ [Next]_vars => ReachInv'
<1> SUFFICES ASSUME BusInv, BusInv', ReachInv, [Next]_vars PROVE ReachInv'
  OBVIOUS
<1>1. CASE RunTask
  BY <1>1, SubscribeReach, UnsubscribeReach, BarrierReach, FanOutCheckReach, FanOutPostReach,
     FanOutEndReach, HandlerReach
     DEF RunTask
<1> QED BY <1>1, CallersReach, PostClosureReach, ShutdownReach, StartReach DEF Next

\* A fan-out reaches exactly the subscriptions made and not cancelled before its
\* event, and until the runner is closed leaves none of them out, whatever is
\* called before and after (EventBus.Publish, Subscribe, Unsubscribe), unless one
\* subscription was cancelled twice before the event: the index of a locator left
\* behind may by then be that of another subscription.
THEOREM FanOutReachesAudience == Safety => []ReachesAudience
<1>1. ReachInv => ReachesAudience
  BY DEF ReachInv
<1>2. Init => BusInv /\ ReachInv
  BY InitBus, InitReach
<1>3. BusInv /\ ReachInv /\ [Next]_vars => (BusInv /\ ReachInv)'
  BY NextBus, NextReach
<1> QED BY <1>1, <1>2, <1>3, PTL DEF Safety
=============================================================================
