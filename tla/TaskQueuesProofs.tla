-------------------------- MODULE TaskQueuesProofs --------------------------
(***************************************************************************)
(* The queues, for any number of tasks, any capacities and any range of    *)
(* sequence numbers: the slice of the FIFO queue holds what was pushed and *)
(* not popped, in order; and the priority queue hands out a task of the    *)
(* highest priority, the oldest one unless its sequence wrapped.           *)
(***************************************************************************)
EXTENDS TaskQueues, SequenceTheorems, TLAPS

-----------------------------------------------------------------------------
(* FIFOTaskQueue.                                                          *)

\* The array c begins with the tasks of q.
backs(c, q) == c \in Seq(Nat) /\ q \in Seq(Nat) /\ Len(q) <= Len(c) /\ \A i \in 1..Len(q) : c[i] = q[i]

\* The inductive invariant: FIFOContents place by place, and the slice within its
\* array.
FIFOInv == pushes \in Nat /\ backs(cells, fifo) /\ len = Len(fifo)

\* New cells.
LEMMA FreshIs ==
  ASSUME NEW n \in Nat
  PROVE  fresh(n) \in Seq(Nat) /\ Len(fresh(n)) = n
BY DEF fresh, Zero

\* What SubSeq does, place by place.
LEMMA FrontIs ==
  ASSUME NEW c \in Seq(Nat), NEW n \in 0..Len(c)
  PROVE  /\ SubSeq(c, 1, n) \in Seq(Nat) /\ Len(SubSeq(c, 1, n)) = n
         /\ \A i \in 1..n : SubSeq(c, 1, n)[i] = c[i]
OBVIOUS

LEMMA RestIs ==
  ASSUME NEW c \in Seq(Nat), NEW n \in 0..Len(c)
  PROVE  /\ SubSeq(c, n + 1, Len(c)) \in Seq(Nat) /\ Len(SubSeq(c, n + 1, Len(c))) = Len(c) - n
         /\ \A i \in 1..(Len(c) - n) : SubSeq(c, n + 1, Len(c))[i] = c[n + i]
OBVIOUS

\* What concatenation does to the places of its first part.
LEMMA ConcatIs ==
  ASSUME NEW a \in Seq(Nat), NEW b \in Seq(Nat)
  PROVE  /\ a \o b \in Seq(Nat) /\ Len(a \o b) = Len(a) + Len(b)
         /\ \A i \in 1..Len(a) : (a \o b)[i] = a[i]
<1>1. /\ a \o b \in Seq(Nat) /\ Len(a \o b) = Len(a) + Len(b)
      /\ \A i \in 1..Len(a) + Len(b) : (a \o b)[i] = IF i <= Len(a) THEN a[i] ELSE b[i - Len(a)]
  BY ConcatProperties, Zenon
<1>2. \A i \in 1..Len(a) : i \in 1..Len(a) + Len(b) /\ i <= Len(a)
  OBVIOUS
<1>3. \A i \in 1..Len(a) : (a \o b)[i] = a[i]
  BY <1>1, <1>2, Zenon
<1> QED BY <1>1, <1>3

\* A longer array begins with the same tasks.
LEMMA PaddedBacks ==
  ASSUME NEW c, NEW q, backs(c, q), NEW n \in Nat
  PROVE  backs(SubSeq(c, 1, Len(q)) \o fresh(n), q)
<1>1. c \in Seq(Nat) /\ q \in Seq(Nat) /\ Len(q) \in 0..Len(c) /\ \A i \in 1..Len(q) : c[i] = q[i]
  BY DEF backs
<1> DEFINE f == SubSeq(c, 1, Len(q))
           z == fresh(n)
<1>2. f \in Seq(Nat) /\ Len(f) = Len(q) /\ \A i \in 1..Len(q) : f[i] = c[i]
  BY <1>1, FrontIs
<1>3. z \in Seq(Nat) /\ Len(z) = n
  BY FreshIs
<1> HIDE DEF f, z
<1>4. f \o z \in Seq(Nat) /\ Len(f \o z) = Len(q) + n /\ \A i \in 1..Len(q) : (f \o z)[i] = f[i]
  <2>1. f \o z \in Seq(Nat) /\ Len(f \o z) = Len(f) + Len(z) /\ \A i \in 1..Len(f) : (f \o z)[i] = f[i]
    BY <1>2, <1>3, ConcatIs, Zenon
  <2> QED BY <1>2, <1>3, <2>1
<1>5. backs(f \o z, q)
  BY <1>1, <1>2, <1>4 DEF backs
<1> QED BY <1>5 DEF f, z

\* Compaction keeps the tasks.
LEMMA CompactBacks ==
  ASSUME NEW c, NEW q, backs(c, q)
  PROVE  backs(maybeCompact(c, Len(q)), q)
<1>1. c \in Seq(Nat) /\ q \in Seq(Nat) /\ Len(c) \in Nat /\ Len(q) \in Nat
  BY DEF backs
<1>2. CASE maybeCompact(c, Len(q)) = c
  BY <1>2
<1>3. CASE maybeCompact(c, Len(q)) = fresh(DefaultCap) /\ Len(q) = 0
  BY <1>1, <1>3, FreshIs, CapAssumption DEF backs
<1>4. CASE maybeCompact(c, Len(q)) = compacted(c, Len(q))
  <2>1. Len(c) \div 2 \in Nat
    BY <1>1
  <2> DEFINE half == IF Len(c) \div 2 >= DefaultCap THEN Len(c) \div 2 ELSE DefaultCap
             newCap == IF half >= Len(q) THEN half ELSE Len(q)
  <2>2. newCap - Len(q) \in Nat
    BY <1>1, <2>1, CapAssumption
  <2>3. compacted(c, Len(q)) = SubSeq(c, 1, Len(q)) \o fresh(newCap - Len(q))
    BY DEF compacted
  <2> HIDE DEF newCap
  <2> QED BY <1>4, <2>2, <2>3, PaddedBacks
<1> QED BY <1>2, <1>3, <1>4 DEF maybeCompact

\* The slice advances over popped tasks.
LEMMA AdvanceKeeps ==
  ASSUME FIFOInv, NEW n \in 0..len, advance(n)
  PROVE  FIFOInv'
<1> DEFINE c == SubSeq(cells, n + 1, Len(cells))
           q == SubSeq(fifo, n + 1, Len(fifo))
<1>1. /\ cells \in Seq(Nat) /\ fifo \in Seq(Nat) /\ len = Len(fifo) /\ Len(fifo) <= Len(cells)
      /\ Len(fifo) \in Nat /\ Len(cells) \in Nat
      /\ \A i \in 1..Len(fifo) : cells[i] = fifo[i]
  BY DEF FIFOInv, backs
<1>2. n \in 0..Len(cells) /\ n \in 0..Len(fifo)
  BY <1>1
<1>3. c \in Seq(Nat) /\ Len(c) = Len(cells) - n /\ \A i \in 1..(Len(cells) - n) : c[i] = cells[n + i]
  BY <1>1, <1>2, RestIs
<1>4. q \in Seq(Nat) /\ Len(q) = Len(fifo) - n /\ \A i \in 1..(Len(fifo) - n) : q[i] = fifo[n + i]
  BY <1>1, <1>2, RestIs
<1>5. len' = len - n /\ cells' = maybeCompact(c, len - n) /\ fifo' = q /\ pushes' = pushes
  BY DEF advance
<1> HIDE DEF c, q
<1>6. \A i \in 1..(Len(fifo) - n) : c[i] = q[i]
  <2> SUFFICES ASSUME NEW i \in 1..(Len(fifo) - n) PROVE c[i] = q[i]
    OBVIOUS
  <2>1. n + i \in 1..Len(fifo) /\ i \in 1..(Len(cells) - n)
    BY <1>1, <1>2
  <2> QED BY <1>1, <1>3, <1>4, <2>1
<1>7. backs(c, q)
  BY <1>1, <1>2, <1>3, <1>4, <1>6 DEF backs
<1>8. len - n = Len(q)
  BY <1>1, <1>4
<1>9. backs(cells', fifo')
  BY <1>5, <1>7, <1>8, CompactBacks
<1> QED BY <1>5, <1>8, <1>9 DEF FIFOInv

\* A push appends its task, in place or in a larger array.
LEMMA PushKeeps ==
  ASSUME FIFOInv, PushFIFO
  PROVE  FIFOInv'
<1>1. /\ cells \in Seq(Nat) /\ fifo \in Seq(Nat) /\ len = Len(fifo) /\ Len(fifo) <= Len(cells)
      /\ Len(fifo) \in Nat /\ Len(cells) \in Nat
      /\ \A i \in 1..Len(fifo) : cells[i] = fifo[i]
  BY DEF FIFOInv, backs
<1>2. PICK p \in Nat : p = pushes' /\ len' = len + 1 /\ fifo' = Append(fifo, p)
  BY DEF PushFIFO, FIFOInv
<1>3. /\ fifo' \in Seq(Nat) /\ Len(fifo') = Len(fifo) + 1 /\ fifo'[Len(fifo) + 1] = p
      /\ \A i \in 1..Len(fifo) : fifo'[i] = fifo[i]
  BY <1>1, <1>2
<1>4. CASE len < Len(cells) /\ cells' = [cells EXCEPT ![len + 1] = p]
  <2>1. len + 1 \in 1..Len(cells)
    BY <1>1, <1>4
  <2>2. /\ cells' \in Seq(Nat) /\ Len(cells') = Len(cells) /\ cells'[len + 1] = p
        /\ \A i \in 1..len : cells'[i] = cells[i]
    BY <1>1, <1>4, <2>1
  <2>3. ASSUME NEW i \in 1..Len(fifo')
        PROVE  cells'[i] = fifo'[i]
    <3>1. CASE i = len + 1
      BY <1>1, <1>3, <2>2, <3>1
    <3>2. CASE i # len + 1
      <4>1. i \in 1..Len(fifo) /\ i \in 1..len
        BY <1>1, <1>3, <3>2
      <4> QED BY <1>1, <1>3, <2>2, <4>1
    <3> QED BY <3>1, <3>2
  <2>4. backs(cells', fifo')
    BY <1>1, <1>3, <2>1, <2>2, <2>3 DEF backs
  <2> QED BY <1>1, <1>2, <1>3, <2>4 DEF FIFOInv
<1>5. CASE len = Len(cells) /\ cells' = Append(contents, p) \o fresh(grown(len) - (len + 1))
  <2> DEFINE n == grown(len) - (len + 1)
  <2>1. n \in Nat
    BY <1>1 DEF grown
  <2>2. contents \in Seq(Nat) /\ Len(contents) = len /\ \A i \in 1..len : contents[i] = cells[i]
    BY <1>1, <1>5, FrontIs DEF contents
  <2>3. contents = fifo
    BY <1>1, <2>2, SeqEqual
  <2>4. cells' = fifo' \o fresh(n)
    BY <1>2, <1>5, <2>3
  <2> HIDE DEF n
  <2>5. fresh(n) \in Seq(Nat) /\ Len(fresh(n)) = n
    BY <2>1, FreshIs
  <2>6. /\ cells' \in Seq(Nat) /\ Len(cells') = Len(fifo') + n
        /\ \A i \in 1..Len(fifo') : cells'[i] = fifo'[i]
    <3>1. /\ fifo' \o fresh(n) \in Seq(Nat) /\ Len(fifo' \o fresh(n)) = Len(fifo') + Len(fresh(n))
          /\ \A i \in 1..Len(fifo') : (fifo' \o fresh(n))[i] = fifo'[i]
      BY <1>3, <2>5, ConcatIs, Zenon
    <3> QED BY <2>4, <2>5, <3>1
  <2>7. backs(cells', fifo')
    BY <1>1, <1>3, <2>1, <2>6 DEF backs
  <2> QED BY <1>1, <1>2, <1>3, <2>7 DEF FIFOInv
<1> QED BY <1>2, <1>4, <1>5 DEF PushFIFO

\* Every step keeps the invariant.
LEMMA FIFONext == FIFOInv /\ [Next]_vars => FIFOInv'
<1> SUFFICES ASSUME FIFOInv, [Next]_vars PROVE FIFOInv'
  OBVIOUS
<1>1. len \in Nat
  BY DEF FIFOInv, backs
<1>2. CASE PushFIFO
  BY <1>2, PushKeeps
<1>3. CASE PopFIFO
  <2>1. 1 \in 0..len
    BY <1>1, <1>3 DEF PopFIFO
  <2> QED BY <1>3, <2>1, AdvanceKeeps DEF PopFIFO
<1>4. ASSUME NEW max \in 1..MaxPushes, PopUpToFIFO(max)
      PROVE  FIFOInv'
  <2>1. CASE len' = 0 /\ fifo' = << >> /\ UNCHANGED <<pushes, cells>>
    BY <2>1 DEF FIFOInv, backs
  <2>2. CASE len > max /\ advance(max)
    <3>1. max \in 0..len
      BY <1>1, <2>2, BoundsAssumption
    <3> QED BY <2>2, <3>1, AdvanceKeeps
  <2> QED BY <1>4, <2>1, <2>2 DEF PopUpToFIFO
<1>5. CASE MaybeCompact
  BY <1>5, CompactBacks DEF MaybeCompact, FIFOInv
<1>6. CASE ClearFIFO
  BY <1>6, FreshIs, CapAssumption DEF ClearFIFO, FIFOInv, backs
<1>7. ASSUME NEW p \in Priority, PushPriority(p)
      PROVE  FIFOInv'
  BY <1>7 DEF PushPriority, fifoVars, FIFOInv
<1>8. CASE PopPriority \/ ClearPriority \/ UNCHANGED vars
  BY <1>8 DEF PopPriority, ClearPriority, vars, fifoVars, FIFOInv
<1> QED BY <1>2, <1>3, <1>4, <1>5, <1>6, <1>7, <1>8 DEF Next

\* Through growth, slicing, batches, compaction and Clear the slice holds exactly
\* the tasks pushed and not popped, in order (FIFOTaskQueue).
THEOREM FIFOHoldsItsTasks == Spec => []FIFOContents
<1>1. Init => FIFOInv
  <2> SUFFICES ASSUME Init PROVE FIFOInv
    OBVIOUS
  <2> QED BY FreshIs, CapAssumption DEF Init, FIFOInv, backs
<1>2. FIFOInv => FIFOContents
  <2> SUFFICES ASSUME FIFOInv PROVE contents = fifo
    BY DEF FIFOContents
  <2>1. /\ cells \in Seq(Nat) /\ fifo \in Seq(Nat) /\ len = Len(fifo) /\ len \in 0..Len(cells)
        /\ \A i \in 1..Len(fifo) : cells[i] = fifo[i]
    BY DEF FIFOInv, backs
  <2>2. contents \in Seq(Nat) /\ Len(contents) = len /\ \A i \in 1..len : contents[i] = cells[i]
    BY <2>1, FrontIs DEF contents
  <2> QED BY <2>1, <2>2, SeqEqual
<1> QED BY <1>1, <1>2, FIFONext, PTL DEF Spec

-----------------------------------------------------------------------------
(* PriorityTaskQueue.                                                      *)

\* The inductive invariant: tasks are numbered as they are pushed, and until the
\* sequence wraps their sequence numbers are in the same order, below the next one.
PrioInv ==
  /\ pushes \in Nat /\ nextSequence \in 0..MaxSequence /\ wrapped \in BOOLEAN
  /\ \A x \in pq : x.task \in 1..pushes /\ x.sequence \in Nat /\ x.priority \in Nat
  /\ \A x, y \in pq : x.task = y.task => x = y
  /\ ~wrapped => /\ \A x \in pq : x.sequence < nextSequence
                 /\ \A x, y \in pq : x.task < y.task => x.sequence < y.sequence

\* The number after a sequence number.
LEMMA NextSequenceIs ==
  ASSUME NEW n \in 0..MaxSequence
  PROVE  /\ (n + 1) % (MaxSequence + 1) \in 0..MaxSequence
         /\ n # MaxSequence => (n + 1) % (MaxSequence + 1) = n + 1
BY BoundsAssumption

\* A push: its task is the newest, and its sequence number the largest unless the
\* range has been used up with items in the queue.
LEMMA PushPriorityKeeps ==
  ASSUME PrioInv, NEW p \in Priority, PushPriority(p)
  PROVE  PrioInv'
<1>1. PICK s : s = sequenceForPush
  OBVIOUS
<1>2. /\ s \in 0..MaxSequence
      /\ pq = {} \/ s = nextSequence
      /\ s = MaxSequence => nextSequence = MaxSequence /\ pq # {}
  BY <1>1, BoundsAssumption DEF PrioInv, sequenceForPush
<1>3. PICK e : e = [task |-> pushes', priority |-> p, sequence |-> s]
  OBVIOUS
<1>4. /\ pq' = pq \cup {e} /\ nextSequence' = (s + 1) % (MaxSequence + 1)
      /\ pushes' = pushes + 1
      /\ wrapped' = (wrapped \/ (nextSequence = MaxSequence /\ pq # {}))
  BY <1>1, <1>3 DEF PushPriority
<1>5. e.task = pushes + 1 /\ e.sequence = s /\ e.priority \in Nat /\ s \in Nat
  BY <1>2, <1>3, <1>4, PriorityAssumption
<1>6. nextSequence' \in 0..MaxSequence /\ (s # MaxSequence => nextSequence' = s + 1)
  BY <1>2, <1>4, NextSequenceIs
<1>7. wrapped' \in BOOLEAN
  BY <1>4
<1>8. ~wrapped' => ~wrapped /\ s # MaxSequence
  BY <1>2, <1>4
<1>9. pushes \in Nat /\ pushes' \in Nat /\ \A x \in pq : x.task \in 1..pushes
  BY <1>4 DEF PrioInv
<1>10. \A x \in pq' : x.task \in 1..pushes' /\ x.sequence \in Nat /\ x.priority \in Nat
  BY <1>4, <1>5, <1>9 DEF PrioInv
<1>11. ASSUME NEW x \in pq', NEW y \in pq', x.task = y.task
       PROVE  x = y
  BY <1>4, <1>5, <1>9, <1>11 DEF PrioInv
<1>12. ASSUME ~wrapped', NEW x \in pq'
       PROVE  x.sequence < nextSequence'
  <2>1. CASE x = e
    BY <1>5, <1>6, <1>8, <1>12, <2>1
  <2>2. CASE x \in pq
    BY <1>2, <1>5, <1>6, <1>8, <1>12, <2>2 DEF PrioInv
  <2> QED BY <1>4, <2>1, <2>2
<1>13. ASSUME ~wrapped', NEW x \in pq', NEW y \in pq', x.task < y.task
       PROVE  x.sequence < y.sequence
  <2>1. x \in pq
    BY <1>4, <1>5, <1>9, <1>10, <1>13
  <2>2. CASE y = e
    BY <1>2, <1>5, <1>8, <1>13, <2>1, <2>2 DEF PrioInv
  <2>3. CASE y \in pq
    BY <1>8, <1>13, <2>1, <2>3 DEF PrioInv
  <2> QED BY <1>4, <2>2, <2>3
<1> QED BY <1>6, <1>7, <1>9, <1>10, <1>11, <1>12, <1>13 DEF PrioInv

\* Every step keeps the invariant.
LEMMA PrioNext == PrioInv /\ [Next]_vars => PrioInv'
<1> SUFFICES ASSUME PrioInv, [Next]_vars PROVE PrioInv'
  OBVIOUS
<1>1. ASSUME NEW p \in Priority, PushPriority(p)
      PROVE  PrioInv'
  BY <1>1, PushPriorityKeeps
<1>2. CASE PopPriority
  <2>1. /\ pq' \subseteq pq /\ UNCHANGED <<pushes, nextSequence>>
        /\ wrapped' = (wrapped /\ pq' # {})
    BY <1>2 DEF PopPriority
  <2>2. wrapped' \in BOOLEAN /\ (~wrapped' => ~wrapped \/ pq' = {})
    BY <2>1
  <2> QED BY <2>1, <2>2 DEF PrioInv
<1>3. CASE ClearPriority
  <2>1. pq' = {} /\ nextSequence' = 0 /\ wrapped' = FALSE /\ pushes' = pushes
    BY <1>3 DEF ClearPriority
  <2>2. wrapped' \in BOOLEAN
    BY <2>1
  <2> QED BY <2>1, <2>2, BoundsAssumption DEF PrioInv
<1>4. CASE PushFIFO
  BY <1>4 DEF PushFIFO, prioVars, PrioInv
<1>5. CASE UNCHANGED <<pushes, prioVars>>
  BY <1>5 DEF prioVars, PrioInv
<1>6. CASE PopFIFO \/ MaybeCompact \/ ClearFIFO \/ UNCHANGED vars
  BY <1>5, <1>6 DEF PopFIFO, advance, MaybeCompact, ClearFIFO, vars
<1>7. ASSUME NEW max, PopUpToFIFO(max)
      PROVE  PrioInv'
  BY <1>5, <1>7 DEF PopUpToFIFO, advance
<1> QED BY <1>1, <1>2, <1>3, <1>4, <1>6, <1>7 DEF Next

\* A step that takes an item out and leaves another takes the one that is before it.
LEMMA StepPopsInOrder ==
  ASSUME PrioInv, [Next]_vars, NEW x \in pq \ pq', NEW y \in pq \cap pq'
  PROVE  /\ x.priority >= y.priority
         /\ x.priority = y.priority /\ ~wrapped => x.task < y.task
<1>1. PopPriority
  <2>1. ~(pq \subseteq pq') /\ pq' # {}
    OBVIOUS
  <2>2. ~PushFIFO /\ ~PopFIFO /\ ~MaybeCompact /\ ~ClearFIFO /\ ~UNCHANGED vars
    BY <2>1 DEF PushFIFO, PopFIFO, advance, MaybeCompact, ClearFIFO, vars, prioVars
  <2>3. \A max : ~PopUpToFIFO(max)
    BY <2>1 DEF PopUpToFIFO, advance, prioVars
  <2>4. ~ClearPriority /\ \A p : ~PushPriority(p)
    BY <2>1 DEF ClearPriority, PushPriority
  <2> QED BY <2>2, <2>3, <2>4 DEF Next
<1>2. ~Less(y, x)
  BY <1>1 DEF PopPriority
<1>3. /\ x.task \in Nat /\ y.task \in Nat /\ x.sequence \in Nat /\ y.sequence \in Nat
      /\ x.priority \in Nat /\ y.priority \in Nat /\ x.task # y.task
      /\ ~wrapped => (y.task < x.task => y.sequence < x.sequence)
  BY DEF PrioInv
<1> QED BY <1>2, <1>3 DEF Less

\* A pop takes a task of the highest priority and, until the sequence wraps around
\* with items in the queue, the one pushed first among them, also when the
\* sequence was started again (PriorityTaskQueue.PushWithID, Pop).
THEOREM PriorityPopsInOrder == Spec => PopsInOrder
<1>1. Init => PrioInv
  <2> SUFFICES ASSUME Init PROVE PrioInv
    OBVIOUS
  <2>1. pushes = 0 /\ pq = {} /\ nextSequence = 0 /\ wrapped = FALSE
    BY DEF Init
  <2>2. wrapped \in BOOLEAN
    BY <2>1
  <2> QED BY <2>1, <2>2, BoundsAssumption DEF PrioInv
<1>2. PrioInv /\ [Next]_vars =>
        [\A x \in pq \ pq', y \in pq \cap pq' :
           /\ x.priority >= y.priority
           /\ x.priority = y.priority /\ ~wrapped => x.task < y.task]_pq
  BY StepPopsInOrder
<1> QED BY <1>1, <1>2, PrioNext, PTL DEF Spec, PopsInOrder

=============================================================================
