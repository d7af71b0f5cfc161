----------------------------- MODULE TaskQueues -----------------------------
(***************************************************************************)
(* The two TaskQueue implementations.  FIFOTaskQueue is a slice that is    *)
(* advanced by Pop, grown by append and shrunk by compaction;              *)
(* PriorityTaskQueue a heap ordered by priority and a uint64 sequence      *)
(* number.  Every operation holds the queue's mutex, so it is one step.    *)
(* A behaviour uses one of the two.                                        *)
(*                                                                         *)
(* Tasks are numbered in the order in which they are pushed.               *)
(***************************************************************************)
EXTENDS Naturals, Sequences

CONSTANTS
  Priority,        \* priorities, a set of numbers
  MaxPushes,       \* bound: tasks pushed in a behaviour
  MaxSequence,     \* the largest sequence number (math.MaxUint64)
  DefaultCap,      \* defaultQueueCap (16)
  CompactMin,      \* compactMinCap (64)
  ShrinkFactor     \* compactShrinkFactor (4)

ASSUME PriorityAssumption == Priority \subseteq Nat
ASSUME BoundsAssumption == MaxPushes \in Nat /\ MaxSequence \in Nat \ {0}
ASSUME CapAssumption == DefaultCap \in Nat /\ CompactMin \in Nat /\ ShrinkFactor \in Nat \ {0}

Task == 1..MaxPushes
Zero == 0    \* a cleared TaskItem

VARIABLES
  kind,       \* which queue is used
  pushes,     \* tasks pushed so far
  \* FIFOTaskQueue
  cells,      \* the backing array from the slice's first element to its capacity
  len,        \* the slice's length
  fifo,       \* reference: the tasks pushed and not popped, oldest first
  \* PriorityTaskQueue
  pq,         \* the items of the heap
  nextSequence,
  wrapped     \* the sequence reached its end while the queue held items, and the
              \* queue has not been empty since

fifoVars == <<cells, len, fifo>>
prioVars == <<pq, nextSequence, wrapped>>
vars == <<kind, pushes, fifoVars, prioVars>>

fresh(n) == [k \in 1..n |-> Zero]

Init ==
  /\ kind \in {"fifo", "priority"}
  /\ pushes = 0
  /\ cells = fresh(DefaultCap) /\ len = 0
  /\ fifo = << >>
  /\ pq = {}
  /\ nextSequence = 0
  /\ wrapped = FALSE

-----------------------------------------------------------------------------
(* FIFOTaskQueue.                                                          *)

contents == SubSeq(cells, 1, len)

\* The capacity that append gives a slice whose n cells are full.
grown(n) == IF n = 0 THEN 1 ELSE 2 * n

PushFIFO ==
  /\ kind = "fifo" /\ pushes < MaxPushes
  /\ pushes' = pushes + 1
  /\ len' = len + 1
  /\ fifo' = Append(fifo, pushes')
  /\ \/ len < Len(cells) /\ cells' = [cells EXCEPT ![len + 1] = pushes']
     \/ len = Len(cells) /\ cells' = Append(contents, pushes') \o fresh(grown(len) - (len + 1))
  /\ UNCHANGED <<kind, prioVars>>

\* Fault: one task too few is copied.
compactedShort(c, n) == SubSeq(c, 1, n - 1) \o fresh(Len(c) \div 2 - (n - 1))

\* The array of newCap cells that the n tasks in c are copied into.
compacted(c, n) ==
  LET half == IF Len(c) \div 2 >= DefaultCap THEN Len(c) \div 2 ELSE DefaultCap
      newCap == IF half >= n THEN half ELSE n
  IN SubSeq(c, 1, n) \o fresh(newCap - n)

\* maybeCompactLocked on the array c that holds n tasks.
maybeCompact(c, n) ==
  IF Len(c) < CompactMin THEN c
  ELSE IF n = 0 THEN fresh(DefaultCap)
  ELSE IF n * ShrinkFactor >= Len(c) THEN c
  ELSE compacted(c, n)

\* The slice advances by n over cleared cells, and may be compacted.
advance(n) ==
  /\ len' = len - n
  /\ cells' = maybeCompact(SubSeq(cells, n + 1, Len(cells)), len - n)
  /\ fifo' = SubSeq(fifo, n + 1, Len(fifo))
  /\ UNCHANGED <<kind, pushes, prioVars>>

PopFIFO == kind = "fifo" /\ len > 0 /\ advance(1)

\* PopUpTo hands out the array itself when no task is left, so that the queue goes
\* on with its cells; otherwise it copies and advances.
PopUpToFIFO(max) ==
  /\ kind = "fifo" /\ len > 0
  /\ \/ /\ len <= max
        /\ len' = 0 /\ fifo' = << >>
        /\ UNCHANGED <<kind, pushes, cells, prioVars>>
     \/ len > max /\ advance(max)

MaybeCompact ==
  /\ kind = "fifo"
  /\ cells' = maybeCompact(cells, len)
  /\ cells' # cells
  /\ UNCHANGED <<kind, pushes, len, fifo, prioVars>>

ClearFIFO ==
  /\ kind = "fifo" /\ len > 0
  /\ cells' = fresh(DefaultCap) /\ len' = 0
  /\ fifo' = << >>
  /\ UNCHANGED <<kind, pushes, prioVars>>

-----------------------------------------------------------------------------
(* PriorityTaskQueue.                                                      *)

\* Fault: the sequence is not started again when it can be.
keepsSequence == nextSequence

\* The sequence number of a pushed item: started again at 0 when the queue is
\* empty at the end of the range.
sequenceForPush ==
  IF nextSequence = MaxSequence /\ pq = {} THEN 0 ELSE nextSequence

PushPriority(p) ==
  /\ kind = "priority" /\ pushes < MaxPushes
  /\ pushes' = pushes + 1
  /\ pq' = pq \cup {[task |-> pushes', priority |-> p, sequence |-> sequenceForPush]}
  /\ nextSequence' = (sequenceForPush + 1) % (MaxSequence + 1)
  /\ wrapped' = (wrapped \/ (nextSequence = MaxSequence /\ pq # {}))
  /\ UNCHANGED <<kind, fifoVars>>

Less(x, y) ==
  \/ x.priority > y.priority
  \/ x.priority = y.priority /\ x.sequence < y.sequence

\* heap.Pop: an item that no other is less than.  PopUpTo pops one after another.
PopPriority ==
  /\ kind = "priority"
  /\ \E x \in pq :
       /\ \A y \in pq : ~Less(y, x)
       /\ pq' = pq \ {x}
  /\ wrapped' = (wrapped /\ pq' # {})
  /\ UNCHANGED <<kind, pushes, fifoVars, nextSequence>>

ClearPriority ==
  /\ kind = "priority" /\ pq # {}
  /\ pq' = {} /\ nextSequence' = 0
  /\ wrapped' = FALSE
  /\ UNCHANGED <<kind, pushes, fifoVars>>

Next ==
  \/ PushFIFO \/ PopFIFO \/ MaybeCompact \/ ClearFIFO
  \/ \E max \in 1..MaxPushes : PopUpToFIFO(max)
  \/ \E p \in Priority : PushPriority(p)
  \/ PopPriority \/ ClearPriority

Spec == Init /\ [][Next]_vars

-----------------------------------------------------------------------------
(* Properties.                                                             *)

\* Through growth, slicing, batches, compaction and Clear the slice holds the
\* pushed tasks that were not popped, in the order in which they were pushed.
FIFOContents == contents = fifo

\* A pop takes a task of the highest priority present and, among those, the one
\* pushed first, also when the sequence starts again; only a sequence that
\* wrapped around with items in the queue may change the order within a priority.
PopsInOrder ==
  [][\A x \in pq \ pq', y \in pq \cap pq' :
       /\ x.priority >= y.priority
       /\ x.priority = y.priority /\ ~wrapped => x.task < y.task]_pq

=============================================================================
