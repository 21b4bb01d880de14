----------------------------- MODULE FastQueue -----------------------------
(* The circular buffer behind the browser's synchronisation queue           *)
(* (ui-v2/src/modules/sync/fast-queue.ts).  Every method runs to its end    *)
(* without yielding, so every method is one action.  The operators act on a *)
(* queue object and are reused by the synchronisation client's model.       *)
EXTENDS Naturals, Sequences, SequencesExt

CONSTANTS
    Items,            \* what the queue holds
    Undefined,        \* JavaScript's undefined: an unused slot
    InitialCapacity,  \* argument of the constructor
    MaxBatch,         \* largest batch taken at once
    MaxSize           \* bound of the model: no more items than this

ASSUME FastQueueAssumption ==
    /\ Undefined \notin Items
    /\ InitialCapacity \in Nat \ {0}
    /\ MaxBatch \in Nat
    /\ MaxSize \in Nat

VARIABLES
    ring,   \* the object: buffer, head, tail, size, capacity
    batch    \* the items that dequeueMany returned to its caller

ringVars == <<ring, batch>>

NewQueue(capacity) ==
    [buffer   |-> [i \in 0..capacity - 1 |-> Undefined],
     head     |-> 0,
     tail     |-> 0,
     size     |-> 0,
     capacity |-> capacity]

(* Doubles the capacity and copies the items in order to the start.         *)
Resized(q) ==
    [buffer   |-> [i \in 0..2 * q.capacity - 1 |->
                     IF i < q.size THEN q.buffer[(q.head + i) % q.capacity]
                                   ELSE Undefined],
     head     |-> 0,
     tail     |-> q.size,
     size     |-> q.size,
     capacity |-> 2 * q.capacity]

WithRoom(q) == IF q.size = q.capacity THEN Resized(q) ELSE q

Enqueued(q, item) ==
    LET r == WithRoom(q)
    IN  [r EXCEPT !.buffer[r.tail] = item,
                  !.tail = (r.tail + 1) % r.capacity,
                  !.size = r.size + 1]

Unshifted(q, item) ==
    LET r == WithRoom(q)
        h == (r.head + r.capacity - 1) % r.capacity
    IN  [r EXCEPT !.buffer[h] = item, !.head = h, !.size = r.size + 1]

\* Mutant: the batch is put back without reversing it first.
UnshiftedManyForward(q, xs) == FoldLeft(Unshifted, q, xs)

(* The last item of the batch is put back first, so the batch keeps its     *)
(* order.                                                                   *)
UnshiftedMany(q, xs) == FoldLeft(Unshifted, q, Reverse(xs))

Dequeued(q) ==
    IF q.size = 0 THEN q
    ELSE [q EXCEPT !.buffer[q.head] = Undefined,
                   !.head = (q.head + 1) % q.capacity,
                   !.size = q.size - 1]

(* Removes min(count, size) items from the front, one dequeue at a time:    *)
(* what is left, and the items in the order in which they were removed.     *)
DequeuedMany(q, count) ==
    LET n == IF count < q.size THEN count ELSE q.size
        Step(acc, i) == [left |-> Dequeued(acc.left),
                         out  |-> Append(acc.out, acc.left.buffer[acc.left.head])]
    IN  FoldLeft(Step, [left |-> q, out |-> <<>>], [i \in 1..n |-> i])

Cleared(q) == NewQueue(q.capacity)

(* The items from front to back.  toArray also drops undefined slots;       *)
(* RingShape shows that no slot in use is one.                              *)
ToArray(q) ==
    [i \in 1..q.size |-> q.buffer[(q.head + i - 1) % q.capacity]]

-----------------------------------------------------------------------------
RingInit == ring = NewQueue(InitialCapacity) /\ batch = <<>>

Enqueue(item) ==
    /\ ring.size + Len(batch) < MaxSize
    /\ ring' = Enqueued(ring, item)
    /\ UNCHANGED batch

DequeueMany(count) ==
    /\ batch = <<>>
    /\ LET d == DequeuedMany(ring, count)
       IN  ring' = d.left /\ batch' = d.out

(* The caller could not commit the batch and puts it back.                  *)
UnshiftMany ==
    /\ ring' = UnshiftedMany(ring, batch)
    /\ batch' = <<>>

(* The caller committed the batch.                                          *)
Commit ==
    /\ batch # <<>>
    /\ batch' = <<>>
    /\ UNCHANGED ring

Clear ==
    /\ ring' = Cleared(ring)
    /\ UNCHANGED batch

RingNext ==
    \/ \E x \in Items : Enqueue(x)
    \/ \E n \in 1..MaxBatch : DequeueMany(n)
    \/ UnshiftMany
    \/ Commit
    \/ Clear

RingSpec == RingInit /\ [][RingNext]_ringVars

-----------------------------------------------------------------------------
(* The indices stay inside the buffer and the tail is where head and size   *)
(* put it; exactly the slots from head to tail hold items, so no removed    *)
(* change stays referenced and no queued one is overwritten when the buffer *)
(* wraps around or grows.                                                   *)
RingShape ==
    /\ ring.capacity \in Nat \ {0}
    /\ ring.size \in 0..ring.capacity
    /\ ring.head \in 0..ring.capacity - 1
    /\ ring.tail = (ring.head + ring.size) % ring.capacity
    /\ DOMAIN ring.buffer = 0..ring.capacity - 1
    /\ \A i \in 0..ring.capacity - 1 :
          (ring.buffer[(ring.head + i) % ring.capacity] \in Items)
             <=> (i < ring.size)

(* The buffer behaves as the queue that the synchronisation client relies   *)
(* on: items leave in the order in which they were added, and a batch put   *)
(* back at the front keeps its order, across wrap-around and growth.        *)
Abstract == INSTANCE Deque WITH items <- ToArray(ring), taken <- batch
ImplementsDeque == Abstract!Spec
=============================================================================
