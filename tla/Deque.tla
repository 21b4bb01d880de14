------------------------------- MODULE Deque -------------------------------
(* What the synchronisation client expects of its queue of changes: changes *)
(* are added at the back, a batch is taken from the front, and a batch that *)
(* could not be committed is put back at the front in its own order.        *)
EXTENDS Naturals, Sequences

CONSTANTS Items, MaxBatch

VARIABLES
    items,   \* the queued changes, front first
    taken    \* the batch that was taken and is not settled yet

Init == items = <<>> /\ taken = <<>>

PushBack == \E x \in Items : items' = Append(items, x) /\ UNCHANGED taken

Take ==
    /\ taken = <<>>
    /\ \E n \in 1..MaxBatch :
         LET k == IF n < Len(items) THEN n ELSE Len(items)
         IN  /\ taken' = SubSeq(items, 1, k)
             /\ items' = SubSeq(items, k + 1, Len(items))

PutBack == items' = taken \o items /\ taken' = <<>>

Settle == taken' = <<>> /\ UNCHANGED items

Empty == items' = <<>> /\ UNCHANGED taken

Next == PushBack \/ Take \/ PutBack \/ Settle \/ Empty

Spec == Init /\ [][Next]_<<items, taken>>
=============================================================================
