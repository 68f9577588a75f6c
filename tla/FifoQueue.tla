------------------------------ MODULE FifoQueue ------------------------------
(***************************************************************************)
(* What the schedulers' run queues promise: a first-in first-out queue that*)
(* several threads push to and pop from.  A thread holds what it popped    *)
(* until its call returns.                                                 *)
(***************************************************************************)
EXTENDS Sequences

CONSTANTS Thread, Item, None

VARIABLES
  items,   \* what is on the queue
  held     \* what each thread's pop under way has taken

Init ==
  /\ items = <<>>
  /\ held = [t \in Thread |-> None]

Enqueue(d) ==
  /\ items' = Append(items, d)
  /\ UNCHANGED held

Dequeue(t) ==
  /\ held[t] = None /\ items # <<>>
  /\ held' = [held EXCEPT ![t] = Head(items)]
  /\ items' = Tail(items)

Return(t) ==
  /\ held[t] # None
  /\ held' = [held EXCEPT ![t] = None]
  /\ UNCHANGED items

Next ==
  \/ \E d \in Item : Enqueue(d)
  \/ \E t \in Thread : Dequeue(t) \/ Return(t)

Spec == Init /\ [][Next]_<<items, held>>
=============================================================================
