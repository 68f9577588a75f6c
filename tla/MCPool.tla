------------------------------- MODULE MCPool -------------------------------
(* Instances of Pool for TLC: POOL_ALIGN is 2 and POOL_MMAP 4.             *)
EXTENDS Pool, TLC

CONSTANTS t1, t2, t3

MCCount == [c \in Class |-> IF c = 0 THEN 2 ELSE 1]

Asks(n, s, e) == [requests |-> n, sizes |-> s, ends |-> e]

Empty ==
  [used |-> {}, list |-> [t \in Thread |-> [c \in Class |-> <<>>]],
   bump |-> [t \in Thread |-> [start |-> 0, end |-> 0]],
   blocks |-> [t \in Thread |-> <<>>], stack |-> [c \in Class |-> <<>>], global |-> <<>>,
   mapped |-> 0, work |-> [t \in Thread |-> Asks(0, {}, FALSE)]]

(* Two threads at a stack with two lists.                                  *)
AtStack ==
  [Empty EXCEPT !.stack[1] = <<0, 2>>, !.mapped = 4,
                !.work[t1] = Asks(1, {2}, FALSE), !.work[t2] = Asks(2, {2}, TRUE)]

(* Two threads that end while a third asks for blocks.                     *)
AtGlobal ==
  [Empty EXCEPT !.blocks[t1] = <<Block(0, 3)>>, !.blocks[t2] = <<Block(3, 4)>>, !.global = <<Block(7, 3)>>,
                !.mapped = 10, !.work[t1] = Asks(1, {3}, TRUE), !.work[t2] = Asks(0, {}, TRUE),
                !.work[t3] = Asks(1, {3, 4}, FALSE)]

(* Two threads that ask for blocks of the global list, where a third ends. *)
TwoPull ==
  [Empty EXCEPT !.blocks[t2] = <<Block(0, 3)>>, !.global = <<Block(3, 3), Block(6, 4)>>,
                !.mapped = 10, !.work[t1] = Asks(1, {3}, TRUE), !.work[t2] = Asks(0, {}, TRUE),
                !.work[t3] = Asks(1, {3, 4}, FALSE)]

(* Two threads that ask for everything there is, from nothing.             *)
FromNothing ==
  [Empty EXCEPT !.work[t1] = Asks(2, {1, 2, 3}, TRUE), !.work[t2] = Asks(1, {1, 5}, FALSE)]

MCStart == {AtStack, AtGlobal, TwoPull, FromNothing}
=============================================================================
