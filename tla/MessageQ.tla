------------------------------ MODULE MessageQ ------------------------------
(***************************************************************************)
(* The mailbox of one actor (actor/messageq.c) and the part of sending and *)
(* running an actor (actor/actor.c, sched/scheduler.c) that decides which  *)
(* scheduler thread runs it.                                               *)
(*                                                                         *)
(* The mailbox is an intrusive multi-producer single-consumer list.  `tail'*)
(* is the block of the last message consumed (at first a stub); the        *)
(* messages still to be handled are the blocks after it.  Bit 0 of `head'  *)
(* says that the consumer found the mailbox empty and let go of the actor: *)
(* the push that clears the bit must schedule the actor again.  There is no*)
(* lock: the right to run the actor is a token that moves between that bit,*)
(* the pushing thread, the run queues, the running thread, and the muted   *)
(* state.                                                                  *)
(***************************************************************************)
EXTENDS Naturals, Sequences

CONSTANTS
  Thread,   \* scheduler threads: each may send to the actor, and run it
  Node,     \* the blocks the pool hands out for messages
  NULL,     \* the null pointer
  Batch     \* application messages per run (PONY_SCHED_BATCH)

ASSUME NullAssumption == NULL \notin Node
ASSUME BatchAssumption == Batch \in Nat \ {0}

VARIABLES
  head,     \* q->head: a block, and the tag bit that marks the queue empty
  tail,     \* q->tail
  next,     \* m->next of every block
  free,     \* the blocks that are in the pool, not in use
  chain,    \* auxiliary: the blocks from tail to head, in the order pushed
  runq,     \* how many times the actor is on the schedulers' run queues
  muted,    \* ACTOR_SYNC_FLAG_MUTED
  refs,     \* somebody other than the actor itself may still send to it
  pc,       \* where a thread is in a send to this actor
  first,    \* messageq_push: the argument first,
  prev,     \*   the head it took the place of,
  was_empty,\*   and the tag bit of that head
  phase,    \* where a thread is in ponyint_actor_run of this actor
  stop,     \* ponyint_actor_run: the local head,
  app       \*   and the local app

queue == <<head, tail, next, free, chain>>
send  == <<pc, first, prev, was_empty>>
run   == <<phase, stop, app>>
vars  == <<queue, runq, muted, refs, send, run>>

Phases == {"out", "start", "loop", "handle", "finish", "mark", "cas"}

(***************************************************************************)
(* ponyint_messageq_init: the stub is the head and the tail, tagged empty. *)
(***************************************************************************)
Init ==
  /\ \E stub \in Node :
       /\ head = [node |-> stub, empty |-> TRUE]
       /\ tail = stub
       /\ free = Node \ {stub}
       /\ chain = <<stub>>
  /\ next = [n \in Node |-> NULL]
  /\ runq = 0
  /\ muted = FALSE
  /\ refs = TRUE
  /\ pc = [t \in Thread |-> "none"]
  /\ first = [t \in Thread |-> NULL]
  /\ prev = [t \in Thread |-> NULL]
  /\ was_empty = [t \in Thread |-> FALSE]
  /\ phase = [t \in Thread |-> "out"]
  /\ stop = [t \in Thread |-> NULL]
  /\ app = [t \in Thread |-> 0]

-----------------------------------------------------------------------------
(***************************************************************************)
(* Sending.  A behaviour of another actor, or of this one, sends a message *)
(* or a chain of two; the blocks come from the pool and are private to the *)
(* sender until the exchange.                                              *)
(***************************************************************************)
MaySend(t) ==
  /\ pc[t] = "none"
  /\ phase[t] = "handle" \/ (phase[t] = "out" /\ refs)

(* Mutant: a chain whose blocks are not linked to each other.              *)
PushUnchained(t, f, l) ==
  /\ next' = [next EXCEPT ![f] = NULL, ![l] = NULL]
  /\ head' = [node |-> l, empty |-> FALSE]
  /\ chain' = chain \o (IF f = l THEN <<l>> ELSE <<f, l>>)
  /\ free' = free \ {f, l}
  /\ first' = [first EXCEPT ![t] = f]
  /\ prev' = [prev EXCEPT ![t] = head.node]
  /\ was_empty' = [was_empty EXCEPT ![t] = head.empty]
  /\ pc' = [pc EXCEPT ![t] = "link"]
  /\ UNCHANGED <<tail, runq, muted, refs, run>>

Push(t, f, l) ==
  /\ next' = [next EXCEPT ![f] = IF f = l THEN NULL ELSE l, ![l] = NULL]
  /\ head' = [node |-> l, empty |-> FALSE]
  /\ chain' = chain \o (IF f = l THEN <<l>> ELSE <<f, l>>)
  /\ free' = free \ {f, l}
  /\ first' = [first EXCEPT ![t] = f]
  /\ prev' = [prev EXCEPT ![t] = head.node]
  /\ was_empty' = [was_empty EXCEPT ![t] = head.empty]
  /\ pc' = [pc EXCEPT ![t] = "link"]
  /\ UNCHANGED <<tail, runq, muted, refs, run>>

Exchange(t) ==
  /\ MaySend(t)
  /\ \E f, l \in free : Push(t, f, l)

(* Mutant: the tag bit is cleared, and nobody is told that it was set.     *)
LinkForgetsEmpty(t) ==
  /\ pc[t] = "link"
  /\ next' = [next EXCEPT ![prev[t]] = first[t]]
  /\ pc' = [pc EXCEPT ![t] = "none"]
  /\ first' = [first EXCEPT ![t] = NULL]
  /\ prev' = [prev EXCEPT ![t] = NULL]
  /\ was_empty' = [was_empty EXCEPT ![t] = FALSE]
  /\ UNCHANGED <<head, tail, free, chain, runq, muted, refs, run>>

(* The second half of messageq_push: prev->next = first, return was_empty. *)
(* A local is reset when it goes out of scope.                             *)
Link(t) ==
  /\ pc[t] = "link"
  /\ next' = [next EXCEPT ![prev[t]] = first[t]]
  /\ pc' = [pc EXCEPT ![t] = IF was_empty[t] THEN "add" ELSE "none"]
  /\ first' = [first EXCEPT ![t] = NULL]
  /\ prev' = [prev EXCEPT ![t] = NULL]
  /\ was_empty' = [was_empty EXCEPT ![t] = FALSE]
  /\ UNCHANGED <<head, tail, free, chain, runq, muted, refs, run>>

(* The end of pony_sendv, for the sender that made the queue non-empty.    *)
SchedAdd(t) ==
  /\ pc[t] = "add"
  /\ runq' = IF muted THEN runq ELSE runq + 1
  /\ pc' = [pc EXCEPT ![t] = "none"]
  /\ UNCHANGED <<queue, muted, refs, first, prev, was_empty, run>>

-----------------------------------------------------------------------------
(***************************************************************************)
(* Running.                                                                *)
(***************************************************************************)
(* A scheduler pops the actor from a run queue, its own or a victim's.     *)
Take(t) ==
  /\ phase[t] = "out" /\ pc[t] = "none" /\ runq > 0
  /\ runq' = runq - 1
  /\ phase' = [phase EXCEPT ![t] = "start"]
  /\ UNCHANGED <<queue, muted, refs, send, stop, app>>

(* The top of ponyint_actor_run remembers the head: this run stops there.  *)
Start(t) ==
  /\ phase[t] = "start"
  /\ stop' = [stop EXCEPT ![t] = head.node]
  /\ app' = [app EXCEPT ![t] = 0]
  /\ phase' = [phase EXCEPT ![t] = "loop"]
  /\ UNCHANGED <<queue, runq, muted, refs, send>>

(* Mutant: a pop that does not wait for the link of a block.               *)
PopUnlinked(t) ==
  /\ phase[t] = "loop"
  /\ IF head.node = tail
       THEN /\ phase' = [phase EXCEPT ![t] = "finish"]
            /\ UNCHANGED queue
       ELSE /\ tail' = chain[2]
            /\ free' = free \cup {tail}
            /\ next' = [next EXCEPT ![tail] = NULL]
            /\ chain' = Tail(chain)
            /\ phase' = [phase EXCEPT ![t] = "handle"]
            /\ UNCHANGED head
  /\ UNCHANGED <<runq, muted, refs, send, stop, app>>

(* ponyint_actor_messageq_pop.  The link of a block in the pool is NULL    *)
(* here: nobody reads it before the next push sets it.                     *)
Pop(t) ==
  /\ phase[t] = "loop"
  /\ IF next[tail] = NULL
       THEN /\ phase' = [phase EXCEPT ![t] = "finish"]
            /\ UNCHANGED queue
       ELSE /\ tail' = next[tail]
            /\ free' = free \cup {tail}
            /\ next' = [next EXCEPT ![tail] = NULL]
            /\ chain' = Tail(chain)
            /\ phase' = [phase EXCEPT ![t] = "handle"]
            /\ UNCHANGED head
  /\ UNCHANGED <<runq, muted, refs, send, stop, app>>

Leave(t) ==
  /\ phase' = [phase EXCEPT ![t] = "out"]
  /\ stop' = [stop EXCEPT ![t] = NULL]
  /\ app' = [app EXCEPT ![t] = 0]

(* run: the run returned true.  If the scheduler has another actor to run  *)
(* it puts this one back on its queue, otherwise it runs it again.         *)
Reschedule(t) ==
  \/ /\ runq' = runq + 1
     /\ Leave(t)
  \/ /\ phase' = [phase EXCEPT ![t] = "start"]
     /\ stop' = [stop EXCEPT ![t] = NULL]
     /\ app' = [app EXCEPT ![t] = 0]
     /\ UNCHANGED runq

(* After a message: the run stops at the remembered head.                  *)
NextMessage(t) ==
  phase' = [phase EXCEPT ![t] = IF tail = stop[t] THEN "finish" ELSE "loop"]

(* A system message has been handled.  It may have been the                *)
(* ACTORMSG_RELEASE that brings the reference count to 0: then no other    *)
(* actor can send any more, and none is sending (gc/gc.c).                 *)
HandledSystem(t) ==
  /\ phase[t] = "handle" /\ pc[t] = "none"
  /\ NextMessage(t)
  /\ refs' \in IF \A u \in Thread : pc[u] = "none" THEN {refs, FALSE} ELSE {refs}
  /\ UNCHANGED <<queue, runq, muted, send, stop, app>>

(* An application message has been handled.  If it muted the actor, the run*)
(* ends with the mailbox not marked empty and the actor on no run queue.   *)
HandledApp(t) ==
  /\ phase[t] = "handle" /\ pc[t] = "none"
  /\ \/ /\ muted' = TRUE
        /\ Leave(t)
        /\ UNCHANGED runq
     \/ /\ app[t] + 1 = Batch
        /\ Reschedule(t)
        /\ UNCHANGED muted
     \/ /\ app[t] + 1 < Batch
        /\ app' = [app EXCEPT ![t] = @ + 1]
        /\ NextMessage(t)
        /\ UNCHANGED <<runq, muted, stop>>
  /\ UNCHANGED <<queue, refs, send>>

(* ponyint_sched_unmute_senders, for this actor.                           *)
Unmute ==
  /\ muted
  /\ muted' = FALSE
  /\ runq' = runq + 1
  /\ UNCHANGED <<queue, refs, send, run>>

(* After the loop: a run that handled application messages is repeated; an *)
(* actor nobody refers to is destroyed with its queue, the stub included;  *)
(* otherwise try to mark the queue empty.  This is without cycle detector: *)
(* with it, the actor may be handed over to it instead (CycleDetector).    *)
IsEmpty == head.empty \/ head.node = tail

Finish(t) ==
  /\ phase[t] = "finish"
  /\ \/ /\ app[t] > 0
        /\ Reschedule(t)
     \/ /\ app[t] = 0 /\ (refs \/ ~ IsEmpty)
        /\ phase' = [phase EXCEPT ![t] = "mark"]
        /\ UNCHANGED <<runq, stop, app>>
  /\ UNCHANGED <<queue, muted, refs, send>>

Destroy(t) ==
  /\ phase[t] = "finish" /\ app[t] = 0 /\ ~ refs /\ IsEmpty
  /\ free' = free \cup {tail}
  /\ head' = [node |-> NULL, empty |-> TRUE]
  /\ tail' = NULL
  /\ chain' = <<>>
  /\ Leave(t)
  /\ UNCHANGED <<next, runq, muted, refs, send>>

(* Mutant: a queue that is not empty is reported empty.                    *)
MarkEmptyLoadAlways(t) ==
  /\ phase[t] = "mark"
  /\ IF head.empty \/ head.node # tail
       THEN Leave(t) /\ UNCHANGED runq
       ELSE /\ phase' = [phase EXCEPT ![t] = "cas"]
            /\ UNCHANGED <<runq, stop, app>>
  /\ UNCHANGED <<queue, muted, refs, send>>

(* ponyint_messageq_markempty: the load and its two early returns, ...     *)
MarkEmptyLoad(t) ==
  /\ phase[t] = "mark"
  /\ IF head.empty
       THEN Leave(t) /\ UNCHANGED runq
       ELSE IF head.node # tail
              THEN Reschedule(t)
              ELSE /\ phase' = [phase EXCEPT ![t] = "cas"]
                   /\ UNCHANGED <<runq, stop, app>>
  /\ UNCHANGED <<queue, muted, refs, send>>

(* Mutant: a store in the place of the compare-and-swap.                   *)
MarkEmptyStore(t) ==
  /\ phase[t] = "cas"
  /\ head' = [head EXCEPT !.empty = TRUE]
  /\ Leave(t)
  /\ UNCHANGED <<runq, tail, next, free, chain, muted, refs, send>>

(* ... then the compare-and-swap of the head from tail to the tagged tail. *)
MarkEmptyCas(t) ==
  /\ phase[t] = "cas"
  /\ IF head = [node |-> tail, empty |-> FALSE]
       THEN /\ head' = [head EXCEPT !.empty = TRUE]
            /\ Leave(t)
            /\ UNCHANGED runq
       ELSE /\ Reschedule(t)
            /\ UNCHANGED head
  /\ UNCHANGED <<tail, next, free, chain, muted, refs, send>>

Next ==
  \/ \E t \in Thread :
       \/ Exchange(t) \/ Link(t) \/ SchedAdd(t)
       \/ Take(t) \/ Start(t) \/ Pop(t) \/ HandledSystem(t) \/ HandledApp(t)
       \/ Finish(t) \/ Destroy(t) \/ MarkEmptyLoad(t) \/ MarkEmptyCas(t)
  \/ Unmute

(***************************************************************************)
(* A thread in the middle of a send or of a run carries on; a queued actor *)
(* is popped by some scheduler; an unmute comes (Backpressure).  Nothing   *)
(* makes anybody send.                                                     *)
(***************************************************************************)
Fairness ==
  /\ \A t \in Thread :
       /\ WF_vars(Link(t)) /\ WF_vars(SchedAdd(t)) /\ WF_vars(Start(t))
       /\ WF_vars(Pop(t)) /\ WF_vars(HandledSystem(t) \/ HandledApp(t))
       /\ WF_vars(Finish(t)) /\ WF_vars(Destroy(t))
       /\ WF_vars(MarkEmptyLoad(t)) /\ WF_vars(MarkEmptyCas(t))
  /\ WF_vars(\E t \in Thread : Take(t))
  /\ WF_vars(Unmute)

Spec == Init /\ [][Next]_vars
FairSpec == Spec /\ Fairness

-----------------------------------------------------------------------------
(***************************************************************************)
(* Properties.                                                             *)
(***************************************************************************)
NodeOrNull == Node \cup {NULL}

(* The type of the state.                                                  *)
TypeOK ==
  /\ head \in [node : NodeOrNull, empty : BOOLEAN]
  /\ tail \in NodeOrNull
  /\ next \in [Node -> NodeOrNull]
  /\ free \in SUBSET Node
  /\ chain \in Seq(Node)
  /\ runq \in Nat
  /\ muted \in BOOLEAN
  /\ refs \in BOOLEAN
  /\ pc \in [Thread -> {"none", "link", "add"}]
  /\ first \in [Thread -> NodeOrNull]
  /\ prev \in [Thread -> NodeOrNull]
  /\ was_empty \in [Thread -> BOOLEAN]
  /\ phase \in [Thread -> Phases]
  /\ stop \in [Thread -> NodeOrNull]
  /\ app \in [Thread -> 0..Batch]

(* Who holds the right to run the actor.                                   *)
WillAdd(t) == pc[t] = "add" \/ (pc[t] = "link" /\ was_empty[t])

Owners ==
  {<<"running", t>> : t \in {u \in Thread : phase[u] # "out"}}
    \cup {<<"adding", t>> : t \in {u \in Thread : WillAdd(u)}}
    \cup {<<"queued", i>> : i \in 1..runq}
    \cup (IF muted THEN {<<"muted", 0>>} ELSE {})

(* An actor is never in two places: while the mailbox is marked empty      *)
(* nobody owns the actor, otherwise exactly one of a running thread, a     *)
(* sender about to schedule it, a run queue, and the muted state does.  No *)
(* wake-up is lost and none is delivered twice (messageq.c's return value  *)
(* of push and markempty, pony_sendv's test of it).                        *)
OneOwner ==
  IF head.empty THEN Owners = {} ELSE \E o \in Owners : Owners = {o}

(* Two scheduler threads never run the actor at the same time: what its    *)
(* behaviours may do to its fields and its heap without locks rests on it. *)
SingleRunner ==
  \A t, u \in Thread : phase[t] # "out" /\ phase[u] # "out" => t = u

(* A sender writes prev->next, and a consumer reads tail->next, of a block *)
(* that is still allocated: ponyint_actor_messageq_pop frees the old tail  *)
(* only after the one pending write to it.                                 *)
NoUseAfterFree ==
  /\ \A t \in Thread : pc[t] = "link" => prev[t] \in Node \ free
  /\ \A t \in Thread : phase[t] = "loop" => tail \in Node \ free

(* The linked list is the order of the exchanges, but for the links that   *)
(* some sender still has to store: each block before the head points to    *)
(* its successor, or is the prev of the sender of that successor.          *)
LinksFollowOrder ==
  /\ \A i \in 1..(Len(chain) - 1) :
       \/ next[chain[i]] = chain[i + 1]
       \/ /\ next[chain[i]] = NULL
          /\ \E t \in Thread : /\ pc[t] = "link"
                             /\ prev[t] = chain[i]
                             /\ first[t] = chain[i + 1]
  /\ chain # <<>> => /\ chain[1] = tail
                     /\ chain[Len(chain)] = head.node
                     /\ next[head.node] = NULL

(* The mailbox implements its abstract specification.                      *)
Pending == IF chain = <<>> THEN <<>> ELSE Tail(chain)

Abstract == INSTANCE Mailbox
  WITH Message <- Node, mbox <- Pending, scheduled <- ~ head.empty

Refinement == Abstract!Spec

(* Every message that was sent is handled, whatever the threads do at the  *)
(* same time: a push that finds the queue not empty relies on the consumer *)
(* to see it before it marks the queue empty.                              *)
EveryMessageHandled ==
  \A n \in Node :
    (\E i \in 1..Len(Pending) : Pending[i] = n)
      ~> ~ (\E i \in 1..Len(Pending) : Pending[i] = n)
=============================================================================
