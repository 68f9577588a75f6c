-------------------------------- MODULE MPMCQ --------------------------------
(***************************************************************************)
(* The run queue of a scheduler (sched/mpmcq.c): an unbounded linked queue *)
(* with any number of producers and consumers.  A push exchanges the head  *)
(* and then links the old head to the new node.  A pop moves the tail with *)
(* a double-width compare-and-swap on the pair of a pointer and a counter, *)
(* and then frees the old tail.  It reads the tail's successor from a node *)
(* that another pop may have freed, and the pool may have handed out again:*)
(* only the counter tells.                                                 *)
(***************************************************************************)
EXTENDS Naturals, Sequences

CONSTANTS
  Thread,    \* the threads that push and pop
  Node,      \* the blocks the pool hands out for nodes
  Item,      \* what is queued: actors
  NULL,
  MaxPush    \* bound: pushes in a behaviour

ASSUME NullAssumption == NULL \notin Node /\ NULL \notin Item

VARIABLES
  head,      \* q->head
  tail,      \* q->tail: [object, counter]
  next,      \* node->next
  data,      \* node->data
  free,      \* the blocks in the pool
  chain,     \* auxiliary: the nodes from tail to head in the order pushed
  pushes,    \* how many pushes there were
  pc,        \* where a thread is in a push or a pop
  cmp,       \* pop: the local cmp,
  nxt,       \*   the local next,
  got,       \*   and the local data
  prev,      \* push: the local prev,
  node       \*   and the local node

queue == <<head, tail, next, data, free, chain>>
pop   == <<cmp, nxt, got>>
push  == <<prev, node>>
vars  == <<queue, pushes, pc, pop, push>>

NodeOrNull == Node \cup {NULL}
NoCmp == [object |-> NULL, counter |-> 0]

(* Mutant: the data of the stub is not set.                                *)
InitNoData ==
  /\ \E stub \in Node :
       /\ head = stub
       /\ tail = [object |-> stub, counter |-> 0]
       /\ free = Node \ {stub}
       /\ chain = <<stub>>
       /\ data = [n \in Node |-> IF n = stub THEN n ELSE NULL]
  /\ next = [n \in Node |-> NULL]
  /\ pushes = 0
  /\ pc = [t \in Thread |-> "idle"]
  /\ cmp = [t \in Thread |-> NoCmp]
  /\ nxt = [t \in Thread |-> NULL]
  /\ got = [t \in Thread |-> NULL]
  /\ prev = [t \in Thread |-> NULL]
  /\ node = [t \in Thread |-> NULL]

(* ponyint_mpmcq_init: a stub without data.                                *)
Init ==
  /\ \E stub \in Node :
       /\ head = stub
       /\ tail = [object |-> stub, counter |-> 0]
       /\ free = Node \ {stub}
       /\ chain = <<stub>>
  /\ next = [n \in Node |-> NULL]
  /\ data = [n \in Node |-> NULL]
  /\ pushes = 0
  /\ pc = [t \in Thread |-> "idle"]
  /\ cmp = [t \in Thread |-> NoCmp]
  /\ nxt = [t \in Thread |-> NULL]
  /\ got = [t \in Thread |-> NULL]
  /\ prev = [t \in Thread |-> NULL]
  /\ node = [t \in Thread |-> NULL]

-----------------------------------------------------------------------------
(***************************************************************************)
(* ponyint_mpmcq_push, and push_single: allocate, exchange, link.  An actor*)
(* is on at most one run queue, once (OneOwner of MessageQ).               *)
(***************************************************************************)
OnQueue(d) ==
  \/ \E i \in 2..Len(chain) : data[chain[i]] = d
  \/ \E t \in Thread : got[t] = d \/ (pc[t] = "data" /\ data[nxt[t]] = d)

Push(t) ==
  /\ pc[t] = "idle" /\ head # NULL /\ pushes < MaxPush
  /\ \E n \in free, d \in Item :
       /\ ~ OnQueue(d)
       /\ next' = [next EXCEPT ![n] = NULL]
       /\ data' = [data EXCEPT ![n] = d]
       /\ free' = free \ {n}
       /\ head' = n
       /\ chain' = Append(chain, n)
       /\ node' = [node EXCEPT ![t] = n]
  /\ prev' = [prev EXCEPT ![t] = head]
  /\ pushes' = pushes + 1
  /\ pc' = [pc EXCEPT ![t] = "link"]
  /\ UNCHANGED <<tail, pop>>

(* Mutant: the old head is not linked to the new node.                     *)
LinkForgotten(t) ==
  /\ pc[t] = "link"
  /\ prev' = [prev EXCEPT ![t] = NULL]
  /\ node' = [node EXCEPT ![t] = NULL]
  /\ pc' = [pc EXCEPT ![t] = "idle"]
  /\ UNCHANGED <<head, tail, next, data, free, chain, pushes, pop>>

Link(t) ==
  /\ pc[t] = "link"
  /\ next' = [next EXCEPT ![prev[t]] = node[t]]
  /\ prev' = [prev EXCEPT ![t] = NULL]
  /\ node' = [node EXCEPT ![t] = NULL]
  /\ pc' = [pc EXCEPT ![t] = "idle"]
  /\ UNCHANGED <<head, tail, data, free, chain, pushes, pop>>

-----------------------------------------------------------------------------
(***************************************************************************)
(* ponyint_mpmcq_pop.  The two words of the tail are read one by one.      *)
(***************************************************************************)
ReadObject(t) ==
  /\ pc[t] = "idle" /\ head # NULL
  /\ cmp' = [cmp EXCEPT ![t] = [object |-> tail.object, counter |-> 0]]
  /\ pc' = [pc EXCEPT ![t] = "counter"]
  /\ UNCHANGED <<queue, pushes, nxt, got, push>>

ReadCounter(t) ==
  /\ pc[t] = "counter"
  /\ cmp' = [cmp EXCEPT ![t].counter = tail.counter]
  /\ pc' = [pc EXCEPT ![t] = "next"]
  /\ UNCHANGED <<queue, pushes, nxt, got, push>>

(* The load of tail->next.  A block in the pool holds what the pool put    *)
(* there: the load may return anything.                                    *)
ReadNext(t) ==
  /\ pc[t] = "next"
  /\ \E n \in IF cmp[t].object \in free THEN NodeOrNull ELSE {next[cmp[t].object]} :
       IF n = NULL
         THEN /\ cmp' = [cmp EXCEPT ![t] = NoCmp]
              /\ pc' = [pc EXCEPT ![t] = "idle"]
              /\ UNCHANGED nxt
         ELSE /\ nxt' = [nxt EXCEPT ![t] = n]
              /\ pc' = [pc EXCEPT ![t] = "cas"]
              /\ UNCHANGED cmp
  /\ UNCHANGED <<queue, pushes, got, push>>

(* Mutants: a tail that is not counted, and one compared by pointer alone. *)
CasUncounted(t) ==
  /\ pc[t] = "cas"
  /\ IF tail = cmp[t]
       THEN /\ tail' = [object |-> nxt[t], counter |-> cmp[t].counter]
            /\ chain' = Tail(chain)
            /\ pc' = [pc EXCEPT ![t] = "data"]
            /\ UNCHANGED <<cmp, nxt>>
       ELSE /\ cmp' = [cmp EXCEPT ![t] = tail]
            /\ nxt' = [nxt EXCEPT ![t] = NULL]
            /\ pc' = [pc EXCEPT ![t] = "next"]
            /\ UNCHANGED <<tail, chain>>
  /\ UNCHANGED <<head, next, data, free, pushes, got, push>>

CasPointer(t) ==
  /\ pc[t] = "cas"
  /\ IF tail.object = cmp[t].object
       THEN /\ tail' = [object |-> nxt[t], counter |-> cmp[t].counter + 1]
            /\ chain' = Tail(chain)
            /\ pc' = [pc EXCEPT ![t] = "data"]
            /\ UNCHANGED <<cmp, nxt>>
       ELSE /\ cmp' = [cmp EXCEPT ![t] = tail]
            /\ nxt' = [nxt EXCEPT ![t] = NULL]
            /\ pc' = [pc EXCEPT ![t] = "next"]
            /\ UNCHANGED <<tail, chain>>
  /\ UNCHANGED <<head, next, data, free, pushes, got, push>>

(* The compare-and-swap; when it fails it loads the tail into cmp.         *)
Cas(t) ==
  /\ pc[t] = "cas"
  /\ IF tail = cmp[t]
       THEN /\ tail' = [object |-> nxt[t], counter |-> cmp[t].counter + 1]
            /\ chain' = Tail(chain)
            /\ pc' = [pc EXCEPT ![t] = "data"]
            /\ UNCHANGED <<cmp, nxt>>
       ELSE /\ cmp' = [cmp EXCEPT ![t] = tail]
            /\ nxt' = [nxt EXCEPT ![t] = NULL]
            /\ pc' = [pc EXCEPT ![t] = "next"]
            /\ UNCHANGED <<tail, chain>>
  /\ UNCHANGED <<head, next, data, free, pushes, got, push>>

(* Take the data of the new tail, and leave NULL there for its consumer.   *)
ReadData(t) ==
  /\ pc[t] = "data"
  /\ got' = [got EXCEPT ![t] = data[nxt[t]]]
  /\ data' = [data EXCEPT ![nxt[t]] = NULL]
  /\ nxt' = [nxt EXCEPT ![t] = NULL]
  /\ pc' = [pc EXCEPT ![t] = "wait"]
  /\ UNCHANGED <<head, tail, next, free, chain, pushes, cmp, push>>

(* Mutant: no wait before the old tail is freed.                           *)
FreeTailAtOnce(t) ==
  /\ pc[t] = "wait"
  /\ free' = free \cup {cmp[t].object}
  /\ next' = [next EXCEPT ![cmp[t].object] = NULL]
  /\ cmp' = [cmp EXCEPT ![t] = NoCmp]
  /\ got' = [got EXCEPT ![t] = NULL]
  /\ pc' = [pc EXCEPT ![t] = "idle"]
  /\ UNCHANGED <<head, tail, data, chain, pushes, nxt, push>>

(* Spin until the pop that made the old tail the tail has read its data;   *)
(* then free the old tail and return the data.                             *)
FreeTail(t) ==
  /\ pc[t] = "wait"
  /\ data[cmp[t].object] = NULL
  /\ free' = free \cup {cmp[t].object}
  /\ next' = [next EXCEPT ![cmp[t].object] = NULL]
  /\ cmp' = [cmp EXCEPT ![t] = NoCmp]
  /\ got' = [got EXCEPT ![t] = NULL]
  /\ pc' = [pc EXCEPT ![t] = "idle"]
  /\ UNCHANGED <<head, tail, data, chain, pushes, nxt, push>>

(* ponyint_mpmcq_destroy, when the scheduler threads are done with it.     *)
Destroy ==
  /\ \A t \in Thread : pc[t] = "idle"
  /\ head # NULL /\ Len(chain) = 1
  /\ head' = NULL
  /\ tail' = [tail EXCEPT !.object = NULL]
  /\ free' = free \cup {tail.object}
  /\ chain' = <<>>
  /\ UNCHANGED <<next, data, pushes, pc, pop, push>>

Next ==
  \/ \E t \in Thread :
       \/ Push(t) \/ Link(t) \/ ReadObject(t) \/ ReadCounter(t) \/ ReadNext(t)
       \/ Cas(t) \/ ReadData(t) \/ FreeTail(t)
  \/ Destroy

(***************************************************************************)
(* A thread in the middle of an operation carries on, and the schedulers   *)
(* pop again and again.  Nothing makes anybody push.                       *)
(***************************************************************************)
Fairness ==
  \A t \in Thread :
    /\ WF_vars(Link(t)) /\ WF_vars(ReadObject(t)) /\ WF_vars(ReadCounter(t))
    /\ WF_vars(ReadNext(t)) /\ WF_vars(Cas(t)) /\ WF_vars(ReadData(t))
    /\ WF_vars(FreeTail(t))

Spec == Init /\ [][Next]_vars
FairSpec == Spec /\ Fairness

-----------------------------------------------------------------------------
(* The type of the state.                                                  *)
TypeOK ==
  /\ head \in NodeOrNull
  /\ tail \in [object : NodeOrNull, counter : Nat]
  /\ next \in [Node -> NodeOrNull]
  /\ data \in [Node -> Item \cup {NULL}]
  /\ free \in SUBSET Node
  /\ chain \in Seq(Node)
  /\ pushes \in Nat
  /\ pc \in [Thread -> {"idle", "link", "counter", "next", "cas", "data", "wait"}]
  /\ cmp \in [Thread -> [object : NodeOrNull, counter : Nat]]
  /\ nxt \in [Thread -> NodeOrNull]
  /\ got \in [Thread -> Item \cup {NULL}]
  /\ prev \in [Thread -> NodeOrNull]
  /\ node \in [Thread -> NodeOrNull]

(* A stale read never gets through the compare-and-swap: when it is about  *)
(* to succeed, the pointer read from what may have been a freed and reused *)
(* node is the true successor of the tail ("There's a known issue with     *)
(* 'use after free' in the do loop", mpmcq.c).                             *)
CasInstallsSuccessor ==
  \A t \in Thread :
    pc[t] = "cas" /\ tail = cmp[t] => Len(chain) > 1 /\ nxt[t] = chain[2]

(* Every store, every load whose result is used, and every free is of a    *)
(* node that is allocated: in particular no pop frees the old tail before  *)
(* the pop that installed it has cleared its data, and none frees it twice.*)
AccessesAllocated ==
  \A t \in Thread :
    /\ pc[t] = "link" => prev[t] \in Node \ free
    /\ pc[t] = "data" => nxt[t] \in Node \ free
    /\ pc[t] = "wait" => cmp[t].object \in Node \ free

(* The queue implements a first-in first-out queue: every item pushed is   *)
(* popped once, in the order of the exchanges, whoever pops.               *)
Held(t) ==
  CASE pc[t] = "data" -> data[nxt[t]]
    [] pc[t] = "wait" -> got[t]
    [] OTHER -> NULL

HeldBy == [t \in Thread |-> Held(t)]

Items ==
  [i \in 1..(IF chain = <<>> THEN 0 ELSE Len(chain) - 1) |-> data[chain[i + 1]]]

Abstract == INSTANCE FifoQueue WITH None <- NULL, items <- Items, held <- HeldBy

Refinement == Abstract!Spec

(* Every item pushed is popped, whatever the other threads do: a failed    *)
(* compare-and-swap, a spurious empty result of a stale read, and the wait *)
(* for the old tail's data never go on for ever.                           *)
EveryItemPopped ==
  \A d \in Item :
    (\E i \in 2..Len(chain) : data[chain[i]] = d)
      ~> ~ (\E i \in 2..Len(chain) : data[chain[i]] = d)
=============================================================================
