----------------------------- MODULE MPMCQProofs -----------------------------
(***************************************************************************)
(* Proofs about MPMCQ, for any number of threads, nodes and items.         *)
(***************************************************************************)
EXTENDS MPMCQ, TLAPS

(***************************************************************************)
(* Two facts about sequences, for the lists of nodes and the messages.     *)
(***************************************************************************)
(* Only the empty sequence has length 0: a list of nodes with no node.     *)
LEMMA EmptySeq ==
  ASSUME NEW S
  PROVE  /\ <<>> \in Seq(S)
         /\ Len(<<>>) = 0
         /\ \A s \in Seq(S) : s # <<>> => Len(s) \in Nat \ {0}
OBVIOUS

(* Sequences of one length with the same elements are the same: the items  *)
(* of the queue before and after a step.                                   *)
LEMMA SeqEqual ==
  ASSUME NEW S, NEW s \in Seq(S), NEW t \in Seq(S),
         Len(s) = Len(t), \A i \in 1..Len(s) : s[i] = t[i]
  PROVE  s = t
OBVIOUS

(***************************************************************************)
(* The inductive invariant.  Shape says what the list looks like while     *)
(* pushes are under way, Counted what the counter protects, and Detached   *)
(* who still uses a node that is no longer in the list.                    *)
(***************************************************************************)
Shape ==
  /\ chain # <<>> <=> head # NULL
  /\ chain # <<>> => /\ chain[1] = tail.object
                     /\ chain[Len(chain)] = head
                     /\ next[head] = NULL
  /\ \A i \in 1..Len(chain) : chain[i] \in Node \ free
  /\ \A i, j \in 1..Len(chain) : chain[i] = chain[j] => i = j
  /\ \A i \in 1..(Len(chain) - 1) : next[chain[i]] \in {chain[i + 1], NULL}
  /\ \A t \in Thread : pc[t] = "link" =>
       \E i \in 1..(Len(chain) - 1) : /\ prev[t] = chain[i]
                                      /\ node[t] = chain[i + 1]
                                      /\ next[chain[i]] = NULL
  /\ \A t, u \in Thread :
       pc[t] = "link" /\ pc[u] = "link" /\ prev[t] = prev[u] => t = u

Reading(t) == pc[t] \in {"counter", "next", "cas"}

Counted ==
  \A t \in Thread :
    /\ pc[t] # "idle" => chain # <<>>
    /\ Reading(t) => cmp[t].object \in Node
    /\ pc[t] \in {"next", "cas"} => cmp[t].counter <= tail.counter
    /\ pc[t] = "cas" /\ tail = cmp[t] =>
         Len(chain) > 1 /\ nxt[t] = chain[2] /\ next[chain[1]] = chain[2]

Popped(t) == pc[t] \in {"data", "wait"}

PoppedApart ==
  \A t \in Thread : Popped(t) =>
    /\ cmp[t].object \in Node \ free
    /\ \A i \in 1..Len(chain) : chain[i] # cmp[t].object

PoppedOnce ==
  \A t, u \in Thread :
    Popped(t) /\ Popped(u) /\ cmp[t].object = cmp[u].object => t = u

Installed ==
  \A t \in Thread : pc[t] = "data" =>
    /\ nxt[t] \in Node /\ data[nxt[t]] \in Item
    /\ \/ nxt[t] = tail.object
       \/ \E u \in Thread : Popped(u) /\ cmp[u].object = nxt[t]

InstalledOnce ==
  \A t, u \in Thread :
    pc[t] = "data" /\ pc[u] = "data" /\ nxt[t] = nxt[u] => t = u

Detached ==
  /\ PoppedApart /\ PoppedOnce
  /\ Installed /\ InstalledOnce
  /\ \A i \in 2..Len(chain) : data[chain[i]] \in Item
  /\ \A t \in Thread : pc[t] = "wait" => got[t] \in Item

IInv == TypeOK /\ Shape /\ Counted /\ Detached

-----------------------------------------------------------------------------
(* The type of the state is preserved by every step.                       *)
LEMMA TypeStep ==
  ASSUME IInv, [Next]_vars
  PROVE  TypeOK'
<1> USE DEF NodeOrNull, NoCmp
<1>0. TypeOK
  BY Zenon DEF IInv
<1>1. ASSUME NEW t \in Thread, Push(t) PROVE TypeOK'
  <2>1. PICK n \in free, d \in Item :
          /\ next' = [next EXCEPT ![n] = NULL]
          /\ data' = [data EXCEPT ![n] = d]
          /\ free' = free \ {n}
          /\ head' = n
          /\ chain' = Append(chain, n)
          /\ node' = [node EXCEPT ![t] = n]
    BY Zenon, <1>1 DEF Push
  <2>2. n \in Node /\ chain' \in Seq(Node)
    BY <1>0, <2>1 DEF TypeOK
  <2> QED BY <1>0, <1>1, <2>1, <2>2 DEF Push, pop, TypeOK
<1>2. ASSUME NEW t \in Thread, Link(t) PROVE TypeOK'
  BY Zenon, <1>0, <1>2 DEF Link, pop, TypeOK
<1>3. ASSUME NEW t \in Thread, ReadObject(t) PROVE TypeOK'
  BY <1>0, <1>3 DEF ReadObject, queue, push, TypeOK
<1>4. ASSUME NEW t \in Thread, ReadCounter(t) PROVE TypeOK'
  BY Zenon, <1>0, <1>4 DEF ReadCounter, queue, push, TypeOK
<1>5. ASSUME NEW t \in Thread, ReadNext(t) PROVE TypeOK'
  <2>1. cmp[t].object \in Node
    BY <1>5 DEF IInv, Counted, Reading, ReadNext
  <2>2. PICK n \in NodeOrNull :
          IF n = NULL
            THEN /\ cmp' = [cmp EXCEPT ![t] = NoCmp]
                 /\ pc' = [pc EXCEPT ![t] = "idle"]
                 /\ UNCHANGED nxt
            ELSE /\ nxt' = [nxt EXCEPT ![t] = n]
                 /\ pc' = [pc EXCEPT ![t] = "cas"]
                 /\ UNCHANGED cmp
    BY Zenon, <1>0, <1>5, <2>1 DEF ReadNext, TypeOK
  <2>3. /\ cmp' \in [Thread -> [object : NodeOrNull, counter : Nat]]
        /\ nxt' \in [Thread -> NodeOrNull]
        /\ pc' \in [Thread -> {"idle", "link", "counter", "next", "cas", "data", "wait"}]
    <3>1. CASE n = NULL
      <4>1. cmp' = [cmp EXCEPT ![t] = NoCmp] /\ pc' = [pc EXCEPT ![t] = "idle"] /\ nxt' = nxt
        BY <2>2, <3>1
      <4> QED BY <1>0, <4>1 DEF TypeOK
    <3>2. CASE n # NULL
      <4>1. nxt' = [nxt EXCEPT ![t] = n] /\ pc' = [pc EXCEPT ![t] = "cas"] /\ cmp' = cmp
        BY <2>2, <3>2
      <4> QED BY <1>0, <4>1 DEF TypeOK
    <3> QED BY Zenon, <3>1, <3>2
  <2> QED BY <1>0, <1>5, <2>3 DEF ReadNext, queue, push, TypeOK
<1>6. ASSUME NEW t \in Thread, Cas(t) PROVE TypeOK'
  <2>1. CASE tail = cmp[t]
    <3>1. chain # <<>>
      BY <1>6 DEF IInv, Counted, Cas
    <3>2. Tail(chain) \in Seq(Node)
      BY <1>0, <3>1 DEF TypeOK
    <3>3. tail' \in [object : NodeOrNull, counter : Nat]
      BY <1>0, <1>6, <2>1 DEF Cas, TypeOK
    <3> QED BY Zenon, <1>0, <1>6, <2>1, <3>2, <3>3 DEF Cas, push, TypeOK
  <2>2. CASE tail # cmp[t]
    <3>1. /\ cmp' = [cmp EXCEPT ![t] = tail]
          /\ nxt' = [nxt EXCEPT ![t] = NULL]
          /\ pc' = [pc EXCEPT ![t] = "next"]
          /\ UNCHANGED <<head, tail, next, data, free, chain, pushes, got, prev, node>>
      BY Zenon, <1>6, <2>2 DEF Cas, push
    <3>2. /\ cmp' \in [Thread -> [object : NodeOrNull, counter : Nat]]
          /\ nxt' \in [Thread -> NodeOrNull]
          /\ pc' \in [Thread -> {"idle", "link", "counter", "next", "cas", "data", "wait"}]
      BY <1>0, <3>1 DEF TypeOK, NodeOrNull
    <3> QED BY Zenon, <1>0, <3>1, <3>2 DEF TypeOK
  <2> QED BY <2>1, <2>2
<1>7. ASSUME NEW t \in Thread, ReadData(t) PROVE TypeOK'
  <2>1. nxt[t] \in Node
    BY <1>7 DEF IInv, Detached, Installed, ReadData
  <2> QED BY <1>0, <1>7, <2>1 DEF ReadData, push, TypeOK
<1>8. ASSUME NEW t \in Thread, FreeTail(t) PROVE TypeOK'
  <2>1. cmp[t].object \in Node
    BY <1>8 DEF IInv, Detached, PoppedApart, FreeTail, Popped
  <2> QED BY <1>0, <1>8, <2>1 DEF FreeTail, push, TypeOK
<1>9. ASSUME Destroy PROVE TypeOK'
  <2>1. tail.object \in Node
    BY <1>0, <1>9 DEF IInv, Shape, Destroy, TypeOK
  <2>2. tail' = [object |-> NULL, counter |-> tail.counter] /\ chain' = <<>>
    BY <1>0, <1>9 DEF Destroy, TypeOK
  <2>3. /\ head' = NULL /\ free' = free \cup {tail.object}
        /\ UNCHANGED <<next, data, pushes, pc, cmp, nxt, got, prev, node>>
    BY Zenon, <1>9 DEF Destroy, pop, push
  <2>4. /\ head' \in NodeOrNull /\ free' \in SUBSET Node /\ chain' \in Seq(Node)
        /\ tail' \in [object : NodeOrNull, counter : Nat]
    BY <1>0, <2>1, <2>2, <2>3 DEF TypeOK, NodeOrNull
  <2> QED BY Zenon, <1>0, <2>3, <2>4 DEF TypeOK
<1>10. ASSUME UNCHANGED vars PROVE TypeOK'
  BY Zenon, <1>0, <1>10 DEF vars, queue, pop, push, TypeOK
<1> QED
  BY Zenon, <1>1, <1>2, <1>3, <1>4, <1>5, <1>6, <1>7, <1>8, <1>9, <1>10 DEF Next
-----------------------------------------------------------------------------
(* The part of a push that the invariants depend on: a block of the pool   *)
(* becomes the last node of the list.                                      *)
LEMMA PushFacts ==
  ASSUME IInv, NEW t \in Thread, Push(t)
  PROVE  \E n \in free, d \in Item :
           /\ n \in Node
           /\ Len(chain) \in Nat /\ Len(chain) > 0 /\ chain[Len(chain)] = head
           /\ Len(chain') = Len(chain) + 1
           /\ \A i \in 1..Len(chain) : chain'[i] = chain[i]
           /\ chain'[Len(chain) + 1] = n /\ head' = n
           /\ next'[n] = NULL /\ data'[n] = d
           /\ \A m \in Node : m # n => next'[m] = next[m] /\ data'[m] = data[m]
           /\ free' = free \ {n}
           /\ pc[t] = "idle" /\ pc'[t] = "link"
           /\ prev'[t] = head /\ node'[t] = n
           /\ \A u \in Thread : u # t => /\ pc'[u] = pc[u] /\ prev'[u] = prev[u]
                                         /\ node'[u] = node[u]
           /\ UNCHANGED <<tail, cmp, nxt, got>>
<1>0. TypeOK /\ Shape
  BY Zenon DEF IInv
<1>1. PICK n \in free, d \in Item :
        /\ next' = [next EXCEPT ![n] = NULL]
        /\ data' = [data EXCEPT ![n] = d]
        /\ free' = free \ {n}
        /\ head' = n
        /\ chain' = Append(chain, n)
        /\ node' = [node EXCEPT ![t] = n]
  BY Zenon DEF Push
<1>2. n \in Node /\ chain # <<>> /\ chain[Len(chain)] = head
  BY <1>0 DEF Push, Shape, TypeOK
<1>3. /\ Len(chain) \in Nat /\ Len(chain) > 0
      /\ Len(chain') = Len(chain) + 1
      /\ \A i \in 1..Len(chain) : chain'[i] = chain[i]
      /\ chain'[Len(chain) + 1] = n
  BY <1>0, <1>1, <1>2, EmptySeq DEF TypeOK
<1>4. /\ next'[n] = NULL /\ data'[n] = d
      /\ \A m \in Node : m # n => next'[m] = next[m] /\ data'[m] = data[m]
  BY Zenon, <1>0, <1>1, <1>2 DEF TypeOK
<1>5. /\ pc[t] = "idle" /\ pc'[t] = "link"
      /\ prev'[t] = head /\ node'[t] = n
      /\ \A u \in Thread : u # t => /\ pc'[u] = pc[u] /\ prev'[u] = prev[u]
                                    /\ node'[u] = node[u]
      /\ UNCHANGED <<tail, cmp, nxt, got>>
  BY Zenon, <1>0, <1>1 DEF Push, pop, TypeOK
<1> QED BY <1>1, <1>2, <1>3, <1>4, <1>5

(* A push appends to the list and owes the link from the old head.         *)
LEMMA ShapePush ==
  ASSUME IInv, NEW t \in Thread, Push(t)
  PROVE  Shape'
<1> DEFINE k == Len(chain)
<1>0. TypeOK /\ Shape
  BY Zenon DEF IInv
<1>1. PICK n \in free, d \in Item :
           /\ n \in Node
           /\ k \in Nat /\ k > 0 /\ chain[k] = head
           /\ Len(chain') = k + 1
           /\ \A i \in 1..k : chain'[i] = chain[i]
           /\ chain'[k + 1] = n /\ head' = n
           /\ next'[n] = NULL
           /\ \A m \in Node : m # n => next'[m] = next[m]
           /\ free' = free \ {n}
           /\ pc[t] = "idle" /\ pc'[t] = "link"
           /\ prev'[t] = head /\ node'[t] = n
           /\ \A u \in Thread : u # t => /\ pc'[u] = pc[u] /\ prev'[u] = prev[u]
                                         /\ node'[u] = node[u]
           /\ tail' = tail
  BY PushFacts
<1>2. chain # <<>> /\ chain' # <<>>
  BY <1>1
<1>3. \A i \in 1..k : /\ chain[i] \in Node \ free /\ chain[i] # n
                      /\ next'[chain[i]] = next[chain[i]]
  BY <1>0, <1>1 DEF Shape
<1>4. next[chain[k]] = NULL
  BY Zenon, <1>0, <1>1, <1>2 DEF Shape
<1>5. chain'[1] = tail'.object /\ chain'[Len(chain')] = head' /\ next'[head'] = NULL
      /\ head' # NULL
  <2>1. 1 \in 1..k
    BY <1>1
  <2> QED BY Zenon, <1>0, <1>1, <1>2, <2>1, NullAssumption DEF Shape
<1>6. \A i \in 1..Len(chain') : chain'[i] \in Node \ free'
  BY <1>1, <1>3
<1>7. \A i, j \in 1..Len(chain') : chain'[i] = chain'[j] => i = j
  BY SMTT(40), <1>0, <1>1, <1>3 DEF Shape
<1>8. \A i \in 1..(Len(chain') - 1) : next'[chain'[i]] \in {chain'[i + 1], NULL}
  <2> TAKE i \in 1..(Len(chain') - 1)
  <2>1. CASE i < k
    <3>1. i \in 1..k /\ i + 1 \in 1..k /\ i \in 1..(k - 1)
      BY <1>1, <2>1
    <3>2. next[chain[i]] \in {chain[i + 1], NULL}
      BY Zenon, <1>0, <3>1 DEF Shape
    <3> QED BY <1>1, <1>3, <3>1, <3>2
  <2>2. CASE i = k
    BY <1>1, <1>3, <1>4, <2>2
  <2> QED BY <1>1, <2>1, <2>2
<1>9. \A u \in Thread : pc'[u] = "link" =>
        \E i \in 1..(Len(chain') - 1) : /\ prev'[u] = chain'[i]
                                        /\ node'[u] = chain'[i + 1]
                                        /\ next'[chain'[i]] = NULL
  <2> TAKE u \in Thread
  <2> HAVE pc'[u] = "link"
  <2>1. CASE u = t
    <3>1. k \in 1..(Len(chain') - 1) /\ k \in 1..k
      BY <1>1
    <3> QED BY <1>1, <1>3, <1>4, <2>1, <3>1
  <2>2. CASE u # t
    <3>1. PICK i \in 1..(k - 1) : /\ prev[u] = chain[i]
                                  /\ node[u] = chain[i + 1]
                                  /\ next[chain[i]] = NULL
      BY Zenon, <1>0, <1>1, <2>2 DEF Shape
    <3>2. i \in 1..(Len(chain') - 1) /\ i \in 1..k /\ i + 1 \in 1..k
      BY <1>1
    <3> QED BY <1>1, <1>3, <2>2, <3>1, <3>2
  <2> QED BY Zenon, <2>1, <2>2
<1>10. \A u, v \in Thread :
         pc'[u] = "link" /\ pc'[v] = "link" /\ prev'[u] = prev'[v] => u = v
  <2>1. \A u \in Thread : pc[u] = "link" => prev[u] # chain[k]
    <3> TAKE u \in Thread
    <3> HAVE pc[u] = "link"
    <3>1. PICK i \in 1..(k - 1) : prev[u] = chain[i]
      BY Zenon, <1>0 DEF Shape
    <3>2. i \in 1..k /\ k \in 1..k /\ i # k
      BY <1>1
    <3> QED BY <1>0, <3>1, <3>2 DEF Shape
  <2> QED BY <1>0, <1>1, <2>1 DEF Shape
<1> HIDE DEF k
<1> QED
  BY <1>2, <1>5, <1>6, <1>7, <1>8, <1>9, <1>10 DEF Shape

(* A push stores the one link that it owes.                                *)
LEMMA LinkFacts ==
  ASSUME IInv, NEW t \in Thread, Link(t)
  PROVE  \E k \in 1..(Len(chain) - 1) :
           /\ k \in 1..Len(chain) /\ k + 1 \in 1..Len(chain)
           /\ prev[t] = chain[k] /\ next[chain[k]] = NULL
           /\ chain[k] \in Node /\ chain[k + 1] \in Node
           /\ next'[chain[k]] = chain[k + 1]
           /\ \A m \in Node : m # chain[k] => next'[m] = next[m]
           /\ pc[t] = "link" /\ pc'[t] = "idle"
           /\ \A u \in Thread : u # t => /\ pc'[u] = pc[u] /\ prev'[u] = prev[u]
                                         /\ node'[u] = node[u]
           /\ UNCHANGED <<head, tail, data, free, chain, cmp, nxt, got>>
<1>0. TypeOK /\ Shape
  BY Zenon DEF IInv
<1>1. PICK k \in 1..(Len(chain) - 1) : /\ prev[t] = chain[k]
                                       /\ node[t] = chain[k + 1]
                                       /\ next[chain[k]] = NULL
  BY Zenon, <1>0 DEF Shape, Link
<1>2. Len(chain) \in Nat /\ k \in 1..Len(chain) /\ k + 1 \in 1..Len(chain)
  BY <1>0, <1>1 DEF TypeOK
<1>3. chain[k] \in Node /\ chain[k + 1] \in Node
  BY Zenon, <1>0, <1>2 DEF Shape
<1>4. /\ next'[chain[k]] = chain[k + 1]
      /\ \A m \in Node : m # chain[k] => next'[m] = next[m]
  BY Zenon, <1>0, <1>1, <1>3 DEF Link, TypeOK
<1>5. /\ pc[t] = "link" /\ pc'[t] = "idle"
      /\ \A u \in Thread : u # t => /\ pc'[u] = pc[u] /\ prev'[u] = prev[u]
                                    /\ node'[u] = node[u]
      /\ UNCHANGED <<head, tail, data, free, chain, cmp, nxt, got>>
  BY <1>0 DEF Link, pop, TypeOK
<1> QED BY Zenon, <1>1, <1>2, <1>3, <1>4, <1>5

LEMMA ShapeLink ==
  ASSUME IInv, NEW t \in Thread, Link(t)
  PROVE  Shape'
<1>0. TypeOK /\ Shape
  BY Zenon DEF IInv
<1>1. PICK k \in 1..(Len(chain) - 1) :
           /\ k \in 1..Len(chain) /\ k + 1 \in 1..Len(chain)
           /\ prev[t] = chain[k] /\ next[chain[k]] = NULL
           /\ chain[k] \in Node /\ chain[k + 1] \in Node
           /\ next'[chain[k]] = chain[k + 1]
           /\ \A m \in Node : m # chain[k] => next'[m] = next[m]
           /\ pc[t] = "link" /\ pc'[t] = "idle"
           /\ \A u \in Thread : u # t => /\ pc'[u] = pc[u] /\ prev'[u] = prev[u]
                                         /\ node'[u] = node[u]
           /\ UNCHANGED <<head, tail, data, free, chain, cmp, nxt, got>>
  BY Zenon, LinkFacts
<1>2. Len(chain) \in Nat
  BY <1>0 DEF TypeOK
<1>3. \A i \in 1..Len(chain) : i # k => next'[chain[i]] = next[chain[i]]
  BY <1>0, <1>1 DEF Shape
<1>4. chain # <<>> => next'[head] = NULL
  <2>1. Len(chain) \in 1..Len(chain) /\ Len(chain) # k
    BY <1>1, <1>2
  <2> QED BY Zenon, <1>0, <1>3, <2>1 DEF Shape
<1>5. \A i \in 1..(Len(chain) - 1) : next'[chain[i]] \in {chain[i + 1], NULL}
  <2> TAKE i \in 1..(Len(chain) - 1)
  <2>1. i \in 1..Len(chain)
    BY <1>2
  <2> QED BY Zenon, <1>0, <1>1, <1>3, <2>1 DEF Shape
<1>6. \A u \in Thread : pc'[u] = "link" =>
         \E i \in 1..(Len(chain) - 1) : /\ prev'[u] = chain[i]
                                        /\ node'[u] = chain[i + 1]
                                        /\ next'[chain[i]] = NULL
  <2> TAKE u \in Thread
  <2> HAVE pc'[u] = "link"
  <2>1. u # t /\ pc[u] = "link"
    BY Zenon, <1>1
  <2>2. PICK i \in 1..(Len(chain) - 1) : /\ prev[u] = chain[i]
                                         /\ node[u] = chain[i + 1]
                                         /\ next[chain[i]] = NULL
    BY Zenon, <1>0, <2>1 DEF Shape
  <2>3. i # k
    BY <1>0, <1>1, <2>1, <2>2 DEF Shape
  <2>4. i \in 1..Len(chain)
    BY <1>2
  <2> QED BY <1>1, <1>3, <2>1, <2>2, <2>3, <2>4
<1>7. \A u, v \in Thread :
         pc'[u] = "link" /\ pc'[v] = "link" /\ prev'[u] = prev'[v] => u = v
  <2>1. \A u \in Thread : pc'[u] = "link" => pc[u] = "link" /\ prev'[u] = prev[u]
    BY <1>1
  <2> QED BY <1>0, <2>1 DEF Shape
<1>8. UNCHANGED <<head, tail, free, chain>>
  BY <1>1
<1> QED
  BY SMT, <1>0, <1>4, <1>5, <1>6, <1>7, <1>8 DEF Shape
(* A compare-and-swap that succeeds makes the second node the tail.        *)
LEMMA CasFacts ==
  ASSUME IInv, NEW t \in Thread, Cas(t), tail = cmp[t]
  PROVE  /\ Len(chain) \in Nat /\ Len(chain) > 1
         /\ Len(chain') = Len(chain) - 1
         /\ \A i \in 1..(Len(chain) - 1) : chain'[i] = chain[i + 1]
         /\ tail.object = chain[1] /\ nxt[t] = chain[2]
         /\ next[chain[1]] = chain[2]
         /\ tail'.object = chain[2] /\ tail'.counter = tail.counter + 1
         /\ pc[t] = "cas" /\ pc'[t] = "data"
         /\ \A u \in Thread : u # t => pc'[u] = pc[u]
         /\ UNCHANGED <<head, next, data, free, cmp, nxt, got, prev, node>>
<1>0. TypeOK /\ Shape /\ Counted
  BY Zenon DEF IInv
<1>1. Len(chain) > 1 /\ nxt[t] = chain[2] /\ next[chain[1]] = chain[2] /\ chain # <<>>
  BY <1>0 DEF Counted, Cas
<1>2. chain' = Tail(chain) /\ tail' = [object |-> nxt[t], counter |-> cmp[t].counter + 1]
  BY DEF Cas
<1>3. /\ Len(chain) \in Nat /\ Len(chain') = Len(chain) - 1
      /\ \A i \in 1..(Len(chain) - 1) : chain'[i] = chain[i + 1]
  BY <1>0, <1>1, <1>2 DEF TypeOK
<1>4. tail.object = chain[1]
  BY Zenon, <1>0, <1>1 DEF Shape
<1>5. /\ pc[t] = "cas" /\ pc'[t] = "data"
      /\ \A u \in Thread : u # t => pc'[u] = pc[u]
      /\ UNCHANGED <<head, next, data, free, cmp, nxt, got, prev, node>>
  BY Zenon, <1>0 DEF Cas, push, TypeOK
<1> QED BY <1>1, <1>2, <1>3, <1>4, <1>5

LEMMA ShapeCas ==
  ASSUME IInv, NEW t \in Thread, Cas(t), tail = cmp[t]
  PROVE  Shape'
<1> DEFINE n == Len(chain)
<1>0. TypeOK /\ Shape
  BY Zenon DEF IInv
<1>1. /\ n \in Nat /\ n > 1
      /\ Len(chain') = n - 1
      /\ \A i \in 1..(n - 1) : chain'[i] = chain[i + 1]
      /\ next[chain[1]] = chain[2]
      /\ tail'.object = chain[2]
      /\ \A u \in Thread : pc'[u] = "link" => pc[u] = "link"
      /\ UNCHANGED <<head, next, free, prev, node>>
  BY Zenon, CasFacts
<1>2. chain # <<>> /\ chain' # <<>>
  BY <1>1
<1>3. chain'[1] = tail'.object /\ chain'[Len(chain')] = head' /\ next'[head'] = NULL
      /\ head' # NULL
  <2>1. 1 \in 1..(n - 1) /\ n - 1 \in 1..(n - 1)
    BY <1>1
  <2>2. chain'[1] = chain[2] /\ chain'[n - 1] = chain[n]
    BY <1>1, <2>1
  <2> QED BY <1>0, <1>1, <1>2, <2>2 DEF Shape
<1>4. \A i \in 1..Len(chain') : chain'[i] \in Node \ free'
  BY <1>0, <1>1 DEF Shape
<1>5. \A i, j \in 1..Len(chain') : chain'[i] = chain'[j] => i = j
  <2> TAKE i, j \in 1..Len(chain')
  <2>1. /\ i \in 1..(n - 1) /\ j \in 1..(n - 1)
        /\ i + 1 \in 1..n /\ j + 1 \in 1..n
    BY <1>1
  <2>2. chain'[i] = chain[i + 1] /\ chain'[j] = chain[j + 1]
    BY <1>1, <2>1
  <2>3. chain[i + 1] = chain[j + 1] => i + 1 = j + 1
    BY Zenon, <1>0, <2>1 DEF Shape
  <2> QED BY <2>1, <2>2, <2>3
<1>6. \A i \in 1..(Len(chain') - 1) : next'[chain'[i]] \in {chain'[i + 1], NULL}
  <2> TAKE i \in 1..(Len(chain') - 1)
  <2>1. i + 1 \in 1..(n - 1) /\ i \in 1..(n - 1)
    BY <1>1
  <2>2. chain'[i] = chain[i + 1] /\ chain'[i + 1] = chain[i + 1 + 1]
    BY Zenon, <1>1, <2>1
  <2> DEFINE k == i + 1
  <2>3. next[chain[k]] \in {chain[k + 1], NULL}
    BY <1>0, <2>1 DEF Shape
  <2> QED BY <1>1, <2>2, <2>3
<1>7. \A u \in Thread : pc'[u] = "link" =>
        \E i \in 1..(Len(chain') - 1) : /\ prev'[u] = chain'[i]
                                        /\ node'[u] = chain'[i + 1]
                                        /\ next'[chain'[i]] = NULL
  <2> TAKE u \in Thread
  <2> HAVE pc'[u] = "link"
  <2>1. PICK k \in 1..(n - 1) : /\ prev[u] = chain[k]
                                /\ node[u] = chain[k + 1]
                                /\ next[chain[k]] = NULL
    BY <1>0, <1>1 DEF Shape
  <2>2. k # 1
    <3>1. 2 \in 1..n
      BY <1>1
    <3>2. chain[2] # NULL
      BY Zenon, <1>0, <3>1, NullAssumption DEF Shape
    <3> QED BY Zenon, <1>1, <2>1, <3>2
  <2> DEFINE i == k - 1
  <2>3. /\ i \in 1..(n - 1) /\ i + 1 \in 1..(n - 1)
        /\ i \in 1..(Len(chain') - 1) /\ i + 1 = k
    BY <1>1, <2>1, <2>2
  <2>4. chain'[i] = chain[k] /\ chain'[i + 1] = chain[k + 1]
    BY SMTT(40), <1>1, <2>3
  <2> HIDE DEF i
  <2> QED BY <1>1, <2>1, <2>3, <2>4
<1>8. \A u, v \in Thread :
         pc'[u] = "link" /\ pc'[v] = "link" /\ prev'[u] = prev'[v] => u = v
  BY <1>0, <1>1 DEF Shape
<1> HIDE DEF n
<1> QED
  BY ZenonT(40), <1>2, <1>3, <1>4, <1>5, <1>6, <1>7, <1>8 DEF Shape

(* A popped node is freed only when it is neither in the list nor about to *)
(* be linked to.                                                           *)
LEMMA FreeFacts ==
  ASSUME IInv, NEW t \in Thread, FreeTail(t)
  PROVE  LET o == cmp[t].object IN
           /\ o \in Node \ free /\ data[o] = NULL
           /\ \A i \in 1..Len(chain) : chain[i] # o
           /\ free' = free \cup {o}
           /\ \A m \in Node : m # o => next'[m] = next[m]
           /\ pc[t] = "wait" /\ pc'[t] = "idle"
           /\ \A u \in Thread : u # t => /\ pc'[u] = pc[u] /\ cmp'[u] = cmp[u]
                                         /\ got'[u] = got[u]
           /\ UNCHANGED <<head, tail, data, chain, nxt, prev, node>>
<1>0. TypeOK /\ Detached
  BY Zenon DEF IInv
<1> DEFINE o == cmp[t].object
<1>1. o \in Node \ free /\ \A i \in 1..Len(chain) : chain[i] # o
  BY Zenon, <1>0 DEF Detached, PoppedApart, FreeTail, Popped
<1>2. \A m \in Node : m # o => next'[m] = next[m]
  BY Zenon, <1>0 DEF FreeTail, TypeOK
<1>3. /\ data[o] = NULL /\ free' = free \cup {o}
      /\ pc[t] = "wait" /\ pc'[t] = "idle"
      /\ \A u \in Thread : u # t => /\ pc'[u] = pc[u] /\ cmp'[u] = cmp[u]
                                    /\ got'[u] = got[u]
      /\ UNCHANGED <<head, tail, data, chain, nxt, prev, node>>
  BY <1>0 DEF FreeTail, push, TypeOK
<1> QED BY <1>1, <1>2, <1>3

(* The shape depends on the nodes of the list alone.                       *)
LEMMA ShapeFrame ==
  ASSUME TypeOK, Shape, UNCHANGED <<head, tail, chain, prev, node>>,
         \A i \in 1..Len(chain) : /\ next'[chain[i]] = next[chain[i]]
                                  /\ chain[i] \notin free'
         , \A u \in Thread : pc'[u] = "link" => pc[u] = "link"
  PROVE  Shape'
<1>1. Len(chain) \in Nat
  BY DEF TypeOK
<1>2. chain # <<>> => next'[head'] = NULL
  <2> HAVE chain # <<>>
  <2>1. Len(chain) \in 1..Len(chain)
    BY <1>1, EmptySeq DEF TypeOK
  <2> QED BY <2>1 DEF Shape
<1>3. \A i \in 1..(Len(chain) - 1) : i \in 1..Len(chain)
  BY <1>1
<1>4. \A i \in 1..(Len(chain) - 1) : next'[chain[i]] = next[chain[i]]
  BY <1>3
<1>5. /\ \A i \in 1..Len(chain) : chain[i] \in Node \ free'
      /\ \A i \in 1..(Len(chain) - 1) : next'[chain[i]] \in {chain[i + 1], NULL}
  BY <1>4 DEF Shape
<1>6. \A u \in Thread : pc'[u] = "link" =>
        \E i \in 1..(Len(chain) - 1) : /\ prev'[u] = chain[i]
                                       /\ node'[u] = chain[i + 1]
                                       /\ next'[chain[i]] = NULL
  BY <1>4 DEF Shape
<1>7. \A u, v \in Thread :
         pc'[u] = "link" /\ pc'[v] = "link" /\ prev'[u] = prev'[v] => u = v
  BY DEF Shape
<1> QED
  BY SMT, <1>2, <1>5, <1>6, <1>7 DEF Shape
(* The steps of a pop that only read, and a compare-and-swap that fails.   *)
ReadStep(t) ==
  \/ ReadObject(t) \/ ReadCounter(t) \/ ReadNext(t) \/ (Cas(t) /\ tail # cmp[t])

LEMMA ReadFacts ==
  ASSUME IInv, NEW t \in Thread, ReadStep(t)
  PROVE  /\ UNCHANGED <<queue, got, push>>
         /\ pc[t] \in {"idle", "counter", "next", "cas"}
         /\ pc'[t] \in {"idle", "counter", "next", "cas"}
         /\ \A u \in Thread : u # t => /\ pc'[u] = pc[u] /\ cmp'[u] = cmp[u]
                                       /\ nxt'[u] = nxt[u]
<1>0. TypeOK
  BY Zenon DEF IInv
<1>1. CASE ReadObject(t)
  BY <1>0, <1>1 DEF ReadObject, TypeOK
<1>2. CASE ReadCounter(t)
  BY SMTT(40), <1>0, <1>2 DEF ReadCounter, TypeOK
<1>3. CASE ReadNext(t)
  <2>1. UNCHANGED <<queue, got, push>> /\ pc[t] = "next"
    BY <1>3 DEF ReadNext
  <2>2. PICK n : IF n = NULL
                   THEN /\ cmp' = [cmp EXCEPT ![t] = NoCmp]
                        /\ pc' = [pc EXCEPT ![t] = "idle"]
                        /\ UNCHANGED nxt
                   ELSE /\ nxt' = [nxt EXCEPT ![t] = n]
                        /\ pc' = [pc EXCEPT ![t] = "cas"]
                        /\ UNCHANGED cmp
    BY Zenon, <1>3 DEF ReadNext
  <2>3. CASE n = NULL
    BY <1>0, <2>1, <2>2, <2>3 DEF TypeOK
  <2>4. CASE n # NULL
    BY <1>0, <2>1, <2>2, <2>4 DEF TypeOK
  <2> QED BY SMTT(40), <2>3, <2>4
<1>4. CASE Cas(t) /\ tail # cmp[t]
  BY <1>0, <1>4 DEF Cas, queue, TypeOK
<1> QED BY <1>1, <1>2, <1>3, <1>4 DEF ReadStep

(* Every step keeps the shape of the list.                                 *)
LEMMA ShapeStep ==
  ASSUME IInv, [Next]_vars
  PROVE  Shape'
<1>0. TypeOK /\ Shape
  BY Zenon DEF IInv
<1>1. ASSUME NEW t \in Thread, Push(t) PROVE Shape'
  BY Zenon, <1>1, ShapePush
<1>2. ASSUME NEW t \in Thread, Link(t) PROVE Shape'
  BY Zenon, <1>2, ShapeLink
<1>3. ASSUME NEW t \in Thread, ReadStep(t) PROVE Shape'
  <2>1. /\ UNCHANGED <<head, tail, chain, prev, node, next, free>>
        /\ \A u \in Thread : pc'[u] = "link" => pc[u] = "link"
    BY Zenon, <1>3, ReadFacts DEF queue, push
  <2> QED BY Zenon, <1>0, <2>1, ShapeFrame DEF Shape
<1>4. ASSUME NEW t \in Thread, Cas(t), tail = cmp[t] PROVE Shape'
  BY Zenon, <1>4, ShapeCas
<1>5. ASSUME NEW t \in Thread, ReadData(t) PROVE Shape'
  <2>1. /\ UNCHANGED <<head, tail, chain, prev, node, next, free>>
        /\ \A u \in Thread : pc'[u] = "link" => pc[u] = "link"
    BY <1>0, <1>5 DEF ReadData, push, TypeOK
  <2> QED BY Zenon, <1>0, <2>1, ShapeFrame DEF Shape
<1>6. ASSUME NEW t \in Thread, FreeTail(t) PROVE Shape'
  <2>1. /\ UNCHANGED <<head, tail, chain, prev, node>>
        /\ \A i \in 1..Len(chain) : /\ next'[chain[i]] = next[chain[i]]
                                    /\ chain[i] \notin free'
        /\ \A u \in Thread : pc'[u] = "link" => pc[u] = "link"
    BY <1>0, <1>6, FreeFacts DEF Shape
  <2> QED BY Zenon, <1>0, <2>1, ShapeFrame
<1>7. ASSUME Destroy PROVE Shape'
  <2>1. chain' = <<>> /\ head' = NULL /\ \A u \in Thread : pc'[u] = "idle"
    BY Zenon, <1>7 DEF Destroy
  <2> QED BY <2>1 DEF Shape
<1>8. ASSUME UNCHANGED vars PROVE Shape'
  <2>1. UNCHANGED <<head, tail, chain, prev, node, next, free, pc>>
    BY <1>8 DEF vars, queue, push
  <2> QED BY <1>0, <2>1, ShapeFrame DEF Shape
<1> QED
  BY <1>1, <1>2, <1>3, <1>4, <1>5, <1>6, <1>7, <1>8 DEF Next, ReadStep

-----------------------------------------------------------------------------
(* A list that is neither empty nor a stub alone has a second node.        *)
LEMMA MoreThanOne ==
  ASSUME NEW k \in Nat, k > 0, k # 1
  PROVE  k > 1 /\ 1 \in 1..(k - 1)
OBVIOUS

(* What a thread has read of the tail is worth nothing once the counter has*)
(* moved on; until then, it is the tail, and the successor read from it is *)
(* the successor.                                                          *)
LEMMA CountedFrame ==
  ASSUME IInv, NEW t \in Thread,
         pc'[t] \notin {"counter", "next", "cas"},
         \A u \in Thread : u # t => /\ pc'[u] = pc[u] /\ cmp'[u] = cmp[u]
                                    /\ nxt'[u] = nxt[u],
         tail' = tail, chain' # <<>>,
         Len(chain) > 1 => /\ Len(chain') > 1 /\ chain'[1] = chain[1]
                           /\ chain'[2] = chain[2],
         Len(chain) > 1 /\ next[chain[1]] = chain[2] => next'[chain[1]] = chain[2]
  PROVE  Counted'
BY DEF IInv, Counted, Reading

LEMMA CountedStep ==
  ASSUME IInv, [Next]_vars
  PROVE  Counted'
<1>0. TypeOK /\ Shape /\ Counted
  BY Zenon DEF IInv
<1>a. ASSUME chain # <<>> PROVE Len(chain) \in Nat /\ Len(chain) > 0 /\ chain[1] \in Node \ free
  <2>1. Len(chain) \in Nat /\ Len(chain) > 0
    BY <1>0, <1>a, EmptySeq DEF TypeOK
  <2>2. 1 \in 1..Len(chain)
    BY <2>1
  <2> QED BY Zenon, <1>0, <2>1, <2>2 DEF Shape
<1>1. ASSUME NEW t \in Thread, Push(t) PROVE Counted'
  <2>1. PICK n \in free :
           /\ Len(chain) \in Nat /\ Len(chain) > 0
           /\ Len(chain') = Len(chain) + 1
           /\ \A i \in 1..Len(chain) : chain'[i] = chain[i]
           /\ \A m \in Node : m # n => next'[m] = next[m]
           /\ pc'[t] = "link"
           /\ \A u \in Thread : u # t => pc'[u] = pc[u]
           /\ UNCHANGED <<tail, cmp, nxt>>
    BY <1>1, PushFacts
  <2>2. chain # <<>> /\ chain' # <<>>
    BY <2>1
  <2>3. next'[chain[1]] = next[chain[1]]
    BY Zenon, <1>a, <2>1, <2>2
  <2>4. Len(chain) > 1 => /\ Len(chain') > 1 /\ chain'[1] = chain[1]
                          /\ chain'[2] = chain[2]
    BY <2>1
  <2> QED BY <2>1, <2>2, <2>3, <2>4, CountedFrame
<1>2. ASSUME NEW t \in Thread, Link(t) PROVE Counted'
  <2>1. PICK k \in 1..(Len(chain) - 1) :
           /\ k \in 1..Len(chain) /\ next[chain[k]] = NULL
           /\ chain[k] \in Node
           /\ \A m \in Node : m # chain[k] => next'[m] = next[m]
           /\ pc[t] = "link" /\ pc'[t] = "idle"
           /\ \A u \in Thread : u # t => pc'[u] = pc[u]
           /\ UNCHANGED <<tail, chain, cmp, nxt>>
    BY <1>2, LinkFacts
  <2>2. chain # <<>>
    BY Zenon, <1>0, <2>1 DEF Counted
  <2>3. Len(chain) > 1 /\ next[chain[1]] = chain[2] => next'[chain[1]] = chain[2]
    <3> HAVE Len(chain) > 1 /\ next[chain[1]] = chain[2]
    <3>1. 2 \in 1..Len(chain)
      BY <1>a, <2>2
    <3>2. chain[2] # NULL
      BY <1>0, <3>1, NullAssumption DEF Shape
    <3> QED BY Zenon, <1>a, <2>1, <2>2, <3>2
  <2> QED BY Zenon, <2>1, <2>2, <2>3, CountedFrame
<1>3. ASSUME NEW t \in Thread, ReadObject(t) PROVE Counted'
  <2>1. chain # <<>> /\ tail.object \in Node
    BY Zenon, <1>0, <1>3, <1>a DEF ReadObject, Shape
  <2>2. /\ UNCHANGED <<tail, chain, next, nxt>>
        /\ pc'[t] = "counter" /\ cmp'[t].object = tail.object
        /\ \A u \in Thread : u # t => pc'[u] = pc[u] /\ cmp'[u] = cmp[u]
    BY Zenon, <1>0, <1>3 DEF ReadObject, queue, TypeOK
  <2> QED BY <1>0, <2>1, <2>2 DEF Counted, Reading
<1>4. ASSUME NEW t \in Thread, ReadCounter(t) PROVE Counted'
  <2>1. /\ UNCHANGED <<tail, chain, next, nxt>>
        /\ pc[t] = "counter" /\ pc'[t] = "next"
        /\ cmp'[t].object = cmp[t].object /\ cmp'[t].counter = tail.counter
        /\ \A u \in Thread : u # t => pc'[u] = pc[u] /\ cmp'[u] = cmp[u]
    BY Zenon, <1>0, <1>4 DEF ReadCounter, queue, TypeOK
  <2>2. tail.counter \in Nat
    BY Zenon, <1>0 DEF TypeOK
  <2> QED BY <1>0, <2>1, <2>2 DEF Counted, Reading
<1>5. ASSUME NEW t \in Thread, ReadNext(t) PROVE Counted'
  <2>1. UNCHANGED <<tail, chain, next>> /\ pc[t] = "next" /\ chain # <<>>
    BY Zenon, <1>0, <1>5 DEF ReadNext, queue, Counted
  <2>2. PICK n :
          /\ cmp[t].object \notin free => n = next[cmp[t].object]
          /\ IF n = NULL
               THEN /\ cmp' = [cmp EXCEPT ![t] = NoCmp]
                    /\ pc' = [pc EXCEPT ![t] = "idle"]
                    /\ UNCHANGED nxt
               ELSE /\ nxt' = [nxt EXCEPT ![t] = n]
                    /\ pc' = [pc EXCEPT ![t] = "cas"]
                    /\ UNCHANGED cmp
    BY Zenon, <1>5 DEF ReadNext
  <2>3. CASE n = NULL
    <3>1. /\ pc'[t] = "idle" /\ nxt' = nxt
          /\ \A u \in Thread : u # t => pc'[u] = pc[u] /\ cmp'[u] = cmp[u]
      BY Zenon, <1>0, <2>2, <2>3 DEF TypeOK
    <3> QED BY Zenon, <2>1, <3>1, CountedFrame
  <2>4. CASE n # NULL
    <3>1. /\ pc'[t] = "cas" /\ nxt'[t] = n /\ cmp' = cmp
          /\ \A u \in Thread : u # t => pc'[u] = pc[u] /\ nxt'[u] = nxt[u]
      BY <1>0, <2>2, <2>4 DEF TypeOK
    <3>2. tail = cmp[t] => Len(chain) > 1 /\ n = chain[2] /\ next[chain[1]] = chain[2]
      <4> HAVE tail = cmp[t]
      <4>1. chain[1] = cmp[t].object /\ chain[1] \in Node \ free
        BY Zenon, <1>0, <1>a, <2>1 DEF Shape
      <4>2. n = next[chain[1]]
        BY Zenon, <2>2, <4>1
      <4>3. Len(chain) # 1
        <5>1. chain[Len(chain)] = head /\ next[head] = NULL
          BY Zenon, <1>0, <2>1 DEF Shape
        <5> QED BY Zenon, <2>4, <4>2, <5>1
      <4>4. Len(chain) > 1 /\ 1 \in 1..(Len(chain) - 1)
        BY ZenonT(40), <1>a, <2>1, <4>3, MoreThanOne
      <4> QED BY <1>0, <2>4, <4>2, <4>4 DEF Shape
    <3> QED BY Zenon, <1>0, <2>1, <3>1, <3>2 DEF Counted, Reading
  <2> QED BY <2>3, <2>4
<1>6. ASSUME NEW t \in Thread, Cas(t), tail = cmp[t] PROVE Counted'
  <2>1. /\ Len(chain) \in Nat /\ Len(chain) > 1 /\ Len(chain') = Len(chain) - 1
        /\ tail'.counter = tail.counter + 1
        /\ pc'[t] = "data"
        /\ \A u \in Thread : u # t => pc'[u] = pc[u]
        /\ cmp' = cmp
    BY Zenon, <1>6, CasFacts
  <2>2. chain' # <<>> /\ tail.counter \in Nat
    BY <1>0, <2>1 DEF TypeOK
  <2>3. \A u \in Thread : cmp[u].counter \in Nat
    BY Zenon, <1>0 DEF TypeOK
  <2>4. \A u \in Thread : pc'[u] \in {"next", "cas"} =>
          cmp'[u].counter <= tail'.counter /\ tail' # cmp'[u]
    BY <1>0, <2>1, <2>2, <2>3 DEF Counted
  <2> QED BY Zenon, <1>0, <2>1, <2>2, <2>4 DEF Counted, Reading
<1>7. ASSUME NEW t \in Thread, Cas(t), tail # cmp[t] PROVE Counted'
  <2>1. /\ UNCHANGED <<tail, chain, next>> /\ pc[t] = "cas"
        /\ pc'[t] = "next" /\ cmp'[t] = tail
        /\ \A u \in Thread : u # t => /\ pc'[u] = pc[u] /\ cmp'[u] = cmp[u]
                                      /\ nxt'[u] = nxt[u]
    BY <1>0, <1>7 DEF Cas, TypeOK
  <2>2. chain # <<>> /\ tail.object \in Node /\ tail.counter \in Nat
    BY <1>0, <1>a, <2>1 DEF Counted, Shape, TypeOK
  <2> QED BY <1>0, <2>1, <2>2 DEF Counted, Reading
<1>8. ASSUME NEW t \in Thread, ReadData(t) PROVE Counted'
  <2>1. /\ pc[t] = "data" /\ pc'[t] = "wait"
        /\ UNCHANGED <<tail, chain, next, cmp>>
        /\ \A u \in Thread : u # t => pc'[u] = pc[u] /\ nxt'[u] = nxt[u]
    BY Zenon, <1>0, <1>8 DEF ReadData, TypeOK
  <2>2. chain # <<>>
    BY <1>0, <2>1 DEF Counted
  <2> QED BY <2>1, <2>2, CountedFrame
<1>9. ASSUME NEW t \in Thread, FreeTail(t) PROVE Counted'
  <2>1. /\ pc[t] = "wait" /\ pc'[t] = "idle"
        /\ UNCHANGED <<tail, chain, nxt>>
        /\ \A i \in 1..Len(chain) : chain[i] # cmp[t].object
        /\ \A m \in Node : m # cmp[t].object => next'[m] = next[m]
        /\ \A u \in Thread : u # t => pc'[u] = pc[u] /\ cmp'[u] = cmp[u]
    BY Zenon, <1>9, FreeFacts
  <2>2. chain # <<>>
    BY Zenon, <1>0, <2>1 DEF Counted
  <2>3. next'[chain[1]] = next[chain[1]]
    BY <1>a, <2>1, <2>2
  <2> QED BY <2>1, <2>2, <2>3, CountedFrame
<1>10. ASSUME Destroy PROVE Counted'
  BY Zenon, <1>10 DEF Destroy, Counted, Reading
<1>11. ASSUME UNCHANGED vars PROVE Counted'
  BY Zenon, <1>0, <1>11 DEF vars, queue, pop, Counted, Reading
<1> QED
  BY <1>1, <1>2, <1>3, <1>4, <1>5, <1>6, <1>7, <1>8, <1>9, <1>10, <1>11 DEF Next

-----------------------------------------------------------------------------
(* A pop that has yet to read the data of the tail it installed finds the  *)
(* node allocated, and not waiting to be popped.                           *)
LEMMA InstalledNode ==
  ASSUME IInv, NEW t \in Thread, pc[t] = "data"
  PROVE  /\ nxt[t] \in Node \ free
         /\ \A i \in 2..Len(chain) : chain[i] # nxt[t]
<1>0. TypeOK /\ Shape /\ Counted /\ Detached
  BY Zenon DEF IInv
<1>1. chain # <<>> /\ Len(chain) \in Nat /\ Len(chain) > 0
  BY <1>0, EmptySeq DEF Counted, TypeOK
<1>2. 1 \in 1..Len(chain) /\ \A i \in 2..Len(chain) : i \in 1..Len(chain) /\ i # 1
  BY SMTT(40), <1>1
<1>3. CASE nxt[t] = tail.object
  <2>1. nxt[t] = chain[1]
    BY Zenon, <1>0, <1>1, <1>3 DEF Shape
  <2> QED BY <1>0, <1>2, <2>1 DEF Shape
<1>4. CASE nxt[t] # tail.object
  <2>1. PICK u \in Thread : Popped(u) /\ cmp[u].object = nxt[t]
    BY Zenon, <1>0, <1>4 DEF Detached, Installed
  <2> QED BY <1>0, <1>2, <2>1 DEF Detached, PoppedApart
<1> QED BY Zenon, <1>3, <1>4

(* What is detached from the list, and by whom, when only the position of a*)
(* thread outside of it changes.                                           *)
LEMMA DetachedFrame ==
  ASSUME IInv, NEW t \in Thread,
         ~ Popped(t), pc'[t] \notin {"data", "wait"},
         \A u \in Thread : u # t => /\ pc'[u] = pc[u] /\ cmp'[u] = cmp[u]
                                    /\ nxt'[u] = nxt[u] /\ got'[u] = got[u],
         UNCHANGED <<tail, data, free, chain>>
  PROVE  Detached'
<1>0. Detached
  BY Zenon DEF IInv
<1>1. \A u \in Thread : /\ Popped(u)' = Popped(u)
                        /\ pc'[u] = "data" <=> pc[u] = "data"
                        /\ pc'[u] = "wait" <=> pc[u] = "wait"
                        /\ Popped(u) => /\ cmp'[u] = cmp[u] /\ nxt'[u] = nxt[u]
                                        /\ got'[u] = got[u]
  BY DEF Popped
<1>2. \A u \in Thread : pc[u] = "data" \/ pc[u] = "wait" => Popped(u)
  BY Zenon DEF Popped
<1>3. \A u \in Thread : Popped(u)' =>
        /\ cmp'[u].object \in Node \ free'
        /\ \A i \in 1..Len(chain') : chain'[i] # cmp'[u].object
  <2>1. PoppedApart
    BY Zenon, <1>0 DEF Detached
  <2> QED BY <1>1, <2>1 DEF PoppedApart
<1>4. \A u, v \in Thread :
        Popped(u)' /\ Popped(v)' /\ cmp'[u].object = cmp'[v].object => u = v
  <2>1. PoppedOnce
    BY Zenon, <1>0 DEF Detached
  <2>2. \A u \in Thread : Popped(u)' => Popped(u) /\ cmp'[u] = cmp[u]
    BY Zenon, <1>1
  <2> QED BY Zenon, <2>1, <2>2 DEF PoppedOnce
<1>5. \A u \in Thread : pc'[u] = "data" =>
        /\ nxt'[u] \in Node /\ data'[nxt'[u]] \in Item
        /\ \/ nxt'[u] = tail'.object
           \/ \E v \in Thread : Popped(v)' /\ cmp'[v].object = nxt'[u]
  <2>1. Installed
    BY Zenon, <1>0 DEF Detached
  <2> SUFFICES ASSUME NEW u \in Thread, pc'[u] = "data"
               PROVE  /\ nxt'[u] \in Node /\ data'[nxt'[u]] \in Item
                      /\ \/ nxt'[u] = tail'.object
                         \/ \E v \in Thread : Popped(v)' /\ cmp'[v].object = nxt'[u]
    BY Zenon
  <2>2. pc[u] = "data" /\ nxt'[u] = nxt[u] /\ data' = data /\ tail' = tail
    BY Zenon, <1>1, <1>2
  <2>3. \A v \in Thread : Popped(v) => Popped(v)' /\ cmp'[v] = cmp[v]
    BY Zenon, <1>1
  <2> QED BY <2>1, <2>2, <2>3 DEF Installed
<1>6. \A u, v \in Thread :
        pc'[u] = "data" /\ pc'[v] = "data" /\ nxt'[u] = nxt'[v] => u = v
  <2>1. InstalledOnce
    BY Zenon, <1>0 DEF Detached
  <2> QED BY <1>1, <1>2, <2>1 DEF InstalledOnce
<1>7. /\ \A i \in 2..Len(chain') : data'[chain'[i]] \in Item
      /\ \A u \in Thread : pc'[u] = "wait" => got'[u] \in Item
  BY Zenon, <1>0, <1>1, <1>2 DEF Detached
<1> QED BY ZenonT(40), <1>3, <1>4, <1>5, <1>6, <1>7
  DEF Detached, PoppedApart, PoppedOnce, Installed, InstalledOnce

(* A push takes a node that nobody uses.                                   *)
LEMMA DetachedPush ==
  ASSUME IInv, NEW t \in Thread, Push(t)
  PROVE  Detached'
<1>0. TypeOK /\ Shape /\ Detached
  BY Zenon DEF IInv
<1>1. PICK n \in free, d \in Item :
        /\ n \in Node
        /\ Len(chain) \in Nat /\ Len(chain) > 0
        /\ Len(chain') = Len(chain) + 1
        /\ \A i \in 1..Len(chain) : chain'[i] = chain[i]
        /\ chain'[Len(chain) + 1] = n
        /\ data'[n] = d
        /\ \A m \in Node : m # n => data'[m] = data[m]
        /\ free' = free \ {n}
        /\ pc[t] = "idle" /\ pc'[t] = "link"
        /\ \A u \in Thread : u # t => pc'[u] = pc[u]
        /\ UNCHANGED <<tail, cmp, nxt, got>>
  BY PushFacts
<1>2. \A u \in Thread : /\ Popped(u)' = Popped(u)
                        /\ pc'[u] = "data" <=> pc[u] = "data"
                        /\ pc'[u] = "wait" <=> pc[u] = "wait"
  BY SMTT(40), <1>1 DEF Popped
<1>3. \A u \in Thread : Popped(u) => cmp[u].object \in Node \ free'
                                  /\ \A i \in 1..Len(chain') : chain'[i] # cmp[u].object
  <2>1. PoppedApart
    BY Zenon, <1>0 DEF Detached
  <2> QED BY SMTT(40), <1>1, <2>1 DEF PoppedApart
<1>4. \A u \in Thread : pc[u] = "data" => nxt[u] \in Node /\ data'[nxt[u]] \in Item
  <2> TAKE u \in Thread
  <2> HAVE pc[u] = "data"
  <2>1. nxt[u] \in Node \ free /\ data[nxt[u]] \in Item
    BY Zenon, <1>0, InstalledNode DEF Detached, Installed
  <2> QED BY Zenon, <1>1, <2>1
<1>5. \A i \in 2..Len(chain') : data'[chain'[i]] \in Item
  <2> TAKE i \in 2..Len(chain')
  <2>1. CASE i = Len(chain) + 1
    BY Zenon, <1>1, <2>1
  <2>2. CASE i # Len(chain) + 1
    <3>1. i \in 2..Len(chain) /\ i \in 1..Len(chain)
      BY SMTT(40), <1>1, <2>2
    <3>2. chain[i] \in Node \ free /\ data[chain[i]] \in Item
      BY Zenon, <1>0, <3>1 DEF Shape, Detached
    <3> QED BY Zenon, <1>1, <3>1, <3>2
  <2> QED BY Zenon, <2>1, <2>2
<1>6. UNCHANGED <<tail, cmp, nxt, got>>
  BY Zenon, <1>1
<1> QED BY SMT, <1>0, <1>2, <1>3, <1>4, <1>5, <1>6
  DEF Detached, PoppedApart, PoppedOnce, Installed, InstalledOnce

(* A pop detaches the old tail, and installs a node with data.             *)
LEMMA DetachedCas ==
  ASSUME IInv, NEW t \in Thread, Cas(t), tail = cmp[t]
  PROVE  Detached'
<1>0. TypeOK /\ Shape /\ Detached
  BY Zenon DEF IInv
<1>1. /\ Len(chain) \in Nat /\ Len(chain) > 1
      /\ Len(chain') = Len(chain) - 1
      /\ \A i \in 1..(Len(chain) - 1) : chain'[i] = chain[i + 1]
      /\ tail.object = chain[1] /\ nxt[t] = chain[2]
      /\ tail'.object = chain[2]
      /\ pc[t] = "cas" /\ pc'[t] = "data"
      /\ \A u \in Thread : u # t => pc'[u] = pc[u]
      /\ UNCHANGED <<head, next, data, free, cmp, nxt, got, prev, node>>
  BY Zenon, CasFacts
<1>2. /\ 1 \in 1..Len(chain) /\ 2 \in 1..Len(chain) /\ 2 \in 2..Len(chain)
      /\ \A i \in 1..(Len(chain) - 1) : i + 1 \in 1..Len(chain) /\ i + 1 # 1
      /\ \A i \in 2..(Len(chain) - 1) : i + 1 \in 2..Len(chain) /\ i \in 1..(Len(chain) - 1)
  BY <1>1
<1>3. chain[1] \in Node \ free /\ chain[2] \in Node \ free /\ cmp[t].object = chain[1]
  BY Zenon, <1>0, <1>1, <1>2 DEF Shape
<1>4. /\ Popped(t)' /\ ~ Popped(t)
      /\ \A u \in Thread : u # t => /\ Popped(u)' = Popped(u)
                                    /\ pc'[u] = "data" <=> pc[u] = "data"
                                    /\ pc'[u] = "wait" <=> pc[u] = "wait"
  BY Zenon, <1>1 DEF Popped
<1>5. ASSUME NEW u \in Thread, Popped(u)'
      PROVE  /\ cmp'[u].object \in Node \ free'
             /\ \A i \in 1..Len(chain') : chain'[i] # cmp'[u].object
  <2>1. CASE u = t
    <3>1. \A i \in 1..(Len(chain) - 1) : chain[i + 1] # chain[1]
      BY <1>0, <1>2 DEF Shape
    <3> QED BY <1>1, <1>3, <2>1, <3>1
  <2>2. CASE u # t
    <3>1. /\ cmp[u].object \in Node \ free
          /\ \A i \in 1..Len(chain) : chain[i] # cmp[u].object
      BY Zenon, <1>0, <1>4, <2>2, <1>5 DEF Detached, PoppedApart
    <3> QED BY <1>1, <1>2, <3>1
  <2> QED BY Zenon, <2>1, <2>2
<1>6. \A u, v \in Thread :
        Popped(u)' /\ Popped(v)' /\ cmp'[u].object = cmp'[v].object => u = v
  <2>1. \A u \in Thread : u # t /\ Popped(u)' => cmp[u].object # chain[1]
    <3>1. \A u \in Thread : Popped(u) => \A i \in 1..Len(chain) : chain[i] # cmp[u].object
      BY Zenon, <1>0 DEF Detached, PoppedApart
    <3> QED BY Zenon, <1>2, <1>4, <3>1
  <2>2. PoppedOnce
    BY Zenon, <1>0 DEF Detached
  <2>3. cmp' = cmp
    BY Zenon, <1>1
  <2> QED BY Zenon, <1>3, <1>4, <2>1, <2>2, <2>3 DEF PoppedOnce
<1>7. ASSUME NEW u \in Thread, pc'[u] = "data"
      PROVE  /\ nxt'[u] \in Node /\ data'[nxt'[u]] \in Item
             /\ \/ nxt'[u] = tail'.object
                \/ \E v \in Thread : Popped(v)' /\ cmp'[v].object = nxt'[u]
  <2>1. CASE u = t
    BY Zenon, <1>0, <1>1, <1>2, <1>3, <2>1 DEF Detached
  <2>2. CASE u # t /\ nxt[u] = tail.object
    BY Zenon, <1>0, <1>1, <1>3, <1>4, <2>2, <1>7 DEF Detached, Installed
  <2>3. CASE u # t /\ nxt[u] # tail.object
    <3>1. /\ nxt[u] \in Node /\ data[nxt[u]] \in Item
          /\ \E v \in Thread : Popped(v) /\ cmp[v].object = nxt[u]
      BY Zenon, <1>0, <1>4, <2>3, <1>7 DEF Detached, Installed
    <3> QED BY Zenon, <1>1, <1>4, <3>1
  <2> QED BY Zenon, <2>1, <2>2, <2>3
<1>8. \A u, v \in Thread :
        pc'[u] = "data" /\ pc'[v] = "data" /\ nxt'[u] = nxt'[v] => u = v
  <2>1. \A u \in Thread : u # t /\ pc'[u] = "data" => nxt[u] # chain[2]
    <3> SUFFICES ASSUME NEW u \in Thread, u # t, pc'[u] = "data"
                 PROVE  nxt[u] # chain[2]
      BY Zenon
    <3>1. pc[u] = "data"
      BY Zenon, <1>4
    <3>2. \A i \in 2..Len(chain) : chain[i] # nxt[u]
      BY Zenon, <3>1, InstalledNode
    <3> QED BY Zenon, <1>2, <3>2
  <2>2. \A u, v \in Thread : pc[u] = "data" /\ pc[v] = "data" /\ nxt[u] = nxt[v] => u = v
    BY Zenon, <1>0 DEF Detached, InstalledOnce
  <2>3. nxt' = nxt /\ nxt[t] = chain[2]
    BY Zenon, <1>1
  <2> SUFFICES ASSUME NEW u \in Thread, NEW v \in Thread,
                      pc'[u] = "data", pc'[v] = "data", nxt[u] = nxt[v]
               PROVE  u = v
    BY Zenon, <2>3
  <2>4. CASE u = t \/ v = t
    BY Zenon, <2>1, <2>3, <2>4
  <2>5. CASE u # t /\ v # t
    <3>1. pc[u] = "data" /\ pc[v] = "data"
      BY Zenon, <1>4, <2>5
    <3> QED BY Zenon, <2>2, <3>1
  <2> QED BY Zenon, <2>4, <2>5
<1>9. \A i \in 2..Len(chain') : data'[chain'[i]] \in Item
  <2>1. \A i \in 2..Len(chain) : data[chain[i]] \in Item
    BY Zenon, <1>0 DEF Detached
  <2> TAKE i \in 2..Len(chain')
  <2>2. i \in 2..(Len(chain) - 1)
    BY Zenon, <1>1
  <2>3. chain'[i] = chain[i + 1] /\ i + 1 \in 2..Len(chain)
    BY Zenon, <1>1, <1>2, <2>2
  <2>4. data' = data
    BY Zenon, <1>1
  <2> QED BY Zenon, <2>1, <2>3, <2>4
<1>10. \A u \in Thread : pc'[u] = "wait" => got'[u] \in Item
  BY Zenon, <1>0, <1>1, <1>4 DEF Detached
<1> QED BY ZenonT(40), <1>5, <1>6, <1>7, <1>8, <1>9, <1>10
  DEF Detached, PoppedApart, PoppedOnce, Installed, InstalledOnce

(* A pop takes the data of the node it installed; nobody else reads it.    *)
LEMMA DetachedData ==
  ASSUME IInv, NEW t \in Thread, ReadData(t)
  PROVE  Detached'
<1>0. TypeOK /\ Shape /\ Detached
  BY Zenon DEF IInv
<1>1. /\ pc[t] = "data" /\ pc'[t] = "wait" /\ got'[t] = data[nxt[t]]
      /\ \A u \in Thread : u # t => /\ pc'[u] = pc[u] /\ nxt'[u] = nxt[u]
                                    /\ got'[u] = got[u]
      /\ \A m \in Node : m # nxt[t] => data'[m] = data[m]
      /\ UNCHANGED <<tail, free, chain, cmp>>
  BY Zenon, <1>0 DEF ReadData, TypeOK
<1>2. \A u \in Thread : Popped(u)' = Popped(u)
  BY <1>1 DEF Popped
<1>3. /\ \A u \in Thread : Popped(u)' =>
           /\ cmp'[u].object \in Node \ free'
           /\ \A i \in 1..Len(chain') : chain'[i] # cmp'[u].object
      /\ \A u, v \in Thread :
           Popped(u)' /\ Popped(v)' /\ cmp'[u].object = cmp'[v].object => u = v
  BY Zenon, <1>0, <1>1, <1>2 DEF Detached, PoppedApart, PoppedOnce
<1>4. \A u \in Thread : pc'[u] = "data" => u # t /\ pc[u] = "data" /\ nxt'[u] = nxt[u]
  BY Zenon, <1>1
<1>5. ASSUME NEW u \in Thread, pc'[u] = "data"
      PROVE  /\ nxt'[u] \in Node /\ data'[nxt'[u]] \in Item
             /\ \/ nxt'[u] = tail'.object
                \/ \E v \in Thread : Popped(v)' /\ cmp'[v].object = nxt'[u]
  <2>1. nxt[u] # nxt[t]
    <3>1. \A v, w \in Thread : pc[v] = "data" /\ pc[w] = "data" /\ nxt[v] = nxt[w] => v = w
      BY Zenon, <1>0 DEF Detached, InstalledOnce
    <3> QED BY Zenon, <1>1, <1>4, <1>5, <3>1
  <2>2. /\ nxt[u] \in Node /\ data[nxt[u]] \in Item
        /\ \/ nxt[u] = tail.object
           \/ \E v \in Thread : Popped(v) /\ cmp[v].object = nxt[u]
    <3>1. \A w \in Thread : pc[w] = "data" =>
            /\ nxt[w] \in Node /\ data[nxt[w]] \in Item
            /\ \/ nxt[w] = tail.object
               \/ \E v \in Thread : Popped(v) /\ cmp[v].object = nxt[w]
      BY Zenon, <1>0 DEF Detached, Installed
    <3> QED BY Zenon, <1>4, <1>5, <3>1
  <2>3. data'[nxt[u]] = data[nxt[u]]
    BY Zenon, <1>1, <2>1, <2>2
  <2>4. nxt'[u] = nxt[u] /\ tail' = tail /\ cmp' = cmp
    BY Zenon, <1>1, <1>4, <1>5
  <2> QED BY Zenon, <1>2, <2>2, <2>3, <2>4
<1>6. \A u, v \in Thread :
        pc'[u] = "data" /\ pc'[v] = "data" /\ nxt'[u] = nxt'[v] => u = v
  <2>1. InstalledOnce
    BY Zenon, <1>0 DEF Detached
  <2> QED BY Zenon, <1>4, <2>1 DEF InstalledOnce
<1>7. \A i \in 2..Len(chain') : data'[chain'[i]] \in Item
  <2> TAKE i \in 2..Len(chain')
  <2>1. i \in 2..Len(chain) /\ i \in 1..Len(chain)
    BY SMTT(40), <1>0, <1>1 DEF TypeOK
  <2>2. chain[i] # nxt[t] /\ chain[i] \in Node /\ data[chain[i]] \in Item
    BY Zenon, <1>0, <1>1, <2>1, InstalledNode DEF Shape, Detached
  <2> QED BY Zenon, <1>1, <2>2
<1>8. \A u \in Thread : pc'[u] = "wait" => got'[u] \in Item
  <2> SUFFICES ASSUME NEW u \in Thread, pc'[u] = "wait" PROVE got'[u] \in Item
    BY Zenon
  <2>1. CASE u = t
    <3>1. data[nxt[t]] \in Item
      BY Zenon, <1>0, <1>1 DEF Detached, Installed
    <3> QED BY Zenon, <1>1, <2>1, <3>1
  <2>2. CASE u # t
    BY Zenon, <1>0, <1>1, <2>2 DEF Detached
  <2> QED BY Zenon, <2>1, <2>2
<1> QED BY ZenonT(40), <1>3, <1>5, <1>6, <1>7, <1>8
  DEF Detached, PoppedApart, PoppedOnce, Installed, InstalledOnce

(* A node is freed only when the pop that installed it has its data.       *)
LEMMA DetachedFree ==
  ASSUME IInv, NEW t \in Thread, FreeTail(t)
  PROVE  Detached'
<1>0. TypeOK /\ Shape /\ Detached
  BY Zenon DEF IInv
<1> DEFINE o == cmp[t].object
<1>1. /\ o \in Node \ free /\ data[o] = NULL
      /\ free' = free \cup {o}
      /\ pc[t] = "wait" /\ pc'[t] = "idle"
      /\ \A u \in Thread : u # t => /\ pc'[u] = pc[u] /\ cmp'[u] = cmp[u]
                                    /\ got'[u] = got[u]
      /\ UNCHANGED <<tail, data, chain, nxt>>
  BY Zenon, FreeFacts
<1>2. \A u \in Thread : Popped(u)' => u # t /\ Popped(u) /\ cmp'[u] = cmp[u]
  BY Zenon, <1>1 DEF Popped
<1>3. \A u \in Thread : Popped(u)' => cmp[u].object # o
  <2> SUFFICES ASSUME NEW u \in Thread, Popped(u)', cmp[u].object = o
               PROVE  FALSE
    BY Zenon
  <2>1. Popped(t) /\ Popped(u) /\ u # t
    BY Zenon, <1>1, <1>2 DEF Popped
  <2> QED BY Zenon, <1>0, <2>1 DEF Detached, PoppedOnce
<1>4. /\ \A u \in Thread : Popped(u)' =>
           /\ cmp'[u].object \in Node \ free'
           /\ \A i \in 1..Len(chain') : chain'[i] # cmp'[u].object
      /\ \A u, v \in Thread :
           Popped(u)' /\ Popped(v)' /\ cmp'[u].object = cmp'[v].object => u = v
  <2>1. /\ \A u \in Thread : Popped(u) =>
             /\ cmp[u].object \in Node \ free
             /\ \A i \in 1..Len(chain) : chain[i] # cmp[u].object
        /\ \A u, v \in Thread :
             Popped(u) /\ Popped(v) /\ cmp[u].object = cmp[v].object => u = v
    BY Zenon, <1>0 DEF Detached, PoppedApart, PoppedOnce
  <2>2. free' = free \cup {o} /\ chain' = chain
    BY Zenon, <1>1
  <2>3. ASSUME NEW u \in Thread, Popped(u)'
        PROVE  /\ cmp'[u].object \in Node \ free'
               /\ \A i \in 1..Len(chain') : chain'[i] # cmp'[u].object
    <3> HIDE DEF o
    <3> QED BY Zenon, <1>2, <1>3, <2>1, <2>2, <2>3
  <2>4. ASSUME NEW u \in Thread, NEW v \in Thread,
               Popped(u)', Popped(v)', cmp'[u].object = cmp'[v].object
        PROVE  u = v
    BY Zenon, <1>2, <2>1, <2>4
  <2> QED BY Zenon, <2>3, <2>4
<1>5. ASSUME NEW u \in Thread, pc'[u] = "data"
      PROVE  /\ nxt'[u] \in Node /\ data'[nxt'[u]] \in Item
             /\ \/ nxt'[u] = tail'.object
                \/ \E v \in Thread : Popped(v)' /\ cmp'[v].object = nxt'[u]
  <2>1. pc[u] = "data"
    BY Zenon, <1>1, <1>5
  <2>2. nxt[u] \in Node /\ data[nxt[u]] \in Item
    BY Zenon, <1>0, <2>1 DEF Detached, Installed
  <2>3. nxt[u] # o
    BY Zenon, <1>1, <2>2, NullAssumption
  <2>4. CASE nxt[u] = tail.object
    BY Zenon, <1>1, <2>2, <2>4
  <2>5. CASE nxt[u] # tail.object
    <3>1. PICK v \in Thread : Popped(v) /\ cmp[v].object = nxt[u]
      BY Zenon, <1>0, <2>1, <2>5 DEF Detached, Installed
    <3>2. v # t
      BY Zenon, <2>3, <3>1
    <3>3. Popped(v)' /\ cmp'[v].object = nxt[u]
      BY Zenon, <1>1, <3>1, <3>2 DEF Popped
    <3> QED BY Zenon, <1>1, <2>2, <3>3
  <2> QED BY Zenon, <2>4, <2>5
<1>6. \A u, v \in Thread :
        pc'[u] = "data" /\ pc'[v] = "data" /\ nxt'[u] = nxt'[v] => u = v
  <2>1. \A u \in Thread : pc'[u] = "data" => pc[u] = "data"
    BY Zenon, <1>1
  <2>2. InstalledOnce
    BY Zenon, <1>0 DEF Detached
  <2>3. nxt' = nxt
    BY Zenon, <1>1
  <2> QED BY Zenon, <2>1, <2>2, <2>3 DEF InstalledOnce
<1>7. /\ \A i \in 2..Len(chain') : data'[chain'[i]] \in Item
      /\ \A u \in Thread : pc'[u] = "wait" => got'[u] \in Item
  BY Zenon, <1>0, <1>1 DEF Detached
<1> QED BY ZenonT(40), <1>4, <1>5, <1>6, <1>7
  DEF Detached, PoppedApart, PoppedOnce, Installed, InstalledOnce

LEMMA DetachedStep ==
  ASSUME IInv, [Next]_vars
  PROVE  Detached'
<1>0. TypeOK /\ Detached
  BY Zenon DEF IInv
<1>1. ASSUME NEW t \in Thread, Push(t) PROVE Detached'
  BY Zenon, <1>1, DetachedPush
<1>2. ASSUME NEW t \in Thread, Link(t) PROVE Detached'
  <2>1. /\ pc[t] = "link" /\ pc'[t] = "idle"
        /\ \A u \in Thread : u # t => pc'[u] = pc[u]
        /\ UNCHANGED <<tail, data, free, chain, cmp, nxt, got>>
    BY SMTT(40), <1>2, LinkFacts
  <2> QED BY Zenon, <2>1, DetachedFrame DEF Popped
<1>3. ASSUME NEW t \in Thread, ReadStep(t) PROVE Detached'
  <2>1. /\ UNCHANGED <<tail, data, free, chain, got>>
        /\ pc[t] \in {"idle", "counter", "next", "cas"}
        /\ pc'[t] \in {"idle", "counter", "next", "cas"}
        /\ \A u \in Thread : u # t => /\ pc'[u] = pc[u] /\ cmp'[u] = cmp[u]
                                      /\ nxt'[u] = nxt[u]
    BY Zenon, <1>3, ReadFacts DEF queue
  <2> QED BY Zenon, <2>1, DetachedFrame DEF Popped
<1>4. ASSUME NEW t \in Thread, Cas(t), tail = cmp[t] PROVE Detached'
  BY Zenon, <1>4, DetachedCas
<1>5. ASSUME NEW t \in Thread, ReadData(t) PROVE Detached'
  BY Zenon, <1>5, DetachedData
<1>6. ASSUME NEW t \in Thread, FreeTail(t) PROVE Detached'
  BY Zenon, <1>6, DetachedFree
<1>7. ASSUME Destroy PROVE Detached'
  <2>1. chain' = <<>> /\ \A u \in Thread : pc'[u] = "idle"
    BY Zenon, <1>7 DEF Destroy
  <2> QED BY <2>1
  DEF Detached, PoppedApart, PoppedOnce, Installed, InstalledOnce, Popped
<1>8. ASSUME UNCHANGED vars PROVE Detached'
  BY <1>0, <1>8 DEF vars, queue, pop, Detached, PoppedApart, PoppedOnce, Installed, InstalledOnce, Popped
<1> QED
  BY <1>1, <1>2, <1>3, <1>4, <1>5, <1>6, <1>7, <1>8 DEF Next, ReadStep

-----------------------------------------------------------------------------
(* The invariant holds initially: the list is its stub.                    *)
LEMMA InitInv == Init => IInv
<1> SUFFICES ASSUME Init PROVE IInv
  BY Zenon
<1>1. PICK stub \in Node : /\ head = stub
                           /\ tail = [object |-> stub, counter |-> 0]
                           /\ free = Node \ {stub}
                           /\ chain = <<stub>>
  BY Zenon DEF Init
<1>2. TypeOK
  BY <1>1 DEF Init, TypeOK, NodeOrNull, NoCmp
<1>3. Shape
  BY <1>1, NullAssumption DEF Init, Shape
<1>4. Counted
  BY DEF Init, Counted, Reading
<1>5. Detached
  BY <1>1 DEF Init, Detached, PoppedApart, PoppedOnce, Installed, InstalledOnce, Popped
<1> QED BY Zenon, <1>2, <1>3, <1>4, <1>5 DEF IInv

(* The invariant is inductive: it holds of every reachable state of a run  *)
(* queue, whatever the number of threads, of nodes and of items.           *)
THEOREM Invariance == Spec => []IInv
<1>1. IInv /\ [Next]_vars => IInv'
  BY Zenon, TypeStep, ShapeStep, CountedStep, DetachedStep DEF IInv
<1> QED BY InitInv, <1>1, PTL DEF Spec

(* The state of the run queue keeps its type.                              *)
THEOREM TypeCorrect == Spec => []TypeOK
<1>1. IInv => TypeOK
  BY Zenon DEF IInv
<1> QED BY Invariance, <1>1, PTL

(* No ABA: a compare-and-swap of ponyint_mpmcq_pop that succeeds installs  *)
(* the true successor of the tail, although it may have been read from a   *)
(* node that was freed and reused.                                         *)
THEOREM NoABA == Spec => []CasInstallsSuccessor
<1>1. IInv => CasInstallsSuccessor
  BY ZenonT(40) DEF IInv, Counted, CasInstallsSuccessor
<1> QED BY Invariance, <1>1, PTL

(* No node is written, read for its data, or freed, once it is in the pool.*)
THEOREM MemorySafe == Spec => []AccessesAllocated
<1>1. IInv => AccessesAllocated
  <2> SUFFICES ASSUME IInv, NEW t \in Thread
               PROVE  /\ pc[t] = "link" => prev[t] \in Node \ free
                      /\ pc[t] = "data" => nxt[t] \in Node \ free
                      /\ pc[t] = "wait" => cmp[t].object \in Node \ free
    BY DEF AccessesAllocated
  <2>1. ASSUME pc[t] = "link" PROVE prev[t] \in Node \ free
    <3>1. PICK i \in 1..(Len(chain) - 1) : prev[t] = chain[i]
      BY <2>1 DEF IInv, Shape
    <3>2. i \in 1..Len(chain)
      BY DEF IInv, TypeOK
    <3> QED BY Zenon, <3>1, <3>2 DEF IInv, Shape
  <2>2. pc[t] = "data" => nxt[t] \in Node \ free
    BY Zenon, InstalledNode
  <2>3. pc[t] = "wait" => cmp[t].object \in Node \ free
    BY Zenon DEF IInv, Detached, PoppedApart, Popped
  <2> QED BY Zenon, <2>1, <2>2, <2>3
<1> QED BY Invariance, <1>1, PTL

-----------------------------------------------------------------------------
(* The run queue implements FifoQueue: a push is an Enqueue, a successful  *)
(* compare-and-swap a Dequeue, freeing the old tail a Return, and every    *)
(* other step changes nothing.                                             *)
ItemsOK ==
  /\ Len(chain) \in Nat /\ Len(chain) > 0
  /\ Items \in Seq(Item) /\ Len(Items) = Len(chain) - 1
  /\ \A i \in 1..(Len(chain) - 1) : Items[i] = data[chain[i + 1]]

LEMMA ItemsType == IInv /\ chain # <<>> => ItemsOK
<1> SUFFICES ASSUME IInv, chain # <<>> PROVE ItemsOK
  BY Zenon
<1>1. Len(chain) \in Nat /\ Len(chain) > 0
  BY EmptySeq DEF IInv, TypeOK
<1>2. \A i \in 1..(Len(chain) - 1) : data[chain[i + 1]] \in Item
  <2> TAKE i \in 1..(Len(chain) - 1)
  <2>1. i + 1 \in 2..Len(chain)
    BY <1>1
  <2> QED BY Zenon, <2>1 DEF IInv, Detached
<1>3. Items = [i \in 1..(Len(chain) - 1) |-> data[chain[i + 1]]]
  BY DEF Items
<1> QED BY <1>1, <1>2, <1>3 DEF ItemsOK

(* Nothing changes for those outside while the list, the data of the nodes *)
(* that wait in it, and what each pop holds are the same.                  *)
LEMMA SameItems ==
  ASSUME TypeOK, chain' = chain,
         \A i \in 2..Len(chain) : data'[chain[i]] = data[chain[i]]
  PROVE  Items' = Items
<1> DEFINE n == IF chain = <<>> THEN 0 ELSE Len(chain) - 1
<1>1. Len(chain) \in Nat /\ (chain = <<>> => Len(chain) = 0)
  BY DEF TypeOK
<1>2. \A i \in 1..n : data'[chain[i + 1]] = data[chain[i + 1]]
  <2> TAKE i \in 1..n
  <2>1. i + 1 \in 2..Len(chain)
    BY <1>1
  <2> QED BY Zenon, <2>1
<1>3. Items = [i \in 1..n |-> data[chain[i + 1]]]
  BY Zenon DEF Items
<1>4. Items' = [i \in 1..n |-> data'[chain[i + 1]]]
  BY Zenon DEF Items
<1> HIDE DEF n
<1> QED BY <1>2, <1>3, <1>4

LEMMA SameHeld ==
  ASSUME \A u \in Thread : Held(u)' = Held(u)
  PROVE  HeldBy' = HeldBy
BY Zenon DEF HeldBy

LEMMA EnqueueStep ==
  ASSUME IInv, IInv', NEW t \in Thread, Push(t)
  PROVE  Abstract!Next
<1>0. TypeOK /\ Shape /\ Detached
  BY Zenon DEF IInv
<1>1. PICK n \in free, d \in Item :
        /\ n \in Node
        /\ Len(chain) \in Nat /\ Len(chain) > 0
        /\ Len(chain') = Len(chain) + 1
        /\ \A i \in 1..Len(chain) : chain'[i] = chain[i]
        /\ chain'[Len(chain) + 1] = n
        /\ data'[n] = d
        /\ \A m \in Node : m # n => data'[m] = data[m]
        /\ pc[t] = "idle" /\ pc'[t] = "link"
        /\ \A u \in Thread : u # t => pc'[u] = pc[u]
        /\ UNCHANGED <<nxt, got>>
  BY PushFacts
<1> DEFINE k == Len(chain)
<1>2. chain # <<>> /\ chain' # <<>>
  BY <1>1
<1>3. /\ Items \in Seq(Item) /\ Len(Items) = k - 1
      /\ \A i \in 1..(k - 1) : Items[i] = data[chain[i + 1]]
  BY Zenon, <1>2, ItemsType DEF ItemsOK
<1>4. /\ Items' \in Seq(Item) /\ Len(Items') = k
      /\ \A i \in 1..k : Items'[i] = data'[chain'[i + 1]]
  <2>1. (IInv /\ chain # <<>> => ItemsOK)'
    BY ItemsType, PTL
  <2> QED BY <1>1, <1>2, <2>1 DEF ItemsOK
<1>5. \A i \in 1..(k - 1) : Items'[i] = Items[i]
  <2> TAKE i \in 1..(k - 1)
  <2>1. i \in 1..k /\ i + 1 \in 1..k
    BY <1>1
  <2>2. chain'[i + 1] = chain[i + 1] /\ chain[i + 1] \in Node /\ chain[i + 1] # n
    BY Zenon, <1>0, <1>1, <2>1 DEF Shape
  <2>3. Items'[i] = data'[chain'[i + 1]] /\ Items[i] = data[chain[i + 1]]
    BY Zenon, <1>3, <1>4, <2>1
  <2>4. data'[chain[i + 1]] = data[chain[i + 1]]
    BY SMTT(40), <1>1, <2>2
  <2> QED BY Zenon, <2>2, <2>3, <2>4
<1>6. Items'[k] = d
  BY <1>1, <1>4
<1>7. Items' = Append(Items, d)
  <2>1. /\ Append(Items, d) \in Seq(Item) /\ Len(Append(Items, d)) = k
        /\ \A i \in 1..k : Append(Items, d)[i] = IF i = k THEN d ELSE Items[i]
    BY <1>1, <1>3
  <2>2. \A i \in 1..k : Items'[i] = Append(Items, d)[i]
    BY <1>1, <1>5, <1>6, <2>1
  <2> QED BY <1>4, <2>1, <2>2, SeqEqual
<1>8. \A u \in Thread : Held(u)' = Held(u)
  <2> TAKE u \in Thread
  <2>1. CASE pc[u] = "data"
    <3>1. nxt[u] \in Node \ free /\ u # t
      BY <1>1, <2>1, InstalledNode
    <3> QED BY <1>1, <2>1, <3>1 DEF Held
  <2>2. CASE pc[u] # "data"
    BY <1>1, <2>2 DEF Held
  <2> QED BY Zenon, <2>1, <2>2
<1> QED BY Zenon, <1>7, <1>8, SameHeld DEF Abstract!Next, Abstract!Enqueue

LEMMA DequeueStep ==
  ASSUME IInv, IInv', NEW t \in Thread, Cas(t), tail = cmp[t]
  PROVE  Abstract!Next
<1>0. TypeOK /\ Detached
  BY Zenon DEF IInv
<1>1. /\ Len(chain) \in Nat /\ Len(chain) > 1
      /\ Len(chain') = Len(chain) - 1
      /\ \A i \in 1..(Len(chain) - 1) : chain'[i] = chain[i + 1]
      /\ nxt[t] = chain[2]
      /\ pc[t] = "cas" /\ pc'[t] = "data"
      /\ \A u \in Thread : u # t => pc'[u] = pc[u]
      /\ UNCHANGED <<data, nxt, got>>
  BY CasFacts
<1> DEFINE k == Len(chain)
<1>2. chain # <<>> /\ chain' # <<>>
  BY <1>1
<1>3. /\ Items \in Seq(Item) /\ Len(Items) = k - 1
      /\ \A i \in 1..(k - 1) : Items[i] = data[chain[i + 1]]
  BY Zenon, <1>2, ItemsType DEF ItemsOK
<1>4. /\ Items' \in Seq(Item) /\ Len(Items') = k - 2
      /\ \A i \in 1..(k - 2) : Items'[i] = data'[chain'[i + 1]]
  <2>1. (IInv /\ chain # <<>> => ItemsOK)'
    BY ItemsType, PTL
  <2>2. Len(chain') - 1 = k - 2
    BY <1>1
  <2> QED BY Zenon, <1>2, <2>1, <2>2 DEF ItemsOK
<1>5. Items # <<>> /\ Head(Items) = data[chain[2]]
  <2>1. Items # <<>> /\ 1 \in 1..(k - 1)
    BY <1>1, <1>3
  <2> QED BY <1>3, <2>1
<1>6. Items' = Tail(Items)
  <2>1. /\ Tail(Items) \in Seq(Item) /\ Len(Tail(Items)) = k - 2
        /\ \A i \in 1..(k - 2) : Tail(Items)[i] = Items[i + 1]
    BY <1>1, <1>3, <1>5
  <2>2. ASSUME NEW i \in 1..(k - 2) PROVE Items'[i] = Tail(Items)[i]
    <3>1. i + 1 \in 1..(k - 1)
      BY <1>1
    <3>2. Items'[i] = data'[chain'[i + 1]] /\ Tail(Items)[i] = Items[i + 1]
      BY <1>4, <2>1
    <3>3. chain'[i + 1] = chain[i + 1 + 1] /\ Items[i + 1] = data[chain[i + 1 + 1]]
      BY <1>1, <1>3, <3>1
    <3> QED BY Zenon, <1>1, <3>2, <3>3
  <2> QED BY Zenon, <1>4, <2>1, <2>2, SeqEqual
<1>7. /\ HeldBy[t] = NULL
      /\ HeldBy' = [HeldBy EXCEPT ![t] = Head(Items)]
  <2>1. Held(t) = NULL /\ Held(t)' = data[chain[2]]
    BY <1>1 DEF Held
  <2>2. \A u \in Thread : u # t => Held(u)' = Held(u)
    BY <1>1 DEF Held
  <2> QED BY Zenon, <1>5, <2>1, <2>2 DEF HeldBy
<1> QED BY ZenonT(40), <1>5, <1>6, <1>7 DEF Abstract!Next, Abstract!Dequeue

LEMMA ReturnStep ==
  ASSUME IInv, NEW t \in Thread, FreeTail(t)
  PROVE  Abstract!Next
<1>0. TypeOK /\ Detached
  BY Zenon DEF IInv
<1>1. /\ pc[t] = "wait" /\ pc'[t] = "idle"
      /\ \A u \in Thread : u # t => pc'[u] = pc[u] /\ got'[u] = got[u]
      /\ UNCHANGED <<data, chain, nxt>>
  BY FreeFacts
<1>2. Items' = Items
  BY <1>0, <1>1, SameItems
<1>3. Held(t) # NULL /\ Held(t)' = NULL
  BY <1>0, <1>1, NullAssumption DEF Held, Detached
<1>4. \A u \in Thread : u # t => Held(u)' = Held(u)
  BY <1>1 DEF Held
<1>5. HeldBy[t] # NULL /\ HeldBy' = [HeldBy EXCEPT ![t] = NULL]
  BY ZenonT(40), <1>3, <1>4 DEF HeldBy
<1> QED BY Zenon, <1>2, <1>5 DEF Abstract!Next, Abstract!Return

LEMMA RefinementStep ==
  ASSUME IInv, IInv', [Next]_vars
  PROVE  [Abstract!Next]_<<Items, HeldBy>>
<1>0. TypeOK /\ Shape /\ Detached
  BY Zenon DEF IInv
<1>1. ASSUME NEW t \in Thread, Link(t) PROVE UNCHANGED <<Items, HeldBy>>
  <2>1. /\ pc[t] = "link" /\ pc'[t] = "idle"
        /\ \A u \in Thread : u # t => pc'[u] = pc[u]
        /\ UNCHANGED <<data, chain, nxt, got>>
    BY <1>1, LinkFacts
  <2>2. \A u \in Thread : Held(u)' = Held(u)
    BY Zenon, <2>1 DEF Held
  <2> QED BY <1>0, <2>1, <2>2, SameItems, SameHeld
<1>2. ASSUME NEW t \in Thread, ReadStep(t) PROVE UNCHANGED <<Items, HeldBy>>
  <2>1. /\ UNCHANGED <<data, chain, got>>
        /\ pc[t] \in {"idle", "counter", "next", "cas"}
        /\ pc'[t] \in {"idle", "counter", "next", "cas"}
        /\ \A u \in Thread : u # t => pc'[u] = pc[u] /\ nxt'[u] = nxt[u]
    BY Zenon, <1>2, ReadFacts DEF queue
  <2>2. \A u \in Thread : Held(u)' = Held(u)
    BY SMTT(40), <2>1 DEF Held
  <2> QED BY Zenon, <1>0, <2>1, <2>2, SameItems, SameHeld
<1>3. ASSUME NEW t \in Thread, ReadData(t) PROVE UNCHANGED <<Items, HeldBy>>
  <2>1. /\ pc[t] = "data" /\ pc'[t] = "wait" /\ got'[t] = data[nxt[t]]
        /\ \A u \in Thread : u # t => /\ pc'[u] = pc[u] /\ nxt'[u] = nxt[u]
                                      /\ got'[u] = got[u]
        /\ \A m \in Node : m # nxt[t] => data'[m] = data[m]
        /\ chain' = chain
    BY Zenon, <1>0, <1>3 DEF ReadData, TypeOK
  <2>2. \A i \in 2..Len(chain) : data'[chain[i]] = data[chain[i]]
    <3> TAKE i \in 2..Len(chain)
    <3>1. i \in 1..Len(chain)
      BY <1>0 DEF TypeOK
    <3> QED BY <1>0, <2>1, <3>1, InstalledNode DEF Shape
  <2>3. \A u \in Thread : Held(u)' = Held(u)
    <3> TAKE u \in Thread
    <3>1. CASE u = t
      BY Zenon, <2>1, <3>1 DEF Held
    <3>2. CASE u # t /\ pc[u] = "data"
      <4>1. nxt[u] # nxt[t] /\ nxt[u] \in Node
        BY SMT, <1>0, <2>1, <3>2 DEF Detached, Installed, InstalledOnce
      <4>2. /\ pc'[u] = "data" /\ nxt'[u] = nxt[u]
            /\ data'[nxt[u]] = data[nxt[u]]
        BY Zenon, <2>1, <3>2, <4>1
      <4> QED BY Zenon, <3>2, <4>2 DEF Held
    <3>3. CASE u # t /\ pc[u] # "data"
      BY <2>1, <3>3 DEF Held
    <3> QED BY Zenon, <3>1, <3>2, <3>3
  <2> QED BY Zenon, <1>0, <2>1, <2>2, <2>3, SameItems, SameHeld
<1>4. ASSUME Destroy PROVE UNCHANGED <<Items, HeldBy>>
  <2>1. /\ Len(chain) = 1 /\ chain' = <<>>
        /\ UNCHANGED <<pc, data, nxt, got>>
    BY <1>4 DEF Destroy, pop
  <2>2. Items' = Items
    <3>1. (IF chain = <<>> THEN 0 ELSE Len(chain) - 1) = 0
      BY <2>1
    <3>2. Items = [i \in 1..0 |-> data[chain[i + 1]]]
      BY ZenonT(40), <3>1 DEF Items
    <3>3. Items' = [i \in 1..0 |-> data'[chain'[i + 1]]]
      BY <2>1 DEF Items
    <3> QED BY <3>2, <3>3
  <2>3. \A u \in Thread : Held(u)' = Held(u)
    BY Zenon, <2>1 DEF Held
  <2> QED BY <2>2, <2>3, SameHeld
<1>5. ASSUME UNCHANGED vars PROVE UNCHANGED <<Items, HeldBy>>
  <2>1. UNCHANGED <<pc, data, chain, nxt, got>>
    BY <1>5 DEF vars, queue, pop
  <2>2. \A u \in Thread : Held(u)' = Held(u)
    BY <2>1 DEF Held
  <2> QED BY Zenon, <1>0, <2>1, <2>2, SameItems, SameHeld
<1> QED
  BY Zenon, <1>1, <1>2, <1>3, <1>4, <1>5, EnqueueStep, DequeueStep, ReturnStep
     DEF Next, ReadStep

(* The run queue of a scheduler is a first-in first-out queue: every actor *)
(* pushed is popped once, in the order of the exchanges, whoever pops.     *)
THEOREM Implements == Spec => Refinement
<1>1. Init => Abstract!Init
  <2> SUFFICES ASSUME Init PROVE Abstract!Init
    BY Zenon
  <2>1. PICK stub \in Node : chain = <<stub>>
    BY Zenon DEF Init
  <2>2. Items = <<>>
    <3>1. (IF chain = <<>> THEN 0 ELSE Len(chain) - 1) = 0
      BY <2>1
    <3>2. Items = [i \in 1..0 |-> data[chain[i + 1]]]
      BY Zenon, <3>1 DEF Items
    <3> QED BY <3>2
  <2>3. HeldBy = [t \in Thread |-> NULL]
    BY DEF Init, HeldBy, Held
  <2> QED BY <2>2, <2>3 DEF Abstract!Init
<1>2. IInv /\ IInv' /\ [Next]_vars => [Abstract!Next]_<<Items, HeldBy>>
  BY RefinementStep
<1> QED BY Invariance, <1>1, <1>2, PTL DEF Spec, Refinement, Abstract!Spec
=============================================================================
