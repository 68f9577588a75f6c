--------------------------- MODULE MessageQProofs ---------------------------
(***************************************************************************)
(* Proofs about MessageQ, for any number of threads and blocks.            *)
(***************************************************************************)
EXTENDS MessageQ, TLAPS

(***************************************************************************)
(* A fact about sequences, for the list of nodes and the messages in it.   *)
(***************************************************************************)
(* Only the empty sequence has length 0: a list of nodes with no node.     *)
LEMMA EmptySeq ==
  ASSUME NEW S
  PROVE  /\ <<>> \in Seq(S)
         /\ Len(<<>>) = 0
         /\ \A s \in Seq(S) : s # <<>> => Len(s) \in Nat \ {0}
OBVIOUS

(***************************************************************************)
(* The inductive invariant.  Token says where the right to run the actor   *)
(* is; Shape says what the linked list looks like while sends are under way*)
(* and Closed what holds once nobody else can send.                        *)
(***************************************************************************)
Token ==
  /\ \A t \in Thread : phase[t] # "out" =>
       /\ ~ head.empty /\ runq = 0 /\ ~ muted
       /\ \A u \in Thread : ~ WillAdd(u) /\ (phase[u] # "out" => u = t)
  /\ \A t \in Thread : WillAdd(t) =>
       /\ ~ head.empty /\ runq = 0 /\ ~ muted
       /\ \A u \in Thread : WillAdd(u) => u = t
  /\ runq = 0 \/ (runq = 1 /\ ~ head.empty /\ ~ muted)
  /\ muted => ~ head.empty
  /\ ~ head.empty => \/ \E t \in Thread : phase[t] # "out" \/ WillAdd(t)
                     \/ runq = 1
                     \/ muted

Sending(t) == pc[t] = "link"

Shape ==
  /\ chain # <<>> => /\ chain[1] = tail
                     /\ chain[Len(chain)] = head.node
                     /\ next[head.node] = NULL
  /\ \A i \in 1..Len(chain) : chain[i] \in Node \ free
  /\ \A i, j \in 1..Len(chain) : chain[i] = chain[j] => i = j
  /\ \A i \in 1..(Len(chain) - 1) :
       \/ next[chain[i]] = chain[i + 1]
       \/ /\ next[chain[i]] = NULL
          /\ \E t \in Thread : /\ Sending(t)
                               /\ prev[t] = chain[i]
                               /\ first[t] = chain[i + 1]
  /\ \A t \in Thread : Sending(t) =>
       \E i \in 1..(Len(chain) - 1) : /\ prev[t] = chain[i]
                                      /\ first[t] = chain[i + 1]
                                      /\ next[chain[i]] = NULL
  /\ \A t, u \in Thread : Sending(t) /\ Sending(u) /\ prev[t] = prev[u] => t = u

Closed ==
  /\ \A t \in Thread : pc[t] # "none" => phase[t] \in {"out", "handle"}
  /\ ~ refs => \A t \in Thread : pc[t] # "none" => phase[t] = "handle"
  /\ chain = <<>> => head.empty /\ ~ refs

IInv == TypeOK /\ Token /\ Shape /\ Closed

-----------------------------------------------------------------------------
RunType ==
  /\ phase \in [Thread -> Phases]
  /\ stop \in [Thread -> NodeOrNull]
  /\ app \in [Thread -> 0..Batch]

(* The end of a run, in whichever way, keeps the types of its locals.      *)
LEMMA LeaveType ==
  ASSUME TypeOK, NEW t \in Thread, Leave(t)
  PROVE  RunType'
BY BatchAssumption DEF TypeOK, Leave, RunType, NodeOrNull, Phases

(* So does a run that returned true: the actor is queued or run again.     *)
LEMMA RescheduleType ==
  ASSUME TypeOK, NEW t \in Thread, Reschedule(t)
  PROVE  RunType' /\ runq' \in Nat
<1>1. CASE runq' = runq + 1 /\ Leave(t)
  BY <1>1, LeaveType DEF TypeOK
<1>2. CASE /\ phase' = [phase EXCEPT ![t] = "start"]
           /\ stop' = [stop EXCEPT ![t] = NULL]
           /\ app' = [app EXCEPT ![t] = 0]
           /\ UNCHANGED runq
  BY <1>2, BatchAssumption DEF TypeOK, RunType, NodeOrNull, Phases
<1> QED BY <1>1, <1>2 DEF Reschedule

(* While a thread runs the actor, its queue exists.                        *)
LEMMA RunningQueue ==
  ASSUME IInv, NEW t \in Thread, phase[t] # "out"
  PROVE  chain # <<>> /\ tail \in Node \ free /\ tail = chain[1]
BY DEF IInv, TypeOK, Token, Closed, Shape

(* The type of the state is preserved by every step of the threads.        *)
LEMMA TypeStep ==
  ASSUME IInv, [Next]_vars
  PROVE  TypeOK'
<1> USE NullAssumption, BatchAssumption DEF NodeOrNull, Phases
<1>0. TypeOK
  BY Zenon DEF IInv
<1>1. ASSUME NEW t \in Thread, Exchange(t) PROVE TypeOK'
  <2>1. PICK f \in free, l \in free : Push(t, f, l)
    BY <1>1 DEF Exchange
  <2>2. chain' \in Seq(Node)
    BY <1>0, <2>1 DEF Push, TypeOK
  <2> QED
    BY Zenon, <1>0, <2>1, <2>2 DEF Push, run, TypeOK
<1>2. ASSUME NEW t \in Thread, Link(t) PROVE TypeOK'
  BY Zenon, <1>0, <1>2 DEF Link, run, TypeOK
<1>3. ASSUME NEW t \in Thread, SchedAdd(t) PROVE TypeOK'
  BY <1>0, <1>3 DEF SchedAdd, run, queue, TypeOK
<1>4. ASSUME NEW t \in Thread, Take(t) PROVE TypeOK'
  BY <1>0, <1>4 DEF Take, send, queue, TypeOK
<1>5. ASSUME NEW t \in Thread, Start(t) PROVE TypeOK'
  BY <1>0, <1>5 DEF Start, send, queue, TypeOK
<1>6. ASSUME NEW t \in Thread, Pop(t) PROVE TypeOK'
  <2>1. CASE next[tail] = NULL
    BY Zenon, <1>0, <1>6, <2>1 DEF Pop, send, queue, TypeOK
  <2>2. CASE next[tail] # NULL
    <3>1. chain # <<>> /\ tail \in Node
      BY <1>6, RunningQueue DEF Pop
    <3>2. chain' = Tail(chain)
      BY Zenon, <1>6, <2>2 DEF Pop
    <3>3. chain' \in Seq(Node)
      BY <1>0, <3>1, <3>2 DEF TypeOK
    <3>4. tail' \in NodeOrNull /\ free' \in SUBSET Node
      BY <1>0, <1>6, <2>2, <3>1 DEF Pop, TypeOK
    <3>5. next' \in [Node -> NodeOrNull] /\ phase' \in [Thread -> Phases]
      BY ZenonT(40), <1>0, <1>6, <2>2 DEF Pop, TypeOK
    <3> QED
      BY <1>0, <1>6, <2>2, <3>3, <3>4, <3>5 DEF Pop, send, TypeOK
  <2> QED BY <2>1, <2>2
<1>7. ASSUME NEW t \in Thread, HandledSystem(t) PROVE TypeOK'
  BY Zenon, <1>0, <1>7 DEF HandledSystem, NextMessage, send, queue, TypeOK
<1>8. ASSUME NEW t \in Thread, HandledApp(t) PROVE TypeOK'
  <2>1. muted' \in BOOLEAN
    BY <1>0, <1>8, Zenon DEF HandledApp, TypeOK
  <2>2. CASE Leave(t) /\ UNCHANGED runq
    BY Zenon, <1>0, <1>8, <2>1, <2>2, LeaveType DEF HandledApp, RunType, send, queue, TypeOK
  <2>3. CASE Reschedule(t)
    BY Zenon, <1>0, <1>8, <2>1, <2>3, RescheduleType DEF HandledApp, RunType, send, queue, TypeOK
  <2>4. CASE /\ app[t] + 1 < Batch /\ app' = [app EXCEPT ![t] = @ + 1]
             /\ NextMessage(t) /\ UNCHANGED <<runq, stop>>
    BY <1>0, <1>8, <2>1, <2>4 DEF HandledApp, NextMessage, send, queue, TypeOK
  <2> QED BY <1>8, <2>2, <2>3, <2>4 DEF HandledApp
<1>9. ASSUME NEW t \in Thread, Finish(t) PROVE TypeOK'
  <2>1. CASE Reschedule(t)
    BY Zenon, <1>0, <1>9, <2>1, RescheduleType DEF Finish, RunType, send, queue, TypeOK
  <2>2. CASE phase' = [phase EXCEPT ![t] = "mark"] /\ UNCHANGED <<runq, stop, app>>
    BY <1>0, <1>9, <2>2 DEF Finish, send, queue, TypeOK
  <2> QED BY Zenon, <1>9, <2>1, <2>2 DEF Finish
<1>10. ASSUME NEW t \in Thread, Destroy(t) PROVE TypeOK'
  <2>1. tail \in Node
    BY Zenon, <1>10, RunningQueue DEF Destroy
  <2> QED BY <1>0, <1>10, <2>1, LeaveType DEF Destroy, RunType, send, TypeOK
<1>11. ASSUME NEW t \in Thread, MarkEmptyLoad(t) PROVE TypeOK'
  <2>1. CASE Leave(t) /\ UNCHANGED runq
    BY <1>0, <1>11, <2>1, LeaveType DEF MarkEmptyLoad, RunType, send, queue, TypeOK
  <2>2. CASE Reschedule(t)
    BY Zenon, <1>0, <1>11, <2>2, RescheduleType DEF MarkEmptyLoad, RunType, send, queue, TypeOK
  <2>3. CASE phase' = [phase EXCEPT ![t] = "cas"] /\ UNCHANGED <<runq, stop, app>>
    BY <1>0, <1>11, <2>3 DEF MarkEmptyLoad, send, queue, TypeOK
  <2> QED BY <1>11, <2>1, <2>2, <2>3 DEF MarkEmptyLoad
<1>12. ASSUME NEW t \in Thread, MarkEmptyCas(t) PROVE TypeOK'
  <2>1. CASE Leave(t) /\ UNCHANGED runq
    BY ZenonT(40), <1>0, <1>12, <2>1, LeaveType DEF MarkEmptyCas, RunType, send, TypeOK
  <2>2. CASE Reschedule(t)
    BY ZenonT(40), <1>0, <1>12, <2>2, RescheduleType DEF MarkEmptyCas, RunType, send, TypeOK
  <2> QED BY <1>12, <2>1, <2>2 DEF MarkEmptyCas
<1>13. ASSUME Unmute PROVE TypeOK'
  <2>1. muted' \in BOOLEAN
    BY <1>13, Zenon DEF Unmute
  <2> QED BY <1>0, <1>13, <2>1 DEF Unmute, send, queue, run, TypeOK
<1>14. ASSUME UNCHANGED vars PROVE TypeOK'
  BY <1>0, <1>14 DEF vars, send, queue, run, TypeOK
<1> QED
  BY <1>1, <1>2, <1>3, <1>4, <1>5, <1>6, <1>7, <1>8, <1>9, <1>10, <1>11,
     <1>12, <1>13, <1>14 DEF Next

-----------------------------------------------------------------------------
(* A run that returned true passes the right on to a run queue, or keeps   *)
(* it; everything else about the right to run is as it was.                *)
LEMMA RescheduleToken ==
  ASSUME IInv, NEW t \in Thread, phase[t] # "out", Reschedule(t),
         UNCHANGED <<head, muted, send>>
  PROVE  Token'
<1>1. CASE runq' = runq + 1 /\ Leave(t)
  BY <1>1 DEF IInv, TypeOK, Token, Leave, send, WillAdd
<1>2. CASE /\ phase' = [phase EXCEPT ![t] = "start"]
           /\ UNCHANGED runq
  BY <1>2 DEF IInv, TypeOK, Token, send, WillAdd
<1> QED BY Zenon, <1>1, <1>2 DEF Reschedule

(* A thread that goes on running keeps the right.                          *)
LEMMA RunningToken ==
  ASSUME IInv, NEW t \in Thread, phase[t] # "out",
         NEW p \in Phases \ {"out"}, phase' = [phase EXCEPT ![t] = p],
         UNCHANGED <<head, muted, runq, send>>
  PROVE  Token'
BY DEF IInv, TypeOK, Token, send, WillAdd

(* Every step hands the right to run the actor from one place to one other.*)
LEMMA TokenStep ==
  ASSUME IInv, [Next]_vars
  PROVE  Token'
<1>0. TypeOK /\ Token
  BY DEF IInv
<1>1. ASSUME NEW t \in Thread, Exchange(t) PROVE Token'
  <2>1. PICK f \in free, l \in free : Push(t, f, l)
    BY Zenon, <1>1 DEF Exchange
  <2>2. CASE head.empty
    BY <1>0, <1>1, <2>1, <2>2 DEF Exchange, MaySend, Push, run, TypeOK, Token, WillAdd
  <2>3. CASE ~ head.empty
    BY <1>0, <1>1, <2>1, <2>3 DEF Exchange, MaySend, Push, run, TypeOK, Token, WillAdd
  <2> QED BY <2>2, <2>3
<1>2. ASSUME NEW t \in Thread, Link(t) PROVE Token'
  BY <1>0, <1>2 DEF Link, run, TypeOK, Token, WillAdd
<1>3. ASSUME NEW t \in Thread, SchedAdd(t) PROVE Token'
  BY <1>0, <1>3 DEF SchedAdd, run, queue, TypeOK, Token, WillAdd
<1>4. ASSUME NEW t \in Thread, Take(t) PROVE Token'
  BY <1>0, <1>4 DEF Take, send, queue, TypeOK, Token, WillAdd
<1>5. ASSUME NEW t \in Thread, Start(t) PROVE Token'
  BY Zenon, <1>5, RunningToken DEF Start, queue, Phases
<1>6. ASSUME NEW t \in Thread, Pop(t) PROVE Token'
  BY Zenon, <1>6, RunningToken DEF Pop, queue, Phases
<1>7. ASSUME NEW t \in Thread, HandledSystem(t) PROVE Token'
  BY Zenon, <1>7, RunningToken DEF HandledSystem, NextMessage, queue, Phases
<1>8. ASSUME NEW t \in Thread, HandledApp(t) PROVE Token'
  <2>1. CASE muted' = TRUE /\ Leave(t) /\ UNCHANGED runq
    BY Zenon, <1>0, <1>8, <2>1 DEF HandledApp, Leave, send, queue, TypeOK, Token, WillAdd
  <2>2. CASE Reschedule(t) /\ UNCHANGED muted
    BY <1>8, <2>2, RescheduleToken DEF HandledApp, queue
  <2>3. CASE NextMessage(t) /\ UNCHANGED <<runq, muted>>
    BY Zenon, <1>8, <2>3, RunningToken DEF HandledApp, NextMessage, queue, Phases
  <2> QED BY Zenon, <1>8, <2>1, <2>2, <2>3 DEF HandledApp
<1>9. ASSUME NEW t \in Thread, Finish(t) PROVE Token'
  <2>1. CASE Reschedule(t)
    BY <1>9, <2>1, RescheduleToken DEF Finish, queue
  <2>2. CASE phase' = [phase EXCEPT ![t] = "mark"] /\ UNCHANGED runq
    BY Zenon, <1>9, <2>2, RunningToken DEF Finish, queue, Phases
  <2> QED BY <1>9, <2>1, <2>2 DEF Finish
<1>10. ASSUME NEW t \in Thread, Destroy(t) PROVE Token'
  BY ZenonT(40), <1>0, <1>10 DEF Destroy, Leave, send, TypeOK, Token, WillAdd
<1>11. ASSUME NEW t \in Thread, MarkEmptyLoad(t) PROVE Token'
  <2>1. ~ head.empty
    BY <1>0, <1>11 DEF Token, MarkEmptyLoad
  <2>2. CASE Reschedule(t)
    BY <1>11, <2>2, RescheduleToken DEF MarkEmptyLoad, queue
  <2>3. CASE phase' = [phase EXCEPT ![t] = "cas"] /\ UNCHANGED runq
    BY Zenon, <1>11, <2>3, RunningToken DEF MarkEmptyLoad, queue, Phases
  <2> QED BY <1>11, <2>1, <2>2, <2>3 DEF MarkEmptyLoad
<1>12. ASSUME NEW t \in Thread, MarkEmptyCas(t) PROVE Token'
  <2>1. CASE head' = [head EXCEPT !.empty = TRUE] /\ Leave(t) /\ UNCHANGED runq
    BY <1>0, <1>12, <2>1 DEF MarkEmptyCas, Leave, send, TypeOK, Token, WillAdd
  <2>2. CASE Reschedule(t) /\ UNCHANGED head
    BY <1>12, <2>2, RescheduleToken DEF MarkEmptyCas
  <2> QED BY <1>12, <2>1, <2>2 DEF MarkEmptyCas
<1>13. ASSUME Unmute PROVE Token'
  BY <1>0, <1>13 DEF Unmute, send, queue, run, TypeOK, Token, WillAdd
<1>14. ASSUME UNCHANGED vars PROVE Token'
  BY <1>0, <1>14 DEF vars, send, queue, run, Token, WillAdd
<1> QED
  BY Zenon, <1>1, <1>2, <1>3, <1>4, <1>5, <1>6, <1>7, <1>8, <1>9, <1>10, <1>11,
     <1>12, <1>13, <1>14 DEF Next

-----------------------------------------------------------------------------
(* A step that changes neither the list nor the set of pending links keeps *)
(* the shape of the list.                                                  *)
LEMMA ShapeFrame ==
  ASSUME Shape, head'.node = head.node,
         UNCHANGED <<tail, next, free, chain, first, prev>>,
         \A t \in Thread : Sending(t)' = Sending(t)
  PROVE  Shape'
BY DEF Shape

(* A push appends its blocks to the list, with one more link to store.     *)
LEMMA ShapePush ==
  ASSUME IInv, NEW t \in Thread, MaySend(t),
         NEW f \in free, NEW l \in free, Push(t, f, l)
  PROVE  Shape'
<1> DEFINE n == Len(chain)
<1>0. TypeOK /\ Shape
  BY DEF IInv
<1>1. chain # <<>> /\ n \in Nat \ {0}
  <2>1. chain # <<>>
    BY Zenon, RunningQueue DEF MaySend, IInv, Closed
  <2> QED BY <1>0, <2>1 DEF TypeOK
<1>2. /\ Len(chain') = IF f = l THEN n + 1 ELSE n + 2
      /\ \A i \in 1..n : chain'[i] = chain[i]
      /\ chain'[n + 1] = f
      /\ f # l => chain'[n + 2] = l
  <2>1. CASE f = l
    <3>1. chain' = chain \o <<l>>
      BY Zenon, <2>1 DEF Push
    <3> QED BY <1>0, <1>1, <2>1, <3>1 DEF TypeOK
  <2>2. CASE f # l
    <3>1. chain' = chain \o <<f, l>>
      BY Zenon, <2>2 DEF Push
    <3> QED BY <1>0, <1>1, <2>2, <3>1 DEF TypeOK
  <2> QED BY Zenon, <2>1, <2>2
<1>3. /\ next' \in [Node -> NodeOrNull]
      /\ next'[l] = NULL
      /\ f # l => next'[f] = l
      /\ \A m \in Node \ free : next'[m] = next[m]
  BY Zenon, <1>0 DEF Push, TypeOK, NodeOrNull
<1>4. /\ head'.node = l /\ tail' = tail /\ free' = free \ {f, l}
      /\ pc' = [pc EXCEPT ![t] = "link"]
      /\ first' = [first EXCEPT ![t] = f]
      /\ prev' = [prev EXCEPT ![t] = chain[n]]
  BY Zenon, <1>0, <1>1 DEF Push, Shape
<1>5. \A i \in 1..n : chain[i] \in Node \ free /\ chain[i] # f /\ chain[i] # l
  BY <1>0 DEF Shape
<1>6. f \in Node /\ l \in Node
  BY Zenon, <1>0 DEF TypeOK
<1>7. chain' # <<>> => /\ chain'[1] = tail'
                       /\ chain'[Len(chain')] = head'.node
                       /\ next'[head'.node] = NULL
  BY <1>0, <1>1, <1>2, <1>3, <1>4 DEF Shape
<1>8. \A i \in 1..Len(chain') : chain'[i] \in Node \ free'
  BY <1>1, <1>2, <1>4, <1>5, <1>6
<1>9. \A i, j \in 1..Len(chain') : chain'[i] = chain'[j] => i = j
  <2>1. \A i, j \in 1..n : chain[i] = chain[j] => i = j
    BY Zenon, <1>0 DEF Shape
  <2> QED BY <1>1, <1>2, <1>5, <2>1
<1>10. \A u \in Thread : /\ u # t => /\ Sending(u)' = Sending(u)
                                      /\ prev'[u] = prev[u]
                                      /\ first'[u] = first[u]
                         /\ Sending(t)' /\ ~ Sending(t)
                         /\ prev'[t] = chain[n] /\ first'[t] = f
  BY <1>0, <1>4 DEF TypeOK, Sending, MaySend
<1>11. \A i \in 1..(Len(chain') - 1) :
         \/ next'[chain'[i]] = chain'[i + 1]
         \/ /\ next'[chain'[i]] = NULL
            /\ \E u \in Thread : /\ Sending(u)'
                                 /\ prev'[u] = chain'[i]
                                 /\ first'[u] = chain'[i + 1]
  <2> TAKE i \in 1..(Len(chain') - 1)
  <2>1. CASE i < n
    <3>1. i \in 1..n /\ i + 1 \in 1..n /\ i \in 1..(n - 1)
      BY <1>1, <2>1
    <3>2. chain'[i] = chain[i] /\ chain'[i + 1] = chain[i + 1]
      BY Zenon, <1>2, <3>1
    <3>3. next'[chain'[i]] = next[chain[i]]
      BY Zenon, <1>3, <1>5, <3>1, <3>2
    <3>4. CASE next[chain[i]] = chain[i + 1]
      BY <3>2, <3>3, <3>4
    <3>5. CASE next[chain[i]] # chain[i + 1]
      <4>1. next[chain[i]] = NULL
        BY <1>0, <3>1, <3>5 DEF Shape
      <4>2. PICK u \in Thread : Sending(u) /\ prev[u] = chain[i]
                                /\ first[u] = chain[i + 1]
        BY <1>0, <3>1, <3>5 DEF Shape
      <4> QED BY <1>10, <3>2, <3>3, <4>1, <4>2
    <3> QED BY <3>4, <3>5
  <2>2. CASE i = n
    <3>1. chain'[i] = chain[n] /\ chain'[i + 1] = f
      BY <1>1, <1>2, <2>2
    <3>2. next'[chain[n]] = NULL
      BY <1>0, <1>1, <1>3, <1>5 DEF Shape
    <3> QED BY <1>10, <3>1, <3>2
  <2>3. CASE i > n
    BY <1>1, <1>2, <1>3, <2>3
  <2> QED BY <1>1, <2>1, <2>2, <2>3
<1>12. \A u \in Thread : Sending(u)' =>
         \E i \in 1..(Len(chain') - 1) : /\ prev'[u] = chain'[i]
                                         /\ first'[u] = chain'[i + 1]
                                         /\ next'[chain'[i]] = NULL
  <2> TAKE u \in Thread
  <2> HAVE Sending(u)'
  <2>1. CASE u = t
    <3>1. n \in 1..(Len(chain') - 1) /\ n \in 1..n
      BY <1>1, <1>2
    <3>2. chain'[n] = chain[n] /\ chain'[n + 1] = f /\ next'[chain[n]] = NULL
      BY <1>0, <1>1, <1>2, <1>3, <1>5, <3>1 DEF Shape
    <3> QED BY <1>10, <2>1, <3>1, <3>2
  <2>2. CASE u # t
    <3>1. PICK i \in 1..(n - 1) : /\ prev[u] = chain[i]
                                  /\ first[u] = chain[i + 1]
                                  /\ next[chain[i]] = NULL
      BY <1>0, <1>10, <2>2 DEF Shape
    <3>2. i \in 1..(Len(chain') - 1) /\ i \in 1..n /\ i + 1 \in 1..n
      BY <1>1, <1>2
    <3>3. chain'[i] = chain[i] /\ chain'[i + 1] = chain[i + 1]
      BY Zenon, <1>2, <3>2
    <3>4. next'[chain'[i]] = NULL
      BY <1>3, <1>5, <3>1, <3>2, <3>3
    <3> QED BY Zenon, <1>10, <2>2, <3>1, <3>2, <3>3, <3>4
  <2> QED BY Zenon, <2>1, <2>2
<1>13. \A u, v \in Thread :
         Sending(u)' /\ Sending(v)' /\ prev'[u] = prev'[v] => u = v
  <2>1. \A u \in Thread : Sending(u) => prev[u] # chain[n]
    BY <1>0, <1>1 DEF Shape
  <2> QED BY <1>0, <1>10, <2>1 DEF Shape
<1> HIDE DEF n
<1> QED
  BY Zenon, <1>7, <1>8, <1>9, <1>11, <1>12, <1>13 DEF Shape

(* A sender stores the one link that it owes.                              *)
LEMMA ShapeLink ==
  ASSUME IInv, NEW t \in Thread, Link(t)
  PROVE  Shape'
<1>0. TypeOK /\ Shape
  BY Zenon DEF IInv
<1>1. PICK k \in 1..(Len(chain) - 1) : /\ prev[t] = chain[k]
                                       /\ first[t] = chain[k + 1]
                                       /\ next[chain[k]] = NULL
  BY Zenon, <1>0 DEF Shape, Link, Sending
<1>2. /\ Len(chain) \in Nat /\ k \in 1..Len(chain) /\ k + 1 \in 1..Len(chain)
      /\ chain[k] \in Node /\ chain[k + 1] \in Node
      /\ chain[k] # head.node
  BY <1>0, <1>1 DEF TypeOK, Shape
<1>3. /\ next'[chain[k]] = chain[k + 1]
      /\ \A m \in Node : m # chain[k] => next'[m] = next[m]
      /\ UNCHANGED <<head, tail, free, chain>>
  BY Zenon, <1>0, <1>1, <1>2 DEF Link, TypeOK
<1>4. \A u \in Thread : u # t => /\ Sending(u)' = Sending(u)
                               /\ prev'[u] = prev[u] /\ first'[u] = first[u]
  BY <1>0 DEF Link, TypeOK, Sending
<1>5. ~ Sending(t)' /\ Sending(t)
  BY Zenon, <1>0 DEF Link, TypeOK, Sending
<1>6. chain # <<>> => next'[head.node] = NULL
  BY <1>0, <1>2, <1>3 DEF Shape, TypeOK
<1>7. \A i \in 1..(Len(chain) - 1) :
         \/ next'[chain[i]] = chain[i + 1]
         \/ /\ next'[chain[i]] = NULL
            /\ \E u \in Thread : /\ Sending(u)'
                                 /\ prev'[u] = chain[i]
                                 /\ first'[u] = chain[i + 1]
  <2> TAKE i \in 1..(Len(chain) - 1)
  <2>1. CASE i = k
    BY Zenon, <1>3, <2>1
  <2>2. CASE i # k
    <3>1. chain[i] \in Node /\ chain[i] # chain[k]
      BY <1>0, <1>2, <2>2 DEF Shape
    <3>2. next'[chain[i]] = next[chain[i]]
      BY Zenon, <1>3, <3>1
    <3>3. CASE next[chain[i]] # chain[i + 1]
      <4>1. PICK u \in Thread : Sending(u) /\ prev[u] = chain[i]
                                /\ first[u] = chain[i + 1]
        BY ZenonT(40), <1>0, <3>3 DEF Shape
      <4>2. u # t
        BY <1>1, <3>1, <4>1
      <4>3. next[chain[i]] = NULL
        BY Zenon, <1>0, <3>3 DEF Shape
      <4> QED BY <1>4, <3>2, <4>1, <4>2, <4>3
    <3> QED BY Zenon, <3>2, <3>3
  <2> QED BY Zenon, <2>1, <2>2
<1>8. \A u \in Thread : Sending(u)' =>
         \E i \in 1..(Len(chain) - 1) : /\ prev'[u] = chain[i]
                                        /\ first'[u] = chain[i + 1]
                                        /\ next'[chain[i]] = NULL
  <2> TAKE u \in Thread
  <2> HAVE Sending(u)'
  <2>1. u # t /\ Sending(u)
    BY <1>4, <1>5
  <2>2. PICK i \in 1..(Len(chain) - 1) : /\ prev[u] = chain[i]
                                         /\ first[u] = chain[i + 1]
                                         /\ next[chain[i]] = NULL
    BY <1>0, <2>1 DEF Shape
  <2>3. prev[u] # prev[t]
    BY <1>0, <1>5, <2>1 DEF Shape
  <2>4. chain[i] \in Node /\ chain[i] # chain[k]
    BY <1>0, <1>1, <2>2, <2>3 DEF Shape
  <2> QED BY Zenon, <1>3, <1>4, <2>1, <2>2, <2>4
<1>9. \A u, v \in Thread :
         Sending(u)' /\ Sending(v)' /\ prev'[u] = prev'[v] => u = v
  BY <1>0, <1>4, <1>5 DEF Shape
<1> QED
  BY <1>0, <1>3, <1>6, <1>7, <1>8, <1>9 DEF Shape

(* A pop drops the old tail, whose link was stored, from the list.         *)
LEMMA ShapePop ==
  ASSUME IInv, NEW t \in Thread, Pop(t), next[tail] # NULL
  PROVE  Shape' /\ chain' = Tail(chain) /\ chain' # <<>>
<1> DEFINE n == Len(chain)
<1>0. TypeOK /\ Shape
  BY DEF IInv
<1>1. chain # <<>> /\ tail = chain[1] /\ tail \in Node
  BY RunningQueue DEF Pop
<1>2. n \in Nat /\ n > 1
  BY <1>0, <1>1, EmptySeq DEF TypeOK, Shape
<1>3. /\ chain' = Tail(chain)
      /\ free' = free \cup {tail} /\ tail' = next[tail]
      /\ next' = [next EXCEPT ![tail] = NULL]
      /\ UNCHANGED <<head, pc, prev, first>>
  BY Zenon DEF Pop, send
<1>4. /\ Len(chain') = n - 1
      /\ \A i \in 1..(n - 1) : chain'[i] = chain[i + 1]
  BY <1>0, <1>1, <1>3 DEF TypeOK
<1>5. chain' # <<>>
  BY <1>2, <1>4
<1>6. \A i \in 2..n : chain[i] \in Node /\ chain[i] # tail
                        /\ next'[chain[i]] = next[chain[i]]
  <2> TAKE i \in 2..n
  <2>1. i \in 1..n /\ 1 \in 1..n
    BY <1>2
  <2>2. chain[i] \in Node /\ chain[i] # tail
    BY <1>0, <1>1, <2>1 DEF Shape
  <2> QED BY Zenon, <1>0, <1>1, <1>3, <2>2 DEF TypeOK
<1>7. next[tail] = chain[2]
  <2>1. 1 \in 1..(n - 1)
    BY <1>2
  <2> QED BY <1>0, <1>1, <2>1 DEF Shape
<1>8. \A u \in Thread : Sending(u) => prev[u] # tail
  BY <1>0 DEF Shape
<1>9. /\ chain'[1] = tail'
      /\ chain'[Len(chain')] = head'.node
      /\ next'[head'.node] = NULL
  <2>1. 1 \in 1..(n - 1) /\ n - 1 \in 1..(n - 1) /\ n \in 2..n
    BY <1>2
  <2>2. chain'[1] = chain[2] /\ chain'[n - 1] = chain[n]
    BY <1>2, <1>4, <2>1
  <2> QED BY <1>0, <1>1, <1>3, <1>4, <1>6, <1>7, <2>1, <2>2 DEF Shape
<1>10. \A i \in 1..Len(chain') : chain'[i] \in Node \ free'
  BY <1>0, <1>2, <1>3, <1>4, <1>6 DEF Shape
<1>11. \A i, j \in 1..Len(chain') : chain'[i] = chain'[j] => i = j
  <2> TAKE i, j \in 1..Len(chain')
  <2>1. /\ i \in 1..(n - 1) /\ j \in 1..(n - 1)
        /\ i + 1 \in 1..n /\ j + 1 \in 1..n
    BY <1>2, <1>4
  <2>2. chain'[i] = chain[i + 1] /\ chain'[j] = chain[j + 1]
    BY Zenon, <1>4, <2>1
  <2>3. chain[i + 1] = chain[j + 1] => i + 1 = j + 1
    BY Zenon, <1>0, <2>1 DEF Shape
  <2> QED BY <2>1, <2>2, <2>3
<1>12. \A i \in 1..(Len(chain') - 1) :
         \/ next'[chain'[i]] = chain'[i + 1]
         \/ /\ next'[chain'[i]] = NULL
            /\ \E u \in Thread : /\ Sending(u)'
                                 /\ prev'[u] = chain'[i]
                                 /\ first'[u] = chain'[i + 1]
  <2> TAKE i \in 1..(Len(chain') - 1)
  <2>1. i + 1 \in 1..(n - 1) /\ i \in 1..(n - 1) /\ i + 1 \in 2..n
    BY <1>2, <1>4
  <2>2. chain'[i] = chain[i + 1] /\ chain'[i + 1] = chain[i + 1 + 1]
    BY Zenon, <1>4, <2>1
  <2>3. next'[chain'[i]] = next[chain[i + 1]]
    BY Zenon, <1>6, <2>1, <2>2
  <2> DEFINE k == i + 1
  <2>4. \/ next[chain[k]] = chain[k + 1]
        \/ /\ next[chain[k]] = NULL
           /\ \E u \in Thread : /\ Sending(u)
                                /\ prev[u] = chain[k]
                                /\ first[u] = chain[k + 1]
    BY SMTT(40), <1>0, <2>1 DEF Shape
  <2> QED BY <1>3, <2>2, <2>3, <2>4 DEF Sending
<1>13. \A u \in Thread : Sending(u)' =>
         \E i \in 1..(Len(chain') - 1) : /\ prev'[u] = chain'[i]
                                         /\ first'[u] = chain'[i + 1]
                                         /\ next'[chain'[i]] = NULL
  <2> TAKE u \in Thread
  <2> HAVE Sending(u)'
  <2>1. Sending(u)
    BY Zenon, <1>3 DEF Sending
  <2>2. PICK k \in 1..(n - 1) : /\ prev[u] = chain[k]
                                /\ first[u] = chain[k + 1]
                                /\ next[chain[k]] = NULL
    BY Zenon, <1>0, <2>1 DEF Shape
  <2>3. k # 1
    BY <1>1, <1>8, <2>1, <2>2
  <2> DEFINE i == k - 1
  <2>4. /\ i \in 1..(n - 1) /\ i + 1 \in 1..(n - 1) /\ k \in 2..n
        /\ i \in 1..(Len(chain') - 1) /\ i + 1 = k
    BY <1>2, <1>4, <2>2, <2>3
  <2>5. chain'[i] = chain[k] /\ chain'[i + 1] = chain[k + 1]
    BY Zenon, <1>4, <2>4
  <2>6. next'[chain'[i]] = NULL
    BY Zenon, <1>6, <2>2, <2>4, <2>5
  <2> QED BY Zenon, <1>3, <2>2, <2>4, <2>5, <2>6
<1>14. \A u, v \in Thread :
         Sending(u)' /\ Sending(v)' /\ prev'[u] = prev'[v] => u = v
  BY <1>0, <1>3 DEF Shape, Sending
<1> HIDE DEF n
<1> QED
  BY ZenonT(40), <1>3, <1>5, <1>9, <1>10, <1>11, <1>12, <1>13, <1>14 DEF Shape

(* Every step of the threads keeps the shape of the list.                  *)
LEMMA ShapeStep ==
  ASSUME IInv, [Next]_vars
  PROVE  Shape'
<1>0. TypeOK /\ Shape /\ Closed
  BY DEF IInv
<1>1. ASSUME NEW t \in Thread, Exchange(t) PROVE Shape'
  BY <1>1, ShapePush DEF Exchange
<1>2. ASSUME NEW t \in Thread, Link(t) PROVE Shape'
  BY <1>2, ShapeLink
<1>3. ASSUME NEW t \in Thread, SchedAdd(t) PROVE Shape'
  <2>1. \A u \in Thread : Sending(u)' = Sending(u)
    BY <1>0, <1>3 DEF SchedAdd, Sending, TypeOK
  <2> QED BY <1>0, <1>3, <2>1, ShapeFrame DEF SchedAdd, queue
<1>4. ASSUME UNCHANGED <<queue, send>> PROVE Shape'
  <2>1. \A u \in Thread : Sending(u)' = Sending(u)
    BY <1>4 DEF Sending, send
  <2> QED BY Zenon, <1>0, <1>4, <2>1, ShapeFrame DEF queue, send
<1>5. ASSUME NEW t \in Thread, Pop(t) PROVE Shape'
  <2>1. CASE next[tail] = NULL
    BY <1>4, <1>5, <2>1 DEF Pop
  <2>2. CASE next[tail] # NULL
    BY <1>5, <2>2, ShapePop
  <2> QED BY <2>1, <2>2
<1>6. ASSUME NEW t \in Thread, Destroy(t) PROVE Shape'
  <2>1. \A u \in Thread : ~ Sending(u)
    BY <1>0, <1>6 DEF IInv, Closed, Token, Destroy, Sending
  <2>2. chain' = <<>> /\ pc' = pc
    BY Zenon, <1>6 DEF Destroy, send
  <2> QED BY <2>1, <2>2 DEF Shape, Sending
<1>7. ASSUME NEW t \in Thread, MarkEmptyCas(t) PROVE Shape'
  <2>1. \A u \in Thread : Sending(u)' = Sending(u)
    BY Zenon, <1>7 DEF MarkEmptyCas, Sending, send
  <2>2. head'.node = head.node
    BY <1>0, <1>7 DEF MarkEmptyCas, TypeOK
  <2> QED BY Zenon, <1>0, <1>7, <2>1, <2>2, ShapeFrame DEF MarkEmptyCas, send
<1>8. ASSUME NEW t \in Thread,
             \/ Take(t) \/ Start(t) \/ HandledSystem(t) \/ HandledApp(t)
             \/ Finish(t) \/ MarkEmptyLoad(t)
      PROVE  Shape'
  BY ZenonT(40), <1>4, <1>8 DEF Take, Start, HandledSystem, HandledApp, Finish, MarkEmptyLoad
<1>9. ASSUME Unmute \/ UNCHANGED vars PROVE Shape'
  BY Zenon, <1>4, <1>9 DEF Unmute, vars
<1> QED
  BY <1>1, <1>2, <1>3, <1>5, <1>6, <1>7, <1>8, <1>9 DEF Next

-----------------------------------------------------------------------------
(* Once nobody else can send, only the actor's own behaviours do.          *)
LEMMA ClosedStep ==
  ASSUME IInv, [Next]_vars
  PROVE  Closed'
<1>0. TypeOK /\ Token /\ Closed
  BY Zenon DEF IInv
<1>1. ASSUME NEW t \in Thread, Exchange(t) PROVE Closed'
  <2>1. PICK f \in free, l \in free : Push(t, f, l)
    BY Zenon, <1>1 DEF Exchange
  <2>2. chain' # <<>>
    BY <1>0, <2>1 DEF Push, TypeOK
  <2> QED
    BY <1>0, <1>1, <2>1, <2>2 DEF Exchange, MaySend, Push, run, TypeOK, Closed
<1>2. ASSUME NEW t \in Thread, Link(t) PROVE Closed'
  BY <1>0, <1>2 DEF Link, run, TypeOK, Closed
<1>3. ASSUME NEW t \in Thread, SchedAdd(t) PROVE Closed'
  BY <1>0, <1>3 DEF SchedAdd, run, queue, TypeOK, Closed
<1>4. ASSUME NEW t \in Thread, Take(t) PROVE Closed'
  BY <1>0, <1>4 DEF Take, send, queue, TypeOK, Closed
<1>5. ASSUME NEW t \in Thread, Start(t) PROVE Closed'
  BY <1>0, <1>5 DEF Start, send, queue, TypeOK, Closed
<1>6. ASSUME NEW t \in Thread, Pop(t) PROVE Closed'
  <2>1. CASE next[tail] = NULL
    BY Zenon, <1>0, <1>6, <2>1 DEF Pop, send, queue, TypeOK, Closed
  <2>2. CASE next[tail] # NULL
    <3>1. chain' # <<>>
      BY Zenon, <1>6, <2>2, ShapePop
    <3> QED
      BY <1>0, <1>6, <2>2, <3>1 DEF Pop, send, TypeOK, Closed
  <2> QED BY <2>1, <2>2
<1>7. ASSUME NEW t \in Thread, HandledSystem(t) PROVE Closed'
  <2>1. CASE \A u \in Thread : pc[u] = "none"
    BY Zenon, <1>0, <1>7, <2>1 DEF HandledSystem, NextMessage, send, queue, TypeOK, Closed
  <2>2. CASE ~ \A u \in Thread : pc[u] = "none"
    BY <1>0, <1>7, <2>2 DEF HandledSystem, NextMessage, send, queue, TypeOK, Closed
  <2> QED BY Zenon, <2>1, <2>2
<1>8. ASSUME NEW t \in Thread, NEW p \in Phases, pc[t] = "none",
             phase' = [phase EXCEPT ![t] = p],
             UNCHANGED <<head, chain, refs, send>>
      PROVE  Closed'
  BY <1>0, <1>8 DEF send, TypeOK, Closed
<1>9. ASSUME NEW t \in Thread, Reschedule(t) \/ Leave(t), pc[t] = "none",
             UNCHANGED <<head, chain, refs, send>>
      PROVE  Closed'
  <2>1. \E p \in {"out", "start"} : phase' = [phase EXCEPT ![t] = p]
    BY Zenon, <1>9 DEF Reschedule, Leave
  <2> QED BY Zenon, <1>8, <1>9, <2>1 DEF Phases
<1>10. ASSUME NEW t \in Thread, HandledApp(t) PROVE Closed'
  <2>1. CASE Reschedule(t) \/ Leave(t)
    BY <1>9, <1>10, <2>1 DEF HandledApp, queue
  <2>2. CASE NextMessage(t)
    BY Zenon, <1>8, <1>10, <2>2 DEF HandledApp, NextMessage, Phases, queue
  <2> QED BY <1>10, <2>1, <2>2 DEF HandledApp
<1>11. ASSUME NEW t \in Thread, Finish(t) PROVE Closed'
  <2>1. pc[t] = "none"
    BY <1>0, <1>11 DEF Closed, Finish
  <2>2. CASE Reschedule(t)
    BY <1>9, <1>11, <2>1, <2>2 DEF Finish, queue
  <2>3. CASE phase' = [phase EXCEPT ![t] = "mark"]
    BY Zenon, <1>8, <1>11, <2>1, <2>3 DEF Finish, queue, Phases
  <2> QED BY <1>11, <2>2, <2>3 DEF Finish
<1>12. ASSUME NEW t \in Thread, Destroy(t) PROVE Closed'
  BY <1>0, <1>12 DEF Destroy, Leave, send, TypeOK, Closed
<1>13. ASSUME NEW t \in Thread, MarkEmptyLoad(t) PROVE Closed'
  <2>1. pc[t] = "none"
    BY <1>0, <1>13 DEF Closed, MarkEmptyLoad
  <2>2. CASE Reschedule(t) \/ Leave(t)
    BY <1>9, <1>13, <2>1, <2>2 DEF MarkEmptyLoad, queue
  <2>3. CASE phase' = [phase EXCEPT ![t] = "cas"]
    BY Zenon, <1>8, <1>13, <2>1, <2>3 DEF MarkEmptyLoad, queue, Phases
  <2> QED BY Zenon, <1>13, <2>2, <2>3 DEF MarkEmptyLoad
<1>14. ASSUME NEW t \in Thread, MarkEmptyCas(t) PROVE Closed'
  <2>1. pc[t] = "none"
    BY Zenon, <1>0, <1>14 DEF Closed, MarkEmptyCas
  <2>2. CASE Leave(t) /\ head' = [head EXCEPT !.empty = TRUE]
    BY <1>0, <1>14, <2>2 DEF MarkEmptyCas, Leave, send, TypeOK, Closed
  <2>3. CASE Reschedule(t) /\ UNCHANGED head
    BY Zenon, <1>9, <1>14, <2>1, <2>3 DEF MarkEmptyCas
  <2> QED BY <1>14, <2>2, <2>3 DEF MarkEmptyCas
<1>15. ASSUME Unmute \/ UNCHANGED vars PROVE Closed'
  BY <1>0, <1>15 DEF Unmute, vars, send, queue, run, Closed
<1> QED
  BY <1>1, <1>2, <1>3, <1>4, <1>5, <1>6, <1>7, <1>10, <1>11, <1>12, <1>13,
     <1>14, <1>15 DEF Next


-----------------------------------------------------------------------------
(* The invariant holds initially: the queue is its stub, marked empty.     *)
LEMMA InitInv == Init => IInv
<1> SUFFICES ASSUME Init PROVE IInv
  OBVIOUS
<1>1. PICK stub \in Node : /\ head = [node |-> stub, empty |-> TRUE]
                           /\ tail = stub
                           /\ free = Node \ {stub}
                           /\ chain = <<stub>>
  BY Zenon DEF Init
<1>2. TypeOK
  <2>1. muted \in BOOLEAN /\ refs \in BOOLEAN
    BY Zenon DEF Init
  <2>2. /\ head \in [node : NodeOrNull, empty : BOOLEAN]
        /\ tail \in NodeOrNull /\ free \in SUBSET Node
        /\ chain \in Seq(Node)
    BY <1>1 DEF NodeOrNull
  <2>3. was_empty \in [Thread -> BOOLEAN]
    BY DEF Init
  <2> QED
    BY <2>1, <2>2, <2>3, BatchAssumption DEF Init, TypeOK, NodeOrNull, Phases
<1>3. Token
  BY Zenon, <1>1 DEF Init, Token, WillAdd
<1>4. Shape
  BY <1>1 DEF Init, Shape, Sending
<1>5. Closed
  BY <1>1 DEF Init, Closed
<1> QED BY Zenon, <1>2, <1>3, <1>4, <1>5 DEF IInv

(* The invariant is inductive: it holds of every reachable state of the    *)
(* mailbox, whatever the number of senders, of blocks and of schedulers.   *)
THEOREM Invariance == Spec => []IInv
<1>1. IInv /\ [Next]_vars => IInv'
  BY Zenon, TypeStep, TokenStep, ShapeStep, ClosedStep DEF IInv
<1> QED BY InitInv, <1>1, PTL DEF Spec

(* The state of the mailbox keeps its type.                                *)
THEOREM TypeCorrect == Spec => []TypeOK
<1>1. IInv => TypeOK
  BY DEF IInv
<1> QED BY Invariance, <1>1, PTL

(* At most one scheduler thread at a time runs the actor: ponyint_actor_run*)
(* is never entered twice for one actor, although no lock protects it.     *)
THEOREM MutualExclusion == Spec => []SingleRunner
<1>1. IInv => SingleRunner
  BY DEF IInv, Token, SingleRunner
<1> QED BY Invariance, <1>1, PTL

(* The right to run the actor is in exactly one place, or nowhere while the*)
(* mailbox is marked empty: no wake-up is lost and none is doubled.        *)
THEOREM TokenUnique == Spec => []OneOwner
<1>1. IInv => OneOwner
  <2> SUFFICES ASSUME IInv PROVE OneOwner
    OBVIOUS
  <2>0. TypeOK /\ Token
    BY DEF IInv
  <2>1. CASE head.empty
    <3>1. /\ \A t \in Thread : phase[t] = "out" /\ ~ WillAdd(t)
          /\ 1..runq = {} /\ ~ muted
      BY <2>0, <2>1 DEF TypeOK, Token
    <3>2. Owners = {}
      BY <3>1 DEF Owners
    <3> QED BY Zenon, <2>1, <3>2 DEF OneOwner
  <2>2. CASE ~ head.empty
    <3>1. ASSUME NEW t \in Thread, phase[t] # "out"
          PROVE  Owners = {<<"running", t>>}
      <4>1. /\ \A u \in Thread : phase[u] # "out" <=> u = t
            /\ \A u \in Thread : ~ WillAdd(u)
            /\ 1..runq = {} /\ ~ muted
        BY <2>0, <3>1 DEF TypeOK, Token
      <4> QED BY <4>1 DEF Owners
    <3>2. ASSUME NEW t \in Thread, WillAdd(t)
          PROVE  Owners = {<<"adding", t>>}
      <4>1. /\ \A u \in Thread : phase[u] = "out"
            /\ \A u \in Thread : WillAdd(u) <=> u = t
            /\ 1..runq = {} /\ ~ muted
        BY <2>0, <3>2 DEF TypeOK, Token
      <4> QED BY Zenon, <4>1 DEF Owners
    <3>3. ASSUME runq = 1
          PROVE  Owners = {<<"queued", 1>>}
      <4>1. /\ \A u \in Thread : phase[u] = "out" /\ ~ WillAdd(u)
            /\ 1..runq = {1} /\ ~ muted
        BY <2>0, <3>3 DEF TypeOK, Token
      <4> QED BY Zenon, <4>1 DEF Owners
    <3>4. ASSUME muted
          PROVE  Owners = {<<"muted", 0>>}
      <4>1. /\ \A u \in Thread : phase[u] = "out" /\ ~ WillAdd(u)
            /\ 1..runq = {}
        BY <2>0, <3>4 DEF TypeOK, Token
      <4> QED BY Zenon, <3>4, <4>1 DEF Owners
    <3>5. \E o : Owners = {o}
      BY ZenonT(40), <2>0, <2>2, <3>1, <3>2, <3>3, <3>4 DEF Token
    <3> QED BY <2>2, <3>5 DEF OneOwner
  <2> QED BY <2>1, <2>2
<1> QED BY Invariance, <1>1, PTL

(* No sender and no consumer follows a pointer to a block that was freed.  *)
THEOREM MemorySafe == Spec => []NoUseAfterFree
<1>1. IInv => NoUseAfterFree
  <2> SUFFICES ASSUME IInv PROVE NoUseAfterFree
    BY Zenon
  <2>1. ASSUME NEW t \in Thread, pc[t] = "link" PROVE prev[t] \in Node \ free
    <3>1. PICK i \in 1..(Len(chain) - 1) : prev[t] = chain[i]
      BY <2>1 DEF IInv, Shape, Sending
    <3>2. i \in 1..Len(chain)
      BY DEF IInv, TypeOK
    <3> QED BY Zenon, <3>1, <3>2 DEF IInv, Shape
  <2>2. ASSUME NEW t \in Thread, phase[t] = "loop" PROVE tail \in Node \ free
    BY Zenon, <2>2, RunningQueue
  <2> QED BY <2>1, <2>2 DEF NoUseAfterFree
<1> QED BY Invariance, <1>1, PTL

(* The list is always the order of the pushes, but for the pending links.  *)
THEOREM LinkOrder == Spec => []LinksFollowOrder
<1>1. IInv => LinksFollowOrder
  BY DEF IInv, Shape, LinksFollowOrder, Sending
<1> QED BY Invariance, <1>1, PTL

-----------------------------------------------------------------------------
(* The mailbox implements Mailbox: an exchange is a Send, a successful pop *)
(* a Receive, marking the queue empty and destroying it a Park, and every  *)
(* other step changes nothing.  So messages are received in the order of   *)
(* the exchanges, each one once, and an actor is let go of only when it has*)
(* no message.                                                             *)
LEMMA AloneIsEmpty ==
  ASSUME IInv, chain # <<>>, head.node = tail
  PROVE  Pending = <<>>
<1>1. chain \in Seq(Node) /\ Len(chain) \in Nat /\ Len(chain) # 0
  <2>1. chain \in Seq(Node)
    BY DEF IInv, TypeOK
  <2>2. Len(chain) \in Nat \ {0}
    BY <2>1, EmptySeq, Zenon
  <2> QED BY <2>1, <2>2
<1>2. Len(chain) = 1
  <2>1. 1 \in 1..Len(chain) /\ Len(chain) \in 1..Len(chain)
    BY <1>1
  <2>2. chain[1] = chain[Len(chain)]
    BY DEF IInv, Shape
  <2> QED BY Zenon, <2>1, <2>2 DEF IInv, Shape
<1>3. Tail(chain) \in Seq(Node) /\ Len(Tail(chain)) = 0
  BY <1>1, <1>2
<1> QED BY Zenon, <1>3, EmptySeq DEF Pending

LEMMA RefinementStep ==
  ASSUME IInv, [Next]_vars
  PROVE  [Abstract!Next]_<<Pending, ~ head.empty>>
<1> USE DEF Abstract!Next, Abstract!Send, Abstract!Receive, Abstract!Park
<1>0. TypeOK /\ Token /\ Closed
  BY DEF IInv
<1>1. ASSUME NEW t \in Thread, Exchange(t) PROVE Abstract!Next
  <2>1. PICK f \in free, l \in free : Push(t, f, l)
    BY Zenon, <1>1 DEF Exchange
  <2>2. chain \in Seq(Node) /\ chain # <<>> /\ f \in Node /\ l \in Node
    BY Zenon, <1>0, <1>1, RunningQueue DEF Exchange, MaySend, Closed, TypeOK
  <2>3. head'.empty = FALSE
    BY <2>1 DEF Push
  <2>4. CASE f = l
    <3>1. chain' = chain \o <<l>>
      BY <2>1, <2>4 DEF Push
    <3>2. Tail(chain \o <<l>>) = Tail(chain) \o <<l>> /\ chain \o <<l>> # <<>>
      BY <2>2
    <3>3. Pending' = Pending \o <<l>>
      BY Zenon, <2>2, <3>1, <3>2 DEF Pending
    <3> QED BY Zenon, <2>2, <2>3, <3>3
  <2>5. CASE f # l
    <3>1. chain' = chain \o <<f, l>>
      BY Zenon, <2>1, <2>5 DEF Push
    <3>2. Tail(chain \o <<f, l>>) = Tail(chain) \o <<f, l>>
          /\ chain \o <<f, l>> # <<>>
      BY <2>2
    <3>3. Pending' = Pending \o <<f, l>>
      BY Zenon, <2>2, <3>1, <3>2 DEF Pending
    <3> QED BY ZenonT(40), <2>2, <2>3, <3>3
  <2> QED BY Zenon, <2>4, <2>5
<1>2. ASSUME NEW t \in Thread, Pop(t), next[tail] # NULL PROVE Abstract!Next
  <2>1. chain # <<>> /\ chain' # <<>> /\ chain' = Tail(chain)
    BY <1>2, RunningQueue, ShapePop DEF Pop
  <2>2. Pending = chain' /\ Pending' = Tail(Pending)
    BY Zenon, <2>1 DEF Pending
  <2>3. ~ head.empty /\ head' = head
    BY <1>0, <1>2 DEF Pop, Token
  <2> QED BY <2>1, <2>2, <2>3
<1>3. ASSUME NEW t \in Thread, Destroy(t) PROVE Abstract!Next
  <2>1. ~ head.empty /\ head.node = tail /\ chain # <<>>
    BY Zenon, <1>0, <1>3, RunningQueue DEF Destroy, Token, IsEmpty
  <2>2. Pending = <<>>
    BY <2>1, AloneIsEmpty
  <2>3. Pending' = <<>> /\ head'.empty = TRUE
    BY <1>3 DEF Destroy, Pending
  <2> QED BY <2>1, <2>2, <2>3
<1>4. ASSUME NEW t \in Thread, MarkEmptyCas(t)
      PROVE  Abstract!Next \/ UNCHANGED <<Pending, ~ head.empty>>
  <2>1. Pending' = Pending
    BY <1>4 DEF MarkEmptyCas, Pending
  <2>2. CASE UNCHANGED head
    BY <2>1, <2>2
  <2>3. CASE head = [node |-> tail, empty |-> FALSE]
             /\ head' = [head EXCEPT !.empty = TRUE]
    <3>1. chain # <<>>
      BY <1>4, RunningQueue DEF MarkEmptyCas
    <3>2. Pending = <<>> /\ ~ head.empty /\ head'.empty = TRUE
      BY <2>3, <3>1, AloneIsEmpty
    <3> QED BY <2>1, <3>2
  <2> QED BY Zenon, <1>4, <2>2, <2>3 DEF MarkEmptyCas
<1>5. ASSUME UNCHANGED <<head, chain>>
      PROVE  UNCHANGED <<Pending, ~ head.empty>>
  BY <1>5 DEF Pending
<1>6. ASSUME NEW t \in Thread,
             \/ Link(t) \/ SchedAdd(t) \/ Take(t) \/ Start(t)
             \/ HandledSystem(t) \/ HandledApp(t) \/ Finish(t)
             \/ MarkEmptyLoad(t) \/ (Pop(t) /\ next[tail] = NULL)
      PROVE  UNCHANGED <<head, chain>>
  BY Zenon, <1>6 DEF Link, SchedAdd, Take, Start, HandledSystem, HandledApp, Finish,
              MarkEmptyLoad, Pop, queue
<1>7. ASSUME Unmute \/ UNCHANGED vars PROVE UNCHANGED <<head, chain>>
  BY <1>7 DEF Unmute, vars, queue
<1> QED
  BY Zenon, <1>1, <1>2, <1>3, <1>4, <1>5, <1>6, <1>7 DEF Next

THEOREM Implements == Spec => Refinement
<1>1. Init => Abstract!Init
  <2> SUFFICES ASSUME Init PROVE Abstract!Init
    BY Zenon
  <2>1. PICK stub \in Node : chain = <<stub>> /\ head.empty = TRUE
    BY DEF Init
  <2> QED BY <2>1 DEF Abstract!Init, Pending
<1>2. IInv /\ [Next]_vars => [Abstract!Next]_<<Pending, ~ head.empty>>
  BY RefinementStep
<1> QED BY Invariance, <1>1, <1>2, PTL DEF Spec, Refinement, Abstract!Spec
=============================================================================
