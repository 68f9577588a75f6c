-------------------------- MODULE QuiescenceTypes ---------------------------
(***************************************************************************)
(* Lemmas for the proofs about Quiescence: counting messages, the inductive*)
(* invariant, the steps one by one, types, and where the actors are.       *)
(***************************************************************************)
EXTENDS Quiescence, FiniteFacts, TLAPS

Message ==
  [type : {"block", "unblock", "cnf", "ack", "terminate", "noisy", "unnoisy"}, token : Nat]

(***************************************************************************)
(* Counting the messages of a set in the beginning of a queue.             *)
(***************************************************************************)
Places(s, k, M) == {i \in 1..k : s[i] \in M}

Count(s, k, M) == Cardinality(Places(s, k, M))

(* A count is a natural number.                                            *)
LEMMA CountNat ==
  ASSUME FiniteFacts, NEW s, NEW k \in Nat, NEW M
  PROVE  IsFiniteSet(Places(s, k, M)) /\ Count(s, k, M) \in Nat
<1>1. IsFiniteSet(1..k)
  BY DEF FiniteFacts, Interval
<1>2. Places(s, k, M) \in SUBSET (1..k)
  BY DEF Places
<1>3. IsFiniteSet(Places(s, k, M))
  BY Zenon, <1>1, <1>2 DEF FiniteFacts, Parts
<1> QED
  BY Zenon, <1>3 DEF FiniteFacts, SizeIsNat, Count

(* Nothing is counted in no message.                                       *)
LEMMA CountNone ==
  ASSUME FiniteFacts, NEW s, NEW M
  PROVE  Count(s, 0, M) = 0
<1>1. Places(s, 0, M) = {}
  BY SMT DEF Places
<1> QED
  BY <1>1 DEF FiniteFacts, NoElement, Count

(* One message more counts if it is in the set.                            *)
LEMMA CountNext ==
  ASSUME FiniteFacts, NEW s, NEW k \in Nat, NEW M
  PROVE  Count(s, k + 1, M) = IF s[k + 1] \in M THEN Count(s, k, M) + 1 ELSE Count(s, k, M)
<1>1. CASE s[k + 1] \in M
  <2>1. Places(s, k + 1, M) = Places(s, k, M) \cup {k + 1}
    BY <1>1 DEF Places
  <2>2. k + 1 \notin Places(s, k, M)
    BY DEF Places
  <2> QED
    BY Zenon, <1>1, <2>1, <2>2, CountNat DEF FiniteFacts, AddElement, Count
<1>2. CASE s[k + 1] \notin M
  <2>1. Places(s, k + 1, M) = Places(s, k, M)
    BY <1>2 DEF Places
  <2> QED
    BY Zenon, <1>2, <2>1 DEF Count
<1> QED
  BY <1>1, <1>2

(* What is pushed does not change the counts before it.                    *)
LEMMA CountAppend ==
  ASSUME NEW S, NEW s \in Seq(S), NEW m \in S, NEW k \in 0..Len(s), NEW M
  PROVE  Count(Append(s, m), k, M) = Count(s, k, M)
<1>1. Places(Append(s, m), k, M) = Places(s, k, M)
  BY DEF Places
<1> QED
  BY Zenon, <1>1 DEF Count

(* The counts after the first message is popped.                           *)
LEMMA CountTail ==
  ASSUME FiniteFacts, NEW S, NEW s \in Seq(S), s # <<>>, NEW k \in 0..Len(Tail(s)), NEW M
  PROVE  Count(s, k + 1, M) = IF Head(s) \in M THEN Count(Tail(s), k, M) + 1
                                               ELSE Count(Tail(s), k, M)
<1> DEFINE A == Places(Tail(s), k, M)
           B == {i \in 2..(k + 1) : s[i] \in M}
           f == [i \in A |-> i + 1]
<1>1. k \in Nat /\ Len(s) \in Nat /\ Len(Tail(s)) = Len(s) - 1
      /\ \A i \in 1..k : Tail(s)[i] = s[i + 1]
  OBVIOUS
<1>2. A \subseteq Nat /\ B \subseteq Nat
  BY <1>1 DEF Places
<1>3. \A i \in A : i + 1 \in B
  BY <1>1 DEF Places
<1>4. \A j \in B : j - 1 \in A /\ (j - 1) + 1 = j
  BY <1>1 DEF Places
<1>5. f \in [A -> B]
  BY Zenon, <1>3
<1>6. \A i, j \in A : f[i] = f[j] => i = j
  BY <1>2
<1>7. \A j \in B : \E i \in A : f[i] = j
  BY Zenon, <1>4
<1>8. IsFiniteSet(A)
  BY Zenon, <1>1, CountNat
<1>9. IsFiniteSet(B) /\ Cardinality(B) = Cardinality(A)
  <2> HIDE DEF A, B, f
  <2> QED
    BY Zenon, <1>5, <1>6, <1>7, <1>8 DEF FiniteFacts, SameSize
<1>10. Head(s) = s[1] /\ 1 \notin B
  BY <1>1
<1>11. CASE Head(s) \in M
  <2>1. Places(s, k + 1, M) = B \cup {1}
    BY <1>1, <1>10, <1>11 DEF Places
  <2>2. Cardinality(B \cup {1}) = Cardinality(B) + 1
    BY Zenon, <1>9, <1>10 DEF FiniteFacts, AddElement
  <2> QED
    BY Zenon, <1>9, <1>11, <2>1, <2>2 DEF Count
<1>12. CASE Head(s) \notin M
  <2>1. Places(s, k + 1, M) = B
    BY <1>1, <1>10, <1>12 DEF Places
  <2> QED
    BY Zenon, <1>9, <1>12, <2>1 DEF Count
<1> QED
  BY <1>11, <1>12

-----------------------------------------------------------------------------
(***************************************************************************)
(* A counter that messages of a set Up raise and those of a set Down lower.*)
(* What it will be once the first k messages have been read, and that it   *)
(* never gets below zero on the way.                                       *)
(***************************************************************************)
After(c, s, k, Up, Down) == c + Count(s, k, Up) - Count(s, k, Down)

Total(c, s, Up, Down) == After(c, s, Len(s), Up, Down)

NeverNegative(c, s, Up, Down) == \A k \in 0..Len(s) : After(c, s, k, Up, Down) >= 0

Effect(m, Up, Down) == (IF m \in Up THEN 1 ELSE 0) - (IF m \in Down THEN 1 ELSE 0)

(* With nothing to read the counter is what it is.                         *)
LEMMA AfterNone ==
  ASSUME FiniteFacts, NEW c \in Int, NEW s, NEW Up, NEW Down
  PROVE  After(c, s, 0, Up, Down) = c
  BY CountNone DEF After

(* A message that is pushed takes effect last.                             *)
LEMMA PushEffect ==
  ASSUME FiniteFacts, NEW S, NEW s \in Seq(S), NEW m \in S, NEW c \in Int, NEW Up, NEW Down
  PROVE  /\ Total(c, s, Up, Down) \in Int
         /\ Total(c, Append(s, m), Up, Down) = Total(c, s, Up, Down) + Effect(m, Up, Down)
         /\ NeverNegative(c, s, Up, Down) /\ Total(c, s, Up, Down) + Effect(m, Up, Down) >= 0
              => NeverNegative(c, Append(s, m), Up, Down)
<1> DEFINE z == Append(s, m)
           n == Len(s)
<1>1. n \in Nat /\ Len(z) = n + 1 /\ z[n + 1] = m
  OBVIOUS
<1>2. \A k \in 0..n : After(c, z, k, Up, Down) = After(c, s, k, Up, Down)
  BY CountAppend DEF After
<1>3. Count(s, n, Up) \in Nat /\ Count(s, n, Down) \in Nat
  BY <1>1, CountNat
<1>4. /\ Count(z, n, Up) = Count(s, n, Up) /\ Count(z, n, Down) = Count(s, n, Down)
  BY <1>1, CountAppend
<1>5. /\ Count(z, n + 1, Up) = IF m \in Up THEN Count(s, n, Up) + 1 ELSE Count(s, n, Up)
      /\ Count(z, n + 1, Down) = IF m \in Down THEN Count(s, n, Down) + 1 ELSE Count(s, n, Down)
  <2> HIDE DEF z
  <2> QED
    BY <1>1, <1>4, CountNext
<1>6. Total(c, z, Up, Down) = Total(c, s, Up, Down) + Effect(m, Up, Down)
  BY <1>1, <1>3, <1>5 DEF Total, After, Effect
<1>7. Total(c, s, Up, Down) \in Int
  BY <1>3 DEF Total, After
<1>8. ASSUME NeverNegative(c, s, Up, Down), Total(c, s, Up, Down) + Effect(m, Up, Down) >= 0,
             NEW k \in 0..Len(z)
      PROVE  After(c, z, k, Up, Down) >= 0
  <2>1. k \in 0..n \/ k = Len(z)
    BY <1>1
  <2>2. CASE k \in 0..n
    BY <1>2, <1>8, <2>2 DEF NeverNegative
  <2>3. CASE k = Len(z)
    BY <1>6, <1>8, <2>3 DEF Total
  <2> QED
    BY <2>1, <2>2, <2>3
<1> QED
  BY <1>6, <1>7, <1>8 DEF NeverNegative

(* A message that is read takes effect at once.                            *)
LEMMA ReadEffect ==
  ASSUME FiniteFacts, NEW S, NEW s \in Seq(S), s # <<>>, NEW c \in Int, NEW Up, NEW Down
  PROVE  LET d == c + Effect(Head(s), Up, Down)
         IN  /\ d \in Int
             /\ Total(d, Tail(s), Up, Down) = Total(c, s, Up, Down)
             /\ NeverNegative(c, s, Up, Down) => d >= 0 /\ NeverNegative(d, Tail(s), Up, Down)
<1> DEFINE d == c + Effect(Head(s), Up, Down)
<1>1. d \in Int
  BY DEF Effect
<1>2. Len(s) \in Nat /\ Len(Tail(s)) = Len(s) - 1 /\ Len(Tail(s)) \in Nat
  OBVIOUS
<1>3. ASSUME NEW k \in 0..Len(Tail(s))
      PROVE  After(d, Tail(s), k, Up, Down) = After(c, s, k + 1, Up, Down)
  <2>1. k \in Nat
    BY <1>2
  <2>2. Count(Tail(s), k, Up) \in Nat /\ Count(Tail(s), k, Down) \in Nat
    BY <2>1, CountNat
  <2> DEFINE x == IF Head(s) \in Up THEN 1 ELSE 0
             y == IF Head(s) \in Down THEN 1 ELSE 0
  <2>3. x \in Int /\ y \in Int /\ Effect(Head(s), Up, Down) = x - y
    BY DEF Effect
  <2>4. Count(s, k + 1, Up) = Count(Tail(s), k, Up) + x
    BY <2>2, CountTail
  <2>5. Count(s, k + 1, Down) = Count(Tail(s), k, Down) + y
    BY <2>2, CountTail
  <2> HIDE DEF x, y
  <2> QED
    BY <2>2, <2>3, <2>4, <2>5 DEF After
<1>4. Total(d, Tail(s), Up, Down) = Total(c, s, Up, Down)
  BY <1>2, <1>3 DEF Total
<1>5. ASSUME NeverNegative(c, s, Up, Down), NEW k \in 0..Len(Tail(s))
      PROVE  After(d, Tail(s), k, Up, Down) >= 0
  BY <1>2, <1>3, <1>5 DEF NeverNegative
<1>6. ASSUME NeverNegative(c, s, Up, Down) PROVE d >= 0
  <2>1. After(d, Tail(s), 0, Up, Down) = d
    BY <1>1, AfterNone
  <2> QED
    BY <1>2, <1>5, <1>6, <2>1
<1> QED
  BY <1>1, <1>4, <1>5, <1>6 DEF NeverNegative

-----------------------------------------------------------------------------
(***************************************************************************)
(* The inductive invariant.                                                *)
(***************************************************************************)
Of(type) == {m \in Message : m.type = type}

Typed == TypeOK /\ mq \in [Thread -> Seq(Message)]

(* A thread that runs, or has just stolen, has an actor.                   *)
Control ==
  \A t \in Thread : pc[t] \in {"actor", "noisy", "unnoisy", "found"} => cur[t] # None

(* No actor is in two of the places where a scheduled actor can be.        *)
Absent(a, qs, inj, at) ==
  /\ \A t \in Thread : at[t] # a /\ \A i \in 1..Len(qs[t]) : qs[t][i] # a
  /\ \A i \in 1..Len(inj) : inj[i] # a

OneEach(at) == \A t, u \in Thread : at[t] = at[u] => t = u \/ at[t] = None

NotQueued(qs, at) == \A t, u \in Thread : \A i \in 1..Len(qs[t]) : qs[t][i] # at[u]

QueuedOnce(qs) ==
  \A t, u \in Thread : \A i \in 1..Len(qs[t]), j \in 1..Len(qs[u]) :
    qs[t][i] = qs[u][j] => t = u /\ i = j

Apart(qs, inj) == \A t \in Thread : \A i \in 1..Len(qs[t]), j \in 1..Len(inj) : qs[t][i] # inj[j]

NotInjected(inj, at) == \A t \in Thread : \A i \in 1..Len(inj) : inj[i] # at[t]

InjectedOnce(inj) == \A i, j \in 1..Len(inj) : inj[i] = inj[j] => i = j

Distinct(qs, inj, at) ==
  /\ OneEach(at) /\ NotQueued(qs, at) /\ QueuedOnce(qs)
  /\ Apart(qs, inj) /\ NotInjected(inj, at) /\ InjectedOnce(inj)

Unique == Distinct(q, inject, cur)

Opening == {t \in Thread : pc[t] = "noisy"}
Closing == {t \in Thread : pc[t] = "unnoisy"}

(* The notices that scheduler 0 has not read, and those about to be sent,  *)
(* make up for what it does not know of the noisy subscriptions.           *)
Notices ==
  /\ \A t \in Thread : pc[t] = "noisy" => cur[t] \in noisy
  /\ \A t, u \in Thread : pc[t] = "noisy" /\ pc[u] = "noisy" => t = u
  /\ Total(asio_noisy, mq[0], Of("noisy"), Of("unnoisy"))
       = (IF noisy = {} THEN 0 ELSE 1) - Cardinality(Opening) + Cardinality(Closing)
  /\ NeverNegative(asio_noisy, mq[0], Of("noisy"), Of("unnoisy"))

Blocked == {t \in Sched : block_sent[t]}

(* So do the reports, which at no time lead scheduler 0 out of 0..N.       *)
Reports ==
  /\ Total(block_count, mq[0], Of("block"), Of("unblock")) = Cardinality(Blocked)
  /\ NeverNegative(block_count, mq[0], Of("block"), Of("unblock"))
  /\ NeverNegative(N - block_count, mq[0], Of("unblock"), Of("block"))

(* A message is in a queue, at one place only, so many times; the rounds   *)
(* that the messages of a queue are about.                                 *)
In(s, m)    == \E i \in 1..Len(s) : s[i] = m
Once(s, m)  == \A i, j \in 1..Len(s) : s[i] = m /\ s[j] = m => i = j
Times(s, m) == Count(s, Len(s), {m})

UpTo(s, token) == \A i \in 1..Len(s) : s[i].type \in {"cnf", "ack"} => s[i].token <= token

Cnf == Msg("cnf", ack_token)
Ack == Msg("ack", ack_token)

(* Those that have still to read the CNF of this round, and the answers    *)
(* that scheduler 0 has still to read.                                     *)
Asked   == {t \in Thread : In(mq[t], Cnf)}
Pending == Cardinality(Asked) + Times(mq[0], Ack)

Rounds ==
  /\ \A t \in Thread : UpTo(mq[t], ack_token) /\ Once(mq[t], Cnf)
  /\ Pending <= ack_count

IInv == Typed /\ Control /\ Unique /\ Notices /\ Reports /\ Rounds

-----------------------------------------------------------------------------
(***************************************************************************)
(* What is added to it where no actor is pinned: the pinned-actor thread   *)
(* runs nothing.                                                           *)
(***************************************************************************)
Unpinned == pc[P] \notin {"actor", "noisy", "unnoisy"}

(* Whoever has said that it is blocked is stealing; its queue is empty.    *)
Searching == {"inject", "victim", "found", "sread", "idle", "drowsy", "dread", "asleep", "done"}
Working   == {"top", "route", "actor", "noisy", "unnoisy"}

StealingAt(t) ==
  /\ block_sent[t] => pc[t] \in Searching
  /\ q[t] # <<>> => pc[t] \in Working /\ cur[t] # None

Stealing == \A t \in Sched : StealingAt(t)

(* The first actor of the program has left the pinned-actor thread, and the*)
(* inject queue: what is there has a subscription.                         *)
Away     == q[P] = <<>> /\ cur[P] = None
Injected == \A i \in 1..Len(inject) : inject[i] \in noisy
Taken    == Away /\ Injected

(* It has, unless no round has been started yet.                           *)
Begun == Taken \/ (Pending = 0 /\ ack_count = N /\ asio # "stopped")

(* No answer of this round was refused, and no report is on its way.       *)
Unrefused == ack_count = Pending

Unreported(s) == \A i \in 1..Len(s) : s[i].type \notin {"block", "unblock"}

Settled == Unrefused /\ Unreported(mq[0])

(* Then all have said that they are blocked, and who has answered has no   *)
(* actor, unless it is one that listens.                                   *)
Answered ==
  /\ Unrefused => block_count = N
  /\ Settled => \A t \in Sched \ Asked : cur[t] \in noisy \cup {None}

Stopped ==
  asio = "stopped" =>
    /\ noisy = {} /\ inject = <<>>
    /\ \A t \in Thread : cur[t] = None /\ q[t] = <<>>

IInvUnpinned ==
  /\ IInv
  /\ Unpinned /\ Stealing /\ Begun /\ Answered /\ Stopped

-----------------------------------------------------------------------------
(* The threads.                                                            *)
LEMMA Threads ==
  /\ N \in Nat /\ N > 0
  /\ 0 \in Sched /\ 0 \in Thread /\ P \in Thread /\ P \notin Sched /\ P # 0
  /\ \A t \in Sched : t \in Thread /\ t # P
  /\ \A t \in Thread : t \in Sched \/ t = P
<1>1. N \in Nat /\ N > 0
  BY QuiescenceAssumption
<1> QED
  BY <1>1 DEF Sched, Thread, P

(* How many there are.                                                     *)
LEMMA ThreadsFinite ==
  ASSUME FiniteFacts
  PROVE  /\ IsFiniteSet(Sched) /\ Cardinality(Sched) = N
  /\ IsFiniteSet(Thread) /\ Cardinality(Thread) = N + 1
<1>1. N \in Nat /\ N > 0
  BY QuiescenceAssumption
<1>2. IsFiniteSet(0..(N - 1)) /\ Cardinality(0..(N - 1)) = N
  BY <1>1 DEF FiniteFacts, Interval
<1>3. IsFiniteSet(0..N) /\ Cardinality(0..N) = N + 1
  BY <1>1 DEF FiniteFacts, Interval
<1> QED
  BY <1>1, <1>2, <1>3 DEF Sched, Thread, P

(* The message queues.                                                     *)
Queues(m) ==
  /\ m \in [Thread -> Seq(Message)]
  /\ \A t \in Thread : \A i \in 1..Len(m[t]) : m[t][i].type \in {"cnf", "terminate"} \/ t = 0

(* They are part of the type invariant.                                    *)
LEMMA QueuesTyped ==
  ASSUME NEW m \in [Thread -> Seq(Message)]
  PROVE  Queues(m) <=> \A t \in Thread : \A i \in DOMAIN m[t] :
                         /\ m[t][i].type \in {"cnf", "terminate"} \/ t = 0
                         /\ m[t][i].token \in Nat
<1>1. ASSUME NEW t \in Thread PROVE DOMAIN m[t] = 1..Len(m[t]) /\ \A i \in 1..Len(m[t]) : m[t][i] \in Message
  OBVIOUS
<1>2. \A x \in Message : x.token \in Nat
  BY Zenon DEF Message
<1> QED
  BY <1>1, <1>2 DEF Queues

(* Everybody may send to scheduler 0.                                      *)
LEMMA PushZero ==
  ASSUME NEW m, Queues(m), NEW x \in Message
  PROVE  Queues([m EXCEPT ![0] = Append(@, x)])
<1> DEFINE z == [m EXCEPT ![0] = Append(@, x)]
<1>1. z \in [Thread -> Seq(Message)]
  BY Threads DEF Queues
<1>2. \A t \in Thread : t # 0 => z[t] = m[t]
  BY Zenon DEF Queues
<1> QED
  BY Zenon, <1>1, <1>2 DEF Queues

(* CNF and TERMINATE are sent to all.                                      *)
LEMMA PushAll ==
  ASSUME NEW m, Queues(m), NEW x \in Message, x.type \in {"cnf", "terminate"}
  PROVE  Queues([t \in Thread |-> Append(m[t], x)])
<1> DEFINE z == [t \in Thread |-> Append(m[t], x)]
<1>1. z \in [Thread -> Seq(Message)]
  BY DEF Queues
<1>2. ASSUME NEW t \in Thread, NEW i \in 1..Len(z[t]) PROVE z[t][i].type \in {"cnf", "terminate"} \/ t = 0
  <2>1. m[t] \in Seq(Message) /\ z[t] = Append(m[t], x)
    BY DEF Queues
  <2>2. (i \in 1..Len(m[t]) /\ z[t][i] = m[t][i]) \/ z[t][i] = x
    BY <2>1, <1>2
  <2> QED
    BY <2>2 DEF Queues
<1> QED
  BY <1>1, <1>2 DEF Queues

(* A thread reads its first message.                                       *)
LEMMA PopOne ==
  ASSUME NEW m, Queues(m), NEW t \in Thread, m[t] # <<>>
  PROVE  /\ Queues([m EXCEPT ![t] = Tail(m[t])])
         /\ Head(m[t]) \in Message
         /\ Head(m[t]).type \in {"cnf", "terminate"} \/ t = 0
<1> DEFINE z == [m EXCEPT ![t] = Tail(m[t])]
<1>1. m[t] \in Seq(Message) /\ m \in [Thread -> Seq(Message)]
  BY Zenon DEF Queues
<1>2. /\ Tail(m[t]) \in Seq(Message) /\ Head(m[t]) = m[t][1] /\ 1 \in 1..Len(m[t])
      /\ \A i \in 1..Len(Tail(m[t])) : i + 1 \in 1..Len(m[t]) /\ Tail(m[t])[i] = m[t][i + 1]
  BY <1>1
<1>3. z \in [Thread -> Seq(Message)] /\ z[t] = Tail(m[t])
  BY Zenon, <1>1, <1>2
<1>4. ASSUME NEW u \in Thread, NEW i \in 1..Len(z[u]) PROVE z[u][i].type \in {"cnf", "terminate"} \/ u = 0
  <2>1. CASE u = t
    BY <1>2, <1>3, <1>4, <2>1 DEF Queues
  <2>2. CASE u # t
    BY Zenon, <1>1, <1>4, <2>2 DEF Queues
  <2> QED
    BY Zenon, <2>1, <2>2
<1> QED
  BY <1>1, <1>2, <1>3, <1>4 DEF Queues

(* The type invariant gives all of this of the message queues.             *)
LEMMA TypedQueues == Typed => Queues(mq)
  BY Zenon, QueuesTyped DEF Typed, TypeOK

-----------------------------------------------------------------------------
(* What a thread gets when it takes the next actor.                        *)
Took(t, n) ==
  \/ n.actor = None /\ n.q = q /\ n.inject = inject /\ q[t] = <<>>
  \/ /\ q[t] # <<>> /\ n.actor = Head(q[t])
     /\ n.q = [q EXCEPT ![t] = Tail(@)] /\ n.inject = inject
  \/ /\ inject # <<>> /\ n.actor = Head(inject)
     /\ n.q = q /\ n.inject = Tail(inject)

(* pop and pop_global take an actor from a queue, or find none.            *)
LEMMA Takes ==
  ASSUME NEW t \in Thread
  PROVE  Took(t, Pop(t)) /\ Took(t, PopGlobal(t))
<1>1. Took(t, Pop(t))
  BY DEF Took, Pop
<1> QED
  BY Zenon, <1>1 DEF Took, Pop, PopGlobal

(* A run ends: the actor is done, waits behind the next one, or goes on.   *)
LEMMA EndRunCases ==
  ASSUME NEW t \in Thread, EndRun(t)
  PROVE  \E n \in {Pop(t), PopGlobal(t)} :
           /\ Took(t, n) /\ inject' = n.inject
           /\ \/ q' = n.q /\ cur' = [cur EXCEPT ![t] = n.actor]
              \/ /\ n.actor # None
                 /\ q' = [n.q EXCEPT ![t] = Append(@, cur[t])] /\ cur' = [cur EXCEPT ![t] = n.actor]
              \/ n.actor = None /\ q' = n.q /\ cur' = cur
<1> DEFINE n == IF t = P THEN Pop(t) ELSE PopGlobal(t)
<1>1. n \in {Pop(t), PopGlobal(t)} /\ Took(t, n)
  BY Zenon, Takes
<1>2. PICK r \in BOOLEAN :
        /\ inject' = n.inject
        /\ q' = IF r /\ n.actor # None THEN [n.q EXCEPT ![t] = Append(@, cur[t])] ELSE n.q
        /\ cur' = IF r /\ ~(r /\ n.actor # None) THEN cur ELSE [cur EXCEPT ![t] = n.actor]
  BY Zenon DEF EndRun
<1> HIDE DEF n
<1>3. CASE ~r
  BY Zenon, <1>1, <1>2, <1>3
<1>4. CASE r /\ n.actor = None
  BY SMT, <1>1, <1>2, <1>4
<1>5. CASE r /\ n.actor # None
  BY Zenon, <1>1, <1>2, <1>5
<1> QED
  BY SMT, <1>3, <1>4, <1>5

-----------------------------------------------------------------------------
(***************************************************************************)
(* What a thread does with the message that it reads: scheduler 0 starts a *)
(* round or gives one up, counts an answer or takes a notice; anybody      *)
(* answers a CNF, or refuses to, or hears of the end.                      *)
(***************************************************************************)
Popped(t) == [mq EXCEPT ![t] = Tail(mq[t])]

StartsRound ==
  /\ Head(mq[0]).type = "block"
  /\ block_count' = block_count + 1 /\ block_count' = N
  /\ ack_token' = ack_token + 1 /\ ack_count' = N + 1
  /\ mq' = [u \in Thread |-> Append(Popped(0)[u], Msg("cnf", ack_token'))]
  /\ asio_stoppable' = FALSE /\ disabled' = TRUE /\ active' = N
  /\ UNCHANGED <<terminate, asio_noisy>>

EndsRound(type) ==
  /\ Head(mq[0]).type = type /\ type \in {"block", "unblock"}
  /\ block_count' = IF type = "block" THEN block_count + 1 ELSE block_count - 1
  /\ ack_token' = ack_token + 1 /\ ack_count' = N
  /\ mq' = Popped(0)
  /\ asio_stoppable' = FALSE /\ disabled' = FALSE
  /\ UNCHANGED <<terminate, asio_noisy, active>>

Answers(t) ==
  /\ Head(mq[t]).type = "cnf" /\ cur[t] = None
  /\ mq' = [Popped(t) EXCEPT ![0] = Append(@, Msg("ack", Head(mq[t]).token))]
  /\ UNCHANGED <<terminate, sched0, scale>>

Refuses(t) ==
  /\ Head(mq[t]).type = "cnf" /\ cur[t] # None
  /\ mq' = Popped(t)
  /\ UNCHANGED <<terminate, sched0, scale>>

HearsAnswer ==
  /\ Head(mq[0]).type = "ack"
  /\ ack_count' = IF Head(mq[0]).token = ack_token THEN ack_count - 1 ELSE ack_count
  /\ mq' = Popped(0)
  /\ UNCHANGED <<terminate, block_count, ack_token, asio_stoppable, asio_noisy, scale>>

HearsEnd(t) ==
  /\ Head(mq[t]).type = "terminate"
  /\ terminate' = [terminate EXCEPT ![t] = TRUE]
  /\ mq' = Popped(t)
  /\ UNCHANGED <<sched0, scale>>

HearsNotice ==
  /\ Head(mq[0]).type \in {"noisy", "unnoisy"}
  /\ asio_noisy' = IF Head(mq[0]).type = "noisy" THEN asio_noisy + 1 ELSE asio_noisy - 1
  /\ mq' = Popped(0)
  /\ UNCHANGED <<terminate, block_count, round, scale>>

(* These are all.                                                          *)
LEMMA ReadCases ==
  ASSUME Typed, NEW t \in Thread, ReadMsg(t)
  PROVE  /\ mq[t] # <<>> /\ UNCHANGED <<queues, actors, pc, cur, block_sent>>
         /\ \/ Answers(t) \/ Refuses(t) \/ HearsEnd(t)
            \/ t = 0 /\ (StartsRound \/ EndsRound("block") \/ EndsRound("unblock") \/ HearsAnswer \/ HearsNotice)
<1>1. mq[t] # <<>> /\ UNCHANGED <<queues, actors, pc, cur, block_sent>>
  BY Zenon DEF ReadMsg
<1>2. Queues(mq)
  BY TypedQueues
<1>3. Head(mq[t]).type \in {"cnf", "terminate"} \/ t = 0
  BY Zenon, <1>1, <1>2, PopOne
<1>4. mq \in [Thread -> Seq(Message)] /\ [mq EXCEPT ![t] = Tail(mq[t])] = Popped(t)
  BY Zenon, <1>2 DEF Queues, Popped
<1>5. CASE /\ Head(mq[t]).type = "block" /\ HandleBlock(Tail(mq[t]))
           /\ UNCHANGED <<terminate, asio_noisy>>
  <2>1. t = 0
    BY <1>3, <1>5
  <2>2. [u \in Thread |-> Append(IF u = 0 THEN Tail(mq[t]) ELSE mq[u], Msg("cnf", ack_token'))]
          = [u \in Thread |-> Append(Popped(0)[u], Msg("cnf", ack_token'))]
    BY Zenon, <1>4, <2>1 DEF Popped
  <2>3. CASE asio_noisy = 0 /\ block_count' = N
    BY Zenon, <1>5, <2>1, <2>2, <2>3, <1>1 DEF HandleBlock, StartsRound
  <2>4. CASE ~(asio_noisy = 0 /\ block_count' = N)
    BY SMT, <1>5, <2>1, <2>4, <1>1 DEF HandleBlock, EndsRound, Popped
  <2> QED
    BY Zenon, <2>3, <2>4
<1>6. CASE /\ Head(mq[t]).type = "unblock" /\ HandleUnblock
           /\ mq' = Popped(t)
           /\ UNCHANGED <<terminate, asio_noisy, active>>
  <2>1. t = 0
    BY <1>3, <1>6
  <2> QED
    BY <1>1, <1>6, <2>1 DEF HandleUnblock, EndsRound
<1>7. CASE /\ Head(mq[t]).type = "cnf"
           /\ mq' = IF cur[t] = None
                       THEN [Popped(t) EXCEPT ![0] = Append(@, Msg("ack", Head(mq[t]).token))]
                       ELSE Popped(t)
           /\ UNCHANGED <<terminate, sched0, scale>>
  BY Zenon, <1>1, <1>7 DEF Answers, Refuses
<1>8. CASE /\ Head(mq[t]).type = "ack"
           /\ ack_count' = IF Head(mq[t]).token = ack_token THEN ack_count - 1 ELSE ack_count
           /\ mq' = Popped(t)
           /\ UNCHANGED <<terminate, block_count, ack_token, asio_stoppable, asio_noisy, scale>>
  <2>1. t = 0
    BY <1>3, <1>8
  <2> QED
    BY Zenon, <1>1, <1>8, <2>1 DEF HearsAnswer
<1>9. CASE /\ Head(mq[t]).type = "terminate"
           /\ terminate' = [terminate EXCEPT ![t] = TRUE]
           /\ mq' = Popped(t)
           /\ UNCHANGED <<sched0, scale>>
  BY Zenon, <1>1, <1>9 DEF HearsEnd
<1>10. CASE /\ Head(mq[t]).type \in {"noisy", "unnoisy"}
            /\ asio_noisy' = IF Head(mq[t]).type = "noisy" THEN asio_noisy + 1 ELSE asio_noisy - 1
            /\ mq' = Popped(t)
            /\ UNCHANGED <<terminate, block_count, round, scale>>
  <2>1. t = 0
    BY <1>3, <1>10
  <2> QED
    BY Zenon, <1>1, <1>10, <2>1 DEF HearsNotice
<1> QED
  BY Zenon, <1>4, <1>5, <1>6, <1>7, <1>8, <1>9, <1>10 DEF ReadMsg

(* The parts of the type invariant: the message queues apart.              *)
Places0 ==
  /\ q \in [Thread -> Seq(Actor)] /\ inject \in Seq(Actor)
  /\ pinned \subseteq MayPin /\ noisy \subseteq MayListen
  /\ asio \in {"wait", "wake", "stopped"}
  /\ cur \in [Thread -> Actor \cup {None}]
  /\ work \in 0..MaxWork

Flags0 ==
  /\ pc \in [Thread -> {"start", "top", "route", "actor", "noisy", "unnoisy", "inject", "victim", "found",
                        "sread", "idle", "drowsy", "dread", "asleep", "done"}]
  /\ block_sent \in [Sched -> BOOLEAN] /\ terminate \in [Thread -> BOOLEAN]

Counts0 ==
  /\ block_count \in Int /\ ack_token \in Nat /\ ack_count \in Int
  /\ asio_stoppable \in BOOLEAN /\ asio_noisy \in Int
  /\ active \in 0..N /\ disabled \in BOOLEAN

(* Together they are the type invariant.                                   *)
LEMMA TypedParts == Typed <=> Places0 /\ Flags0 /\ Counts0 /\ Queues(mq)
<1>1. Queues(mq) => mq \in [Thread -> Seq(Message)]
  BY Zenon DEF Queues
<1> QED
  BY Zenon, <1>1, QueuesTyped DEF Typed, TypeOK, Places0, Flags0, Counts0

(* The steps, one by one.                                                  *)
LEMMA Steps ==
  ASSUME [Next]_vars
  PROVE  \/ UNCHANGED vars
         \/ \E t \in Thread :
              \/ Send(t) \/ Pin(t) \/ Subscribe(t) \/ EventDestroy(t) \/ TellNoisy(t)
              \/ EndRun(t) \/ ReadMsg(t)
         \/ \E t \in Sched :
              \/ Begin(t) \/ Route(t) \/ StealInject(t) \/ StealVictim(t) \/ Found(t)
              \/ Quiet(t) \/ Again(t) \/ Resume(t) \/ Block(t) \/ Suspend(t)
         \/ Drowsy \/ FallAsleep \/ PinnedRoute \/ PinnedIdle \/ Shutdown \/ Event \/ EventWake
  BY Zenon, Threads DEF Next, SchedStep, PinnedStep, Run, Rest

(* The program counters and the flags stay in their types.                 *)
LEMMA FlagsStep ==
  ASSUME Typed, [Next]_vars
  PROVE  Flags0'
<1>0. Flags0 /\ P \in Thread /\ 0 \in Thread /\ \A t \in Sched : t \in Thread
  BY Zenon, TypedParts, Threads
<1> USE <1>0 DEF Flags0, Goto, GotoAndWakePinned
<1>1. CASE UNCHANGED vars
  BY <1>1 DEF vars
<1>2. ASSUME NEW t \in Thread, Send(t) PROVE Flags0'
  BY <1>2 DEF Send
<1>3. ASSUME NEW t \in Thread, Pin(t) PROVE Flags0'
  BY <1>3 DEF Pin
<1>4. ASSUME NEW t \in Thread, Subscribe(t) PROVE Flags0'
  BY <1>4 DEF Subscribe
<1>5. ASSUME NEW t \in Thread, EventDestroy(t) PROVE Flags0'
  BY <1>5 DEF EventDestroy
<1>6. ASSUME NEW t \in Thread, TellNoisy(t) PROVE Flags0'
  BY Zenon, <1>6 DEF TellNoisy
<1>7. ASSUME NEW t \in Thread, EndRun(t) PROVE Flags0'
  BY Zenon, <1>7 DEF EndRun
<1>8. ASSUME NEW t \in Thread, ReadMsg(t) PROVE Flags0'
  BY <1>8 DEF ReadMsg
<1>9. ASSUME NEW t \in Sched, Begin(t) PROVE Flags0'
  BY <1>9 DEF Begin
<1>10. ASSUME NEW t \in Sched, Route(t) PROVE Flags0'
  BY <1>10 DEF Route
<1>11. ASSUME NEW t \in Sched, StealInject(t) PROVE Flags0'
  BY <1>11 DEF StealInject
<1>12. ASSUME NEW t \in Sched, StealVictim(t) PROVE Flags0'
  BY <1>12 DEF StealVictim
<1>13. ASSUME NEW t \in Sched, Found(t) PROVE Flags0'
  BY Zenon, <1>13 DEF Found
<1>14. ASSUME NEW t \in Sched, Quiet(t) PROVE Flags0'
  BY <1>14 DEF Quiet
<1>15. ASSUME NEW t \in Sched, Again(t) PROVE Flags0'
  BY <1>15 DEF Again
<1>16. ASSUME NEW t \in Sched, Resume(t) PROVE Flags0'
  BY Zenon, <1>16 DEF Resume
<1>17. ASSUME NEW t \in Sched, Block(t) PROVE Flags0'
  BY Zenon, <1>17 DEF Block
<1>18. ASSUME NEW t \in Sched, Suspend(t) PROVE Flags0'
  BY Zenon, <1>18 DEF Suspend
<1>19. ASSUME Drowsy PROVE Flags0'
  BY <1>19 DEF Drowsy
<1>20. ASSUME FallAsleep PROVE Flags0'
  BY Zenon, <1>20 DEF FallAsleep
<1>21. ASSUME PinnedRoute PROVE Flags0'
  BY <1>21 DEF PinnedRoute
<1>22. ASSUME PinnedIdle PROVE Flags0'
  BY <1>22 DEF PinnedIdle
<1>23. ASSUME Shutdown PROVE Flags0'
  BY <1>23 DEF Shutdown
<1>24. ASSUME Event PROVE Flags0'
  BY <1>24 DEF Event
<1>25. ASSUME EventWake PROVE Flags0'
  BY <1>25 DEF EventWake
<1> QED
  BY Zenon, Steps, <1>1, <1>2, <1>3, <1>4, <1>5, <1>6, <1>7, <1>8, <1>9, <1>10, <1>11, <1>12, <1>13, <1>14, <1>15, <1>16, <1>17, <1>18, <1>19, <1>20, <1>21, <1>22, <1>23, <1>24, <1>25

(* So do the counters; the number of active threads is between 0 and N.    *)
LEMMA CountsStep ==
  ASSUME Typed, [Next]_vars
  PROVE  Counts0'
<1>0. Counts0 /\ Flags0 /\ N \in Nat /\ N > 0
  BY Zenon, TypedParts, Threads
<1>1. CASE UNCHANGED vars
  BY Zenon, <1>0, <1>1 DEF vars, Counts0, sched0, round, scale
<1> USE <1>0 DEF Counts0, sched0, round, scale, actors
<1>2. ASSUME NEW t \in Thread, Send(t) PROVE Counts0'
  BY Zenon, <1>2 DEF Send
<1>3. ASSUME NEW t \in Thread, Pin(t) PROVE Counts0'
  BY Zenon, <1>3 DEF Pin
<1>4. ASSUME NEW t \in Thread, Subscribe(t) PROVE Counts0'
  BY Zenon, <1>4 DEF Subscribe
<1>5. ASSUME NEW t \in Thread, EventDestroy(t) PROVE Counts0'
  BY <1>5 DEF EventDestroy
<1>6. ASSUME NEW t \in Thread, TellNoisy(t) PROVE Counts0'
  BY Zenon, <1>6 DEF TellNoisy
<1>7. ASSUME NEW t \in Thread, EndRun(t) PROVE Counts0'
  <2>1. PICK w \in BOOLEAN : active' \in Woken(t, w)
    BY Zenon, <1>7 DEF EndRun
  <2> QED
    BY <1>7, <2>1 DEF EndRun, Woken
<1>8. ASSUME NEW t \in Thread, ReadMsg(t) PROVE Counts0'
  <2>1. CASE Answers(t) \/ Refuses(t) \/ HearsEnd(t)
    BY Zenon, <2>1 DEF Answers, Refuses, HearsEnd
  <2>2. CASE StartsRound \/ HearsAnswer
    <3>1. /\ block_count' \in Int /\ ack_token' \in Nat /\ ack_count' \in Int
         /\ asio_noisy' \in Int /\ active' \in 0..N
      BY <2>2 DEF StartsRound, HearsAnswer
    <3>2. asio_stoppable' \in BOOLEAN /\ disabled' \in BOOLEAN
      BY Zenon, <2>2 DEF StartsRound, HearsAnswer
    <3> QED
      BY Zenon, <3>1, <3>2
  <2>3. CASE EndsRound("block") \/ EndsRound("unblock") \/ HearsNotice
    <3>1. /\ block_count' \in Int /\ ack_token' \in Nat /\ ack_count' \in Int
         /\ asio_noisy' \in Int /\ active' \in 0..N
      BY <2>3 DEF EndsRound, HearsNotice
    <3>2. asio_stoppable' \in BOOLEAN /\ disabled' \in BOOLEAN
      BY Zenon, <2>3 DEF EndsRound, HearsNotice
    <3> QED
      BY Zenon, <3>1, <3>2
  <2> QED
    BY Zenon, <1>8, ReadCases, <2>1, <2>2, <2>3
<1>9. ASSUME NEW t \in Sched, Begin(t) PROVE Counts0'
  BY <1>9 DEF Begin
<1>10. ASSUME NEW t \in Sched, Route(t) PROVE Counts0'
  BY <1>10 DEF Route
<1>11. ASSUME NEW t \in Sched, StealInject(t) PROVE Counts0'
  BY Zenon, <1>11 DEF StealInject
<1>12. ASSUME NEW t \in Sched, StealVictim(t) PROVE Counts0'
  BY Zenon, <1>12 DEF StealVictim
<1>13. ASSUME NEW t \in Sched, Found(t) PROVE Counts0'
  BY Zenon, <1>13 DEF Found
<1>14. ASSUME NEW t \in Sched, Quiet(t) PROVE Counts0'
  <2>1. /\ block_count' \in Int /\ ack_token' \in Nat /\ ack_count' \in Int
       /\ asio_noisy' \in Int /\ active' \in 0..N
    BY <1>14 DEF Quiet
  <2>2. asio_stoppable' \in BOOLEAN /\ disabled' \in BOOLEAN
    BY Zenon, <1>14 DEF Quiet
  <2> QED
    BY Zenon, <2>1, <2>2
<1>15. ASSUME NEW t \in Sched, Again(t) PROVE Counts0'
  BY <1>15 DEF Again
<1>16. ASSUME NEW t \in Sched, Resume(t) PROVE Counts0'
  BY Zenon, <1>16 DEF Resume
<1>17. ASSUME NEW t \in Sched, Block(t) PROVE Counts0'
  BY <1>17 DEF Block
<1>18. ASSUME NEW t \in Sched, Suspend(t) PROVE Counts0'
  <2>1. /\ block_count' \in Int /\ ack_token' \in Nat /\ ack_count' \in Int
       /\ asio_noisy' \in Int /\ active' \in 0..N
    BY <1>18, QuiescenceAssumption DEF Suspend
  <2>2. asio_stoppable' \in BOOLEAN /\ disabled' \in BOOLEAN
    BY Zenon, <1>18 DEF Suspend
  <2> QED
    BY Zenon, <2>1, <2>2
<1>19. ASSUME Drowsy PROVE Counts0'
  BY <1>19 DEF Drowsy
<1>20. ASSUME FallAsleep PROVE Counts0'
  BY <1>20 DEF FallAsleep
<1>21. ASSUME PinnedRoute PROVE Counts0'
  BY <1>21 DEF PinnedRoute
<1>22. ASSUME PinnedIdle PROVE Counts0'
  BY Zenon, <1>22 DEF PinnedIdle
<1>23. ASSUME Shutdown PROVE Counts0'
  BY <1>23 DEF Shutdown
<1>24. ASSUME Event PROVE Counts0'
  BY <1>24 DEF Event
<1>25. ASSUME EventWake PROVE Counts0'
  BY <1>25 DEF EventWake
<1> QED
  BY Zenon, Steps, <1>1, <1>2, <1>3, <1>4, <1>5, <1>6, <1>7, <1>8, <1>9, <1>10, <1>11, <1>12, <1>13, <1>14, <1>15, <1>16, <1>17, <1>18, <1>19, <1>20, <1>21, <1>22, <1>23, <1>24, <1>25

(* The message queues.                                                     *)
LEMMA QueuesStep ==
  ASSUME Typed, [Next]_vars
  PROVE  Queues(mq')
<1>0. Queues(mq) /\ \A t \in Sched : t \in Thread
  BY Zenon, TypedParts, Threads
<1>m. \A type \in {"block", "unblock", "cnf", "ack", "terminate", "noisy", "unnoisy"}, k \in Nat :
        Msg(type, k) \in Message /\ Msg(type, k).type = type
  BY DEF Msg, Message
<1>k. ack_token \in Nat /\ ack_token' \in Nat /\ 0 \in Nat
  BY TypedParts, CountsStep DEF Counts0
<1>1. CASE UNCHANGED vars
  BY Zenon, <1>0, <1>1 DEF vars
<1>2. ASSUME NEW t \in Thread, Send(t) PROVE Queues(mq')
  BY Zenon, <1>0, <1>2 DEF Send
<1>3. ASSUME NEW t \in Thread, Pin(t) PROVE Queues(mq')
  BY Zenon, <1>0, <1>3 DEF Pin
<1>4. ASSUME NEW t \in Thread, Subscribe(t) PROVE Queues(mq')
  BY Zenon, <1>0, <1>4 DEF Subscribe
<1>5. ASSUME NEW t \in Thread, EventDestroy(t) PROVE Queues(mq')
  BY Zenon, <1>0, <1>5 DEF EventDestroy
<1>6. ASSUME NEW t \in Thread, TellNoisy(t) PROVE Queues(mq')
  <2>1. Msg(pc[t], 0) \in Message
    BY SMT, <1>m, <1>k, <1>6 DEF TellNoisy
  <2> QED
    BY Zenon, <1>0, <2>1, PushZero, <1>6 DEF TellNoisy
<1>7. ASSUME NEW t \in Thread, EndRun(t) PROVE Queues(mq')
  BY Zenon, <1>0, <1>7 DEF EndRun
<1>8. ASSUME NEW t \in Thread, ReadMsg(t) PROVE Queues(mq')
  <2>0. mq[t] # <<>> /\ Queues(Popped(t)) /\ Head(mq[t]) \in Message
    BY Zenon, <1>0, <1>8, ReadCases, PopOne DEF Popped
  <2>1. CASE Answers(t)
    <3>1. Msg("ack", Head(mq[t]).token) \in Message
      BY <1>m, <2>0 DEF Message
    <3> QED
      BY Zenon, <2>0, <2>1, <3>1, PushZero DEF Answers
  <2>2. CASE Refuses(t) \/ HearsEnd(t)
    BY Zenon, <2>0, <2>2 DEF Refuses, HearsEnd
  <2>3. CASE t = 0 /\ StartsRound
    <3>1. Queues([u \in Thread |-> Append(Popped(0)[u], Msg("cnf", ack_token'))])
      BY Zenon, <1>m, <1>k, <2>0, <2>3, PushAll
    <3> QED
      BY Zenon, <2>3, <3>1 DEF StartsRound
  <2>4. CASE t = 0 /\ (EndsRound("block") \/ EndsRound("unblock") \/ HearsAnswer \/ HearsNotice)
    BY Zenon, <2>0, <2>4 DEF EndsRound, HearsAnswer, HearsNotice
  <2> QED
    BY Zenon, <1>8, ReadCases, <2>1, <2>2, <2>3, <2>4
<1>9. ASSUME NEW t \in Sched, Begin(t) PROVE Queues(mq')
  BY Zenon, <1>0, <1>9 DEF Begin
<1>10. ASSUME NEW t \in Sched, Route(t) PROVE Queues(mq')
  BY Zenon, <1>0, <1>10 DEF Route
<1>11. ASSUME NEW t \in Sched, StealInject(t) PROVE Queues(mq')
  BY Zenon, <1>0, <1>11 DEF StealInject
<1>12. ASSUME NEW t \in Sched, StealVictim(t) PROVE Queues(mq')
  BY Zenon, <1>0, <1>12 DEF StealVictim
<1>13. ASSUME NEW t \in Sched, Found(t) PROVE Queues(mq')
  <2>1. Msg("unblock", 0) \in Message
    BY Zenon, <1>m, <1>k
  <2> QED
    BY Zenon, <1>0, <2>1, PushZero, <1>13 DEF Found
<1>14. ASSUME NEW t \in Sched, Quiet(t) PROVE Queues(mq')
  <2>1. Queues([u \in Thread |-> Append(mq[u], Msg("terminate", 0))])
    BY Zenon, <1>0, <1>m, <1>k, PushAll
  <2>2. Queues([u \in Thread |-> Append(mq[u], Msg("cnf", ack_token'))])
    BY SMT, <1>0, <1>m, <1>k, PushAll
  <2>3. \/ mq' = mq
        \/ mq' = [u \in Thread |-> Append(mq[u], Msg("terminate", 0))]
        \/ mq' = [u \in Thread |-> Append(mq[u], Msg("cnf", ack_token'))]
    BY Zenon, <1>14 DEF Quiet, ToAll
  <2> QED
    BY Zenon, <1>0, <2>1, <2>2, <2>3
<1>15. ASSUME NEW t \in Sched, Again(t) PROVE Queues(mq')
  BY Zenon, <1>0, <1>15 DEF Again
<1>16. ASSUME NEW t \in Sched, Resume(t) PROVE Queues(mq')
  BY Zenon, <1>0, <1>16 DEF Resume
<1>17. ASSUME NEW t \in Sched, Block(t) PROVE Queues(mq')
  <2>1. Msg("block", 0) \in Message
    BY SMT, <1>m, <1>k
  <2> QED
    BY Zenon, <1>0, <2>1, PushZero, <1>17 DEF Block
<1>18. ASSUME NEW t \in Sched, Suspend(t) PROVE Queues(mq')
  BY SMT, <1>0, <1>18 DEF Suspend
<1>19. ASSUME Drowsy PROVE Queues(mq')
  BY Zenon, <1>0, <1>19 DEF Drowsy
<1>20. ASSUME FallAsleep PROVE Queues(mq')
  BY Zenon, <1>0, <1>20 DEF FallAsleep
<1>21. ASSUME PinnedRoute PROVE Queues(mq')
  BY Zenon, <1>0, <1>21 DEF PinnedRoute
<1>22. ASSUME PinnedIdle PROVE Queues(mq')
  BY Zenon, <1>0, <1>22 DEF PinnedIdle
<1>23. ASSUME Shutdown PROVE Queues(mq')
  BY Zenon, <1>0, <1>23 DEF Shutdown
<1>24. ASSUME Event PROVE Queues(mq')
  BY Zenon, <1>0, <1>24 DEF Event
<1>25. ASSUME EventWake PROVE Queues(mq')
  BY Zenon, <1>0, <1>25 DEF EventWake
<1> QED
  BY Zenon, Steps, <1>1, <1>2, <1>3, <1>4, <1>5, <1>6, <1>7, <1>8, <1>9, <1>10, <1>11, <1>12, <1>13, <1>14, <1>15, <1>16, <1>17, <1>18, <1>19, <1>20, <1>21, <1>22, <1>23, <1>24, <1>25

(* What the operations on the places of actors make of typed ones.         *)
LEMMA TypedMoves ==
  /\ \A s \in Seq(Actor), a \in Actor : Append(s, a) \in Seq(Actor)
  /\ \A s \in Seq(Actor) : s # <<>> => Tail(s) \in Seq(Actor) /\ Head(s) \in Actor
  /\ \A qs \in [Thread -> Seq(Actor)], t \in Thread, s \in Seq(Actor) :
       /\ qs[t] \in Seq(Actor)
       /\ [qs EXCEPT ![t] = s] \in [Thread -> Seq(Actor)]
  /\ \A at \in [Thread -> Actor \cup {None}], t \in Thread, a \in Actor \cup {None} :
       /\ at[t] \in Actor \cup {None}
       /\ [at EXCEPT ![t] = a] \in [Thread -> Actor \cup {None}]
<1>1. \A s \in Seq(Actor), a \in Actor : Append(s, a) \in Seq(Actor)
  OBVIOUS
<1>2. \A s \in Seq(Actor) : s # <<>> => Tail(s) \in Seq(Actor) /\ Head(s) \in Actor
  OBVIOUS
<1> QED
  BY Zenon, <1>1, <1>2

(* The next actor, and the queues that are left, are typed.                *)
LEMMA TookTyped ==
  ASSUME Typed, NEW t \in Thread, NEW k, Took(t, k)
  PROVE  k.q \in [Thread -> Seq(Actor)] /\ k.inject \in Seq(Actor) /\ k.actor \in Actor \cup {None}
<1>0. q \in [Thread -> Seq(Actor)] /\ inject \in Seq(Actor)
  BY Zenon, TypedParts DEF Places0
<1>1. CASE k.actor = None /\ k.q = q /\ k.inject = inject
  BY Zenon, <1>0, <1>1
<1>2. CASE /\ q[t] # <<>> /\ k.actor = Head(q[t])
           /\ k.q = [q EXCEPT ![t] = Tail(@)] /\ k.inject = inject
  BY <1>0, <1>2
<1>3. CASE /\ inject # <<>> /\ k.actor = Head(inject)
           /\ k.q = q /\ k.inject = Tail(inject)
  BY <1>0, <1>3
<1> QED
  BY Zenon, <1>1, <1>2, <1>3 DEF Took

(* The queues and the actors stay in their types.                          *)
LEMMA PlacesStep ==
  ASSUME Typed, Control, [Next]_vars
  PROVE  Places0'
<1>0. Places0 /\ P \in Thread /\ 0 \in Thread /\ MayPin \subseteq Actor /\ MaxWork \in Nat
      /\ (\A t \in Sched : t \in Thread)
  BY Zenon, TypedParts, Threads, QuiescenceAssumption
<1>1. CASE UNCHANGED vars
  BY Zenon, <1>0, <1>1 DEF vars, queues, actors, Places0
<1> USE <1>0 DEF Places0, queues, actors
<1>2. ASSUME NEW t \in Thread, Send(t) PROVE Places0'
  BY <1>2 DEF Send
<1>3. ASSUME NEW t \in Thread, Pin(t) PROVE Places0'
  BY <1>3 DEF Pin
<1>4. ASSUME NEW t \in Thread, Subscribe(t) PROVE Places0'
  BY <1>4 DEF Subscribe
<1>5. ASSUME NEW t \in Thread, EventDestroy(t) PROVE Places0'
  BY Zenon, <1>5 DEF EventDestroy
<1>6. ASSUME NEW t \in Thread, TellNoisy(t) PROVE Places0'
  BY Zenon, <1>6 DEF TellNoisy
<1>7. ASSUME NEW t \in Thread, EndRun(t) PROVE Places0'
  <2>1. PICK k \in {Pop(t), PopGlobal(t)} :
          /\ Took(t, k) /\ inject' = k.inject
          /\ \/ q' = k.q /\ cur' = [cur EXCEPT ![t] = k.actor]
             \/ /\ k.actor # None
                /\ q' = [k.q EXCEPT ![t] = Append(@, cur[t])] /\ cur' = [cur EXCEPT ![t] = k.actor]
             \/ k.actor = None /\ q' = k.q /\ cur' = cur
    BY Zenon, <1>7, EndRunCases
  <2>2. k.q \in [Thread -> Seq(Actor)] /\ k.inject \in Seq(Actor) /\ k.actor \in Actor \cup {None}
    BY Zenon, <2>1, TookTyped
  <2>3. cur[t] \in Actor
    BY <1>7 DEF EndRun, Control
  <2>4. q' \in [Thread -> Seq(Actor)] /\ inject' \in Seq(Actor) /\ cur' \in [Thread -> Actor \cup {None}]
    <3>1. [cur EXCEPT ![t] = k.actor] \in [Thread -> Actor \cup {None}]
      BY SMT, <2>2, TypedMoves
    <3>2. [k.q EXCEPT ![t] = Append(@, cur[t])] \in [Thread -> Seq(Actor)]
      BY <2>2, <2>3
    <3> QED
      BY Zenon, <2>1, <2>2, <3>1, <3>2
  <2>5. UNCHANGED <<pinned, noisy, asio>> /\ work' \in 0..MaxWork
    BY <1>7 DEF EndRun
  <2> QED
    BY Zenon, <2>4, <2>5
<1>8. ASSUME NEW t \in Thread, ReadMsg(t) PROVE Places0'
  BY Zenon, <1>8 DEF ReadMsg
<1>9. ASSUME NEW t \in Sched, Begin(t) PROVE Places0'
  <2>1. /\ PopGlobal(t).q \in [Thread -> Seq(Actor)] /\ PopGlobal(t).inject \in Seq(Actor)
        /\ PopGlobal(t).actor \in Actor \cup {None}
    BY Zenon, Takes, TookTyped
  <2> QED
    BY Zenon, <1>9, <2>1 DEF Begin
<1>10. ASSUME NEW t \in Sched, Route(t) PROVE Places0'
  <2>1. /\ PopGlobal(t).q \in [Thread -> Seq(Actor)] /\ PopGlobal(t).inject \in Seq(Actor)
        /\ PopGlobal(t).actor \in Actor \cup {None}
    BY Zenon, Takes, TookTyped
  <2>2. CASE cur[t] \in pinned
    <3>1. cur[t] \in Actor
      BY <2>2
    <3>2. [PopGlobal(t).q EXCEPT ![P] = Append(@, cur[t])] \in [Thread -> Seq(Actor)]
      BY <2>1, <3>1
    <3>3. [cur EXCEPT ![t] = PopGlobal(t).actor] \in [Thread -> Actor \cup {None}]
      BY SMT, <2>1, TypedMoves
    <3> QED
      BY Zenon, <1>10, <2>1, <2>2, <3>2, <3>3 DEF Route
  <2>3. CASE cur[t] \notin pinned
    BY Zenon, <1>10, <2>3 DEF Route
  <2> QED
    BY Zenon, <2>2, <2>3
<1>11. ASSUME NEW t \in Sched, StealInject(t) PROVE Places0'
  BY Zenon, <1>11, TypedMoves DEF StealInject
<1>12. ASSUME NEW t \in Sched, StealVictim(t) PROVE Places0'
  <2>1. CASE UNCHANGED <<q, cur>>
    BY Zenon, <1>12, <2>1 DEF StealVictim
  <2>2. CASE \E v \in Sched : /\ q[v] # <<>>
                             /\ cur' = [cur EXCEPT ![t] = Head(q[v])]
                             /\ q' = [q EXCEPT ![v] = Tail(@)]
    <3>1. PICK v \in Sched : /\ q[v] # <<>>
                             /\ cur' = [cur EXCEPT ![t] = Head(q[v])]
                             /\ q' = [q EXCEPT ![v] = Tail(@)]
      BY Zenon, <2>2
    <3>2. Tail(q[v]) \in Seq(Actor) /\ Head(q[v]) \in Actor
      BY Zenon, <3>1, TypedMoves
    <3>3. q' \in [Thread -> Seq(Actor)]
      BY <3>1, <3>2
    <3>4. cur' \in [Thread -> Actor \cup {None}]
      BY <3>1, <3>2
    <3> QED
      BY Zenon, <1>12, <3>3, <3>4 DEF StealVictim
  <2> QED
    BY Zenon, <1>12, <2>1, <2>2 DEF StealVictim
<1>13. ASSUME NEW t \in Sched, Found(t) PROVE Places0'
  <2>1. CASE cur[t] \in pinned
    BY Zenon, <1>13, <2>1, TypedMoves DEF Found
  <2>2. CASE cur[t] \notin pinned
    BY SMT, <1>13, <2>2, TypedMoves DEF Found
  <2> QED
    BY Zenon, <2>1, <2>2
<1>14. ASSUME NEW t \in Sched, Quiet(t) PROVE Places0'
  BY <1>14 DEF Quiet
<1>15. ASSUME NEW t \in Sched, Again(t) PROVE Places0'
  BY Zenon, <1>15 DEF Again
<1>16. ASSUME NEW t \in Sched, Resume(t) PROVE Places0'
  BY Zenon, <1>16 DEF Resume
<1>17. ASSUME NEW t \in Sched, Block(t) PROVE Places0'
  BY <1>17 DEF Block
<1>18. ASSUME NEW t \in Sched, Suspend(t) PROVE Places0'
  BY <1>18 DEF Suspend
<1>19. ASSUME Drowsy PROVE Places0'
  BY SMT, <1>19, TypedMoves DEF Drowsy
<1>20. ASSUME FallAsleep PROVE Places0'
  BY <1>20 DEF FallAsleep
<1>21. ASSUME PinnedRoute PROVE Places0'
  <2>1. cur[P] \in Actor \cup {None} /\ q[P] \in Seq(Actor)
    BY Zenon, TypedMoves
  <2>2. q[P] # <<>> => [q EXCEPT ![P] = Tail(@)] \in [Thread -> Seq(Actor)] /\ Head(q[P]) \in Actor
    BY <2>1
  <2>3. q[P] # <<>> => [cur EXCEPT ![P] = Head(q[P])] \in [Thread -> Actor \cup {None}]
    BY Zenon, <2>2, TypedMoves
  <2>4. [cur EXCEPT ![P] = None] \in [Thread -> Actor \cup {None}]
    BY SMT, TypedMoves
  <2>5. cur[P] # None => Append(inject, cur[P]) \in Seq(Actor)
    BY SMT, <2>1, TypedMoves
  <2> QED
    BY Zenon, <1>21, <2>2, <2>3, <2>4, <2>5 DEF PinnedRoute
<1>22. ASSUME PinnedIdle PROVE Places0'
  BY <1>22 DEF PinnedIdle
<1>23. ASSUME Shutdown PROVE Places0'
  BY <1>23 DEF Shutdown
<1>24. ASSUME Event PROVE Places0'
  <2>1. \A a \in noisy : a \in Actor
    BY QuiescenceAssumption
  <2>2. work' \in 0..MaxWork
    BY <1>24 DEF Event
  <2> QED
    <3>1. PICK a \in noisy : inject' = IF a \in Scheduled THEN inject ELSE Append(inject, a)
      BY Zenon, <1>24 DEF Event
    <3>2. inject' \in Seq(Actor)
      BY Zenon, <2>1, <3>1, TypedMoves
    <3> QED
      BY Zenon, <1>24, <2>2, <3>2 DEF Event
<1>25. ASSUME EventWake PROVE Places0'
  BY Zenon, <1>25 DEF EventWake
<1> QED
  BY Zenon, Steps, <1>1, <1>2, <1>3, <1>4, <1>5, <1>6, <1>7, <1>8, <1>9, <1>10, <1>11, <1>12, <1>13, <1>14, <1>15, <1>16, <1>17, <1>18, <1>19, <1>20, <1>21, <1>22, <1>23, <1>24, <1>25

(* A thread keeps its actor while it runs it.                              *)
LEMMA ControlStep ==
  ASSUME Typed, Control, [Next]_vars
  PROVE  Control'
<1>0. /\ pc \in [Thread -> {"start", "top", "route", "actor", "noisy", "unnoisy", "inject", "victim", "found",
                           "sread", "idle", "drowsy", "dread", "asleep", "done"}]
      /\ cur \in [Thread -> Actor \cup {None}]
      /\ P \in Thread /\ 0 \in Thread /\ (\A t \in Sched : t \in Thread)
  BY Zenon, TypedParts, Threads DEF Places0, Flags0
<1>1. CASE UNCHANGED vars
  BY Zenon, <1>1 DEF vars, Control
<1>a. \A s \in Seq(Actor) : s # <<>> => Head(s) # None
  BY QuiescenceAssumption
<1>h. inject \in Seq(Actor) /\ \A v \in Thread : q[v] \in Seq(Actor)
  BY Zenon, TypedParts DEF Places0
<1> USE <1>0 DEF Control, Goto, GotoAndWakePinned
<1>2. ASSUME NEW t \in Thread, Send(t) PROVE Control'
  BY Zenon, <1>2 DEF Send
<1>3. ASSUME NEW t \in Thread, Pin(t) PROVE Control'
  BY Zenon, <1>3 DEF Pin
<1>4. ASSUME NEW t \in Thread, Subscribe(t) PROVE Control'
  BY <1>4 DEF Subscribe
<1>5. ASSUME NEW t \in Thread, EventDestroy(t) PROVE Control'
  BY <1>5 DEF EventDestroy
<1>6. ASSUME NEW t \in Thread, TellNoisy(t) PROVE Control'
  BY <1>6 DEF TellNoisy
<1>7. ASSUME NEW t \in Thread, EndRun(t) PROVE Control'
  <2>1. \A u \in Thread : u # t => cur'[u] = cur[u]
    BY <1>7 DEF EndRun
  <2> QED
    BY <1>7, <2>1 DEF EndRun
<1>8. ASSUME NEW t \in Thread, ReadMsg(t) PROVE Control'
  BY Zenon, <1>8 DEF ReadMsg
<1>9. ASSUME NEW t \in Sched, Begin(t) PROVE Control'
  BY Zenon, <1>9 DEF Begin
<1>10. ASSUME NEW t \in Sched, Route(t) PROVE Control'
  BY <1>10 DEF Route
<1>11. ASSUME NEW t \in Sched, StealInject(t) PROVE Control'
  <2>1. inject # <<>> => Head(inject) # None
    BY Zenon, <1>a, <1>h
  <2> QED
    BY <1>11, <2>1 DEF StealInject
<1>12. ASSUME NEW t \in Sched, StealVictim(t) PROVE Control'
  <2>1. \A v \in Thread : q[v] # <<>> => Head(q[v]) # None
    BY Zenon, <1>a, <1>h
  <2>2. CASE pc' = [pc EXCEPT ![t] = "sread"] /\ cur' = cur
    BY <2>2
  <2>3. CASE pc' = [pc EXCEPT ![t] = "found"] /\ \E v \in Thread : q[v] # <<>> /\ cur' = [cur EXCEPT ![t] = Head(q[v])]
    BY <2>1, <2>3
  <2> QED
    BY Zenon, <1>12, <2>2, <2>3 DEF StealVictim
<1>13. ASSUME NEW t \in Sched, Found(t) PROVE Control'
  BY <1>13 DEF Found
<1>14. ASSUME NEW t \in Sched, Quiet(t) PROVE Control'
  BY <1>14 DEF Quiet
<1>15. ASSUME NEW t \in Sched, Again(t) PROVE Control'
  BY <1>15 DEF Again
<1>16. ASSUME NEW t \in Sched, Resume(t) PROVE Control'
  BY <1>16 DEF Resume
<1>17. ASSUME NEW t \in Sched, Block(t) PROVE Control'
  BY Zenon, <1>17 DEF Block
<1>18. ASSUME NEW t \in Sched, Suspend(t) PROVE Control'
  BY <1>18 DEF Suspend
<1>19. ASSUME Drowsy PROVE Control'
  <2>1. inject # <<>> => Head(inject) # None
    BY Zenon, <1>a, <1>h
  <2> QED
    BY <1>19, <2>1 DEF Drowsy
<1>20. ASSUME FallAsleep PROVE Control'
  BY <1>20 DEF FallAsleep
<1>21. ASSUME PinnedRoute PROVE Control'
  BY <1>21 DEF PinnedRoute
<1>22. ASSUME PinnedIdle PROVE Control'
  BY Zenon, <1>22 DEF PinnedIdle
<1>23. ASSUME Shutdown PROVE Control'
  BY Zenon, <1>23 DEF Shutdown
<1>24. ASSUME Event PROVE Control'
  BY Zenon, <1>24 DEF Event
<1>25. ASSUME EventWake PROVE Control'
  BY Zenon, <1>25 DEF EventWake
<1> QED
  BY Zenon, Steps, <1>1, <1>2, <1>3, <1>4, <1>5, <1>6, <1>7, <1>8, <1>9, <1>10, <1>11, <1>12, <1>13, <1>14, <1>15, <1>16, <1>17, <1>18, <1>19, <1>20, <1>21, <1>22, <1>23, <1>24, <1>25

(* The type invariant is preserved.                                        *)
LEMMA TypedStep ==
  ASSUME Typed, Control, [Next]_vars
  PROVE  Typed'
<1>1. Places0' /\ Flags0' /\ Counts0' /\ Queues(mq')
  BY Zenon, PlacesStep, FlagsStep, CountsStep, QueuesStep
<1>2. (Typed <=> Places0 /\ Flags0 /\ Counts0 /\ Queues(mq))'
  BY TypedParts, PTL
<1> QED
  BY <1>1, <1>2

-----------------------------------------------------------------------------
(***************************************************************************)
(* Actors move from one place to another.                                  *)
(***************************************************************************)
Arranged(qs, inj, at) ==
  /\ qs \in [Thread -> Seq(Actor)] /\ inj \in Seq(Actor) /\ at \in [Thread -> Actor \cup {None}]
  /\ Distinct(qs, inj, at)

(* A thread takes an actor from a queue; the one it had is nowhere then.   *)
LEMMA TakeQueue ==
  ASSUME NEW qs, NEW inj, NEW at, Arranged(qs, inj, at), NEW t \in Thread, NEW v \in Thread, qs[v] # <<>>
  PROVE  LET r == [qs EXCEPT ![v] = Tail(@)]
             b == [at EXCEPT ![t] = Head(qs[v])]
         IN  Arranged(r, inj, b) /\ (at[t] # None => Absent(at[t], r, inj, b))
<1> DEFINE r == [qs EXCEPT ![v] = Tail(@)]
           b == [at EXCEPT ![t] = Head(qs[v])]
<1>0. /\ qs \in [Thread -> Seq(Actor)] /\ inj \in Seq(Actor) /\ at \in [Thread -> Actor \cup {None}]
      /\ None \notin Actor
  BY Zenon, QuiescenceAssumption DEF Arranged
<1>d. /\ OneEach(at) /\ NotQueued(qs, at) /\ QueuedOnce(qs)
      /\ Apart(qs, inj) /\ NotInjected(inj, at) /\ InjectedOnce(inj)
  BY Zenon DEF Arranged, Distinct
<1>1. /\ qs[v] \in Seq(Actor) /\ Head(qs[v]) = qs[v][1] /\ 1 \in 1..Len(qs[v]) /\ Head(qs[v]) \in Actor
      /\ Tail(qs[v]) \in Seq(Actor)
      /\ \A i \in 1..Len(Tail(qs[v])) : i + 1 \in 1..Len(qs[v]) /\ Tail(qs[v])[i] = qs[v][i + 1]
  BY <1>0
<1>2. /\ r \in [Thread -> Seq(Actor)] /\ b \in [Thread -> Actor \cup {None}]
      /\ r[v] = Tail(qs[v]) /\ b[t] = qs[v][1]
      /\ \A u \in Thread : (u # v => r[u] = qs[u]) /\ (u # t => b[u] = at[u])
  BY Zenon, <1>0, <1>1
<1> HIDE DEF r, b
<1>e. 1 \in 1..Len(qs[v])
  BY Zenon, <1>1
<1>f. b[t] = qs[v][1] /\ \A u \in Thread : u # t => b[u] = at[u]
  BY Zenon, <1>2
<1>3. \A u \in Thread : \A i \in 1..Len(r[u]) :
        \E j \in 1..Len(qs[u]) : /\ r[u][i] = qs[u][j]
                                 /\ j = IF u = v THEN i + 1 ELSE i
  BY <1>1, <1>2
<1>4. ASSUME NEW u \in Thread, NEW i \in 1..Len(r[u])
      PROVE  /\ r[u][i] # qs[v][1] /\ (\A w \in Thread : r[u][i] # at[w])
             /\ (\A j \in 1..Len(inj) : r[u][i] # inj[j])
  <2>1. PICK j \in 1..Len(qs[u]) : r[u][i] = qs[u][j] /\ j = IF u = v THEN i + 1 ELSE i
    BY Zenon, <1>3
  <2>2. ~(u = v /\ j = 1)
    BY <1>2, <2>1
  <2>3. qs[u][j] = qs[v][1] => u = v /\ j = 1
    BY Zenon, <1>e, <1>d DEF QueuedOnce
  <2>4. \A w \in Thread : r[u][i] # at[w]
    BY Zenon, <1>d, <2>1 DEF NotQueued
  <2>5. \A k \in 1..Len(inj) : r[u][i] # inj[k]
    BY Zenon, <1>d, <2>1 DEF Apart
  <2> QED
    BY Zenon, <2>1, <2>2, <2>3, <2>4, <2>5
<1>5. ASSUME NEW u \in Thread, NEW w \in Thread, NEW i \in 1..Len(r[u]), NEW j \in 1..Len(r[w]),
             r[u][i] = r[w][j]
      PROVE  u = w /\ i = j
  <2>1. PICK k \in 1..Len(qs[u]) : r[u][i] = qs[u][k] /\ k = IF u = v THEN i + 1 ELSE i
    BY Zenon, <1>3
  <2>2. PICK l \in 1..Len(qs[w]) : r[w][j] = qs[w][l] /\ l = IF w = v THEN j + 1 ELSE j
    BY Zenon, <1>3
  <2>3. qs[u][k] = qs[w][l] => u = w /\ k = l
    BY SMT, <1>d DEF QueuedOnce
  <2>4. u = w /\ k = l
    BY Zenon, <2>1, <2>2, <2>3, <1>5
  <2> QED
    BY <2>1, <2>2, <2>4
<1>6. OneEach(b)
  <2>1. \A u \in Thread : at[u] # qs[v][1]
    BY Zenon, <1>e, <1>d DEF NotQueued
  <2>2. \A u \in Thread : u # t => b[u] # b[t]
    BY Zenon, <1>f, <2>1
  <2>3. \A u, w \in Thread : u # t /\ w # t /\ u # w /\ b[u] # None => b[u] # b[w]
    BY Zenon, <1>f, <1>d DEF OneEach
  <2> QED
    BY ZenonT(30), <2>2, <2>3 DEF OneEach
<1>7. NotInjected(inj, b)
  <2>1. \A i \in 1..Len(inj) : inj[i] # qs[v][1]
    BY Zenon, <1>e, <1>d DEF Apart
  <2> QED
    BY Zenon, <1>f, <2>1, <1>d DEF NotInjected
<1>8. NotQueued(r, b)
  <2> SUFFICES ASSUME NEW u \in Thread, NEW w \in Thread, NEW i \in 1..Len(r[u]) PROVE r[u][i] # b[w]
    BY Zenon DEF NotQueued
  <2>1. b[w] = qs[v][1] \/ b[w] = at[w]
    BY Zenon, <1>f
  <2> QED
    BY Zenon, <2>1, <1>4
<1>9. QueuedOnce(r) /\ Apart(r, inj)
  <2>1. QueuedOnce(r)
    BY Zenon, <1>5 DEF QueuedOnce
  <2>2. Apart(r, inj)
    BY Zenon, <1>4 DEF Apart
  <2> QED
    BY Zenon, <2>1, <2>2
<1>10. Distinct(r, inj, b)
  BY Zenon, <1>d, <1>6, <1>7, <1>8, <1>9 DEF Distinct
<1>11. ASSUME at[t] # None PROVE Absent(at[t], r, inj, b)
  <2>1. b[t] # at[t]
    BY SMT, <1>e, <1>f, <1>d DEF NotQueued
  <2>2. \A u \in Thread : b[u] # at[t]
    BY Zenon, <1>f, <1>11, <2>1, <1>d DEF OneEach
  <2>3. \A i \in 1..Len(inj) : inj[i] # at[t]
    BY Zenon, <1>d DEF NotInjected
  <2> QED
    BY Zenon, <1>4, <2>2, <2>3 DEF Absent
<1> QED
  BY Zenon, <1>0, <1>2, <1>10, <1>11 DEF Arranged, r, b

(* The same of the inject queue.                                           *)
LEMMA TakeInject ==
  ASSUME NEW qs, NEW inj, NEW at, Arranged(qs, inj, at), NEW t \in Thread, inj # <<>>
  PROVE  LET r == Tail(inj)
             b == [at EXCEPT ![t] = Head(inj)]
         IN  Arranged(qs, r, b) /\ (at[t] # None => Absent(at[t], qs, r, b))
<1> DEFINE r == Tail(inj)
           b == [at EXCEPT ![t] = Head(inj)]
<1>0. /\ qs \in [Thread -> Seq(Actor)] /\ inj \in Seq(Actor) /\ at \in [Thread -> Actor \cup {None}]
      /\ None \notin Actor
  BY Zenon, QuiescenceAssumption DEF Arranged
<1>d. /\ OneEach(at) /\ NotQueued(qs, at) /\ QueuedOnce(qs)
      /\ Apart(qs, inj) /\ NotInjected(inj, at) /\ InjectedOnce(inj)
  BY Zenon DEF Arranged, Distinct
<1>1. /\ Head(inj) = inj[1] /\ 1 \in 1..Len(inj) /\ Head(inj) \in Actor /\ r \in Seq(Actor)
      /\ \A i \in 1..Len(r) : i \in Int /\ i + 1 \in 1..Len(inj) /\ i + 1 # 1 /\ r[i] = inj[i + 1]
  BY <1>0
<1>2. /\ b \in [Thread -> Actor \cup {None}] /\ b[t] = inj[1]
      /\ \A u \in Thread : u # t => b[u] = at[u]
  BY Zenon, <1>0, <1>1
<1> HIDE DEF r, b
<1>e. 1 \in 1..Len(inj)
  BY Zenon, <1>1
<1>f. b[t] = inj[1] /\ \A u \in Thread : u # t => b[u] = at[u]
  BY Zenon, <1>2
<1>g. \A i \in 1..Len(r) : i \in Int /\ i + 1 \in 1..Len(inj) /\ i + 1 # 1 /\ r[i] = inj[i + 1]
  BY SMT, <1>1
<1>3. \A i \in 1..Len(r) : r[i] # inj[1]
  BY Zenon, <1>e, <1>g, <1>d DEF InjectedOnce
<1>4. InjectedOnce(r)
  <2>1. \A i, j \in 1..Len(r) : inj[i + 1] = inj[j + 1] => i + 1 = j + 1
    BY Zenon, <1>g, <1>d DEF InjectedOnce
  <2> QED
    BY <1>g, <2>1 DEF InjectedOnce
<1>5. Apart(qs, r)
  BY SMT, <1>g, <1>d DEF Apart
<1>6. NotQueued(qs, b)
  <2>1. \A u \in Thread : \A i \in 1..Len(qs[u]) : qs[u][i] # inj[1]
    BY Zenon, <1>e, <1>d DEF Apart
  <2>2. \A u, w \in Thread : \A i \in 1..Len(qs[u]) : qs[u][i] # at[w]
    BY Zenon, <1>d DEF NotQueued
  <2> SUFFICES ASSUME NEW u \in Thread, NEW w \in Thread, NEW i \in 1..Len(qs[u]) PROVE qs[u][i] # b[w]
    BY Zenon DEF NotQueued
  <2>3. b[w] = inj[1] \/ b[w] = at[w]
    BY Zenon, <1>f
  <2> QED
    BY Zenon, <2>1, <2>2, <2>3
<1>7. OneEach(b)
  <2>1. \A u \in Thread : at[u] # inj[1]
    BY Zenon, <1>e, <1>d DEF NotInjected
  <2>2. \A u \in Thread : u # t => b[u] # b[t]
    BY Zenon, <1>f, <2>1
  <2>3. \A u, w \in Thread : u # t /\ w # t /\ u # w /\ b[u] # None => b[u] # b[w]
    BY Zenon, <1>f, <1>d DEF OneEach
  <2> QED
    BY ZenonT(30), <2>2, <2>3 DEF OneEach
<1>8. NotInjected(r, b)
  <2>1. \A i \in 1..Len(r) : \A u \in Thread : r[i] # at[u]
    BY SMT, <1>g, <1>d DEF NotInjected
  <2> QED
    BY Zenon, <1>f, <1>3, <2>1 DEF NotInjected
<1>9. Distinct(qs, r, b)
  BY Zenon, <1>4, <1>5, <1>6, <1>7, <1>8, <1>d DEF Distinct
<1>10. ASSUME at[t] # None PROVE Absent(at[t], qs, r, b)
  <2>1. b[t] # at[t]
    BY Zenon, <1>e, <1>f, <1>d DEF NotInjected
  <2>2. \A u \in Thread : b[u] # at[t]
    BY Zenon, <1>f, <1>10, <2>1, <1>d DEF OneEach
  <2>3. \A i \in 1..Len(r) : r[i] # at[t]
    BY Zenon, <1>g, <1>d DEF NotInjected
  <2>4. \A u \in Thread : \A i \in 1..Len(qs[u]) : qs[u][i] # at[t]
    BY Zenon, <1>d DEF NotQueued
  <2> QED
    BY Zenon, <2>2, <2>3, <2>4 DEF Absent
<1> QED
  BY Zenon, <1>0, <1>1, <1>2, <1>9, <1>10 DEF Arranged, r, b

(* A thread is done with its actor.                                        *)
LEMMA LetGo ==
  ASSUME NEW qs, NEW inj, NEW at, Arranged(qs, inj, at), NEW t \in Thread
  PROVE  LET b == [at EXCEPT ![t] = None]
         IN  Arranged(qs, inj, b) /\ (at[t] # None => Absent(at[t], qs, inj, b))
<1> DEFINE b == [at EXCEPT ![t] = None]
<1>0. /\ qs \in [Thread -> Seq(Actor)] /\ inj \in Seq(Actor) /\ at \in [Thread -> Actor \cup {None}]
      /\ None \notin Actor
  BY Zenon, QuiescenceAssumption DEF Arranged
<1>d. /\ OneEach(at) /\ NotQueued(qs, at) /\ QueuedOnce(qs)
      /\ Apart(qs, inj) /\ NotInjected(inj, at) /\ InjectedOnce(inj)
  BY Zenon DEF Arranged, Distinct
<1>1. /\ \A u \in Thread : \A i \in 1..Len(qs[u]) : qs[u][i] # None
      /\ \A i \in 1..Len(inj) : inj[i] # None
  BY <1>0
<1>2. /\ b \in [Thread -> Actor \cup {None}] /\ b[t] = None
      /\ \A u \in Thread : u # t => b[u] = at[u]
  BY Zenon, <1>0
<1> HIDE DEF b
<1>f. b[t] = None /\ \A u \in Thread : u # t => b[u] = at[u]
  BY Zenon, <1>2
<1>3. OneEach(b)
  BY Zenon, <1>f, <1>d DEF OneEach
<1>4. NotQueued(qs, b)
  <2>1. \A u, w \in Thread : \A i \in 1..Len(qs[u]) : qs[u][i] # at[w]
    BY Zenon, <1>d DEF NotQueued
  <2> SUFFICES ASSUME NEW u \in Thread, NEW w \in Thread, NEW i \in 1..Len(qs[u]) PROVE qs[u][i] # b[w]
    BY Zenon DEF NotQueued
  <2>2. b[w] = None \/ b[w] = at[w]
    BY Zenon, <1>f
  <2> QED
    BY SMT, <1>1, <2>1, <2>2
<1>5. NotInjected(inj, b)
  BY Zenon, <1>1, <1>2, <1>d DEF NotInjected
<1>6. Distinct(qs, inj, b)
  BY Zenon, <1>3, <1>4, <1>5, <1>d DEF Distinct
<1>7. ASSUME at[t] # None PROVE Absent(at[t], qs, inj, b)
  <2>1. \A u \in Thread : b[u] # at[t]
    BY Zenon, <1>2, <1>7, <1>d DEF OneEach
  <2>2. \A i \in 1..Len(inj) : inj[i] # at[t]
    BY Zenon, <1>d DEF NotInjected
  <2>3. \A u \in Thread : \A i \in 1..Len(qs[u]) : qs[u][i] # at[t]
    BY Zenon, <1>d DEF NotQueued
  <2> QED
    BY Zenon, <2>1, <2>2, <2>3 DEF Absent
<1> QED
  BY SMT, <1>0, <1>2, <1>6, <1>7 DEF Arranged, b

(* An actor that is nowhere is put into a queue.                           *)
LEMMA PutQueue ==
  ASSUME NEW qs, NEW inj, NEW at, Arranged(qs, inj, at), NEW v \in Thread,
         NEW a \in Actor, Absent(a, qs, inj, at)
  PROVE  Arranged([qs EXCEPT ![v] = Append(@, a)], inj, at)
<1> DEFINE r == [qs EXCEPT ![v] = Append(@, a)]
<1>0. /\ qs \in [Thread -> Seq(Actor)] /\ inj \in Seq(Actor) /\ at \in [Thread -> Actor \cup {None}]
  BY Zenon DEF Arranged
<1>d. /\ OneEach(at) /\ NotQueued(qs, at) /\ QueuedOnce(qs)
      /\ Apart(qs, inj) /\ NotInjected(inj, at) /\ InjectedOnce(inj)
  BY Zenon DEF Arranged, Distinct
<1>1. r \in [Thread -> Seq(Actor)]
  BY <1>0
<1>2. \A u \in Thread : \A i \in 1..Len(r[u]) :
        \/ i \in 1..Len(qs[u]) /\ r[u][i] = qs[u][i]
        \/ u = v /\ i = Len(qs[v]) + 1 /\ r[u][i] = a
  BY <1>0
<1> HIDE DEF r
<1>a. /\ \A u \in Thread : at[u] # a /\ \A i \in 1..Len(qs[u]) : qs[u][i] # a
      /\ \A i \in 1..Len(inj) : inj[i] # a
  BY Zenon DEF Absent
<1>3. NotQueued(r, at)
  BY SMT, <1>2, <1>a, <1>d DEF NotQueued
<1>4. Apart(r, inj)
  BY SMT, <1>2, <1>a, <1>d DEF Apart
<1>5. QueuedOnce(r)
  <2> SUFFICES ASSUME NEW u \in Thread, NEW w \in Thread, NEW i \in 1..Len(r[u]), NEW j \in 1..Len(r[w]),
                      r[u][i] = r[w][j]
               PROVE  u = w /\ i = j
    BY Zenon DEF QueuedOnce
  <2>1. CASE i \in 1..Len(qs[u]) /\ r[u][i] = qs[u][i]
    <3>1. r[w][j] # a
      BY Zenon, <1>a, <2>1
    <3>2. j \in 1..Len(qs[w]) /\ r[w][j] = qs[w][j]
      BY Zenon, <1>2, <3>1
    <3>3. qs[u][i] = qs[w][j]
      BY Zenon, <2>1, <3>2
    <3>4. \A x, y \in Thread : \A k \in 1..Len(qs[x]), l \in 1..Len(qs[y]) :
            qs[x][k] = qs[y][l] => x = y /\ k = l
      BY Zenon, <1>d DEF QueuedOnce
    <3> QED
      BY SMTT(30), <2>1, <3>2, <3>3, <3>4
  <2>2. CASE u = v /\ i = Len(qs[v]) + 1 /\ r[u][i] = a
    <3>0. r[w][j] = a
      BY Zenon, <2>2
    <3>1. w = v /\ j = Len(qs[v]) + 1
      BY Zenon, <1>2, <1>a, <3>0
    <3> QED
      BY Zenon, <2>2, <3>1
  <2> QED
    BY Zenon, <1>2, <2>1, <2>2
<1>6. Distinct(r, inj, at)
  BY Zenon, <1>3, <1>4, <1>5, <1>d DEF Distinct
<1> QED
  BY Zenon, <1>0, <1>1, <1>6 DEF Arranged, r

(* Or into the inject queue.                                               *)
LEMMA PutInject ==
  ASSUME NEW qs, NEW inj, NEW at, Arranged(qs, inj, at), NEW a \in Actor, Absent(a, qs, inj, at)
  PROVE  Arranged(qs, Append(inj, a), at)
<1> DEFINE r == Append(inj, a)
<1>0. /\ qs \in [Thread -> Seq(Actor)] /\ inj \in Seq(Actor) /\ at \in [Thread -> Actor \cup {None}]
  BY Zenon DEF Arranged
<1>d. /\ OneEach(at) /\ NotQueued(qs, at) /\ QueuedOnce(qs)
      /\ Apart(qs, inj) /\ NotInjected(inj, at) /\ InjectedOnce(inj)
  BY Zenon DEF Arranged, Distinct
<1>1. /\ r \in Seq(Actor)
      /\ \A i \in 1..Len(r) : \/ i \in 1..Len(inj) /\ r[i] = inj[i]
                              \/ i = Len(inj) + 1 /\ r[i] = a
  BY <1>0
<1> HIDE DEF r
<1>a. /\ \A u \in Thread : at[u] # a /\ \A i \in 1..Len(qs[u]) : qs[u][i] # a
      /\ \A i \in 1..Len(inj) : inj[i] # a
  BY Zenon DEF Absent
<1>2. NotInjected(r, at)
  BY Zenon, <1>1, <1>a, <1>d DEF NotInjected
<1>3. Apart(qs, r)
  BY Zenon, <1>1, <1>a, <1>d DEF Apart
<1>4. InjectedOnce(r)
  BY Zenon, <1>1, <1>a, <1>d DEF InjectedOnce
<1>5. Distinct(qs, r, at)
  BY Zenon, <1>2, <1>3, <1>4, <1>d DEF Distinct
<1> QED
  BY Zenon, <1>0, <1>1, <1>5 DEF Arranged, r

(* A thread that takes the next actor has let go of the one it had.        *)
LEMMA TakeNext ==
  ASSUME Arranged(q, inject, cur), NEW t \in Thread, NEW n, Took(t, n)
  PROVE  LET b == [cur EXCEPT ![t] = n.actor]
         IN  /\ Arranged(n.q, n.inject, b)
             /\ cur[t] # None => Absent(cur[t], n.q, n.inject, b)
             /\ n.actor = None => n.q = q /\ n.inject = inject
<1>0. /\ q \in [Thread -> Seq(Actor)] /\ inject \in Seq(Actor) /\ None \notin Actor
  BY Zenon, QuiescenceAssumption DEF Arranged
<1>1. CASE n.actor = None /\ n.q = q /\ n.inject = inject
  BY Zenon, <1>1, LetGo
<1>2. CASE q[t] # <<>> /\ n.actor = Head(q[t]) /\ n.q = [q EXCEPT ![t] = Tail(@)] /\ n.inject = inject
  <2>1. Head(q[t]) \in Actor
    BY <1>0, <1>2
  <2>2. LET r == [q EXCEPT ![t] = Tail(@)]
            b == [cur EXCEPT ![t] = Head(q[t])]
        IN  Arranged(r, inject, b) /\ (cur[t] # None => Absent(cur[t], r, inject, b))
    BY Zenon, <1>2, TakeQueue
  <2>3. n.actor # None
    BY Zenon, <1>0, <1>2, <2>1
  <2> QED
    BY SMTT(30), <1>2, <2>2, <2>3
<1>3. CASE inject # <<>> /\ n.actor = Head(inject) /\ n.q = q /\ n.inject = Tail(inject)
  <2>1. Head(inject) \in Actor
    BY <1>0, <1>3
  <2>2. LET b == [cur EXCEPT ![t] = Head(inject)]
        IN  Arranged(q, Tail(inject), b) /\ (cur[t] # None => Absent(cur[t], q, Tail(inject), b))
    BY Zenon, <1>3, TakeInject
  <2>3. n.actor # None
    BY Zenon, <1>0, <1>3, <2>1
  <2> QED
    BY Zenon, <1>3, <2>2, <2>3
<1> QED
  BY Zenon, <1>1, <1>2, <1>3 DEF Took

(* An actor that is not scheduled is nowhere.                              *)
LEMMA UnscheduledAbsent ==
  ASSUME Typed, NEW a \in Actor, a \notin Scheduled
  PROVE  Absent(a, q, inject, cur)
<1>0. q \in [Thread -> Seq(Actor)] /\ inject \in Seq(Actor) /\ None \notin Actor
  BY Zenon, TypedParts, QuiescenceAssumption DEF Places0
<1>1. ASSUME NEW t \in Thread PROVE cur[t] # a
  BY Zenon, <1>0 DEF Scheduled
<1>2. ASSUME NEW t \in Thread, NEW i \in 1..Len(q[t]) PROVE q[t][i] # a
  <2>1. i \in DOMAIN q[t]
    BY <1>0
  <2>2. q[t][i] \in InQueue(q[t])
    BY Zenon, <2>1 DEF InQueue
  <2>3. a \notin InQueue(q[t])
    BY Zenon DEF Scheduled
  <2> QED
    BY Zenon, <2>2, <2>3
<1>3. ASSUME NEW i \in 1..Len(inject) PROVE inject[i] # a
  <2>1. i \in DOMAIN inject
    BY <1>0
  <2>2. inject[i] \in InQueue(inject)
    BY Zenon, <2>1 DEF InQueue
  <2>3. a \notin InQueue(inject)
    BY Zenon DEF Scheduled
  <2> QED
    BY Zenon, <2>2, <2>3
<1> QED
  BY Zenon, <1>1, <1>2, <1>3 DEF Absent

(* No step puts an actor in a second place.                                *)
LEMMA UniqueStep ==
  ASSUME Typed, Control, Unique, [Next]_vars
  PROVE  Unique'
<1>0. /\ Arranged(q, inject, cur)
      /\ P \in Thread /\ 0 \in Thread /\ (\A t \in Sched : t \in Thread)
      /\ (\A t \in Thread : cur[t] \in Actor \cup {None})
  BY Zenon, TypedParts, Threads DEF Places0, Arranged, Unique
<1>u. UNCHANGED <<q, inject, cur>> => Unique'
  BY Zenon DEF Unique
<1>m. Arranged(q', inject', cur') => Unique'
  BY Zenon DEF Unique, Arranged
<1>1. CASE UNCHANGED vars
  BY Zenon, <1>1, <1>u DEF vars, queues
<1>2. ASSUME NEW t \in Thread, Send(t) PROVE Unique'
  <2>1. PICK a \in Actor \ Scheduled : q' = [q EXCEPT ![t] = Append(@, a)]
    BY Zenon, <1>2 DEF Send
  <2>2. inject' = inject /\ cur' = cur
    BY Zenon, <1>2 DEF Send
  <2>3. Arranged(q', inject, cur)
    BY Zenon, <2>1, <1>0, PutQueue, UnscheduledAbsent
  <2> QED
    BY Zenon, <2>2, <2>3, <1>m
<1>3. ASSUME NEW t \in Thread, Pin(t) PROVE Unique'
  BY Zenon, <1>3, <1>u DEF Pin, queues
<1>4. ASSUME NEW t \in Thread, Subscribe(t) PROVE Unique'
  BY Zenon, <1>4, <1>u DEF Subscribe, queues
<1>5. ASSUME NEW t \in Thread, EventDestroy(t) PROVE Unique'
  BY Zenon, <1>5, <1>u DEF EventDestroy, queues
<1>6. ASSUME NEW t \in Thread, TellNoisy(t) PROVE Unique'
  BY Zenon, <1>6, <1>u DEF TellNoisy, queues
<1>7. ASSUME NEW t \in Thread, EndRun(t) PROVE Unique'
  <2>1. PICK n \in {Pop(t), PopGlobal(t)} :
           /\ Took(t, n) /\ inject' = n.inject
           /\ \/ q' = n.q /\ cur' = [cur EXCEPT ![t] = n.actor]
              \/ /\ n.actor # None
                 /\ q' = [n.q EXCEPT ![t] = Append(@, cur[t])] /\ cur' = [cur EXCEPT ![t] = n.actor]
              \/ n.actor = None /\ q' = n.q /\ cur' = cur
    BY SMT, <1>7, EndRunCases
  <2>2. cur[t] # None /\ cur[t] \in Actor
    BY Zenon, <1>7, <1>0 DEF EndRun, Control
  <2>3. /\ Arranged(n.q, n.inject, [cur EXCEPT ![t] = n.actor])
        /\ Absent(cur[t], n.q, n.inject, [cur EXCEPT ![t] = n.actor])
        /\ n.actor = None => n.q = q /\ n.inject = inject
    BY Zenon, <2>1, <2>2, <1>0, TakeNext
  <2>4. Arranged([n.q EXCEPT ![t] = Append(@, cur[t])], n.inject, [cur EXCEPT ![t] = n.actor])
    BY Zenon, <2>2, <2>3, PutQueue
  <2> QED
    BY Zenon, <2>1, <2>3, <2>4, <1>m, <1>u
<1>8. ASSUME NEW t \in Thread, ReadMsg(t) PROVE Unique'
  BY Zenon, <1>8, <1>u DEF ReadMsg, queues
<1>9. ASSUME NEW t \in Sched, Begin(t) PROVE Unique'
  <2>1. Took(t, PopGlobal(t))
    BY Zenon, <1>0, Takes
  <2>2. Arranged(PopGlobal(t).q, PopGlobal(t).inject, [cur EXCEPT ![t] = PopGlobal(t).actor])
    BY Zenon, <1>0, <2>1, TakeNext
  <2> QED
    BY Zenon, <1>9, <2>2, <1>m DEF Begin
<1>10. ASSUME NEW t \in Sched, Route(t) PROVE Unique'
  <2>1. CASE cur[t] \in pinned
    <3> DEFINE n == PopGlobal(t)
    <3>1. Took(t, n)
      BY Zenon, <1>0, Takes
    <3>2. cur[t] # None /\ cur[t] \in Actor
      BY Zenon, <2>1, <1>0, TypedParts, QuiescenceAssumption DEF Places0
    <3>3. /\ q' = [n.q EXCEPT ![P] = Append(@, cur[t])] /\ inject' = n.inject
          /\ cur' = [cur EXCEPT ![t] = n.actor]
      BY Zenon, <1>10, <2>1 DEF Route
    <3> HIDE DEF n
    <3>4. /\ Arranged(n.q, n.inject, [cur EXCEPT ![t] = n.actor])
          /\ Absent(cur[t], n.q, n.inject, [cur EXCEPT ![t] = n.actor])
      BY Zenon, <3>1, <3>2, <1>0, TakeNext
    <3>5. Arranged([n.q EXCEPT ![P] = Append(@, cur[t])], n.inject, [cur EXCEPT ![t] = n.actor])
      BY Zenon, <1>0, <3>2, <3>4, PutQueue
    <3> QED
      BY Zenon, <3>3, <3>5, <1>m
  <2>2. CASE cur[t] \notin pinned
    BY SMT, <1>10, <2>2, <1>u DEF Route, queues
  <2> QED
    BY Zenon, <2>1, <2>2
<1>11. ASSUME NEW t \in Sched, StealInject(t) PROVE Unique'
  <2>1. CASE inject = <<>>
    BY Zenon, <1>11, <2>1, <1>u DEF StealInject
  <2>2. CASE inject # <<>>
    <3>1. inject' = Tail(inject) /\ cur' = [cur EXCEPT ![t] = Head(inject)] /\ q' = q
      BY SMT, <1>11, <2>2 DEF StealInject
    <3> QED
      BY Zenon, <1>0, <2>2, <3>1, <1>m, TakeInject
  <2> QED
    BY Zenon, <2>1, <2>2
<1>12. ASSUME NEW t \in Sched, StealVictim(t) PROVE Unique'
  <2>1. CASE q' = q /\ cur' = cur
    BY Zenon, <1>12, <2>1, <1>u DEF StealVictim
  <2>2. CASE \E v \in Sched : q[v] # <<>> /\ cur' = [cur EXCEPT ![t] = Head(q[v])] /\ q' = [q EXCEPT ![v] = Tail(@)]
    <3>1. PICK v \in Sched : q[v] # <<>> /\ cur' = [cur EXCEPT ![t] = Head(q[v])] /\ q' = [q EXCEPT ![v] = Tail(@)]
      BY Zenon, <2>2
    <3>2. inject' = inject
      BY Zenon, <1>12 DEF StealVictim
    <3> QED
      BY Zenon, <1>0, <3>1, <3>2, <1>m, TakeQueue
  <2> QED
    BY Zenon, <1>12, <2>1, <2>2 DEF StealVictim
<1>13. ASSUME NEW t \in Sched, Found(t) PROVE Unique'
  <2>1. CASE cur[t] \in pinned
    <3>1. cur[t] # None /\ cur[t] \in Actor
      BY SMT, <2>1, <1>0, TypedParts, QuiescenceAssumption DEF Places0
    <3>2. /\ q' = [q EXCEPT ![P] = Append(@, cur[t])] /\ inject' = inject
          /\ cur' = [cur EXCEPT ![t] = None]
      BY Zenon, <1>13, <2>1 DEF Found
    <3>3. Arranged(q, inject, [cur EXCEPT ![t] = None]) /\ Absent(cur[t], q, inject, [cur EXCEPT ![t] = None])
      BY Zenon, <1>0, <3>1, LetGo
    <3> QED
      BY Zenon, <1>0, <3>1, <3>2, <3>3, <1>m, PutQueue
  <2>2. CASE cur[t] \notin pinned
    BY Zenon, <1>13, <2>2, <1>u DEF Found
  <2> QED
    BY Zenon, <2>1, <2>2
<1>14. ASSUME NEW t \in Sched, Quiet(t) PROVE Unique'
  BY Zenon, <1>14, <1>u DEF Quiet, queues
<1>15. ASSUME NEW t \in Sched, Again(t) PROVE Unique'
  BY Zenon, <1>15, <1>u DEF Again, queues
<1>16. ASSUME NEW t \in Sched, Resume(t) PROVE Unique'
  BY Zenon, <1>16, <1>u DEF Resume, queues
<1>17. ASSUME NEW t \in Sched, Block(t) PROVE Unique'
  BY Zenon, <1>17, <1>u DEF Block, queues
<1>18. ASSUME NEW t \in Sched, Suspend(t) PROVE Unique'
  BY Zenon, <1>18, <1>u DEF Suspend, queues
<1>19. ASSUME Drowsy PROVE Unique'
  <2>1. CASE inject = <<>>
    BY Zenon, <1>19, <2>1, <1>u DEF Drowsy
  <2>2. CASE inject # <<>>
    <3>1. inject' = Tail(inject) /\ cur' = [cur EXCEPT ![0] = Head(inject)] /\ q' = q
      BY Zenon, <1>19, <2>2 DEF Drowsy
    <3> QED
      BY Zenon, <1>0, <2>2, <3>1, <1>m, TakeInject
  <2> QED
    BY Zenon, <2>1, <2>2
<1>20. ASSUME FallAsleep PROVE Unique'
  BY Zenon, <1>20, <1>u DEF FallAsleep, queues
<1>21. ASSUME PinnedRoute PROVE Unique'
  <2>1. CASE UNCHANGED <<q, inject, cur>>
    BY Zenon, <2>1, <1>u
  <2>2. CASE q[P] # <<>> /\ cur' = [cur EXCEPT ![P] = Head(q[P])] /\ q' = [q EXCEPT ![P] = Tail(@)] /\ inject' = inject
    BY Zenon, <1>0, <2>2, <1>m, TakeQueue
  <2>3. CASE cur[P] # None /\ inject' = Append(inject, cur[P]) /\ cur' = [cur EXCEPT ![P] = None] /\ q' = q
    <3>1. cur[P] \in Actor
      BY Zenon, <1>0, <2>3
    <3>2. Arranged(q, inject, [cur EXCEPT ![P] = None]) /\ Absent(cur[P], q, inject, [cur EXCEPT ![P] = None])
      BY Zenon, <1>0, <2>3, LetGo
    <3> QED
      BY SMT, <2>3, <3>1, <3>2, <1>m, PutInject
  <2> QED
    BY Zenon, <1>21, <2>1, <2>2, <2>3 DEF PinnedRoute, queues
<1>22. ASSUME PinnedIdle PROVE Unique'
  BY SMT, <1>22, <1>u DEF PinnedIdle, queues
<1>23. ASSUME Shutdown PROVE Unique'
  BY SMT, <1>23, <1>u DEF Shutdown, queues
<1>24. ASSUME Event PROVE Unique'
  <2>1. PICK a \in noisy : inject' = IF a \in Scheduled THEN inject ELSE Append(inject, a)
    BY Zenon, <1>24 DEF Event
  <2>2. a \in Actor
    BY Zenon, TypedParts, QuiescenceAssumption DEF Places0
  <2>3. q' = q /\ cur' = cur
    BY Zenon, <1>24 DEF Event
  <2>4. CASE a \in Scheduled
    BY Zenon, <2>1, <2>3, <2>4, <1>u
  <2>5. CASE a \notin Scheduled
    BY Zenon, <1>0, <2>1, <2>2, <2>3, <2>5, <1>m, PutInject, UnscheduledAbsent
  <2> QED
    BY Zenon, <2>4, <2>5
<1>25. ASSUME EventWake PROVE Unique'
  BY Zenon, <1>25, <1>u DEF EventWake, queues
<1> QED
  BY Zenon, Steps, <1>1, <1>2, <1>3, <1>4, <1>5, <1>6, <1>7, <1>8, <1>9, <1>10, <1>11, <1>12, <1>13, <1>14, <1>15, <1>16, <1>17, <1>18, <1>19, <1>20, <1>21, <1>22, <1>23, <1>24, <1>25
=============================================================================
