-------------------------- MODULE QuiescenceProofs --------------------------
(***************************************************************************)
(* Proofs about Quiescence, for any number of schedulers and actors.       *)
(***************************************************************************)
EXTENDS QuiescenceReports, QuiescenceRounds

(* A set with no two members has at most one.                              *)
LEMMA AtMostOne ==
  ASSUME FiniteFacts, NEW X, \A x, y \in X : x = y
  PROVE  Cardinality(X) \in {0, 1} /\ (Cardinality(X) = 1 => X # {})
<1>1. CASE X = {}
  BY <1>1 DEF FiniteFacts, NoElement
<1>2. CASE X # {}
  <2>1. PICK x \in X : TRUE
    BY Zenon, <1>2
  <2>2. X = {x}
    BY Zenon, <2>1
  <2>3. Cardinality(X) = 1
    BY Zenon, <2>2 DEF FiniteFacts, OneElement
  <2> QED
    BY <1>2, <2>3
<1> QED
  BY Zenon, <1>1, <1>2

(* A counter and an empty queue.                                           *)
LEMMA CountedNothing ==
  ASSUME FiniteFacts, NEW c \in Int, NEW Up, NEW Down
  PROVE  Total(c, <<>>, Up, Down) = c /\ (c >= 0 => NeverNegative(c, <<>>, Up, Down))
<1>1. Len(<<>>) = 0 /\ \A k \in 0..0 : k = 0
  OBVIOUS
<1>2. After(c, <<>>, 0, Up, Down) = c
  BY Zenon, AfterNone
<1>3. Total(c, <<>>, Up, Down) = c
  BY Zenon, <1>1, <1>2 DEF Total
<1>4. ASSUME c >= 0, NEW k \in 0..Len(<<>>) PROVE After(c, <<>>, k, Up, Down) >= 0
  BY Zenon, <1>1, <1>2, <1>4
<1> QED
  BY Zenon, <1>3, <1>4 DEF NeverNegative

(* The invariant holds at the start.                                       *)
LEMMA Initially ==
  ASSUME FiniteFacts
  PROVE  Init => IInv
<1> SUFFICES ASSUME Init PROVE IInv
  OBVIOUS
<1>0. /\ N \in Nat /\ N > 0 /\ 0 \in Sched /\ 0 \in Thread /\ P \in Thread
      /\ None \notin Actor /\ MaxWork \in Nat
  BY Zenon, Threads, QuiescenceAssumption
<1>1. PICK a \in Actor : q = [t \in Thread |-> IF t = P THEN <<a>> ELSE <<>>]
  BY Zenon DEF Init
<1>2. /\ \A t \in Thread : mq[t] = <<>> /\ cur[t] = None /\ pc[t] \in {"top", "start"}
      /\ inject = <<>>
      /\ \A t \in Sched : ~block_sent[t]
      /\ noisy = {} /\ block_count = 0 /\ ack_token = 0 /\ ack_count = N /\ asio_noisy = 0
  BY DEF Init
<1>3. Typed
  <2>1. Places0
    BY <1>0, <1>1 DEF Init, Places0
  <2>2. Flags0
    BY <1>0 DEF Init, Flags0
  <2>3. Counts0
    BY <1>0 DEF Init, Counts0
  <2>4. Queues(mq)
    BY DEF Init, Queues
  <2> QED
    BY Zenon, <2>1, <2>2, <2>3, <2>4, TypedParts
<1>4. Control
  BY <1>2 DEF Control
<1>5. Unique
  <2>1. \A t \in Thread : \A i \in 1..Len(q[t]) : t = P /\ i = 1 /\ q[t][i] = a
    BY SMT, <1>1
  <2>2. \A i \in 1..Len(inject) : FALSE
    BY <1>2
  <2>3. OneEach(cur)
    BY Zenon, <1>2 DEF OneEach
  <2>4. NotQueued(q, cur)
    <3>1. \A u \in Thread : cur[u] = None
      BY Zenon, <1>2
    <3>2. a # None
      BY Zenon, <1>0
    <3>3. ASSUME NEW t \in Thread, NEW u \in Thread, NEW i \in 1..Len(q[t]) PROVE q[t][i] # cur[u]
      <4>1. q[t][i] = a
        BY Zenon, <2>1
      <4>2. cur[u] = None
        BY Zenon, <3>1
      <4> QED
        BY Zenon, <3>2, <4>1, <4>2
    <3> QED
      BY Zenon, <3>3 DEF NotQueued
  <2>5. QueuedOnce(q)
    BY Zenon, <2>1 DEF QueuedOnce
  <2>6. Apart(q, inject) /\ NotInjected(inject, cur) /\ InjectedOnce(inject)
    BY Zenon, <2>2 DEF Apart, NotInjected, InjectedOnce
  <2> QED
    BY Zenon, <2>3, <2>4, <2>5, <2>6 DEF Unique, Distinct
<1>6. Notices
  <2>1. Opening = {} /\ Closing = {}
    BY <1>2 DEF Opening, Closing
  <2>2. Cardinality(Opening) = 0 /\ Cardinality(Closing) = 0
    BY Zenon, <2>1 DEF FiniteFacts, NoElement
  <2>3. /\ Total(0, <<>>, Of("noisy"), Of("unnoisy")) = 0
        /\ NeverNegative(0, <<>>, Of("noisy"), Of("unnoisy"))
    BY CountedNothing
  <2>4. /\ Total(asio_noisy, mq[0], Of("noisy"), Of("unnoisy"))
             = (IF noisy = {} THEN 0 ELSE 1) - Cardinality(Opening) + Cardinality(Closing)
        /\ NeverNegative(asio_noisy, mq[0], Of("noisy"), Of("unnoisy"))
    BY <1>0, <1>2, <2>2, <2>3
  <2>5. \A t \in Thread : pc[t] # "noisy"
    BY <1>2
  <2> QED
    BY Zenon, <2>4, <2>5 DEF Notices
<1>7. Reports
  <2>1. Blocked = {}
    BY <1>2 DEF Blocked
  <2>2. Cardinality(Blocked) = 0
    BY Zenon, <2>1 DEF FiniteFacts, NoElement
  <2>3. /\ Total(0, <<>>, Of("block"), Of("unblock")) = 0
        /\ NeverNegative(0, <<>>, Of("block"), Of("unblock"))
    BY CountedNothing
  <2>4. NeverNegative(N, <<>>, Of("unblock"), Of("block"))
    BY <1>0, CountedNothing
  <2>5. N - block_count = N
    BY <1>0, <1>2
  <2> QED
    BY Zenon, <1>0, <1>2, <2>2, <2>3, <2>4, <2>5 DEF Reports
<1>8. Rounds
  <2>1. \A t \in Thread : Len(mq[t]) = 0
    BY <1>2
  <2>2. \A t \in Thread : UpTo(mq[t], ack_token) /\ Once(mq[t], Cnf) /\ ~In(mq[t], Cnf) /\ ~In(mq[t], Ack)
    BY SMT, <2>1 DEF UpTo, Once, In
  <2>3. Asked = {}
    BY Zenon, <2>2 DEF Asked
  <2>m. mq \in [Thread -> Seq(Message)]
    BY Zenon, <1>3 DEF Typed
  <2>4. mq[0] \in Seq(Message)
    BY SMT, <1>0, <2>m
  <2>5. Times(mq[0], Ack) = 0
    BY Zenon, <1>0, <2>2, <2>4, TimesNone
  <2>c. Cardinality(Asked) = 0
    BY Zenon, <2>3 DEF FiniteFacts, NoElement
  <2>6. Pending = 0
    BY SMT, <2>c, <2>5 DEF Pending
  <2> QED
    BY <1>0, <1>2, <2>2, <2>6 DEF Rounds
<1> QED
  BY Zenon, <1>3, <1>4, <1>5, <1>6, <1>7, <1>8 DEF IInv

(* Every step keeps it.                                                    *)
LEMMA Inductive ==
  ASSUME FiniteFacts
  PROVE  IInv /\ [Next]_vars => IInv'
  BY Zenon, TypedStep, ControlStep, UniqueStep, NoticesStep, ReportsStep, RoundsStep DEF IInv

(* How many messages of a type are unread, in the terms of the lemmas.     *)
LEMMA UnreadCount ==
  ASSUME Typed, NEW type
  PROVE  Unread(type) = Count(mq[0], Len(mq[0]), Of(type))
<1>1. mq[0] \in Seq(Message)
  BY TypedParts, Threads DEF Queues
<1>2. DOMAIN mq[0] = 1..Len(mq[0]) /\ \A i \in 1..Len(mq[0]) : mq[0][i] \in Message
  BY <1>1
<1>3. {i \in DOMAIN mq[0] : mq[0][i].type = type} = Places(mq[0], Len(mq[0]), Of(type))
  BY Zenon, <1>2 DEF Places, Of
<1> QED
  BY Zenon, <1>3 DEF Unread, Count

(* The reports add up to the blocked threads, and the counters of scheduler*)
(* 0 stay in their ranges.                                                 *)
LEMMA CountsFollow ==
  ASSUME FiniteFacts
  PROVE  IInv => BlockCountExact
<1> SUFFICES ASSUME IInv PROVE BlockCountExact
  OBVIOUS
<1>1. /\ Typed /\ Notices /\ Reports /\ N \in Nat /\ block_count \in Int /\ asio_noisy \in Int
      /\ mq \in [Thread -> Seq(Message)] /\ 0 \in Thread
  BY Zenon, TypedParts, Threads DEF IInv, Counts0, Queues
<1>2. 0 \in 0..Len(mq[0])
  BY <1>1
<1>3. ASSUME NEW c \in Int, NEW Up, NEW Down, NeverNegative(c, mq[0], Up, Down) PROVE c >= 0
  BY Zenon, <1>2, <1>3, AfterNone DEF NeverNegative
<1>4. block_count >= 0 /\ asio_noisy >= 0
  BY Zenon, <1>1, <1>3 DEF Reports, Notices
<1>5. N - block_count \in Int
  BY <1>1
<1>6. N - block_count >= 0
  BY Zenon, <1>1, <1>3, <1>5 DEF Reports
<1>7. block_count \in 0..N
  BY <1>1, <1>4, <1>6
<1>8. Total(block_count, mq[0], Of("block"), Of("unblock")) = Cardinality({t \in Sched : block_sent[t]})
  BY Zenon, <1>1 DEF Reports, Blocked
<1>9. block_count + Unread("block") - Unread("unblock") = Cardinality({t \in Sched : block_sent[t]})
  <2>1. /\ Unread("block") = Count(mq[0], Len(mq[0]), Of("block"))
        /\ Unread("unblock") = Count(mq[0], Len(mq[0]), Of("unblock"))
    BY Zenon, <1>1, UnreadCount
  <2>2. block_count + Count(mq[0], Len(mq[0]), Of("block")) - Count(mq[0], Len(mq[0]), Of("unblock"))
          = Cardinality({t \in Sched : block_sent[t]})
    BY Zenon, <1>8 DEF Total, After
  <2> QED
    BY Zenon, <2>1, <2>2
<1> QED
  BY Zenon, <1>4, <1>7, <1>9 DEF BlockCountExact

(* As many answers are waited for as may come.                             *)
LEMMA AcksFollow ==
  ASSUME FiniteFacts
  PROVE  IInv => AcksBounded
<1> SUFFICES ASSUME IInv PROVE AcksBounded
  OBVIOUS
<1>1. /\ Cardinality(Asked) \in Nat /\ Times(mq[0], Ack) \in Nat /\ ack_count \in Int
      /\ Pending = Cardinality(Asked) + Times(mq[0], Ack) /\ Pending <= ack_count
  BY Zenon, RoundBefore DEF IInv, Rounds
<1> QED
  BY SMT, <1>1 DEF AcksBounded

(* An actor that is in one place only is counted once.                     *)
LEMMA OnceFollows ==
  ASSUME FiniteFacts
  PROVE  IInv => ScheduledOnce
<1> SUFFICES ASSUME IInv PROVE ScheduledOnce
  OBVIOUS
<1> DEFINE at(a, s) == Cardinality({i \in DOMAIN s : s[i] = a})
           queued(a) == {u \in Thread : at(a, q[u]) > 0}
           places(a) == {t \in Thread : cur[t] = a} \cup {N + 1 + t : t \in queued(a)}
<1>1. /\ OneEach(cur) /\ NotQueued(q, cur) /\ QueuedOnce(q)
      /\ Apart(q, inject) /\ NotInjected(inject, cur) /\ InjectedOnce(inject)
  BY Zenon DEF IInv, Unique, Distinct
<1>2. q \in [Thread -> Seq(Actor)] /\ inject \in Seq(Actor)
  BY Zenon, TypedParts DEF IInv, Places0
<1>d. DOMAIN inject = 1..Len(inject) /\ \A t \in Thread : DOMAIN q[t] = 1..Len(q[t])
  BY SMT, <1>2
<1> SUFFICES ASSUME NEW a \in Actor
             PROVE  /\ at(a, inject) + Cardinality(places(a)) <= 1
                    /\ \A t \in Thread : at(a, q[t]) <= 1
  BY Zenon DEF ScheduledOnce
<1>a. a # None
  BY QuiescenceAssumption
<1>3. at(a, inject) \in {0, 1} /\ (at(a, inject) = 1 => \E i \in 1..Len(inject) : inject[i] = a)
  <2> DEFINE X == {i \in DOMAIN inject : inject[i] = a}
  <2>1. \A i, j \in X : i = j
    BY Zenon, <1>1, <1>d DEF InjectedOnce
  <2>x. X # {} => \E i \in 1..Len(inject) : inject[i] = a
    BY Zenon, <1>d
  <2> HIDE DEF X
  <2>2. Cardinality(X) \in {0, 1} /\ (Cardinality(X) = 1 => X # {})
    BY Zenon, <2>1, AtMostOne
  <2> QED
    BY Zenon, <2>2, <2>x DEF X
<1>4. ASSUME NEW t \in Thread
      PROVE  at(a, q[t]) \in {0, 1} /\ (at(a, q[t]) = 1 => \E i \in 1..Len(q[t]) : q[t][i] = a)
  <2> DEFINE X == {i \in DOMAIN q[t] : q[t][i] = a}
  <2>1. \A i, j \in X : i = j
    <3> SUFFICES ASSUME NEW i \in 1..Len(q[t]), NEW j \in 1..Len(q[t]), q[t][i] = a, q[t][j] = a PROVE i = j
      BY Zenon, <1>d
    <3>1. q[t][i] = q[t][j]
      BY Zenon
    <3> QED
      BY Zenon, <1>1, <3>1 DEF QueuedOnce
  <2>x. X # {} => \E i \in 1..Len(q[t]) : q[t][i] = a
    BY Zenon, <1>d
  <2> HIDE DEF X
  <2>2. Cardinality(X) \in {0, 1} /\ (Cardinality(X) = 1 => X # {})
    BY Zenon, <2>1, AtMostOne
  <2> QED
    BY Zenon, <2>2, <2>x DEF X
<1> HIDE DEF at
<1>5. \A u \in queued(a) : u \in Thread /\ \E i \in 1..Len(q[u]) : q[u][i] = a
  <2> SUFFICES ASSUME NEW u \in Thread, at(a, q[u]) > 0 PROVE \E i \in 1..Len(q[u]) : q[u][i] = a
    BY Zenon
  <2>1. at(a, q[u]) = 1
    BY SMT, <1>4
  <2> QED
    BY Zenon, <1>4, <2>1
<1>6. \A t, u \in queued(a) : t = u
  <2> SUFFICES ASSUME NEW t \in queued(a), NEW u \in queued(a) PROVE t = u
    BY Zenon
  <2>1. t \in Thread /\ u \in Thread
    BY Zenon, <1>5
  <2>2. PICK i \in 1..Len(q[t]) : q[t][i] = a
    BY Zenon, <1>5
  <2>3. PICK j \in 1..Len(q[u]) : q[u][j] = a
    BY Zenon, <1>5
  <2>4. q[t][i] = q[u][j]
    BY Zenon, <2>2, <2>3
  <2> QED
    BY Zenon, <1>1, <2>1, <2>4 DEF QueuedOnce
<1>7. \A t \in Thread : cur[t] = a => queued(a) = {}
  <2> SUFFICES ASSUME NEW t \in Thread, cur[t] = a, NEW u \in queued(a) PROVE FALSE
    BY Zenon
  <2>1. u \in Thread
    BY Zenon, <1>5
  <2>2. PICK i \in 1..Len(q[u]) : q[u][i] = a
    BY Zenon, <1>5
  <2> QED
    BY Zenon, <1>1, <2>1, <2>2 DEF NotQueued
<1>8. \A t, u \in Thread : cur[t] = a /\ cur[u] = a => t = u
  BY Zenon, <1>1, <1>a DEF OneEach
<1> HIDE DEF queued
<1>9. \A x, y \in places(a) : x = y
  BY Zenon, <1>6, <1>7, <1>8
<1>10. (\E i \in 1..Len(inject) : inject[i] = a) => places(a) = {}
  <2> SUFFICES ASSUME NEW i \in 1..Len(inject), inject[i] = a PROVE places(a) = {}
    BY Zenon
  <2>1. \A t \in Thread : cur[t] # a
    BY Zenon, <1>1 DEF NotInjected
  <2>2. queued(a) = {}
    BY Zenon, <1>1, <1>5 DEF Apart
  <2> QED
    BY Zenon, <2>1, <2>2
<1> HIDE DEF places
<1>11. Cardinality(places(a)) \in {0, 1} /\ (Cardinality(places(a)) = 1 => places(a) # {})
  BY Zenon, <1>9, AtMostOne
<1>12. at(a, inject) + Cardinality(places(a)) <= 1
  <2>1. ~(at(a, inject) = 1 /\ Cardinality(places(a)) = 1)
    BY Zenon, <1>3, <1>10, <1>11
  <2> QED
    BY SMT, <1>3, <1>11, <2>1
<1>13. \A t \in Thread : at(a, q[t]) <= 1
  BY SMT, <1>4
<1> QED
  BY Zenon, <1>12, <1>13

-----------------------------------------------------------------------------
(***************************************************************************)
(* Where no actor is ever pinned: the rounds are answered in earnest.      *)
(***************************************************************************)
(* A queue without reports had none before, unless one was read.           *)
LEMMA UnreportedBefore ==
  ASSUME Typed, [Next]_vars, UNCHANGED ack_token, Unreported(mq'[0])
  PROVE  Unreported(mq[0])
<1>0. /\ mq[0] \in Seq(Message) /\ mq \in [Thread -> Seq(Message)] /\ 0 \in Thread /\ ack_token \in Nat
  <2>1. mq \in [Thread -> Seq(Message)] /\ 0 \in Thread /\ ack_token \in Nat
    BY Zenon, TypedParts, Threads DEF Queues, Counts0
  <2> QED
    BY <2>1
<1>1. ASSUME NEW x \in Message, mq'[0] = Append(mq[0], x)
      PROVE  Unreported(mq[0]) /\ x.type \notin {"block", "unblock"}
  <2>1. /\ \A i \in 1..Len(mq[0]) : i \in 1..Len(mq'[0]) /\ mq'[0][i] = mq[0][i]
        /\ Len(mq'[0]) \in 1..Len(mq'[0]) /\ mq'[0][Len(mq'[0])] = x
    BY SMT, <1>0, <1>1
  <2> QED
    BY Zenon, <2>1 DEF Unreported
<1>2. ASSUME NEW s, Unreported(s), s = Tail(mq[0]), mq[0] # <<>>, Head(mq[0]).type \notin {"block", "unblock"}
      PROVE  Unreported(mq[0])
  <2>1. \A i \in 1..Len(mq[0]) : mq[0][i] = Head(mq[0]) \/ \E j \in 1..Len(s) : mq[0][i] = s[j]
    <3> SUFFICES ASSUME NEW i \in 1..Len(mq[0]), i # 1 PROVE i - 1 \in 1..Len(s) /\ mq[0][i] = s[i - 1]
      BY SMT, <1>0, <1>2
    <3> QED
      BY SMT, <1>0, <1>2
  <2> QED
    BY Zenon, <1>2, <2>1 DEF Unreported
<1>3. ASSUME NEW s \in Seq(Message), NEW x \in Message, Unreported(Append(s, x))
      PROVE  Unreported(s)
  <2>1. \A i \in 1..Len(s) : i \in 1..Len(Append(s, x)) /\ Append(s, x)[i] = s[i]
    OBVIOUS
  <2> QED
    BY Zenon, <1>3, <2>1 DEF Unreported
<1>4. ASSUME NEW t \in Thread, TellNoisy(t) PROVE Unreported(mq[0])
  <2>1. Msg("noisy", 0) \in Message /\ Msg("unnoisy", 0) \in Message
    BY DEF Msg, Message
  <2>2. mq'[0] = Append(mq[0], Msg(pc[t], 0)) /\ pc[t] \in {"noisy", "unnoisy"}
    BY Zenon, <1>0, <1>4 DEF TellNoisy
  <2>3. Msg(pc[t], 0) \in Message
    BY SMT, <2>1, <2>2
  <2> QED
    BY Zenon, <1>1, <2>2, <2>3
<1>5. ASSUME NEW t \in Sched, Block(t) \/ (Found(t) /\ block_sent[t]) PROVE FALSE
  <2>1. \A type \in {"block", "unblock"} : Msg(type, 0) \in Message /\ Msg(type, 0).type = type
    BY DEF Msg, Message
  <2>2. PICK type \in {"block", "unblock"} : mq' = [mq EXCEPT ![0] = Append(@, Msg(type, 0))]
    BY Zenon, <1>5 DEF Block, Found
  <2>3. mq'[0] = Append(mq[0], Msg(type, 0))
    BY Zenon, <1>0, <2>2
  <2>4. Msg(type, 0) \in Message /\ Msg(type, 0).type = type
    BY Zenon, <2>1
  <2> QED
    BY Zenon, <1>1, <2>3, <2>4
<1>6. ASSUME StartsRound \/ EndsRound("block") \/ EndsRound("unblock") PROVE FALSE
  <2>1. ack_token' = ack_token + 1
    BY Zenon, <1>6 DEF StartsRound, EndsRound
  <2> QED
    BY SMT, <1>0, <2>1
<1>7. ASSUME mq[0] # <<>>, HearsNotice PROVE Unreported(mq[0])
  <2>1. mq'[0] = Tail(mq[0]) /\ Head(mq[0]).type \in {"noisy", "unnoisy"}
    BY Zenon, <1>0, <1>7 DEF HearsNotice, Popped
  <2>2. Head(mq[0]).type \notin {"block", "unblock"}
    BY SMT, <2>1
  <2> QED
    BY Zenon, <1>2, <1>7, <2>1, <2>2
<1>8. ASSUME MailOf({"cnf", "ack", "terminate"}) PROVE Unreported(mq[0])
  <2>1. PICK x \in Message :
          \/ mq'[0] = mq[0] \/ mq'[0] = Append(mq[0], x)
          \/ /\ mq[0] # <<>> /\ Head(mq[0]).type \in {"cnf", "ack", "terminate"}
             /\ mq'[0] = Tail(mq[0]) \/ mq'[0] = Append(Tail(mq[0]), x)
    BY Zenon, <1>8 DEF MailOf
  <2>2. CASE mq'[0] = mq[0]
    BY Zenon, <2>2
  <2>3. CASE mq'[0] = Append(mq[0], x)
    BY Zenon, <1>1, <2>3
  <2>4. CASE /\ mq[0] # <<>> /\ Head(mq[0]).type \in {"cnf", "ack", "terminate"}
             /\ mq'[0] = Tail(mq[0]) \/ mq'[0] = Append(Tail(mq[0]), x)
    <3>1. Tail(mq[0]) \in Seq(Message) /\ Head(mq[0]).type \notin {"block", "unblock"}
      BY SMT, <1>0, <2>4
    <3>2. Unreported(Tail(mq[0]))
      BY Zenon, <1>3, <2>4, <3>1
    <3> QED
      BY Zenon, <1>2, <2>4, <3>1, <3>2
  <2> QED
    BY Zenon, <2>1, <2>2, <2>3, <2>4
<1> QED
  BY Zenon, MailSteps, <1>4, <1>5, <1>6, <1>7, <1>8

(* With no answer refused and no report on its way, all the schedulers are *)
(* stealing, and their queues are empty.                                   *)
LEMMA SettledSteal ==
  ASSUME FiniteFacts, Typed, Reports, Stealing, Answered, Settled
  PROVE  \A t \in Sched : pc[t] \in Searching /\ q[t] = <<>>
<1>1. /\ mq \in [Thread -> Seq(Message)] /\ 0 \in Thread /\ N \in Nat /\ block_count = N
      /\ IsFiniteSet(Sched) /\ Cardinality(Sched) = N
  BY Zenon, TypedParts, Threads, ThreadsFinite DEF Queues, Answered, Settled
<1>2. Len(mq[0]) \in Nat
  BY <1>1
<1>3. \A m \in Of("block") \cup Of("unblock") : m.type \in {"block", "unblock"}
  BY DEF Of
<1>4. /\ Count(mq[0], Len(mq[0]), Of("block")) = 0
      /\ Count(mq[0], Len(mq[0]), Of("unblock")) = 0
  <2>1. /\ Places(mq[0], Len(mq[0]), Of("block")) = {}
        /\ Places(mq[0], Len(mq[0]), Of("unblock")) = {}
    BY Zenon, <1>3 DEF Places, Settled, Unreported
  <2> QED
    BY Zenon, <2>1 DEF FiniteFacts, NoElement, Count
<1>5. Cardinality(Blocked) = block_count + Count(mq[0], Len(mq[0]), Of("block")) - Count(mq[0], Len(mq[0]), Of("unblock"))
  BY Zenon DEF Reports, Total, After
<1>6. Cardinality(Blocked) = N
  BY SMT, <1>1, <1>4, <1>5
<1>7. Blocked \in SUBSET Sched
  BY Zenon DEF Blocked
<1>8. Blocked = Sched
  BY Zenon, <1>1, <1>6, <1>7 DEF FiniteFacts, Parts
<1>9. \A t \in Sched : block_sent[t] /\ StealingAt(t)
  BY Zenon, <1>8 DEF Blocked, Stealing
<1>10. \A l \in Searching : l \notin Working
  BY DEF Searching, Working
<1> QED
  BY Zenon, <1>9, <1>10 DEF StealingAt

(* A round without refusals is one in which all have reported, and those   *)
(* who have answered have nothing to run.                                  *)
LEMMA AnsweredStep ==
  ASSUME FiniteFacts, MayPin = {}, Typed, Control, Reports, Rounds, Unpinned, Stealing, Begun, Answered, [Next]_vars
  PROVE  Answered'
<1>1. Pending \in Nat /\ Pending <= ack_count /\ ack_count \in Int /\ N \in Nat /\ N > 0
  <2>1. /\ Cardinality(Asked) \in Nat /\ Times(mq[0], Ack) \in Nat /\ ack_count \in Int
        /\ Pending = Cardinality(Asked) + Times(mq[0], Ack) /\ N \in Nat /\ N > 0
    BY Zenon, RoundBefore, Threads
  <2>2. Pending <= ack_count
    BY Zenon DEF Rounds
  <2> QED
    BY SMT, <2>1, <2>2
<1>2. RoundStep
  BY Zenon, RoundSteps
(* The round goes on, and those who have answered have no actor but one that listens *)
<1>4. ASSUME ack_count' = Pending' => ack_count = Pending, UNCHANGED <<ack_token, block_count>>,
             \A t \in Sched \ Asked' : t \in Asked => cur[t] = None
      PROVE  Answered'
  <2>1. ASSUME Unrefused' PROVE Unrefused /\ block_count' = N
    BY Zenon, <1>4, <2>1 DEF Unrefused, Answered
  <2>2. ASSUME Settled', NEW t \in Sched \ Asked' PROVE cur'[t] \in noisy' \cup {None}
    <3>1. Unreported(mq'[0])
      BY Zenon, <2>2 DEF Settled
    <3>2. Unrefused'
      BY Zenon, <2>2 DEF Settled
    <3>3. Settled
      BY Zenon, <1>4, <2>1, <3>1, <3>2, UnreportedBefore DEF Settled
    <3>4. \A u \in Sched : pc[u] \in Searching /\ q[u] = <<>>
      BY Zenon, <3>3, SettledSteal
    <3>t. Taken
      <4>1. ack_count = Pending
        BY Zenon, <3>3 DEF Settled, Unrefused
      <4>2. ~(Pending = 0 /\ ack_count = N)
        BY SMT, <1>1, <4>1
      <4> QED
        BY Zenon, <4>2 DEF Begun
    <3>5. noisy' = noisy /\ \A u \in Sched : cur'[u] = cur[u] \/ cur'[u] \in noisy
      BY Zenon, <3>4, <3>t, StealersGet
    <3>6. cur[t] \in noisy \cup {None}
      BY Zenon, <1>4, <2>2, <3>3 DEF Answered
    <3> QED
      BY Zenon, <3>5, <3>6
  <2> QED
    BY Zenon, <2>1, <2>2 DEF Answered
(* The round has been refused, or ended *)
<1>5. ASSUME ack_count' # Pending' PROVE Answered'
  <2>1. ~Unrefused' /\ ~Settled'
    BY Zenon, <1>5 DEF Unrefused, Settled
  <2> QED
    BY Zenon, <2>1 DEF Answered
<1>6. CASE RoundKept
  <2>1. Asked' = Asked /\ Pending' = Pending /\ ack_count' = ack_count /\ UNCHANGED <<ack_token, block_count>>
    BY Zenon, <1>6 DEF RoundKept
  <2> QED
    BY Zenon, <1>4, <2>1
<1>7. ASSUME NEW t \in Thread, RoundAnswered(t) PROVE Answered'
  <2>1. /\ Asked' = Asked \ {t} /\ Pending' = Pending /\ ack_count' = ack_count
        /\ UNCHANGED <<ack_token, block_count>> /\ cur[t] = None
    BY Zenon, <1>7 DEF RoundAnswered, Answers
  <2> QED
    BY Zenon, <1>4, <2>1
<1>8. ASSUME NEW t \in Thread, RoundRefused(t) PROVE Answered'
  <2>1. Pending' = Pending - 1 /\ ack_count' = ack_count
    BY Zenon, <1>8 DEF RoundRefused
  <2>2. ack_count' # Pending'
    BY SMT, <1>1, <2>1
  <2> QED
    BY Zenon, <1>5, <2>2
<1>9. CASE RoundHeard
  <2>1. /\ Asked' = Asked /\ Pending' = Pending - 1 /\ ack_count' = ack_count - 1
        /\ UNCHANGED <<ack_token, block_count>>
    BY Zenon, <1>9 DEF RoundHeard
  <2>2. ack_count' = Pending' => ack_count = Pending
    BY SMT, <1>1, <2>1
  <2> QED
    BY Zenon, <1>4, <2>1, <2>2
<1>10. CASE RoundStarted
  <2>1. Asked' = Thread /\ (block_count' = N \/ (ack_count = 0 /\ UNCHANGED block_count))
    BY Zenon, <1>10 DEF RoundStarted
  <2>2. ack_count = 0 => ack_count = Pending
    BY SMT, <1>1
  <2>3. block_count' = N
    BY Zenon, <2>1, <2>2 DEF Unrefused, Answered
  <2>4. \A t \in Sched : t \in Asked'
    BY Zenon, <2>1, Threads
  <2> QED
    BY Zenon, <2>3, <2>4 DEF Answered
<1>11. CASE RoundEnded
  <2>1. Pending' = 0 /\ ack_count' = N
    BY Zenon, <1>11 DEF RoundEnded
  <2>2. ack_count' # Pending'
    BY SMT, <1>1, <2>1
  <2> QED
    BY Zenon, <1>5, <2>2
<1> QED
  BY Zenon, <1>2, <1>6, <1>7, <1>8, <1>9, <1>10, <1>11 DEF RoundStep

(* What has begun in time has left the pinned-actor thread's queue.        *)
LEMMA StartedTaken ==
  ASSUME MayPin = {}, Typed', Started'
  PROVE  Taken'
<1>1. /\ q'[P] \in Seq(Actor) /\ pinned' = {} /\ inject' \in Seq(Actor) /\ None \notin Actor
  <2>1. q' \in [Thread -> Seq(Actor)] /\ pinned' \subseteq MayPin /\ inject' \in Seq(Actor)
    BY Zenon DEF Typed, TypeOK
  <2> QED
    BY <2>1, Threads, QuiescenceAssumption
<1>2. /\ \A a \in InQueue(q'[P]) \cup {cur'[P]} : a = None
      /\ \A a \in InQueue(inject') : a \in noisy'
  BY Zenon, <1>1 DEF Started
<1>3. cur'[P] = None
  BY Zenon, <1>2
<1>4. q'[P] = <<>>
  <2>1. ASSUME q'[P] # <<>> PROVE q'[P][1] \in Actor /\ 1 \in DOMAIN q'[P]
    BY SMT, <1>1, <2>1
  <2> QED
    BY Zenon, <1>1, <1>2, <2>1 DEF InQueue
<1>5. \A i \in 1..Len(inject') : inject'[i] \in noisy'
  <2>1. DOMAIN inject' = 1..Len(inject')
    BY SMT, <1>1
  <2> QED
    BY Zenon, <1>2, <2>1 DEF InQueue
<1> QED
  BY Zenon, <1>3, <1>4, <1>5 DEF Taken, Away, Injected

(* And does not come back.                                                 *)
LEMMA TakenStep ==
  ASSUME MayPin = {}, Typed, Control, Unique, Unpinned, Taken, [Next]_vars
  PROVE  Taken'
  BY Zenon, AwayStep, InjectedStep DEF Taken

(* The ASIO thread is stopped when all the answers are there.              *)
LEMMA StopsAnswered ==
  ASSUME [Next]_vars, asio # "stopped", asio' = "stopped"
  PROVE  ack_count = 0
<1>1. ASSUME NEW t \in Thread
      PROVE  ~(Send(t) \/ Pin(t) \/ Subscribe(t) \/ EventDestroy(t) \/ TellNoisy(t) \/ EndRun(t) \/ ReadMsg(t))
  BY Zenon DEF Send, Pin, Subscribe, EventDestroy, TellNoisy, EndRun, ReadMsg, actors
<1>2. ASSUME NEW t \in Sched
      PROVE  ~(Begin(t) \/ Route(t) \/ StealInject(t) \/ StealVictim(t) \/ Found(t))
  BY Zenon DEF Begin, Route, StealInject, StealVictim, Found, actors
<1>3. ASSUME NEW t \in Sched PROVE ~(Again(t) \/ Resume(t) \/ Block(t) \/ Suspend(t))
  BY Zenon DEF Again, Resume, Block, Suspend, actors
<1>4. ~(Drowsy \/ FallAsleep \/ PinnedRoute \/ PinnedIdle \/ Shutdown)
  BY Zenon DEF Drowsy, FallAsleep, PinnedRoute, PinnedIdle, Shutdown, actors
<1>5. ~(Event \/ EventWake)
  BY DEF Event, EventWake
<1>6. ~UNCHANGED vars
  BY Zenon DEF vars, actors
<1>7. PICK t \in Sched : Quiet(t)
  BY Zenon, Steps, <1>1, <1>2, <1>3, <1>4, <1>5, <1>6
<1> QED
  BY Zenon, <1>7 DEF Quiet, MayStop

(* No round starts before the first actor of the program is taken.         *)
LEMMA BegunStep ==
  ASSUME FiniteFacts, MayPin = {}, Typed, Control, Unique, Rounds, Unpinned, Begun, [Next]_vars,
         Typed', ack_count' > N => Taken'
  PROVE  Begun'
<1>1. CASE Taken
  BY Zenon, <1>1, TakenStep DEF Begun
<1>2. CASE Pending = 0 /\ ack_count = N /\ asio # "stopped"
  <2>0. N \in Nat /\ N > 0 /\ Pending' \in Nat
    <3>1. N \in Nat /\ N > 0
      BY Zenon, Threads
    <3>2. AskedIn(mq', ack_token') \in SUBSET Thread /\ IsFiniteSet(Thread)
      BY Zenon, Threads, ThreadsFinite DEF AskedIn
    <3>3. Cardinality(AskedIn(mq', ack_token')) \in Nat
      BY Zenon, <3>2 DEF FiniteFacts, Parts, SizeIsNat
    <3>4. mq' \in [Thread -> Seq(Message)] /\ 0 \in Thread
      BY Zenon, Threads DEF Typed
    <3>5. Len(mq'[0]) \in Nat
      BY SMT, <3>4
    <3>6. Times(mq'[0], Msg("ack", ack_token')) \in Nat
      BY Zenon, <3>5, CountNat DEF Times
    <3>7. Pending' \in Nat
      BY SMT, <3>3, <3>6, RoundAfter
    <3> QED
      BY Zenon, <3>1, <3>7
  <2>1. asio' # "stopped"
    <3>1. ack_count # 0
      BY SMT, <1>2, <2>0
    <3> QED
      BY Zenon, <1>2, <3>1, StopsAnswered
  <2>2. RoundStep
    BY Zenon, RoundSteps
  <2>3. CASE RoundKept \/ RoundEnded \/ \E t \in Thread : RoundAnswered(t)
    <3>1. Pending' = 0 /\ ack_count' = N
      BY Zenon, <1>2, <2>3 DEF RoundKept, RoundEnded, RoundAnswered
    <3> QED
      BY Zenon, <2>1, <3>1 DEF Begun
  <2>4. CASE RoundStarted
    <3>1. ack_count' > N
      BY SMT, <2>0, <2>4 DEF RoundStarted
    <3> QED
      BY Zenon, <3>1 DEF Begun
  <2>5. CASE RoundHeard \/ \E t \in Thread : RoundRefused(t)
    <3>1. Pending' = Pending - 1
      BY Zenon, <2>5 DEF RoundHeard, RoundRefused
    <3> QED
      BY SMT, <1>2, <2>0, <3>1
  <2> QED
    BY Zenon, <2>2, <2>3, <2>4, <2>5 DEF RoundStep
<1> QED
  BY Zenon, <1>1, <1>2 DEF Begun

(* Scheduler 0 stops the ASIO thread when there is nothing left.           *)
LEMMA StopsIdle ==
  ASSUME FiniteFacts, MayPin = {}, Typed, Reports, Rounds, Stealing, Begun, Answered,
         mq[0] = <<>>, ack_count = 0, noisy = {}
  PROVE  inject = <<>> /\ \A t \in Thread : cur[t] = None /\ q[t] = <<>>
<1>1. /\ Cardinality(Asked) \in Nat /\ Times(mq[0], Ack) \in Nat /\ IsFiniteSet(Asked)
      /\ Pending = Cardinality(Asked) + Times(mq[0], Ack)
  BY Zenon, RoundBefore
<1>2. Pending <= 0
  BY Zenon DEF Rounds
<1>3. Cardinality(Asked) = 0 /\ Pending = 0
  BY SMT, <1>1, <1>2
<1>4. Asked = {}
  BY Zenon, <1>1, <1>3 DEF FiniteFacts, NoElement
<1>5. Len(mq[0]) = 0
  OBVIOUS
<1>6. Settled
  <2>1. Unreported(mq[0])
    BY SMT, <1>5 DEF Unreported
  <2>2. Unrefused
    BY Zenon, <1>3 DEF Unrefused
  <2> QED
    BY Zenon, <2>1, <2>2 DEF Settled
<1>7. \A t \in Sched : q[t] = <<>>
  BY Zenon, <1>6, SettledSteal
<1>8. \A t \in Sched : cur[t] = None
  BY Zenon, <1>4, <1>6 DEF Answered
<1>t. Taken
  <2>1. ack_count # N
    BY SMT, Threads
  <2> QED
    BY Zenon, <2>1 DEF Begun
<1>9. \A t \in Thread : cur[t] = None /\ q[t] = <<>>
  BY Zenon, <1>7, <1>8, <1>t, Threads DEF Taken, Away
<1>10. \A i \in 1..Len(inject) : FALSE
  BY Zenon, <1>t DEF Taken, Injected
<1>11. inject \in Seq(Actor)
  BY Zenon, TypedParts DEF Places0
<1>12. inject = <<>>
  BY SMT, <1>10, <1>11
<1> QED
  BY Zenon, <1>9, <1>12

(* From then on nothing is scheduled.                                      *)
LEMMA StoppedStep ==
  ASSUME FiniteFacts, MayPin = {}, Typed, Control, Reports, Rounds, Unpinned, Stealing, Begun, Answered, Stopped, [Next]_vars
  PROVE  Stopped'
<1>0. pinned = {}
  BY Zenon, NobodyPinned
<1>1. /\ (\A t \in Sched : t \in Thread) /\ 0 \in Thread /\ P \in Thread /\ q \in [Thread -> Seq(Actor)]
      /\ cur \in [Thread -> Actor \cup {None}]
  BY Zenon, Threads, TypedParts DEF Places0
<1>2. ASSUME asio = "stopped"
      PROVE  /\ noisy = {} /\ inject = <<>> /\ \A t \in Thread : cur[t] = None /\ q[t] = <<>>
             /\ \A t \in Thread : pc[t] \notin {"actor", "noisy", "unnoisy", "found"}
  <2>1. noisy = {} /\ inject = <<>> /\ \A t \in Thread : cur[t] = None /\ q[t] = <<>>
    BY Zenon, <1>2 DEF Stopped
  <2>2. \A t \in Thread : pc[t] \notin {"actor", "noisy", "unnoisy", "found"}
    BY Zenon, <2>1 DEF Control
  <2> QED
    BY Zenon, <2>1, <2>2
<1>u. UNCHANGED <<asio, noisy, inject, q, cur>> => Stopped'
  BY Zenon DEF Stopped
<1>n. asio' # "stopped" => Stopped'
  BY Zenon DEF Stopped
<1>r. ASSUME UNCHANGED asio, asio # "stopped" PROVE Stopped'
  BY Zenon, <1>n, <1>r
<1>3. ASSUME UNCHANGED vars PROVE Stopped'
  BY Zenon, <1>3, <1>u DEF vars, queues, actors
<1>4. ASSUME NEW t \in Thread, Send(t) PROVE Stopped'
  <2>1. pc[t] \in {"actor", "noisy", "unnoisy"} /\ UNCHANGED asio
    BY <1>4 DEF Send, actors
  <2>2. pc[t] \in {"actor", "noisy", "unnoisy", "found"}
    BY SMT, <2>1
  <2> QED
    BY Zenon, <1>2, <1>r, <2>1, <2>2
<1>5. ASSUME NEW t \in Thread, Pin(t) PROVE Stopped'
  <2>1. pc[t] \in {"actor", "noisy", "unnoisy"} /\ UNCHANGED asio
    BY <1>5 DEF Pin, actors
  <2>2. pc[t] \in {"actor", "noisy", "unnoisy", "found"}
    BY SMT, <2>1
  <2> QED
    BY Zenon, <1>2, <1>r, <2>1, <2>2
<1>6. ASSUME NEW t \in Thread, Subscribe(t) PROVE Stopped'
  <2>1. pc[t] \in {"actor", "noisy", "unnoisy"} /\ UNCHANGED asio
    BY <1>6 DEF Subscribe, actors
  <2>2. pc[t] \in {"actor", "noisy", "unnoisy", "found"}
    BY SMT, <2>1
  <2> QED
    BY Zenon, <1>2, <1>r, <2>1, <2>2
<1>7. ASSUME NEW t \in Thread, EventDestroy(t) PROVE Stopped'
  <2>1. pc[t] \in {"actor", "noisy", "unnoisy"} /\ UNCHANGED asio
    BY <1>7 DEF EventDestroy, actors
  <2>2. pc[t] \in {"actor", "noisy", "unnoisy", "found"}
    BY SMT, <2>1
  <2> QED
    BY Zenon, <1>2, <1>r, <2>1, <2>2
<1>8. ASSUME NEW t \in Thread, TellNoisy(t) PROVE Stopped'
  <2>1. pc[t] \in {"actor", "noisy", "unnoisy"} /\ UNCHANGED asio
    BY <1>8 DEF TellNoisy, actors
  <2>2. pc[t] \in {"actor", "noisy", "unnoisy", "found"}
    BY SMT, <2>1
  <2> QED
    BY Zenon, <1>2, <1>r, <2>1, <2>2
<1>9. ASSUME NEW t \in Thread, EndRun(t) PROVE Stopped'
  <2>1. pc[t] \in {"actor", "noisy", "unnoisy"} /\ UNCHANGED asio
    BY <1>9 DEF EndRun, actors
  <2>2. pc[t] \in {"actor", "noisy", "unnoisy", "found"}
    BY SMT, <2>1
  <2> QED
    BY Zenon, <1>2, <1>r, <2>1, <2>2
<1>10. ASSUME NEW t \in Thread, ReadMsg(t) PROVE Stopped'
  BY Zenon, <1>10, <1>u DEF ReadMsg, queues, actors
<1>11. ASSUME NEW t \in Sched, Begin(t) PROVE Stopped'
  <2>1. UNCHANGED <<asio, noisy>>
    BY Zenon, <1>11 DEF Begin, actors
  <2>2. CASE asio # "stopped"
    BY Zenon, <1>r, <2>1, <2>2
  <2>3. CASE asio = "stopped"
    <3>1. inject = <<>> /\ q[t] = <<>> /\ cur[t] = None
      BY Zenon, <1>1, <1>2, <2>3
    <3>2. PopGlobal(t).actor = None /\ PopGlobal(t).q = q /\ PopGlobal(t).inject = inject
      BY SMT, <3>1 DEF PopGlobal, Pop
    <3>3. q' = q /\ inject' = inject /\ cur' = [cur EXCEPT ![t] = None]
      BY Zenon, <1>11, <3>2 DEF Begin
    <3>4. cur' = cur
      BY SMT, <1>1, <3>1, <3>3
    <3> QED
      BY Zenon, <1>u, <2>1, <3>3, <3>4
  <2> QED
    BY Zenon, <2>2, <2>3
<1>12. ASSUME NEW t \in Sched, Route(t) PROVE Stopped'
  BY Zenon, <1>12, <1>0, <1>u DEF Route, queues, actors
<1>13. ASSUME NEW t \in Sched, StealInject(t) PROVE Stopped'
  <2>1. UNCHANGED <<asio, noisy>>
    BY Zenon, <1>13 DEF StealInject, actors
  <2>2. CASE inject = <<>>
    <3>1. UNCHANGED <<inject, q, cur>>
      BY Zenon, <1>13, <2>2 DEF StealInject, queues
    <3> QED
      BY Zenon, <1>u, <2>1, <3>1
  <2>3. CASE ~(inject = <<>>)
    BY Zenon, <1>1, <1>2, <1>r, <2>1, <2>3
  <2> QED
    BY Zenon, <2>2, <2>3
<1>14. ASSUME NEW t \in Sched, StealVictim(t) PROVE Stopped'
  <2>1. UNCHANGED <<asio, noisy, inject>>
    BY Zenon, <1>14 DEF StealVictim, actors
  <2>2. CASE UNCHANGED <<q, cur>>
    BY Zenon, <1>u, <2>1, <2>2
  <2>3. CASE \E v \in Sched : q[v] # <<>>
    BY Zenon, <1>1, <1>2, <1>r, <2>1, <2>3
  <2> QED
    BY Zenon, <1>14, <2>2, <2>3 DEF StealVictim
<1>15. ASSUME NEW t \in Sched, Found(t) PROVE Stopped'
  <2>1. UNCHANGED <<asio, noisy, inject>>
    BY Zenon, <1>15 DEF Found, actors
  <2>2. UNCHANGED <<q, cur>>
    BY Zenon, <1>15, <1>0 DEF Found
  <2> QED
    BY Zenon, <1>u, <2>1, <2>2
<1>16. ASSUME NEW t \in Sched, Quiet(t) PROVE Stopped'
  <2>1. UNCHANGED <<noisy, inject, q, cur>>
    BY Zenon, <1>16 DEF Quiet, queues
  <2>2. CASE asio' = asio
    BY Zenon, <1>u, <2>1, <2>2
  <2>3. CASE MayStop(t) /\ noisy = {}
    <3>1. ack_count = 0 /\ mq[0] = <<>>
      BY Zenon, <1>16, <2>3 DEF Quiet, MayStop
    <3>2. inject = <<>> /\ \A u \in Thread : cur[u] = None /\ q[u] = <<>>
      BY Zenon, <2>3, <3>1, StopsIdle
    <3> QED
      BY Zenon, <2>1, <2>3, <3>2 DEF Stopped
  <2> QED
    BY Zenon, <1>16, <2>2, <2>3 DEF Quiet
<1>17. ASSUME NEW t \in Sched, Again(t) PROVE Stopped'
  BY Zenon, <1>17, <1>u DEF Again, queues, actors
<1>18. ASSUME NEW t \in Sched, Resume(t) PROVE Stopped'
  BY Zenon, <1>18, <1>u DEF Resume, queues, actors
<1>19. ASSUME NEW t \in Sched, Block(t) PROVE Stopped'
  BY Zenon, <1>19, <1>u DEF Block, queues, actors
<1>20. ASSUME NEW t \in Sched, Suspend(t) PROVE Stopped'
  BY Zenon, <1>20, <1>u DEF Suspend, queues, actors
<1>21. ASSUME Drowsy PROVE Stopped'
  <2>1. UNCHANGED <<asio, noisy>>
    BY Zenon, <1>21 DEF Drowsy, actors
  <2>2. CASE inject = <<>>
    <3>1. UNCHANGED <<inject, q, cur>>
      BY Zenon, <1>21, <2>2 DEF Drowsy, queues
    <3> QED
      BY Zenon, <1>u, <2>1, <3>1
  <2>3. CASE ~(inject = <<>>)
    BY Zenon, <1>1, <1>2, <1>r, <2>1, <2>3
  <2> QED
    BY Zenon, <2>2, <2>3
<1>22. ASSUME FallAsleep PROVE Stopped'
  BY Zenon, <1>22, <1>u DEF FallAsleep, queues, actors
<1>23. ASSUME PinnedRoute PROVE Stopped'
  <2>1. UNCHANGED <<asio, noisy>>
    BY Zenon, <1>23 DEF PinnedRoute, actors
  <2>2. CASE asio # "stopped"
    BY Zenon, <1>r, <2>1, <2>2
  <2>3. CASE asio = "stopped"
    <3>1. cur[P] = None /\ q[P] = <<>>
      BY Zenon, <1>1, <1>2, <2>3
    <3>2. UNCHANGED <<inject, q, cur>>
      BY Zenon, <1>23, <3>1 DEF PinnedRoute, queues
    <3> QED
      BY Zenon, <1>u, <2>1, <3>2
  <2> QED
    BY Zenon, <2>2, <2>3
<1>24. ASSUME PinnedIdle PROVE Stopped'
  BY Zenon, <1>24, <1>u DEF PinnedIdle, queues, actors
<1>25. ASSUME Shutdown PROVE Stopped'
  BY Zenon, <1>25, <1>u DEF Shutdown, queues, actors
<1>26. ASSUME Event PROVE Stopped'
  <2>1. asio' = "wake"
    BY Zenon, <1>26 DEF Event
  <2> QED
    BY <1>n, <2>1
<1>27. ASSUME EventWake PROVE Stopped'
  <2>1. asio' = "wait"
    BY Zenon, <1>27 DEF EventWake
  <2> QED
    BY <1>n, <2>1
<1> QED
  BY Zenon, Steps, <1>3, <1>4, <1>5, <1>6, <1>7, <1>8, <1>9, <1>10, <1>11, <1>12, <1>13, <1>14, <1>15, <1>16, <1>17, <1>18, <1>19, <1>20, <1>21, <1>22, <1>23, <1>24, <1>25, <1>26, <1>27

(* The invariant holds at the start.                                       *)
LEMMA InitiallyUnpinned ==
  ASSUME FiniteFacts
  PROVE  Init => IInvUnpinned
<1> SUFFICES ASSUME Init PROVE IInvUnpinned
  OBVIOUS
<1>0. IInv
  BY Zenon, Initially
<1>1. /\ N \in Nat /\ N > 0 /\ 0 \in Thread /\ P \in Thread /\ \A t \in Sched : t \in Thread /\ t # P
  BY Zenon, Threads
<1>2. /\ \A t \in Thread : mq[t] = <<>>
      /\ \A t \in Sched : ~block_sent[t] /\ q[t] = <<>>
      /\ pc[P] = "top" /\ asio = "wait" /\ ack_count = N
  BY SMT, <1>1 DEF Init
<1>3. Unpinned
  BY <1>2 DEF Unpinned
<1>4. Stealing
  BY Zenon, <1>2 DEF Stealing, StealingAt
<1>5. Pending = 0
  <2>1. Len(mq[0]) = 0
    BY <1>1, <1>2
  <2>2. \A t \in Thread : ~In(mq[t], Cnf)
    <3>1. \A t \in Thread : Len(mq[t]) = 0
      BY <1>2
    <3> QED
      BY SMT, <3>1 DEF In
  <2>3. Asked = {}
    BY Zenon, <2>2 DEF Asked
  <2>4. Cardinality(Asked) = 0
    BY Zenon, <2>3 DEF FiniteFacts, NoElement
  <2>5. ~In(mq[0], Ack)
    BY SMT, <2>1 DEF In
  <2>6. mq \in [Thread -> Seq(Message)]
    BY Zenon, <1>0 DEF IInv, Typed
  <2>7. mq[0] \in Seq(Message)
    BY SMT, <1>1, <2>6
  <2>8. Times(mq[0], Ack) = 0
    BY Zenon, <2>5, <2>7, TimesNone
  <2> QED
    BY SMT, <2>4, <2>8 DEF Pending
<1>b. Begun
  BY <1>2, <1>5 DEF Begun
<1>6. Answered
  <2>1. ack_count # Pending
    BY SMT, <1>1, <1>2, <1>5
  <2> QED
    BY Zenon, <2>1 DEF Answered, Settled, Unrefused
<1>7. Stopped
  BY <1>2 DEF Stopped
<1> QED
  BY Zenon, <1>0, <1>3, <1>4, <1>6, <1>7, <1>b DEF IInvUnpinned

(* Every step keeps it, where Main starts in time.                         *)
LEMMA InductiveUnpinned ==
  ASSUME FiniteFacts, MayPin = {}
  PROVE  IInvUnpinned /\ [Next]_vars /\ StartsInTime' => IInvUnpinned'
<1> SUFFICES ASSUME IInvUnpinned, [Next]_vars, StartsInTime' PROVE IInvUnpinned'
  OBVIOUS
<1>1. /\ IInv /\ Typed /\ Control /\ Unique /\ Reports /\ Rounds
      /\ Unpinned /\ Stealing /\ Begun /\ Answered /\ Stopped
  BY Zenon DEF IInvUnpinned, IInv
<1>2. IInv'
  BY Zenon, <1>1, Inductive
<1>3. Unpinned'
  BY Zenon, <1>1, UnpinnedStep
<1>4. Stealing'
  BY Zenon, <1>1, StealingStep
<1>5. Begun'
  <2>1. Typed'
    BY Zenon, <1>2 DEF IInv
  <2>2. ack_count' > N => Taken'
    BY Zenon, <2>1, StartedTaken DEF StartsInTime
  <2> QED
    BY Zenon, <1>1, <2>1, <2>2, BegunStep
<1>6. Answered'
  BY Zenon, <1>1, AnsweredStep
<1>7. Stopped'
  BY Zenon, <1>1, StoppedStep
<1> QED
  BY Zenon, <1>2, <1>3, <1>4, <1>5, <1>6, <1>7 DEF IInvUnpinned

(* With all the queues empty, nothing is scheduled.                        *)
LEMMA IdleFollows == IInvUnpinned => TerminatesIdle
<1> SUFFICES ASSUME IInvUnpinned, asio = "stopped" PROVE Scheduled = {} /\ noisy = {}
  BY Zenon DEF TerminatesIdle
<1>1. noisy = {} /\ inject = <<>> /\ \A t \in Thread : cur[t] = None /\ q[t] = <<>>
  BY Zenon DEF IInvUnpinned, Stopped
<1>2. InQueue(<<>>) = {}
  BY DEF InQueue
<1>3. Scheduled = {}
  BY Zenon, <1>1, <1>2 DEF Scheduled
<1> QED
  BY Zenon, <1>1, <1>3

-----------------------------------------------------------------------------
INSTANCE FiniteSetTheorems

(* What the lemmas assume of finite sets is so.                            *)
LEMMA Finite == FiniteFacts
<1>1. NoElement /\ OneElement
  BY Zenon, FS_EmptySet, FS_Singleton DEF NoElement, OneElement
<1>2. AddElement /\ RemoveElement
  BY Zenon, FS_AddElement, FS_RemoveElement DEF AddElement, RemoveElement
<1>3. Parts
  BY Zenon, FS_Subset DEF Parts
<1>4. SizeIsNat
  BY Zenon, FS_CardinalityType DEF SizeIsNat
<1>5. Interval
  BY FS_Interval DEF Interval
<1>6. Pairs
  BY Zenon, FS_Product DEF Pairs
<1>7. SameSize
  <2> SUFFICES ASSUME NEW S, NEW T, NEW f \in [S -> T], IsFiniteSet(S),
                      \A i, j \in S : f[i] = f[j] => i = j,
                      \A j \in T : \E i \in S : f[i] = j
               PROVE  IsFiniteSet(T) /\ Cardinality(T) = Cardinality(S)
    BY Zenon DEF SameSize
  <2>1. ExistsBijection(S, T)
    BY Zenon DEF ExistsBijection, Bijection, Injection, Surjection, IsInjective
  <2> QED
    BY Zenon, <2>1, FS_Bijection
<1> QED
  BY Zenon, <1>1, <1>2, <1>3, <1>4, <1>5, <1>6, <1>7 DEF FiniteFacts

(* The inductive invariant of the schedulers holds.                        *)
THEOREM Invariance == Spec => []IInv
<1>1. Init => IInv
  BY Zenon, Finite, Initially
<1>2. IInv /\ [Next]_vars => IInv'
  BY Zenon, Finite, Inductive
<1> QED
  BY PTL, <1>1, <1>2 DEF Spec

(* The state of the schedulers keeps its type, whatever their number.      *)
THEOREM TypeCorrect == Spec => []TypeOK
<1>1. IInv => TypeOK
  BY Zenon DEF IInv, Typed
<1> QED
  BY PTL, Invariance, <1>1

(* No actor is in two queues, held by two threads, or both: pop, steal,    *)
(* push and the routing of pinned actors never duplicate an actor.         *)
THEOREM OnePlace == Spec => []ScheduledOnce
<1>1. IInv => ScheduledOnce
  BY Zenon, Finite, OnceFollows
<1> QED
  BY PTL, Invariance, <1>1

(* handle_sched_block and handle_sched_unblock count the blocked threads   *)
(* right, and the counts that read_msg asserts to be in range are.         *)
THEOREM CountsExact == Spec => []BlockCountExact
<1>1. IInv => BlockCountExact
  BY Zenon, Finite, CountsFollow
<1> QED
  BY PTL, Invariance, <1>1

(* read_msg never counts more acknowledgements of a round than were asked  *)
(* for, however many rounds were given up with answers on their way.       *)
THEOREM AcksNeverTooMany == Spec => []AcksBounded
<1>1. IInv => AcksBounded
  BY Zenon, Finite, AcksFollow
<1> QED
  BY PTL, Invariance, <1>1

(* In a program that pins no actor, and in which Main has been taken from  *)
(* the pinned-actor thread and from the inject queue by the time that a    *)
(* round of CNF and ACK is started, scheduler 0 ends the program (quiescent*)
(* and its two rounds) only when no actor is scheduled in any queue or     *)
(* thread and nothing is listened for, with any number of schedulers that  *)
(* steal, suspend, block and unblock.                                      *)
THEOREM EndsWithNothingLeft ==
  ASSUME MayPin = {}
  PROVE  Spec /\ []StartsInTime => []TerminatesIdle
<1>1. Init => IInvUnpinned
  BY Zenon, Finite, InitiallyUnpinned
<1>2. IInvUnpinned /\ [Next]_vars /\ StartsInTime' => IInvUnpinned'
  BY Zenon, Finite, InductiveUnpinned
<1>3. IInvUnpinned => TerminatesIdle
  BY Zenon, IdleFollows
<1> QED
  BY PTL, <1>1, <1>2, <1>3 DEF Spec
=============================================================================
