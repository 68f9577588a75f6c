------------------------- MODULE QuiescenceReports --------------------------
(***************************************************************************)
(* Lemmas for the proofs about Quiescence: BLOCK and UNBLOCK, and the      *)
(* notices of noisy subscriptions, as scheduler 0 counts them.             *)
(***************************************************************************)
EXTENDS QuiescenceTypes

(***************************************************************************)
(* What scheduler 0 is sent, and what it reads.                            *)
(***************************************************************************)
(* Messages that are in neither set do not change what a counter will be.  *)
LEMMA Neutral ==
  ASSUME FiniteFacts, NEW s \in Seq(Message), NEW z, NEW c \in Int, NEW Up, NEW Down,
         NEW x \in Message, x \notin Up, x \notin Down,
         \/ z = s \/ z = Append(s, x)
         \/ s # <<>> /\ Head(s) \notin Up /\ Head(s) \notin Down /\ (z = Tail(s) \/ z = Append(Tail(s), x))
  PROVE  /\ Total(c, z, Up, Down) = Total(c, s, Up, Down)
         /\ NeverNegative(c, s, Up, Down) => NeverNegative(c, z, Up, Down)
<1>1. ASSUME NEW r \in Seq(Message)
      PROVE  /\ Total(c, Append(r, x), Up, Down) = Total(c, r, Up, Down)
             /\ NeverNegative(c, r, Up, Down) => NeverNegative(c, Append(r, x), Up, Down)
  <2>1. Effect(x, Up, Down) = 0
    BY DEF Effect
  <2>2. NeverNegative(c, r, Up, Down) => Total(c, r, Up, Down) >= 0
    <3>1. Len(r) \in 0..Len(r)
      OBVIOUS
    <3> QED
      BY Zenon, <3>1 DEF NeverNegative, Total
  <2>3. /\ Total(c, r, Up, Down) \in Int
        /\ Total(c, Append(r, x), Up, Down) = Total(c, r, Up, Down) + Effect(x, Up, Down)
        /\ NeverNegative(c, r, Up, Down) /\ Total(c, r, Up, Down) + Effect(x, Up, Down) >= 0
             => NeverNegative(c, Append(r, x), Up, Down)
    BY Zenon, PushEffect
  <2> QED
    BY <2>1, <2>2, <2>3
<1>2. ASSUME s # <<>>, Head(s) \notin Up, Head(s) \notin Down
      PROVE  /\ Tail(s) \in Seq(Message)
             /\ Total(c, Tail(s), Up, Down) = Total(c, s, Up, Down)
             /\ NeverNegative(c, s, Up, Down) => NeverNegative(c, Tail(s), Up, Down)
  <2>1. Tail(s) \in Seq(Message)
    BY <1>2
  <2>2. c + Effect(Head(s), Up, Down) = c
    BY <1>2 DEF Effect
  <2>3. /\ Total(c + Effect(Head(s), Up, Down), Tail(s), Up, Down) = Total(c, s, Up, Down)
        /\ NeverNegative(c, s, Up, Down) => NeverNegative(c + Effect(Head(s), Up, Down), Tail(s), Up, Down)
    BY SMT, <1>2, ReadEffect
  <2> QED
    BY SMT, <2>1, <2>2, <2>3
<1> QED
  BY Zenon, <1>1, <1>2

(* All that scheduler 0 reads or is sent in a step is of these types.      *)
MailOf(types) ==
  \E x \in Message :
    /\ x.type \in types
    /\ \/ mq'[0] = mq[0] \/ mq'[0] = Append(mq[0], x)
       \/ /\ mq[0] # <<>> /\ Head(mq[0]).type \in types
          /\ mq'[0] = Tail(mq[0]) \/ mq'[0] = Append(Tail(mq[0]), x)

(* Few steps send or read a report or a notice.                            *)
LEMMA MailSteps ==
  ASSUME Typed, [Next]_vars
  PROVE  \/ \E t \in Thread : TellNoisy(t)
         \/ \E t \in Sched : Block(t) \/ (Found(t) /\ block_sent[t])
         \/ /\ mq[0] # <<>> /\ UNCHANGED <<queues, actors, pc, cur, block_sent>>
            /\ StartsRound \/ EndsRound("block") \/ EndsRound("unblock") \/ HearsNotice
         \/ /\ MailOf({"cnf", "ack", "terminate"})
            /\ UNCHANGED <<block_count, asio_noisy, block_sent>>
<1> DEFINE Plain == MailOf({"cnf", "ack", "terminate"}) /\ UNCHANGED <<block_count, asio_noisy, block_sent>>
           Goal == \/ \E t \in Thread : TellNoisy(t)
                   \/ \E t \in Sched : Block(t) \/ (Found(t) /\ block_sent[t])
                   \/ /\ mq[0] # <<>> /\ UNCHANGED <<queues, actors, pc, cur, block_sent>>
                      /\ StartsRound \/ EndsRound("block") \/ EndsRound("unblock") \/ HearsNotice
                   \/ Plain
<1>0. /\ mq \in [Thread -> Seq(Message)] /\ block_sent \in [Sched -> BOOLEAN] /\ ack_token \in Nat
      /\ 0 \in Thread /\ (\A t \in Sched : t \in Thread)
  BY Zenon, TypedParts, Threads DEF Queues, Flags0, Counts0
<1>a. /\ \A n \in Nat : Msg("cnf", n) \in Message /\ Msg("ack", n) \in Message
      /\ Msg("terminate", 0) \in Message
      /\ \A n \in Nat : Msg("cnf", n).type = "cnf" /\ Msg("ack", n).type = "ack" /\ Msg("terminate", n).type = "terminate"
  BY DEF Msg, Message
<1>b. \A x \in Message : mq'[0] = Append(mq[0], x) /\ x.type \in {"cnf", "ack", "terminate"}
        => MailOf({"cnf", "ack", "terminate"})
  BY Zenon DEF MailOf
<1>u. mq'[0] = mq[0] => MailOf({"cnf", "ack", "terminate"})
  <2>1. Msg("terminate", 0).type \in {"cnf", "ack", "terminate"} /\ 0 \in Nat
    BY <1>a
  <2> QED
    BY Zenon, <1>a, <2>1 DEF MailOf
<1>p. UNCHANGED <<mq, block_count, asio_noisy, block_sent>> => Plain
  BY Zenon, <1>u
<1> HIDE DEF Goal
<1>g. (Plain => Goal)
  BY Zenon DEF Goal
<1>1. ASSUME UNCHANGED vars PROVE Goal
  BY Zenon, <1>1, <1>p, <1>g DEF vars, sched0
<1>2. ASSUME NEW t \in Thread, Send(t) PROVE Goal
  BY Zenon, <1>2, <1>p, <1>g DEF Send, sched0
<1>3. ASSUME NEW t \in Thread, Pin(t) PROVE Goal
  BY Zenon, <1>3, <1>p, <1>g DEF Pin, sched0
<1>4. ASSUME NEW t \in Thread, Subscribe(t) PROVE Goal
  BY Zenon, <1>4, <1>p, <1>g DEF Subscribe, sched0
<1>5. ASSUME NEW t \in Thread, EventDestroy(t) PROVE Goal
  BY Zenon, <1>5, <1>p, <1>g DEF EventDestroy, sched0
<1>6. ASSUME NEW t \in Thread, TellNoisy(t) PROVE Goal
  BY Zenon, <1>6 DEF Goal
<1>7. ASSUME NEW t \in Thread, EndRun(t) PROVE Goal
  BY Zenon, <1>7, <1>p, <1>g DEF EndRun, sched0
<1>8. ASSUME NEW t \in Thread, ReadMsg(t) PROVE Goal
  <2>1. mq[t] # <<>> /\ UNCHANGED <<queues, actors, pc, cur, block_sent>>
    BY Zenon, <1>8, ReadCases
  <2>2. CASE t = 0 /\ (StartsRound \/ EndsRound("block") \/ EndsRound("unblock") \/ HearsNotice)
    BY Zenon, <2>1, <2>2 DEF Goal
  <2>3. CASE t = 0 /\ HearsAnswer
    <3>1. mq'[0] = Tail(mq[0]) /\ Head(mq[0]).type = "ack" /\ UNCHANGED <<block_count, asio_noisy>>
      BY Zenon, <1>0, <2>3 DEF HearsAnswer, Popped
    <3> QED
      BY <1>a, <1>g, <2>1, <2>3, <3>1 DEF MailOf
  <2>4. CASE Refuses(t) \/ HearsEnd(t)
    <3>1. mq' = Popped(t) /\ Head(mq[t]).type \in {"cnf", "terminate"} /\ UNCHANGED <<block_count, asio_noisy>>
      BY Zenon, <2>4 DEF Refuses, HearsEnd, sched0
    <3>2. CASE t = 0
      <4>1. mq'[0] = Tail(mq[0])
        BY Zenon, <1>0, <3>1, <3>2 DEF Popped
      <4> QED
        BY <1>a, <1>g, <2>1, <3>1, <3>2, <4>1 DEF MailOf
    <3>3. CASE t # 0
      <4>1. mq'[0] = mq[0]
        BY Zenon, <1>0, <3>1, <3>3 DEF Popped
      <4> QED
        BY Zenon, <1>u, <1>g, <2>1, <3>1, <4>1
    <3> QED
      BY Zenon, <3>2, <3>3
  <2>5. CASE Answers(t)
    <3> DEFINE x == Msg("ack", Head(mq[t]).token)
    <3>1. Head(mq[t]).type = "cnf" /\ UNCHANGED <<block_count, asio_noisy>>
      BY Zenon, <2>5 DEF Answers, sched0
    <3>2. Head(mq[t]) \in Message
      BY <1>0, <2>1
    <3>3. x \in Message /\ x.type \in {"cnf", "ack", "terminate"}
      BY Zenon, <3>2 DEF Message, Msg
    <3>4. mq' = [Popped(t) EXCEPT ![0] = Append(@, x)]
      BY Zenon, <2>5 DEF Answers
    <3> HIDE DEF x
    <3>5. CASE t = 0
      <4>1. mq'[0] = Append(Tail(mq[0]), x)
        BY Zenon, <1>0, <3>4, <3>5 DEF Popped
      <4> QED
        BY Zenon, <1>g, <2>1, <3>1, <3>3, <3>5, <4>1 DEF MailOf
    <3>6. CASE t # 0
      <4>1. mq'[0] = Append(mq[0], x)
        BY Zenon, <1>0, <3>4, <3>6 DEF Popped
      <4> QED
        BY Zenon, <1>b, <1>g, <2>1, <3>1, <3>3, <4>1
    <3> QED
      BY Zenon, <3>5, <3>6
  <2> QED
    BY Zenon, <1>8, ReadCases, <2>2, <2>3, <2>4, <2>5
<1>9. ASSUME NEW t \in Sched, Begin(t) PROVE Goal
  BY Zenon, <1>9, <1>p, <1>g DEF Begin, sched0
<1>10. ASSUME NEW t \in Sched, Route(t) PROVE Goal
  BY Zenon, <1>10, <1>p, <1>g DEF Route, sched0
<1>11. ASSUME NEW t \in Sched, StealInject(t) PROVE Goal
  BY Zenon, <1>11, <1>p, <1>g DEF StealInject, sched0
<1>12. ASSUME NEW t \in Sched, StealVictim(t) PROVE Goal
  BY Zenon, <1>12, <1>p, <1>g DEF StealVictim, sched0
<1>13. ASSUME NEW t \in Sched, Found(t) PROVE Goal
  <2>1. CASE block_sent[t]
    BY Zenon, <1>13, <2>1 DEF Goal
  <2>2. CASE ~block_sent[t]
    <3>1. mq' = mq /\ UNCHANGED <<block_count, asio_noisy>>
      BY Zenon, <1>13, <2>2 DEF Found, sched0
    <3>2. block_sent' = [block_sent EXCEPT ![t] = FALSE]
      BY Zenon, <1>13 DEF Found
    <3>3. block_sent[t] = FALSE
      BY <1>0, <2>2
    <3>4. block_sent' = block_sent
      BY Zenon, <1>0, <3>2, <3>3
    <3> QED
      BY Zenon, <1>p, <1>g, <3>1, <3>4
  <2> QED
    BY Zenon, <2>1, <2>2
<1>14. ASSUME NEW t \in Sched, Quiet(t) PROVE Goal
  <2>1. UNCHANGED <<block_count, asio_noisy, block_sent>>
    BY Zenon, <1>14 DEF Quiet
  <2>2. CASE mq' = mq
    BY Zenon, <1>u, <1>g, <2>1, <2>2
  <2>3. CASE ToAll(Msg("terminate", 0))
    <3>1. mq'[0] = Append(mq[0], Msg("terminate", 0))
      BY Zenon, <1>0, <2>3 DEF ToAll
    <3>2. Msg("terminate", 0).type \in {"cnf", "ack", "terminate"}
      BY <1>a
    <3> QED
      BY Zenon, <1>a, <1>b, <1>g, <2>1, <3>1, <3>2
  <2>4. CASE ToAll(Msg("cnf", ack_token')) /\ ack_token' = ack_token + 1
    <3>1. mq'[0] = Append(mq[0], Msg("cnf", ack_token'))
      BY Zenon, <1>0, <2>4 DEF ToAll
    <3>2. ack_token' \in Nat
      BY <1>0, <2>4
    <3>3. Msg("cnf", ack_token') \in Message /\ Msg("cnf", ack_token').type \in {"cnf", "ack", "terminate"}
      BY <3>2, <1>a
    <3> QED
      BY Zenon, <1>b, <1>g, <2>1, <3>1, <3>3
  <2> QED
    BY Zenon, <1>14, <2>2, <2>3, <2>4 DEF Quiet
<1>15. ASSUME NEW t \in Sched, Again(t) PROVE Goal
  BY Zenon, <1>15, <1>p, <1>g DEF Again, sched0
<1>16. ASSUME NEW t \in Sched, Resume(t) PROVE Goal
  BY Zenon, <1>16, <1>p, <1>g DEF Resume, sched0
<1>17. ASSUME NEW t \in Sched, Block(t) PROVE Goal
  BY Zenon, <1>17 DEF Goal
<1>18. ASSUME NEW t \in Sched, Suspend(t) PROVE Goal
  BY Zenon, <1>18, <1>p, <1>g DEF Suspend, sched0
<1>19. ASSUME Drowsy PROVE Goal
  BY Zenon, <1>19, <1>p, <1>g DEF Drowsy, sched0
<1>20. ASSUME FallAsleep PROVE Goal
  BY Zenon, <1>20, <1>p, <1>g DEF FallAsleep, sched0
<1>21. ASSUME PinnedRoute PROVE Goal
  BY Zenon, <1>21, <1>p, <1>g DEF PinnedRoute, sched0
<1>22. ASSUME PinnedIdle PROVE Goal
  BY Zenon, <1>22, <1>p, <1>g DEF PinnedIdle, sched0
<1>23. ASSUME Shutdown PROVE Goal
  BY Zenon, <1>23, <1>p, <1>g DEF Shutdown, sched0
<1>24. ASSUME Event PROVE Goal
  BY Zenon, <1>24, <1>p, <1>g DEF Event, sched0
<1>25. ASSUME EventWake PROVE Goal
  BY Zenon, <1>25, <1>p, <1>g DEF EventWake, sched0
<1>q. Goal
  BY Zenon, Steps, <1>1, <1>2, <1>3, <1>4, <1>5, <1>6, <1>7, <1>8, <1>9, <1>10, <1>11, <1>12, <1>13, <1>14, <1>15, <1>16, <1>17, <1>18, <1>19, <1>20, <1>21, <1>22, <1>23, <1>24, <1>25
<1> QED
  BY Zenon, <1>q DEF Goal

(* What a message of a type does to a counter.                             *)
LEMMA TypeEffect ==
  ASSUME NEW x \in Message, NEW up, NEW down, up # down
  PROVE  /\ x.type = up => Effect(x, Of(up), Of(down)) = 1
         /\ x.type = down => Effect(x, Of(up), Of(down)) = -1
         /\ x.type \notin {up, down} => x \notin Of(up) /\ x \notin Of(down)
  BY DEF Of, Effect

(* The room that is left is a counter too.                                 *)
LEMMA Room ==
  ASSUME FiniteFacts, NEW c \in Int, NEW n \in Int, NEW s \in Seq(Message), NEW Up, NEW Down
  PROVE  /\ Total(c, s, Up, Down) \in Int
         /\ Total(n - c, s, Down, Up) = n - Total(c, s, Up, Down)
<1>1. Len(s) \in Nat
  OBVIOUS
<1>2. Count(s, Len(s), Up) \in Nat /\ Count(s, Len(s), Down) \in Nat
  BY <1>1, CountNat
<1> QED
  BY <1>2 DEF Total, After

(* The reports add up, and block_count stays within 0..N, in every step.   *)
LEMMA ReportsStep ==
  ASSUME FiniteFacts, Typed, Reports, [Next]_vars
  PROVE  Reports'
<1> DEFINE B == Of("block")
           U == Of("unblock")
           s == mq[0]
           z == mq'[0]
<1>0. /\ s \in Seq(Message) /\ block_count \in Int /\ N \in Nat /\ N - block_count \in Int
      /\ mq \in [Thread -> Seq(Message)] /\ block_sent \in [Sched -> BOOLEAN] /\ 0 \in Thread /\ ack_token \in Nat
  <2>1. /\ mq \in [Thread -> Seq(Message)] /\ block_sent \in [Sched -> BOOLEAN]
        /\ block_count \in Int /\ 0 \in Thread /\ N \in Nat /\ ack_token \in Nat
    BY Zenon, TypedParts, Threads DEF Queues, Flags0, Counts0
  <2> QED
    BY <2>1
<1>i. /\ Total(block_count, s, B, U) = Cardinality(Blocked)
      /\ NeverNegative(block_count, s, B, U) /\ NeverNegative(N - block_count, s, U, B)
  BY Zenon DEF Reports
<1>r. ASSUME /\ Total(block_count', z, B, U) = Cardinality(Blocked')
             /\ NeverNegative(block_count', z, B, U) /\ NeverNegative(N - block_count', z, U, B)
      PROVE  Reports'
  BY Zenon, <1>r DEF Reports
<1> HIDE DEF B, U, s, z
<1>b. IsFiniteSet(Blocked) /\ Cardinality(Blocked) \in Nat
  <2>1. Blocked \in SUBSET Sched /\ IsFiniteSet(Sched)
    BY Zenon, Threads, ThreadsFinite DEF Blocked
  <2> QED
    BY Zenon, <2>1 DEF FiniteFacts, Parts, SizeIsNat
<1>k. ASSUME NEW x \in Message, x \notin B, x \notin U,
             \/ z = s \/ z = Append(s, x)
             \/ s # <<>> /\ Head(s) \notin B /\ Head(s) \notin U /\ (z = Tail(s) \/ z = Append(Tail(s), x)),
             UNCHANGED <<block_count, block_sent>>
      PROVE  Reports'
  <2>1. Blocked' = Blocked
    BY Zenon, <1>k DEF Blocked
  <2>2. /\ Total(block_count, z, B, U) = Total(block_count, s, B, U)
        /\ NeverNegative(block_count, s, B, U) => NeverNegative(block_count, z, B, U)
    BY Zenon, <1>k, <1>0, Neutral
  <2>3. NeverNegative(N - block_count, s, U, B) => NeverNegative(N - block_count, z, U, B)
    BY Zenon, <1>k, <1>0, Neutral
  <2> QED
    BY Zenon, <1>k, <1>i, <1>r, <2>1, <2>2, <2>3
<1>e. ASSUME NEW x \in Message
      PROVE  /\ x.type = "block" => Effect(x, B, U) = 1 /\ Effect(x, U, B) = -1
             /\ x.type = "unblock" => Effect(x, B, U) = -1 /\ Effect(x, U, B) = 1
             /\ x.type \notin {"block", "unblock"} => x \notin B /\ x \notin U
  <2>1. /\ x.type = "block" => Effect(x, B, U) = 1
        /\ x.type = "unblock" => Effect(x, B, U) = -1
        /\ x.type \notin {"block", "unblock"} => x \notin B /\ x \notin U
    BY SMTT(30), TypeEffect DEF B, U
  <2>2. /\ x.type = "unblock" => Effect(x, U, B) = 1
        /\ x.type = "block" => Effect(x, U, B) = -1
    BY SMTT(30), TypeEffect DEF B, U
  <2> QED
    BY Zenon, <2>1, <2>2
<1>1. CASE MailOf({"cnf", "ack", "terminate"}) /\ UNCHANGED <<block_count, asio_noisy, block_sent>>
  <2>1. PICK x \in Message :
          /\ x.type \in {"cnf", "ack", "terminate"}
          /\ \/ z = s \/ z = Append(s, x)
             \/ s # <<>> /\ Head(s).type \in {"cnf", "ack", "terminate"} /\ (z = Tail(s) \/ z = Append(Tail(s), x))
    BY Zenon, <1>1 DEF MailOf, s, z
  <2>2. x \notin B /\ x \notin U
    BY <2>1, <1>e
  <2>3. s # <<>> /\ Head(s).type \in {"cnf", "ack", "terminate"} => Head(s) \notin B /\ Head(s) \notin U
    <3>1. s # <<>> => Head(s) \in Message
      BY <1>0
    <3> QED
      BY <3>1, <1>e
  <2> QED
    BY Zenon, <1>1, <1>k, <2>1, <2>2, <2>3
<1>2. ASSUME NEW t \in Thread, TellNoisy(t) PROVE Reports'
  <2> DEFINE x == Msg(pc[t], 0)
  <2>1. x \in Message /\ x.type \notin {"block", "unblock"}
    BY <1>2 DEF TellNoisy, Msg, Message
  <2>2. z = Append(s, x) /\ UNCHANGED <<block_count, block_sent>>
    BY Zenon, <1>2, <1>0 DEF TellNoisy, sched0, s, z
  <2> HIDE DEF x
  <2> QED
    BY Zenon, <1>e, <1>k, <2>1, <2>2
<1>3. ASSUME s # <<>>, UNCHANGED <<queues, actors, pc, cur, block_sent>>, HearsNotice PROVE Reports'
  <2>1. Head(s) \in Message
    BY <1>0, <1>3
  <2>2. Head(s).type \notin {"block", "unblock"}
    BY Zenon, <1>3 DEF HearsNotice, s
  <2>3. z = Tail(s) /\ UNCHANGED <<block_count, block_sent>>
    BY Zenon, <1>3, <1>0 DEF HearsNotice, Popped, s, z
  <2> QED
    BY Zenon, <1>3, <1>e, <1>k, <2>1, <2>2, <2>3
<1>4. ASSUME s # <<>>, UNCHANGED <<queues, actors, pc, cur, block_sent>>,
             StartsRound \/ EndsRound("block") \/ EndsRound("unblock")
      PROVE  Reports'
  <2>1. Head(s) \in Message /\ Tail(s) \in Seq(Message)
    BY <1>0, <1>4
  <2>2. /\ block_count' = block_count + Effect(Head(s), B, U)
        /\ N - block_count' = (N - block_count) + Effect(Head(s), U, B)
        /\ block_count' \in Int /\ N - block_count' \in Int
    <3>1. \/ Head(s).type = "block" /\ block_count' = block_count + 1
          \/ Head(s).type = "unblock" /\ block_count' = block_count - 1
      BY <1>4 DEF StartsRound, EndsRound, s
    <3>2. CASE Head(s).type = "block" /\ block_count' = block_count + 1
      <4>1. Effect(Head(s), B, U) = 1 /\ Effect(Head(s), U, B) = -1
        BY Zenon, <1>e, <2>1, <3>2
      <4> QED
        BY <1>0, <3>2, <4>1
    <3>3. CASE Head(s).type = "unblock" /\ block_count' = block_count - 1
      <4>1. Effect(Head(s), B, U) = -1 /\ Effect(Head(s), U, B) = 1
        BY Zenon, <1>e, <2>1, <3>3
      <4> QED
        BY <1>0, <3>3, <4>1
    <3> QED
      BY Zenon, <3>1, <3>2, <3>3
  <2>a. s # <<>> /\ s \in Seq(Message) /\ block_count \in Int /\ N - block_count \in Int
    BY Zenon, <1>0, <1>4
  <2>3. /\ Total(block_count', Tail(s), B, U) = Cardinality(Blocked)
        /\ NeverNegative(block_count', Tail(s), B, U)
    <3>1. Total(block_count + Effect(Head(s), B, U), Tail(s), B, U) = Total(block_count, s, B, U)
      BY SMTT(20), <2>a, ReadEffect
    <3>2. NeverNegative(block_count, s, B, U) => NeverNegative(block_count + Effect(Head(s), B, U), Tail(s), B, U)
      BY Zenon, <2>a, ReadEffect
    <3> QED
      BY Zenon, <1>i, <2>2, <3>1, <3>2
  <2>4. NeverNegative(N - block_count', Tail(s), U, B)
    <3>1. NeverNegative(N - block_count, s, U, B)
            => NeverNegative((N - block_count) + Effect(Head(s), U, B), Tail(s), U, B)
      BY Zenon, <2>a, ReadEffect
    <3> QED
      BY Zenon, <1>i, <2>2, <3>1
  <2>5. Blocked' = Blocked
    BY Zenon, <1>4 DEF Blocked
  <2>6. \E x \in Message : x.type = "cnf" /\ (z = Tail(s) \/ z = Append(Tail(s), x))
    <3>1. CASE StartsRound
      <4>1. z = Append(Tail(s), Msg("cnf", ack_token'))
        BY Zenon, <1>0, <3>1 DEF StartsRound, Popped, s, z
      <4>2. Msg("cnf", ack_token') \in Message /\ Msg("cnf", ack_token').type = "cnf"
        BY <1>0, <3>1 DEF StartsRound, Msg, Message
      <4> QED
        BY Zenon, <4>1, <4>2
    <3>2. CASE EndsRound("block") \/ EndsRound("unblock")
      <4>1. z = Tail(s)
        BY Zenon, <1>0, <3>2 DEF EndsRound, Popped, s, z
      <4>2. Msg("cnf", 0) \in Message /\ Msg("cnf", 0).type = "cnf"
        BY DEF Msg, Message
      <4> QED
        BY Zenon, <4>1, <4>2
    <3> QED
      BY Zenon, <1>4, <3>1, <3>2
  <2>7. PICK x \in Message : x.type = "cnf" /\ (z = Tail(s) \/ z = Append(Tail(s), x))
    BY Zenon, <2>6
  <2>8. x \notin B /\ x \notin U
    BY Zenon, <2>7, <1>e
  <2>b. ASSUME NEW c \in Int, NEW V, NEW W, x \notin V, x \notin W
        PROVE  /\ Total(c, z, V, W) = Total(c, Tail(s), V, W)
               /\ NeverNegative(c, Tail(s), V, W) => NeverNegative(c, z, V, W)
    <3>1. Tail(s) \in Seq(Message) /\ (z = Tail(s) \/ z = Append(Tail(s), x))
      BY SMT, <2>1, <2>7
    <3> QED
      BY Zenon, <2>b, <3>1, Neutral
  <2>9. /\ Total(block_count', z, B, U) = Total(block_count', Tail(s), B, U)
        /\ NeverNegative(block_count', z, B, U)
    BY Zenon, <2>b, <2>2, <2>3, <2>8
  <2>10. NeverNegative(N - block_count', z, U, B)
    BY Zenon, <2>b, <2>2, <2>4, <2>8
  <2>c. Total(block_count', z, B, U) = Cardinality(Blocked')
    BY Zenon, <2>3, <2>5, <2>9
  <2> QED
    BY Zenon, <1>r, <2>c, <2>9, <2>10
<1>p. ASSUME NEW x \in Message, z = Append(s, x), block_count' = block_count,
             Cardinality(Blocked') = Cardinality(Blocked) + Effect(x, B, U),
             Cardinality(Blocked') \in 0..N, Effect(x, U, B) = - Effect(x, B, U), Effect(x, B, U) \in Int
      PROVE  Reports'
  <2>1. /\ Total(block_count, z, B, U) = Total(block_count, s, B, U) + Effect(x, B, U)
        /\ NeverNegative(block_count, s, B, U) /\ Total(block_count, s, B, U) + Effect(x, B, U) >= 0
             => NeverNegative(block_count, z, B, U)
    <3>1. Total(block_count, Append(s, x), B, U) = Total(block_count, s, B, U) + Effect(x, B, U)
      BY SMTT(20), <1>0, PushEffect
    <3>2. NeverNegative(block_count, s, B, U) /\ Total(block_count, s, B, U) + Effect(x, B, U) >= 0
            => NeverNegative(block_count, Append(s, x), B, U)
      BY Zenon, <1>0, PushEffect
    <3> QED
      BY Zenon, <1>p, <3>1, <3>2
  <2>2. NeverNegative(N - block_count, s, U, B) /\ Total(N - block_count, s, U, B) + Effect(x, U, B) >= 0
             => NeverNegative(N - block_count, z, U, B)
    <3>1. NeverNegative(N - block_count, s, U, B) /\ Total(N - block_count, s, U, B) + Effect(x, U, B) >= 0
               => NeverNegative(N - block_count, Append(s, x), U, B)
      BY Zenon, <1>0, PushEffect
    <3> QED
      BY Zenon, <1>p, <3>1
  <2>3. Total(N - block_count, s, U, B) = N - Total(block_count, s, B, U)
    BY <1>0, Room
  <2>4. Total(block_count, s, B, U) + Effect(x, B, U) >= 0
    BY <1>p, <1>i, <1>0
  <2>5. Total(N - block_count, s, U, B) + Effect(x, U, B) >= 0
    BY <2>3, <1>p, <1>i, <1>0, <1>b
  <2>6. Total(block_count, z, B, U) = Cardinality(Blocked')
    BY Zenon, <2>1, <1>p, <1>i
  <2> QED
    BY Zenon, <1>r, <1>p, <1>i, <2>1, <2>2, <2>4, <2>5, <2>6
<1>c. Blocked' \subseteq Sched => Cardinality(Blocked') \in 0..N
  <2>1. ASSUME Blocked' \in SUBSET Sched PROVE IsFiniteSet(Blocked') /\ Cardinality(Blocked') <= Cardinality(Sched)
    BY Zenon, <2>1, ThreadsFinite DEF FiniteFacts, Parts
  <2>2. ASSUME Blocked' \in SUBSET Sched PROVE Cardinality(Blocked') \in Nat
    BY Zenon, <2>1, <2>2 DEF FiniteFacts, SizeIsNat
  <2> QED
    BY <2>1, <2>2, Threads, ThreadsFinite
<1>d. Blocked' \subseteq Sched
  BY SMT DEF Blocked
<1>5. ASSUME NEW t \in Sched, Block(t) PROVE Reports'
  <2> DEFINE x == Msg("block", 0)
  <2>1. x \in Message /\ x.type = "block"
    BY DEF Msg, Message
  <2>2. /\ z = Append(s, x) /\ block_count' = block_count
        /\ block_sent' = [block_sent EXCEPT ![t] = TRUE] /\ ~block_sent[t]
    BY Zenon, <1>5, <1>0 DEF Block, sched0, s, z
  <2>3. Blocked' = Blocked \cup {t} /\ t \notin Blocked
    BY Zenon, <1>0, <2>2 DEF Blocked
  <2>4. Cardinality(Blocked') = Cardinality(Blocked) + 1
    BY Zenon, <1>b, <2>3 DEF FiniteFacts, AddElement
  <2> HIDE DEF x
  <2> QED
    BY <1>b, <1>c, <1>d, <1>e, <1>p, <2>1, <2>2, <2>4
<1>6. ASSUME NEW t \in Sched, Found(t), block_sent[t] PROVE Reports'
  <2> DEFINE x == Msg("unblock", 0)
  <2>1. x \in Message /\ x.type = "unblock"
    BY DEF Msg, Message
  <2>2. /\ z = Append(s, x) /\ block_count' = block_count
        /\ block_sent' = [block_sent EXCEPT ![t] = FALSE]
    BY Zenon, <1>6, <1>0 DEF Found, sched0, s, z
  <2>3. Blocked' = Blocked \ {t} /\ t \in Blocked
    BY Zenon, <1>0, <1>6, <2>2 DEF Blocked
  <2>4. Cardinality(Blocked') = Cardinality(Blocked) - 1
    BY Zenon, <1>b, <2>3 DEF FiniteFacts, RemoveElement
  <2> HIDE DEF x
  <2> QED
    BY <1>b, <1>c, <1>d, <1>e, <1>p, <2>1, <2>2, <2>4
<1> QED
  BY Zenon, MailSteps, <1>1, <1>2, <1>3, <1>4, <1>5, <1>6 DEF s

(* A thread about to give notice is left alone by the others; only a       *)
(* subscription, or the end of one, makes a thread give notice.            *)
NoticesKept ==
  /\ noisy' = noisy
  /\ \A u \in Thread :
       /\ pc'[u] = "noisy" <=> pc[u] = "noisy"
       /\ pc'[u] = "unnoisy" <=> pc[u] = "unnoisy"
       /\ pc[u] = "noisy" => cur'[u] = cur[u]

LEMMA NoticeSteps ==
  ASSUME Typed, [Next]_vars
  PROVE  (\E t \in Thread : Subscribe(t) \/ EventDestroy(t) \/ TellNoisy(t)) \/ NoticesKept
<1> DEFINE Goal == (\E t \in Thread : Subscribe(t) \/ EventDestroy(t) \/ TellNoisy(t)) \/ NoticesKept
<1>0. /\ pc \in [Thread -> {"start", "top", "route", "actor", "noisy", "unnoisy", "inject", "victim", "found",
                           "sread", "idle", "drowsy", "dread", "asleep", "done"}]
      /\ cur \in [Thread -> Actor \cup {None}]
      /\ P \in Thread /\ 0 \in Thread /\ (\A t \in Sched : t \in Thread)
  BY Zenon, TypedParts, Threads DEF Places0, Flags0
<1>g. NoticesKept => Goal
  BY Zenon
<1>u. UNCHANGED <<noisy, pc, cur>> => NoticesKept
  BY Zenon DEF NoticesKept
<1>m. ASSUME noisy' = noisy, NEW t \in Thread, NEW l, l \notin {"noisy", "unnoisy"}, pc[t] \notin {"noisy", "unnoisy"},
             \A u \in Thread : u # t => cur'[u] = cur[u],
             \/ pc' = [pc EXCEPT ![t] = l]
             \/ pc' = [pc EXCEPT ![t] = l, ![P] = IF @ = "asleep" THEN "top" ELSE @]
      PROVE  NoticesKept
  <2> SUFFICES ASSUME NEW u \in Thread
               PROVE  /\ pc'[u] = "noisy" <=> pc[u] = "noisy"
                      /\ pc'[u] = "unnoisy" <=> pc[u] = "unnoisy"
                      /\ pc[u] = "noisy" => cur'[u] = cur[u]
    BY Zenon, <1>m DEF NoticesKept
  <2> QED
    BY SMTT(30), <1>0, <1>m
<1> HIDE DEF Goal
<1>1. ASSUME UNCHANGED vars PROVE Goal
  BY Zenon, <1>1, <1>u, <1>g DEF vars, actors
<1>2. ASSUME NEW t \in Thread, Send(t) PROVE Goal
  BY Zenon, <1>2, <1>u, <1>g DEF Send, actors, queues
<1>3. ASSUME NEW t \in Thread, Pin(t) PROVE Goal
  BY Zenon, <1>3, <1>u, <1>g DEF Pin, actors, queues
<1>4. ASSUME NEW t \in Thread, Subscribe(t) PROVE Goal
  BY Zenon, <1>4 DEF Goal
<1>5. ASSUME NEW t \in Thread, EventDestroy(t) PROVE Goal
  BY Zenon, <1>5 DEF Goal
<1>6. ASSUME NEW t \in Thread, TellNoisy(t) PROVE Goal
  BY Zenon, <1>6 DEF Goal
<1>7. ASSUME NEW t \in Thread, EndRun(t) PROVE Goal
  <2>1. noisy' = noisy /\ pc[t] \notin {"noisy", "unnoisy"}
    BY Zenon, <1>0, <1>7 DEF EndRun, actors
  <2>2. \A u \in Thread : u # t => cur'[u] = cur[u]
    BY Zenon, <1>0, <1>7 DEF EndRun
  <2>3. \E l : /\ l \notin {"noisy", "unnoisy"}
               /\ \/ pc' = [pc EXCEPT ![t] = l]
                  \/ pc' = [pc EXCEPT ![t] = l, ![P] = IF @ = "asleep" THEN "top" ELSE @]
    BY <1>7 DEF EndRun, Goto, GotoAndWakePinned
  <2> QED
    BY Zenon, <1>0, <1>m, <1>g, <2>1, <2>2, <2>3
<1>8. ASSUME NEW t \in Thread, ReadMsg(t) PROVE Goal
  BY Zenon, <1>8, <1>u, <1>g DEF ReadMsg, actors, queues
<1>9. ASSUME NEW t \in Sched, Begin(t) PROVE Goal
  <2>1. noisy' = noisy /\ pc[t] \notin {"noisy", "unnoisy"}
    BY Zenon, <1>0, <1>9 DEF Begin, actors
  <2>2. \A u \in Thread : u # t => cur'[u] = cur[u]
    BY <1>0, <1>9 DEF Begin
  <2>3. \E l : /\ l \notin {"noisy", "unnoisy"}
               /\ \/ pc' = [pc EXCEPT ![t] = l]
                  \/ pc' = [pc EXCEPT ![t] = l, ![P] = IF @ = "asleep" THEN "top" ELSE @]
    BY <1>9 DEF Begin, Goto, GotoAndWakePinned
  <2> QED
    BY Zenon, <1>0, <1>m, <1>g, <2>1, <2>2, <2>3
<1>10. ASSUME NEW t \in Sched, Route(t) PROVE Goal
  <2>1. noisy' = noisy /\ pc[t] \notin {"noisy", "unnoisy"}
    BY Zenon, <1>0, <1>10 DEF Route, actors
  <2>2. \A u \in Thread : u # t => cur'[u] = cur[u]
    BY Zenon, <1>0, <1>10 DEF Route
  <2>3. \E l : /\ l \notin {"noisy", "unnoisy"}
               /\ \/ pc' = [pc EXCEPT ![t] = l]
                  \/ pc' = [pc EXCEPT ![t] = l, ![P] = IF @ = "asleep" THEN "top" ELSE @]
    BY <1>10 DEF Route, Goto, GotoAndWakePinned
  <2> QED
    BY Zenon, <1>0, <1>m, <1>g, <2>1, <2>2, <2>3
<1>11. ASSUME NEW t \in Sched, StealInject(t) PROVE Goal
  <2>1. noisy' = noisy /\ pc[t] \notin {"noisy", "unnoisy"}
    BY <1>0, <1>11 DEF StealInject, actors
  <2>2. \A u \in Thread : u # t => cur'[u] = cur[u]
    BY <1>0, <1>11 DEF StealInject
  <2>3. \E l : /\ l \notin {"noisy", "unnoisy"}
               /\ \/ pc' = [pc EXCEPT ![t] = l]
                  \/ pc' = [pc EXCEPT ![t] = l, ![P] = IF @ = "asleep" THEN "top" ELSE @]
    BY <1>11 DEF StealInject, Goto, GotoAndWakePinned
  <2> QED
    BY Zenon, <1>0, <1>m, <1>g, <2>1, <2>2, <2>3
<1>12. ASSUME NEW t \in Sched, StealVictim(t) PROVE Goal
  <2>1. noisy' = noisy /\ pc[t] \notin {"noisy", "unnoisy"}
    BY Zenon, <1>0, <1>12 DEF StealVictim, actors
  <2>2. \A u \in Thread : u # t => cur'[u] = cur[u]
    BY <1>0, <1>12 DEF StealVictim
  <2>3. \E l : /\ l \notin {"noisy", "unnoisy"}
               /\ \/ pc' = [pc EXCEPT ![t] = l]
                  \/ pc' = [pc EXCEPT ![t] = l, ![P] = IF @ = "asleep" THEN "top" ELSE @]
    BY <1>12 DEF StealVictim, Goto, GotoAndWakePinned
  <2> QED
    BY Zenon, <1>0, <1>m, <1>g, <2>1, <2>2, <2>3
<1>13. ASSUME NEW t \in Sched, Found(t) PROVE Goal
  <2>1. noisy' = noisy /\ pc[t] \notin {"noisy", "unnoisy"}
    BY <1>0, <1>13 DEF Found, actors
  <2>2. \A u \in Thread : u # t => cur'[u] = cur[u]
    BY <1>0, <1>13 DEF Found
  <2>3. \E l : /\ l \notin {"noisy", "unnoisy"}
               /\ \/ pc' = [pc EXCEPT ![t] = l]
                  \/ pc' = [pc EXCEPT ![t] = l, ![P] = IF @ = "asleep" THEN "top" ELSE @]
    BY <1>13 DEF Found, Goto, GotoAndWakePinned
  <2> QED
    BY Zenon, <1>0, <1>m, <1>g, <2>1, <2>2, <2>3
<1>14. ASSUME NEW t \in Sched, Quiet(t) PROVE Goal
  <2>1. noisy' = noisy /\ pc[t] \notin {"noisy", "unnoisy"}
    BY Zenon, <1>0, <1>14 DEF Quiet, actors
  <2>2. \A u \in Thread : u # t => cur'[u] = cur[u]
    BY <1>0, <1>14 DEF Quiet
  <2>3. \E l : /\ l \notin {"noisy", "unnoisy"}
               /\ \/ pc' = [pc EXCEPT ![t] = l]
                  \/ pc' = [pc EXCEPT ![t] = l, ![P] = IF @ = "asleep" THEN "top" ELSE @]
    BY <1>14 DEF Quiet, Goto, GotoAndWakePinned
  <2> QED
    BY Zenon, <1>0, <1>m, <1>g, <2>1, <2>2, <2>3
<1>15. ASSUME NEW t \in Sched, Again(t) PROVE Goal
  <2>1. noisy' = noisy /\ pc[t] \notin {"noisy", "unnoisy"}
    BY <1>0, <1>15 DEF Again, actors
  <2>2. \A u \in Thread : u # t => cur'[u] = cur[u]
    BY <1>0, <1>15 DEF Again
  <2>3. \E l : /\ l \notin {"noisy", "unnoisy"}
               /\ \/ pc' = [pc EXCEPT ![t] = l]
                  \/ pc' = [pc EXCEPT ![t] = l, ![P] = IF @ = "asleep" THEN "top" ELSE @]
    BY <1>15 DEF Again, Goto, GotoAndWakePinned
  <2> QED
    BY Zenon, <1>0, <1>m, <1>g, <2>1, <2>2, <2>3
<1>16. ASSUME NEW t \in Sched, Resume(t) PROVE Goal
  <2>1. noisy' = noisy /\ pc[t] \notin {"noisy", "unnoisy"}
    BY <1>0, <1>16 DEF Resume, actors
  <2>2. \A u \in Thread : u # t => cur'[u] = cur[u]
    BY <1>0, <1>16 DEF Resume
  <2>3. \E l : /\ l \notin {"noisy", "unnoisy"}
               /\ \/ pc' = [pc EXCEPT ![t] = l]
                  \/ pc' = [pc EXCEPT ![t] = l, ![P] = IF @ = "asleep" THEN "top" ELSE @]
    BY <1>16 DEF Resume, Goto, GotoAndWakePinned
  <2> QED
    BY Zenon, <1>0, <1>m, <1>g, <2>1, <2>2, <2>3
<1>17. ASSUME NEW t \in Sched, Block(t) PROVE Goal
  BY Zenon, <1>17, <1>u, <1>g DEF Block, actors, queues
<1>18. ASSUME NEW t \in Sched, Suspend(t) PROVE Goal
  <2>1. noisy' = noisy /\ pc[t] \notin {"noisy", "unnoisy"}
    BY <1>0, <1>18 DEF Suspend, actors
  <2>2. \A u \in Thread : u # t => cur'[u] = cur[u]
    BY <1>0, <1>18 DEF Suspend
  <2>3. \E l : /\ l \notin {"noisy", "unnoisy"}
               /\ \/ pc' = [pc EXCEPT ![t] = l]
                  \/ pc' = [pc EXCEPT ![t] = l, ![P] = IF @ = "asleep" THEN "top" ELSE @]
    BY <1>18 DEF Suspend, Goto, GotoAndWakePinned
  <2> QED
    BY Zenon, <1>0, <1>m, <1>g, <2>1, <2>2, <2>3
<1>19. ASSUME Drowsy PROVE Goal
  <2>1. noisy' = noisy /\ pc[0] \notin {"noisy", "unnoisy"}
    BY <1>0, <1>19 DEF Drowsy, actors
  <2>2. \A u \in Thread : u # 0 => cur'[u] = cur[u]
    BY <1>0, <1>19 DEF Drowsy
  <2>3. \E l : /\ l \notin {"noisy", "unnoisy"}
               /\ \/ pc' = [pc EXCEPT ![0] = l]
                  \/ pc' = [pc EXCEPT ![0] = l, ![P] = IF @ = "asleep" THEN "top" ELSE @]
    BY <1>19 DEF Drowsy, Goto, GotoAndWakePinned
  <2> QED
    BY Zenon, <1>0, <1>m, <1>g, <2>1, <2>2, <2>3
<1>20. ASSUME FallAsleep PROVE Goal
  <2>1. noisy' = noisy /\ pc[0] \notin {"noisy", "unnoisy"}
    BY Zenon, <1>0, <1>20 DEF FallAsleep, actors
  <2>2. \A u \in Thread : u # 0 => cur'[u] = cur[u]
    BY <1>0, <1>20 DEF FallAsleep
  <2>3. \E l : /\ l \notin {"noisy", "unnoisy"}
               /\ \/ pc' = [pc EXCEPT ![0] = l]
                  \/ pc' = [pc EXCEPT ![0] = l, ![P] = IF @ = "asleep" THEN "top" ELSE @]
    BY <1>20 DEF FallAsleep, Goto, GotoAndWakePinned
  <2> QED
    BY Zenon, <1>0, <1>m, <1>g, <2>1, <2>2, <2>3
<1>21. ASSUME PinnedRoute PROVE Goal
  <2>1. noisy' = noisy /\ pc[P] \notin {"noisy", "unnoisy"}
    BY <1>0, <1>21 DEF PinnedRoute, actors
  <2>2. \A u \in Thread : u # P => cur'[u] = cur[u]
    BY <1>0, <1>21 DEF PinnedRoute
  <2>3. \E l : /\ l \notin {"noisy", "unnoisy"}
               /\ \/ pc' = [pc EXCEPT ![P] = l]
                  \/ pc' = [pc EXCEPT ![P] = l, ![P] = IF @ = "asleep" THEN "top" ELSE @]
    BY <1>21 DEF PinnedRoute, Goto, GotoAndWakePinned
  <2> QED
    BY Zenon, <1>0, <1>m, <1>g, <2>1, <2>2, <2>3
<1>22. ASSUME PinnedIdle PROVE Goal
  <2>1. noisy' = noisy /\ pc[P] \notin {"noisy", "unnoisy"}
    BY <1>0, <1>22 DEF PinnedIdle, actors
  <2>2. \A u \in Thread : u # P => cur'[u] = cur[u]
    BY <1>0, <1>22 DEF PinnedIdle
  <2>3. \E l : /\ l \notin {"noisy", "unnoisy"}
               /\ \/ pc' = [pc EXCEPT ![P] = l]
                  \/ pc' = [pc EXCEPT ![P] = l, ![P] = IF @ = "asleep" THEN "top" ELSE @]
    BY <1>22 DEF PinnedIdle, Goto, GotoAndWakePinned
  <2> QED
    BY Zenon, <1>0, <1>m, <1>g, <2>1, <2>2, <2>3
<1>23. ASSUME Shutdown PROVE Goal
  BY Zenon, <1>23, <1>u, <1>g DEF Shutdown, actors, queues
<1>24. ASSUME Event PROVE Goal
  BY Zenon, <1>24, <1>u, <1>g DEF Event, actors, queues
<1>25. ASSUME EventWake PROVE Goal
  BY Zenon, <1>25, <1>u, <1>g DEF EventWake, actors, queues
<1>q. Goal
  BY Zenon, Steps, <1>1, <1>2, <1>3, <1>4, <1>5, <1>6, <1>7, <1>8, <1>9, <1>10, <1>11, <1>12, <1>13, <1>14, <1>15, <1>16, <1>17, <1>18, <1>19, <1>20, <1>21, <1>22, <1>23, <1>24, <1>25
<1> QED
  BY Zenon, <1>q DEF Goal

(* A notice that is read takes effect; nothing else does.                  *)
LEMMA NoticesRead ==
  ASSUME FiniteFacts, Typed, [Next]_vars, \A t \in Thread : ~TellNoisy(t)
  PROVE  /\ Total(asio_noisy', mq'[0], Of("noisy"), Of("unnoisy")) = Total(asio_noisy, mq[0], Of("noisy"), Of("unnoisy"))
         /\ NeverNegative(asio_noisy, mq[0], Of("noisy"), Of("unnoisy"))
              => NeverNegative(asio_noisy', mq'[0], Of("noisy"), Of("unnoisy"))
<1> DEFINE B == Of("noisy")
           U == Of("unnoisy")
           s == mq[0]
           z == mq'[0]
           Goal == /\ Total(asio_noisy', z, B, U) = Total(asio_noisy, s, B, U)
                   /\ NeverNegative(asio_noisy, s, B, U) => NeverNegative(asio_noisy', z, B, U)
<1>0. /\ mq \in [Thread -> Seq(Message)] /\ s \in Seq(Message)
      /\ asio_noisy \in Int /\ 0 \in Thread /\ ack_token \in Nat
  BY Zenon, TypedParts, Threads DEF Queues, Counts0
<1> SUFFICES Goal
  BY Zenon
<1> HIDE DEF B, U, s, z, Goal
<1>e. ASSUME NEW x \in Message
      PROVE  /\ x.type = "noisy" => Effect(x, B, U) = 1
             /\ x.type = "unnoisy" => Effect(x, B, U) = -1
             /\ x.type \notin {"noisy", "unnoisy"} => x \notin B /\ x \notin U
  BY SMTT(30), TypeEffect DEF B, U
<1>k. ASSUME NEW x \in Message, x.type \notin {"noisy", "unnoisy"},
             \/ z = s \/ z = Append(s, x)
             \/ s # <<>> /\ Head(s).type \notin {"noisy", "unnoisy"} /\ (z = Tail(s) \/ z = Append(Tail(s), x)),
             asio_noisy' = asio_noisy
      PROVE  Goal
  <2>1. x \notin B /\ x \notin U
    BY Zenon, <1>k, <1>e
  <2>2. s # <<>> => Head(s) \in Message
    BY <1>0
  <2>3. \/ z = s \/ z = Append(s, x)
        \/ s # <<>> /\ Head(s) \notin B /\ Head(s) \notin U /\ (z = Tail(s) \/ z = Append(Tail(s), x))
    BY Zenon, <1>k, <1>e, <2>2
  <2>4. /\ Total(asio_noisy, z, B, U) = Total(asio_noisy, s, B, U)
        /\ NeverNegative(asio_noisy, s, B, U) => NeverNegative(asio_noisy, z, B, U)
    BY Zenon, <1>0, <2>1, <2>3, Neutral
  <2> QED
    BY Zenon, <1>k, <2>4 DEF Goal
<1>1. CASE MailOf({"cnf", "ack", "terminate"}) /\ UNCHANGED <<block_count, asio_noisy, block_sent>>
  <2>1. PICK x \in Message :
          /\ x.type \in {"cnf", "ack", "terminate"}
          /\ \/ z = s \/ z = Append(s, x)
             \/ s # <<>> /\ Head(s).type \in {"cnf", "ack", "terminate"} /\ (z = Tail(s) \/ z = Append(Tail(s), x))
    BY SMT, <1>1 DEF MailOf, s, z
  <2>2. \A y \in {"cnf", "ack", "terminate"} : y \notin {"noisy", "unnoisy"}
    OBVIOUS
  <2> QED
    BY SMT, <1>1, <1>k, <2>1, <2>2
<1>2. ASSUME NEW t \in Sched, Block(t) \/ (Found(t) /\ block_sent[t]) PROVE Goal
  <2>1. /\ \A y \in {"block", "unblock"} : Msg(y, 0) \in Message /\ Msg(y, 0).type \notin {"noisy", "unnoisy"}
    BY DEF Msg, Message
  <2>2. asio_noisy' = asio_noisy /\ \E y \in {"block", "unblock"} : z = Append(s, Msg(y, 0))
    BY Zenon, <1>0, <1>2 DEF Block, Found, sched0, s, z
  <2> QED
    BY Zenon, <1>k, <2>1, <2>2
<1>3. ASSUME s # <<>>, StartsRound \/ EndsRound("block") \/ EndsRound("unblock") PROVE Goal
  <2>1. Head(s).type \notin {"noisy", "unnoisy"} /\ asio_noisy' = asio_noisy
    BY <1>3 DEF StartsRound, EndsRound, s
  <2>2. CASE StartsRound
    <3>1. z = Append(Tail(s), Msg("cnf", ack_token'))
      BY Zenon, <1>0, <2>2 DEF StartsRound, Popped, s, z
    <3>2. Msg("cnf", ack_token') \in Message /\ Msg("cnf", ack_token').type \notin {"noisy", "unnoisy"}
      BY <1>0, <2>2 DEF StartsRound, Msg, Message
    <3> QED
      BY Zenon, <1>3, <1>k, <2>1, <3>1, <3>2
  <2>3. CASE EndsRound("block") \/ EndsRound("unblock")
    <3>1. z = Tail(s)
      BY Zenon, <1>0, <2>3 DEF EndsRound, Popped, s, z
    <3>2. Msg("cnf", 0) \in Message /\ Msg("cnf", 0).type \notin {"noisy", "unnoisy"}
      BY DEF Msg, Message
    <3> QED
      BY Zenon, <1>3, <1>k, <2>1, <3>1, <3>2
  <2> QED
    BY Zenon, <1>3, <2>2, <2>3
<1>4. ASSUME s # <<>>, HearsNotice PROVE Goal
  <2>1. Head(s) \in Message /\ s # <<>> /\ s \in Seq(Message) /\ asio_noisy \in Int
    BY <1>0, <1>4
  <2>2. z = Tail(s)
    BY Zenon, <1>0, <1>4 DEF HearsNotice, Popped, s, z
  <2>3. asio_noisy' = asio_noisy + Effect(Head(s), B, U)
    BY <1>0, <1>4, <1>e, <2>1 DEF HearsNotice, s
  <2>4. Total(asio_noisy + Effect(Head(s), B, U), Tail(s), B, U) = Total(asio_noisy, s, B, U)
    BY SMTT(20), <2>1, ReadEffect
  <2>5. NeverNegative(asio_noisy, s, B, U) => NeverNegative(asio_noisy + Effect(Head(s), B, U), Tail(s), B, U)
    BY Zenon, <2>1, ReadEffect
  <2> QED
    BY SMT, <2>2, <2>3, <2>4, <2>5 DEF Goal
<1> QED
  BY SMT, MailSteps, <1>1, <1>2, <1>3, <1>4 DEF s

(* The notices add up, and asio_noisy stays above zero, in every step.     *)
LEMMA NoticesStep ==
  ASSUME FiniteFacts, Typed, Control, Unique, Notices, [Next]_vars
  PROVE  Notices'
<1> DEFINE B == Of("noisy")
           U == Of("unnoisy")
           Sum == (IF noisy = {} THEN 0 ELSE 1) - Cardinality(Opening) + Cardinality(Closing)
<1>0. /\ mq \in [Thread -> Seq(Message)] /\ mq[0] \in Seq(Message)
      /\ asio_noisy \in Int /\ 0 \in Thread
      /\ pc \in [Thread -> {"start", "top", "route", "actor", "noisy", "unnoisy", "inject", "victim", "found",
                           "sread", "idle", "drowsy", "dread", "asleep", "done"}]
  BY Zenon, TypedParts, Threads DEF Queues, Counts0, Flags0
<1>i. /\ \A t \in Thread : pc[t] = "noisy" => cur[t] \in noisy
      /\ \A t, u \in Thread : pc[t] = "noisy" /\ pc[u] = "noisy" => t = u
      /\ Total(asio_noisy, mq[0], B, U) = Sum
      /\ NeverNegative(asio_noisy, mq[0], B, U)
  BY Zenon DEF Notices
<1>r. ASSUME /\ \A t \in Thread : pc'[t] = "noisy" => cur'[t] \in noisy'
             /\ \A t, u \in Thread : pc'[t] = "noisy" /\ pc'[u] = "noisy" => t = u
             /\ Total(asio_noisy', mq'[0], B, U) = Sum'
             /\ NeverNegative(asio_noisy', mq'[0], B, U)
      PROVE  Notices'
  BY Zenon, <1>r DEF Notices
<1>f. /\ IsFiniteSet(Opening) /\ IsFiniteSet(Closing)
      /\ Cardinality(Opening) \in Nat /\ Cardinality(Closing) \in Nat
  <2>1. Opening \in SUBSET Thread /\ Closing \in SUBSET Thread /\ IsFiniteSet(Thread)
    BY Zenon, Threads, ThreadsFinite DEF Opening, Closing
  <2> QED
    BY Zenon, <2>1 DEF FiniteFacts, Parts, SizeIsNat
<1>m. ASSUME \A t \in Thread : ~TellNoisy(t), Sum' = Sum
      PROVE  Total(asio_noisy', mq'[0], B, U) = Sum' /\ NeverNegative(asio_noisy', mq'[0], B, U)
  <2> HIDE DEF Sum
  <2>1. /\ Total(asio_noisy', mq'[0], B, U) = Total(asio_noisy, mq[0], B, U)
        /\ NeverNegative(asio_noisy, mq[0], B, U) => NeverNegative(asio_noisy', mq'[0], B, U)
    BY Zenon, <1>m, NoticesRead
  <2> QED
    BY Zenon, <1>i, <1>m, <2>1
<1>o. Cardinality(Opening) <= IF noisy = {} THEN 0 ELSE 1
  <2>1. CASE Opening = {}
    BY <2>1 DEF FiniteFacts, NoElement
  <2>2. CASE Opening # {}
    <3>1. PICK t \in Opening : TRUE
      BY Zenon, <2>2
    <3>2. Opening = {t} /\ noisy # {}
      BY Zenon, <1>i, <3>1 DEF Opening
    <3>3. Cardinality({t}) = 1
      BY Zenon DEF FiniteFacts, OneElement
    <3> QED
      BY <3>2, <3>3
  <2> QED
    BY <2>1, <2>2
<1> HIDE DEF B, U
<1>1. ASSUME NoticesKept, \A t \in Thread : ~TellNoisy(t) PROVE Notices'
  <2>1. Opening' = Opening /\ Closing' = Closing /\ noisy' = noisy
    BY Zenon, <1>1 DEF NoticesKept, Opening, Closing
  <2>2. Sum' = Sum
    BY Zenon, <2>1
  <2>3. Total(asio_noisy', mq'[0], B, U) = Sum' /\ NeverNegative(asio_noisy', mq'[0], B, U)
    BY Zenon, <1>1, <1>m, <2>2
  <2>4. \A t \in Thread : pc'[t] = "noisy" => cur'[t] \in noisy'
    BY Zenon, <1>1, <1>i DEF NoticesKept
  <2>5. \A t, u \in Thread : pc'[t] = "noisy" /\ pc'[u] = "noisy" => t = u
    BY Zenon, <1>1, <1>i DEF NoticesKept
  <2> HIDE DEF Sum
  <2> QED
    BY SMT, <1>r, <2>3, <2>4, <2>5
<1>2. ASSUME NEW t \in Thread, Subscribe(t), \A u \in Thread : ~TellNoisy(u) PROVE Notices'
  <2>1. /\ pc[t] = "actor" /\ noisy' = noisy \cup {cur[t]} /\ noisy' # {} /\ cur' = cur
        /\ pc' = [pc EXCEPT ![t] = IF noisy = {} THEN "noisy" ELSE "actor"]
    BY Zenon, <1>2 DEF Subscribe, Goto
  <2>2. \A u \in Thread : u # t => pc'[u] = pc[u]
    BY Zenon, <1>0, <2>1
  <2>3. CASE noisy = {}
    <3>a. pc'[t] = "noisy"
      BY Zenon, <1>0, <2>1, <2>3
    <3>b. \A u \in Thread : pc[u] # "noisy"
      BY Zenon, <1>i, <2>3
    <3>1. pc'[t] = "noisy" /\ \A u \in Thread : pc[u] # "noisy"
      BY Zenon, <3>a, <3>b
    <3>2. Opening = {} /\ Opening' = {t} /\ Closing' = Closing
      BY <1>0, <2>1, <2>2, <3>1 DEF Opening, Closing
    <3>3. Cardinality(Opening) = 0 /\ Cardinality(Opening') = 1 /\ Cardinality(Closing') = Cardinality(Closing)
      BY Zenon, <3>2 DEF FiniteFacts, NoElement, OneElement
    <3>c. noisy' # {}
      BY Zenon, <2>1
    <3>4. Sum' = Sum
      BY <2>3, <3>3, <3>c, <1>f
    <3>5. Total(asio_noisy', mq'[0], B, U) = Sum' /\ NeverNegative(asio_noisy', mq'[0], B, U)
      BY Zenon, <1>2, <1>m, <3>4
    <3>6. \A u \in Thread : pc'[u] = "noisy" => u = t
      BY Zenon, <2>2, <3>1
    <3>7. \A u \in Thread : pc'[u] = "noisy" => cur'[u] \in noisy'
      BY Zenon, <2>1, <3>6
    <3> HIDE DEF Sum
    <3> QED
      BY Zenon, <1>r, <3>5, <3>6, <3>7
  <2>4. CASE noisy # {}
    <3>1. pc' = pc
      BY SMT, <1>0, <2>1, <2>4
    <3>2. Opening' = Opening /\ Closing' = Closing
      BY Zenon, <3>1 DEF Opening, Closing
    <3>3. Sum' = Sum
      BY Zenon, <2>1, <2>4, <3>2
    <3>4. Total(asio_noisy', mq'[0], B, U) = Sum' /\ NeverNegative(asio_noisy', mq'[0], B, U)
      BY Zenon, <1>2, <1>m, <3>3
    <3>5. \A u \in Thread : pc'[u] = "noisy" => cur'[u] \in noisy'
      BY Zenon, <1>i, <2>1, <3>1
    <3>6. \A u, v \in Thread : pc'[u] = "noisy" /\ pc'[v] = "noisy" => u = v
      BY Zenon, <1>i, <3>1
    <3> HIDE DEF Sum
    <3> QED
      BY Zenon, <1>r, <3>4, <3>5, <3>6
  <2> QED
    BY Zenon, <2>3, <2>4
<1>3. ASSUME NEW t \in Thread, EventDestroy(t), \A u \in Thread : ~TellNoisy(u) PROVE Notices'
  <2>1. /\ pc[t] = "actor" /\ noisy' = noisy \ {cur[t]} /\ cur[t] \in noisy /\ cur' = cur
        /\ pc' = [pc EXCEPT ![t] = IF noisy' = {} THEN "unnoisy" ELSE "actor"]
    BY Zenon, <1>3 DEF EventDestroy, Goto
  <2>2. \A u \in Thread : u # t => pc'[u] = pc[u]
    BY Zenon, <1>0, <2>1
  <2>3. cur[t] # None
    BY Zenon, <2>1 DEF Control
  <2>4. \A u \in Thread : u # t => cur[u] # cur[t]
    BY Zenon, <2>3 DEF Unique, Distinct, OneEach
  <2>5. \A u \in Thread : pc[u] = "noisy" => u # t /\ cur[u] \in noisy'
    BY <1>i, <2>1, <2>4
  <2>6. CASE noisy' = {}
    <3>1. pc'[t] = "unnoisy" /\ \A u \in Thread : pc[u] # "noisy"
      BY <1>0, <2>1, <2>5, <2>6
    <3>2. \A u \in Thread : pc'[u] # "noisy"
      BY <2>2, <3>1
    <3>3. Opening = {} /\ Opening' = {}
      BY Zenon, <3>1, <3>2 DEF Opening
    <3>4. Closing' = Closing \cup {t} /\ t \notin Closing
      BY <2>1, <2>2, <3>1 DEF Closing
    <3>5. Cardinality(Closing') = Cardinality(Closing) + 1
      BY Zenon, <1>f, <3>4 DEF FiniteFacts, AddElement
    <3>6. noisy # {}
      BY SMT, <2>1
    <3>7. Sum' = Sum
      BY <2>6, <3>3, <3>5, <3>6, <1>f
    <3>8. Total(asio_noisy', mq'[0], B, U) = Sum' /\ NeverNegative(asio_noisy', mq'[0], B, U)
      BY Zenon, <1>3, <1>m, <3>7
    <3> HIDE DEF Sum
    <3> QED
      BY Zenon, <1>r, <3>2, <3>8
  <2>7. CASE noisy' # {}
    <3>1. pc' = pc
      BY SMT, <1>0, <2>1, <2>7
    <3>2. Opening' = Opening /\ Closing' = Closing
      BY Zenon, <3>1 DEF Opening, Closing
    <3>3. Sum' = Sum
      BY Zenon, <2>1, <2>7, <3>2
    <3>4. Total(asio_noisy', mq'[0], B, U) = Sum' /\ NeverNegative(asio_noisy', mq'[0], B, U)
      BY Zenon, <1>3, <1>m, <3>3
    <3>5. \A u \in Thread : pc'[u] = "noisy" => cur'[u] \in noisy'
      BY Zenon, <2>1, <2>5, <3>1
    <3>6. \A u, v \in Thread : pc'[u] = "noisy" /\ pc'[v] = "noisy" => u = v
      BY Zenon, <1>i, <3>1
    <3> HIDE DEF Sum
    <3> QED
      BY Zenon, <1>r, <3>4, <3>5, <3>6
  <2> QED
    BY Zenon, <2>6, <2>7
<1>4. ASSUME NEW t \in Thread, TellNoisy(t) PROVE Notices'
  <2> DEFINE x == Msg(pc[t], 0)
  <2>1. /\ pc[t] \in {"noisy", "unnoisy"} /\ noisy' = noisy /\ cur' = cur /\ asio_noisy' = asio_noisy
        /\ mq'[0] = Append(mq[0], x) /\ pc' = [pc EXCEPT ![t] = "actor"]
    BY Zenon, <1>0, <1>4 DEF TellNoisy, Goto, actors, sched0
  <2>2. x \in Message /\ x.type = pc[t]
    BY <2>1 DEF Msg, Message
  <2>3. pc'[t] = "actor" /\ \A u \in Thread : u # t => pc'[u] = pc[u]
    BY Zenon, <1>0, <2>1
  <2>4. \A u \in Thread : pc'[u] = "noisy" => pc[u] = "noisy"
    BY <2>3
  <2> HIDE DEF x
  <2>5. Sum' = Sum + Effect(x, B, U) /\ Effect(x, B, U) \in {1, -1} /\ Sum + Effect(x, B, U) >= 0
    <3>1. CASE pc[t] = "noisy"
      <4>1. Opening' = Opening \ {t} /\ t \in Opening /\ Closing' = Closing
        BY <2>3, <3>1 DEF Opening, Closing
      <4>2. Cardinality(Opening') = Cardinality(Opening) - 1
        BY Zenon, <1>f, <4>1 DEF FiniteFacts, RemoveElement
      <4>3. Effect(x, B, U) = 1
        BY <2>2, <3>1, TypeEffect DEF B, U
      <4> QED
        BY <1>f, <1>o, <2>1, <4>1, <4>2, <4>3
    <3>2. CASE pc[t] = "unnoisy"
      <4>1. Closing' = Closing \ {t} /\ t \in Closing /\ Opening' = Opening
        BY <2>3, <3>2 DEF Opening, Closing
      <4>2. Cardinality(Closing') = Cardinality(Closing) - 1
        BY Zenon, <1>f, <4>1 DEF FiniteFacts, RemoveElement
      <4>3. Effect(x, B, U) = -1
        BY <2>2, <3>2, TypeEffect DEF B, U
      <4>4. Cardinality(Closing) # 0
        BY Zenon, <1>f, <4>1 DEF FiniteFacts, NoElement
      <4> QED
        BY <1>f, <1>o, <2>1, <4>1, <4>2, <4>3, <4>4
    <3> QED
      BY Zenon, <2>1, <3>1, <3>2
  <2> HIDE DEF Sum
  <2>6. Total(asio_noisy, Append(mq[0], x), B, U) = Total(asio_noisy, mq[0], B, U) + Effect(x, B, U)
    BY SMTT(20), <1>0, <2>2, PushEffect
  <2>7. NeverNegative(asio_noisy, mq[0], B, U) /\ Total(asio_noisy, mq[0], B, U) + Effect(x, B, U) >= 0
          => NeverNegative(asio_noisy, Append(mq[0], x), B, U)
    BY Zenon, <1>0, <2>2, PushEffect
  <2>8. Total(asio_noisy', mq'[0], B, U) = Sum' /\ NeverNegative(asio_noisy', mq'[0], B, U)
    BY Zenon, <1>i, <2>1, <2>5, <2>6, <2>7
  <2>9. \A u \in Thread : pc'[u] = "noisy" => cur'[u] \in noisy'
    BY Zenon, <1>i, <2>1, <2>4
  <2>10. \A u, v \in Thread : pc'[u] = "noisy" /\ pc'[v] = "noisy" => u = v
    BY Zenon, <1>i, <2>4
  <2> QED
    BY Zenon, <1>r, <2>8, <2>9, <2>10
<1> QED
  BY Zenon, NoticeSteps, <1>1, <1>2, <1>3, <1>4
=============================================================================
