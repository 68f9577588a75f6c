------------------------- MODULE BackpressureProofs -------------------------
(***************************************************************************)
(* Proofs about Backpressure, for any number of actors and schedulers.     *)
(***************************************************************************)
EXTENDS Backpressure, FiniteFacts, TLAPS

(* The scheduler is inside a run of an actor.                              *)
Finishing(s) ==
  pc[s] = "ended" \/ (pc[s] \in {"announce", "notify"} /\ back[s] = "ended")

InRun(s) ==
  \/ pc[s] \in {"run", "push"} \/ Finishing(s)
  \/ pc[s] \in {"announce", "notify"} /\ back[s] = "run"

(* What a thread's program counter says of its locals, and that no two     *)
(* threads run the same actor.                                             *)
ThreadOK(s) ==
  /\ InRun(s) => cur[s] \in Actor /\ loc[cur[s]] = "running"
  /\ ~InRun(s) => cur[s] = None
  /\ pc[s] \in {"announce", "notify", "push"} => who[s] \in Actor
  /\ Finishing(s) => muted[cur[s]] = 0

Control ==
  /\ \A s \in Sched : ThreadOK(s)
  /\ \A s, u \in Sched : cur[s] = cur[u] /\ cur[s] # None => s = u

(* Whose an actor in a mute map, or in a stack of actors to unmute, is.    *)
Ownership ==
  /\ \A s \in Sched, a, r \in Actor : a \in mutemap[s][r] => cur[s] = a \/ loc[a] = "held"
  /\ \A s \in Sched : \A a \in stack[s] :
       /\ loc[a] = "held" /\ muted[a] = 0
       /\ \A u \in Sched : a \in stack[u] => s = u

(* A sleeping scheduler holds nobody.                                      *)
AsleepHoldsNone ==
  \A s \in Sched, r \in Actor : ~Awake(s) => mutemap[s][r] = {}

IInv ==
  /\ TypeOK /\ Control /\ Ownership /\ MuteCountExact /\ MutedIsHeld
  /\ AsleepHoldsNone /\ NoLostUnmute

(* Stronger than NoMuteCycle, and preserved: among any actors, held or not,*)
(* one waits for no other of them but those being announced to it.         *)
NoRing ==
  /\ \A s \in Sched, a \in Actor : a \notin mutemap[s][a]
  /\ \A ring \in (SUBSET Actor) \ {{}} :
       \E a \in ring :
         \A s \in Sched, r \in ring : a \in mutemap[s][r] => OnItsWay(s, r)

-----------------------------------------------------------------------------
(* The mute maps have finitely many entries.                               *)
LEMMA WaitsFinite ==
  ASSUME FiniteFacts, NEW a \in Actor
  PROVE  IsFiniteSet(Waits(a))
<1>1. IsFiniteSet(Sched \X Actor)
  BY BackpressureAssumption DEF FiniteFacts, Pairs
<1>2. Waits(a) \subseteq Sched \X Actor
  BY DEF Waits
<1> QED
  BY <1>1, <1>2 DEF FiniteFacts, Parts

(* An actor's count is positive exactly when some mute map has it.         *)
LEMMA CountPositive ==
  ASSUME FiniteFacts, MuteCountExact, NEW a \in Actor
  PROVE  /\ muted[a] \in Nat
         /\ muted[a] = 0 <=> \A s \in Sched, r \in Actor : a \notin mutemap[s][r]
<1>1. muted[a] = Cardinality(Waits(a)) /\ IsFiniteSet(Waits(a))
  BY WaitsFinite DEF MuteCountExact
<1>2. muted[a] \in Nat /\ (muted[a] = 0 <=> Waits(a) = {})
  BY <1>1 DEF FiniteFacts, SizeIsNat, NoElement
<1>3. ASSUME NEW s \in Sched, NEW r \in Actor, a \in mutemap[s][r]
      PROVE  Waits(a) # {}
  <2>1. <<s, r>> \in Sched \X Actor /\ a \in mutemap[<<s, r>>[1]][<<s, r>>[2]]
    BY Zenon, <1>3
  <2> QED
    BY <2>1 DEF Waits
<1>4. ASSUME NEW e \in Waits(a)
      PROVE  e[1] \in Sched /\ e[2] \in Actor /\ a \in mutemap[e[1]][e[2]]
  BY DEF Waits
<1> QED
  BY <1>2, <1>3, <1>4

(* What becomes of an element of a queue when another is added, and when   *)
(* the first is taken; and that an element just added is there.            *)
LEMMA StaysOnAppend ==
  ASSUME NEW q \in Seq(Actor), NEW x, NEW y \in Actor, \E i \in 1..Len(q) : q[i] = x
  PROVE  \E i \in 1..Len(Append(q, y)) : Append(q, y)[i] = x
<1>1. PICK i \in 1..Len(q) : q[i] = x
  BY Zenon
<1>2. i \in 1..Len(Append(q, y)) /\ Append(q, y)[i] = x
  BY <1>1
<1> QED
  BY <1>2

(* A message appended to a queue is in the queue.                          *)
LEMMA AppendedIsThere ==
  ASSUME NEW q \in Seq(Actor), NEW y \in Actor
  PROVE  \E i \in 1..Len(Append(q, y)) : Append(q, y)[i] = y
<1>1. Len(q) + 1 \in 1..Len(Append(q, y)) /\ Append(q, y)[Len(q) + 1] = y
  OBVIOUS
<1> QED
  BY <1>1

(* What is in a queue, and is not what is read from it, stays there.       *)
LEMMA StaysInTail ==
  ASSUME NEW q \in Seq(Actor), q # <<>>, NEW x, x # Head(q), \E i \in 1..Len(q) : q[i] = x
  PROVE  \E i \in 1..Len(Tail(q)) : Tail(q)[i] = x
<1>1. PICK i \in 1..Len(q) : q[i] = x
  BY Zenon
<1>2. Head(q) = q[1]
  OBVIOUS
<1>3. i \in 2..Len(q)
  BY <1>1, <1>2
<1>4. Tail(q)[i - 1] = q[i] /\ Len(Tail(q)) = Len(q) - 1
  BY <1>3
<1>5. i - 1 \in 1..Len(Tail(q))
  BY <1>3, <1>4
<1> QED
  BY <1>1, <1>4, <1>5

(* Starting an announcement keeps the types.                               *)
LEMMA AnnounceType ==
  ASSUME TypeOK, NEW s \in Sched, NEW a \in Actor, NEW then \in {"read", "run", "ended"},
         Announce(s, a, then)
  PROVE  /\ who' \in [Sched -> Actor \cup {None}]
         /\ back' \in [Sched -> {"read", "run", "ended"}]
         /\ pc' \in [Sched -> {"read", "run", "push", "ended", "announce", "notify", "asleep"}]
         /\ to' \in [Sched -> SUBSET Sched]
  BY DEF TypeOK, Announce

(* So does leaving an actor.                                               *)
LEMMA LeaveType ==
  ASSUME TypeOK, NEW s \in Sched, cur[s] \in Actor,
         NEW where \in {"idle", "queued", "running", "held"}, Leave(s, where)
  PROVE  /\ loc' \in [Actor -> {"idle", "queued", "running", "held"}]
         /\ cur' \in [Sched -> Actor \cup {None}]
         /\ app' \in [Sched -> BOOLEAN]
         /\ pc' \in [Sched -> {"read", "run", "push", "ended", "announce", "notify", "asleep"}]
<1>1. loc' \in [Actor -> {"idle", "queued", "running", "held"}] /\ cur' \in [Sched -> Actor \cup {None}]
  BY DEF TypeOK, Leave
<1>2. app' \in [Sched -> BOOLEAN]
  BY Zenon DEF TypeOK, Leave
<1>3. pc' \in [Sched -> {"read", "run", "push", "ended", "announce", "notify", "asleep"}]
  BY DEF TypeOK, Leave
<1> QED
  BY Zenon, <1>1, <1>2, <1>3

(* Every step keeps the types.                                             *)
LEMMA TypeStep ==
  ASSUME FiniteFacts
  PROVE  IInv /\ [Next]_vars => TypeOK'
<1> SUFFICES ASSUME IInv, TypeOK, Control, Ownership, MuteCountExact, MutedIsHeld,
                    AsleepHoldsNone, NoLostUnmute
             PROVE  [Next]_vars => TypeOK'
  BY DEF IInv
<1>n. SUFFICES ASSUME [Next]_vars PROVE TypeOK'
  OBVIOUS
<1>0. CASE UNCHANGED vars
  BY <1>0 DEF TypeOK, vars, actors, run, sends
<1>s. SUFFICES ASSUME NEW s \in Sched,
      \/ CountActive(s) \/ Notify(s) \/ NotifyPinned(s)
      \/ ReadMsg(s) \/ RescheduleUnmuted(s) \/ Take(s) \/ Suspend(s) \/ Wake(s)
      \/ Send(s) \/ Push(s) \/ Apply(s) \/ Release(s)
      \/ BecomeMuted(s) \/ BatchLimit(s) \/ Drained(s) \/ EndRun(s)
    PROVE TypeOK'
  BY <1>n, <1>0 DEF Next
<1>1. CASE CountActive(s)
  BY <1>1 DEF TypeOK, CountActive, actors, run
<1>2. CASE Notify(s)
  <2>1. pc[s] = "notify" /\ who[s] \in Actor
    BY Zenon, <1>2 DEF Notify, Control, ThreadOK
  <2> QED
    <3>1. PICK u \in Sched : /\ mq' = [mq EXCEPT ![u] = Append(@, who[s])]
                            /\ to' = [to EXCEPT ![s] = @ \ {u}]
      BY Zenon, <1>2 DEF Notify, TypeOK
    <3>2. Append(mq[u], who[s]) \in Seq(Actor)
      BY <2>1 DEF TypeOK
    <3>3. mq' \in [Sched -> Seq(Actor)] /\ to' \in [Sched -> SUBSET Sched]
      BY Zenon, <3>1, <3>2 DEF TypeOK
    <3> QED
      BY Zenon, <1>2, <3>3 DEF TypeOK, Notify, actors, run
<1>3. CASE NotifyPinned(s)
  <2>1. who[s] \in Actor
    BY Zenon, <1>3 DEF NotifyPinned, Control, ThreadOK
  <2>2. ASSUME NEW u \in Sched PROVE Append(mq[u], who[s]) \in Seq(Actor)
    BY <2>1 DEF TypeOK
  <2>3. CASE Pinned \in Sched /\ mq' = [mq EXCEPT ![Pinned] = Append(@, who[s])]
    <3>1. mq' \in [Sched -> Seq(Actor)]
      BY Zenon, <2>2, <2>3 DEF TypeOK
    <3> QED
      BY Zenon, <1>3, <3>1 DEF TypeOK, NotifyPinned, actors, run
  <2>4. CASE UNCHANGED mq
    BY Zenon, <1>3, <2>4 DEF TypeOK, NotifyPinned, actors, run
  <2> QED
    BY Zenon, <1>3, <2>3, <2>4 DEF NotifyPinned
<1>4. CASE ReadMsg(s)
  <2>1. ASSUME NEW a \in Actor, NEW r \in Actor, a \in mutemap[s][r]
        PROVE  muted[a] - 1 \in Nat
    BY <2>1, CountPositive
  <2>2. Head(mq[s]) \in Actor /\ Tail(mq[s]) \in Seq(Actor)
    BY <1>4 DEF TypeOK, ReadMsg
  <2>3. muted' \in [Actor -> Nat]
    BY Zenon, <1>4, <2>1, <2>2 DEF TypeOK, ReadMsg
  <2>4. mutemap' \in [Sched -> [Actor -> SUBSET Actor]]
    BY Zenon, <1>4, <2>2 DEF TypeOK, ReadMsg
  <2>5. stack' \in [Sched -> SUBSET Actor] /\ mq' \in [Sched -> Seq(Actor)]
    BY <1>4, <2>2 DEF TypeOK, ReadMsg
  <2> QED
    BY <1>4, <2>3, <2>4, <2>5 DEF TypeOK, ReadMsg, run, sends
<1>5. CASE RescheduleUnmuted(s)
  <2>1. PICK a \in stack[s] :
          /\ stack' = [stack EXCEPT ![s] = @ \ {a}]
          /\ flags' = [flags EXCEPT ![a] = @ \ {"muted"}]
          /\ loc' = [loc EXCEPT ![a] = "queued"]
          /\ Announce(s, a, "read")
    BY Zenon, <1>5 DEF RescheduleUnmuted
  <2>2. a \in Actor
    BY Zenon DEF TypeOK
  <2>3. flags' \in [Actor -> SUBSET {"overloaded", "pressure", "muted"}]
    BY Zenon, <2>1, <2>2 DEF TypeOK
  <2>4. /\ stack' \in [Sched -> SUBSET Actor]
        /\ loc' \in [Actor -> {"idle", "queued", "running", "held"}]
    BY Zenon, <2>1, <2>2 DEF TypeOK
  <2> QED
    BY Zenon, <1>5, <2>1, <2>2, <2>3, <2>4, AnnounceType DEF TypeOK, RescheduleUnmuted, run
<1>6. CASE Take(s)
  BY <1>6 DEF TypeOK, Take, sends
<1>7. CASE Suspend(s)
  BY Zenon, <1>7 DEF TypeOK, Suspend, actors, run, sends
<1>8. CASE Wake(s)
  BY Zenon, <1>8 DEF TypeOK, Wake, actors, run, sends
<1>9. CASE Send(s)
  <2>1. cur[s] \in Actor
    BY Zenon, <1>9 DEF Send, Control, ThreadOK, InRun
  <2>2. PICK r \in Actor :
          /\ who' = [who EXCEPT ![s] = r]
          /\ \/ /\ mutemap' = [mutemap EXCEPT ![s][r] = @ \cup {cur[s]}]
                /\ muted' = [muted EXCEPT ![cur[s]] = @ + 1]
             \/ UNCHANGED <<mutemap, muted>>
    BY Zenon, <1>9 DEF Send
  <2>3. app' \in [Sched -> BOOLEAN]
    BY <1>9, Zenon DEF Send, TypeOK
  <2>4. muted' \in [Actor -> Nat] /\ mutemap' \in [Sched -> [Actor -> SUBSET Actor]]
    <3>1. CASE /\ mutemap' = [mutemap EXCEPT ![s][r] = @ \cup {cur[s]}]
               /\ muted' = [muted EXCEPT ![cur[s]] = @ + 1]
      <4>1. muted' \in [Actor -> Nat]
        BY <2>1, <3>1 DEF TypeOK
      <4>2. mutemap[s][r] \cup {cur[s]} \in SUBSET Actor
        BY <2>1 DEF TypeOK
      <4>3. mutemap' \in [Sched -> [Actor -> SUBSET Actor]]
        BY <3>1, <4>2 DEF TypeOK
      <4> QED
        BY <4>1, <4>3
    <3>2. CASE UNCHANGED <<mutemap, muted>>
      BY <3>2 DEF TypeOK
    <3> QED
      BY <2>2, <3>1, <3>2
  <2>5. who' \in [Sched -> Actor \cup {None}]
    BY <2>2 DEF TypeOK
  <2> QED
    BY <1>9, <2>3, <2>4, <2>5 DEF TypeOK, Send
<1>10. CASE Push(s)
  BY Zenon, <1>10 DEF TypeOK, Push, run
<1>11. CASE Apply(s)
  <2>1. app' \in [Sched -> BOOLEAN]
    BY <1>11, Zenon DEF Apply, TypeOK
  <2> QED
    BY Zenon, <1>11, <2>1 DEF TypeOK, Apply, sends
<1>12. CASE Release(s)
  <2>1. app' \in [Sched -> BOOLEAN]
    BY <1>12, Zenon DEF Release, TypeOK
  <2>2. cur[s] \in Actor
    BY Zenon, <1>12 DEF Release, Control, ThreadOK, InRun
  <2>3. CASE Announce(s, cur[s], "run")
    BY <1>12, <2>1, <2>2, <2>3, AnnounceType DEF TypeOK, Release
  <2>4. CASE UNCHANGED <<pc, sends>>
    BY Zenon, <1>12, <2>1, <2>4 DEF TypeOK, Release, sends
  <2> QED
    BY <1>12, <2>3, <2>4 DEF Release
<1>13. CASE BecomeMuted(s)
  <2>1. cur[s] \in Actor
    BY Zenon, <1>13 DEF BecomeMuted, Control, ThreadOK, InRun
  <2> QED
    BY <1>13, <2>1, LeaveType DEF TypeOK, BecomeMuted, sends
<1>14. CASE BatchLimit(s)
  <2>1. cur[s] \in Actor
    BY <1>14 DEF BatchLimit, Control, ThreadOK, InRun
  <2> QED
    BY <1>14, <2>1, LeaveType DEF TypeOK, BatchLimit, sends
<1>15. CASE Drained(s)
  <2>1. cur[s] \in Actor
    BY Zenon, <1>15 DEF Drained, Control, ThreadOK, InRun
  <2>2. CASE Announce(s, cur[s], "ended")
    BY <1>15, <2>1, <2>2, AnnounceType DEF TypeOK, Drained, run
  <2>3. CASE pc' = [pc EXCEPT ![s] = "ended"] /\ UNCHANGED sends
    BY Zenon, <1>15, <2>3 DEF TypeOK, Drained, run, sends
  <2> QED
    BY Zenon, <1>15, <2>2, <2>3 DEF Drained
<1>16. CASE EndRun(s)
  <2>1. cur[s] \in Actor
    BY Zenon, <1>16 DEF EndRun, Control, ThreadOK, InRun, Finishing
  <2>2. PICK where \in {"queued", "idle"} : Leave(s, where)
    BY Zenon, <1>16 DEF EndRun
  <2> QED
    BY <1>16, <2>1, <2>2, LeaveType DEF TypeOK, EndRun, sends
<1> QED
  BY Zenon, <1>s, <1>1, <1>2, <1>3, <1>4, <1>5, <1>6, <1>7, <1>8, <1>9, <1>10, <1>11, <1>12,
     <1>13, <1>14, <1>15, <1>16

-----------------------------------------------------------------------------
(* What a step of one thread leaves alone of another's.                    *)
LEMMA ThreadFrame ==
  ASSUME NEW u \in Sched, ThreadOK(u),
         pc'[u] = pc[u], back'[u] = back[u], cur'[u] = cur[u], who'[u] = who[u],
         cur[u] \in Actor => loc'[cur[u]] = loc[cur[u]] /\ muted'[cur[u]] = muted[cur[u]]
  PROVE  ThreadOK(u)'
  BY DEF ThreadOK, InRun, Finishing

(* Every step keeps a thread's locals in step with its program counter, and*)
(* an actor with one thread.                                               *)
LEMMA ControlStep == IInv /\ [Next]_vars => Control'
<1> SUFFICES ASSUME IInv, TypeOK, Control, Ownership, MuteCountExact, MutedIsHeld,
                    AsleepHoldsNone, NoLostUnmute
             PROVE  [Next]_vars => Control'
  BY Zenon DEF IInv
<1>n. SUFFICES ASSUME [Next]_vars PROVE Control'
  BY Zenon
<1>0. CASE UNCHANGED vars
  BY <1>0 DEF Control, ThreadOK, InRun, Finishing, vars, actors, run, sends
<1>s. SUFFICES ASSUME NEW s \in Sched,
      \/ CountActive(s) \/ Notify(s) \/ NotifyPinned(s)
      \/ ReadMsg(s) \/ RescheduleUnmuted(s) \/ Take(s) \/ Suspend(s) \/ Wake(s)
      \/ Send(s) \/ Push(s) \/ Apply(s) \/ Release(s)
      \/ BecomeMuted(s) \/ BatchLimit(s) \/ Drained(s) \/ EndRun(s)
    PROVE Control'
  BY <1>n, <1>0 DEF Next
<1>a. ASSUME \A u \in Sched \ {s} :
               /\ pc'[u] = pc[u] /\ back'[u] = back[u] /\ cur'[u] = cur[u] /\ who'[u] = who[u]
               /\ cur[u] \in Actor => loc'[cur[u]] = loc[cur[u]] /\ muted'[cur[u]] = muted[cur[u]],
             ThreadOK(s)',
             cur'[s] \in {cur[s], None}
      PROVE  Control'
  BY <1>a, ThreadFrame DEF Control
<1>b. ASSUME NEW u \in Sched, cur[u] \in Actor
      PROVE  loc[cur[u]] = "running"
  BY Zenon, <1>b, BackpressureAssumption DEF Control, ThreadOK
<1>c. ASSUME NEW u \in Sched \ {s}, cur[u] \in Actor
      PROVE  cur[s] # cur[u]
  BY Zenon, <1>c, BackpressureAssumption DEF Control
<1>d. ThreadOK(s)
  BY Zenon DEF Control
<1>1. CASE CountActive(s)
  BY Zenon, <1>1, <1>a, <1>d DEF TypeOK, ThreadOK, InRun, Finishing, CountActive, actors, run
<1>2. CASE Notify(s)
  BY Zenon, <1>2, <1>a, <1>d DEF TypeOK, ThreadOK, InRun, Finishing, Notify, actors, run
<1>3. CASE NotifyPinned(s)
  BY <1>3, <1>a, <1>d DEF TypeOK, ThreadOK, InRun, Finishing, NotifyPinned, actors, run
<1>4. CASE ReadMsg(s)
  <2>1. cur[s] = None
    BY <1>4, <1>d DEF ReadMsg, ThreadOK, InRun, Finishing
  <2>2. Head(mq[s]) \in Actor
    BY <1>4 DEF TypeOK, ReadMsg
  <2>3. ASSUME NEW u \in Sched, cur[u] \in Actor
        PROVE  cur[u] \notin mutemap[s][Head(mq[s])]
    BY <2>1, <2>2, <2>3, <1>b, BackpressureAssumption DEF Ownership
  <2>4. ASSUME NEW u \in Sched, cur[u] \in Actor
        PROVE  muted'[cur[u]] = muted[cur[u]]
    BY Zenon, <1>4, <2>3, <2>4 DEF ReadMsg
  <2> QED
    BY Zenon, <1>4, <1>a, <1>d, <2>4 DEF TypeOK, ThreadOK, InRun, Finishing, ReadMsg, run, sends
<1>5. CASE RescheduleUnmuted(s)
  <2>1. PICK a \in stack[s] :
          /\ stack' = [stack EXCEPT ![s] = @ \ {a}]
          /\ loc' = [loc EXCEPT ![a] = "queued"]
          /\ Announce(s, a, "read")
    BY Zenon, <1>5 DEF RescheduleUnmuted
  <2>2. a \in Actor /\ loc[a] = "held"
    BY Zenon DEF TypeOK, Ownership
  <2>3. \A u \in Sched : cur[u] \in Actor => loc'[cur[u]] = loc[cur[u]]
    BY Zenon, <2>1, <2>2, <1>b DEF TypeOK
  <2>4. cur[s] = None
    BY Zenon, <1>5, <1>d DEF RescheduleUnmuted, ThreadOK, InRun, Finishing
  <2>5. ThreadOK(s)'
    BY <1>5, <2>1, <2>2, <2>4 DEF RescheduleUnmuted, Announce, TypeOK, ThreadOK, InRun, Finishing, run
  <2> QED
    BY <1>5, <1>a, <2>1, <2>3, <2>5 DEF TypeOK, RescheduleUnmuted, Announce, run
<1>6. CASE Take(s)
  <2>1. PICK a \in Actor :
          /\ loc[a] = "queued"
          /\ cur' = [cur EXCEPT ![s] = a]
          /\ loc' = [loc EXCEPT ![a] = "running"]
    BY ZenonT(40), <1>6 DEF Take
  <2>2. \A u \in Sched : cur[u] # a
    BY Zenon, <2>1, <1>b
  <2>3. \A u \in Sched \ {s} : ThreadOK(u)'
    BY <1>6, <2>1, <2>2, ThreadFrame DEF Control, Take, TypeOK, sends
  <2>4. ThreadOK(s)'
    BY <1>6, <2>1 DEF Take, TypeOK, ThreadOK, InRun, Finishing, sends
  <2>5. \A u, v \in Sched : cur'[u] = cur'[v] /\ cur'[u] # None => u = v
    BY Zenon, <2>1, <2>2 DEF TypeOK, Control
  <2> QED
    BY Zenon, <2>3, <2>4, <2>5 DEF Control
<1>7. CASE Suspend(s)
  BY <1>7, <1>a, <1>d DEF TypeOK, ThreadOK, InRun, Finishing, Suspend, actors, run, sends
<1>8. CASE Wake(s)
  BY <1>8, <1>a, <1>d DEF TypeOK, ThreadOK, InRun, Finishing, Wake, actors, run, sends
<1>9. CASE Send(s)
  <2>1. cur[s] \in Actor /\ loc[cur[s]] = "running" /\ pc[s] = "run"
    BY <1>9, <1>d DEF Send, ThreadOK, InRun
  <2>2. PICK r \in Actor : who' = [who EXCEPT ![s] = r]
    BY ZenonT(40), <1>9 DEF Send
  <2>3. \A a \in Actor : a # cur[s] => muted'[a] = muted[a]
    BY <1>9, <2>1 DEF Send, TypeOK
  <2>4. ThreadOK(s)'
    BY <1>9, <2>1, <2>2 DEF Send, TypeOK, ThreadOK, InRun, Finishing
  <2> QED
    BY <1>9, <1>a, <1>c, <2>2, <2>3, <2>4 DEF TypeOK, Send
<1>10. CASE Push(s)
  <2>1. \A a \in Actor : loc[a] = "running" => loc'[a] = loc[a]
    BY Zenon, <1>10 DEF Push, TypeOK
  <2>2. ThreadOK(s)'
    BY <1>10, <1>d, <2>1 DEF Push, TypeOK, ThreadOK, InRun, Finishing, run
  <2> QED
    BY <1>10, <1>a, <1>b, <2>1, <2>2 DEF TypeOK, Push, run
<1>11. CASE Apply(s)
  BY Zenon, <1>11, <1>a, <1>d DEF TypeOK, ThreadOK, InRun, Finishing, Apply, sends
<1>12. CASE Release(s)
  <2>1. cur[s] \in Actor /\ loc[cur[s]] = "running"
    BY <1>12, <1>d DEF Release, ThreadOK, InRun
  <2>2. CASE Announce(s, cur[s], "run")
    BY <1>12, <1>a, <1>d, <2>1, <2>2 DEF TypeOK, ThreadOK, InRun, Finishing, Release, Announce
  <2>3. CASE UNCHANGED <<pc, sends>>
    BY <1>12, <1>a, <1>d, <2>3 DEF TypeOK, ThreadOK, InRun, Finishing, Release, sends
  <2> QED
    BY <1>12, <2>2, <2>3 DEF Release
<1>e. ASSUME NEW where \in {"idle", "queued", "held"}, Leave(s, where), cur[s] \in Actor,
             UNCHANGED <<muted, sends>>
      PROVE  Control'
  <2>1. \A a \in Actor : a # cur[s] => loc'[a] = loc[a]
    BY Zenon, <1>e DEF Leave, TypeOK
  <2>2. ThreadOK(s)'
    BY <1>e DEF Leave, TypeOK, ThreadOK, InRun, Finishing, sends
  <2> QED
    BY <1>e, <1>a, <1>c, <2>1, <2>2 DEF Leave, TypeOK, sends
<1>13. CASE BecomeMuted(s)
  BY <1>13, <1>d, <1>e DEF BecomeMuted, ThreadOK, InRun
<1>14. CASE BatchLimit(s)
  BY Zenon, <1>14, <1>d, <1>e DEF BatchLimit, ThreadOK, InRun
<1>15. CASE Drained(s)
  <2>1. cur[s] \in Actor /\ loc[cur[s]] = "running" /\ muted[cur[s]] = 0
    BY Zenon, <1>15, <1>d DEF Drained, ThreadOK, InRun
  <2>2. CASE Announce(s, cur[s], "ended")
    BY <1>15, <1>a, <1>d, <2>1, <2>2 DEF TypeOK, ThreadOK, InRun, Finishing, Drained, Announce, run
  <2>3. CASE pc' = [pc EXCEPT ![s] = "ended"] /\ UNCHANGED sends
    BY Zenon, <1>15, <1>a, <1>d, <2>1, <2>3 DEF TypeOK, ThreadOK, InRun, Finishing, Drained, run, sends
  <2> QED
    BY <1>15, <2>2, <2>3 DEF Drained
<1>16. CASE EndRun(s)
  BY Zenon, <1>16, <1>d, <1>e DEF EndRun, ThreadOK, InRun, Finishing
<1> QED
  BY <1>s, <1>1, <1>2, <1>3, <1>4, <1>5, <1>6, <1>7, <1>8, <1>9, <1>10, <1>11, <1>12,
     <1>13, <1>14, <1>15, <1>16

-----------------------------------------------------------------------------
(* The actor a thread runs is not held, and waits at that thread only.     *)
LEMMA RunningWaits ==
  ASSUME IInv, NEW s \in Sched, cur[s] \in Actor
  PROVE  /\ loc[cur[s]] = "running"
         /\ \A u \in Sched, r \in Actor : cur[s] \in mutemap[u][r] => u = s
<1>1. loc[cur[s]] = "running"
  BY Zenon, BackpressureAssumption DEF IInv, Control, ThreadOK
<1> QED
  BY <1>1, BackpressureAssumption DEF IInv, Ownership, Control

(* Muting a sender counts one more receiver for it, at one thread.         *)
LEMMA SendCount ==
  ASSUME FiniteFacts, IInv, NEW s \in Sched, Send(s)
  PROVE  MuteCountExact'
<1>1. cur[s] \in Actor
  BY Zenon DEF IInv, Send, Control, ThreadOK, InRun
<1>2. PICK r \in Actor :
        \/ /\ cur[s] \notin mutemap[s][r]
           /\ mutemap' = [mutemap EXCEPT ![s][r] = @ \cup {cur[s]}]
           /\ muted' = [muted EXCEPT ![cur[s]] = @ + 1]
        \/ UNCHANGED <<mutemap, muted>>
  BY Zenon DEF Send
<1>3. CASE UNCHANGED <<mutemap, muted>>
  BY <1>3 DEF IInv, MuteCountExact, Waits
<1>4. CASE /\ cur[s] \notin mutemap[s][r]
           /\ mutemap' = [mutemap EXCEPT ![s][r] = @ \cup {cur[s]}]
           /\ muted' = [muted EXCEPT ![cur[s]] = @ + 1]
  <2>0. PICK me \in Actor : me = cur[s]
    BY <1>1
  <2>1. ASSUME NEW u \in Sched, NEW q \in Actor
        PROVE  mutemap'[u][q] = IF u = s /\ q = r THEN mutemap[u][q] \cup {me} ELSE mutemap[u][q]
    BY Zenon, <1>4, <2>0 DEF IInv, TypeOK
  <2>2. ASSUME NEW a \in Actor, a # me
        PROVE  Waits(a)' = Waits(a) /\ muted'[a] = muted[a]
    BY <1>4, <2>0, <2>1, <2>2 DEF IInv, TypeOK, Waits
  <2>3. Waits(me)' = Waits(me) \cup {<<s, r>>} /\ <<s, r>> \notin Waits(me)
    BY <1>4, <2>0, <2>1 DEF Waits
  <2>4. Cardinality(Waits(me)') = Cardinality(Waits(me)) + 1
    BY Zenon, <2>3, WaitsFinite DEF FiniteFacts, AddElement
  <2>5. muted'[me] = muted[me] + 1
    BY Zenon, <1>4, <2>0 DEF IInv, TypeOK
  <2>6. \A e \in Waits(me) : e[1] = s
    BY Zenon, <2>0, RunningWaits DEF Waits
  <2>7. \A d, e \in Waits(me)' : d[1] = e[1]
    BY <2>3, <2>6
  <2>8. \A a \in Actor : (\A d, e \in Waits(a)' : d[1] = e[1]) /\ muted'[a] = Cardinality(Waits(a)')
    BY <2>2, <2>4, <2>5, <2>7 DEF IInv, MuteCountExact
  <2> QED
    BY <2>8 DEF MuteCountExact
<1> QED
  BY <1>2, <1>3, <1>4

(* Reading an announcement counts one receiver less for every sender that  *)
(* the thread's mute map holds for it.                                     *)
LEMMA ReadCount ==
  ASSUME FiniteFacts, IInv, NEW s \in Sched, ReadMsg(s)
  PROVE  MuteCountExact'
<1> DEFINE r == Head(mq[s])
<1>1. r \in Actor
  BY DEF IInv, TypeOK, ReadMsg
<1>2. /\ \A u \in Sched, q \in Actor :
           mutemap'[u][q] = IF u = s /\ q = r THEN {} ELSE mutemap[u][q]
      /\ \A a \in Actor : muted'[a] = IF a \in mutemap[s][r] THEN muted[a] - 1 ELSE muted[a]
  BY <1>1 DEF IInv, TypeOK, ReadMsg
<1>3. ASSUME NEW a \in Actor
      PROVE  Waits(a)' = Waits(a) \ {<<s, r>>}
  BY <1>1, <1>2 DEF Waits
<1>4. ASSUME NEW a \in Actor, a \notin mutemap[s][r]
      PROVE  Waits(a)' = Waits(a) /\ muted'[a] = muted[a]
  BY <1>2, <1>3, <1>4 DEF Waits
<1>5. ASSUME NEW a \in Actor, a \in mutemap[s][r]
      PROVE  muted'[a] = Cardinality(Waits(a)')
  <2>1. <<s, r>> \in Waits(a)
    BY Zenon, <1>1, <1>5 DEF Waits
  <2>2. Cardinality(Waits(a)') = Cardinality(Waits(a)) - 1
    BY <1>3, <2>1, WaitsFinite DEF FiniteFacts, RemoveElement
  <2> QED
    BY Zenon, <1>2, <1>5, <2>2 DEF IInv, MuteCountExact
<1>6. \A a \in Actor : (\A d, e \in Waits(a)' : d[1] = e[1]) /\ muted'[a] = Cardinality(Waits(a)')
  BY SMTT(40), <1>3, <1>4, <1>5 DEF IInv, MuteCountExact
<1> QED
  BY Zenon, <1>6 DEF MuteCountExact

(* No other step touches a mute map or a count.                            *)
LEMMA CountStep ==
  ASSUME FiniteFacts
  PROVE  IInv /\ [Next]_vars => MuteCountExact'
<1> SUFFICES ASSUME IInv, [Next]_vars PROVE MuteCountExact'
  BY Zenon
<1>1. CASE \E s \in Sched : Send(s)
  BY Zenon, <1>1, SendCount
<1>2. CASE \E s \in Sched : ReadMsg(s)
  BY Zenon, <1>2, ReadCount
<1>3. CASE UNCHANGED <<mutemap, muted>>
  BY <1>3 DEF IInv, MuteCountExact, Waits
<1> QED
  BY ZenonT(40), <1>1, <1>2, <1>3 DEF Next, vars, actors, CountActive, Notify, NotifyPinned,
     RescheduleUnmuted, Take, Suspend, Wake, Push, Apply, Release, BecomeMuted,
     BatchLimit, Drained, EndRun

-----------------------------------------------------------------------------
(* An actor that leaves its thread with a count of zero is in no mute map. *)
LEMMA LeaveOwnership ==
  ASSUME FiniteFacts, IInv, NEW s \in Sched, cur[s] \in Actor, NEW where \in {"idle", "queued", "held"},
         where # "held" => muted[cur[s]] = 0, Leave(s, where), UNCHANGED <<mutemap, stack, muted>>
  PROVE  Ownership'
<1>1. loc[cur[s]] = "running"
  BY Zenon, RunningWaits
<1>2. /\ loc'[cur[s]] = where
      /\ \A a \in Actor : a # cur[s] => loc'[a] = loc[a]
      /\ \A u \in Sched : u # s => cur'[u] = cur[u]
  BY DEF IInv, TypeOK, Leave
<1>3. ASSUME NEW u \in Sched, NEW a \in Actor, NEW r \in Actor, a \in mutemap[u][r]
      PROVE  cur'[u] = a \/ loc'[a] = "held"
  <2>1. CASE a = cur[s]
    BY Zenon, <1>2, <1>3, <2>1, CountPositive DEF IInv
  <2>2. CASE a # cur[s]
    BY <1>2, <1>3, <2>2 DEF IInv, Ownership
  <2> QED
    BY Zenon, <2>1, <2>2
<1>4. \A u \in Sched : \A a \in stack[u] : loc'[a] = "held"
  BY <1>1, <1>2 DEF IInv, Ownership, TypeOK
<1> QED
  BY <1>3, <1>4 DEF IInv, Ownership

(* Every step leaves an actor in a mute map with its thread, or held.      *)
LEMMA OwnershipStep ==
  ASSUME FiniteFacts
  PROVE  IInv /\ [Next]_vars => Ownership'
<1> SUFFICES ASSUME IInv, TypeOK, Control, Ownership, MuteCountExact, MutedIsHeld,
                    AsleepHoldsNone, NoLostUnmute
             PROVE  [Next]_vars => Ownership'
  BY DEF IInv
<1>n. SUFFICES ASSUME [Next]_vars PROVE Ownership'
  BY Zenon
<1>0. ASSUME mutemap' = mutemap, stack' = stack, muted' = muted, cur' = cur, loc' = loc
      PROVE  Ownership'
  BY <1>0 DEF Ownership
<1>u. ASSUME NEW s \in Sched,
             \/ CountActive(s) \/ Notify(s) \/ NotifyPinned(s) \/ Suspend(s) \/ Wake(s)
             \/ Apply(s) \/ Release(s) \/ Drained(s)
      PROVE  Ownership'
  BY ZenonT(20), <1>0, <1>u DEF CountActive, Notify, NotifyPinned, Suspend, Wake, Apply, Release,
     Drained, actors, run
<1>v. CASE UNCHANGED vars
  BY Zenon, <1>0, <1>v DEF vars, actors, run
<1>s. SUFFICES ASSUME NEW s \in Sched,
      \/ ReadMsg(s) \/ RescheduleUnmuted(s) \/ Take(s) \/ Send(s) \/ Push(s)
      \/ BecomeMuted(s) \/ BatchLimit(s) \/ EndRun(s)
    PROVE Ownership'
  BY Zenon, <1>n, <1>u, <1>v DEF Next
<1>1. CASE ReadMsg(s)
  <2> DEFINE r == Head(mq[s])
  <2>1. r \in Actor /\ cur[s] = None
    <3>1. r \in Actor
      BY <1>1 DEF TypeOK, ReadMsg
    <3>2. cur[s] = None
      BY Zenon, <1>1 DEF ReadMsg, Control, ThreadOK, InRun, Finishing
    <3> QED
      BY <3>1, <3>2
  <2>2. /\ \A u \in Sched, q \in Actor :
             mutemap'[u][q] = IF u = s /\ q = r THEN {} ELSE mutemap[u][q]
        /\ \A a \in Actor : muted'[a] = IF a \in mutemap[s][r] THEN muted[a] - 1 ELSE muted[a]
        /\ stack' = [stack EXCEPT ![s] = {a \in mutemap[s][r] : muted[a] = 1}]
        /\ UNCHANGED <<loc, cur>>
    <3>1. /\ mutemap' = [mutemap EXCEPT ![s][r] = {}]
          /\ muted' = [a \in Actor |-> IF a \in mutemap[s][r] THEN muted[a] - 1 ELSE muted[a]]
          /\ stack' = [stack EXCEPT ![s] = {a \in mutemap[s][r] : muted[a] = 1}]
          /\ UNCHANGED <<loc, cur>>
      BY Zenon, <1>1 DEF ReadMsg, run
    <3> QED
      BY Zenon, <2>1, <3>1 DEF TypeOK
  <2>3. \A u \in Sched, a, q \in Actor : a \in mutemap'[u][q] => cur'[u] = a \/ loc'[a] = "held"
    <3> SUFFICES ASSUME NEW u \in Sched, NEW a \in Actor, NEW q \in Actor, a \in mutemap'[u][q]
                 PROVE  cur'[u] = a \/ loc'[a] = "held"
      BY Zenon
    <3>1. a \in mutemap[u][q]
      BY Zenon, <2>2
    <3>2. cur[u] = a \/ loc[a] = "held"
      BY Zenon, <3>1 DEF Ownership
    <3> QED
      BY Zenon, <2>2, <3>2
  <2>4. ASSUME NEW a \in Actor, a \in mutemap[s][r]
        PROVE  loc[a] = "held" /\ (\A u \in Sched : a \notin stack[u])
    <3>1. loc[a] = "held"
      BY <2>1, <2>4, BackpressureAssumption DEF Ownership
    <3>2. muted[a] # 0
      BY Zenon, <2>1, <2>4, CountPositive
    <3> QED
      BY <3>1, <3>2 DEF Ownership
  <2>5. \A u \in Sched : stack'[u] = IF u = s THEN {a \in mutemap[s][r] : muted[a] = 1} ELSE stack[u]
    BY <2>2 DEF TypeOK
  <2>6. mutemap[s][r] \subseteq Actor /\ \A u \in Sched : stack[u] \subseteq Actor
    BY <2>1 DEF TypeOK
  <2>7. ASSUME NEW u \in Sched, NEW a \in stack'[u]
        PROVE  /\ loc'[a] = "held" /\ muted'[a] = 0
               /\ \A v \in Sched : a \in stack'[v] => u = v
    <3>1. CASE u = s
      BY SMTT(40), <2>2, <2>4, <2>5, <2>6, <3>1 DEF TypeOK
    <3>2. CASE u # s
      <4>1. a \in stack[u] /\ a \in Actor /\ a \notin mutemap[s][r]
        BY Zenon, <2>4, <2>5, <2>6, <3>2
      <4> QED
        BY <2>2, <2>5, <4>1 DEF Ownership
    <3> QED
      BY Zenon, <3>1, <3>2
  <2> QED
    BY <2>3, <2>7 DEF Ownership
<1>2. CASE RescheduleUnmuted(s)
  <2>1. PICK a \in stack[s] :
          /\ stack' = [stack EXCEPT ![s] = @ \ {a}]
          /\ loc' = [loc EXCEPT ![a] = "queued"]
    BY ZenonT(40), <1>2 DEF RescheduleUnmuted
  <2>2. a \in Actor /\ muted[a] = 0 /\ \A u \in Sched : a \in stack[u] => u = s
    BY Zenon DEF TypeOK, Ownership
  <2>3. \A u \in Sched, q \in Actor : a \notin mutemap[u][q]
    BY <2>2, CountPositive
  <2>4. \A b \in Actor : b # a => loc'[b] = loc[b]
    BY <2>1 DEF TypeOK
  <2>5. \A u \in Sched : a \notin stack'[u] /\ stack'[u] \subseteq stack[u] /\ stack[u] \subseteq Actor
    BY <2>1, <2>2 DEF TypeOK
  <2>6. UNCHANGED <<mutemap, muted, cur>>
    BY <1>2 DEF RescheduleUnmuted, run
  <2>7. \A u \in Sched, b, q \in Actor : b \in mutemap'[u][q] => cur'[u] = b \/ loc'[b] = "held"
    BY <2>3, <2>4, <2>6 DEF Ownership
  <2>8. \A u \in Sched : \A b \in stack'[u] :
          loc'[b] = "held" /\ muted'[b] = 0 /\ \A v \in Sched : b \in stack'[v] => u = v
    BY <2>4, <2>5, <2>6 DEF Ownership
  <2> QED
    BY <2>7, <2>8 DEF Ownership
<1>3. CASE Take(s)
  <2>1. PICK a \in Actor :
          /\ loc[a] = "queued"
          /\ cur' = [cur EXCEPT ![s] = a]
          /\ loc' = [loc EXCEPT ![a] = "running"]
    BY ZenonT(40), <1>3 DEF Take
  <2>2. cur[s] = None
    BY <1>3 DEF Take, Control, ThreadOK, InRun, Finishing
  <2>3. \A b \in Actor : loc[b] = "held" => loc'[b] = "held"
    BY Zenon, <2>1 DEF TypeOK
  <2>4. \A u \in Sched : cur[u] # None => cur'[u] = cur[u]
    BY Zenon, <2>1, <2>2 DEF TypeOK
  <2>5. UNCHANGED <<mutemap, muted, stack>>
    BY Zenon, <1>3 DEF Take
  <2>6. \A u \in Sched, b, q \in Actor : b \in mutemap'[u][q] => cur'[u] = b \/ loc'[b] = "held"
    BY <2>3, <2>4, <2>5, BackpressureAssumption DEF Ownership
  <2> QED
    BY <2>3, <2>5, <2>6 DEF Ownership, TypeOK
<1>4. CASE Send(s)
  <2>1. cur[s] \in Actor /\ loc[cur[s]] = "running"
    BY <1>4 DEF Send, Control, ThreadOK, InRun
  <2>2. \A u \in Sched, a, q \in Actor : a \in mutemap'[u][q] => a \in mutemap[u][q] \/ (u = s /\ a = cur[s])
    <3>1. PICK r \in Actor :
            mutemap' = [mutemap EXCEPT ![s][r] = @ \cup {cur[s]}] \/ mutemap' = mutemap
      BY <1>4 DEF Send
    <3>2. CASE mutemap' = mutemap
      BY <3>2
    <3>3. CASE mutemap' = [mutemap EXCEPT ![s][r] = @ \cup {cur[s]}]
      BY <3>3 DEF TypeOK
    <3> QED
      BY <3>1, <3>2, <3>3
  <2>3. \A a \in Actor : a # cur[s] => muted'[a] = muted[a]
    BY <1>4, <2>1 DEF Send, TypeOK
  <2>4. \A u \in Sched : \A a \in stack[u] : a \in Actor /\ a # cur[s]
    BY Zenon, <2>1 DEF Ownership, TypeOK
  <2> QED
    BY <1>4, <2>2, <2>3, <2>4 DEF Ownership, Send
<1>5. CASE Push(s)
  <2>1. \A a \in Actor : loc[a] = "held" => loc'[a] = "held"
    BY Zenon, <1>5 DEF Push, TypeOK
  <2> QED
    BY <1>5, <2>1 DEF Ownership, Push, run, TypeOK
<1>6. CASE BecomeMuted(s)
  BY Zenon, <1>6, LeaveOwnership DEF BecomeMuted, Control, ThreadOK, InRun
<1>7. CASE BatchLimit(s)
  BY Zenon, <1>7, LeaveOwnership DEF BatchLimit, Control, ThreadOK, InRun
<1>8. CASE EndRun(s)
  BY Zenon, <1>8, LeaveOwnership DEF EndRun, Control, ThreadOK, InRun, Finishing
<1> QED
  BY <1>s, <1>1, <1>2, <1>3, <1>4, <1>5, <1>6, <1>7, <1>8

-----------------------------------------------------------------------------
(* Every step keeps the flag MUTED with the actors that are held, and a    *)
(* held actor with a receiver or a stack.                                  *)
LEMMA HeldStep ==
  ASSUME FiniteFacts
  PROVE  IInv /\ [Next]_vars => MutedIsHeld'
<1> SUFFICES ASSUME IInv, TypeOK, Control, Ownership, MuteCountExact, MutedIsHeld,
                    AsleepHoldsNone, NoLostUnmute
             PROVE  [Next]_vars => MutedIsHeld'
  BY DEF IInv
<1>n. SUFFICES ASSUME [Next]_vars PROVE MutedIsHeld'
  OBVIOUS
<1>0. CASE UNCHANGED <<flags, stack, muted, loc>>
  BY SMTT(40), <1>0 DEF MutedIsHeld
<1>s. SUFFICES ASSUME NEW s \in Sched,
      \/ ReadMsg(s) \/ RescheduleUnmuted(s) \/ Take(s) \/ Send(s) \/ Push(s)
      \/ Apply(s) \/ Release(s) \/ Drained(s)
      \/ BecomeMuted(s) \/ BatchLimit(s) \/ EndRun(s)
    PROVE MutedIsHeld'
  BY ZenonT(40), <1>n, <1>0 DEF Next, vars, actors, run, CountActive, Notify, NotifyPinned, Suspend, Wake
<1>a. ASSUME pc[s] \in {"run", "ended"}
      PROVE  cur[s] \in Actor /\ loc[cur[s]] = "running"
  BY Zenon, <1>a DEF Control, ThreadOK, InRun, Finishing
<1>b. ASSUME \A a \in Actor :
               /\ "muted" \in flags'[a] <=> "muted" \in flags[a]
               /\ loc'[a] = "held" <=> loc[a] = "held"
               /\ muted[a] > 0 => muted'[a] > 0,
             UNCHANGED stack
      PROVE  MutedIsHeld'
  BY Zenon, <1>b DEF MutedIsHeld
<1>1. CASE ReadMsg(s)
  <2> DEFINE r == Head(mq[s])
  <2>1. r \in Actor /\ stack[s] = {}
    BY <1>1 DEF TypeOK, ReadMsg
  <2>2. /\ muted' = [a \in Actor |-> IF a \in mutemap[s][r] THEN muted[a] - 1 ELSE muted[a]]
        /\ stack' = [stack EXCEPT ![s] = {a \in mutemap[s][r] : muted[a] = 1}]
        /\ UNCHANGED <<loc, flags>>
    BY Zenon, <1>1 DEF ReadMsg
  <2>3. ASSUME NEW a \in Actor, loc[a] = "held"
        PROVE  muted'[a] > 0 \/ \E u \in Sched : a \in stack'[u]
    <3>1. CASE a \in mutemap[s][r]
      <4>1. muted[a] \in Nat /\ muted[a] # 0
        BY Zenon, <2>1, <3>1, CountPositive
      <4>2. muted[a] = 1 => a \in stack'[s]
        BY SMTT(40), <2>2, <3>1 DEF TypeOK
      <4>3. muted[a] > 1 => muted'[a] > 0
        BY <2>2, <3>1, <4>1
      <4> QED
        BY <4>1, <4>2, <4>3
    <3>2. CASE a \notin mutemap[s][r]
      <4>1. muted[a] > 0 \/ \E u \in Sched : a \in stack[u]
        BY Zenon, <2>3 DEF MutedIsHeld
      <4> QED
        BY <2>1, <2>2, <3>2, <4>1 DEF TypeOK
    <3> QED
      BY Zenon, <3>1, <3>2
  <2> QED
    BY Zenon, <2>2, <2>3 DEF MutedIsHeld
<1>2. CASE RescheduleUnmuted(s)
  <2>1. PICK a \in stack[s] :
          /\ stack' = [stack EXCEPT ![s] = @ \ {a}]
          /\ flags' = [flags EXCEPT ![a] = @ \ {"muted"}]
          /\ loc' = [loc EXCEPT ![a] = "queued"]
    BY ZenonT(40), <1>2 DEF RescheduleUnmuted
  <2>2. a \in Actor
    BY Zenon DEF TypeOK
  <2>3. "muted" \notin flags'[a] /\ loc'[a] # "held"
    BY Zenon, <2>1, <2>2 DEF TypeOK
  <2>4. ASSUME NEW b \in Actor, b # a
        PROVE  /\ flags'[b] = flags[b] /\ loc'[b] = loc[b]
               /\ \A u \in Sched : b \in stack[u] => b \in stack'[u]
    BY Zenon, <2>1, <2>2, <2>4 DEF TypeOK
  <2> QED
    BY <1>2, <2>3, <2>4 DEF MutedIsHeld, RescheduleUnmuted
<1>3. CASE Take(s)
  <2>1. \A a \in Actor : loc'[a] = "held" <=> loc[a] = "held"
    BY <1>3 DEF Take, TypeOK
  <2> QED
    BY <1>3, <1>b, <2>1 DEF Take
<1>4. CASE Send(s)
  <2>1. \A a \in Actor : muted[a] > 0 => muted'[a] > 0
    <3>1. cur[s] \in Actor
      BY <1>4, <1>a DEF Send
    <3>2. CASE muted' = [muted EXCEPT ![cur[s]] = @ + 1]
      BY <3>1, <3>2 DEF TypeOK
    <3>3. CASE muted' = muted
      BY Zenon, <3>3
    <3> QED
      BY <1>4, <3>2, <3>3 DEF Send
  <2> QED
    BY <1>4, <1>b, <2>1 DEF Send
<1>5. CASE Push(s)
  <2>1. \A a \in Actor : loc'[a] = "held" <=> loc[a] = "held"
    BY Zenon, <1>5 DEF Push, TypeOK
  <2> QED
    BY Zenon, <1>5, <1>b, <2>1 DEF Push
<1>6. CASE Apply(s)
  <2>1. \A a \in Actor : "muted" \in flags'[a] <=> "muted" \in flags[a]
    BY Zenon, <1>6 DEF Apply, TypeOK
  <2> QED
    BY Zenon, <1>6, <1>b, <2>1 DEF Apply
<1>7. CASE Release(s)
  <2>1. \A a \in Actor : "muted" \in flags'[a] <=> "muted" \in flags[a]
    BY SMTT(40), <1>7 DEF Release, TypeOK
  <2> QED
    BY <1>7, <1>b, <2>1 DEF Release
<1>8. CASE Drained(s)
  <2>1. \A a \in Actor : "muted" \in flags'[a] <=> "muted" \in flags[a]
    BY SMTT(40), <1>8 DEF Drained, TypeOK
  <2> QED
    BY ZenonT(40), <1>8, <1>b, <2>1 DEF Drained
<1>9. CASE BecomeMuted(s)
  <2>1. /\ "muted" \in flags'[cur[s]] /\ loc'[cur[s]] = "held"
        /\ \A a \in Actor : a # cur[s] => flags'[a] = flags[a] /\ loc'[a] = loc[a]
    BY <1>9, <1>a DEF BecomeMuted, Leave, TypeOK
  <2> QED
    BY <1>9, <2>1 DEF BecomeMuted, MutedIsHeld
<1>10. CASE BatchLimit(s)
  <2>1. cur[s] \in Actor /\ loc[cur[s]] = "running"
    BY Zenon, <1>10, <1>a DEF BatchLimit
  <2>2. \A a \in Actor : "muted" \in flags'[a] <=> "muted" \in flags[a]
    BY Zenon, <1>10 DEF BatchLimit, TypeOK
  <2>3. \A a \in Actor : loc'[a] = "held" <=> loc[a] = "held"
    BY Zenon, <1>10, <2>1 DEF BatchLimit, Leave, TypeOK
  <2> QED
    BY <1>10, <1>b, <2>2, <2>3 DEF BatchLimit
<1>11. CASE EndRun(s)
  <2>1. cur[s] \in Actor /\ loc[cur[s]] = "running"
    BY <1>11, <1>a DEF EndRun
  <2>2. \A a \in Actor : loc'[a] = "held" <=> loc[a] = "held"
    BY <1>11, <2>1 DEF EndRun, Leave, TypeOK
  <2> QED
    BY <1>11, <1>b, <2>2 DEF EndRun
<1> QED
  BY <1>s, <1>1, <1>2, <1>3, <1>4, <1>5, <1>6, <1>7, <1>8, <1>9, <1>10, <1>11

-----------------------------------------------------------------------------
(* Only a send adds to a mute map: the sender, under a receiver that       *)
(* triggers muting.                                                        *)
LEMMA MapStep ==
  ASSUME IInv, [Next]_vars, NEW u \in Sched, NEW r \in Actor, NEW a,
         a \in mutemap'[u][r], a \notin mutemap[u][r]
  PROVE  Send(u) /\ a = cur[u] /\ ShouldMute(a, r)
<1>1. mutemap \in [Sched -> [Actor -> SUBSET Actor]]
  BY Zenon DEF IInv, TypeOK
<1>2. mutemap' # mutemap
  BY Zenon
<1>3. ASSUME NEW s \in Sched, ReadMsg(s)
      PROVE  FALSE
  <2>1. mutemap' = [mutemap EXCEPT ![s][Head(mq[s])] = {}]
    BY Zenon, <1>3 DEF ReadMsg
  <2> QED
    BY <1>1, <2>1
<1>4. ASSUME NEW s \in Sched, Send(s)
      PROVE  Send(u) /\ a = cur[u] /\ ShouldMute(a, r)
  <2>1. PICK q \in Actor \ {cur[s]} :
          IF ShouldMute(cur[s], q) /\ cur[s] \notin mutemap[s][q]
            THEN mutemap' = [mutemap EXCEPT ![s][q] = @ \cup {cur[s]}]
            ELSE mutemap' = mutemap
    BY Zenon, <1>4 DEF Send
  <2>2. ShouldMute(cur[s], q) /\ mutemap' = [mutemap EXCEPT ![s][q] = @ \cup {cur[s]}]
    BY Zenon, <1>2, <2>1
  <2>3. u = s /\ r = q /\ a = cur[s]
    BY <1>1, <2>2
  <2> QED
    BY Zenon, <1>4, <2>2, <2>3
<1>5. \E s \in Sched : Send(s) \/ ReadMsg(s)
  BY ZenonT(40), <1>2 DEF Next, vars, CountActive, Notify, NotifyPinned, RescheduleUnmuted,
     Take, Suspend, Wake, Push, Apply, Release, BecomeMuted, BatchLimit, Drained, EndRun
<1> QED
  BY Zenon, <1>3, <1>4, <1>5

(* A scheduler does not sleep on a mute map with anybody in it.            *)
LEMMA AsleepStep == IInv /\ [Next]_vars => AsleepHoldsNone'
<1> SUFFICES ASSUME IInv, [Next]_vars PROVE AsleepHoldsNone'
  BY Zenon
<1>1. ASSUME NEW s \in Sched, NEW r \in Actor, mutemap'[s][r] # {}
      PROVE  mutemap[s][r] # {} \/ Send(s)
  <2>1. PICK a : a \in mutemap'[s][r]
    BY Zenon, <1>1
  <2> QED
    BY Zenon, <2>1, MapStep
<1>2. ASSUME NEW s \in Sched, pc'[s] = "asleep", pc[s] # "asleep"
      PROVE  Suspend(s)
  <2>1. CASE UNCHANGED vars
    BY <1>2, <2>1 DEF vars
  <2>2. ASSUME NEW u \in Sched, Suspend(u) PROVE u = s
    BY SMTT(40), <1>2, <2>2 DEF Suspend, IInv, TypeOK
  <2>3. ASSUME NEW u \in Sched,
          \E what \in {"notify", "announce", "run", "push", "read", "ended"} :
            pc' = [pc EXCEPT ![u] = what]
        PROVE FALSE
    BY Zenon, <1>2, <2>3 DEF IInv, TypeOK
  <2>a. ASSUME NEW u \in Sched,
          CountActive(u) \/ RescheduleUnmuted(u) \/ Take(u) \/ Wake(u) \/ Send(u) \/ Push(u)
        PROVE FALSE
    BY Zenon, <2>3, <2>a DEF CountActive, RescheduleUnmuted, Announce, Take, Wake, Send, Push
  <2>b. ASSUME NEW u \in Sched, BecomeMuted(u) \/ BatchLimit(u) \/ EndRun(u)
        PROVE FALSE
    BY Zenon, <2>3, <2>b DEF BecomeMuted, BatchLimit, EndRun, Leave
  <2>c. ASSUME NEW u \in Sched, Notify(u) \/ ReadMsg(u) \/ Apply(u)
        PROVE FALSE
    BY <1>2, <2>c DEF Notify, ReadMsg, Apply
  <2>4. ASSUME NEW u \in Sched, NotifyPinned(u) PROVE FALSE
    BY Zenon, <1>2, <2>4 DEF NotifyPinned, IInv, TypeOK
  <2>5. ASSUME NEW u \in Sched, Release(u) PROVE FALSE
    BY <1>2, <2>5 DEF Release, Announce, IInv, TypeOK
  <2>6. ASSUME NEW u \in Sched, Drained(u) PROVE FALSE
    BY <1>2, <2>6 DEF Drained, Announce, IInv, TypeOK
  <2> QED
    BY <2>1, <2>2, <2>a, <2>b, <2>c, <2>4, <2>5, <2>6 DEF Next
<1>3. ASSUME NEW s \in Sched, NEW r \in Actor, pc'[s] = "asleep"
      PROVE  mutemap'[s][r] = {}
  <2>1. CASE pc[s] = "asleep"
    <3>1. ~Send(s)
      BY Zenon, <2>1 DEF Send
    <3> QED
      BY Zenon, <1>1, <2>1, <3>1 DEF IInv, AsleepHoldsNone, Awake
  <2>2. CASE pc[s] # "asleep"
    BY Zenon, <1>2, <1>3, <2>2 DEF Suspend
  <2> QED
    BY Zenon, <2>1, <2>2
<1> QED
  BY SMTT(40), <1>3 DEF AsleepHoldsNone, Awake

-----------------------------------------------------------------------------
(* Steps that leave a queue and every announcement under way alone.        *)
LEMMA WayFrame ==
  ASSUME NEW u \in Sched, NEW r \in Actor, OnItsWay(u, r), mq'[u] = mq[u],
         \A v \in Sched : pc[v] \in {"announce", "notify"} =>
           pc'[v] = pc[v] /\ who'[v] = who[v] /\ to'[v] = to[v]
  PROVE  OnItsWay(u, r)'
<1>1. CASE \E i \in 1..Len(mq[u]) : mq[u][i] = r
  BY Zenon, <1>1 DEF OnItsWay
<1>2. ASSUME NEW v \in Sched, who[v] = r,
             pc[v] = "announce" \/ (pc[v] = "notify" /\ (u \in to[v] \/ u = Pinned))
      PROVE  OnItsWay(u, r)'
  <2>1. pc'[v] = pc[v] /\ who'[v] = r /\ to'[v] = to[v]
    BY Zenon, <1>2
  <2> QED
    BY Zenon, <1>2, <2>1 DEF OnItsWay
<1> QED
  BY Zenon, <1>1, <1>2 DEF OnItsWay

(* An announcement on its way to a scheduler that is awake stays on its    *)
(* way, until the scheduler has read it and emptied the receiver's entry.  *)
LEMMA WayStep ==
  ASSUME IInv, [Next]_vars, NEW u \in Sched, NEW r \in Actor, OnItsWay(u, r), Awake(u)
  PROVE  OnItsWay(u, r)' \/ mutemap'[u][r] = {}
<1>a. /\ mq \in [Sched -> Seq(Actor)] /\ to \in [Sched -> SUBSET Sched]
      /\ who \in [Sched -> Actor \cup {None}] /\ mutemap \in [Sched -> [Actor -> SUBSET Actor]]
  BY Zenon DEF IInv, TypeOK
<1>b. DOMAIN pc = Sched /\ DOMAIN who = Sched /\ DOMAIN to = Sched /\ DOMAIN mq = Sched
  BY DEF IInv, TypeOK
<1>c. pc \in [Sched -> {"read", "run", "push", "ended", "announce", "notify", "asleep"}]
  BY Zenon DEF IInv, TypeOK
<1>w. ASSUME NEW v \in Sched, who[v] = r, pc[v] \in {"announce", "notify"}, who'[v] = who[v],
             pc'[v] = "announce" \/ (pc'[v] = "notify" /\ (u \in to'[v] \/ u = Pinned))
      PROVE  OnItsWay(u, r)'
  BY Zenon, <1>w DEF OnItsWay
<1>q. ASSUME NEW w \in Actor, mq'[u] = mq[u] \/ mq'[u] = Append(mq[u], w),
             \E i \in 1..Len(mq[u]) : mq[u][i] = r
      PROVE  OnItsWay(u, r)'
  <2>1. mq[u] \in Seq(Actor)
    BY Zenon, <1>a
  <2>2. \E i \in 1..Len(mq'[u]) : mq'[u][i] = r
    BY <1>q, <2>1, StaysOnAppend
  <2> QED
    BY Zenon, <2>2 DEF OnItsWay
<1>1. ASSUME NEW s \in Sched, CountActive(s)
      PROVE  OnItsWay(u, r)'
  <2>1. /\ pc[s] = "announce" /\ pc'[s] = "notify" /\ who' = who /\ mq' = mq
        /\ to'[s] = {v \in Sched \ {Pinned} : Awake(v)}
    BY Zenon, <1>1, <1>b DEF CountActive
  <2>2. \A v \in Sched \ {s} : pc'[v] = pc[v] /\ to'[v] = to[v]
    BY Zenon, <1>1, <1>b DEF CountActive
  <2>3. u \in to'[s] \/ u = Pinned
    BY Zenon, <2>1
  <2>4. CASE who[s] = r
    BY Zenon, <1>w, <2>1, <2>3, <2>4
  <2>5. CASE who[s] # r
    <3>1. ASSUME NEW v \in Sched, who[v] = r,
                 pc[v] = "announce" \/ (pc[v] = "notify" /\ (u \in to[v] \/ u = Pinned))
          PROVE  OnItsWay(u, r)'
      <4>1. pc'[v] = pc[v] /\ to'[v] = to[v]
        BY Zenon, <2>2, <2>5, <3>1
      <4> QED
        BY Zenon, <2>1, <3>1, <4>1 DEF OnItsWay
    <3> QED
      BY Zenon, <2>1, <3>1 DEF OnItsWay
  <2> QED
    BY Zenon, <2>4, <2>5
<1>2. ASSUME NEW s \in Sched, Notify(s)
      PROVE  OnItsWay(u, r)'
  <2>1. PICK w \in to[s] : /\ mq' = [mq EXCEPT ![w] = Append(@, who[s])]
                           /\ to' = [to EXCEPT ![s] = @ \ {w}]
    BY Zenon, <1>2 DEF Notify
  <2>2. who' = who /\ pc' = pc /\ w \in Sched
    BY Zenon, <1>2, <1>a DEF Notify
  <2>3. who[s] \in Actor
    BY Zenon, <1>2 DEF Notify, IInv, Control, ThreadOK
  <2>4. /\ mq'[u] = IF u = w THEN Append(mq[u], who[s]) ELSE mq[u]
        /\ \A v \in Sched : to'[v] = IF v = s THEN to[v] \ {w} ELSE to[v]
    BY Zenon, <2>1, <2>2, <1>b
  <2>5. CASE \E i \in 1..Len(mq[u]) : mq[u][i] = r
    BY Zenon, <1>q, <2>3, <2>4, <2>5
  <2>6. ASSUME NEW v \in Sched, who[v] = r, pc[v] = "notify", u \in to[v] \/ u = Pinned
        PROVE  OnItsWay(u, r)'
    <3>1. CASE u \in to'[v] \/ u = Pinned
      BY Zenon, <2>2, <2>6, <3>1 DEF OnItsWay
    <3>2. CASE v = s /\ u = w
      <4>1. mq[u] \in Seq(Actor) /\ mq'[u] = Append(mq[u], r)
        BY Zenon, <1>a, <2>4, <2>6, <3>2
      <4>2. \E i \in 1..Len(mq'[u]) : mq'[u][i] = r
        BY <4>1, AppendedIsThere
      <4> QED
        BY Zenon, <4>2 DEF OnItsWay
    <3> QED
      BY Zenon, <2>4, <2>6, <3>1, <3>2
  <2>7. ASSUME NEW v \in Sched, who[v] = r, pc[v] = "announce"
        PROVE  OnItsWay(u, r)'
    BY Zenon, <2>2, <2>7 DEF OnItsWay
  <2> QED
    BY Zenon, <2>5, <2>6, <2>7 DEF OnItsWay
<1>3. ASSUME NEW s \in Sched, NotifyPinned(s)
      PROVE  OnItsWay(u, r)'
  <2>1. pc[s] = "notify" /\ to[s] = {} /\ to' = to
    BY Zenon, <1>3 DEF NotifyPinned
  <2>2. who[s] \in Actor
    BY Zenon, <2>1 DEF IInv, Control, ThreadOK
  <2>3. \A v \in Sched \ {s} : pc'[v] = pc[v] /\ who'[v] = who[v]
    BY Zenon, <1>3, <1>b DEF NotifyPinned
  <2>4. /\ mq'[u] = mq[u] \/ mq'[u] = Append(mq[u], who[s])
        /\ u = Pinned => mq'[u] = Append(mq[u], who[s])
    BY Zenon, <1>3, <1>b DEF NotifyPinned
  <2>5. CASE \E i \in 1..Len(mq[u]) : mq[u][i] = r
    BY Zenon, <1>q, <2>2, <2>4, <2>5
  <2>6. ASSUME NEW v \in Sched, who[v] = r,
               pc[v] = "announce" \/ (pc[v] = "notify" /\ (u \in to[v] \/ u = Pinned))
        PROVE  OnItsWay(u, r)'
    <3>1. CASE v = s
      <4>1. mq[u] \in Seq(Actor) /\ mq'[u] = Append(mq[u], r)
        BY Zenon, <1>a, <2>1, <2>4, <2>6, <3>1
      <4>2. \E i \in 1..Len(mq'[u]) : mq'[u][i] = r
        BY <4>1, AppendedIsThere
      <4> QED
        BY Zenon, <4>2 DEF OnItsWay
    <3>2. CASE v # s
      <4>1. pc'[v] = pc[v] /\ who'[v] = who[v] /\ to'[v] = to[v]
        BY Zenon, <2>1, <2>3, <3>2
      <4> QED
        BY Zenon, <2>6, <4>1 DEF OnItsWay
    <3> QED
      BY Zenon, <3>1, <3>2
  <2> QED
    BY Zenon, <2>5, <2>6 DEF OnItsWay
<1>4. ASSUME NEW s \in Sched, ReadMsg(s), mutemap'[u][r] # {}
      PROVE  OnItsWay(u, r)'
  <2>1. /\ mutemap' = [mutemap EXCEPT ![s][Head(mq[s])] = {}]
        /\ mq' = [mq EXCEPT ![s] = Tail(@)] /\ mq[s] # <<>>
        /\ UNCHANGED <<pc, who, to>>
    BY Zenon, <1>4 DEF ReadMsg, sends
  <2>2. ~(u = s /\ r = Head(mq[s]))
    BY Zenon, <1>4, <1>a, <2>1
  <2>3. mq'[u] = IF u = s THEN Tail(mq[u]) ELSE mq[u]
    BY Zenon, <1>b, <2>1
  <2>4. CASE u # s
    BY Zenon, <2>1, <2>3, <2>4, WayFrame
  <2>5. CASE u = s
    <3>1. mq[u] \in Seq(Actor) /\ mq[u] # <<>> /\ r # Head(mq[u]) /\ mq'[u] = Tail(mq[u])
      BY Zenon, <1>a, <2>1, <2>2, <2>3, <2>5
    <3>2. CASE \E i \in 1..Len(mq[u]) : mq[u][i] = r
      <4>1. \E i \in 1..Len(Tail(mq[u])) : Tail(mq[u])[i] = r
        BY Zenon, <3>1, <3>2, StaysInTail
      <4> QED
        BY Zenon, <3>1, <4>1 DEF OnItsWay
    <3> QED
      BY Zenon, <2>1, <3>2 DEF OnItsWay
  <2> QED
    BY Zenon, <2>4, <2>5
<1>f. ASSUME NEW s \in Sched, pc[s] \notin {"announce", "notify"}, mq' = mq, to' = to,
             \A v \in Sched \ {s} : pc'[v] = pc[v] /\ who'[v] = who[v]
      PROVE  OnItsWay(u, r)'
  BY Zenon, <1>f, WayFrame
<1>g. ASSUME NEW s \in Sched, NEW p, NEW w, mq' = mq, to' = to, pc[s] \notin {"announce", "notify"},
             pc' = pc \/ pc' = [pc EXCEPT ![s] = p],
             who' = who \/ who' = [who EXCEPT ![s] = w]
      PROVE  OnItsWay(u, r)'
  <2>1. \A v \in Sched \ {s} : pc'[v] = pc[v] /\ who'[v] = who[v]
    BY Zenon, <1>g, <1>b
  <2> QED
    BY Zenon, <1>f, <1>g, <2>1
<1>5. ASSUME NEW s \in Sched, RescheduleUnmuted(s)
      PROVE  OnItsWay(u, r)'
  <2>1. PICK a : Announce(s, a, "read")
    BY Zenon, <1>5 DEF RescheduleUnmuted
  <2>2. pc[s] = "read" /\ mq' = mq
    BY Zenon, <1>5 DEF RescheduleUnmuted
  <2> QED
    BY Zenon, <1>g, <2>1, <2>2 DEF Announce
<1>6. ASSUME NEW s \in Sched, Take(s) \/ Suspend(s) \/ Wake(s) \/ Push(s) \/ Apply(s)
      PROVE  OnItsWay(u, r)'
  BY Zenon, <1>6, <1>g DEF Take, Suspend, Wake, Push, Apply, sends
<1>7. ASSUME NEW s \in Sched, Send(s)
      PROVE  OnItsWay(u, r)'
  <2>1. PICK q : who' = [who EXCEPT ![s] = q]
    BY Zenon, <1>7 DEF Send
  <2>2. pc[s] = "run" /\ pc' = [pc EXCEPT ![s] = "push"] /\ mq' = mq /\ to' = to
    BY Zenon, <1>7 DEF Send
  <2> QED
    BY Zenon, <1>g, <2>1, <2>2
<1>8. ASSUME NEW s \in Sched, Release(s) \/ Drained(s)
      PROVE  OnItsWay(u, r)'
  <2>1. pc[s] = "run" /\ mq' = mq
    BY Zenon, <1>8 DEF Release, Drained
  <2>2. CASE \E then : Announce(s, cur[s], then)
    BY Zenon, <1>g, <2>1, <2>2 DEF Announce
  <2>3. CASE UNCHANGED sends /\ (pc' = pc \/ pc' = [pc EXCEPT ![s] = "ended"])
    BY Zenon, <1>g, <2>1, <2>3 DEF sends
  <2> QED
    BY Zenon, <1>8, <2>2, <2>3 DEF Release, Drained
<1>9. ASSUME NEW s \in Sched, BecomeMuted(s) \/ BatchLimit(s) \/ EndRun(s)
      PROVE  OnItsWay(u, r)'
  <2>1. pc[s] \in {"run", "ended"} /\ mq' = mq /\ UNCHANGED sends /\ pc' = [pc EXCEPT ![s] = "read"]
    BY Zenon, <1>9 DEF BecomeMuted, BatchLimit, EndRun, Leave
  <2> QED
    BY Zenon, <1>g, <2>1 DEF sends
<1>10. CASE UNCHANGED vars
  BY Zenon, <1>10, WayFrame DEF vars, sends
<1> QED
  BY Zenon, <1>1, <1>2, <1>3, <1>4, <1>5, <1>6, <1>7, <1>8, <1>9, <1>10 DEF Next

(* Who clears the last flag of an actor announces it.                      *)
LEMMA ClearStep ==
  ASSUME IInv, [Next]_vars, NEW r \in Actor, flags[r] # {}, flags'[r] = {}
  PROVE  \E v \in Sched : who'[v] = r /\ pc'[v] = "announce"
<1>a. /\ flags \in [Actor -> SUBSET {"overloaded", "pressure", "muted"}]
      /\ DOMAIN pc = Sched /\ DOMAIN who = Sched /\ DOMAIN flags = Actor
  BY DEF IInv, TypeOK
<1>b. ASSUME NEW s \in Sched, NEW then, Announce(s, r, then)
      PROVE  who'[s] = r /\ pc'[s] = "announce"
  BY Zenon, <1>a, <1>b DEF Announce
<1>c. ASSUME NEW a, NEW f, flags' = [flags EXCEPT ![a] = f]
      PROVE  r = a /\ f = {}
  BY Zenon, <1>a, <1>c
<1>1. ASSUME NEW s \in Sched, RescheduleUnmuted(s)
      PROVE  who'[s] = r /\ pc'[s] = "announce"
  <2>1. PICK a \in stack[s] :
          flags' = [flags EXCEPT ![a] = flags[a] \ {"muted"}] /\ Announce(s, a, "read")
    BY Zenon, <1>1 DEF RescheduleUnmuted
  <2>2. r = a
    BY Zenon, <1>c, <2>1
  <2> QED
    BY Zenon, <1>b, <2>1, <2>2
<1>2. ASSUME NEW s \in Sched, Apply(s) \/ BecomeMuted(s) \/ BatchLimit(s)
      PROVE  FALSE
  <2>1. PICK x : flags' = [flags EXCEPT ![cur[s]] = flags[cur[s]] \cup {x}]
    BY Zenon, <1>2 DEF Apply, BecomeMuted, BatchLimit
  <2>2. flags[cur[s]] \cup {x} = {}
    BY Zenon, <1>c, <2>1
  <2> QED
    BY Zenon, <2>2
<1>3. ASSUME NEW s \in Sched, Release(s)
      PROVE  who'[s] = r /\ pc'[s] = "announce"
  <2>1. flags' = [flags EXCEPT ![cur[s]] = flags[cur[s]] \ {"pressure"}]
    BY Zenon, <1>3 DEF Release
  <2>2. r = cur[s] /\ flags[cur[s]] \ {"pressure"} = {}
    BY Zenon, <1>c, <2>1
  <2>3. "overloaded" \notin flags[cur[s]]
    BY <2>2
  <2> QED
    BY Zenon, <1>3, <1>b, <2>2, <2>3 DEF Release
<1>4. ASSUME NEW s \in Sched, Drained(s)
      PROVE  who'[s] = r /\ pc'[s] = "announce"
  <2>1. flags' = [flags EXCEPT ![cur[s]] = flags[cur[s]] \ {"overloaded"}]
    BY Zenon, <1>4 DEF Drained
  <2>2. r = cur[s] /\ flags[r] \ {"overloaded"} = {}
    BY Zenon, <1>c, <2>1
  <2>3. PICK f \in flags[r] : TRUE
    BY Zenon
  <2>4. f = "overloaded"
    BY Zenon, <2>2
  <2>5. "overloaded" \in flags[cur[s]] /\ "pressure" \notin flags[cur[s]]
    BY <2>2, <2>3, <2>4
  <2> QED
    BY Zenon, <1>4, <1>b, <2>2, <2>5 DEF Drained
<1>5. \E s \in Sched : \/ RescheduleUnmuted(s) \/ Apply(s) \/ BecomeMuted(s) \/ BatchLimit(s)
                       \/ Release(s) \/ Drained(s)
  BY ZenonT(40) DEF Next, vars, actors, CountActive, Notify, NotifyPinned, ReadMsg,
     Take, Suspend, Wake, Send, Push, EndRun
<1> QED
  BY Zenon, <1>1, <1>2, <1>3, <1>4, <1>5

(* No step loses a sender in a mute map.                                   *)
LEMMA LostStep == IInv /\ [Next]_vars => NoLostUnmute'
<1> SUFFICES ASSUME IInv, [Next]_vars, NEW u \in Sched, NEW r \in Actor, mutemap'[u][r] # {},
                    flags'[r] = {}
             PROVE  OnItsWay(u, r)'
  BY Zenon DEF NoLostUnmute
<1>1. CASE flags[r] # {}
  BY Zenon, <1>1, ClearStep DEF OnItsWay
<1>2. CASE flags[r] = {}
  <2>1. PICK a : a \in mutemap'[u][r]
    BY Zenon
  <2>2. a \in mutemap[u][r]
    BY Zenon, <1>2, <2>1, MapStep DEF ShouldMute
  <2>3. OnItsWay(u, r) /\ Awake(u)
    BY Zenon, <1>2, <2>2 DEF IInv, NoLostUnmute, AsleepHoldsNone
  <2> QED
    BY Zenon, <2>3, WayStep
<1> QED
  BY Zenon, <1>1, <1>2

(* No step closes a ring: only an actor with no flag set can start to wait *)
(* for another, and whoever waits for that actor is being told.            *)
LEMMA RingStep == IInv /\ NoRing /\ [Next]_vars => NoRing'
<1> SUFFICES ASSUME IInv, NoRing, [Next]_vars PROVE NoRing'
  OBVIOUS
<1>1. ASSUME NEW s \in Sched, NEW a \in Actor, a \in mutemap'[s][a]
      PROVE  FALSE
  BY Zenon, <1>1, MapStep DEF NoRing, ShouldMute
<1>2. ASSUME NEW ring \in SUBSET Actor, NEW a \in ring,
             \A s \in Sched, r \in ring : a \in mutemap[s][r] => OnItsWay(s, r),
             \A s \in Sched, r \in ring : a \in mutemap'[s][r] => a \in mutemap[s][r]
      PROVE  \A s \in Sched, r \in ring : a \in mutemap'[s][r] => OnItsWay(s, r)'
  <2> SUFFICES ASSUME NEW s \in Sched, NEW r \in ring, a \in mutemap'[s][r]
               PROVE  OnItsWay(s, r)'
    BY Zenon
  <2>1. r \in Actor
    BY Zenon
  <2>2. a \in mutemap[s][r]
    BY Zenon, <1>2
  <2>3. OnItsWay(s, r) /\ Awake(s)
    BY Zenon, <1>2, <2>1, <2>2 DEF IInv, AsleepHoldsNone
  <2> QED
    BY Zenon, <2>1, <2>3, WayStep
<1>3. ASSUME NEW ring \in (SUBSET Actor) \ {{}}
      PROVE  \E a \in ring : \A s \in Sched, r \in ring : a \in mutemap'[s][r] => OnItsWay(s, r)'
  <2>1. PICK a \in ring : \A s \in Sched, r \in ring : a \in mutemap[s][r] => OnItsWay(s, r)
    BY Zenon DEF NoRing
  <2>2. CASE \A s \in Sched, r \in ring : a \in mutemap'[s][r] => a \in mutemap[s][r]
    BY Zenon, <1>2, <2>1, <2>2
  <2>3. ASSUME NEW s \in Sched, NEW q \in ring, a \in mutemap'[s][q], a \notin mutemap[s][q]
        PROVE  \E b \in ring : \A u \in Sched, r \in ring : b \in mutemap'[u][r] => OnItsWay(u, r)'
    <3>0. q \in Actor /\ a \in Actor
      BY Zenon
    <3>1. Send(s) /\ a = cur[s] /\ ShouldMute(a, q)
      BY Zenon, <2>3, <3>0, MapStep
    <3>2. flags[a] = {}
      <4>1. loc[a] = "running"
        BY Zenon, <3>1 DEF Send, IInv, Control, ThreadOK, InRun
      <4>2. "muted" \notin flags[a] /\ flags[a] \subseteq {"overloaded", "pressure", "muted"}
        BY <3>0, <4>1 DEF IInv, MutedIsHeld, TypeOK
      <4> QED
        BY Zenon, <3>1, <4>2 DEF ShouldMute
    <3>3. ring \ {a} \in (SUBSET Actor) \ {{}}
      BY Zenon, <3>1 DEF ShouldMute
    <3>4. PICK b \in ring \ {a} :
            \A u \in Sched, r \in ring \ {a} : b \in mutemap[u][r] => OnItsWay(u, r)
      BY Zenon, <3>3 DEF NoRing
    <3>5. \A u \in Sched : b \in mutemap[u][a] => OnItsWay(u, a)
      BY Zenon, <3>0, <3>2 DEF IInv, NoLostUnmute
    <3>6. \A u \in Sched, r \in ring : b \in mutemap[u][r] => OnItsWay(u, r)
      BY Zenon, <3>4, <3>5
    <3>7. ASSUME NEW u \in Sched, NEW r \in ring, b \in mutemap'[u][r], b \notin mutemap[u][r]
          PROVE  FALSE
      <4>1. Send(u) /\ b = cur[u]
        BY Zenon, <3>7, MapStep
      <4>2. u # s
        BY Zenon, <3>1, <3>4, <4>1
      <4>3. pc[u] = "run" /\ pc' = [pc EXCEPT ![s] = "push"] /\ pc' = [pc EXCEPT ![u] = "push"]
        BY Zenon, <3>1, <4>1 DEF Send
      <4> QED
        BY <4>2, <4>3 DEF IInv, TypeOK
    <3> QED
      BY Zenon, <1>2, <3>4, <3>6, <3>7
  <2> QED
    BY Zenon, <2>2, <2>3
<1> QED
  BY Zenon, <1>1, <1>3 DEF NoRing

-----------------------------------------------------------------------------
(* The invariant holds when the runtime starts.                            *)
LEMMA InitInv ==
  ASSUME FiniteFacts
  PROVE  Init => IInv
<1> SUFFICES ASSUME Init PROVE IInv
  OBVIOUS
<1>1. app \in [Sched -> BOOLEAN]
  BY Zenon DEF Init
<1>2. TypeOK
  BY <1>1 DEF Init, TypeOK
<1>3. Control
  BY Zenon DEF Init, Control, ThreadOK, InRun, Finishing
<1>4. Ownership /\ MutedIsHeld /\ AsleepHoldsNone /\ NoLostUnmute
  BY Zenon DEF Init, Ownership, MutedIsHeld, AsleepHoldsNone, NoLostUnmute
<1>5. \A a \in Actor : Waits(a) = {} /\ muted[a] = 0
  BY Zenon DEF Init, Waits
<1>6. MuteCountExact
  BY Zenon, <1>5 DEF FiniteFacts, NoElement, MuteCountExact
<1> QED
  BY <1>2, <1>3, <1>4, <1>6 DEF IInv

-----------------------------------------------------------------------------
INSTANCE FiniteSetTheorems

(* What the lemmas assume of finite sets is so.                            *)
LEMMA Finite == FiniteFacts
<1>1. NoElement /\ OneElement
  BY Zenon, FS_EmptySet, FS_Singleton DEF NoElement, OneElement
<1>2. AddElement /\ RemoveElement
  BY Zenon, FS_AddElement, FS_RemoveElement DEF AddElement, RemoveElement
<1>3. Parts
  BY Zenon, FS_Subset DEF Parts
<1>4. SizeIsNat
  BY Zenon, FS_CardinalityType DEF SizeIsNat
<1>5. Interval
  BY FS_Interval DEF Interval
<1>6. Pairs
  BY Zenon, FS_Product DEF Pairs
<1>7. SameSize
  <2> SUFFICES ASSUME NEW S, NEW T, NEW f \in [S -> T], IsFiniteSet(S),
                      \A i, j \in S : f[i] = f[j] => i = j,
                      \A j \in T : \E i \in S : f[i] = j
               PROVE  IsFiniteSet(T) /\ Cardinality(T) = Cardinality(S)
    BY Zenon DEF SameSize
  <2>1. ExistsBijection(S, T)
    BY Zenon DEF ExistsBijection, Bijection, Injection, Surjection, IsInjective
  <2> QED
    BY Zenon, <2>1, FS_Bijection
<1> QED
  BY Zenon, <1>1, <1>2, <1>3, <1>4, <1>5, <1>6, <1>7 DEF FiniteFacts

(* The invariant holds throughout.                                         *)
THEOREM Invariance == Spec => []IInv
<1>1. Init => IInv
  BY Zenon, Finite, InitInv
<1>2. IInv /\ [Next]_vars => IInv'
  BY Zenon, Finite, TypeStep, ControlStep, OwnershipStep, CountStep, HeldStep, AsleepStep,
     LostStep DEF IInv
<1> QED
  BY <1>1, <1>2, PTL DEF Spec

(* The state keeps its types; above all, no mute count goes below zero     *)
(* (the assertion muted->muted > 0 in ponyint_sched_unmute_senders).       *)
THEOREM TypeCorrect == Spec => []TypeOK
<1>1. IInv => TypeOK
  BY DEF IInv
<1> QED
  BY Invariance, <1>1, PTL

(* However flags are cleared, schedulers sleep and wake, and announcements *)
(* overtake each other, nobody waits in a mute map for a receiver that     *)
(* has recovered and whose announcement is not on its way there.           *)
THEOREM UnmuteNeverLost == Spec => []NoLostUnmute
<1>1. IInv => NoLostUnmute
  BY DEF IInv
<1> QED
  BY Invariance, <1>1, PTL

(* An actor waits at one scheduler, and its count is the number of the     *)
(* receivers it waits for: what makes the unlocked count safe.             *)
THEOREM CountsExact == Spec => []MuteCountExact
<1>1. IInv => MuteCountExact
  BY DEF IInv
<1> QED
  BY Invariance, <1>1, PTL

(* A muted actor is never queued or run, and is never forgotten.           *)
THEOREM MutedNeverRuns == Spec => []MutedIsHeld
<1>1. IInv => MutedIsHeld
  BY DEF IInv
<1> QED
  BY Invariance, <1>1, PTL

(* Actors never wait for each other in a ring, whatever the interleaving   *)
(* of sends, of flags set and cleared, and of announcements: why           *)
(* maybe_mark_should_mute never mutes an overloaded or pressured sender.   *)
THEOREM NoDeadlock == Spec => []NoMuteCycle
<1>1. Init => NoRing
  <2> SUFFICES ASSUME Init PROVE NoRing
    BY Zenon
  <2>1. \A s \in Sched, a \in Actor : mutemap[s][a] = {}
    BY Zenon DEF Init
  <2>2. ASSUME NEW ring \in (SUBSET Actor) \ {{}}
        PROVE  \E a \in ring : \A s \in Sched, r \in ring : a \in mutemap[s][r] => OnItsWay(s, r)
    <3>1. PICK a \in ring : TRUE
      BY Zenon
    <3>2. \A s \in Sched, r \in ring : a \notin mutemap[s][r]
      BY Zenon, <2>1
    <3> QED
      BY Zenon, <3>2
  <2> QED
    BY Zenon, <2>1, <2>2 DEF NoRing
<1>2. ASSUME NoRing PROVE NoMuteCycle
  <2> SUFFICES ASSUME NEW ring \in (SUBSET Actor) \ {{}}
               PROVE  \E a \in ring :
                        \A s \in Sched, r \in ring : a \in mutemap[s][r] => OnItsWay(s, r)
    BY Zenon DEF NoMuteCycle
  <2> QED
    BY Zenon, <1>2 DEF NoRing
<1> QED
  BY Invariance, RingStep, <1>1, <1>2, PTL DEF Spec
=============================================================================
