-------------------------- MODULE QuiescenceRounds --------------------------
(***************************************************************************)
(* Lemmas for the proofs about Quiescence: the schedulers where no actor is*)
(* pinned, and the rounds of CNF and ACK.                                  *)
(***************************************************************************)
EXTENDS QuiescenceTypes

(***************************************************************************)
(* Where no actor is ever pinned, it is the schedulers that run actors.    *)
(***************************************************************************)
LEMMA NobodyPinned ==
  ASSUME MayPin = {}, Typed, Control, Unpinned
  PROVE  /\ pinned = {}
         /\ \A t \in Thread : pc[t] \in {"actor", "noisy", "unnoisy"} => t \in Sched /\ cur[t] # None
<1>1. pinned = {}
  BY Zenon, TypedParts DEF Places0
<1>2. \A t \in Thread : pc[t] \in {"actor", "noisy", "unnoisy"} => t \in Sched /\ cur[t] # None
  BY SMT, Threads DEF Control, Unpinned
<1> QED
  BY Zenon, <1>1, <1>2

(* The pinned-actor thread runs nothing.                                   *)
LEMMA UnpinnedStep ==
  ASSUME MayPin = {}, Typed, Control, Unpinned, [Next]_vars
  PROVE  Unpinned'
<1>0. /\ pinned = {}
      /\ \A t \in Thread : pc[t] \in {"actor", "noisy", "unnoisy"} => t \in Sched /\ cur[t] # None
  BY Zenon, NobodyPinned
<1>1. P \in Thread /\ (\A t \in Sched : t \in Thread /\ t # P) /\ 0 \in Sched /\ \E S : pc \in [Thread -> S]
  BY Zenon, Threads, TypedParts DEF Flags0
<1>k. pc' = pc => Unpinned'
  BY Zenon DEF Unpinned
<1>m. ASSUME NEW t \in Sched, NEW l, pc' = [pc EXCEPT ![t] = l] \/ GotoAndWakePinned(t, l) PROVE Unpinned'
  <2>1. pc'[P] \in {pc[P], "top"}
    BY Zenon, <1>1, <1>m DEF GotoAndWakePinned
  <2> QED
    BY SMT, <2>1 DEF Unpinned
<1>p. ASSUME NEW l, l \notin {"actor", "noisy", "unnoisy"}, pc' = [pc EXCEPT ![P] = l] PROVE Unpinned'
  BY Zenon, <1>1, <1>p DEF Unpinned
<1>2. ASSUME UNCHANGED vars PROVE Unpinned'
  BY Zenon, <1>2, <1>k DEF vars
<1>3. ASSUME NEW t \in Thread, Send(t) PROVE Unpinned'
  BY Zenon, <1>3, <1>k DEF Send
<1>4. ASSUME NEW t \in Thread, Pin(t) PROVE Unpinned'
  BY Zenon, <1>4, <1>k DEF Pin
<1>5. ASSUME NEW t \in Thread, Subscribe(t) PROVE Unpinned'
  <2>1. pc[t] \in {"actor", "noisy", "unnoisy"} /\ \E l : pc' = [pc EXCEPT ![t] = l]
    BY <1>5 DEF Subscribe, Goto
  <2> QED
    BY Zenon, <1>0, <1>m, <2>1
<1>6. ASSUME NEW t \in Thread, EventDestroy(t) PROVE Unpinned'
  <2>1. pc[t] \in {"actor", "noisy", "unnoisy"} /\ \E l : pc' = [pc EXCEPT ![t] = l]
    BY <1>6 DEF EventDestroy, Goto
  <2> QED
    BY Zenon, <1>0, <1>m, <2>1
<1>7. ASSUME NEW t \in Thread, TellNoisy(t) PROVE Unpinned'
  <2>1. pc[t] \in {"actor", "noisy", "unnoisy"} /\ \E l : pc' = [pc EXCEPT ![t] = l]
    BY <1>7 DEF TellNoisy, Goto
  <2> QED
    BY Zenon, <1>0, <1>m, <2>1
<1>8. ASSUME NEW t \in Thread, EndRun(t) PROVE Unpinned'
  <2>1. pc[t] \in {"actor", "noisy", "unnoisy"} /\ \E l : pc' = [pc EXCEPT ![t] = l]
    BY <1>8 DEF EndRun, Goto
  <2> QED
    BY Zenon, <1>0, <1>m, <2>1
<1>9. ASSUME NEW t \in Thread, ReadMsg(t) PROVE Unpinned'
  BY Zenon, <1>9, <1>k DEF ReadMsg
<1>10. ASSUME NEW t \in Sched, Begin(t) PROVE Unpinned'
  BY Zenon, <1>10, <1>k, <1>m DEF Begin, Goto
<1>11. ASSUME NEW t \in Sched, Route(t) PROVE Unpinned'
  BY Zenon, <1>11, <1>0, <1>k, <1>m DEF Route, Goto
<1>12. ASSUME NEW t \in Sched, StealInject(t) PROVE Unpinned'
  BY Zenon, <1>12, <1>k, <1>m DEF StealInject, Goto
<1>13. ASSUME NEW t \in Sched, StealVictim(t) PROVE Unpinned'
  BY Zenon, <1>13, <1>k, <1>m DEF StealVictim, Goto
<1>14. ASSUME NEW t \in Sched, Found(t) PROVE Unpinned'
  BY Zenon, <1>14, <1>0, <1>k, <1>m DEF Found, Goto
<1>15. ASSUME NEW t \in Sched, Quiet(t) PROVE Unpinned'
  BY Zenon, <1>15, <1>k, <1>m DEF Quiet, Goto
<1>16. ASSUME NEW t \in Sched, Again(t) PROVE Unpinned'
  BY Zenon, <1>16, <1>k, <1>m DEF Again, Goto
<1>17. ASSUME NEW t \in Sched, Resume(t) PROVE Unpinned'
  BY Zenon, <1>17, <1>k, <1>m DEF Resume, Goto
<1>18. ASSUME NEW t \in Sched, Block(t) PROVE Unpinned'
  BY Zenon, <1>18, <1>k DEF Block
<1>19. ASSUME NEW t \in Sched, Suspend(t) PROVE Unpinned'
  BY Zenon, <1>19, <1>m DEF Suspend, Goto
<1>20. ASSUME Drowsy PROVE Unpinned'
  BY Zenon, <1>1, <1>20, <1>m DEF Drowsy, Goto
<1>21. ASSUME FallAsleep PROVE Unpinned'
  BY Zenon, <1>1, <1>21, <1>m DEF FallAsleep, Goto
<1>22. ASSUME PinnedRoute PROVE Unpinned'
  <2>1. \E l \in {"done", "route", "idle"} : pc' = [pc EXCEPT ![P] = l]
    BY Zenon, <1>0, <1>22 DEF PinnedRoute, Goto
  <2> QED
    BY <1>p, <2>1
<1>23. ASSUME PinnedIdle PROVE Unpinned'
  BY <1>23, <1>p DEF PinnedIdle, Goto
<1>24. ASSUME Shutdown PROVE Unpinned'
  BY Zenon, <1>24, <1>k DEF Shutdown
<1>25. ASSUME Event PROVE Unpinned'
  BY Zenon, <1>25, <1>k DEF Event
<1>26. ASSUME EventWake PROVE Unpinned'
  BY Zenon, <1>26, <1>k DEF EventWake
<1> QED
  BY Zenon, Steps, <1>2, <1>3, <1>4, <1>5, <1>6, <1>7, <1>8, <1>9, <1>10, <1>11, <1>12, <1>13, <1>14, <1>15, <1>16, <1>17, <1>18, <1>19, <1>20, <1>21, <1>22, <1>23, <1>24, <1>25, <1>26

(* Nothing comes to the pinned-actor thread.                               *)
LEMMA AwayStep ==
  ASSUME MayPin = {}, Typed, Control, Unpinned, Away, [Next]_vars
  PROVE  Away'
<1>0. /\ pinned = {} /\ q[P] = <<>> /\ cur[P] = None
      /\ \A t \in Thread : pc[t] \in {"actor", "noisy", "unnoisy"} => t \in Sched /\ cur[t] # None
  BY Zenon, NobodyPinned DEF Away
<1>1. /\ P \in Thread /\ (\A t \in Sched : t \in Thread /\ t # P) /\ 0 \in Sched
      /\ q \in [Thread -> Seq(Actor)] /\ cur \in [Thread -> Actor \cup {None}] /\ None \notin Actor
  BY Zenon, Threads, TypedParts, QuiescenceAssumption DEF Places0
<1>u. UNCHANGED <<q, cur>> => Away'
  BY Zenon, <1>0 DEF Away
<1>m. q'[P] = q[P] /\ cur'[P] = cur[P] => Away'
  BY Zenon, <1>0 DEF Away
<1>t. ASSUME NEW t \in Sched, NEW m, Took(t, m) PROVE m.q[P] = q[P]
  BY Zenon, <1>1, <1>t DEF Took
<1>2. ASSUME UNCHANGED vars PROVE Away'
  BY Zenon, <1>2, <1>u DEF vars, queues
<1>3. ASSUME NEW t \in Thread, Send(t) PROVE Away'
  <2>1. t \in Sched
    BY Zenon, <1>0, <1>3 DEF Send
  <2>2. PICK a : q' = [q EXCEPT ![t] = Append(@, a)]
    BY Zenon, <1>3 DEF Send
  <2>3. cur' = cur
    BY Zenon, <1>3 DEF Send
  <2> QED
    BY Zenon, <1>1, <1>m, <2>1, <2>2, <2>3
<1>4. ASSUME NEW t \in Thread, Pin(t) PROVE Away'
  BY Zenon, <1>4, <1>u DEF Pin, queues
<1>5. ASSUME NEW t \in Thread, Subscribe(t) PROVE Away'
  BY Zenon, <1>5, <1>u DEF Subscribe, queues
<1>6. ASSUME NEW t \in Thread, EventDestroy(t) PROVE Away'
  BY Zenon, <1>6, <1>u DEF EventDestroy, queues
<1>7. ASSUME NEW t \in Thread, TellNoisy(t) PROVE Away'
  BY Zenon, <1>7, <1>u DEF TellNoisy, queues
<1>8. ASSUME NEW t \in Thread, EndRun(t) PROVE Away'
  <2>1. t \in Sched
    <3>1. pc[t] = "actor"
      BY Zenon, <1>8 DEF EndRun
    <3> QED
      BY Zenon, <1>0, <3>1
  <2>2. PICK m \in {Pop(t), PopGlobal(t)} :
           /\ Took(t, m)
           /\ \/ q' = m.q /\ cur' = [cur EXCEPT ![t] = m.actor]
              \/ q' = [m.q EXCEPT ![t] = Append(@, cur[t])] /\ cur' = [cur EXCEPT ![t] = m.actor]
              \/ q' = m.q /\ cur' = cur
    BY Zenon, <1>8, EndRunCases
  <2>3. m.q[P] = q[P]
    BY Zenon, <1>t, <2>1, <2>2
  <2>4. cur'[P] = cur[P]
    BY Zenon, <1>1, <2>1, <2>2
  <2>5. q'[P] = m.q[P]
    <3>1. m.q \in [Thread -> Seq(Actor)]
      BY Zenon, <1>1, <2>2, TookTyped, TypedParts
    <3> QED
      BY Zenon, <1>1, <2>1, <2>2, <3>1
  <2> QED
    BY Zenon, <1>m, <2>3, <2>4, <2>5
<1>9. ASSUME NEW t \in Thread, ReadMsg(t) PROVE Away'
  BY Zenon, <1>9, <1>u DEF ReadMsg, queues
<1>10. ASSUME NEW t \in Sched, Begin(t) PROVE Away'
  <2>1. Took(t, PopGlobal(t)) /\ q' = PopGlobal(t).q /\ cur' = [cur EXCEPT ![t] = PopGlobal(t).actor]
    BY Zenon, <1>1, <1>10, Takes DEF Begin
  <2>2. q'[P] = q[P]
    BY Zenon, <1>t, <2>1
  <2>3. cur'[P] = cur[P]
    BY Zenon, <1>1, <2>1
  <2> QED
    BY Zenon, <1>m, <2>2, <2>3
<1>11. ASSUME NEW t \in Sched, Route(t) PROVE Away'
  BY Zenon, <1>11, <1>0, <1>u DEF Route, queues
<1>12. ASSUME NEW t \in Sched, StealInject(t) PROVE Away'
  <2>1. q' = q /\ (cur' = cur \/ cur' = [cur EXCEPT ![t] = Head(inject)])
    BY Zenon, <1>12 DEF StealInject
  <2> QED
    BY Zenon, <1>1, <1>m, <2>1
<1>13. ASSUME NEW t \in Sched, StealVictim(t) PROVE Away'
  <2>1. CASE UNCHANGED <<q, cur>>
    BY Zenon, <1>u, <2>1
  <2>2. CASE ~UNCHANGED <<q, cur>>
    <3>1. PICK v \in Sched \ {t} : cur' = [cur EXCEPT ![t] = Head(q[v])] /\ q' = [q EXCEPT ![v] = Tail(@)]
      BY Zenon, <1>13, <2>2 DEF StealVictim
    <3> QED
      BY Zenon, <1>1, <1>m, <3>1
  <2> QED
    BY Zenon, <2>1, <2>2
<1>14. ASSUME NEW t \in Sched, Found(t) PROVE Away'
  BY Zenon, <1>14, <1>0, <1>u DEF Found, queues
<1>15. ASSUME NEW t \in Sched, Quiet(t) PROVE Away'
  BY Zenon, <1>15, <1>u DEF Quiet, queues
<1>16. ASSUME NEW t \in Sched, Again(t) PROVE Away'
  BY Zenon, <1>16, <1>u DEF Again, queues
<1>17. ASSUME NEW t \in Sched, Resume(t) PROVE Away'
  BY Zenon, <1>17, <1>u DEF Resume, queues
<1>18. ASSUME NEW t \in Sched, Block(t) PROVE Away'
  BY Zenon, <1>18, <1>u DEF Block, queues
<1>19. ASSUME NEW t \in Sched, Suspend(t) PROVE Away'
  BY Zenon, <1>19, <1>u DEF Suspend, queues
<1>20. ASSUME Drowsy PROVE Away'
  <2>1. q' = q /\ (cur' = cur \/ cur' = [cur EXCEPT ![0] = Head(inject)])
    BY Zenon, <1>20 DEF Drowsy
  <2> QED
    BY Zenon, <1>1, <1>m, <2>1
<1>21. ASSUME FallAsleep PROVE Away'
  BY Zenon, <1>21, <1>u DEF FallAsleep, queues
<1>22. ASSUME PinnedRoute PROVE Away'
  BY Zenon, <1>22, <1>0, <1>u DEF PinnedRoute, queues
<1>23. ASSUME PinnedIdle PROVE Away'
  BY Zenon, <1>23, <1>u DEF PinnedIdle, queues
<1>24. ASSUME Shutdown PROVE Away'
  BY Zenon, <1>24, <1>u DEF Shutdown, queues
<1>25. ASSUME Event PROVE Away'
  BY Zenon, <1>25, <1>u DEF Event, queues
<1>26. ASSUME EventWake PROVE Away'
  BY Zenon, <1>26, <1>u DEF EventWake, queues
<1> QED
  BY Zenon, Steps, <1>2, <1>3, <1>4, <1>5, <1>6, <1>7, <1>8, <1>9, <1>10, <1>11, <1>12, <1>13, <1>14, <1>15, <1>16, <1>17, <1>18, <1>19, <1>20, <1>21, <1>22, <1>23, <1>24, <1>25, <1>26

(* A thread that does not move keeps what Stealing says of it, even if it  *)
(* is stolen from.                                                         *)
LEMMA OthersStealing ==
  ASSUME Stealing, NEW t,
         \A u \in Sched : u # t =>
           /\ block_sent'[u] = block_sent[u] /\ pc'[u] = pc[u] /\ cur'[u] = cur[u]
           /\ q'[u] # <<>> => q[u] # <<>>,
         t \in Sched => StealingAt(t)'
  PROVE  Stealing'
<1> SUFFICES ASSUME NEW u \in Sched PROVE StealingAt(u)'
  BY Zenon DEF Stealing
<1>1. CASE u = t
  BY Zenon, <1>1
<1>2. CASE u # t
  <2>1. StealingAt(u)
    BY Zenon DEF Stealing
  <2> QED
    BY Zenon, <1>2, <2>1 DEF StealingAt
<1> QED
  BY Zenon, <1>1, <1>2

(* The schedulers that have said that they are blocked go on stealing.     *)
LEMMA StealingStep ==
  ASSUME MayPin = {}, Typed, Control, Unpinned, Stealing, [Next]_vars
  PROVE  Stealing'
<1>0. /\ pinned = {}
      /\ \A t \in Thread : pc[t] \in {"actor", "noisy", "unnoisy"} => t \in Sched /\ cur[t] # None
  BY Zenon, NobodyPinned
<1>1. /\ P \in Thread /\ (\A t \in Sched : t \in Thread /\ t # P) /\ 0 \in Sched
      /\ q \in [Thread -> Seq(Actor)] /\ cur \in [Thread -> Actor \cup {None}] /\ None \notin Actor
      /\ block_sent \in [Sched -> BOOLEAN]
  BY Zenon, Threads, TypedParts, QuiescenceAssumption DEF Places0, Flags0
<1>2. \E S : pc \in [Thread -> S]
  BY Zenon, TypedParts DEF Flags0
<1>3. ASSUME NEW t \in Sched
      PROVE  /\ pc[t] \notin Searching => ~block_sent[t]
             /\ pc[t] \notin Working => q[t] = <<>>
             /\ q[t] # <<>> => cur[t] # None
  BY Zenon DEF Stealing, StealingAt
<1>4. /\ \A l \in {"start", "top", "route", "actor", "noisy", "unnoisy"} : l \notin Searching
      /\ \A l \in {"start", "inject", "victim", "found", "sread", "idle", "drowsy", "dread", "asleep", "done"} : l \notin Working
      /\ \A l \in {"inject", "victim", "found", "sread", "idle", "drowsy", "dread", "asleep", "done"} : l \in Searching
      /\ \A l \in {"top", "route", "actor", "noisy", "unnoisy"} : l \in Working
  BY DEF Searching, Working
<1>u. UNCHANGED <<q, pc, cur, block_sent>> => Stealing'
  BY Zenon DEF Stealing, StealingAt
(* Only the program counter of t moves, among the working or among the searching ones *)
<1>m. ASSUME NEW t \in Thread, NEW l,
             pc' = [pc EXCEPT ![t] = l] \/ GotoAndWakePinned(t, l), UNCHANGED <<q, cur, block_sent>>,
             t \in Sched => \/ pc[t] \in Searching /\ l \in Searching /\ q[t] = <<>>
                            \/ ~block_sent[t] /\ (q[t] # <<>> => l \in Working)
      PROVE  Stealing'
  <2>1. \A u \in Sched : u # t => pc'[u] = pc[u]
    BY Zenon, <1>1, <1>2, <1>m DEF GotoAndWakePinned
  <2>2. t \in Sched => pc'[t] = l
    BY Zenon, <1>1, <1>2, <1>m DEF GotoAndWakePinned
  <2>3. t \in Sched => StealingAt(t)'
    BY Zenon, <1>3, <1>m, <2>2 DEF StealingAt
  <2> QED
    BY Zenon, <1>m, <2>1, <2>3, OthersStealing
(* The same, and it gets an actor from elsewhere *)
<1>n. ASSUME NEW t \in Sched, NEW a, pc[t] \in Searching, q[t] = <<>>,
             pc' = [pc EXCEPT ![t] = "found"], cur' = [cur EXCEPT ![t] = a], UNCHANGED block_sent,
             \A u \in Sched : q'[u] # <<>> => q[u] # <<>>
      PROVE  Stealing'
  <2>1. \A u \in Sched : u # t => pc'[u] = pc[u] /\ cur'[u] = cur[u]
    BY Zenon, <1>1, <1>2, <1>n
  <2>2. pc'[t] = "found"
    BY Zenon, <1>1, <1>2, <1>n
  <2>3. StealingAt(t)'
    BY Zenon, <1>4, <1>n, <2>2 DEF StealingAt
  <2> QED
    BY Zenon, <1>n, <2>1, <2>3, OthersStealing
<1>5. ASSUME UNCHANGED vars PROVE Stealing'
  BY Zenon, <1>5, <1>u DEF vars, queues
<1>6. ASSUME NEW t \in Thread, Send(t) PROVE Stealing'
  <2>1. t \in Sched /\ pc[t] = "actor" /\ cur[t] # None
    <3>1. pc[t] = "actor"
      BY Zenon, <1>6 DEF Send
    <3> QED
      BY Zenon, <1>0, <3>1
  <2>2. PICK a : q' = [q EXCEPT ![t] = Append(@, a)]
    BY Zenon, <1>6 DEF Send
  <2>3. UNCHANGED <<pc, cur, block_sent>>
    BY Zenon, <1>6 DEF Send
  <2>4. \A u \in Sched : u # t => q'[u] = q[u]
    BY Zenon, <1>1, <2>1, <2>2
  <2>5. StealingAt(t)'
    BY Zenon, <1>3, <1>4, <2>1, <2>3 DEF StealingAt
  <2> QED
    BY Zenon, <2>3, <2>4, <2>5, OthersStealing
<1>7. ASSUME NEW t \in Thread, Pin(t) PROVE Stealing'
  BY Zenon, <1>7, <1>0 DEF Pin
<1>8. ASSUME NEW t \in Thread, Subscribe(t) PROVE Stealing'
  <2>1. t \in Sched /\ ~block_sent[t]
    <3>1. pc[t] \in {"actor", "noisy", "unnoisy"}
      BY <1>8 DEF Subscribe
    <3>2. t \in Sched /\ pc[t] \notin Searching
      BY Zenon, <1>0, <1>4, <3>1
    <3> QED
      BY Zenon, <1>3, <3>2
  <2>2. UNCHANGED <<q, cur, block_sent>>
    BY Zenon, <1>8 DEF Subscribe, queues
  <2>3. PICK l \in {"noisy", "actor"} : pc' = [pc EXCEPT ![t] = l]
    BY Zenon, <1>8 DEF Subscribe, Goto
  <2>4. l \in Working
    BY Zenon, <1>4, <2>3
  <2> QED
    BY Zenon, <1>m, <2>1, <2>2, <2>3, <2>4
<1>9. ASSUME NEW t \in Thread, EventDestroy(t) PROVE Stealing'
  <2>1. t \in Sched /\ ~block_sent[t]
    <3>1. pc[t] \in {"actor", "noisy", "unnoisy"}
      BY <1>9 DEF EventDestroy
    <3>2. t \in Sched /\ pc[t] \notin Searching
      BY Zenon, <1>0, <1>4, <3>1
    <3> QED
      BY Zenon, <1>3, <3>2
  <2>2. UNCHANGED <<q, cur, block_sent>>
    BY Zenon, <1>9 DEF EventDestroy, queues
  <2>3. PICK l \in {"unnoisy", "actor"} : pc' = [pc EXCEPT ![t] = l]
    BY Zenon, <1>9 DEF EventDestroy, Goto
  <2>4. l \in Working
    BY Zenon, <1>4, <2>3
  <2> QED
    BY Zenon, <1>m, <2>1, <2>2, <2>3, <2>4
<1>10. ASSUME NEW t \in Thread, TellNoisy(t) PROVE Stealing'
  <2>1. t \in Sched /\ ~block_sent[t]
    <3>1. pc[t] \in {"actor", "noisy", "unnoisy"}
      BY <1>10 DEF TellNoisy
    <3>2. t \in Sched /\ pc[t] \notin Searching
      BY Zenon, <1>0, <1>4, <3>1
    <3> QED
      BY Zenon, <1>3, <3>2
  <2>2. UNCHANGED <<q, cur, block_sent>>
    BY Zenon, <1>10 DEF TellNoisy, queues
  <2>3. PICK l \in {"actor"} : pc' = [pc EXCEPT ![t] = l]
    BY Zenon, <1>10 DEF TellNoisy, Goto
  <2>4. l \in Working
    BY Zenon, <1>4, <2>3
  <2> QED
    BY Zenon, <1>m, <2>1, <2>2, <2>3, <2>4
<1>11. ASSUME NEW t \in Thread, EndRun(t) PROVE Stealing'
  <2>1. t \in Sched /\ cur[t] # None /\ ~block_sent[t]
    <3>1. pc[t] = "actor"
      BY Zenon, <1>11 DEF EndRun
    <3>2. t \in Sched /\ cur[t] # None /\ pc[t] \notin Searching
      BY Zenon, <1>0, <1>4, <3>1
    <3> QED
      BY Zenon, <1>3, <3>2
  <2>2. PICK m \in {Pop(t), PopGlobal(t)} :
           /\ Took(t, m)
           /\ \/ q' = m.q /\ cur' = [cur EXCEPT ![t] = m.actor]
              \/ /\ m.actor # None
                 /\ q' = [m.q EXCEPT ![t] = Append(@, cur[t])] /\ cur' = [cur EXCEPT ![t] = m.actor]
              \/ q' = m.q /\ cur' = cur
    BY Zenon, <1>11, EndRunCases
  <2>3. pc' = [pc EXCEPT ![t] = "top"] /\ UNCHANGED block_sent
    BY Zenon, <1>11 DEF EndRun, Goto
  <2>4. m.q \in [Thread -> Seq(Actor)] /\ \A u \in Sched : u # t => m.q[u] = q[u]
    <3>1. m.q \in [Thread -> Seq(Actor)]
      BY Zenon, <1>1, <2>2, TookTyped
    <3> QED
      BY Zenon, <1>1, <2>1, <2>2, <3>1 DEF Took
  <2>5. \A u \in Sched : u # t => q'[u] = q[u] /\ cur'[u] = cur[u] /\ pc'[u] = pc[u]
    BY Zenon, <1>1, <1>2, <2>1, <2>2, <2>3, <2>4
  <2>6. pc'[t] = "top" /\ (cur'[t] = m.actor \/ cur'[t] = cur[t])
    BY Zenon, <1>1, <1>2, <2>1, <2>2, <2>3
  <2>7. m.actor = None => m.q[t] = <<>>
    <3>1. CASE m.actor = None /\ m.q = q /\ q[t] = <<>>
      BY Zenon, <3>1
    <3>2. CASE q[t] # <<>> /\ m.actor = Head(q[t])
      <4>1. Head(q[t]) \in Actor
        BY SMT, <1>1, <2>1, <3>2
      <4> QED
        BY Zenon, <1>1, <3>2, <4>1
    <3>3. CASE inject # <<>> /\ m.actor = Head(inject)
      <4>1. inject \in Seq(Actor)
        BY Zenon, TypedParts DEF Places0
      <4>2. Head(inject) \in Actor
        BY SMT, <3>3, <4>1
      <4> QED
        BY Zenon, <1>1, <3>3, <4>2
    <3> QED
      BY Zenon, <2>2, <3>1, <3>2, <3>3 DEF Took
  <2>8. q'[t] # <<>> => cur'[t] # None
    <3>1. CASE cur'[t] = cur[t]
      BY Zenon, <2>1, <3>1
    <3>2. CASE m.actor # None
      BY Zenon, <2>1, <2>6, <3>2
    <3>3. CASE m.actor = None /\ cur'[t] # cur[t]
      <4>1. q' = m.q
        BY Zenon, <2>2, <3>3
      <4> QED
        BY Zenon, <2>7, <3>3, <4>1
    <3> QED
      BY Zenon, <3>1, <3>2, <3>3
  <2>9. StealingAt(t)'
    BY Zenon, <1>4, <2>1, <2>3, <2>6, <2>8 DEF StealingAt
  <2> QED
    BY Zenon, <2>3, <2>5, <2>9, OthersStealing
<1>12. ASSUME NEW t \in Thread, ReadMsg(t) PROVE Stealing'
  BY Zenon, <1>12, <1>u DEF ReadMsg, queues
<1>13. ASSUME NEW t \in Sched, Begin(t) PROVE Stealing'
  <2>1. pc[t] = "start" /\ UNCHANGED block_sent /\ pc' = [pc EXCEPT ![t] = "top"]
    BY Zenon, <1>13 DEF Begin, Goto
  <2>2. q[t] = <<>> /\ ~block_sent[t]
    BY Zenon, <1>3, <1>4, <2>1
  <2>3. Took(t, PopGlobal(t)) /\ q' = PopGlobal(t).q /\ cur' = [cur EXCEPT ![t] = PopGlobal(t).actor]
    BY Zenon, <1>1, <1>13, Takes DEF Begin
  <2>4. q' = q
    BY Zenon, <2>2, <2>3 DEF Took
  <2>5. \A u \in Sched : u # t => q'[u] = q[u] /\ cur'[u] = cur[u] /\ pc'[u] = pc[u]
    BY Zenon, <1>1, <1>2, <2>1, <2>3, <2>4
  <2>6. StealingAt(t)'
    BY Zenon, <2>1, <2>2, <2>4 DEF StealingAt
  <2> QED
    BY Zenon, <2>1, <2>5, <2>6, OthersStealing
<1>14. ASSUME NEW t \in Sched, Route(t) PROVE Stealing'
  <2>1. pc[t] \in {"top", "route"} /\ UNCHANGED block_sent
    BY Zenon, <1>14 DEF Route
  <2>2. ~block_sent[t]
    BY Zenon, <1>3, <1>4, <2>1
  <2>3. UNCHANGED <<q, cur>> /\ pc' = [pc EXCEPT ![t] = IF cur[t] = None THEN "inject" ELSE "actor"]
    BY Zenon, <1>14, <1>0 DEF Route, Goto, queues
  <2>4. q[t] # <<>> => (IF cur[t] = None THEN "inject" ELSE "actor") \in Working
    BY Zenon, <1>3, <1>4
  <2> QED
    BY Zenon, <1>1, <1>m, <2>1, <2>2, <2>3, <2>4
<1>15. ASSUME NEW t \in Sched, StealInject(t) PROVE Stealing'
  <2>1. pc[t] = "inject" /\ q' = q /\ UNCHANGED block_sent
    BY Zenon, <1>15 DEF StealInject
  <2>2. q[t] = <<>> /\ pc[t] \in Searching /\ "victim" \in Searching
    BY Zenon, <1>3, <1>4, <2>1
  <2>3. CASE pc' = [pc EXCEPT ![t] = "victim"] /\ cur' = cur
    BY Zenon, <1>1, <1>m, <2>1, <2>2, <2>3
  <2>4. CASE pc' = [pc EXCEPT ![t] = "found"] /\ cur' = [cur EXCEPT ![t] = Head(inject)]
    BY Zenon, <1>n, <2>1, <2>2, <2>4
  <2> QED
    BY Zenon, <1>15, <2>3, <2>4 DEF StealInject, Goto
<1>16. ASSUME NEW t \in Sched, StealVictim(t) PROVE Stealing'
  <2>1. pc[t] = "victim" /\ UNCHANGED block_sent
    BY Zenon, <1>16 DEF StealVictim
  <2>2. q[t] = <<>> /\ pc[t] \in Searching /\ "sread" \in Searching
    BY Zenon, <1>3, <1>4, <2>1
  <2>3. CASE pc' = [pc EXCEPT ![t] = "sread"] /\ UNCHANGED <<q, cur>>
    BY Zenon, <1>1, <1>m, <2>1, <2>2, <2>3
  <2>4. ASSUME NEW v \in Sched, q[v] # <<>>, cur' = [cur EXCEPT ![t] = Head(q[v])],
               q' = [q EXCEPT ![v] = Tail(@)], pc' = [pc EXCEPT ![t] = "found"]
        PROVE  Stealing'
    <3>1. \A u \in Sched : q'[u] # <<>> => q[u] # <<>>
      BY Zenon, <1>1, <2>4
    <3> QED
      BY Zenon, <1>n, <2>1, <2>2, <2>4, <3>1
  <2> QED
    BY Zenon, <1>16, <2>3, <2>4 DEF StealVictim, Goto
<1>17. ASSUME NEW t \in Sched, Found(t) PROVE Stealing'
  <2>1. pc[t] = "found" /\ block_sent' = [block_sent EXCEPT ![t] = FALSE]
    BY Zenon, <1>17 DEF Found
  <2>2. UNCHANGED <<q, cur>> /\ pc' = [pc EXCEPT ![t] = "actor"]
    BY Zenon, <1>17, <1>0 DEF Found, Goto
  <2>3. q[t] = <<>>
    BY Zenon, <1>3, <1>4, <2>1
  <2>4. \A u \in Sched : u # t => block_sent'[u] = block_sent[u] /\ pc'[u] = pc[u]
    BY Zenon, <1>1, <1>2, <2>1, <2>2
  <2>5. ~block_sent'[t]
    BY SMT, <1>1, <2>1
  <2>6. StealingAt(t)'
    BY Zenon, <2>2, <2>3, <2>5 DEF StealingAt
  <2> QED
    BY Zenon, <2>2, <2>4, <2>6, OthersStealing
<1>18. ASSUME NEW t \in Sched, Quiet(t) PROVE Stealing'
  <2>1. pc[t] = "sread" /\ UNCHANGED <<q, cur, block_sent>>
    BY Zenon, <1>18 DEF Quiet, queues
  <2>2. q[t] = <<>> /\ pc[t] \in Searching
    BY Zenon, <1>3, <1>4, <2>1
  <2>3. PICK l \in {"done", "idle"} : pc' = [pc EXCEPT ![t] = l] \/ GotoAndWakePinned(t, l)
    BY Zenon, <1>18 DEF Quiet, Goto
  <2>4. l \in Searching /\ t \in Thread
    BY Zenon, <1>1, <1>4, <2>3
  <2> QED
    BY Zenon, <1>m, <2>1, <2>2, <2>3, <2>4
<1>19. ASSUME NEW t \in Sched, Again(t) PROVE Stealing'
  <2>1. pc[t] = "idle" /\ UNCHANGED <<q, cur, block_sent>>
    BY Zenon, <1>19 DEF Again, queues
  <2>2. q[t] = <<>> /\ pc[t] \in Searching
    BY Zenon, <1>3, <1>4, <2>1
  <2>3. PICK l \in {"inject"} : pc' = [pc EXCEPT ![t] = l] \/ GotoAndWakePinned(t, l)
    BY Zenon, <1>19 DEF Again, Goto
  <2>4. l \in Searching /\ t \in Thread
    BY Zenon, <1>1, <1>4, <2>3
  <2> QED
    BY Zenon, <1>m, <2>1, <2>2, <2>3, <2>4
<1>20. ASSUME NEW t \in Sched, Resume(t) PROVE Stealing'
  <2>1. pc[t] = "asleep" /\ UNCHANGED <<q, cur, block_sent>>
    BY Zenon, <1>20 DEF Resume, queues
  <2>2. q[t] = <<>> /\ pc[t] \in Searching
    BY Zenon, <1>3, <1>4, <2>1
  <2>3. PICK l \in {"inject"} : pc' = [pc EXCEPT ![t] = l] \/ GotoAndWakePinned(t, l)
    BY Zenon, <1>20 DEF Resume, Goto
  <2>4. l \in Searching /\ t \in Thread
    BY Zenon, <1>1, <1>4, <2>3
  <2> QED
    BY Zenon, <1>m, <2>1, <2>2, <2>3, <2>4
<1>21. ASSUME NEW t \in Sched, Block(t) PROVE Stealing'
  <2>1. pc[t] = "idle" /\ block_sent' = [block_sent EXCEPT ![t] = TRUE] /\ UNCHANGED <<q, pc, cur>>
    BY Zenon, <1>21 DEF Block, queues
  <2>2. q[t] = <<>> /\ pc[t] \in Searching
    BY Zenon, <1>3, <1>4, <2>1
  <2>3. \A u \in Sched : u # t => block_sent'[u] = block_sent[u]
    BY Zenon, <1>1, <2>1
  <2>4. StealingAt(t)'
    BY Zenon, <2>1, <2>2 DEF StealingAt
  <2> QED
    BY Zenon, <2>1, <2>3, <2>4, OthersStealing
<1>22. ASSUME NEW t \in Sched, Suspend(t) PROVE Stealing'
  <2>1. pc[t] = "idle" /\ UNCHANGED <<q, cur, block_sent>>
    BY Zenon, <1>22 DEF Suspend, queues
  <2>2. q[t] = <<>> /\ pc[t] \in Searching
    BY Zenon, <1>3, <1>4, <2>1
  <2>3. PICK l \in {"drowsy", "asleep"} : pc' = [pc EXCEPT ![t] = l] \/ GotoAndWakePinned(t, l)
    BY Zenon, <1>22 DEF Suspend, Goto
  <2>4. l \in Searching /\ t \in Thread
    BY Zenon, <1>1, <1>4, <2>3
  <2> QED
    BY Zenon, <1>m, <2>1, <2>2, <2>3, <2>4
<1>23. ASSUME Drowsy PROVE Stealing'
  <2>1. pc[0] = "drowsy" /\ q' = q /\ UNCHANGED block_sent
    BY Zenon, <1>23 DEF Drowsy
  <2>2. q[0] = <<>> /\ pc[0] \in Searching /\ "dread" \in Searching
    BY Zenon, <1>1, <1>3, <1>4, <2>1
  <2>3. CASE pc' = [pc EXCEPT ![0] = "dread"] /\ cur' = cur
    BY Zenon, <1>1, <1>m, <2>1, <2>2, <2>3
  <2>4. CASE pc' = [pc EXCEPT ![0] = "found"] /\ cur' = [cur EXCEPT ![0] = Head(inject)]
    BY Zenon, <1>1, <1>n, <2>1, <2>2, <2>4
  <2> QED
    BY Zenon, <1>23, <2>3, <2>4 DEF Drowsy, Goto
<1>24. ASSUME FallAsleep PROVE Stealing'
  <2>1. pc[0] = "dread" /\ UNCHANGED <<q, cur, block_sent>>
    BY Zenon, <1>24 DEF FallAsleep, queues
  <2>2. q[0] = <<>> /\ pc[0] \in Searching
    BY Zenon, <1>1, <1>3, <1>4, <2>1
  <2>3. PICK l \in {"inject", "asleep"} : pc' = [pc EXCEPT ![0] = l] \/ GotoAndWakePinned(0, l)
    BY Zenon, <1>24 DEF FallAsleep, Goto
  <2>4. l \in Searching /\ 0 \in Thread
    BY Zenon, <1>1, <1>4, <2>3
  <2> QED
    BY Zenon, <1>m, <2>1, <2>2, <2>3, <2>4
<1>25. ASSUME PinnedRoute PROVE Stealing'
  <2>1. UNCHANGED block_sent
    BY Zenon, <1>25 DEF PinnedRoute
  <2>2. \E l : pc' = [pc EXCEPT ![P] = l]
    BY Zenon, <1>25 DEF PinnedRoute, Goto
  <2>3. (q' = q \/ q' = [q EXCEPT ![P] = Tail(@)]) /\ \E x : cur' = cur \/ cur' = [cur EXCEPT ![P] = x]
    BY Zenon, <1>25 DEF PinnedRoute, queues
  <2>4. \A u \in Sched : q'[u] = q[u] /\ cur'[u] = cur[u] /\ pc'[u] = pc[u]
    BY Zenon, <1>1, <1>2, <2>2, <2>3
  <2> QED
    BY Zenon, <2>1, <2>4 DEF Stealing, StealingAt
<1>26. ASSUME PinnedIdle PROVE Stealing'
  <2>1. UNCHANGED <<q, cur, block_sent>>
    BY Zenon, <1>26 DEF PinnedIdle, queues
  <2>2. \E l : pc' = [pc EXCEPT ![P] = l]
    BY Zenon, <1>26 DEF PinnedIdle, Goto
  <2> QED
    BY Zenon, <1>1, <1>m, <2>1, <2>2
<1>27. ASSUME Shutdown PROVE Stealing'
  BY Zenon, <1>27, <1>u DEF Shutdown, queues
<1>28. ASSUME Event PROVE Stealing'
  BY Zenon, <1>28, <1>u DEF Event, queues
<1>29. ASSUME EventWake PROVE Stealing'
  BY Zenon, <1>29, <1>u DEF EventWake, queues
<1> QED
  BY Zenon, Steps, <1>5, <1>6, <1>7, <1>8, <1>9, <1>10, <1>11, <1>12, <1>13, <1>14, <1>15, <1>16, <1>17, <1>18, <1>19, <1>20, <1>21, <1>22, <1>23, <1>24, <1>25, <1>26, <1>27, <1>28, <1>29

(* Only an actor with a subscription comes into the inject queue.          *)
LEMMA InjectedStep ==
  ASSUME MayPin = {}, Typed, Control, Unique, Unpinned, Away, Injected, [Next]_vars
  PROVE  Injected'
<1>0. /\ pinned = {} /\ q[P] = <<>> /\ cur[P] = None
      /\ \A t \in Thread : pc[t] \in {"actor", "noisy", "unnoisy"} => t \in Sched /\ cur[t] # None
  BY Zenon, NobodyPinned DEF Away
<1>1. /\ P \in Thread /\ (\A t \in Sched : t \in Thread /\ t # P) /\ 0 \in Sched /\ inject \in Seq(Actor)
  BY Zenon, Threads, TypedParts DEF Places0
<1>k. ASSUME inject' = inject, noisy' = noisy PROVE Injected'
  BY Zenon, <1>k DEF Injected
<1>h. ASSUME inject # <<>>, inject' = Tail(inject), noisy' = noisy
      PROVE  Injected'
  <2>1. \A i \in 1..Len(Tail(inject)) : i + 1 \in 1..Len(inject) /\ Tail(inject)[i] = inject[i + 1]
    BY SMT, <1>1, <1>h
  <2>2. \A i \in 1..Len(Tail(inject)) : Tail(inject)[i] \in noisy
    BY Zenon, <2>1 DEF Injected
  <2> QED
    BY Zenon, <1>h, <2>2 DEF Injected
<1>3. ASSUME UNCHANGED vars PROVE Injected'
  BY Zenon, <1>3, <1>k DEF vars, queues, actors
<1>4. ASSUME NEW t \in Thread, Send(t) PROVE Injected'
  BY Zenon, <1>4, <1>k DEF Send, queues, actors
<1>5. ASSUME NEW t \in Thread, Pin(t) PROVE Injected'
  BY Zenon, <1>5 DEF Pin
<1>6. ASSUME NEW t \in Thread, Subscribe(t) PROVE Injected'
  <2>1. inject' = inject /\ noisy' = noisy \cup {cur[t]}
    BY Zenon, <1>6 DEF Subscribe, queues
  <2> QED
    BY Zenon, <2>1 DEF Injected
<1>7. ASSUME NEW t \in Thread, EventDestroy(t) PROVE Injected'
  <2>1. inject' = inject /\ noisy' = noisy \ {cur[t]}
    BY Zenon, <1>7 DEF EventDestroy, queues
  <2>2. \A i \in 1..Len(inject) : inject[i] \in noisy /\ inject[i] # cur[t]
    BY Zenon DEF Injected, Unique, Distinct, NotInjected
  <2> QED
    BY Zenon, <2>1, <2>2 DEF Injected
<1>8. ASSUME NEW t \in Thread, TellNoisy(t) PROVE Injected'
  BY Zenon, <1>8, <1>k DEF TellNoisy, queues, actors
<1>9. ASSUME NEW t \in Thread, EndRun(t) PROVE Injected'
  <2>1. noisy' = noisy
    BY Zenon, <1>9 DEF EndRun
  <2>2. PICK m \in {Pop(t), PopGlobal(t)} : Took(t, m) /\ inject' = m.inject
    BY Zenon, <1>9, EndRunCases
  <2>3. CASE inject' = inject
    BY Zenon, <1>k, <2>1, <2>3
  <2>4. CASE inject # <<>> /\ inject' = Tail(inject)
    BY Zenon, <1>h, <2>1, <2>4
  <2> QED
    BY Zenon, <2>2, <2>3, <2>4 DEF Took
<1>10. ASSUME NEW t \in Thread, ReadMsg(t) PROVE Injected'
  BY Zenon, <1>10, <1>k DEF ReadMsg, queues, actors
<1>11. ASSUME NEW t \in Sched, Begin(t) PROVE Injected'
  <2>1. inject' = PopGlobal(t).inject /\ noisy' = noisy
    BY Zenon, <1>11 DEF Begin, actors
  <2>2. CASE inject = <<>>
    <3>1. inject' = <<>>
      BY <2>1, <2>2 DEF PopGlobal, Pop
    <3>2. \A i \in 1..Len(<<>>) : FALSE
      OBVIOUS
    <3> QED
      BY Zenon, <3>1, <3>2 DEF Injected
  <2>3. CASE inject # <<>>
    <3>1. inject' = Tail(inject)
      BY <2>1, <2>3 DEF PopGlobal
    <3> QED
      BY Zenon, <1>h, <2>1, <2>3, <3>1
  <2> QED
    BY Zenon, <2>2, <2>3
<1>12. ASSUME NEW t \in Sched, Route(t) PROVE Injected'
  BY Zenon, <1>12, <1>0, <1>k DEF Route, queues, actors
<1>13. ASSUME NEW t \in Sched, StealInject(t) PROVE Injected'
  <2>1. noisy' = noisy
    BY Zenon, <1>13 DEF StealInject, actors
  <2>2. CASE inject' = inject
    BY Zenon, <1>k, <2>1, <2>2
  <2>3. CASE inject # <<>> /\ inject' = Tail(inject)
    BY Zenon, <1>h, <2>1, <2>3
  <2> QED
    BY Zenon, <1>13, <2>2, <2>3 DEF StealInject
<1>14. ASSUME NEW t \in Sched, StealVictim(t) PROVE Injected'
  BY Zenon, <1>14, <1>k DEF StealVictim, queues, actors
<1>15. ASSUME NEW t \in Sched, Found(t) PROVE Injected'
  BY Zenon, <1>15, <1>k DEF Found, queues, actors
<1>16. ASSUME NEW t \in Sched, Quiet(t) PROVE Injected'
  BY Zenon, <1>16, <1>k DEF Quiet, queues, actors
<1>17. ASSUME NEW t \in Sched, Again(t) PROVE Injected'
  BY Zenon, <1>17, <1>k DEF Again, queues, actors
<1>18. ASSUME NEW t \in Sched, Resume(t) PROVE Injected'
  BY Zenon, <1>18, <1>k DEF Resume, queues, actors
<1>19. ASSUME NEW t \in Sched, Block(t) PROVE Injected'
  BY Zenon, <1>19, <1>k DEF Block, queues, actors
<1>20. ASSUME NEW t \in Sched, Suspend(t) PROVE Injected'
  BY Zenon, <1>20, <1>k DEF Suspend, queues, actors
<1>21. ASSUME Drowsy PROVE Injected'
  <2>1. noisy' = noisy
    BY Zenon, <1>21 DEF Drowsy, actors
  <2>2. CASE inject' = inject
    BY Zenon, <1>k, <2>1, <2>2
  <2>3. CASE inject # <<>> /\ inject' = Tail(inject)
    BY Zenon, <1>h, <2>1, <2>3
  <2> QED
    BY Zenon, <1>21, <2>2, <2>3 DEF Drowsy
<1>22. ASSUME FallAsleep PROVE Injected'
  BY Zenon, <1>22, <1>k DEF FallAsleep, queues, actors
<1>23. ASSUME PinnedRoute PROVE Injected'
  BY Zenon, <1>23, <1>0, <1>k DEF PinnedRoute, queues, actors
<1>24. ASSUME PinnedIdle PROVE Injected'
  BY Zenon, <1>24, <1>k DEF PinnedIdle, queues, actors
<1>25. ASSUME Shutdown PROVE Injected'
  BY Zenon, <1>25, <1>k DEF Shutdown, queues, actors
<1>26. ASSUME Event PROVE Injected'
  <2>1. noisy' = noisy
    BY Zenon, <1>26 DEF Event
  <2>2. PICK a \in noisy : inject' = inject \/ inject' = Append(inject, a)
    BY Zenon, <1>26 DEF Event
  <2>3. CASE inject' = inject
    BY Zenon, <1>k, <2>1, <2>3
  <2>4. CASE inject' = Append(inject, a)
    <3>1. \A i \in 1..Len(inject') : (i \in 1..Len(inject) /\ inject'[i] = inject[i]) \/ inject'[i] = a
      <4>1. a \in Actor
        BY TypedParts, QuiescenceAssumption DEF Places0
      <4> QED
        BY SMT, <1>1, <2>4, <4>1
    <3> QED
      BY Zenon, <2>1, <2>2, <3>1 DEF Injected
  <2> QED
    BY Zenon, <2>2, <2>3, <2>4
<1>27. ASSUME EventWake PROVE Injected'
  BY Zenon, <1>27, <1>k DEF EventWake, queues, actors
<1> QED
  BY Zenon, Steps, <1>3, <1>4, <1>5, <1>6, <1>7, <1>8, <1>9, <1>10, <1>11, <1>12, <1>13, <1>14, <1>15, <1>16, <1>17, <1>18, <1>19, <1>20, <1>21, <1>22, <1>23, <1>24, <1>25, <1>26, <1>27

(* While all are stealing, whoever gets an actor gets one that listens.    *)
LEMMA StealersGet ==
  ASSUME MayPin = {}, Typed, Control, Unpinned, Taken,
         \A t \in Sched : pc[t] \in Searching /\ q[t] = <<>>, [Next]_vars
  PROVE  noisy' = noisy /\ \A u \in Sched : cur'[u] = cur[u] \/ cur'[u] \in noisy
<1> DEFINE Goal == noisy' = noisy /\ \A u \in Sched : cur'[u] = cur[u] \/ cur'[u] \in noisy
<1>0. /\ pinned = {} /\ q[P] = <<>> /\ cur[P] = None
      /\ \A t \in Thread : pc[t] \in {"actor", "noisy", "unnoisy"} => t \in Sched /\ cur[t] # None
  BY Zenon, NobodyPinned DEF Taken, Away
<1>1. /\ (\A t \in Sched : t \in Thread) /\ 0 \in Sched /\ inject \in Seq(Actor)
      /\ cur \in [Thread -> Actor \cup {None}]
  BY Zenon, Threads, TypedParts DEF Places0
<1>2. \A l \in Searching : l \notin {"start", "top", "route", "actor", "noisy", "unnoisy"}
  BY DEF Searching
<1>3. \A t \in Sched : pc[t] \notin {"start", "top", "route", "actor", "noisy", "unnoisy"}
  BY Zenon, <1>2
<1>4. \A t \in Thread : pc[t] \notin {"actor", "noisy", "unnoisy"}
  BY SMT, <1>0, <1>3
<1>5. inject # <<>> => Head(inject) \in noisy
  <2>1. inject # <<>> => 1 \in 1..Len(inject) /\ Head(inject) = inject[1]
    BY SMT, <1>1
  <2> QED
    BY Zenon, <2>1 DEF Taken, Injected
<1>u. UNCHANGED <<noisy, cur>> => Goal
  BY Zenon
<1>g. ASSUME NEW t \in Sched, noisy' = noisy, inject # <<>>, cur' = [cur EXCEPT ![t] = Head(inject)] PROVE Goal
  <2>1. cur'[t] = Head(inject) /\ \A u \in Sched : u # t => cur'[u] = cur[u]
    BY Zenon, <1>1, <1>g
  <2> QED
    BY Zenon, <1>5, <1>g, <2>1
<1> HIDE DEF Goal
<1>6. ASSUME UNCHANGED vars PROVE Goal
  BY Zenon, <1>6, <1>u DEF vars, actors
<1>7. ASSUME NEW t \in Thread, Send(t) PROVE Goal
  <2>1. pc[t] \in {"actor", "noisy", "unnoisy"}
    BY <1>7 DEF Send
  <2> QED
    BY Zenon, <1>4, <2>1
<1>8. ASSUME NEW t \in Thread, Pin(t) PROVE Goal
  <2>1. pc[t] \in {"actor", "noisy", "unnoisy"}
    BY <1>8 DEF Pin
  <2> QED
    BY Zenon, <1>4, <2>1
<1>9. ASSUME NEW t \in Thread, Subscribe(t) PROVE Goal
  <2>1. pc[t] \in {"actor", "noisy", "unnoisy"}
    BY <1>9 DEF Subscribe
  <2> QED
    BY Zenon, <1>4, <2>1
<1>10. ASSUME NEW t \in Thread, EventDestroy(t) PROVE Goal
  <2>1. pc[t] \in {"actor", "noisy", "unnoisy"}
    BY <1>10 DEF EventDestroy
  <2> QED
    BY Zenon, <1>4, <2>1
<1>11. ASSUME NEW t \in Thread, TellNoisy(t) PROVE Goal
  <2>1. pc[t] \in {"actor", "noisy", "unnoisy"}
    BY <1>11 DEF TellNoisy
  <2> QED
    BY Zenon, <1>4, <2>1
<1>12. ASSUME NEW t \in Thread, EndRun(t) PROVE Goal
  <2>1. pc[t] \in {"actor", "noisy", "unnoisy"}
    BY <1>12 DEF EndRun
  <2> QED
    BY Zenon, <1>4, <2>1
<1>13. ASSUME NEW t \in Thread, ReadMsg(t) PROVE Goal
  BY Zenon, <1>13, <1>u DEF ReadMsg, actors
<1>14. ASSUME NEW t \in Sched, Begin(t) PROVE Goal
  <2>1. pc[t] = "start"
    BY Zenon, <1>14 DEF Begin
  <2> QED
    BY SMT, <1>3, <2>1
<1>15. ASSUME NEW t \in Sched, Route(t) PROVE Goal
  <2>1. pc[t] \in {"top", "route"}
    BY Zenon, <1>15 DEF Route
  <2> QED
    BY SMT, <1>3, <2>1
<1>16. ASSUME NEW t \in Sched, StealInject(t) PROVE Goal
  <2>1. noisy' = noisy
    BY Zenon, <1>16 DEF StealInject, actors
  <2>2. cur' = cur \/ (inject # <<>> /\ cur' = [cur EXCEPT ![t] = Head(inject)])
    BY Zenon, <1>16 DEF StealInject
  <2> QED
    BY Zenon, <1>g, <1>u, <2>1, <2>2
<1>17. ASSUME NEW t \in Sched, StealVictim(t) PROVE Goal
  BY Zenon, <1>17, <1>u DEF StealVictim, actors
<1>18. ASSUME NEW t \in Sched, Found(t) PROVE Goal
  BY Zenon, <1>18, <1>0, <1>u DEF Found, actors
<1>19. ASSUME NEW t \in Sched, Quiet(t) PROVE Goal
  BY Zenon, <1>19, <1>u DEF Quiet, actors
<1>20. ASSUME NEW t \in Sched, Again(t) PROVE Goal
  BY Zenon, <1>20, <1>u DEF Again, actors
<1>21. ASSUME NEW t \in Sched, Resume(t) PROVE Goal
  BY Zenon, <1>21, <1>u DEF Resume, actors
<1>22. ASSUME NEW t \in Sched, Block(t) PROVE Goal
  BY Zenon, <1>22, <1>u DEF Block, actors
<1>23. ASSUME NEW t \in Sched, Suspend(t) PROVE Goal
  BY Zenon, <1>23, <1>u DEF Suspend, actors
<1>24. ASSUME Drowsy PROVE Goal
  <2>1. noisy' = noisy
    BY Zenon, <1>24 DEF Drowsy, actors
  <2>2. cur' = cur \/ (inject # <<>> /\ cur' = [cur EXCEPT ![0] = Head(inject)])
    BY Zenon, <1>24 DEF Drowsy
  <2> QED
    BY Zenon, <1>1, <1>g, <1>u, <2>1, <2>2
<1>25. ASSUME FallAsleep PROVE Goal
  BY Zenon, <1>25, <1>u DEF FallAsleep, actors
<1>26. ASSUME PinnedRoute PROVE Goal
  BY Zenon, <1>26, <1>0, <1>u DEF PinnedRoute, actors
<1>27. ASSUME PinnedIdle PROVE Goal
  BY Zenon, <1>27, <1>u DEF PinnedIdle, actors
<1>28. ASSUME Shutdown PROVE Goal
  BY Zenon, <1>28, <1>u DEF Shutdown, actors
<1>29. ASSUME Event PROVE Goal
  BY Zenon, <1>29, <1>u DEF Event, actors
<1>30. ASSUME EventWake PROVE Goal
  BY Zenon, <1>30, <1>u DEF EventWake, actors
<1>q. Goal
  BY Zenon, Steps, <1>6, <1>7, <1>8, <1>9, <1>10, <1>11, <1>12, <1>13, <1>14, <1>15, <1>16, <1>17, <1>18, <1>19, <1>20, <1>21, <1>22, <1>23, <1>24, <1>25, <1>26, <1>27, <1>28, <1>29, <1>30
<1> QED
  BY Zenon, <1>q DEF Goal

-----------------------------------------------------------------------------
(* A message is pushed.                                                    *)
LEMMA Pushed ==
  ASSUME FiniteFacts, NEW s \in Seq(Message), NEW x \in Message, NEW y, NEW k
  PROVE  LET z == Append(s, x)
         IN  /\ In(z, y) <=> In(s, y) \/ x = y
             /\ Once(s, y) /\ (x # y \/ ~In(s, y)) => Once(z, y)
             /\ UpTo(s, k) /\ (x.type \in {"cnf", "ack"} => x.token <= k) => UpTo(z, k)
             /\ Times(s, y) \in Nat
             /\ Times(z, y) = IF x = y THEN Times(s, y) + 1 ELSE Times(s, y)
<1> DEFINE z == Append(s, x)
           n == Len(s)
<1>1. /\ n \in Nat /\ Len(z) = n + 1 /\ z[n + 1] = x
      /\ \A i \in 1..n : i \in 1..Len(z) /\ z[i] = s[i]
      /\ \A i \in 1..Len(z) : i \in 1..n \/ i = n + 1
      /\ n + 1 \in 1..Len(z)
  OBVIOUS
<1>2. Times(s, y) \in Nat
  BY Zenon, <1>1, CountNat DEF Times
<1>3. Count(z, n, {y}) = Times(s, y)
  BY <1>1, CountAppend DEF Times
<1> HIDE DEF z
<1>4. Times(z, y) = IF x = y THEN Times(s, y) + 1 ELSE Times(s, y)
  <2>1. Count(z, n + 1, {y}) = IF z[n + 1] \in {y} THEN Count(z, n, {y}) + 1 ELSE Count(z, n, {y})
    BY Zenon, <1>1, CountNext
  <2> QED
    BY Zenon, <1>1, <1>3, <2>1 DEF Times
<1> HIDE DEF n
<1>5. In(z, y) <=> In(s, y) \/ x = y
  <2>1. In(s, y) => In(z, y)
    BY Zenon, <1>1 DEF In, n
  <2>2. x = y => In(z, y)
    BY Zenon, <1>1 DEF In
  <2>3. In(z, y) => In(s, y) \/ x = y
    BY Zenon, <1>1 DEF In, n
  <2> QED
    BY Zenon, <2>1, <2>2, <2>3
<1>6. ASSUME Once(s, y), x # y \/ ~In(s, y) PROVE Once(z, y)
  <2> SUFFICES ASSUME NEW i \in 1..Len(z), NEW j \in 1..Len(z), z[i] = y, z[j] = y PROVE i = j
    BY Zenon DEF Once
  <2>1. CASE i \in 1..n /\ j \in 1..n
    BY Zenon, <1>1, <1>6, <2>1 DEF Once, n
  <2>2. CASE i = n + 1 /\ j = n + 1
    BY <2>2
  <2>3. CASE i = n + 1 /\ j \in 1..n
    <3>1. z[j] = s[j] /\ x = y
      BY SMT, <1>1, <2>3
    <3>2. In(s, y)
      BY Zenon, <2>3, <3>1 DEF In, n
    <3> QED
      BY Zenon, <1>6, <3>1, <3>2
  <2>4. CASE j = n + 1 /\ i \in 1..n
    <3>1. z[i] = s[i] /\ x = y
      BY SMT, <1>1, <2>4
    <3>2. In(s, y)
      BY Zenon, <2>4, <3>1 DEF In, n
    <3> QED
      BY Zenon, <1>6, <3>1, <3>2
  <2> QED
    BY Zenon, <1>1, <2>1, <2>2, <2>3, <2>4
<1>7. ASSUME UpTo(s, k), x.type \in {"cnf", "ack"} => x.token <= k PROVE UpTo(z, k)
  <2> SUFFICES ASSUME NEW i \in 1..Len(z), z[i].type \in {"cnf", "ack"} PROVE z[i].token <= k
    BY Zenon DEF UpTo
  <2>1. CASE i \in 1..n
    <3>1. z[i] = s[i] /\ i \in 1..Len(s)
      BY Zenon, <1>1, <2>1 DEF n
    <3> QED
      BY Zenon, <1>7, <3>1 DEF UpTo
  <2>2. CASE i = n + 1
    <3>1. z[i] = x
      BY Zenon, <1>1, <2>2
    <3> QED
      BY Zenon, <1>7, <3>1
  <2> QED
    BY Zenon, <1>1, <2>1, <2>2
<1>8. In(Append(s, x), y) <=> In(s, y) \/ x = y
  BY Zenon, <1>5 DEF z
<1> QED
  BY Zenon, <1>2, <1>4, <1>6, <1>7, <1>8 DEF z

(* The first message is popped.                                            *)
LEMMA Removed ==
  ASSUME FiniteFacts, NEW s \in Seq(Message), s # <<>>, NEW y, NEW k
  PROVE  LET z == Tail(s)
         IN  /\ In(s, y) <=> In(z, y) \/ Head(s) = y
             /\ Once(s, y) => Once(z, y) /\ ~(Head(s) = y /\ In(z, y))
             /\ UpTo(s, k) => UpTo(z, k) /\ (Head(s).type \in {"cnf", "ack"} => Head(s).token <= k)
             /\ Times(z, y) \in Nat
             /\ Times(s, y) = IF Head(s) = y THEN Times(z, y) + 1 ELSE Times(z, y)
<1> DEFINE z == Tail(s)
<1>1. /\ z \in Seq(Message) /\ Len(z) \in Nat /\ Len(s) = Len(z) + 1 /\ Head(s) = s[1] /\ 1 \in 1..Len(s)
      /\ \A i \in 1..Len(z) : i + 1 \in 1..Len(s) /\ z[i] = s[i + 1] /\ i + 1 # 1
      /\ \A i \in 1..Len(s) : i = 1 \/ (i - 1 \in 1..Len(z) /\ z[i - 1] = s[i])
      /\ \A i, j \in 1..Len(z) : i + 1 = j + 1 => i = j
      /\ Len(z) \in 0..Len(z)
  OBVIOUS
<1>2. Times(z, y) \in Nat
  BY Zenon, <1>1, CountNat DEF Times
<1>3. Times(s, y) = IF Head(s) = y THEN Times(z, y) + 1 ELSE Times(z, y)
  <2>1. Count(s, Len(z) + 1, {y}) = IF Head(s) \in {y} THEN Count(z, Len(z), {y}) + 1 ELSE Count(z, Len(z), {y})
    BY <1>1, CountTail
  <2> HIDE DEF z
  <2> QED
    BY <1>1, <2>1 DEF Times
<1> HIDE DEF z
<1>4. In(s, y) <=> In(z, y) \/ Head(s) = y
  <2>1. ASSUME In(z, y) PROVE In(s, y)
    <3>1. PICK i \in 1..Len(z) : z[i] = y
      BY Zenon, <2>1 DEF In
    <3>2. i + 1 \in 1..Len(s) /\ s[i + 1] = y
      BY Zenon, <1>1, <3>1
    <3> QED
      BY Zenon, <3>2 DEF In
  <2>2. Head(s) = y => In(s, y)
    BY Zenon, <1>1 DEF In
  <2>3. ASSUME In(s, y) PROVE In(z, y) \/ Head(s) = y
    <3>1. PICK i \in 1..Len(s) : s[i] = y
      BY Zenon, <2>3 DEF In
    <3>2. i = 1 \/ (i - 1 \in 1..Len(z) /\ z[i - 1] = y)
      BY Zenon, <1>1, <3>1
    <3> QED
      BY Zenon, <1>1, <3>1, <3>2 DEF In
  <2> QED
    BY Zenon, <2>1, <2>2, <2>3
<1>5. ASSUME Once(s, y) PROVE Once(z, y)
  <2> SUFFICES ASSUME NEW i \in 1..Len(z), NEW j \in 1..Len(z), z[i] = y, z[j] = y PROVE i = j
    BY Zenon DEF Once
  <2>a. i + 1 \in 1..Len(s) /\ j + 1 \in 1..Len(s) /\ s[i + 1] = y /\ s[j + 1] = y
    BY Zenon, <1>1
  <2>1. i + 1 = j + 1
    BY Zenon, <1>5, <2>a DEF Once
  <2> QED
    BY Zenon, <1>1, <2>1
<1>6. ASSUME Once(s, y), Head(s) = y, In(z, y) PROVE FALSE
  <2>1. PICK i \in 1..Len(z) : z[i] = y
    BY Zenon, <1>6 DEF In
  <2>a. i + 1 \in 1..Len(s) /\ 1 \in 1..Len(s) /\ s[i + 1] = y /\ s[1] = y
    BY Zenon, <1>1, <1>6, <2>1
  <2>2. i + 1 = 1
    BY Zenon, <1>6, <2>a DEF Once
  <2> QED
    BY Zenon, <1>1, <2>2
<1>7. ASSUME UpTo(s, k) PROVE UpTo(z, k) /\ (Head(s).type \in {"cnf", "ack"} => Head(s).token <= k)
  <2>1. Head(s).type \in {"cnf", "ack"} => Head(s).token <= k
    BY Zenon, <1>1, <1>7 DEF UpTo
  <2>2. ASSUME NEW i \in 1..Len(z), z[i].type \in {"cnf", "ack"} PROVE z[i].token <= k
    <3>1. i + 1 \in 1..Len(s) /\ z[i] = s[i + 1]
      BY Zenon, <1>1
    <3> QED
      BY Zenon, <1>7, <2>2, <3>1 DEF UpTo
  <2> QED
    BY Zenon, <2>1, <2>2 DEF UpTo
<1>8. In(s, y) <=> In(Tail(s), y) \/ Head(s) = y
  BY Zenon, <1>4 DEF z
<1> QED
  BY Zenon, <1>2, <1>3, <1>5, <1>6, <1>7, <1>8 DEF z

(* What is not in a queue is there zero times.                             *)
LEMMA TimesNone ==
  ASSUME FiniteFacts, NEW s \in Seq(Message), NEW y, ~In(s, y)
  PROVE  Times(s, y) = 0
<1>1. Places(s, Len(s), {y}) = {}
  BY Zenon DEF Places, In
<1> QED
  BY Zenon, <1>1 DEF FiniteFacts, NoElement, Times, Count

(* Nothing in the queues is about a round that has not begun.              *)
LEMMA NotYet ==
  ASSUME NEW s \in Seq(Message), NEW k \in Nat, UpTo(s, k), NEW type \in {"cnf", "ack"}
  PROVE  /\ ~In(s, Msg(type, k + 1)) /\ Once(s, Msg(type, k + 1))
         /\ UpTo(s, k + 1)
<1>1. ~In(s, Msg(type, k + 1))
  BY DEF In, UpTo, Msg
<1>2. Once(s, Msg(type, k + 1))
  BY Zenon, <1>1 DEF In, Once
<1>3. ASSUME NEW i \in 1..Len(s), s[i].type \in {"cnf", "ack"} PROVE s[i].token <= k + 1
  <2>1. s[i].token <= k
    BY Zenon, <1>3 DEF UpTo
  <2>2. s[i] \in Message
    OBVIOUS
  <2>3. s[i].token \in Nat
    BY <2>2 DEF Message
  <2> QED
    BY <2>1, <2>3
<1> QED
  BY SMT, <1>1, <1>2, <1>3 DEF UpTo

(* The message queues m, seen by the round with the number k.              *)
Numbered(m, k) ==
  \A t \in Thread : m[t] \in Seq(Message) /\ UpTo(m[t], k) /\ Once(m[t], Msg("cnf", k))

AskedIn(m, k) == {t \in Thread : In(m[t], Msg("cnf", k))}

(* A thread reads a message.                                               *)
LEMMA PopRound ==
  ASSUME FiniteFacts, NEW m \in [Thread -> Seq(Message)], NEW k, Numbered(m, k), NEW t \in Thread, m[t] # <<>>
  PROVE  LET b == [m EXCEPT ![t] = Tail(m[t])]
             h == Head(m[t])
             ack == Msg("ack", k)
         IN  /\ Numbered(b, k)
             /\ AskedIn(b, k) = IF h = Msg("cnf", k) THEN AskedIn(m, k) \ {t} ELSE AskedIn(m, k)
             /\ h = Msg("cnf", k) => t \in AskedIn(m, k)
             /\ h.type \in {"cnf", "ack"} => h.token <= k
             /\ Times(b[0], ack) \in Nat
             /\ Times(m[0], ack) = IF t = 0 /\ h = ack THEN Times(b[0], ack) + 1 ELSE Times(b[0], ack)
<1> DEFINE b == [m EXCEPT ![t] = Tail(m[t])]
           h == Head(m[t])
           c == Msg("cnf", k)
           ack == Msg("ack", k)
<1>1. /\ m[t] \in Seq(Message) /\ UpTo(m[t], k) /\ Once(m[t], c) /\ 0 \in Thread
      /\ \A u \in Thread : m[u] \in Seq(Message) /\ UpTo(m[u], k) /\ Once(m[u], c)
  BY Zenon, Threads DEF Numbered
<1>2. b[t] = Tail(m[t]) /\ (\A u \in Thread : u # t => b[u] = m[u]) /\ Tail(m[t]) \in Seq(Message)
  BY <1>1
<1> HIDE DEF b, h, c, ack
<1>3. /\ In(m[t], c) <=> In(Tail(m[t]), c) \/ h = c
      /\ Once(Tail(m[t]), c) /\ ~(h = c /\ In(Tail(m[t]), c))
      /\ UpTo(Tail(m[t]), k) /\ (h.type \in {"cnf", "ack"} => h.token <= k)
  BY Zenon, <1>1, Removed DEF h
<1>4. /\ Times(Tail(m[t]), ack) \in Nat
      /\ Times(m[t], ack) = IF h = ack THEN Times(Tail(m[t]), ack) + 1 ELSE Times(Tail(m[t]), ack)
  BY Zenon, <1>1, Removed DEF h
<1>5. Numbered(b, k)
  <2> SUFFICES ASSUME NEW u \in Thread PROVE b[u] \in Seq(Message) /\ UpTo(b[u], k) /\ Once(b[u], c)
    BY Zenon DEF Numbered, c
  <2>1. CASE u = t
    BY Zenon, <1>2, <1>3, <2>1
  <2>2. CASE u # t
    BY SMT, <1>1, <1>2, <2>2
  <2> QED
    BY SMT, <2>1, <2>2
<1>6. \A u \in Thread : In(b[u], c) <=> In(m[u], c) /\ ~(h = c /\ u = t)
  BY Zenon, <1>2, <1>3
<1>7. AskedIn(b, k) = IF h = c THEN AskedIn(m, k) \ {t} ELSE AskedIn(m, k)
  <2>1. CASE h = c
    BY Zenon, <1>6, <2>1 DEF AskedIn, c
  <2>2. CASE h # c
    BY Zenon, <1>6, <2>2 DEF AskedIn, c
  <2> QED
    BY Zenon, <2>1, <2>2
<1>8. h = c => t \in AskedIn(m, k)
  BY Zenon, <1>3 DEF AskedIn, c
<1>9. /\ Times(b[0], ack) \in Nat
      /\ Times(m[0], ack) = IF t = 0 /\ h = ack THEN Times(b[0], ack) + 1 ELSE Times(b[0], ack)
  <2>1. CASE t = 0
    BY <1>2, <1>4, <2>1
  <2>2. CASE t # 0
    <3>1. b[0] = m[0] /\ m[0] \in Seq(Message)
      BY Zenon, <1>1, <1>2, <2>2
    <3>2. Len(m[0]) \in Nat
      BY <3>1
    <3>3. Times(m[0], ack) \in Nat
      BY Zenon, <3>2, CountNat DEF Times
    <3> QED
      BY <2>2, <3>1, <3>3
  <2> QED
    BY <2>1, <2>2
<1> QED
  BY Zenon, <1>3, <1>5, <1>7, <1>8, <1>9 DEF b, h, c, ack

(* A thread sends to scheduler 0 what is not a CNF of this round.          *)
LEMMA PushRound ==
  ASSUME FiniteFacts, NEW m \in [Thread -> Seq(Message)], NEW k, Numbered(m, k), NEW x \in Message,
         x # Msg("cnf", k), x.type \in {"cnf", "ack"} => x.token <= k
  PROVE  LET b == [m EXCEPT ![0] = Append(@, x)]
             ack == Msg("ack", k)
         IN  /\ Numbered(b, k)
             /\ AskedIn(b, k) = AskedIn(m, k)
             /\ Times(m[0], ack) \in Nat
             /\ Times(b[0], ack) = IF x = ack THEN Times(m[0], ack) + 1 ELSE Times(m[0], ack)
<1> DEFINE b == [m EXCEPT ![0] = Append(@, x)]
           c == Msg("cnf", k)
           ack == Msg("ack", k)
<1>1. /\ 0 \in Thread
      /\ \A u \in Thread : m[u] \in Seq(Message) /\ UpTo(m[u], k) /\ Once(m[u], c)
  BY SMT, Threads DEF Numbered
<1>2. b[0] = Append(m[0], x) /\ (\A u \in Thread : u # 0 => b[u] = m[u]) /\ Append(m[0], x) \in Seq(Message)
  BY <1>1
<1>x. x # c
  OBVIOUS
<1> HIDE DEF b, c, ack
<1>3. /\ In(Append(m[0], x), c) <=> In(m[0], c) \/ x = c
      /\ Once(Append(m[0], x), c) /\ UpTo(Append(m[0], x), k)
  BY Zenon, <1>1, <1>x, Pushed
<1>4. /\ Times(m[0], ack) \in Nat
      /\ Times(Append(m[0], x), ack) = IF x = ack THEN Times(m[0], ack) + 1 ELSE Times(m[0], ack)
  BY Zenon, <1>1, Pushed
<1>5. Numbered(b, k)
  <2> SUFFICES ASSUME NEW u \in Thread PROVE b[u] \in Seq(Message) /\ UpTo(b[u], k) /\ Once(b[u], c)
    BY Zenon DEF Numbered, c
  <2>1. CASE u = 0
    BY Zenon, <1>2, <1>3, <2>1
  <2>2. CASE u # 0
    BY SMT, <1>1, <1>2, <2>2
  <2> QED
    BY SMT, <2>1, <2>2
<1>6. \A u \in Thread : In(b[u], c) <=> In(m[u], c)
  BY Zenon, <1>2, <1>3, <1>x
<1>7. AskedIn(b, k) = AskedIn(m, k)
  BY Zenon, <1>6 DEF AskedIn, c
<1>8. Times(b[0], ack) = IF x = ack THEN Times(m[0], ack) + 1 ELSE Times(m[0], ack)
  BY Zenon, <1>2, <1>4
<1> QED
  BY Zenon, <1>4, <1>5, <1>7, <1>8 DEF b, c, ack

(* Another message than y is appended.                                     *)
LEMMA PushedOther ==
  ASSUME FiniteFacts, NEW s \in Seq(Message), NEW x \in Message, NEW y, x # y, ~In(s, y)
  PROVE  /\ ~In(Append(s, x), y) /\ Once(Append(s, x), y)
         /\ \A k : UpTo(s, k) /\ (x.type \in {"cnf", "ack"} => x.token <= k) => UpTo(Append(s, x), k)
<1>1. In(Append(s, x), y) <=> In(s, y) \/ x = y
  BY Zenon, Pushed
<1>2. Once(Append(s, x), y)
  BY Zenon, <1>1 DEF Once, In
<1>3. \A k : UpTo(s, k) /\ (x.type \in {"cnf", "ack"} => x.token <= k) => UpTo(Append(s, x), k)
  BY Zenon, Pushed
<1> QED
  BY Zenon, <1>1, <1>2, <1>3

(* A round is given up: nobody is asked any more.                          *)
LEMMA GiveUp ==
  ASSUME FiniteFacts, NEW m, NEW k \in Nat, Numbered(m, k), NEW b, NEW x \in Message, x.type \notin {"cnf", "ack"},
         \A t \in Thread : b[t] = m[t] \/ b[t] = Append(m[t], x)
  PROVE  Numbered(b, k + 1) /\ AskedIn(b, k + 1) = {} /\ Times(b[0], Msg("ack", k + 1)) = 0
<1>1. \A y : x # Msg("cnf", y) /\ x # Msg("ack", y)
  BY DEF Msg
<1>2. ASSUME NEW t \in Thread
      PROVE  /\ b[t] \in Seq(Message) /\ UpTo(b[t], k + 1) /\ Once(b[t], Msg("cnf", k + 1))
             /\ ~In(b[t], Msg("cnf", k + 1)) /\ ~In(b[t], Msg("ack", k + 1))
  <2>1. m[t] \in Seq(Message) /\ UpTo(m[t], k)
    BY Zenon DEF Numbered
  <2>a. "cnf" \in {"cnf", "ack"} /\ "ack" \in {"cnf", "ack"}
    BY Zenon
  <2>2. /\ ~In(m[t], Msg("cnf", k + 1)) /\ Once(m[t], Msg("cnf", k + 1))
        /\ ~In(m[t], Msg("ack", k + 1)) /\ UpTo(m[t], k + 1)
    BY Zenon, <2>1, <2>a, NotYet
  <2>3. CASE b[t] = m[t]
    BY Zenon, <2>1, <2>2, <2>3
  <2>4. CASE b[t] = Append(m[t], x)
    <3>1. Append(m[t], x) \in Seq(Message)
      BY <2>1
    <3>x. x # Msg("cnf", k + 1) /\ x # Msg("ack", k + 1)
      BY Zenon, <1>1
    <3>t. x.type \in {"cnf", "ack"} => x.token <= k + 1
      OBVIOUS
    <3>2. /\ ~In(Append(m[t], x), Msg("cnf", k + 1)) /\ Once(Append(m[t], x), Msg("cnf", k + 1))
          /\ UpTo(Append(m[t], x), k + 1)
      BY Zenon, <3>t, <3>x, <2>1, <2>2, PushedOther
    <3>3. ~In(Append(m[t], x), Msg("ack", k + 1))
      BY Zenon, <3>x, <2>1, <2>2, PushedOther
    <3> QED
      BY Zenon, <2>2, <2>4, <3>x, <3>1, <3>2, <3>3
  <2> QED
    BY Zenon, <2>3, <2>4
<1>3. Times(b[0], Msg("ack", k + 1)) = 0
  BY Zenon, <1>2, Threads, TimesNone
<1>4. AskedIn(b, k + 1) = {}
  BY Zenon, <1>2 DEF AskedIn
<1> QED
  BY Zenon, <1>2, <1>3, <1>4 DEF Numbered

(* A round is started: everybody is asked, and nobody has answered.        *)
LEMMA AskAll ==
  ASSUME FiniteFacts, NEW m, NEW k \in Nat, Numbered(m, k), NEW b,
         \A t \in Thread : b[t] = Append(m[t], Msg("cnf", k + 1))
  PROVE  Numbered(b, k + 1) /\ AskedIn(b, k + 1) = Thread /\ Times(b[0], Msg("ack", k + 1)) = 0
<1> DEFINE x == Msg("cnf", k + 1)
<1>1. x \in Message /\ x.type = "cnf" /\ x.token = k + 1 /\ x # Msg("ack", k + 1) /\ x.token <= k + 1
  BY DEF Msg, Message
<1>x. \A t \in Thread : b[t] = Append(m[t], x)
  OBVIOUS
<1> HIDE DEF x
<1>2. ASSUME NEW t \in Thread
      PROVE  /\ b[t] \in Seq(Message) /\ UpTo(b[t], k + 1) /\ Once(b[t], x)
             /\ In(b[t], x) /\ ~In(b[t], Msg("ack", k + 1))
  <2>1. m[t] \in Seq(Message) /\ UpTo(m[t], k)
    BY Zenon DEF Numbered
  <2>2. ~In(m[t], x) /\ Once(m[t], x) /\ ~In(m[t], Msg("ack", k + 1)) /\ UpTo(m[t], k + 1)
    BY <2>1, NotYet DEF x
  <2>3. Append(m[t], x) \in Seq(Message)
    BY <1>1, <2>1
  <2>4. In(Append(m[t], x), x) /\ Once(Append(m[t], x), x) /\ UpTo(Append(m[t], x), k + 1)
    BY Zenon, <1>1, <2>1, <2>2, Pushed
  <2>x. x \in Message
    BY Zenon, <1>1
  <2>5. ~In(Append(m[t], x), Msg("ack", k + 1))
    BY Zenon, <1>1, <2>x, <2>1, <2>2, PushedOther
  <2> QED
    BY Zenon, <1>1, <1>x, <2>2, <2>3, <2>4, <2>5
<1>3. Times(b[0], Msg("ack", k + 1)) = 0
  BY Zenon, <1>2, Threads, TimesNone
<1>4. AskedIn(b, k + 1) = Thread
  BY Zenon, <1>2 DEF AskedIn, x
<1> QED
  BY Zenon, <1>2, <1>3, <1>4 DEF Numbered, x

(***************************************************************************)
(* What a step does to the round: nothing; one thread answers its CNF or   *)
(* refuses to; scheduler 0 reads an answer, starts a round or gives it up. *)
(***************************************************************************)
RoundKept ==
  Asked' = Asked /\ Pending' = Pending /\ UNCHANGED <<ack_token, ack_count, block_count>>

RoundAnswered(t) ==
  /\ Answers(t) /\ t \in Asked /\ Asked' = Asked \ {t} /\ Pending' = Pending
  /\ UNCHANGED <<ack_token, ack_count, block_count>>

RoundRefused(t) ==
  Refuses(t) /\ Pending' = Pending - 1 /\ UNCHANGED <<ack_token, ack_count, block_count>>

RoundHeard ==
  /\ HearsAnswer /\ Asked' = Asked /\ Pending' = Pending - 1
  /\ ack_count' = ack_count - 1 /\ UNCHANGED <<ack_token, block_count>>

RoundStarted ==
  /\ Asked' = Thread /\ Pending' = N + 1 /\ ack_count' = N + 1
  /\ block_count' = N \/ (ack_count = 0 /\ UNCHANGED block_count)

RoundEnded == Pending' = 0 /\ ack_count' = N

RoundStep ==
  /\ Numbered(mq', ack_token')
  /\ \/ RoundKept \/ RoundHeard \/ RoundStarted \/ RoundEnded
     \/ \E t \in Thread : RoundAnswered(t) \/ RoundRefused(t)

(* What is known of the round before the step, in the terms of the lemmas. *)
LEMMA RoundBefore ==
  ASSUME FiniteFacts, Typed, Rounds
  PROVE  /\ mq \in [Thread -> Seq(Message)] /\ 0 \in Thread
         /\ ack_token \in Nat /\ ack_count \in Int
         /\ Numbered(mq, ack_token)
         /\ Asked = AskedIn(mq, ack_token) /\ IsFiniteSet(Asked) /\ Cardinality(Asked) \in Nat
         /\ Times(mq[0], Ack) \in Nat
         /\ Pending = Cardinality(Asked) + Times(mq[0], Ack)
<1>1. /\ mq \in [Thread -> Seq(Message)] /\ 0 \in Thread
      /\ ack_token \in Nat /\ ack_count \in Int
  BY Zenon, TypedParts, Threads DEF Queues, Counts0
<1>2. Asked = AskedIn(mq, ack_token)
  BY Zenon DEF Asked, AskedIn, Cnf
<1>3. \A t \in Thread : mq[t] \in Seq(Message)
  BY <1>1
<1>4. Numbered(mq, ack_token)
  BY Zenon, <1>3 DEF Numbered, Rounds, Cnf
<1>5. IsFiniteSet(Asked) /\ Cardinality(Asked) \in Nat
  <2>1. Asked \in SUBSET Thread /\ IsFiniteSet(Thread)
    BY Zenon, Threads, ThreadsFinite DEF Asked
  <2> QED
    BY Zenon, <2>1 DEF FiniteFacts, Parts, SizeIsNat
<1>6. Len(mq[0]) \in Nat
  BY <1>1, <1>3
<1>7. Times(mq[0], Ack) \in Nat
  BY Zenon, <1>6, CountNat DEF Times
<1> QED
  BY Zenon, <1>1, <1>2, <1>4, <1>5, <1>7 DEF Pending

(* And after it.                                                           *)
LEMMA RoundAfter ==
  /\ Asked' = AskedIn(mq', ack_token')
  /\ Pending' = Cardinality(AskedIn(mq', ack_token')) + Times(mq'[0], Msg("ack", ack_token'))
<1>1. Asked' = AskedIn(mq', ack_token')
  BY Zenon DEF Asked, AskedIn, Cnf
<1>2. Pending' = Cardinality(Asked') + Times(mq'[0], Msg("ack", ack_token'))
  BY Zenon DEF Pending, Ack
<1> QED
  BY Zenon, <1>1, <1>2

(* A step that leaves the answers and the CNFs of the round alone.         *)
LEMMA RoundSame ==
  ASSUME FiniteFacts, Typed, Rounds, Numbered(mq', ack_token), AskedIn(mq', ack_token) = Asked,
         Times(mq'[0], Ack) = Times(mq[0], Ack), UNCHANGED <<ack_token, ack_count, block_count>>
  PROVE  RoundStep
<1>1. Asked' = Asked
  BY Zenon, RoundAfter
<1>2. Pending' = Cardinality(Asked) + Times(mq[0], Ack)
  BY Zenon, RoundAfter DEF Ack
<1>3. Pending' = Pending
  BY Zenon, <1>2, RoundBefore
<1> QED
  BY Zenon, <1>1, <1>3 DEF RoundStep, RoundKept

(* A message that is not of the round is sent to scheduler 0.              *)
LEMMA RoundSent ==
  ASSUME FiniteFacts, Typed, Rounds, NEW x \in Message, x.type \notin {"cnf", "ack"},
         mq' = [mq EXCEPT ![0] = Append(@, x)], UNCHANGED <<ack_token, ack_count, block_count>>
  PROVE  RoundStep
<1>1. x # Msg("cnf", ack_token) /\ x # Ack
  BY DEF Msg, Ack
<1>2. x.type \in {"cnf", "ack"} => x.token <= ack_token
  OBVIOUS
<1>3. mq \in [Thread -> Seq(Message)] /\ Numbered(mq, ack_token)
  BY Zenon, RoundBefore
<1>4. /\ Numbered(mq', ack_token) /\ AskedIn(mq', ack_token) = AskedIn(mq, ack_token)
      /\ Times(mq'[0], Ack) = IF x = Ack THEN Times(mq[0], Ack) + 1 ELSE Times(mq[0], Ack)
  BY Zenon, <1>1, <1>2, <1>3, PushRound DEF Ack
<1>5. AskedIn(mq', ack_token) = Asked /\ Times(mq'[0], Ack) = Times(mq[0], Ack)
  BY Zenon, <1>1, <1>4, RoundBefore
<1> QED
  BY Zenon, <1>4, <1>5, RoundSame

(* A round is given up.                                                    *)
LEMMA RoundGivenUp ==
  ASSUME FiniteFacts, NEW m, ack_token \in Nat, Numbered(m, ack_token), NEW x \in Message, x.type \notin {"cnf", "ack"},
         \A t \in Thread : mq'[t] = m[t] \/ mq'[t] = Append(m[t], x),
         ack_token' = ack_token + 1, ack_count' = N
  PROVE  RoundStep
<1>1. /\ Numbered(mq', ack_token + 1) /\ AskedIn(mq', ack_token + 1) = {}
      /\ Times(mq'[0], Msg("ack", ack_token + 1)) = 0
  BY Zenon, GiveUp
<1>2. Pending' = Cardinality({}) + 0
  BY Zenon, <1>1, RoundAfter
<1>3. Pending' = 0
  BY <1>2 DEF FiniteFacts, NoElement
<1> QED
  BY Zenon, <1>1, <1>3 DEF RoundStep, RoundEnded

(* A round is started.                                                     *)
LEMMA RoundBegun ==
  ASSUME FiniteFacts, NEW m, ack_token \in Nat, Numbered(m, ack_token),
         \A t \in Thread : mq'[t] = Append(m[t], Msg("cnf", ack_token')),
         ack_token' = ack_token + 1, ack_count' = N + 1,
         block_count' = N \/ (ack_count = 0 /\ UNCHANGED block_count)
  PROVE  RoundStep
<1>1. /\ Numbered(mq', ack_token + 1) /\ AskedIn(mq', ack_token + 1) = Thread
      /\ Times(mq'[0], Msg("ack", ack_token + 1)) = 0
  BY Zenon, AskAll
<1>2. Asked' = Thread /\ Pending' = Cardinality(Thread) + 0
  BY Zenon, <1>1, RoundAfter
<1>3. Pending' = N + 1
  BY <1>2, Threads, ThreadsFinite
<1> QED
  BY Zenon, <1>1, <1>2, <1>3 DEF RoundStep, RoundStarted

(* A thread reads a message.                                               *)
LEMMA RoundRead ==
  ASSUME FiniteFacts, Typed, Rounds, NEW t \in Thread, ReadMsg(t)
  PROVE  RoundStep
<1> DEFINE k == ack_token
           b == Popped(t)
           h == Head(mq[t])
           c == Msg("cnf", k)
<1>1. /\ mq \in [Thread -> Seq(Message)] /\ 0 \in Thread /\ k \in Nat /\ ack_count \in Int
      /\ Numbered(mq, k) /\ Asked = AskedIn(mq, k)
      /\ IsFiniteSet(Asked) /\ Cardinality(Asked) \in Nat /\ Times(mq[0], Ack) \in Nat
      /\ Pending = Cardinality(Asked) + Times(mq[0], Ack)
  BY Zenon, RoundBefore
<1>2. mq[t] # <<>>
  BY Zenon, ReadCases
<1>3. h \in Message
  BY <1>1, <1>2
<1>4. \A y \in Message : /\ y.type # "ack" => y # Ack
                         /\ y.type = "ack" /\ y.token # k => y # Ack
                         /\ y.type = "ack" /\ y.token = k => y = Ack
                         /\ y.type # "cnf" => y # c
                         /\ y.type = "cnf" /\ y.token # k => y # c
                         /\ y.type = "cnf" /\ y.token = k => y = c
  BY DEF Message, Msg, Ack
<1>5. /\ Numbered(b, k) /\ AskedIn(b, k) = IF h = c THEN AskedIn(mq, k) \ {t} ELSE AskedIn(mq, k)
      /\ h = c => t \in AskedIn(mq, k)
      /\ h.type \in {"cnf", "ack"} => h.token <= k
      /\ Times(b[0], Ack) \in Nat
      /\ Times(mq[0], Ack) = IF t = 0 /\ h = Ack THEN Times(b[0], Ack) + 1 ELSE Times(b[0], Ack)
  BY Zenon, <1>1, <1>2, PopRound DEF Popped, Ack
<1>6. b \in [Thread -> Seq(Message)]
  <2>1. \A u \in Thread : b[u] \in Seq(Message)
    BY Zenon, <1>5 DEF Numbered
  <2> QED
    BY SMT, <1>1, <2>1 DEF Popped
<1>7. h = c => Cardinality(Asked \ {t}) = Cardinality(Asked) - 1
  BY Zenon, <1>1, <1>5 DEF FiniteFacts, RemoveElement
<1> HIDE DEF k, b, h, c
<1>8. ASSUME mq' = b, h # c, h # Ack, UNCHANGED <<ack_token, ack_count, block_count>>
      PROVE  RoundStep
  <2>1. Numbered(mq', ack_token) /\ AskedIn(mq', ack_token) = Asked /\ Times(mq'[0], Ack) = Times(mq[0], Ack)
    BY Zenon, <1>1, <1>5, <1>8 DEF k
  <2> QED
    BY Zenon, <1>8, <2>1, RoundSame
<1>9. CASE Answers(t)
  <2> DEFINE x == Msg("ack", h.token)
  <2>1. /\ h.type = "cnf" /\ mq' = [b EXCEPT ![0] = Append(@, x)]
        /\ UNCHANGED <<ack_token, ack_count, block_count>>
    BY Zenon, <1>9 DEF Answers, b, h, sched0, round
  <2>2. x \in Message /\ x.type = "ack" /\ x.token = h.token
    BY <1>3 DEF Message, Msg
  <2> HIDE DEF x
  <2>3. x # c /\ (x.type \in {"cnf", "ack"} => x.token <= k)
    BY Zenon, <1>4, <1>5, <2>1, <2>2
  <2>4. /\ Numbered(mq', k) /\ AskedIn(mq', k) = AskedIn(b, k)
        /\ Times(mq'[0], Ack) = IF x = Ack THEN Times(b[0], Ack) + 1 ELSE Times(b[0], Ack)
    BY Zenon, <1>5, <1>6, <2>1, <2>2, <2>3, PushRound DEF c, k, Ack
  <2>5. Times(b[0], Ack) = Times(mq[0], Ack)
    BY Zenon, <1>3, <1>4, <1>5, <2>1
  <2>6. CASE h.token = k
    <3>1. h = c /\ x = Ack
      BY Zenon, <1>3, <1>4, <2>1, <2>2, <2>6
    <3>2. t \in Asked /\ AskedIn(mq', k) = Asked \ {t} /\ Times(mq'[0], Ack) = Times(mq[0], Ack) + 1
      BY Zenon, <1>1, <1>5, <2>4, <2>5, <3>1
    <3>3. Asked' = Asked \ {t} /\ Pending' = Cardinality(Asked \ {t}) + (Times(mq[0], Ack) + 1)
      BY Zenon, RoundAfter, <2>1, <3>2 DEF k, Ack
    <3>4. Pending' = Pending
      BY SMT, <1>1, <1>7, <3>1, <3>3
    <3> QED
      BY Zenon, <1>9, <2>1, <2>4, <3>2, <3>3, <3>4 DEF RoundStep, RoundAnswered, k
  <2>7. CASE h.token # k
    <3>1. h # c /\ x # Ack
      BY Zenon, <1>3, <1>4, <2>1, <2>2, <2>7
    <3>2. Numbered(mq', ack_token) /\ AskedIn(mq', ack_token) = Asked /\ Times(mq'[0], Ack) = Times(mq[0], Ack)
      BY Zenon, <1>1, <1>5, <2>4, <2>5, <3>1 DEF k
    <3> QED
      BY Zenon, <2>1, <3>2, RoundSame
  <2> QED
    BY Zenon, <2>6, <2>7
<1>10. CASE Refuses(t)
  <2>1. h.type = "cnf" /\ mq' = b /\ UNCHANGED <<ack_token, ack_count, block_count>>
    BY Zenon, <1>10 DEF Refuses, b, h, sched0, round
  <2>2. h # Ack
    BY Zenon, <1>3, <1>4, <2>1
  <2>3. CASE h = c
    <3>1. AskedIn(mq', k) = Asked \ {t} /\ Times(mq'[0], Ack) = Times(mq[0], Ack)
      BY Zenon, <1>1, <1>5, <2>1, <2>2, <2>3
    <3>2. Pending' = Cardinality(Asked \ {t}) + Times(mq[0], Ack)
      BY Zenon, RoundAfter, <2>1, <3>1 DEF k, Ack
    <3>3. Pending' = Pending - 1
      BY SMT, <1>1, <1>7, <2>3, <3>2
    <3> QED
      BY Zenon, <1>5, <1>10, <2>1, <3>3 DEF RoundStep, RoundRefused, k
  <2>4. CASE h # c
    BY Zenon, <1>8, <2>1, <2>2, <2>4
  <2> QED
    BY Zenon, <2>3, <2>4
<1>11. CASE HearsEnd(t) \/ (t = 0 /\ HearsNotice)
  <2>1. h.type \notin {"cnf", "ack"} /\ mq' = b /\ UNCHANGED <<ack_token, ack_count, block_count>>
    <3>1. CASE HearsEnd(t)
      BY <3>1 DEF HearsEnd, b, h, sched0, round
    <3>2. CASE t = 0 /\ HearsNotice
      BY <3>2 DEF HearsNotice, b, h, round
    <3> QED
      BY Zenon, <1>11, <3>1, <3>2
  <2>2. h # c /\ h # Ack
    BY <1>3, <1>4, <2>1
  <2> QED
    BY Zenon, <1>8, <2>1, <2>2
<1>12. CASE t = 0 /\ HearsAnswer
  <2>1. /\ h.type = "ack" /\ mq' = b /\ UNCHANGED <<ack_token, block_count>>
        /\ ack_count' = IF h.token = k THEN ack_count - 1 ELSE ack_count
    BY Zenon, <1>12 DEF HearsAnswer, b, h, k
  <2>2. h # c
    BY Zenon, <1>3, <1>4, <2>1
  <2>3. CASE h.token = k
    <3>1. h = Ack
      BY Zenon, <1>3, <1>4, <2>1, <2>3
    <3>2. AskedIn(mq', k) = Asked /\ Times(mq[0], Ack) = Times(mq'[0], Ack) + 1 /\ Times(mq'[0], Ack) \in Nat
      BY Zenon, <1>1, <1>5, <1>12, <2>1, <2>2, <3>1
    <3>3. Asked' = Asked /\ Pending' = Cardinality(Asked) + Times(mq'[0], Ack)
      BY Zenon, RoundAfter, <2>1, <3>2 DEF k, Ack
    <3>4. Pending' = Pending - 1
      BY SMT, <1>1, <3>2, <3>3
    <3> QED
      BY Zenon, <1>5, <1>12, <2>1, <2>3, <3>3, <3>4 DEF RoundStep, RoundHeard, k
  <2>4. CASE h.token # k
    <3>1. h # Ack
      BY Zenon, <1>3, <1>4, <2>1, <2>4
    <3> QED
      BY Zenon, <1>8, <2>1, <2>2, <2>4, <3>1
  <2> QED
    BY Zenon, <2>3, <2>4
<1>13. CASE t = 0 /\ StartsRound
  <2>1. /\ mq' = [u \in Thread |-> Append(b[u], Msg("cnf", ack_token'))]
        /\ ack_token' = ack_token + 1 /\ ack_count' = N + 1 /\ block_count' = N
    BY Zenon, <1>13 DEF StartsRound, b
  <2>2. \A u \in Thread : mq'[u] = Append(b[u], Msg("cnf", ack_token'))
    BY Zenon, <2>1
  <2>3. ack_token \in Nat /\ Numbered(b, ack_token)
    BY Zenon, <1>1, <1>5 DEF k
  <2> QED
    BY Zenon, <2>1, <2>2, <2>3, RoundBegun
<1>14. CASE t = 0 /\ (EndsRound("block") \/ EndsRound("unblock"))
  <2>1. mq' = b /\ ack_token' = ack_token + 1 /\ ack_count' = N
    BY Zenon, <1>14 DEF EndsRound, b
  <2>2. \A u \in Thread : mq'[u] = b[u]
    BY Zenon, <2>1
  <2>3. ack_token \in Nat /\ Numbered(b, ack_token)
    BY Zenon, <1>1, <1>5 DEF k
  <2>4. Msg("terminate", 0) \in Message /\ Msg("terminate", 0).type \notin {"cnf", "ack"}
    BY DEF Msg, Message
  <2> QED
    BY Zenon, <2>1, <2>2, <2>3, <2>4, RoundGivenUp
<1> QED
  BY Zenon, ReadCases, <1>9, <1>10, <1>11, <1>12, <1>13, <1>14

(* Every step is one of these.                                             *)
LEMMA RoundSteps ==
  ASSUME FiniteFacts, Typed, Rounds, [Next]_vars
  PROVE  RoundStep
<1>0. /\ mq \in [Thread -> Seq(Message)] /\ block_sent \in [Sched -> BOOLEAN] /\ ack_token \in Nat
      /\ 0 \in Thread /\ (\A t \in Sched : t \in Thread) /\ Numbered(mq, ack_token)
  BY Zenon, TypedParts, Threads, RoundBefore DEF Flags0
<1>a. /\ Msg("terminate", 0) \in Message /\ Msg("terminate", 0).type \notin {"cnf", "ack"}
      /\ \A type \in {"noisy", "unnoisy", "block", "unblock"} :
           Msg(type, 0) \in Message /\ Msg(type, 0).type \notin {"cnf", "ack"}
  BY DEF Msg, Message
<1>u. ASSUME UNCHANGED <<mq, ack_token, ack_count, block_count>> PROVE RoundStep
  <2>1. Numbered(mq', ack_token) /\ AskedIn(mq', ack_token) = Asked /\ Times(mq'[0], Ack) = Times(mq[0], Ack)
    BY Zenon, <1>u, RoundBefore
  <2> QED
    BY Zenon, <1>u, <2>1, RoundSame
<1>1. ASSUME UNCHANGED vars PROVE RoundStep
  BY Zenon, <1>1, <1>u DEF vars, sched0, round
<1>2. ASSUME NEW t \in Thread, Send(t) PROVE RoundStep
  BY Zenon, <1>2, <1>u DEF Send, sched0, round
<1>3. ASSUME NEW t \in Thread, Pin(t) PROVE RoundStep
  BY Zenon, <1>3, <1>u DEF Pin, sched0, round
<1>4. ASSUME NEW t \in Thread, Subscribe(t) PROVE RoundStep
  BY Zenon, <1>4, <1>u DEF Subscribe, sched0, round
<1>5. ASSUME NEW t \in Thread, EventDestroy(t) PROVE RoundStep
  BY Zenon, <1>5, <1>u DEF EventDestroy, sched0, round
<1>6. ASSUME NEW t \in Thread, TellNoisy(t) PROVE RoundStep
  <2>1. /\ pc[t] \in {"noisy", "unnoisy"} /\ mq' = [mq EXCEPT ![0] = Append(@, Msg(pc[t], 0))]
        /\ UNCHANGED <<ack_token, ack_count, block_count>>
    BY SMT, <1>6 DEF TellNoisy, sched0, round
  <2>2. Msg(pc[t], 0) \in Message /\ Msg(pc[t], 0).type \notin {"cnf", "ack"}
    BY Zenon, <1>a, <2>1
  <2> QED
    BY Zenon, <2>1, <2>2, RoundSent
<1>7. ASSUME NEW t \in Thread, EndRun(t) PROVE RoundStep
  BY Zenon, <1>7, <1>u DEF EndRun, sched0, round
<1>8. ASSUME NEW t \in Thread, ReadMsg(t) PROVE RoundStep
  BY Zenon, <1>8, RoundRead
<1>9. ASSUME NEW t \in Sched, Begin(t) PROVE RoundStep
  BY Zenon, <1>9, <1>u DEF Begin, sched0, round
<1>10. ASSUME NEW t \in Sched, Route(t) PROVE RoundStep
  BY Zenon, <1>10, <1>u DEF Route, sched0, round
<1>11. ASSUME NEW t \in Sched, StealInject(t) PROVE RoundStep
  BY Zenon, <1>11, <1>u DEF StealInject, sched0, round
<1>12. ASSUME NEW t \in Sched, StealVictim(t) PROVE RoundStep
  BY Zenon, <1>12, <1>u DEF StealVictim, sched0, round
<1>13. ASSUME NEW t \in Sched, Found(t) PROVE RoundStep
  <2>0. UNCHANGED <<ack_token, ack_count, block_count>>
    BY Zenon, <1>13 DEF Found, sched0, round
  <2>1. CASE block_sent[t]
    <3>1. mq' = [mq EXCEPT ![0] = Append(@, Msg("unblock", 0))]
      BY SMT, <1>13, <2>1 DEF Found
    <3>2. Msg("unblock", 0) \in Message /\ Msg("unblock", 0).type \notin {"cnf", "ack"}
      BY Zenon, <1>a
    <3> QED
      BY Zenon, <2>0, <3>1, <3>2, RoundSent
  <2>2. CASE ~block_sent[t]
    <3>1. mq' = mq
      BY Zenon, <1>13, <2>2 DEF Found
    <3> QED
      BY Zenon, <1>u, <2>0, <3>1
  <2> QED
    BY Zenon, <2>1, <2>2
<1>14. ASSUME NEW t \in Sched, Quiet(t) PROVE RoundStep
  <2>0. UNCHANGED block_count
    BY Zenon, <1>14 DEF Quiet
  <2>1. CASE UNCHANGED <<mq, round>>
    BY Zenon, <1>u, <2>0, <2>1 DEF round
  <2>2. CASE ToAll(Msg("terminate", 0)) /\ ack_token' = ack_token + 1 /\ ack_count' = N
    <3>1. \A u \in Thread : mq'[u] = Append(mq[u], Msg("terminate", 0))
      BY Zenon, <2>2 DEF ToAll
    <3> QED
      BY Zenon, <1>0, <1>a, <2>2, <3>1, RoundGivenUp
  <2>3. CASE /\ ToAll(Msg("cnf", ack_token')) /\ MayStop(t)
             /\ ack_token' = ack_token + 1 /\ ack_count' = N + 1
    <3>1. \A u \in Thread : mq'[u] = Append(mq[u], Msg("cnf", ack_token'))
      BY Zenon, <2>3 DEF ToAll
    <3>2. ack_count = 0
      BY Zenon, <2>3 DEF MayStop
    <3> QED
      BY Zenon, <1>0, <2>0, <2>3, <3>1, <3>2, RoundBegun
  <2>4. CASE mq' = mq /\ ack_token' = ack_token + 1 /\ ack_count' = N
    <3>1. \A u \in Thread : mq'[u] = mq[u]
      BY Zenon, <2>4
    <3> QED
      BY Zenon, <1>0, <1>a, <2>4, <3>1, RoundGivenUp
  <2> QED
    BY Zenon, <1>14, <2>1, <2>2, <2>3, <2>4 DEF Quiet
<1>15. ASSUME NEW t \in Sched, Again(t) PROVE RoundStep
  BY Zenon, <1>15, <1>u DEF Again, sched0, round
<1>16. ASSUME NEW t \in Sched, Resume(t) PROVE RoundStep
  BY Zenon, <1>16, <1>u DEF Resume, sched0, round
<1>17. ASSUME NEW t \in Sched, Block(t) PROVE RoundStep
  <2>1. /\ mq' = [mq EXCEPT ![0] = Append(@, Msg("block", 0))]
        /\ UNCHANGED <<ack_token, ack_count, block_count>>
    BY Zenon, <1>17 DEF Block, sched0, round
  <2>2. Msg("block", 0) \in Message /\ Msg("block", 0).type \notin {"cnf", "ack"}
    BY Zenon, <1>a
  <2> QED
    BY Zenon, <2>1, <2>2, RoundSent
<1>18. ASSUME NEW t \in Sched, Suspend(t) PROVE RoundStep
  BY Zenon, <1>18, <1>u DEF Suspend, sched0, round
<1>19. ASSUME Drowsy PROVE RoundStep
  BY Zenon, <1>19, <1>u DEF Drowsy, sched0, round
<1>20. ASSUME FallAsleep PROVE RoundStep
  BY Zenon, <1>20, <1>u DEF FallAsleep, sched0, round
<1>21. ASSUME PinnedRoute PROVE RoundStep
  BY Zenon, <1>21, <1>u DEF PinnedRoute, sched0, round
<1>22. ASSUME PinnedIdle PROVE RoundStep
  BY Zenon, <1>22, <1>u DEF PinnedIdle, sched0, round
<1>23. ASSUME Shutdown PROVE RoundStep
  BY Zenon, <1>23, <1>u DEF Shutdown, sched0, round
<1>24. ASSUME Event PROVE RoundStep
  BY Zenon, <1>24, <1>u DEF Event, sched0, round
<1>25. ASSUME EventWake PROVE RoundStep
  BY Zenon, <1>25, <1>u DEF EventWake, sched0, round
<1> QED
  BY Zenon, Steps, <1>1, <1>2, <1>3, <1>4, <1>5, <1>6, <1>7, <1>8, <1>9, <1>10, <1>11, <1>12, <1>13, <1>14, <1>15, <1>16, <1>17, <1>18, <1>19, <1>20, <1>21, <1>22, <1>23, <1>24, <1>25

(* The answers that may still come are never more than those waited for.   *)
LEMMA RoundsStep ==
  ASSUME FiniteFacts, Typed, Rounds, [Next]_vars
  PROVE  Rounds'
<1>1. RoundStep
  BY Zenon, RoundSteps
<1>2. \A t \in Thread : UpTo(mq'[t], ack_token') /\ Once(mq'[t], Cnf')
  BY Zenon, <1>1 DEF RoundStep, Numbered, Cnf
<1>3. Pending \in Int /\ ack_count \in Int /\ Pending <= ack_count /\ N \in Nat
  <2>1. /\ Cardinality(Asked) \in Nat /\ Times(mq[0], Ack) \in Nat /\ ack_count \in Int
        /\ Pending = Cardinality(Asked) + Times(mq[0], Ack) /\ N \in Nat
    BY Zenon, RoundBefore, Threads
  <2>2. Pending <= ack_count
    BY Zenon DEF Rounds
  <2> QED
    BY SMT, <2>1, <2>2
<1>4. \/ Pending' = Pending /\ ack_count' = ack_count
      \/ Pending' = Pending - 1 /\ (ack_count' = ack_count \/ ack_count' = ack_count - 1)
      \/ Pending' = N + 1 /\ ack_count' = N + 1
      \/ Pending' = 0 /\ ack_count' = N
  BY Zenon, <1>1 DEF RoundStep, RoundKept, RoundAnswered, RoundRefused, RoundHeard, RoundStarted, RoundEnded
<1>5. Pending' <= ack_count'
  BY SMT, <1>3, <1>4
<1> QED
  BY Zenon, <1>2, <1>5 DEF Rounds
=============================================================================
