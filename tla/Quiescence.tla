----------------------------- MODULE Quiescence -----------------------------
(***************************************************************************)
(* The scheduler threads (sched/scheduler.c): running, routing and stealing*)
(* actors, suspending, and the protocol by which they find that there is   *)
(* nothing left to do (BLOCK/UNBLOCK, two rounds of CNF/ACK, TERMINATE),   *)
(* with the pinned-actor thread and the part of the ASIO subsystem that    *)
(* keeps a program alive (noisy subscriptions).                            *)
(*                                                                         *)
(* The runtime is run with --ponynoblock (no cycle detector), and nobody is*)
(* muted: module Backpressure is about that.  A mailbox is reduced to what *)
(* module MessageQ shows of it, that an actor is scheduled once.           *)
(***************************************************************************)
EXTENDS Naturals, Integers, Sequences, FiniteSets

CONSTANTS
  N,          \* scheduler_count
  MinSched,   \* min_scheduler_count
  Actor,
  MayPin,     \* the actors whose code asks to be pinned
  MayListen,  \* the actors whose code makes noisy subscriptions
  None,
  MaxWork     \* bound: sends, reschedules, requests and events in all

ASSUME QuiescenceAssumption ==
  /\ N \in Nat \ {0} /\ MinSched \in 0..N /\ MaxWork \in Nat
  /\ MayPin \subseteq Actor /\ MayListen \subseteq Actor /\ None \notin Actor

Sched  == 0..(N - 1)
P      == N             \* the pinned-actor thread
Thread == 0..N

VARIABLES
  q, inject,        \* the run queues, and the global one
  pinned, noisy,    \* actors pinned; actors with a noisy subscription
  asio,             \* the ASIO thread: wait, wake (after an event), stopped
  mq,               \* the message queue of each thread
  pc, cur,          \* where a thread is, and the actor it has
  block_sent, terminate,
  block_count, ack_token, ack_count, asio_stoppable, asio_noisy,  \* of scheduler 0
  active,           \* active_scheduler_count: threads from this index on sleep
  disabled,         \* temporarily_disable_scheduler_scaling
  work              \* what is left of the bound

queues == <<q, inject>>
actors == <<pinned, noisy, asio, work>>
round  == <<ack_token, ack_count, asio_stoppable>>
sched0 == <<block_count, round, asio_noisy>>
scale  == <<active, disabled>>
vars   == <<queues, actors, mq, pc, cur, block_sent, terminate, sched0, scale>>

(* The first actor, Main, is sent its message by the main thread before it *)
(* starts the schedulers.  It is then already the pinned-actor thread      *)
(* (ponyint_sched_init), so that Main is in the queue of that thread.      *)
Init ==
  /\ \E a \in Actor : q = [t \in Thread |-> IF t = P THEN <<a>> ELSE <<>>]
  /\ inject = <<>>
  /\ pinned = {} /\ noisy = {} /\ asio = "wait"
  /\ mq = [t \in Thread |-> <<>>]
  /\ pc = [t \in Thread |-> IF t = P THEN "top" ELSE "start"]
  /\ cur = [t \in Thread |-> None]
  /\ block_sent = [t \in Sched |-> FALSE]
  /\ terminate = [t \in Thread |-> FALSE]
  /\ block_count = 0 /\ ack_token = 0 /\ ack_count = N
  /\ asio_stoppable = FALSE /\ asio_noisy = 0
  /\ active = N /\ disabled = FALSE
  /\ work = MaxWork

-----------------------------------------------------------------------------
InQueue(s) == {s[i] : i \in DOMAIN s}
Scheduled  == ({cur[t] : t \in Thread} \ {None})
                \cup InQueue(inject) \cup UNION {InQueue(q[t]) : t \in Thread}

Msg(type, token) == [type |-> type, token |-> token]

ToAll(m) == mq' = [t \in Thread |-> Append(mq[t], m)]

Goto(t, l) == pc' = [pc EXCEPT ![t] = l]

(* wake_suspended_pinned_actor_thread, and going on to l oneself.          *)
GotoAndWakePinned(t, l) ==
  pc' = [pc EXCEPT ![t] = l, ![P] = IF @ = "asleep" THEN "top" ELSE @]

(* pop, from t's own queue, and pop_global, from the inject queue or else  *)
(* from t's own: the actor, and the queues that are left.                  *)
Pop(t) ==
  IF q[t] = <<>> THEN [actor |-> None, q |-> q, inject |-> inject]
  ELSE [actor |-> Head(q[t]), q |-> [q EXCEPT ![t] = Tail(@)], inject |-> inject]

PopGlobal(t) ==
  IF inject = <<>> THEN Pop(t)
  ELSE [actor |-> Head(inject), q |-> q, inject |-> Tail(inject)]

-----------------------------------------------------------------------------
(***************************************************************************)
(* The actor a thread runs.                                                *)
(***************************************************************************)
(* A message to an actor that is not scheduled schedules it here.          *)
Send(t) ==
  /\ pc[t] = "actor" /\ work > 0
  /\ \E a \in Actor \ Scheduled : q' = [q EXCEPT ![t] = Append(@, a)]
  /\ work' = work - 1
  /\ UNCHANGED <<inject, pinned, noisy, asio, mq, pc, cur, block_sent, terminate, sched0, scale>>

(* pony_actor_set_pinned and pony_actor_unset_pinned.                      *)
Pin(t) ==
  /\ pc[t] = "actor" /\ work > 0 /\ cur[t] \in MayPin
  /\ pinned' = IF cur[t] \in pinned THEN pinned \ {cur[t]} ELSE pinned \cup {cur[t]}
  /\ work' = work - 1
  /\ UNCHANGED <<queues, noisy, asio, mq, pc, cur, block_sent, terminate, sched0, scale>>

(* pony_asio_event_subscribe and _destroy of a noisy event: count it, then,*)
(* if it is the first or was the last, tell the schedulers (only scheduler *)
(* 0 ever looks at what it was told).                                      *)
Subscribe(t) ==
  /\ pc[t] = "actor" /\ work > 0 /\ cur[t] \in MayListen \ noisy
  /\ noisy' = noisy \cup {cur[t]}
  /\ Goto(t, IF noisy = {} THEN "noisy" ELSE "actor")
  /\ work' = work - 1
  /\ UNCHANGED <<queues, pinned, asio, mq, cur, block_sent, terminate, sched0, scale>>

EventDestroy(t) ==
  /\ pc[t] = "actor" /\ cur[t] \in noisy
  /\ noisy' = noisy \ {cur[t]}
  /\ Goto(t, IF noisy' = {} THEN "unnoisy" ELSE "actor")
  /\ UNCHANGED <<queues, pinned, asio, work, mq, cur, block_sent, terminate, sched0, scale>>

TellNoisy(t) ==
  /\ pc[t] \in {"noisy", "unnoisy"}
  /\ mq' = [mq EXCEPT ![0] = Append(@, Msg(pc[t], 0))]
  /\ Goto(t, "actor")
  /\ UNCHANGED <<queues, actors, cur, block_sent, terminate, sched0, scale>>

(* Mutant: a count that is not bounded by the number of threads.           *)
WokenUnbounded(t, waiting) ==
  IF t = P THEN {IF active = 0 THEN 1 ELSE active}
  ELSE IF waiting THEN {active, active + 1} ELSE {active}

(* The count after a run: with another actor waiting, a scheduler may be   *)
(* woken (ponyint_sched_maybe_wakeup, which gives up if another thread is  *)
(* changing the count); the pinned-actor thread wakes one if all are asleep*)
(* (ponyint_sched_maybe_wakeup_if_all_asleep).                             *)
Woken(t, waiting) ==
  IF t = P THEN {IF active = 0 THEN 1 ELSE active}
  ELSE IF waiting /\ active < N THEN {active, active + 1} ELSE {active}

(* The run ends, and the thread gets the next actor.                       *)
EndRun(t) ==
  /\ pc[t] = "actor"
  /\ \E reschedule \in BOOLEAN :
       LET next  == IF t = P THEN Pop(t) ELSE PopGlobal(t)
           other == reschedule /\ next.actor # None
       IN  /\ reschedule => work > 0
           /\ work' = IF reschedule THEN work - 1 ELSE work
           /\ inject' = next.inject
           /\ q' = IF other THEN [next.q EXCEPT ![t] = Append(@, cur[t])] ELSE next.q
           /\ cur' = IF reschedule /\ ~other THEN cur ELSE [cur EXCEPT ![t] = next.actor]
           /\ active' \in Woken(t, other)
  /\ Goto(t, "top")
  /\ UNCHANGED <<pinned, noisy, asio, mq, block_sent, terminate, sched0, disabled>>

-----------------------------------------------------------------------------
(***************************************************************************)
(* read_msg.                                                               *)
(***************************************************************************)
(* Mutant: the pinned-actor thread is not asked, but waited for.           *)
HandleBlockSchedulers(rest) ==
  /\ block_count' = block_count + 1
  /\ ack_token' = ack_token + 1
  /\ asio_stoppable' = FALSE
  /\ IF asio_noisy = 0 /\ block_count' = N
       THEN /\ ack_count' = N + 1
            /\ mq' = [t \in Thread |->
                        IF t = P THEN mq[t]
                        ELSE Append(IF t = 0 THEN rest ELSE mq[t], Msg("cnf", ack_token'))]
            /\ disabled' = TRUE /\ active' = N
       ELSE /\ ack_count' = N
            /\ mq' = [mq EXCEPT ![0] = rest]
            /\ disabled' = FALSE /\ UNCHANGED active

(* SCHED_BLOCK and SCHED_UNBLOCK, at scheduler 0.                          *)
HandleBlock(rest) ==
  /\ block_count' = block_count + 1
  /\ ack_token' = ack_token + 1
  /\ asio_stoppable' = FALSE
  /\ IF asio_noisy = 0 /\ block_count' = N
       THEN /\ ack_count' = N + 1
            /\ mq' = [t \in Thread |->
                        Append(IF t = 0 THEN rest ELSE mq[t], Msg("cnf", ack_token'))]
            /\ disabled' = TRUE /\ active' = N
       ELSE /\ ack_count' = N
            /\ mq' = [mq EXCEPT ![0] = rest]
            /\ disabled' = FALSE /\ UNCHANGED active

(* Mutants: an unblock that does not count, and one that keeps the token,  *)
(* so that what was acknowledged before it still counts.                   *)
HandleUnblockUncounted ==
  /\ ack_token' = ack_token + 1
  /\ asio_stoppable' = FALSE
  /\ ack_count' = N
  /\ disabled' = FALSE
  /\ UNCHANGED block_count

HandleUnblockSameToken ==
  /\ block_count' = block_count - 1
  /\ asio_stoppable' = FALSE
  /\ ack_count' = N
  /\ disabled' = FALSE
  /\ UNCHANGED ack_token

HandleUnblock ==
  /\ block_count' = block_count - 1
  /\ ack_token' = ack_token + 1
  /\ asio_stoppable' = FALSE
  /\ ack_count' = N
  /\ disabled' = FALSE

ReadMsg(t) ==
  /\ pc[t] \in {"top", "sread", "dread"} /\ mq[t] # <<>>
  /\ LET m == Head(mq[t])
         rest == Tail(mq[t])
         popped == [mq EXCEPT ![t] = rest]
     IN  \/ /\ m.type = "block" /\ HandleBlock(rest)
            /\ UNCHANGED <<terminate, asio_noisy>>
         \/ /\ m.type = "unblock" /\ HandleUnblock
            /\ mq' = popped
            /\ UNCHANGED <<terminate, asio_noisy, active>>
         \/ /\ m.type = "cnf"
            /\ mq' = IF cur[t] = None
                       THEN [popped EXCEPT ![0] = Append(@, Msg("ack", m.token))]
                       ELSE popped
            /\ UNCHANGED <<terminate, sched0, scale>>
         \/ /\ m.type = "ack"
            /\ ack_count' = IF m.token = ack_token THEN ack_count - 1 ELSE ack_count
            /\ mq' = popped
            /\ UNCHANGED <<terminate, block_count, ack_token, asio_stoppable, asio_noisy, scale>>
         \/ /\ m.type = "terminate"
            /\ terminate' = [terminate EXCEPT ![t] = TRUE]
            /\ mq' = popped
            /\ UNCHANGED <<sched0, scale>>
         \/ /\ m.type \in {"noisy", "unnoisy"}
            /\ asio_noisy' = IF m.type = "noisy" THEN asio_noisy + 1 ELSE asio_noisy - 1
            /\ mq' = popped
            /\ UNCHANGED <<terminate, block_count, round, scale>>
  /\ UNCHANGED <<queues, actors, pc, cur, block_sent>>

-----------------------------------------------------------------------------
(***************************************************************************)
(* run, for a scheduler thread.  It starts with an actor from the queues;  *)
(* with its messages read, it gives a pinned actor to the pinned-actor     *)
(* thread and takes another, runs an actor, or steals.                     *)
(***************************************************************************)
Begin(t) ==
  /\ pc[t] = "start"
  /\ LET next == PopGlobal(t)
     IN  /\ q' = next.q /\ inject' = next.inject
         /\ cur' = [cur EXCEPT ![t] = next.actor]
  /\ Goto(t, "top")
  /\ UNCHANGED <<actors, mq, block_sent, terminate, sched0, scale>>

Route(t) ==
  /\ t # P /\ \/ pc[t] = "top" /\ mq[t] = <<>>
              \/ pc[t] = "route"
  /\ IF cur[t] \in pinned
       THEN LET next == PopGlobal(t)
            IN  /\ inject' = next.inject
                /\ q' = [next.q EXCEPT ![P] = Append(@, cur[t])]
                /\ cur' = [cur EXCEPT ![t] = next.actor]
                /\ GotoAndWakePinned(t, "route")
       ELSE /\ Goto(t, IF cur[t] = None THEN "inject" ELSE "actor")
            /\ UNCHANGED <<queues, cur>>
  /\ UNCHANGED <<actors, mq, block_sent, terminate, sched0, scale>>

(* Mutant: the actor stays in the inject queue.                            *)
StealInjectKeeps(t) ==
  /\ pc[t] = "inject"
  /\ IF inject = <<>>
       THEN Goto(t, "victim") /\ UNCHANGED cur
       ELSE /\ cur' = [cur EXCEPT ![t] = Head(inject)]
            /\ Goto(t, "found")
  /\ UNCHANGED <<queues, actors, mq, block_sent, terminate, sched0, scale>>

(* steal: look in the inject queue, then in a victim's.                    *)
StealInject(t) ==
  /\ pc[t] = "inject"
  /\ IF inject = <<>>
       THEN Goto(t, "victim") /\ UNCHANGED <<inject, cur>>
       ELSE /\ cur' = [cur EXCEPT ![t] = Head(inject)]
            /\ inject' = Tail(inject)
            /\ Goto(t, "found")
  /\ UNCHANGED <<q, actors, mq, block_sent, terminate, sched0, scale>>

StealVictim(t) ==
  /\ pc[t] = "victim"
  /\ \/ /\ Goto(t, "sread")
        /\ N > 1 => \E v \in Sched \ {t} : q[v] = <<>>
        /\ UNCHANGED <<q, cur>>
     \/ \E v \in Sched \ {t} :
          /\ q[v] # <<>>
          /\ cur' = [cur EXCEPT ![t] = Head(q[v])]
          /\ q' = [q EXCEPT ![v] = Tail(@)]
          /\ Goto(t, "found")
  /\ UNCHANGED <<inject, actors, mq, block_sent, terminate, sched0, scale>>

(* An actor was found: unblock, and run the actor, or hand it to the       *)
(* pinned-actor thread and steal again.                                    *)
Found(t) ==
  /\ pc[t] = "found"
  /\ mq' = IF block_sent[t] THEN [mq EXCEPT ![0] = Append(@, Msg("unblock", 0))] ELSE mq
  /\ block_sent' = [block_sent EXCEPT ![t] = FALSE]
  /\ IF cur[t] \in pinned
       THEN /\ q' = [q EXCEPT ![P] = Append(@, cur[t])]
            /\ cur' = [cur EXCEPT ![t] = None]
            /\ GotoAndWakePinned(t, "inject")
       ELSE Goto(t, "actor") /\ UNCHANGED <<q, cur>>
  /\ UNCHANGED <<inject, actors, terminate, sched0, scale>>

(* Mutant: the acknowledgements are not waited for.                        *)
MayStopUnacked(t) == t = 0 /\ asio_noisy = 0

(* When scheduler 0 may go on with the shutdown.                           *)
MayStop(t) == t = 0 /\ asio_noisy = 0 /\ ack_count = 0

(* quiescent, once no message is left.                                     *)
Quiet(t) ==
  /\ pc[t] = "sread" /\ mq[t] = <<>>
  /\ IF terminate[t]
       THEN Goto(t, "done") /\ UNCHANGED <<mq, round, asio, scale>>
     ELSE IF ~ MayStop(t)
       THEN Goto(t, "idle") /\ UNCHANGED <<mq, round, asio, scale>>
     ELSE /\ ack_token' = ack_token + 1
          /\ \/ (* ponyint_asio_stop, which joins the ASIO thread *)
                /\ asio_stoppable /\ noisy = {} /\ asio # "wake"
                /\ asio' = "stopped"
                /\ ToAll(Msg("terminate", 0))
                /\ active' = N
                /\ ack_count' = N
                /\ GotoAndWakePinned(t, "idle")
                /\ UNCHANGED <<asio_stoppable, disabled>>
             \/ (* ponyint_asio_stoppable: another round *)
                /\ ~asio_stoppable /\ noisy = {}
                /\ asio_stoppable' = TRUE
                /\ ack_count' = N + 1
                /\ ToAll(Msg("cnf", ack_token'))
                /\ Goto(t, "idle")
                /\ UNCHANGED <<asio, scale>>
             \/ /\ noisy # {}
                /\ asio_stoppable' = FALSE
                /\ ack_count' = N
                /\ disabled' = FALSE
                /\ Goto(t, "idle")
                /\ UNCHANGED <<mq, asio, active>>
  /\ UNCHANGED <<queues, pinned, noisy, work, cur, block_sent, terminate, block_count, asio_noisy>>

(* Having found nothing for long enough, a thread says that it is blocked. *)
Block(t) ==
  /\ pc[t] = "idle" /\ ~block_sent[t] /\ (t > 0 \/ asio_noisy = 0)
  /\ mq' = [mq EXCEPT ![0] = Append(@, Msg("block", 0))]
  /\ block_sent' = [block_sent EXCEPT ![t] = TRUE]
  /\ UNCHANGED <<queues, actors, pc, cur, terminate, sched0, scale>>

(* steal starts over.  During a CNF/ACK round scheduler 0 wakes everybody. *)
Again(t) ==
  /\ pc[t] = "idle" /\ t # P
  /\ IF t = 0 /\ disabled
       THEN active' = N /\ GotoAndWakePinned(t, "inject")
       ELSE Goto(t, "inject") /\ UNCHANGED active
  /\ UNCHANGED <<queues, actors, mq, cur, block_sent, terminate, sched0, disabled>>

-----------------------------------------------------------------------------
(***************************************************************************)
(* perhaps_suspend_scheduler and suspend_scheduler: the last active thread *)
(* may suspend when all that should be awake are.  Scheduler 0 does so only*)
(* while ASIO is noisy, and looks once more before it sleeps.              *)
(***************************************************************************)
Suspend(t) ==
  /\ pc[t] = "idle" /\ t # P
  /\ block_sent[t] \/ (t = 0 /\ asio_noisy # 0)
  /\ active > MinSched /\ t = active - 1 /\ ~disabled /\ ~terminate[t]
  /\ \A u \in 0..(active - 1) : pc[u] \notin {"asleep", "drowsy", "dread"}
  /\ t > 0 \/ asio_noisy # 0
  /\ active' = active - 1
  /\ Goto(t, IF t = 0 THEN "drowsy" ELSE "asleep")
  /\ UNCHANGED <<queues, actors, mq, cur, block_sent, terminate, sched0, disabled>>

Drowsy ==
  /\ pc[0] = "drowsy"
  /\ IF inject # <<>>
       THEN /\ cur' = [cur EXCEPT ![0] = Head(inject)]
            /\ inject' = Tail(inject)
            /\ active' = IF active = 0 THEN 1 ELSE active
            /\ Goto(0, "found")
       ELSE Goto(0, "dread") /\ UNCHANGED <<inject, cur, active>>
  /\ UNCHANGED <<q, actors, mq, block_sent, terminate, sched0, disabled>>

FallAsleep ==
  /\ pc[0] = "dread" /\ mq[0] = <<>>
  /\ IF asio_noisy = 0
       THEN Goto(0, "inject") /\ active' = IF active = 0 THEN 1 ELSE active
       ELSE Goto(0, "asleep") /\ UNCHANGED active
  /\ UNCHANGED <<queues, actors, mq, cur, block_sent, terminate, sched0, disabled>>

Resume(t) ==
  /\ t # P /\ pc[t] = "asleep" /\ active > t
  /\ Goto(t, "inject")
  /\ UNCHANGED <<queues, actors, mq, cur, block_sent, terminate, sched0, scale>>

-----------------------------------------------------------------------------
(***************************************************************************)
(* run_pinned_actors.                                                      *)
(***************************************************************************)
PinnedRoute ==
  /\ \/ pc[P] = "top" /\ mq[P] = <<>>
     \/ pc[P] = "route"
  /\ IF pc[P] = "top" /\ terminate[P]
       THEN Goto(P, "done") /\ UNCHANGED <<queues, cur>>
     ELSE IF cur[P] = None /\ q[P] # <<>>
       THEN /\ cur' = [cur EXCEPT ![P] = Head(q[P])]
            /\ q' = [q EXCEPT ![P] = Tail(@)]
            /\ Goto(P, "route")
            /\ UNCHANGED inject
     ELSE IF cur[P] # None /\ cur[P] \notin pinned
       THEN /\ inject' = Append(inject, cur[P])
            /\ cur' = [cur EXCEPT ![P] = None]
            /\ Goto(P, "route")
            /\ UNCHANGED q
     ELSE Goto(P, IF cur[P] = None THEN "idle" ELSE "actor") /\ UNCHANGED <<queues, cur>>
  /\ UNCHANGED <<actors, mq, block_sent, terminate, sched0, scale>>

PinnedIdle ==
  /\ pc[P] = "idle"
  /\ \E l \in {"top", "asleep"} :
       /\ l = "asleep" => ~terminate[P] /\ ~disabled
       /\ Goto(P, l)
  /\ UNCHANGED <<queues, actors, mq, cur, block_sent, terminate, sched0, scale>>

(* When the main thread, which is the pinned-actor thread, has left its    *)
(* loop, ponyint_sched_shutdown wakes the schedulers and waits for them.   *)
Shutdown ==
  /\ pc[P] = "done" /\ active < N
  /\ active' = N
  /\ UNCHANGED <<queues, actors, mq, pc, cur, block_sent, terminate, sched0, disabled>>

-----------------------------------------------------------------------------
(***************************************************************************)
(* The ASIO thread: an event for a subscriber goes to the inject queue     *)
(* (ponyint_sendv_inject), then a scheduler is woken if all are asleep.    *)
(***************************************************************************)
Event ==
  /\ asio = "wait" /\ work > 0
  /\ \E a \in noisy :
       inject' = IF a \in Scheduled THEN inject ELSE Append(inject, a)
  /\ asio' = "wake"
  /\ work' = work - 1
  /\ UNCHANGED <<q, pinned, noisy, mq, pc, cur, block_sent, terminate, sched0, scale>>

(* Mutant: the ASIO thread wakes nobody.                                   *)
EventWakesNobody ==
  /\ asio = "wake"
  /\ asio' = "wait"
  /\ UNCHANGED <<queues, pinned, noisy, work, mq, pc, cur, block_sent, terminate, sched0, scale>>

EventWake ==
  /\ asio = "wake"
  /\ active' = IF active = 0 THEN 1 ELSE active
  /\ asio' = "wait"
  /\ UNCHANGED <<queues, pinned, noisy, work, mq, pc, cur, block_sent, terminate, sched0, disabled>>

Run(t) ==
  \/ Send(t) \/ Pin(t) \/ Subscribe(t) \/ EventDestroy(t) \/ TellNoisy(t) \/ EndRun(t)

SchedStep(t) ==
  \/ Begin(t) \/ Run(t) \/ ReadMsg(t) \/ Route(t) \/ StealInject(t) \/ StealVictim(t) \/ Found(t)
  \/ Quiet(t) \/ Again(t) \/ Resume(t)
  \/ t = 0 /\ (Drowsy \/ FallAsleep)

PinnedStep == Run(P) \/ ReadMsg(P) \/ PinnedRoute \/ PinnedIdle \/ Shutdown

(* The program has ended, or waits for events that do not come.            *)
Rest ==
  /\ (\A t \in Thread : pc[t] = "done") \/ (noisy # {} /\ work = 0)
  /\ UNCHANGED vars

Next ==
  \/ \E t \in Sched : SchedStep(t) \/ Block(t) \/ Suspend(t)
  \/ PinnedStep
  \/ Event \/ EventWake
  \/ Rest

Spec == Init /\ [][Next]_vars

(* The operating system runs every thread; a run ends (its sends and       *)
(* requests are bounded); and a thread that finds nothing again and again  *)
(* sees the time pass after which it says that it is blocked.              *)
Fairness ==
  /\ \A t \in Sched : WF_vars(SchedStep(t)) /\ SF_vars(Block(t))
  /\ WF_vars(PinnedStep)
  /\ WF_vars(EventWake)

FairSpec == Spec /\ Fairness

(* Main has been taken up: the pinned-actor thread has passed it on (only  *)
(* pinned actors stay there), and what is in the inject queue is there for *)
(* an event.                                                               *)
Started ==
  /\ (InQueue(q[P]) \cup {cur[P]}) \ {None} \subseteq pinned
  /\ InQueue(inject) \subseteq noisy

(* No round of CNF and ACK begins before that.  Nothing in the code makes  *)
(* sure of it, only time: all the schedulers would have to find nothing for*)
(* long enough to say that they are blocked while the main thread, which   *)
(* started them, has not come to popping Main, or nobody to taking it from *)
(* the inject queue.                                                       *)
StartsInTime == ack_count > N => Started

(* The behaviours in which, moreover, none of them is so quick.            *)
BlocksInTime == (\E t \in Sched : block_sent[t]) => Started

TimelyNext == Next /\ BlocksInTime'

TimelyFairSpec == Init /\ [][TimelyNext]_vars /\ Fairness

-----------------------------------------------------------------------------
(* The type of the state.                                                  *)
TypeOK ==
  /\ q \in [Thread -> Seq(Actor)] /\ inject \in Seq(Actor)
  /\ pinned \subseteq MayPin /\ noisy \subseteq MayListen
  /\ asio \in {"wait", "wake", "stopped"}
  /\ \A t \in Thread : \A i \in DOMAIN mq[t] :
       /\ mq[t][i].type \in {"cnf", "terminate"} \/ t = 0
       /\ mq[t][i].token \in Nat
  /\ pc \in [Thread -> {"start", "top", "route", "actor", "noisy", "unnoisy", "inject", "victim", "found",
                        "sread", "idle", "drowsy", "dread", "asleep", "done"}]
  /\ cur \in [Thread -> Actor \cup {None}]
  /\ block_sent \in [Sched -> BOOLEAN] /\ terminate \in [Thread -> BOOLEAN]
  /\ block_count \in Int /\ ack_token \in Nat /\ ack_count \in Int
  /\ asio_stoppable \in BOOLEAN /\ asio_noisy \in Int
  /\ active \in 0..N /\ disabled \in BOOLEAN /\ work \in 0..MaxWork

(* How many messages of a type scheduler 0 has still to read.              *)
Unread(type) == Cardinality({i \in DOMAIN mq[0] : mq[0][i].type = type})

(* No actor is ever in two places: two queues, two threads, or both.       *)
ScheduledOnce ==
  LET at(a, s) == Cardinality({i \in DOMAIN s : s[i] = a})
  IN  \A a \in Actor :
        LET places == {t \in Thread : cur[t] = a} \cup {N + 1 + t : t \in {u \in Thread : at(a, q[u]) > 0}}
        IN  /\ at(a, inject) + Cardinality(places) <= 1
            /\ \A t \in Thread : at(a, q[t]) <= 1

(* Scheduler 0 counts the blocked threads right: its count and the messages*)
(* it has not read make up the threads that have said they are blocked, and*)
(* the count stays within scheduler_count (asserted in handle_sched_block),*)
(* as the count of noisy notices stays above zero (asserted in read_msg).  *)
BlockCountExact ==
  /\ block_count + Unread("block") - Unread("unblock") = Cardinality({t \in Sched : block_sent[t]})
  /\ block_count \in 0..N
  /\ asio_noisy >= 0

(* Everyone that acknowledged a round had nothing to run: acknowledgements *)
(* are never more than the threads asked.                                  *)
AcksBounded == ack_count >= 0

(* Once scheduler 0 has stopped the ASIO thread, which is how it decides to*)
(* terminate (quiescent), no actor is scheduled anywhere and nothing is    *)
(* listened for, however the schedulers steal, suspend, block and unblock  *)
(* while the rounds are on their way.  It is so where Main starts in time. *)
TerminatesIdle == asio = "stopped" => Scheduled = {} /\ noisy = {}

(* A thread that has terminated leaves nothing in its queue: the assertion *)
(* pop(sched) == NULL in run, and in run_pinned_actors.                    *)
DrainedAtExit == \A t \in Thread : pc[t] = "done" => q[t] = <<>>

(* Once nobody listens any more, the program terminates.                   *)
Terminates == <>[](noisy = {}) => <>(\A t \in Thread : pc[t] = "done")

(* A scheduled actor is run: whoever pushes an actor, or suspends, leaves  *)
(* somebody awake that will find it, and the program does not end before.  *)
(* It is so where Main starts in time.                                     *)
ScheduledRuns ==
  \A a \in Actor : a \in Scheduled ~> \E t \in Thread : cur[t] = a /\ pc[t] = "actor"

(* While somebody listens, so that the program cannot end, an actor that   *)
(* was given to the pinned-actor thread is taken from its queue: the thread*)
(* that gave it also woke the pinned-actor thread.                         *)
HandedOverIsTaken ==
  \A a \in Actor :
    a \in InQueue(q[P]) /\ noisy # {} ~> a \notin InQueue(q[P]) \/ noisy = {}
=============================================================================
