---------------------------- MODULE Backpressure ----------------------------
(***************************************************************************)
(* Backpressure (actor/actor.c, sched/scheduler.c, sched/mutemap.c).  An   *)
(* actor that sends to an overloaded, pressured or muted actor is put in   *)
(* the mute map of the scheduler that runs it, under the receiver, and is  *)
(* not scheduled after that behaviour.  When a receiver recovers, it clears*)
(* its flag and a message SCHED_UNMUTE_ACTOR goes to every active scheduler*)
(* thread; each reschedules the senders that its own map held for it alone,*)
(* and announces those in turn.                                            *)
(*                                                                         *)
(* An actor's flags are written by the thread that runs or unmutes it and  *)
(* read by all.  Reading a receiver's flags, pushing to its mailbox,       *)
(* clearing a flag, reading the set of active schedulers, and each message *)
(* of an announcement are steps of their own; what only one thread touches *)
(* (its mute map, the count of an actor it runs or holds) changes with the *)
(* step before it.                                                         *)
(***************************************************************************)
EXTENDS Naturals, Sequences, FiniteSets

CONSTANTS
  Actor,
  Sched,        \* scheduler threads, the pinned-actor thread among them
  Pinned,       \* the pinned-actor thread
  PinnedActor,  \* the actors that only the pinned-actor thread runs
  None,
  MaxMsgs       \* bound: unread messages of one scheduler

ASSUME BackpressureAssumption ==
  /\ PinnedActor \subseteq Actor
  /\ None \notin Actor
  /\ IsFiniteSet(Actor) /\ IsFiniteSet(Sched)
  /\ MaxMsgs \in Nat

VARIABLES
  flags,     \* the sync flags of an actor that trigger muting
  muted,     \* actor->muted: how many receivers an actor waits for
  loc,       \* where an actor is: idle, queued, running, or held (muted)
  mutemap,   \* sched->mute_mapping: receiver => the senders muted for it
  mq,        \* sched->mq: the actors of the unread SCHED_UNMUTE_ACTOR
  pc,        \* what a scheduler thread is doing
  cur,       \* the actor it runs
  app,       \* ponyint_actor_run: app > 0, a behaviour was run
  stack,     \* ponyint_sched_unmute_senders: the local needs_unmuting
  who,       \* the receiver of a send, or the actor being announced,
  to,        \*   the schedulers still to be sent the announcement,
  back       \*   and what its caller does next

actors == <<flags, muted, loc>>
run    == <<cur, app>>
sends  == <<who, to, back>>
vars   == <<actors, mutemap, mq, pc, run, stack, sends>>

Awake(s) == pc[s] # "asleep"

Init ==
  /\ flags = [a \in Actor |-> {}]
  /\ muted = [a \in Actor |-> 0]
  /\ loc = [a \in Actor |-> "queued"]
  /\ mutemap = [s \in Sched |-> [a \in Actor |-> {}]]
  /\ mq = [s \in Sched |-> <<>>]
  /\ pc = [s \in Sched |-> "read"]
  /\ cur = [s \in Sched |-> None]
  /\ app = [s \in Sched |-> FALSE]
  /\ stack = [s \in Sched |-> {}]
  /\ who = [s \in Sched |-> None]
  /\ to = [s \in Sched |-> {}]
  /\ back = [s \in Sched |-> "read"]

-----------------------------------------------------------------------------
(***************************************************************************)
(* ponyint_sched_start_global_unmute: read the active schedulers, send to  *)
(* each of them, and last to the pinned-actor thread if it is awake.       *)
(***************************************************************************)
Announce(s, a, then) ==
  /\ who' = [who EXCEPT ![s] = a]
  /\ back' = [back EXCEPT ![s] = then]
  /\ pc' = [pc EXCEPT ![s] = "announce"]
  /\ UNCHANGED to

CountActive(s) ==
  /\ pc[s] = "announce"
  /\ to' = [to EXCEPT ![s] = {u \in Sched \ {Pinned} : Awake(u)}]
  /\ pc' = [pc EXCEPT ![s] = "notify"]
  /\ UNCHANGED <<actors, mutemap, mq, run, stack, who, back>>

Notify(s) ==
  /\ pc[s] = "notify"
  /\ \E u \in to[s] :
       /\ Len(mq[u]) < MaxMsgs
       /\ mq' = [mq EXCEPT ![u] = Append(@, who[s])]
       /\ to' = [to EXCEPT ![s] = @ \ {u}]
  /\ UNCHANGED <<actors, mutemap, pc, run, stack, who, back>>

(* Mutant: the pinned-actor thread is not told.                            *)
NotifyPinnedNever(s) ==
  /\ pc[s] = "notify" /\ to[s] = {}
  /\ pc' = [pc EXCEPT ![s] = back[s]]
  /\ who' = [who EXCEPT ![s] = None]
  /\ back' = [back EXCEPT ![s] = "read"]
  /\ UNCHANGED <<actors, mutemap, mq, run, stack, to>>

NotifyPinned(s) ==
  /\ pc[s] = "notify" /\ to[s] = {}
  /\ IF Pinned \in Sched /\ Awake(Pinned)
       THEN /\ Len(mq[Pinned]) < MaxMsgs
            /\ mq' = [mq EXCEPT ![Pinned] = Append(@, who[s])]
       ELSE UNCHANGED mq
  /\ pc' = [pc EXCEPT ![s] = back[s]]
  /\ who' = [who EXCEPT ![s] = None]
  /\ back' = [back EXCEPT ![s] = "read"]
  /\ UNCHANGED <<actors, mutemap, run, stack, to>>

-----------------------------------------------------------------------------
(***************************************************************************)
(* read_msg, until the queue is empty: ponyint_sched_unmute_senders.       *)
(***************************************************************************)
(* Mutant: the entry of the receiver stays in the mute map.                *)
ReadMsgKeeps(s) ==
  /\ pc[s] = "read" /\ stack[s] = {} /\ mq[s] # <<>>
  /\ LET recv == Head(mq[s])
         senders == mutemap[s][recv]
     IN  /\ muted' = [a \in Actor |-> IF a \in senders THEN muted[a] - 1 ELSE muted[a]]
         /\ stack' = [stack EXCEPT ![s] = {a \in senders : muted[a] = 1}]
  /\ mq' = [mq EXCEPT ![s] = Tail(@)]
  /\ UNCHANGED <<flags, loc, mutemap, pc, run, sends>>

ReadMsg(s) ==
  /\ pc[s] = "read" /\ stack[s] = {} /\ mq[s] # <<>>
  /\ LET recv == Head(mq[s])
         senders == mutemap[s][recv]
     IN  /\ muted' = [a \in Actor |-> IF a \in senders THEN muted[a] - 1 ELSE muted[a]]
         /\ mutemap' = [mutemap EXCEPT ![s][recv] = {}]
         /\ stack' = [stack EXCEPT ![s] = {a \in senders : muted[a] = 1}]
  /\ mq' = [mq EXCEPT ![s] = Tail(@)]
  /\ UNCHANGED <<flags, loc, pc, run, sends>>

(* Mutant: the flag of an actor that is rescheduled stays set.             *)
RescheduleStillMuted(s) ==
  /\ pc[s] = "read"
  /\ \E a \in stack[s] :
       /\ stack' = [stack EXCEPT ![s] = @ \ {a}]
       /\ loc' = [loc EXCEPT ![a] = "queued"]
       /\ Announce(s, a, "read")
  /\ UNCHANGED <<flags, muted, mutemap, mq, run>>

(* sched_reschedule_unmuted, for one of the actors collected.              *)
RescheduleUnmuted(s) ==
  /\ pc[s] = "read"
  /\ \E a \in stack[s] :
       /\ stack' = [stack EXCEPT ![s] = @ \ {a}]
       /\ flags' = [flags EXCEPT ![a] = @ \ {"muted"}]
       /\ loc' = [loc EXCEPT ![a] = "queued"]
       /\ Announce(s, a, "read")
  /\ UNCHANGED <<muted, mutemap, mq, run>>

(* With its messages read, a scheduler pops an actor to run.               *)
Take(s) ==
  /\ pc[s] = "read" /\ stack[s] = {} /\ mq[s] = <<>>
  /\ \E a \in Actor :
       /\ loc[a] = "queued" /\ (a \in PinnedActor <=> s = Pinned)
       /\ cur' = [cur EXCEPT ![s] = a]
       /\ loc' = [loc EXCEPT ![a] = "running"]
  /\ pc' = [pc EXCEPT ![s] = "run"]
  /\ UNCHANGED <<flags, muted, mutemap, mq, app, stack, sends>>

(* A scheduler with nothing to run suspends, but not while its mute map    *)
(* holds anybody: a suspended one is sent no SCHED_UNMUTE_ACTOR.  Messages *)
(* may have come in since it last read them.                               *)
Suspend(s) ==
  /\ pc[s] = "read" /\ stack[s] = {}
  /\ \A r \in Actor : mutemap[s][r] = {}
  /\ pc' = [pc EXCEPT ![s] = "asleep"]
  /\ UNCHANGED <<actors, mutemap, mq, run, stack, sends>>

Wake(s) ==
  /\ pc[s] = "asleep"
  /\ pc' = [pc EXCEPT ![s] = "read"]
  /\ UNCHANGED <<actors, mutemap, mq, run, stack, sends>>

-----------------------------------------------------------------------------
(***************************************************************************)
(* The behaviour of the actor being run.                                   *)
(***************************************************************************)
(* Mutant: an overloaded sender is muted as well.                          *)
ShouldMuteAnySender(a, r) == flags[r] # {} /\ a # r

(* maybe_mark_should_mute: should sending to r mute the sender a?          *)
ShouldMute(a, r) ==
  /\ flags[r] # {}
  /\ flags[a] \cap {"overloaded", "pressure"} = {}
  /\ a # r

(* Mutant: a sender already held for the receiver is counted again.        *)
SendCountsTwice(s) ==
  /\ pc[s] = "run"
  /\ \E r \in Actor \ {cur[s]} :
       /\ who' = [who EXCEPT ![s] = r]
       /\ IF ShouldMute(cur[s], r)
            THEN /\ mutemap' = [mutemap EXCEPT ![s][r] = @ \cup {cur[s]}]
                 /\ muted' = [muted EXCEPT ![cur[s]] = @ + 1]
            ELSE UNCHANGED <<mutemap, muted>>
  /\ app' = [app EXCEPT ![s] = TRUE]
  /\ pc' = [pc EXCEPT ![s] = "push"]
  /\ UNCHANGED <<flags, loc, mq, cur, stack, to, back>>

(* pony_sendv: read the receiver's flags and mute if needed                *)
(* (ponyint_sched_mute), then push the message, which schedules the        *)
(* receiver if its mailbox was marked empty.                               *)
Send(s) ==
  /\ pc[s] = "run"
  /\ \E r \in Actor \ {cur[s]} :
       /\ who' = [who EXCEPT ![s] = r]
       /\ IF ShouldMute(cur[s], r) /\ cur[s] \notin mutemap[s][r]
            THEN /\ mutemap' = [mutemap EXCEPT ![s][r] = @ \cup {cur[s]}]
                 /\ muted' = [muted EXCEPT ![cur[s]] = @ + 1]
            ELSE UNCHANGED <<mutemap, muted>>
  /\ app' = [app EXCEPT ![s] = TRUE]
  /\ pc' = [pc EXCEPT ![s] = "push"]
  /\ UNCHANGED <<flags, loc, mq, cur, stack, to, back>>

Push(s) ==
  /\ pc[s] = "push"
  /\ loc' = [loc EXCEPT ![who[s]] = IF @ = "idle" THEN "queued" ELSE @]
  /\ who' = [who EXCEPT ![s] = None]
  /\ pc' = [pc EXCEPT ![s] = "run"]
  /\ UNCHANGED <<flags, muted, mutemap, mq, run, stack, to, back>>

(* pony_apply_backpressure and pony_release_backpressure.                  *)
Apply(s) ==
  /\ pc[s] = "run"
  /\ flags' = [flags EXCEPT ![cur[s]] = @ \cup {"pressure"}]
  /\ app' = [app EXCEPT ![s] = TRUE]
  /\ UNCHANGED <<muted, loc, mutemap, mq, pc, cur, stack, sends>>

Release(s) ==
  /\ pc[s] = "run"
  /\ flags' = [flags EXCEPT ![cur[s]] = @ \ {"pressure"}]
  /\ app' = [app EXCEPT ![s] = TRUE]
  /\ IF "overloaded" \in flags[cur[s]]
       THEN UNCHANGED <<pc, sends>>
       ELSE Announce(s, cur[s], "run")
  /\ UNCHANGED <<muted, loc, mutemap, mq, cur, stack>>

-----------------------------------------------------------------------------
(***************************************************************************)
(* ponyint_actor_run after a behaviour.                                    *)
(***************************************************************************)
Leave(s, where) ==
  /\ loc' = [loc EXCEPT ![cur[s]] = where]
  /\ cur' = [cur EXCEPT ![s] = None]
  /\ app' = [app EXCEPT ![s] = FALSE]
  /\ pc' = [pc EXCEPT ![s] = "read"]

(* maybe_should_mute: the behaviour muted its actor.                       *)
BecomeMuted(s) ==
  /\ pc[s] = "run" /\ muted[cur[s]] > 0
  /\ flags' = [flags EXCEPT ![cur[s]] = @ \cup {"muted"}]
  /\ Leave(s, "held")
  /\ UNCHANGED <<muted, mutemap, mq, stack, sends>>

(* batch_limit_reached: the actor is overloaded, and is run again later.   *)
BatchLimit(s) ==
  /\ pc[s] = "run" /\ muted[cur[s]] = 0
  /\ flags' = [flags EXCEPT ![cur[s]] = @ \cup {"overloaded"}]
  /\ Leave(s, "queued")
  /\ UNCHANGED <<muted, mutemap, mq, stack, sends>>

(* The mailbox was drained short of a full batch: actor_unsetoverloaded.   *)
Drained(s) ==
  /\ pc[s] = "run" /\ muted[cur[s]] = 0
  /\ flags' = [flags EXCEPT ![cur[s]] = @ \ {"overloaded"}]
  /\ IF "overloaded" \in flags[cur[s]] /\ "pressure" \notin flags[cur[s]]
       THEN Announce(s, cur[s], "ended")
       ELSE pc' = [pc EXCEPT ![s] = "ended"] /\ UNCHANGED sends
  /\ UNCHANGED <<muted, loc, mutemap, mq, run, stack>>

(* Then the run returns: the actor is run again if it ran a behaviour or   *)
(* its mailbox cannot be marked empty.                                     *)
EndRun(s) ==
  /\ pc[s] = "ended"
  /\ \E where \in {"queued", "idle"} :
       /\ app[s] => where = "queued"
       /\ Leave(s, where)
  /\ UNCHANGED <<flags, muted, mutemap, mq, stack, sends>>

Next ==
  \E s \in Sched :
    \/ CountActive(s) \/ Notify(s) \/ NotifyPinned(s)
    \/ ReadMsg(s) \/ RescheduleUnmuted(s) \/ Take(s) \/ Suspend(s) \/ Wake(s)
    \/ Send(s) \/ Push(s) \/ Apply(s) \/ Release(s)
    \/ BecomeMuted(s) \/ BatchLimit(s) \/ Drained(s) \/ EndRun(s)

Spec == Init /\ [][Next]_vars

-----------------------------------------------------------------------------
(* The type of the state.                                                  *)
TypeOK ==
  /\ flags \in [Actor -> SUBSET {"overloaded", "pressure", "muted"}]
  /\ muted \in [Actor -> Nat]
  /\ loc \in [Actor -> {"idle", "queued", "running", "held"}]
  /\ mutemap \in [Sched -> [Actor -> SUBSET Actor]]
  /\ mq \in [Sched -> Seq(Actor)]
  /\ pc \in [Sched -> {"read", "run", "push", "ended", "announce", "notify", "asleep"}]
  /\ cur \in [Sched -> Actor \cup {None}]
  /\ app \in [Sched -> BOOLEAN]
  /\ stack \in [Sched -> SUBSET Actor]
  /\ who \in [Sched -> Actor \cup {None}]
  /\ to \in [Sched -> SUBSET Sched]
  /\ back \in [Sched -> {"read", "run", "ended"}]

(* Is a SCHED_UNMUTE_ACTOR for r on its way to scheduler s?                *)
OnItsWay(s, r) ==
  \/ \E i \in 1..Len(mq[s]) : mq[s][i] = r
  \/ \E u \in Sched :
       /\ who[u] = r
       /\ \/ pc[u] = "announce"
          \/ pc[u] = "notify" /\ (s \in to[u] \/ s = Pinned)

(* No sender waits for a receiver that will not wake it: whoever is in a   *)
(* mute map is there for a receiver that still triggers muting, or for one *)
(* whose announcement is on its way to that very scheduler.  ("If rule #1  *)
(* is violated, we might end up deadlocking because an actor was muted for *)
(* sending to an actor that might never be unmuted", actor.c.)             *)
NoLostUnmute ==
  \A s \in Sched, r \in Actor :
    mutemap[s][r] # {} => flags[r] # {} \/ OnItsWay(s, r)

(* The entries of an actor in the mute maps: <<scheduler, receiver>>.      *)
Waits(a) == {e \in Sched \X Actor : a \in mutemap[e[1]][e[2]]}

(* An actor is in the mute map of one scheduler only, so that its count is *)
(* touched by one thread (the comment above ponyint_sched_mute), and the   *)
(* count is the number of receivers it is held for.                        *)
MuteCountExact ==
  \A a \in Actor :
    /\ \A d, e \in Waits(a) : d[1] = e[1]
    /\ muted[a] = Cardinality(Waits(a))

(* A muted actor is held: never queued or run (the assertion at the top of *)
(* ponyint_actor_run), and a held actor waits for a receiver, or is about  *)
(* to be rescheduled.                                                      *)
MutedIsHeld ==
  \A a \in Actor :
    /\ "muted" \in flags[a] <=> loc[a] = "held"
    /\ loc[a] = "held" => muted[a] > 0 \/ \E s \in Sched : a \in stack[s]

(* Actors never mute each other in a ring: among any actors that are held, *)
(* one waits for no other of them, or that other's announcement is on its  *)
(* way to it.                                                              *)
NoMuteCycle ==
  \A ring \in (SUBSET Actor) \ {{}} :
    \E a \in ring :
      \/ loc[a] # "held"
      \/ \A s \in Sched, r \in ring : a \in mutemap[s][r] => OnItsWay(s, r)
=============================================================================
