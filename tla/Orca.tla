-------------------------------- MODULE Orca --------------------------------
(***************************************************************************)
(* Reference counting of actors and of the objects they share (gc/gc.c,    *)
(* gc/actormap.c, gc/objectmap.c, gc/trace.c), with the collection of an   *)
(* actor nobody refers to (actor/actor.c, --ponynoblock).                  *)
(*                                                                         *)
(* An actor counts the references others hold to it (gc->rc) and to its    *)
(* objects (gc->local); it also keeps, for what it holds of others, how    *)
(* many of those counts it owns (gc->foreign).  Sending a reference passes *)
(* one count on with the message; an actor short of counts makes some up   *)
(* and tells the owner with an ACQUIRE; one that no longer reaches a thing *)
(* gives its counts back with a RELEASE.  Nothing is locked: that an owner *)
(* never sees zero too early rests on the order of the messages.           *)
(*                                                                         *)
(* Objects are immutable and of types that cannot reference actors, so a   *)
(* trace does not follow their fields except in the collection of the      *)
(* owner: the case in which counts have to be made up from nothing.        *)
(***************************************************************************)
EXTENDS Naturals, Sequences, FiniteSets, FiniteSetsExt, SequencesExt

CONSTANTS
  Actor, Object,
  Main,        \* the actor the program starts with
  None,
  IncMore,     \* GC_INC_MORE: how many counts are made up at a time
  MaxWork      \* bound: sends, creations and allocations of the program

ASSUME OrcaAssumption ==
  /\ Main \in Actor /\ None \notin Actor
  /\ IncMore \in Nat /\ IncMore > 1
  /\ MaxWork \in Nat

VARIABLES
  life,      \* of an actor: unborn, live, dying (pending destroy), gone
  mode,      \* asleep (mailbox marked empty), ready, running (a behaviour)
  roots,     \* what its fields and, in a behaviour, its stack refer to
  owner,     \* the actor that allocated an object
  content,   \* the objects an object refers to
  freed,     \* the objects whose memory was given back
  rc,        \* gc->rc
  local,     \* gc->local: the rc of an object at its owner
  foreign,   \* gc->foreign: the counts an actor holds of other actors,
  held,      \*   and of their objects (the map of an actorref)
  queue,     \* the mailboxes
  out,       \* what an actor is about to send: stages, one after the other
  work       \* how much of MaxWork is left

heap   == <<roots, owner, content, freed>>
counts == <<rc, local, foreign, held>>
vars   == <<life, mode, heap, counts, queue, out, work>>

App(things)         == [type |-> "app", things |-> things]
GcMsg(kind, n, objs) == [type |-> kind, n |-> n, objs |-> objs]

-----------------------------------------------------------------------------
(* The objects reached from S through the fields of objects that pass.     *)
Closure(S, pass) ==
  {o \in Object : \A C \in SUBSET Object :
     (S \cap Object \subseteq C /\ \A p \in C \cap pass : content[p] \subseteq C) => o \in C}

(* All a program can get at: what its roots refer to, and the fields of    *)
(* any object it reaches, whoever owns that.                               *)
Reach(a) == (roots[a] \cap Actor) \cup Closure(roots[a], Object)

(* The actors counted with a set of things: the owner of an object is      *)
(* implicitly sent, received and marked with it.                           *)
Counted(things) == (things \cap Actor) \cup {owner[o] : o \in things \cap Object}

Mine(a) == {o \in Object : owner[o] = a}

(* The ACQUIRE or RELEASE messages for the counts ac of actors and oc of   *)
(* objects, one to each actor concerned.                                   *)
ToOwners(kind, ac, oc) ==
  LET For(b) == [o \in Object |-> IF owner[o] = b THEN oc[o] ELSE 0]
  IN  {<<b, GcMsg(kind, ac[b], For(b))>> :
         b \in {c \in Actor : ac[c] > 0 \/ \E o \in Mine(c) : oc[o] > 0}}

Stages(list) == SelectSeq(list, LAMBDA stage : stage # {})

Init ==
  /\ life = [a \in Actor |-> IF a = Main THEN "live" ELSE "unborn"]
  /\ mode = [a \in Actor |-> IF a = Main THEN "ready" ELSE "asleep"]
  /\ roots = [a \in Actor |-> {}]
  /\ owner = [o \in Object |-> None]
  /\ content = [o \in Object |-> {}]
  /\ freed = {}
  /\ rc = [a \in Actor |-> 0]
  /\ local = [o \in Object |-> 0]
  /\ foreign = [a \in Actor |-> [b \in Actor |-> 0]]
  /\ held = [a \in Actor |-> [o \in Object |-> 0]]
  /\ queue = [a \in Actor |-> IF a = Main THEN <<App({})>> ELSE <<>>]
  /\ out = [a \in Actor |-> <<>>]
  /\ work = MaxWork

-----------------------------------------------------------------------------
(***************************************************************************)
(* Messages.                                                               *)
(***************************************************************************)
(* An actor pushes what it is about to send, before it does anything else. *)
(* A push to a mailbox marked empty schedules its actor.                   *)
Deliver(a) ==
  /\ out[a] # <<>>
  /\ \E m \in Head(out[a]) :
       /\ queue' = [queue EXCEPT ![m[1]] = Append(@, m[2])]
       /\ mode' = [mode EXCEPT ![m[1]] = IF @ = "asleep" THEN "ready" ELSE @]
       /\ out' = [out EXCEPT ![a] = Stages(<<Head(@) \ {m}>> \o Tail(@))]
  /\ UNCHANGED <<life, heap, counts, work>>

(* An actor that is run, between two messages.                             *)
Between(a) == life[a] = "live" /\ mode[a] = "ready" /\ out[a] = <<>>

Handles(a, kind) ==
  /\ Between(a) /\ queue[a] # <<>> /\ Head(queue[a]).type = kind
  /\ queue' = [queue EXCEPT ![a] = Tail(@)]

(* A behaviour starts by receiving its arguments (pony_gc_recv ...         *)
(* pony_recv_done): the counts that came with them are now this actor's.   *)
Receive(a) ==
  LET things == Head(queue[a]).things
      theirs == Counted(things) \ {a}
  IN  /\ Handles(a, "app")
      /\ mode' = [mode EXCEPT ![a] = "running"]
      /\ roots' = [roots EXCEPT ![a] = @ \cup things]
      /\ rc' = IF a \in Counted(things) THEN [rc EXCEPT ![a] = @ - 1] ELSE rc
      /\ local' = [o \in Object |-> IF o \in things \cap Mine(a) THEN local[o] - 1 ELSE local[o]]
      /\ foreign' = [foreign EXCEPT ![a] = [b \in Actor |-> IF b \in theirs THEN @[b] + 1 ELSE @[b]]]
      /\ held' = [held EXCEPT ![a] = [o \in Object |-> IF o \in things \ Mine(a) THEN @[o] + 1 ELSE @[o]]]
      /\ UNCHANGED <<life, owner, content, freed, out, work>>

(* ponyint_gc_acquire and ponyint_gc_release.                              *)
Acquire(a) ==
  LET m == Head(queue[a])
  IN  /\ Handles(a, "acquire")
      /\ rc' = [rc EXCEPT ![a] = @ + m.n]
      /\ local' = [o \in Object |-> local[o] + m.objs[o]]
      /\ UNCHANGED <<life, mode, heap, foreign, held, out, work>>

Release(a) ==
  LET m == Head(queue[a])
  IN  /\ Handles(a, "release")
      /\ rc' = [rc EXCEPT ![a] = @ - m.n]
      /\ local' = [o \in Object |-> local[o] - m.objs[o]]
      /\ UNCHANGED <<life, mode, heap, foreign, held, out, work>>

-----------------------------------------------------------------------------
(***************************************************************************)
(* What a behaviour does.                                                  *)
(***************************************************************************)
(* Mutant: the count that goes with the message is not taken off.          *)
PassUncounted(row, S) == [x \in DOMAIN row |-> IF x \notin S THEN row[x]
                                              ELSE IF row[x] <= 1 THEN row[x] + IncMore
                                              ELSE row[x] - 1]

(* send_remote_actor, send_remote_object: pass on one of the counts held,  *)
(* or, with at most one left, make some up.                                *)
Pass(row, S) == [x \in DOMAIN row |-> IF x \notin S THEN row[x]
                                      ELSE IF row[x] <= 1 THEN row[x] + (IncMore - 1)
                                      ELSE row[x] - 1]

MadeUp(row, S) == [x \in DOMAIN row |-> IF x \in S /\ row[x] <= 1 THEN IncMore ELSE 0]

(* Mutant: the message is pushed before the ACQUIRE messages.              *)
SendToEarly(a, to, things, rcs, row) ==
  LET theirs == Counted(things) \ {a}
      objs   == (things \cap Object) \ Mine(a)
  IN  /\ rc' = IF a \in Counted(things) THEN [rcs EXCEPT ![a] = @ + 1] ELSE rcs
      /\ local' = [o \in Object |-> IF o \in things \cap Mine(a) THEN local[o] + 1 ELSE local[o]]
      /\ foreign' = [foreign EXCEPT ![a] = Pass(row, theirs)]
      /\ held' = [held EXCEPT ![a] = Pass(@, objs)]
      /\ out' = [out EXCEPT ![a] = Stages(
           << {<<to, App(things)>>},
              ToOwners("acquire", MadeUp(row, theirs), MadeUp(held[a], objs)) >>)]

(* Mutant: the ACQUIRE messages are forgotten.                             *)
SendToSilent(a, to, things, rcs, row) ==
  LET theirs == Counted(things) \ {a}
      objs   == (things \cap Object) \ Mine(a)
  IN  /\ rc' = IF a \in Counted(things) THEN [rcs EXCEPT ![a] = @ + 1] ELSE rcs
      /\ local' = [o \in Object |-> IF o \in things \cap Mine(a) THEN local[o] + 1 ELSE local[o]]
      /\ foreign' = [foreign EXCEPT ![a] = Pass(row, theirs)]
      /\ held' = [held EXCEPT ![a] = Pass(@, objs)]
      /\ out' = [out EXCEPT ![a] = <<{<<to, App(things)>>}>>]

(* pony_gc_send ... pony_send_done, pony_sendv: trace the arguments, push  *)
(* the ACQUIRE messages, and then the message.  rcs and row are the counts *)
(* as they were before.                                                    *)
SendTo(a, to, things, rcs, row) ==
  LET theirs == Counted(things) \ {a}
      objs   == (things \cap Object) \ Mine(a)
  IN  /\ rc' = IF a \in Counted(things) THEN [rcs EXCEPT ![a] = @ + 1] ELSE rcs
      /\ local' = [o \in Object |-> IF o \in things \cap Mine(a) THEN local[o] + 1 ELSE local[o]]
      /\ foreign' = [foreign EXCEPT ![a] = Pass(row, theirs)]
      /\ held' = [held EXCEPT ![a] = Pass(@, objs)]
      /\ out' = [out EXCEPT ![a] = Stages(
           << ToOwners("acquire", MadeUp(row, theirs), MadeUp(held[a], objs)),
              {<<to, App(things)>>} >>)]

Works(a) == mode[a] = "running" /\ out[a] = <<>> /\ work > 0 /\ work' = work - 1

(* What a message carries: at most one thing.                              *)
Arguments(a) == {{}} \cup {{x} : x \in Reach(a) \cup {a}}

Send(a) ==
  /\ Works(a)
  /\ \E to \in (roots[a] \cap Actor) \cup {a}, things \in Arguments(a) :
       SendTo(a, to, things, rc, foreign[a])
  /\ UNCHANGED <<life, mode, heap, queue>>

(* pony_create, and the message of the constructor.  An orphan is one whose*)
(* creator keeps no reference to it.                                       *)
Create(a) ==
  /\ Works(a)
  /\ \E b \in {c \in Actor : life[c] = "unborn"}, orphaned \in BOOLEAN, things \in Arguments(a) :
       /\ life' = [life EXCEPT ![b] = "live"]
       /\ IF orphaned
            THEN SendTo(a, b, things, rc, foreign[a]) /\ UNCHANGED roots
            ELSE /\ SendTo(a, b, things, [rc EXCEPT ![b] = IncMore], [foreign[a] EXCEPT ![b] = IncMore])
                 /\ roots' = [roots EXCEPT ![a] = @ \cup {b}]
  /\ UNCHANGED <<mode, owner, content, freed, queue>>

Alloc(a) ==
  /\ Works(a)
  /\ \E o \in {p \in Object : owner[p] = None}, c \in SUBSET (Reach(a) \cap Object) :
       /\ owner' = [owner EXCEPT ![o] = a]
       /\ content' = [content EXCEPT ![o] = c]
       /\ roots' = [roots EXCEPT ![a] = @ \cup {o}]
  /\ UNCHANGED <<life, mode, freed, counts, queue, out>>

(* The behaviour returns; its stack is gone, and its fields hold some of   *)
(* what it could get at.                                                   *)
Return(a) ==
  /\ mode[a] = "running" /\ out[a] = <<>>
  /\ mode' = [mode EXCEPT ![a] = "ready"]
  /\ \E keep \in SUBSET (Reach(a) \ {a}) : roots' = [roots EXCEPT ![a] = keep]
  /\ UNCHANGED <<life, owner, content, freed, counts, queue, out, work>>

-----------------------------------------------------------------------------
(***************************************************************************)
(* The collection of an actor's heap (try_gc).                             *)
(***************************************************************************)
(* What marking reaches: from the fields, and from the immutable objects   *)
(* others count on (ponyint_gc_markimmutable).  It goes through the fields *)
(* of the actor's own objects only.                                        *)
Marked(a) ==
  (roots[a] \cap Actor) \cup Closure(roots[a] \cup {o \in Mine(a) : local[o] > 0}, Mine(a))

(* Mutant: the RELEASE messages are pushed before the ACQUIRE messages.    *)
CollectReleaseFirst(a) ==
  LET marked == Marked(a)
      actors == Counted(marked) \ {a}
      objs   == (marked \cap Object) \ Mine(a)
      New(row, S)  == [x \in DOMAIN row |-> IF x \in S /\ row[x] = 0 THEN IncMore ELSE 0]
      Lost(row, S) == [x \in DOMAIN row |-> IF x \in S THEN 0 ELSE row[x]]
      Kept(row, S) == [x \in DOMAIN row |-> IF x \notin S THEN 0 ELSE IF row[x] = 0 THEN IncMore ELSE row[x]]
  IN  /\ Between(a)
      /\ foreign' = [foreign EXCEPT ![a] = Kept(@, actors)]
      /\ held' = [held EXCEPT ![a] = Kept(@, objs)]
      /\ out' = [out EXCEPT ![a] = Stages(
           << ToOwners("release", Lost(foreign[a], actors), Lost(held[a], objs)),
              ToOwners("acquire", New(foreign[a], actors), New(held[a], objs)) >>)]
      /\ freed' = freed \cup {o \in Mine(a) : o \notin marked /\ local[o] = 0}
      /\ UNCHANGED <<life, mode, roots, owner, content, rc, local, queue, work>>

(* Mark, push the ACQUIRE messages, sweep (which pushes the RELEASE        *)
(* messages), and free what is neither marked nor counted on.              *)
Collect(a) ==
  LET marked == Marked(a)
      actors == Counted(marked) \ {a}
      objs   == (marked \cap Object) \ Mine(a)
      New(row, S)  == [x \in DOMAIN row |-> IF x \in S /\ row[x] = 0 THEN IncMore ELSE 0]
      Lost(row, S) == [x \in DOMAIN row |-> IF x \in S THEN 0 ELSE row[x]]
      Kept(row, S) == [x \in DOMAIN row |-> IF x \notin S THEN 0 ELSE IF row[x] = 0 THEN IncMore ELSE row[x]]
  IN  /\ Between(a)
      /\ foreign' = [foreign EXCEPT ![a] = Kept(@, actors)]
      /\ held' = [held EXCEPT ![a] = Kept(@, objs)]
      /\ out' = [out EXCEPT ![a] = Stages(
           << ToOwners("acquire", New(foreign[a], actors), New(held[a], objs)),
              ToOwners("release", Lost(foreign[a], actors), Lost(held[a], objs)) >>)]
      /\ freed' = freed \cup {o \in Mine(a) : o \notin marked /\ local[o] = 0}
      /\ UNCHANGED <<life, mode, roots, owner, content, rc, local, queue, work>>

(* The end of a run that handled no behaviour: the collection was forced   *)
(* (pony_triggergc), so that there is nothing left to collect, and the     *)
(* mailbox is marked empty.                                                *)
Clean(a) ==
  LET marked == Marked(a)
  IN  /\ \A b \in Actor : foreign[a][b] > 0 <=> b \in Counted(marked) \ {a}
      /\ \A o \in Object : held[a][o] > 0 <=> o \in marked \ Mine(a)
      /\ \A o \in Mine(a) \ freed : o \in marked \/ local[o] > 0

Sleep(a) ==
  /\ Between(a) /\ rc[a] > 0 /\ queue[a] = <<>> /\ Clean(a)
  /\ mode' = [mode EXCEPT ![a] = "asleep"]
  /\ UNCHANGED <<life, heap, counts, queue, out, work>>

(* Mutant: the counts are not given back.                                  *)
ReapSilently(a) ==
  /\ life' = [life EXCEPT ![a] = "dying"]
  /\ roots' = [roots EXCEPT ![a] = {}]
  /\ foreign' = [foreign EXCEPT ![a] = [b \in Actor |-> 0]]
  /\ held' = [held EXCEPT ![a] = [o \in Object |-> 0]]
  /\ UNCHANGED <<mode, owner, content, freed, rc, local, queue, out, work>>

(* An actor with nothing to do and no references left is finalised, gives  *)
(* all its counts back, and is destroyed with its heap.                    *)
Reap(a) ==
  /\ life' = [life EXCEPT ![a] = "dying"]
  /\ roots' = [roots EXCEPT ![a] = {}]
  /\ foreign' = [foreign EXCEPT ![a] = [b \in Actor |-> 0]]
  /\ held' = [held EXCEPT ![a] = [o \in Object |-> 0]]
  /\ out' = [out EXCEPT ![a] = Stages(<<ToOwners("release", foreign[a], held[a])>>)]
  /\ UNCHANGED <<mode, owner, content, freed, rc, local, queue, work>>

LocalDelete(a) ==
  /\ Between(a) /\ rc[a] = 0 /\ queue[a] = <<>>
  /\ Reap(a)

Destroy(a) ==
  /\ life[a] = "dying" /\ out[a] = <<>>
  /\ life' = [life EXCEPT ![a] = "gone"]
  /\ freed' = freed \cup Mine(a)
  /\ UNCHANGED <<mode, roots, owner, content, counts, queue, out, work>>

Next ==
  \E a \in Actor :
    \/ Deliver(a) \/ Receive(a) \/ Acquire(a) \/ Release(a)
    \/ Send(a) \/ Create(a) \/ Alloc(a) \/ Return(a)
    \/ Collect(a) \/ Sleep(a) \/ LocalDelete(a) \/ Destroy(a)

Spec == Init /\ [][Next]_vars

-----------------------------------------------------------------------------
Counts == [Object -> Nat]

Message ==
  [type : {"app"}, things : SUBSET (Actor \cup Object)] \cup
  [type : {"acquire", "release"}, n : Nat, objs : Counts]

(* The type of the state.  That the counts stay natural numbers is the     *)
(* assertions gc->rc >= rc and obj_local->rc >= obj->rc in                 *)
(* ponyint_gc_release, and gc->rc > 0 in recv_local_actor.                 *)
TypeOK ==
  /\ life \in [Actor -> {"unborn", "live", "dying", "gone"}]
  /\ mode \in [Actor -> {"asleep", "ready", "running"}]
  /\ roots \in [Actor -> SUBSET (Actor \cup Object)]
  /\ owner \in [Object -> Actor \cup {None}]
  /\ content \in [Object -> SUBSET Object]
  /\ freed \subseteq Object
  /\ rc \in [Actor -> Nat]
  /\ local \in Counts
  /\ foreign \in [Actor -> [Actor -> Nat]]
  /\ held \in [Actor -> Counts]
  /\ queue \in [Actor -> Seq(Message)]
  /\ out \in [Actor -> Seq(SUBSET (Actor \X Message))]
  /\ work \in 0..MaxWork

(* The messages that are not handled yet, in a mailbox or about to be      *)
(* pushed: <<where, place, receiver, message>>.                            *)
InTransit ==
  UNION {{<<b, i, b, queue[b][i]>> : i \in DOMAIN queue[b]} \cup
         UNION {{<<b, Len(queue[b]) + i, p[1], p[2]>> : p \in out[b][i]} : i \in DOMAIN out[b]}
           : b \in Actor}

Sum(f) == MapThenSumSet(LAMBDA x : f[x], DOMAIN f)

(* What a message still to be handled by the owner of x (an actor owns     *)
(* itself) adds to or takes from the count of x, or carries of it.         *)
OwnerOf(x) == IF x \in Actor THEN x ELSE owner[x]

Change(kind, x, e) ==
  IF e[3] # OwnerOf(x) \/ e[4].type # kind THEN 0 ELSE IF x \in Actor THEN e[4].n ELSE e[4].objs[x]

Carried(x, e) ==
  IF e[4].type = "app" /\ x \in e[4].things \cup Counted(e[4].things) THEN 1 ELSE 0

(* Every count is accounted for: what the owner of a thing counts, with the*)
(* acquisitions it has not been told of, is what the others hold, what is  *)
(* on its way in messages, and the releases it has not been told of.       *)
CountsBalance ==
  LET msgs == InTransit
      Balanced(x, count, rows) ==
        count + MapThenSumSet(LAMBDA e : Change("acquire", x, e), msgs) =
          Sum(rows) + MapThenSumSet(LAMBDA e : Change("release", x, e) + Carried(x, e), msgs)
  IN  /\ \A a \in Actor : life[a] = "live" =>
           Balanced(a, rc[a], [b \in Actor |-> foreign[b][a]])
      /\ \A o \in Object \ freed : owner[o] # None =>
           Balanced(o, local[o], [b \in Actor |-> held[b][o]])

(* Nothing a program can still get at is gone: whatever a live actor       *)
(* reaches, or would reach from a message to it, is there, and nobody has  *)
(* sent to an actor that is being destroyed (the assertion in pony_sendv). *)
NoDangling ==
  LET msgs == InTransit
  IN  \A a \in Actor :
        LET args == UNION {e[4].things : e \in {f \in msgs : f[3] = a /\ f[4].type = "app"}}
            all == Reach(a) \cup args \cup Closure(args, Object)
        IN  /\ life[a] \in {"dying", "gone"} => \A e \in msgs : e[3] # a
            /\ life[a] = "live" =>
                 /\ all \cap freed = {}
                 /\ \A b \in all \cap Actor : life[b] = "live"

(* An actor that counts zero references is alone: nobody holds or is being *)
(* sent a reference to it or to one of its objects, and no ACQUIRE is on   *)
(* its way to tell otherwise ("there's no references to this actor").      *)
ZeroIsAlone ==
  LET msgs == InTransit
  IN  \A a \in Actor : life[a] = "live" /\ rc[a] = 0 =>
        /\ \A b \in Actor \ {a} : foreign[b][a] = 0 /\ a \notin Counted(Reach(b))
        /\ \A e \in msgs : Carried(a, e) = 0 /\ (e[3] = a => e[4].type = "app")

(* When all actors are at rest, what is left is in use: another live actor *)
(* refers to each live one (in cycles only the cycle detector could break),*)
(* and a live actor reaches every object that is not freed.  ("This could  *)
(* result in other actors being unblocked and/or destroyed which could     *)
(* eventually result in our rc going to 0", ponyint_actor_run.)            *)
NothingLeaks ==
  (\A a \in Actor : life[a] \in {"unborn", "gone"} \/ mode[a] = "asleep") =>
     LET living == {a \in Actor : life[a] = "live"}
     IN  /\ \A a \in living : \E b \in living \ {a} : a \in Counted(Reach(b))
         /\ \A o \in Object \ freed : owner[o] # None => \E b \in living : o \in Reach(b)
=============================================================================
