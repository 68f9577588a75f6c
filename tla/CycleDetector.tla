--------------------------- MODULE CycleDetector ---------------------------
(***************************************************************************)
(* The collection of actors when the cycle detector runs (gc/cycle.c,      *)
(* gc/delta.c, actor/actor.c, and the part of gc/gc.c that counts actors). *)
(*                                                                         *)
(* An actor that has nothing to do and is still referred to reports itself *)
(* BLOCKed, with its count and the changes (delta) of the counts it holds  *)
(* of others; any message that could change these makes it report UNBLOCK. *)
(* From the reports the detector builds its own, late, view of who refers  *)
(* to whom.  A set of blocked actors whose counts are all explained from   *)
(* inside the set is a perceived cycle; each of its members is asked to    *)
(* confirm (CONF), and when as many have answered (ACK) as there are       *)
(* members, and none has reported anything else, all of them are destroyed,*)
(* by the thread that runs the detector.  Actors without references        *)
(* destroy themselves when the detector cannot know of them, and otherwise *)
(* hand themselves over to it.                                             *)
(***************************************************************************)
EXTENDS CycleScan, FiniteSets, FiniteSetsExt

CONSTANTS
  Actor,
  Main,        \* the actor the program starts with
  Detector,    \* the detector, itself an actor of the runtime
  None,
  IncMore,     \* GC_INC_MORE
  Start        \* where the program starts: who refers to whom (refs), who
               \*   has been sent a message (sent), and, a bound, how much it
               \*   still does (work)

ASSUME CycleAssumption ==
  /\ Main \in Actor /\ Detector \notin Actor /\ None \notin Actor \cup {Detector}
  /\ IncMore \in Nat /\ IncMore > 1
  /\ Start \subseteq [refs : [Actor -> SUBSET Actor], sent : SUBSET Actor, work : Nat]

VARIABLES
  life,      \* of an actor: unborn, live, dying (pending destroy), gone
  mode,      \* asleep (mailbox marked empty), ready (in or between runs),
             \*   behaving, ending (a run in which nothing was left to do),
             \*   handed (reported with no references: not to be run again)
  flags,     \* ACTOR_FLAG_: BLOCKED, BLOCKED_SENT, CD_CONTACTED,
             \*   RC_OVER_ZERO_SEEN
  roots,     \* the actors its fields and, in a behaviour, its stack refer to
  rc,        \* gc->rc
  foreign,   \* gc->foreign: the counts it holds of others
  delta,     \* gc->delta: the new values of those that changed, or None
  queue,     \* the mailboxes
  out,       \* what an actor or the detector is about to send, in stages
  inbox,     \* the mailbox of the detector
  view,      \* the detector's view_t of each actor
  perceived, \* the perceived cycles: token :> members and ack
  token,     \* next_token
  sweep,     \* the detector is in deferred(), in a CHECKBLOCKED
  reaping,   \* the actors it is destroying
  work       \* sends (1 each) and creations (2 each) that are left

actorVars == <<life, mode, flags, roots, rc, foreign, delta>>
cdVars    == <<inbox, view, perceived, token, sweep, reaping>>
vars      == <<actorVars, queue, out, cdVars, work>>

App(refs)     == [type |-> "app", refs |-> refs]
Acquire(n)    == [type |-> "acquire", n |-> n]
Release(n)    == [type |-> "release", n |-> n]
Conf(t)       == [type |-> "conf", token |-> t]
IsBlocked     == [type |-> "isblocked"]
Ack(t)        == [type |-> "ack", token |-> t]
Unblock(a)    == [type |-> "unblock", actor |-> a]
Block(a, n, d) == [type |-> "block", actor |-> a, rc |-> n, delta |-> d]

NoRefs  == [b \in Actor |-> 0]
NoDelta == [b \in Actor |-> None]

(* A view_t.  It stays allocated while view_rc is not zero, whether or not *)
(* it is still in the map of views.                                        *)
NoView == [listed |-> FALSE, rc |-> 0, blocked |-> FALSE,
           deferred |-> FALSE, perceived |-> None, refs |-> NoRefs]

(* A program at work: the actors it has created so far refer to each other *)
(* as in a graph of Start, and Main is in a behaviour.  Those in sent had  *)
(* reported themselves blocked before they were sent a message; no other   *)
(* has been blocked yet.                                                   *)
Init ==
  \E start \in Start :
    LET g    == start.refs
        born == {Main} \cup UNION {g[a] : a \in Actor}
        old  == start.sent
    IN  /\ life = [a \in Actor |-> IF a \in born THEN "live" ELSE "unborn"]
        /\ mode = [a \in Actor |-> IF a = Main THEN "behaving" ELSE IF a \in born THEN "ready" ELSE "asleep"]
        /\ roots = g
        /\ rc = [a \in Actor |-> Cardinality({b \in Actor : a \in g[b]})]
        /\ flags = [a \in Actor |-> (IF rc[a] > 0 THEN {"seen"} ELSE {})
                      \cup IF a \in old THEN {"blocked", "sent", "contacted"} ELSE {}]
        /\ foreign = [a \in Actor |-> [b \in Actor |-> IF b \in g[a] THEN 1 ELSE 0]]
        /\ delta = [a \in Actor |-> [b \in Actor |-> IF b \in g[a] /\ a \notin old THEN 1 ELSE None]]
        /\ queue = [a \in Actor |-> IF a \in old THEN <<App({})>> ELSE <<>>]
        /\ out = [a \in Actor \cup {Detector} |-> <<>>]
        /\ inbox = <<>>
        /\ view = [a \in Actor |->
                     IF a \in old THEN [NoView EXCEPT !.listed = TRUE, !.rc = rc[a], !.blocked = TRUE,
                                                      !.deferred = TRUE, !.refs = foreign[a]]
                     ELSE [NoView EXCEPT !.listed = a \in UNION {g[b] : b \in old}]]
        /\ perceived = <<>>
        /\ token = 1
        /\ sweep = FALSE
        /\ reaping = {}
        /\ work = start.work

-----------------------------------------------------------------------------
(***************************************************************************)
(* Messages.                                                               *)
(***************************************************************************)
Stages(list) == SelectSeq(list, LAMBDA stage : stage # {})

(* pony_sendv: a push to a mailbox marked empty schedules its actor.  s    *)
(* pushes the first message of what it has to send, and the others later;  *)
(* q and md are the mailboxes and modes before.                            *)
Post(s, stages, q, md) ==
  IF stages = <<>>
    THEN queue' = q /\ mode' = md /\ out' = [out EXCEPT ![s] = <<>>]
    ELSE \E m \in Head(stages) :
           /\ queue' = [q EXCEPT ![m[1]] = Append(@, m[2])]
           /\ mode' = [md EXCEPT ![m[1]] = IF @ = "asleep" THEN "ready" ELSE @]
           /\ out' = [out EXCEPT ![s] = Stages(<<Head(stages) \ {m}>> \o Tail(stages))]

Deliver(s) ==
  /\ out[s] # <<>>
  /\ Post(s, out[s], queue, mode)
  /\ UNCHANGED <<life, flags, roots, rc, foreign, delta, cdVars, work>>

(* An actor that is run, between two messages.                             *)
Between(a) == mode[a] = "ready" /\ out[a] = <<>>

Handles(a, kind) ==
  /\ Between(a) /\ queue[a] # <<>> /\ Head(queue[a]).type = kind
  /\ queue' = [queue EXCEPT ![a] = Tail(@)]

(* RC_OVER_ZERO_SEEN is set whenever a count above zero is seen, at the    *)
(* start of a run and after each message.                                  *)
Seen(n) == IF n > 0 THEN {"seen"} ELSE {}

(* Mutant: an actor that gets a message stays blocked.                     *)
MaybeUnblockMissed(a, n) ==
  /\ flags' = [flags EXCEPT ![a] = @ \cup Seen(n)]
  /\ UNCHANGED inbox

(* maybe_unblock.                                                          *)
MaybeUnblock(a, n) ==
  /\ flags' = [flags EXCEPT ![a] = (@ \ {"blocked", "sent"}) \cup Seen(n)]
  /\ inbox' = IF "sent" \in flags[a] THEN Append(inbox, Unblock(a)) ELSE inbox

(* ponyint_deltamap_update for the counts in S, which are now those of row.*)
Updated(d, row, S) == [b \in Actor |-> IF b \in S THEN row[b] ELSE d[b]]

(* The start of a behaviour: recv_local_actor, recv_remote_actor.          *)
Receive(a) ==
  LET refs   == Head(queue[a]).refs
      theirs == refs \ {a}
      row    == [b \in Actor |-> IF b \in theirs THEN foreign[a][b] + 1 ELSE foreign[a][b]]
  IN  /\ Handles(a, "app")
      /\ MaybeUnblock(a, 0)
      /\ mode' = [mode EXCEPT ![a] = "behaving"]
      /\ roots' = [roots EXCEPT ![a] = @ \cup theirs]
      /\ rc' = IF a \in refs THEN [rc EXCEPT ![a] = @ - 1] ELSE rc
      /\ foreign' = [foreign EXCEPT ![a] = row]
      /\ delta' = [delta EXCEPT ![a] = Updated(@, row, theirs)]
      /\ UNCHANGED <<life, out, view, perceived, token, sweep, reaping, work>>

(* ponyint_gc_acquire, ponyint_gc_release.                                 *)
Counts(a, kind, n) ==
  /\ Handles(a, kind)
  /\ rc' = [rc EXCEPT ![a] = n]
  /\ MaybeUnblock(a, n)
  /\ UNCHANGED <<life, mode, roots, foreign, delta, out, view, perceived, token, sweep, reaping, work>>

HandleAcquire(a) == Counts(a, "acquire", rc[a] + Head(queue[a]).n)
HandleRelease(a) == Counts(a, "release", rc[a] - Head(queue[a]).n)

(* An actor confirms if it has reported itself blocked and is.             *)
HandleConf(a) ==
  /\ Handles(a, "conf")
  /\ inbox' = IF "sent" \in flags[a] THEN Append(inbox, Ack(Head(queue[a]).token)) ELSE inbox
  /\ UNCHANGED <<actorVars, out, view, perceived, token, sweep, reaping, work>>

(* send_block, ponyint_cycle_block: the delta goes with the report.        *)
SendBlock(a, now) ==
  /\ flags' = [flags EXCEPT ![a] = now \cup {"sent", "contacted"}]
  /\ inbox' = Append(inbox, Block(a, rc[a], delta[a]))
  /\ delta' = [delta EXCEPT ![a] = NoDelta]

HandleIsBlocked(a) ==
  /\ Handles(a, "isblocked")
  /\ IF "blocked" \in flags[a] /\ "sent" \notin flags[a] /\ rc[a] > 0
       THEN SendBlock(a, flags[a])
       ELSE UNCHANGED <<flags, inbox, delta>>
  /\ UNCHANGED <<life, mode, roots, rc, foreign, out, view, perceived, token, sweep, reaping, work>>

-----------------------------------------------------------------------------
(***************************************************************************)
(* What a behaviour does.                                                  *)
(***************************************************************************)
(* Mutant: the counts of a foreign actor are raised, but not acquired.     *)
SendToUnacquired(a, to, refs, rcs, row, d) ==
  LET theirs == refs \ {a}
      new    == [b \in Actor |-> IF b \in theirs
                                 THEN row[b] + (IF row[b] <= 1 THEN IncMore ELSE 0) - 1 ELSE row[b]]
  IN  /\ rc' = IF a \in refs THEN [rcs EXCEPT ![a] = @ + 1] ELSE rcs
      /\ foreign' = [foreign EXCEPT ![a] = new]
      /\ delta' = [delta EXCEPT ![a] = Updated(d, new, theirs)]
      /\ Post(a, <<{<<to, App(refs)>>}>>, queue, mode)

(* Mutant: a reference to the sender itself is not counted.                *)
SendToUncounted(a, to, refs, rcs, row, d) ==
  /\ rc' = rcs
  /\ foreign' = [foreign EXCEPT ![a] = row]
  /\ delta' = [delta EXCEPT ![a] = d]
  /\ Post(a, <<{<<to, App(refs)>>}>>, queue, mode)

(* send_local_actor, send_remote_actor: the arguments are traced, the      *)
(* ACQUIRE messages pushed, then the message.  rcs, row and d are the      *)
(* counts before.                                                          *)
SendTo(a, to, refs, rcs, row, d) ==
  LET theirs == refs \ {a}
      short  == {b \in theirs : row[b] <= 1}
      new    == [b \in Actor |-> IF b \in short THEN row[b] + (IncMore - 1)
                                 ELSE IF b \in theirs THEN row[b] - 1 ELSE row[b]]
  IN  /\ rc' = IF a \in refs THEN [rcs EXCEPT ![a] = @ + 1] ELSE rcs
      /\ foreign' = [foreign EXCEPT ![a] = new]
      /\ delta' = [delta EXCEPT ![a] = Updated(d, new, theirs)]
      /\ Post(a, Stages(<<{<<b, Acquire(IncMore)>> : b \in short}, {<<to, App(refs)>>}>>), queue, mode)

Works(a, n) == mode[a] = "behaving" /\ out[a] = <<>> /\ work >= n /\ work' = work - n

(* What a message carries: at most one reference.                          *)
Arguments(a) == {{}} \cup {{b} : b \in roots[a] \cup {a}}

Send(a) ==
  /\ Works(a, 1)
  /\ \E to \in roots[a] \cup {a}, refs \in Arguments(a) :
       SendTo(a, to, refs, rc, foreign[a], delta[a])
  /\ UNCHANGED <<life, flags, roots, cdVars>>

(* pony_create with ponyint_gc_createactor, and the constructor's message. *)
Create(a) ==
  /\ Works(a, 2)
  /\ \E b \in {c \in Actor : life[c] = "unborn"}, orphaned \in BOOLEAN, refs \in Arguments(a) :
       /\ life' = [life EXCEPT ![b] = "live"]
       /\ IF orphaned
            THEN /\ SendTo(a, b, refs, rc, foreign[a], delta[a])
                 /\ UNCHANGED <<flags, roots>>
            ELSE /\ SendTo(a, b, refs, [rc EXCEPT ![b] = IncMore],
                           [foreign[a] EXCEPT ![b] = IncMore], [delta[a] EXCEPT ![b] = IncMore])
                 /\ flags' = [flags EXCEPT ![b] = Seen(IncMore)]
                 /\ roots' = [roots EXCEPT ![a] = @ \cup {b}]
  /\ UNCHANGED cdVars

(* A collection of the heap of a: the counts of what it no longer reaches  *)
(* are given back (ponyint_gc_sweep, ponyint_actormap_sweep).  send_release*)
(* leaves out actors that are pending destruction.                         *)
Releases(lost, row) == {<<b, Release(row[b])>> : b \in {c \in lost : life[c] # "dying"}}

Lost(a, keep) == {b \in Actor : foreign[a][b] > 0 /\ b \notin keep}

TryGc(a, keep, md) ==
  LET lost == Lost(a, keep)
      row  == [b \in Actor |-> IF b \in lost THEN 0 ELSE foreign[a][b]]
  IN  /\ foreign' = [foreign EXCEPT ![a] = row]
      /\ delta' = [delta EXCEPT ![a] = Updated(@, row, lost)]
      /\ Post(a, Stages(<<Releases(lost, foreign[a])>>), queue, md)

(* The behaviour returns: its fields keep some of what it could get at.    *)
(* The heap is collected if enough was allocated.                          *)
Return(a) ==
  /\ mode[a] = "behaving" /\ out[a] = <<>>
  /\ flags' = [flags EXCEPT ![a] = @ \cup Seen(rc[a])]
  /\ \E keep \in SUBSET roots[a], md \in {[mode EXCEPT ![a] = "ready"]} :
       /\ roots' = [roots EXCEPT ![a] = keep]
       /\ TryGc(a, keep, md) \/ (mode' = md /\ UNCHANGED <<foreign, delta, queue, out>>)
  /\ UNCHANGED <<life, rc, cdVars, work>>

-----------------------------------------------------------------------------
(***************************************************************************)
(* The end of a run in which there was no behaviour to run.                *)
(***************************************************************************)
(* With references left, a collection is forced, unless being blocked has  *)
(* been reported: the detector might be destroying this actor.             *)
ForcesGc(a) == rc[a] > 0 /\ "sent" \notin flags[a]

(* The mailbox was found empty.  From here on messages may arrive.         *)
EndRun(a) ==
  /\ Between(a) /\ queue[a] = <<>>
  /\ IF ForcesGc(a)
       THEN TryGc(a, roots[a], [mode EXCEPT ![a] = "ending"])
       ELSE mode' = [mode EXCEPT ![a] = "ending"] /\ UNCHANGED <<foreign, delta, queue, out>>
  /\ UNCHANGED <<life, flags, roots, rc, cdVars, work>>

(* Nothing (more) to collect: the actor is logically blocked.              *)
Ends(a) == out[a] = <<>> /\ mode[a] = "ending"

Blocked(a) == flags[a] \cup {"blocked"}

(* ponyint_messageq_markempty, the last thing a run does.                  *)
MarkEmpty(a) == mode' = [mode EXCEPT ![a] = IF queue[a] = <<>> THEN "asleep" ELSE "ready"]

(* Mutant: reported again in every run.                                    *)
BlockReferencedAlways(a) ==
  /\ Ends(a) /\ rc[a] > 0
  /\ SendBlock(a, Blocked(a))
  /\ MarkEmpty(a)
  /\ UNCHANGED <<life, roots, rc, foreign, queue, out, view, perceived, token, sweep, reaping, work>>

(* Referred to: report it if the detector may not know of this actor.      *)
BlockReferenced(a) ==
  /\ Ends(a) /\ rc[a] > 0
  /\ IF "contacted" \notin flags[a]
       THEN SendBlock(a, Blocked(a))
       ELSE flags' = [flags EXCEPT ![a] = Blocked(a)] /\ UNCHANGED <<inbox, delta>>
  /\ MarkEmpty(a)
  /\ UNCHANGED <<life, roots, rc, foreign, queue, out, view, perceived, token, sweep, reaping, work>>

(* No references, and there have been some: the detector is to reap it.    *)
(* The mailbox is not marked empty, so that nobody schedules the actor.    *)
HandOver(a) ==
  /\ Ends(a) /\ rc[a] = 0 /\ "seen" \in flags[a]
  /\ SendBlock(a, Blocked(a))
  /\ mode' = [mode EXCEPT ![a] = "handed"]
  /\ UNCHANGED <<life, roots, rc, foreign, queue, out, view, perceived, token, sweep, reaping, work>>

(* Finalising an actor: it is pending destruction and gives its counts     *)
(* back (ponyint_actor_setpendingdestroy, _final, _sendrelease), together  *)
(* with the others of S.  s is who does it.                                *)
Reap(s, S) ==
  LET row(b) == MapThenSumSet(LAMBDA a : foreign[a][b], S)
      lost   == {b \in Actor \ S : row(b) > 0}
      Of(a)  == {<<b, Release(foreign[a][b]), a>> : b \in {c \in lost : foreign[a][c] > 0 /\ life[c] # "dying"}}
  IN  /\ life' = [a \in Actor |-> IF a \in S THEN "dying" ELSE life[a]]
      /\ roots' = [a \in Actor |-> IF a \in S THEN {} ELSE roots[a]]
      /\ foreign' = [a \in Actor |-> IF a \in S THEN NoRefs ELSE foreign[a]]
      /\ delta' = [a \in Actor |-> IF a \in S THEN NoDelta ELSE delta[a]]
      /\ out' = [out EXCEPT ![s] = Stages(<<UNION {Of(a) : a \in S}>>)]

(* No references, and there never were any: the detector cannot know of    *)
(* this actor, and it destroys itself once its mailbox is empty.           *)
LocalDelete(a) ==
  /\ Ends(a) /\ rc[a] = 0 /\ "seen" \notin flags[a] /\ life[a] = "live"
  /\ flags' = [flags EXCEPT ![a] = Blocked(a)]
  /\ IF queue[a] = <<>>
       THEN Reap(a, {a}) /\ UNCHANGED mode
       ELSE mode' = [mode EXCEPT ![a] = "ready"] /\ UNCHANGED <<life, roots, foreign, delta, out>>
  /\ UNCHANGED <<rc, queue, cdVars, work>>

LocalDestroy(a) ==
  /\ Ends(a) /\ life[a] = "dying" /\ "seen" \notin flags[a]
  /\ life' = [life EXCEPT ![a] = "gone"]
  /\ mode' = [mode EXCEPT ![a] = "asleep"]
  /\ UNCHANGED <<flags, roots, rc, foreign, delta, queue, out, cdVars, work>>

-----------------------------------------------------------------------------
(***************************************************************************)
(* The detector.  It handles one message at a time, once it has finished   *)
(* with the previous one: sent what that made it send, gone through the    *)
(* deferred views, destroyed what was to be destroyed.                     *)
(***************************************************************************)
Idle == out[Detector] = <<>> /\ ~sweep /\ reaping = {}

CdHandles(kind) ==
  /\ Idle /\ inbox # <<>> /\ Head(inbox).type = kind
  /\ inbox' = Tail(inbox)

(* check_blocked: ask the actors that are not known to be blocked, then go *)
(* through the deferred views.  Scheduler 0 sends the message, if it is    *)
(* awake when the interval has passed (ponyint_cycle_check_blocked), so    *)
(* that it may, or may never, be there when the detector is idle; it is    *)
(* left out where it has no effect, and, a bound, where an ISBLOCKED has   *)
(* not been handled yet.                                                   *)
Probed(a) == \E i \in DOMAIN queue[a] : queue[a][i].type = "isblocked"

Asked == {a \in Actor : view[a].listed /\ ~view[a].blocked}

Deferred == {a \in Actor : view[a].deferred}

CheckBlocked ==
  /\ Idle
  /\ Asked \cup Deferred # {} /\ \A a \in Asked : ~Probed(a)
  /\ out' = [out EXCEPT ![Detector] = Stages(<<{<<a, IsBlocked>> : a \in Asked}>>)]
  /\ sweep' = (Deferred # {})
  /\ UNCHANGED <<actorVars, queue, inbox, view, perceived, token, reaping, work>>

(* What detect() computes (CycleScan shows that its scans compute it): the *)
(* blocked views reached from v over blocked views are grey; those among   *)
(* them whose counts are not all explained by grey ones are live, and so   *)
(* is what these reach; the others are white.                              *)
Reached(S, within) ==
  {a \in within : \A C \in SUBSET within :
     (S \cap within \subseteq C /\ \A b \in C : {c \in within : view[b].refs[c] > 0} \subseteq C) => a \in C}

Grey(v) == Reached({v}, {a \in Actor : view[a].blocked})

White(v) ==
  LET grey == Grey(v)
      rest(a) == view[a].rc # MapThenSumSet(LAMBDA b : view[b].refs[a], grey)
  IN  grey \ Reached({a \in grey : rest(a)}, grey)

(* deferred(), for one view: detect() and send_conf().                     *)
Detect(v) ==
  LET grey  == Grey(v)
      white == White(v)
  IN  /\ sweep /\ out[Detector] = <<>> /\ view[v].deferred
      /\ view' = [a \in Actor |-> [view[a] EXCEPT
                    !.deferred = @ /\ a \notin grey,
                    !.perceived = IF a \in white THEN token ELSE @]]
      /\ IF white = {}
           THEN UNCHANGED <<perceived, token, out>>
           ELSE /\ perceived' = [t \in DOMAIN perceived \cup {token} |->
                                   IF t = token THEN [members |-> white, ack |-> 0] ELSE perceived[t]]
                /\ token' = token + 1
                /\ out' = [out EXCEPT ![Detector] = <<{<<a, Conf(token)>> : a \in white}>>]
      /\ sweep' = (Deferred \ grey # {})
      /\ UNCHANGED <<actorVars, queue, inbox, reaping, work>>

(* expire: a perceived cycle of which v is a member is abandoned.          *)
Expired(views, v) ==
  [a \in Actor |-> IF views[v].perceived # None /\ views[a].perceived = views[v].perceived
                     THEN [views[a] EXCEPT !.perceived = None] ELSE views[a]]

Forget(tokens) == perceived' = [t \in (DOMAIN perceived) \ tokens |-> perceived[t]]

(* view_free, when the view leaves the map of views.                       *)
Unlisted(views, v) ==
  IF ~views[v].listed THEN views
  ELSE [views EXCEPT ![v] = [@ EXCEPT !.listed = FALSE, !.deferred = FALSE]]

(* Mutant: an entry of zero is not applied.                                *)
AppliedAdds(views, v, d) ==
  LET set == {b \in Actor : d[b] # None /\ d[b] > 0}
  IN  [b \in Actor |-> [views[b] EXCEPT
         !.listed = @ \/ b \in set,
         !.refs = IF b = v THEN [c \in Actor |-> IF c \in set THEN d[c] ELSE @[c]] ELSE @]]

(* apply_delta to the view of v: an entry above zero makes a view of the   *)
(* actor if there is none and sets the count of the reference; one of zero *)
(* removes the reference, if the actor still has a view.                   *)
Applied(views, v, d) ==
  LET set    == {b \in Actor : d[b] # None /\ d[b] > 0}
      drop   == {b \in Actor : d[b] # None /\ d[b] = 0 /\ views[b].listed /\ views[v].refs[b] > 0}
      refs   == [b \in Actor |-> IF b \in set THEN d[b] ELSE IF b \in drop THEN 0 ELSE views[v].refs[b]]
  IN  [b \in Actor |-> [views[b] EXCEPT
         !.listed = @ \/ b \in set,
         !.refs = IF b = v THEN refs ELSE @]]

(* get_view(d, v, true).                                                   *)
Listed(views, v) ==
  IF views[v].listed THEN views ELSE [views EXCEPT ![v] = [@ EXCEPT !.listed = TRUE]]

(* Mutant: a view that blocks is not looked at again.                      *)
HandleBlockUndeferred ==
  LET m     == Head(inbox)
      a     == m.actor
      views == Applied(Listed(view, a), a, m.delta)
  IN  /\ CdHandles("block") /\ m.rc > 0
      /\ view' = [Expired(views, a) EXCEPT ![a] = [@ EXCEPT !.rc = m.rc, !.blocked = TRUE]]
      /\ Forget({view[a].perceived})
      /\ UNCHANGED <<actorVars, queue, out, token, sweep, reaping, work>>

(* block, for an actor that is referred to.                                *)
HandleBlock ==
  LET m     == Head(inbox)
      a     == m.actor
      views == Applied(Listed(view, a), a, m.delta)
  IN  /\ CdHandles("block") /\ m.rc > 0
      /\ view' = [Expired(views, a) EXCEPT ![a] = [@ EXCEPT !.rc = m.rc, !.blocked = TRUE, !.deferred = TRUE]]
      /\ Forget({view[a].perceived})
      /\ UNCHANGED <<actorVars, queue, out, token, sweep, reaping, work>>

(* block, for an actor that handed itself over: forget the view, empty the *)
(* mailbox (which holds CONF and ISBLOCKED at most), reap and destroy.     *)
HandleBlockZero ==
  LET m == Head(inbox)
      a == m.actor
  IN  /\ CdHandles("block") /\ m.rc = 0
      /\ view' = Unlisted(Expired(view, a), a)
      /\ Forget({view[a].perceived})
      /\ queue' = [queue EXCEPT ![a] = <<>>]
      /\ mode' = [mode EXCEPT ![a] = "asleep"]
      /\ Reap(Detector, {a})
      /\ reaping' = {a}
      /\ UNCHANGED <<flags, rc, token, sweep, work>>

(* Mutant: the perceived cycle stays.                                      *)
HandleUnblockKeepsCycle ==
  LET a == Head(inbox).actor
  IN  /\ CdHandles("unblock")
      /\ view' = [view EXCEPT ![a] = [@ EXCEPT !.blocked = FALSE, !.deferred = FALSE]]
      /\ UNCHANGED <<actorVars, queue, out, perceived, token, sweep, reaping, work>>

(* unblock.                                                                *)
HandleUnblock ==
  LET a == Head(inbox).actor
  IN  /\ CdHandles("unblock")
      /\ view' = [Expired(view, a) EXCEPT ![a] = [@ EXCEPT !.blocked = FALSE, !.deferred = FALSE]]
      /\ Forget({view[a].perceived})
      /\ UNCHANGED <<actorVars, queue, out, token, sweep, reaping, work>>

(* Mutant: the first answer is enough.                                     *)
HandleAckFirst ==
  LET t == Head(inbox).token
  IN  /\ CdHandles("ack")
      /\ IF t \notin DOMAIN perceived
           THEN UNCHANGED <<life, roots, foreign, delta, out, perceived, reaping>>
         ELSE /\ Reap(Detector, perceived[t].members)
              /\ reaping' = perceived[t].members
              /\ Forget({t})
      /\ UNCHANGED <<mode, flags, rc, queue, view, token, sweep, work>>

(* ack: of a cycle that was abandoned, nothing; the last one, collect.     *)
HandleAck ==
  LET t == Head(inbox).token
  IN  /\ CdHandles("ack")
      /\ IF t \notin DOMAIN perceived
           THEN UNCHANGED <<life, roots, foreign, delta, out, perceived, reaping>>
         ELSE IF perceived[t].ack + 1 < Cardinality(perceived[t].members)
           THEN /\ perceived' = [perceived EXCEPT ![t].ack = @ + 1]
                /\ UNCHANGED <<life, roots, foreign, delta, out, reaping>>
         ELSE /\ Reap(Detector, perceived[t].members)
              /\ reaping' = perceived[t].members
              /\ Forget({t})
      /\ UNCHANGED <<mode, flags, rc, queue, view, token, sweep, work>>

(* ponyint_actor_destroy: wait until the actor has marked its mailbox      *)
(* empty, that is, has finished its last run; and, in collect, forget the  *)
(* view.                                                                   *)
Destroy(a) ==
  /\ a \in reaping /\ out[Detector] = <<>> /\ mode[a] = "asleep"
  /\ life' = [life EXCEPT ![a] = "gone"]
  /\ reaping' = reaping \ {a}
  /\ view' = Unlisted(view, a)
  /\ UNCHANGED <<mode, flags, roots, rc, foreign, delta, queue, out, inbox, perceived, token, sweep, work>>

Run(a) ==
  \/ Deliver(a) \/ Receive(a) \/ HandleAcquire(a) \/ HandleRelease(a)
  \/ HandleConf(a) \/ HandleIsBlocked(a) \/ Return(a)
  \/ EndRun(a) \/ BlockReferenced(a) \/ HandOver(a) \/ LocalDelete(a) \/ LocalDestroy(a)

CdRun ==
  \/ Deliver(Detector) \/ CheckBlocked
  \/ HandleBlock \/ HandleBlockZero \/ HandleUnblock \/ HandleAck
  \/ \E a \in Actor : Detect(a) \/ Destroy(a)

Next == CdRun \/ \E a \in Actor : Run(a) \/ Send(a) \/ Create(a)

Spec == Init /\ [][Next]_vars

(* The mailbox of the detector is a queue in which CHECKBLOCKED waits with *)
(* the reports: each of them is handled.  Schedulers run every actor that  *)
(* is ready.  A run ends with the last message that was there when it      *)
(* began, so that messages that keep coming do not keep an actor from      *)
(* ending it.  Nothing is assumed of CHECKBLOCKED: scheduler 0 may suspend *)
(* for good, while ASIO is noisy, and then sends no more of them.          *)
CdHandle == HandleBlock \/ HandleBlockZero \/ HandleUnblock \/ HandleAck

CdFinish == Deliver(Detector) \/ \E a \in Actor : Detect(a) \/ Destroy(a)

FairSpec ==
  /\ Spec
  /\ \A a \in Actor : WF_vars(Run(a)) /\ SF_vars(EndRun(a))
  /\ WF_vars(CdFinish) /\ SF_vars(CdHandle)

-----------------------------------------------------------------------------
Delta == [Actor -> Nat \cup {None}]

(* The values of the variables; the counts, of type size_t, stay above     *)
(* zero.                                                                   *)
TypeOK ==
  /\ life \in [Actor -> {"unborn", "live", "dying", "gone"}]
  /\ mode \in [Actor -> {"asleep", "ready", "behaving", "ending", "handed"}]
  /\ flags \in [Actor -> SUBSET {"blocked", "sent", "contacted", "seen"}]
  /\ roots \in [Actor -> SUBSET Actor]
  /\ rc \in [Actor -> Nat]
  /\ foreign \in [Actor -> [Actor -> Nat]]
  /\ delta \in [Actor -> Delta]
  /\ \A a \in Actor, i \in DOMAIN inbox : inbox[i].type = "block" => inbox[i].delta \in Delta
  /\ view \in [Actor -> [listed : BOOLEAN, rc : Nat, blocked : BOOLEAN, deferred : BOOLEAN,
                         perceived : Nat \cup {None}, refs : [Actor -> Nat]]]
  /\ token \in Nat /\ sweep \in BOOLEAN /\ reaping \in SUBSET Actor /\ work \in Nat

(* The messages on their way to an actor, in its mailbox or yet to be      *)
(* pushed.                                                                 *)
Coming(a) ==
  Range(queue[a])
  \cup {p[2] : p \in {q \in UNION {UNION Range(out[s]) : s \in Actor \cup {Detector}} : q[1] = a}}

Refers(a) == roots[a] \cup UNION {m.refs : m \in {n \in Coming(a) : n.type = "app"}}

(* Nobody can still get at an actor that is being or was destroyed: nobody *)
(* refers to it, holds a count of it, is being sent a reference to it, or  *)
(* is about to send it a message (the assertion in pony_sendv).            *)
NoDangling ==
  \A a \in Actor : life[a] \in {"dying", "gone"} =>
    /\ Coming(a) = {}
    /\ \A b \in Actor : a \notin Refers(b) /\ foreign[b][a] = 0

(* The actors that will never again run a behaviour: those that are not    *)
(* reached from one that is in a behaviour, or has one coming.             *)
Active == {a \in Actor : mode[a] = "behaving" \/ \E m \in Coming(a) : m.type = "app"}

Garbage ==
  {a \in Actor : life[a] = "live" /\ \E C \in SUBSET Actor :
     a \notin C /\ Active \subseteq C /\ \A b \in C : Refers(b) \subseteq C}

(* Only actors that will never run again are collected, whatever the       *)
(* detector believes: views are late, CONF and ACK cross the messages of   *)
(* the program (collect, block with rc = 0, the deletion of an orphan).    *)
CollectsGarbageOnly ==
  [][\A a \in Actor : life[a] = "live" /\ life'[a] = "dying" => a \in Garbage]_vars

(* Scheduler 0 keeps sending CHECKBLOCKED, as it does while it is awake.   *)
KeepsChecking == SF_vars(CheckBlocked)

(* As long as scheduler 0 keeps sending CHECKBLOCKED (run and steal call   *)
(* ponyint_cycle_check_blocked), every actor that will never run again is  *)
(* collected, in a cycle or not.                                           *)
GarbageCollected == KeepsChecking => \A a \in Actor : a \in Garbage ~> life[a] = "gone"

Reports(a) == SelectSeq(inbox, LAMBDA m : m.type \in {"block", "unblock"} /\ m.actor = a)

(* Where all reports of a blocked actor have been handled, what the        *)
(* detector believes of it is true: its count, and the counts it holds of  *)
(* actors that exist.  (dump_view prints ERROR where it is not.)           *)
ViewExact ==
  \A a \in Actor : life[a] = "live" /\ view[a].blocked /\ Reports(a) = <<>> =>
    /\ "sent" \in flags[a] /\ view[a].rc = rc[a] /\ delta[a] = NoDelta
    /\ \A b \in Actor : life[b] = "live" => view[a].refs[b] = foreign[a][b]

(* The reports of an actor alternate between BLOCK and UNBLOCK, from what  *)
(* the detector has handled to what the actor has sent.  So an UNBLOCK     *)
(* finds a view (the assertion in unblock), and no actor is reported with  *)
(* no references twice, which would free it twice (ponyint_actor_run).     *)
ReportsAlternate ==
  \A a \in Actor : life[a] = "live" =>
    LET seq == Reports(a)
        B(i) == seq[i].type = "block"
    IN  /\ \A i \in DOMAIN seq : B(i) # IF i = 1 THEN view[a].blocked ELSE B(i - 1)
        /\ ("sent" \in flags[a]) = IF seq = <<>> THEN view[a].blocked ELSE B(Len(seq))
        /\ view[a].blocked => view[a].listed

(* A perceived cycle consists of blocked views that belong to no other     *)
(* cycle and are not to be looked at again, and a view that is to be looked*)
(* at leads to no view of another cycle (the assertions in mark_white,     *)
(* collect_view, detect and collect).  It gets no more than one ACK from   *)
(* each member, so that a late ACK never stands for a missing one.         *)
PerceivedSound ==
  /\ \A t \in DOMAIN perceived :
       LET per == perceived[t]
       IN  /\ \A a \in per.members : view[a].perceived = t /\ view[a].blocked /\ ~view[a].deferred /\ life[a] = "live"
           /\ per.ack + Len(SelectSeq(inbox, LAMBDA m : m = Ack(t)))
                + Cardinality({a \in Actor : Conf(t) \in Coming(a)}) <= Cardinality(per.members)
  /\ \A v \in Deferred : \A a \in White(v) \cup {v} : view[a].perceived = None

(* An actor that handed itself over is sent nothing but CONF and ISBLOCKED *)
(* until it is destroyed (the assertion in block), although its mailbox is *)
(* open and it is not marked as pending destruction yet.                   *)
HandedOverIsLeftAlone ==
  \A a \in Actor : mode[a] = "handed" => \A m \in Coming(a) : m.type \in {"conf", "isblocked"}

(* The scans of detect() compute what the detection is about: the cycle    *)
(* they make consists of the white views, their two counts of these agree  *)
(* (the assertions in detect), and they give every view its count back,    *)
(* in whatever order the references come, although counts in a view that   *)
(* lags behind may wrap around.                                            *)
ScanExact ==
  sweep /\ out[Detector] = <<>> =>
    LET s == [a \in Actor |-> [blocked |-> view[a].blocked, deferred |-> view[a].deferred,
                               rc |-> view[a].rc, refs |-> view[a].refs, color |-> "black"]]
    IN  \A v \in Deferred, ord \in SetToSeqs({a \in Actor : life[a] # "unborn"}) :
          LET r == DetectScan([s EXCEPT ![v].deferred = FALSE], v, ord)
          IN  /\ r.members = White(v) /\ r.n = Cardinality(White(v)) /\ r.n2 = r.n
              /\ r.s = [a \in Actor |-> [s[a] EXCEPT !.deferred = @ /\ a \notin Grey(v)]]
=============================================================================
