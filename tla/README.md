# Verification of the SpacePony runtime

TLA+ specifications of the concurrent core of `libponyrt`, the runtime that
every program compiled by SpacePony is linked with; TLC runs that check them on
small instances; and TLAPS proofs, for every instance, of the properties the
rest of the runtime leans on most.  Paths are relative to `src/src/libponyrt/`
unless they start with `src/`.

## 1. The system

A program is a set of actors.  Each has a mailbox, a heap of its own and no
locks.  `N` scheduler threads run actors; the main thread runs the pinned
ones; one more thread turns operating-system events into messages (ASIO).

| part | state | operations | talks to |
|---|---|---|---|
| mailbox (`actor/messageq.c`) | list `tail..head`, tag bit "empty" in `head` | push (any thread); pop, markempty (the thread that runs the actor) | run queues: the push that clears the tag schedules the actor |
| run queue (`sched/mpmcq.c`) | list with a counted tail | push and pop by any scheduler | memory pool: nodes are freed and reused |
| actor (`actor/actor.c`) | flags, mute count, heap, counts | create, send, run a batch, mute, block, delete | everything |
| backpressure (`actor.c`, `sched/scheduler.c`, `sched/mutemap.c`) | flags overloaded / under pressure / muted; a mute map per scheduler | mute a sender, announce a recovery, unmute | message queues of the schedulers |
| schedulers (`sched/scheduler.c`) | run queue, message queue, `block_sent`; scheduler 0: block count, token, ack count | run, steal, suspend, wake, BLOCK / UNBLOCK / CNF / ACK / TERMINATE | each other, ASIO, pinned-actor thread |
| pinned-actor thread (`scheduler.c`) | its queue, a suspended flag | run, hand over, suspend, answer CNF | schedulers |
| ASIO (`asio/*.c`) | events, count of noisy ones | subscribe, send, destroy, stop | mailboxes, scheduler 0 |
| reference counting (`gc/gc.c`, `gc/actormap.c`, `gc/objectmap.c`, `gc/trace.c`) | what others count on (`rc`, `local`), what is held of others (`foreign`) | send, receive, acquire, release, mark, sweep | mailboxes |
| cycle detector (`gc/cycle.c`, `gc/delta.c`) | views of blocked actors, perceived cycles | BLOCK, UNBLOCK, CONF, ACK, collect | actors |
| memory pool (`mem/pool.c`) | free items and blocks per thread, stacks of lists, a global list of blocks | alloc, free, end of a thread | all |
| actor heap, page map (`mem/heap.c`, `mem/pagemap.c`) | chunks of an actor | alloc, sweep | reference counting |
| containers (`ds/*.c`) | hash map, list, stack | sequential | - |
| start, options, tracing, `lang/*` | - | system calls and formatting | - |
| compiler (`src/src/libponyc`), standard library, tools | - | sequential, or Pony code on top of the above | - |

What is hard here, and hardly reached by tests: a push racing with the consumer
that marks the mailbox empty; a node freed, reused and pushed again between a
load and a compare-and-swap; a receiver that recovers between the moment a
sender reads its flags and the moment it waits for it; schedulers that go to
sleep while others send to them; a termination protocol whose messages cross;
a count that drops to zero before the message that raises it arrives; a cycle
of actors found on counts that are out of date; a block of memory taken out of
a list that others are walking without a lock.
`PROJECT.json` lists each of these at its line (`hazards`).

What correct means: at most one thread runs an actor, and no message is left
with nobody to run its receiver; memory is touched only while allocated; a
muted actor is woken; the program ends when, and only when, there is nothing
left to do; nothing a program can reach is freed, and what it cannot reach is.

## 2. Modules

| module | models | implements |
|---|---|---|
| `MessageQ` | `actor/messageq.c`, with the parts of `pony_sendv`, `ponyint_actor_run` and `run` that decide who schedules the actor | `Mailbox` |
| `MPMCQ` | `sched/mpmcq.c`, with reuse of nodes by the pool | `FifoQueue` |
| `Backpressure` | muting: `actor.c`, `scheduler.c`, `mutemap.c` | |
| `Quiescence` | run, steal, suspend, wake and termination: `scheduler.c`; the pinned-actor thread; what `asio/` does to them | |
| `Orca` | reference counting and deletion of actors without a cycle detector: `gc/`, `actor.c` | |
| `CycleDetector` | the cycle detector, and actors that report to it: `gc/cycle.c`, `gc/delta.c`, `actor.c`, the counting of actors in `gc/gc.c` | |
| `CycleScan` | the trial deletion of `gc/cycle.c`, a pure algorithm that `CycleDetector` checks against a definition | |
| `Pool` | `mem/pool.c` | |
| `MessageQProofs`, `MPMCQProofs`, `BackpressureProofs`, `QuiescenceProofs` | the theorems | |
| `QuiescenceTypes`, `QuiescenceReports`, `QuiescenceRounds` | the lemmas `QuiescenceProofs` rests on: types and places of actors, the counts of scheduler 0, the rounds of CNF and ACK | |
| `FiniteFacts` | names for the facts about finite sets that the lemmas use | |
| `MC*` | instances for TLC: symmetry sets, situations to start from | |

Operators named "Mutant" in a comment are wrong variants of the definition that
follows them.  No specification uses them: each replaces that definition to show
that a property notices a bug of that kind.

**MessageQ** is one actor's mailbox.  `head` is the tagged pointer, `next` the
link of each block, `free` the pool.  `chain`, a history variable, is the order
of the exchanges.  A send is `Exchange` (the atomic exchange of `head`, which
tells whether the queue was empty), `Link` (the store to `prev->next`) and, if
it was empty, `SchedAdd`.  A run is `Start`, then `Pop` and `HandledSystem` or
`HandledApp` until the queue ends or the batch is done, then `Finish`, and
`MarkEmptyLoad` and `MarkEmptyCas` or `Destroy`.  `runq` counts the places the
actor has on run queues.  `Mailbox` says what this is for: a sequence of
messages and one bit, `scheduled`, that is set by a send and cleared only when
the sequence is empty.  The ways out of a run are those of a runtime with
`--ponynoblock`: a run that finds the actor unreferenced destroys it.  With the
cycle detector such a run hands the actor over and returns without marking the
mailbox empty (`actor.c:726-752`); that is a step of `CycleDetector`
(`HandedOverIsLeftAlone`), not of this module, so `OneOwner` says nothing of it.

**MPMCQ** is one run queue.  The two words of the counted tail are read one
after the other; a load from a node that has been freed returns anything; a
compare-and-swap compares both words.  `FifoQueue` is a sequence.

**Backpressure**: `flags` are the three reasons why sending to an actor mutes
the sender; `muted` is `actor->muted`; `mutemap[s][r]` is the set that scheduler
`s` holds for receiver `r`.  Reading the receiver's flags (`Send`), pushing
(`Push`), clearing a flag (`Drained`, `Release`, `RescheduleUnmuted`), reading
who is active (`CountActive`) and each message of the announcement (`Notify`,
`NotifyPinned`) are separate steps.

**Quiescence**: `pc` is where a thread is in `run`, `steal`, `quiescent`,
`suspend_scheduler` or `run_pinned_actors`; `mq` its message queue; `active` and
`disabled` the scaling state.  A scheduler with index `>= active` may sleep.
Sends to all schedulers are one step: each queue is first-in first-out and a
receiver may read as late as it likes, so a longer broadcast adds no order of
reads.  Timing thresholds (when to block, to suspend) are free choices.

In `Init` one actor, Main, is in the queue of the pinned-actor thread: the main
thread sends it its first message before it becomes that thread, and
`ponyint_sched_add` pushes to the queue of the thread that sends.  It comes to
the schedulers when `run_pinned_actors` has popped it, seen that it is not
pinned, and pushed it to the inject queue.  Nothing in the code makes the
schedulers wait for that before they say that they are blocked, and the
pinned-actor thread acknowledges with Main in its queue (section 6).  What ends a
program in time is therefore stated with a premise: `Started` says that Main has
left the pinned-actor thread and the inject queue, `StartsInTime` that no round
of CNF and ACK begins before.  To have left the pinned-actor thread would not be
enough: a scheduler may acknowledge both rounds and then take Main from the
inject queue.  `TimelyFairSpec` has the behaviours in which no scheduler even
reports itself blocked before `Started` (`BlocksInTime`); a round takes such
reports from all, and `Started` does not become false again, so `StartsInTime`
holds in them.  In a program the premise is a matter of time: a scheduler spins
for a while before it blocks, and the main thread, which has just started the
schedulers, has to pop one queue.

**Orca**: `rc`, `local`, `foreign` and `held` are the four counts, `roots` and
`content` the object graph, `out` the messages an actor is about to push, in
stages, because ACQUIRE goes before the message, and before RELEASE.  `mode`
says whether the mailbox is marked empty, the actor is scheduled, or it is in a
behaviour.  Objects are immutable and cannot refer to actors, the case in which
an actor reaches an object it holds no count of.

**CycleDetector**: an actor has `flags`, `rc`, `foreign` and `delta` as in the
code, and a `mode`: asleep, ready, behaving, ending a run that found nothing to
do, or handed over to the detector.  `inbox` is the detector's mailbox, `view`
its `view_t` of each actor, `perceived` its perceived cycles by token.  Each
message an actor or the detector handles is an action, and so is each message
it pushes (`Deliver`).  `CheckBlocked` is the message that scheduler 0 sends when
the detection interval has passed and it is awake: it probes, and opens the
`sweep` in which `Detect` looks at one deferred view after another.
`Detect` takes as the cycle the white views `White(v)`, defined as a greatest
set; `ScanExact` says that the four scans with their stacks and colours, written
out in `CycleScan`, compute just that and leave the views as they were.
`Destroy` waits, like `ponyint_actor_destroy`, until the actor's last run has
marked the mailbox empty.

**Pool**: sizes are in units of `POOL_MIN`; class 0 stands for the classes below
`POOL_ALIGN`, class 1 for the others.  Each access to the top of a stack
(`pool_push`, `pool_pull`), each step of a walk of the global list, each
acquisition of a block and each change of `in_pool_block_global` is an action;
`r` holds a thread's registers.  A thread's own lists are changed in one step.
`Owned` lists every piece of memory with the place it is in (whose use, which
list and position), so that `MemoryAccounted` sees a piece that is twice in one
list as well as one that is in two.

`CycleDetector` and `Pool` have a constant `Start`, a set of situations that a
program gets into, one of which is chosen in `Init`: a search from nothing
would spend its depth on getting there.

## 3. Runs

| run | instance | states | shows |
|---|---|---|---|
| `mailbox` | 3 threads, 4 blocks, batch 2 | 76 k | one owner of the right to run, no use after free, list in exchange order, implements `Mailbox`, every message handled |
| `runqueue` | 2 threads, 3 nodes, 2 items, 4 pushes | 35 k | a stale read never passes the compare-and-swap, accesses are to allocated nodes, implements `FifoQueue`, items are popped |
| `muting` | 3 actors, 1 of them pinned, 1 scheduler, pinned-actor thread | 1.5 M | no lost unmute, exact counts, muted actors are held, no ring |
| `quiescence` | 2 schedulers, pinned-actor thread, 2 actors, 2 units of work | 2.1 M | one place per actor, exact block count, acks bounded |
| `quiescence_live` | 2 schedulers, 2 actors, 2 units of work, Main in time | 142 k | termination only when idle, scheduled actors run, the program ends; no deadlock |
| `counting` | 3 actors, 2 objects, 3 units of work | 529 k | counts balance, nothing dangling, zero is alone, no leak at rest |
| `cycle_detector` | 3 actors, detector, 5 situations | 1.1 M | only garbage is collected, nothing dangling, views exact once reports are read, reports alternate, perceived cycles sound, scans exact |
| `cycle_garbage` | 3 actors, detector, 3 situations | 33 k | all garbage is collected while checks go on |
| `pool` | 3 threads, 4 situations | 210 k | memory is in one place and never lost, no block changes while it may be read, a thread's list stays sorted, calls return |
| `pinned_exit`, `pinned_terminates`, `pinned_wakeup` | 1 scheduler, pinned-actor thread | | violations, section 6 |

Bounds and why they are enough to make the cases happen:

- `mailbox`: two senders race with one another and with a consumer, which is the
  most parties any step of the code distinguishes; four blocks let a block be
  freed and pushed again while another send is between exchange and link; with
  `Batch` 2 a run ends by the batch, by the end of the queue and by the head
  read at its start.
- `runqueue`: with three nodes, one the stub, every node is reused, and with
  four pushes one is reused while a thread holds it as an old tail.  Each of
  the two threads pushes and pops, so there are a winner, a loser and a pusher
  by turns.  `MaxPush` bounds the counter.  More threads are left to the proof.
- `muting`: three actors make a chain and a ring of muted actors; a scheduler
  and the pinned-actor thread make the map of one go out of date while the
  other announces.  The pinned-actor thread is the harder of the two: it is told
  last, and only when it is awake.  `MaxMsgs` bounds unread messages; an
  announcement to a full queue waits.
- `quiescence*`: two schedulers exercise scheduler 0 and another one, stealing
  both ways, and `active` from 0 to N.  `MaxWork` bounds sends, reschedules,
  pins, subscriptions and events together (unsubscribing is free): two units
  are enough to pin and unpin, or to subscribe and have an event arrive while
  the schedulers agree to stop, and to unsubscribe from there.
- `counting`: `IncMore` 2 stands for `GC_INC_MORE` (256), so that counts run out
  after one send; three actors are the sender, the receiver and the owner.
- `cycle_*`: three actors make a ring, a ring with a chord, and a pair with a
  third that leaves it or joins it.  `work` bounds sends (1) and creations (2);
  with what it leaves, a message crosses a report, and a perceived cycle is
  abandoned and found again.  `SizeMod` 16 is far above every count, so that a
  count that wraps is told from one that does not.
- `pool`: two threads at a stack with two lists pull, use, free and push the top
  while the other is between its load and its compare-and-swap; two blocks next
  to each other in the global list, and an insertion between them, while a third
  thread walks it.  `MaxMap` bounds the system's memory, `work` the requests.

`CHECK_DEADLOCK FALSE` is said where the system may stop: all messages handled
and nobody sending (`mailbox`, `runqueue`), a bound reached (`muting`,
`counting`), all actors collected and no check asked for (`cycle_*`), all
requests answered (`pool`), the last thread gone or stuck with the findings of
section 6 (`quiescence`, `pinned_terminates`, `pinned_wakeup`).

## 4. Fairness

Liveness is checked by TLC only.  What is assumed:

- `MessageQ`: a thread in the middle of a send or a run goes on (operating
  system); a queued actor is popped by some scheduler (`runqueue` and
  `quiescence_live` are about that); a muted actor is unmuted, which
  `Backpressure` is about.  No send is assumed to happen.
- `MPMCQ`: a thread in an operation goes on, and schedulers keep popping, as
  `steal` loops.  No push is assumed.
- `Quiescence`: each thread's steps are weakly fair.  `Block` is strongly fair:
  an idle thread passes through the test for the block threshold again and
  again, and time passes.  Suspending, events and subscriptions are not fair.
  `quiescence_live` and `pinned_terminates` use `TimelyFairSpec` (section 2).
- `CycleDetector`: an actor that is ready is run (weak), and its run ends
  (strong): a run stops at the last message that was there when it began, so
  messages that keep coming do not keep it from ending.  The detector handles
  its messages (strong): they wait in one first-in first-out mailbox, so that
  checks do not keep others from their turn.  No send or creation is assumed,
  and no check: those come from scheduler 0 while it is awake, there is no timer
  behind them, and scheduler 0 sleeps without a time limit while the program
  listens for events and has nothing to run (`scheduler.c:767-818`).  Garbage may
  then stay for as long as no event comes.  So `GarbageCollected` has a premise,
  `KeepsChecking`: all garbage is collected if scheduler 0 keeps sending
  CHECKBLOCKED.
- `Pool`: a thread in a call goes on (weak).  No request is assumed.

## 5. Proofs

For any sets of threads and blocks, and any batch size (`MessageQProofs`):

- `TokenUnique` (`OneOwner`), with the corollary `MutualExclusion`: exactly one
  of a running thread, a sender about to schedule, a run queue, and the muted
  state holds the right to run the actor while the mailbox is not marked empty,
  and none does while it is;
- `MemorySafe` (`NoUseAfterFree`), `LinkOrder` (`LinksFollowOrder`);
- `Implements` (`Refinement`): every step of `MessageQ` is a step of `Mailbox` or
  leaves it unchanged.

The inductive invariant is `IInv == TypeOK /\ Token /\ Shape /\ Closed`.
`OneOwner` alone is not inductive: a thread in `MarkEmptyCas` keeps its right
only because `head` is not tagged, and a sender schedules only because it saw
the tag.  `Token` states the exclusions pairwise.  `Shape` describes the list
while links are missing: `chain` has no repetition, ends in `head`, and every
missing link belongs to exactly one sender; that is why the block a sender
writes to cannot have been freed, since `Pop` frees only a block whose link is
there.  `Closed` says that once nobody refers to the actor, nobody is sending,
which is what `Destroy` needs.  The refinement also needs `AloneIsEmpty`: when
`head` and `tail` agree, `chain` has one element.

For any sets of threads, nodes and items (`MPMCQProofs`):

- `NoABA` (`CasInstallsSuccessor`): when a compare-and-swap of the tail succeeds,
  what it installs is the successor of the node it replaces, however often that
  node was freed and pushed again since it was read;
- `MemorySafe` (`AccessesAllocated`): what a push links to and what a pop takes
  its data from is allocated;
- `Implements` (`Refinement`): the queue is a `FifoQueue`.

The inductive invariant is `IInv == TypeOK /\ Shape /\ Counted /\ Detached`.
`Shape` describes the list while links are missing, as for the mailbox.
`Counted` is what the counter is for: a thread's copy of the counter is never
ahead of the tail's, and a thread about to compare-and-swap whose copy equals
the tail holds the tail's true successor.  It is preserved because whatever
moves the tail raises the counter, so that the copies of all others differ from
then on.  `Detached` is about nodes already off the list: each belongs to the
one popper that took it off, and the node a popper reads its data from is the
tail or the old tail of another popper that has not freed it, because that one
waits until the data has been read.

For any actors and schedulers, the sets being finite, and any `MaxMsgs`
(`BackpressureProofs`):

- `UnmuteNeverLost` (`NoLostUnmute`): whoever waits in a mute map waits for an
  actor that still triggers muting, or whose announcement is on its way to that
  very scheduler;
- `CountsExact` (`MuteCountExact`) and `MutedNeverRuns` (`MutedIsHeld`);
- `NoDeadlock` (`NoMuteCycle`): no actors wait for each other in a ring, with no
  announcement on its way that will open it.

The invariant adds to these `Control` (what a program counter says of a thread's
locals, and that no two threads run one actor), `Ownership` (an actor in a mute
map is run by that scheduler or held; one in a stack to unmute is held with
count zero, and in one stack), and `AsleepHoldsNone`: a sleeping scheduler has
an empty mute map, which is why `CountActive` may leave it out.  The hard case
of `NoLostUnmute` is a sender that enters the map of `s` after the receiver's
flag was read: the flag is read and the map changed by the thread `s` itself, so
an announcement started later still finds `s` awake.

`NoMuteCycle` speaks of held actors; what is preserved is `NoRing`, about any
actors: in every set of them, one waits for no other but those whose recovery is
being announced to the scheduler that holds it.  Only `Send` makes an actor wait
for another, and `ponyint_maybe_mute` does so only if the sender itself has no
flag set.  By `NoLostUnmute` whoever waits for that sender is then being told, so
that the ring is open there; the one that keeps the rest of the set open keeps
all of it open.

For any number of schedulers, any actors and any amount of work
(`QuiescenceProofs`):

- `OnePlace` (`ScheduledOnce`): no queue or thread has an actor that another has;
- `CountsExact` (`BlockCountExact`) and `AcksNeverTooMany` (`AcksBounded`): what
  scheduler 0 counts is right, and in the ranges that the code asserts;
- `EndsWithNothingLeft` (`TerminatesIdle`), if no actor is ever pinned and Main is
  taken up before a round begins (`[]StartsInTime`): the program is ended only
  with nothing scheduled and nothing listened for.

The inductive invariant of the first three is `IInv == Typed /\ Control /\ Unique
/\ Notices /\ Reports /\ Rounds`.  The counts of scheduler 0 are right only
together with what it has not read, so `Notices` and `Reports` add the unread
messages, the latter to the threads whose `block_sent` is set.  That the count
does not leave its range on the way takes more: it stays in it after every prefix
of the unread messages (`NeverNegative`).  `Notices` also needs `Unique`: an
actor subscribes on one thread at a time.  `Rounds` says that the threads that
have not read the CNF of this round, and its ACKs that scheduler 0 has not read,
are together at most `ack_count`; messages of earlier rounds have smaller tokens
and count for nothing.

`EndsWithNothingLeft` needs `IInvUnpinned`.  A round with `ack_count` equal to that
sum is one in which nobody refused.  If moreover no report is unread, all `N`
schedulers have reported (by `Reports`), so all are stealing with empty queues
(`Stealing`); the one place left to get an actor from is the inject queue, and
what is in it has a subscription; and whoever has answered has no actor but such
a one (`Answered`).  A scheduler that finds work sends UNBLOCK before it runs
anything, which ends the round.  So when the last ACK is read and nobody has a
subscription, there is nothing left.  The premise comes in with `Begun`: either
Main has been taken up, and then nothing comes to the pinned-actor thread again
and only actors with a subscription come into the inject queue (`Taken`), or no
round has begun yet, so that nothing is pending and `ack_count` is `N`, which is
not the 0 at which scheduler 0 stops.  The theorem is false without the premise
and with pinned actors (section 6).

`Spec => []TypeOK` is proved for all four components.  The assumptions are the
`ASSUME`s of the modules, which the runs evaluate, `MayPin = {}` where it is
said, and the premise of `EndsWithNothingLeft`.  The lemmas of
`BackpressureProofs` and of the `Quiescence` modules have `FiniteFacts`, what
the library proves of finite sets and cardinalities, among their hypotheses.
The last section of `BackpressureProofs` and of `QuiescenceProofs` derives it
from `FiniteSetTheorems` (lemma `Finite`), so that no theorem has it as one.
The provers need several times as long for a step where the whole library is in
view, which is the reason for the detour.

Only model-checked:

- liveness, which is out of the prover's reach;
- `Orca`: `CountsBalance` equates sums over actors, mailboxes and messages about to
  be pushed, and its induction is over the contents of sequences;
- `CycleDetector`: `CycleScan`, which it is checked against, is recursive, and the
  prover takes no module that uses a recursive operator;
- `Pool`: its invariants speak of what is reachable along linked lists, again a
  recursive definition (`Chain`).

## 6. Where code and documentation disagree

The pinned-actor thread answers CNF like a scheduler but never says that it is
blocked or unblocked.  Three runs show what follows (`findings` has the lines):

- `pinned_exit`: it may acknowledge with an actor in its queue and leave, against
  its own assertion `pop(sched) == NULL`.  The actor need not be pinned: the
  instance pins nothing, and it is Main, which starts in that queue, that is
  left there when CNF, CNF and TERMINATE are read in one `read_msg`;
- `pinned_terminates`: a CNF it drops because it holds an actor is not repeated,
  and with `--ponynoblock` nothing else restarts the round;
- `pinned_wakeup`: it checks its queue, then suspends; an actor handed over in
  between wakes nobody.

So `TerminatesIdle`, `Terminates` and `ScheduledRuns` are checked without pinned
actors (`MayPin = {}`) and where Main is taken up in time, and `quiescence` checks
what holds in all cases.

## 7. What is left out

- Atomics are sequentially consistent.  The code's memory orders are weaker;
  TLC explores interleavings, not reorderings within a thread.  This matters
  for `MessageQ`, `MPMCQ`, `Backpressure` and the relaxed flags of scaling.
- `MessageQ`, `Orca` and `Quiescence` are about a runtime with `--ponynoblock`,
  without cycle detector, so `NothingLeaks` leaves cycles of actors alone.
  `CycleDetector` is about one with it, and about actors only: objects stay
  with `Orca`.
- The detector's part in termination (its last, forced collection, and its
  running by scheduler 0 in `steal`) is absent.
- Muting is absent from `Quiescence` and termination from `Backpressure`.
- Mutable objects, and objects that refer to actors, are absent from `Orca`.
- Allocation never fails.  In `MessageQ` and `MPMCQ` the pool is a set of free
  blocks: `MemoryAccounted` of `Pool` is what lets them say so.
- In `Pool`: the ABA counter does not wrap around, memory is not given back to
  the system, and `ponyint_pool_realloc_size`, an allocation, a copy and a free,
  is not an action of its own.
- System calls, tracing, options, the compiler, the standard library and the
  tools: sequential code, input and output.  `PROJECT.json` gives the reason
  for each (`components`).

## 8. Plan

In order:

1. A composition of `Backpressure` and `Quiescence`: a scheduler whose mute map
   is not empty must not block; muted actors and termination.
2. `Orca` with mutable objects and objects that refer to actors; a proof of
   `CountsBalance`.
3. A proof of `MemoryAccounted` for the stacks of `Pool`, by the argument of
   `Counted`.
4. Pure algorithms against reference definitions: the Robin Hood hash map
   (`ds/hash.c`), capabilities and viewpoints (`src/src/libponyc/type/cap.c`,
   `viewpoint.c`), vtable colouring (`src/src/libponyc/reach/paint.c`).
5. `SystematicTesting` (`sched/systematic_testing.c`): one thread at a time,
   whatever wakes up.
