-------------------------------- MODULE Pool --------------------------------
(***************************************************************************)
(* The memory pool (mem/pool.c).                                           *)
(*                                                                         *)
(* A thread keeps free items of each size class in a list of its own, and  *)
(* exchanges whole lists with the others over a stack of lists per class   *)
(* (pool_push, pool_pull), whose top is a pointer with an ABA counter.     *)
(* Items smaller than POOL_ALIGN are cut from a free block of that size.   *)
(* Items of POOL_ALIGN come, and larger sizes always come, from the sorted *)
(* list of free blocks of the thread, then from a global sorted list of    *)
(* blocks, then from the system.  Threads that end give everything back:   *)
(* lists to the stacks, blocks to the global list.  That list is walked    *)
(* without a lock; to change it, a thread acquires one or two of its       *)
(* blocks, and whoever takes a block out waits until nobody is in the list.*)
(*                                                                         *)
(* Sizes and addresses are in units of POOL_MIN.  There are two classes: 0,*)
(* of size 1, stands for those below POOL_ALIGN, and 1, of size POOL_ALIGN,*)
(* for those from there up to POOL_MAX.                                    *)
(***************************************************************************)
EXTENDS Integers, Sequences, FiniteSets, FiniteSetsExt, SequencesExt

CONSTANTS
  Thread,
  NULL,
  Head0,     \* &pool_block_global, the header of the global list
  Align,     \* POOL_ALIGN
  Mmap,      \* POOL_MMAP
  Count,     \* pool_global_t.count, per class
  MaxMap,    \* bound: how much memory the system has
  Start      \* what the threads hold at the start, and what they will ask for

Class == {0, 1}

ASSUME PoolAssumption ==
  /\ Align > 1 /\ Mmap > Align
  /\ Count \in [Class -> Nat \ {0}]
  /\ \A s \in Start : \A t \in Thread : \A n \in s.work[t].sizes : n = 1 \/ n >= Align

Addr == 0 .. (MaxMap - 1)

VARIABLES
  used,      \* what the program has: memory in use, and the thread that got it
  list,      \* pool_local[class].pool of a thread: its free items
  bump,      \* pool_local[0].start and .end
  blocks,    \* pool_block_header of a thread: its list of free blocks
  largest,   \* pool_block_header.largest_size
  central,   \* pool_global[class].central: pointer and counter
  node,      \* pool_central_t: the items of a list on a stack, and the next
  gsize,     \* pool_block_t.size of the blocks of the global list
  gnext,     \* pool_block_t.global
  acquired,  \* pool_block_t.acquired
  inside,    \* in_pool_block_global
  r,         \* the registers of a thread
  mapped,    \* how much memory the system has given
  work       \* bound: the requests a thread still makes, their sizes, whether it ends

localVars  == <<list, bump, blocks, largest>>
stackVars  == <<central, node>>
globalVars == <<gsize, gnext, acquired, inside>>
vars == <<used, localVars, stackVars, globalVars, r, mapped, work>>

Block(a, n)    == [at |-> a, size |-> n]
InUse(a, n, t) == [at |-> a, size |-> n, by |-> t]

NoNode == [items |-> <<>>, central |-> NULL]

(* Registers: what is asked for (size, class), the item or block that is   *)
(* being given back (blk), cmp and next of pool_push and pool_pull, pos and*)
(* prev of the walk of the global list.                                    *)
Idle == [pc |-> "idle", size |-> 0, class |-> 0, blk |-> NULL,
         object |-> NULL, counter |-> 0, next |-> NULL, pos |-> NULL, prev |-> NULL]

Goto(t, l) == r' = [r EXCEPT ![t].pc = l]

Init ==
  \E s \in Start :
    /\ used = s.used /\ list = s.list /\ bump = s.bump
    /\ blocks = s.blocks
    /\ largest = [t \in Thread |-> IF s.blocks[t] = <<>> THEN 0 ELSE Last(s.blocks[t]).size]
    /\ central = [c \in Class |-> [object |-> IF s.stack[c] = <<>> THEN NULL ELSE s.stack[c][1], counter |-> 0]]
    /\ node = [a \in Addr |->
                 IF \E c \in Class : \E i \in DOMAIN s.stack[c] : s.stack[c][i] = a
                   THEN LET c == CHOOSE c \in Class : a \in Range(s.stack[c])
                            i == CHOOSE i \in DOMAIN s.stack[c] : s.stack[c][i] = a
                        IN  [items |-> <<a>>, central |-> IF i = Len(s.stack[c]) THEN NULL ELSE s.stack[c][i + 1]]
                   ELSE NoNode]
    /\ gsize = [a \in Addr |-> IF \E b \in Range(s.global) : b.at = a
                                 THEN (CHOOSE b \in Range(s.global) : b.at = a).size ELSE 0]
    /\ gnext = [a \in Addr \cup {Head0} |->
                  LET seq == <<Head0>> \o [i \in DOMAIN s.global |-> s.global[i].at] \o <<NULL>>
                  IN  IF a \in Range(seq) THEN seq[1 + CHOOSE i \in DOMAIN seq : seq[i] = a] ELSE NULL]
    /\ acquired = [a \in Addr \cup {Head0} |-> FALSE]
    /\ inside = 0
    /\ r = [t \in Thread |-> Idle]
    /\ mapped = s.mapped
    /\ work = s.work

-----------------------------------------------------------------------------
(***************************************************************************)
(* Size classes.                                                           *)
(***************************************************************************)
ClassOf(n) == IF n = 1 THEN 0 ELSE 1
SizeOf(c)  == IF c = 0 THEN 1 ELSE Align

(* The memory at p answers the request.  An item of class 0 that comes     *)
(* from memory of POOL_ALIGN leaves the rest of it to cut items from.      *)
Give(t, p) ==
  /\ used' = used \cup {InUse(p, r[t].size, t)}
  /\ bump' = IF r[t].size = 1 /\ r[t].class = 1
               THEN [bump EXCEPT ![t] = [start |-> p + 1, end |-> p + Align]] ELSE bump
  /\ r' = [r EXCEPT ![t] = Idle]

(* ponyint_pool_alloc, ponyint_pool_alloc_size.                            *)
Alloc(t) ==
  /\ r[t].pc = "idle" /\ work[t].requests > 0
  /\ \E n \in work[t].sizes :
       r' = [r EXCEPT ![t] = [Idle EXCEPT !.pc = IF n <= Align THEN "get" ELSE "pages",
                                          !.size = n, !.class = ClassOf(n)]]
  /\ work' = [work EXCEPT ![t].requests = @ - 1]
  /\ UNCHANGED <<used, localVars, stackVars, globalVars, mapped>>

(* pool_get: the list of the thread first.                                 *)
Get(t) ==
  LET mine == list[t][r[t].class]
  IN  /\ r[t].pc = "get"
      /\ IF mine # <<>>
           THEN list' = [list EXCEPT ![t][r[t].class] = Tail(mine)] /\ Give(t, mine[1])
           ELSE Goto(t, "pull") /\ UNCHANGED <<used, bump, list>>
      /\ UNCHANGED <<blocks, largest, stackVars, globalVars, mapped, work>>

(* pool_pull.  The pointer and the counter of the top are read one after   *)
(* the other; what they belong to may have changed in between.             *)
PullObject(t) ==
  /\ r[t].pc = "pull"
  /\ r' = [r EXCEPT ![t].pc = "pullcounter", ![t].object = central[r[t].class].object]
  /\ UNCHANGED <<used, localVars, stackVars, globalVars, mapped, work>>

PullCounter(t) ==
  /\ r[t].pc = "pullcounter"
  /\ r' = [r EXCEPT ![t].pc = IF r[t].object = NULL THEN "miss" ELSE "pullnext",
                    ![t].counter = central[r[t].class].counter]
  /\ UNCHANGED <<used, localVars, stackVars, globalVars, mapped, work>>

(* Where the top has been taken by another thread, its memory holds what   *)
(* that thread has put there: anything.                                    *)
PullNext(t) ==
  LET top == r[t].object
  IN  /\ r[t].pc = "pullnext"
      /\ \E n \in IF node[top] # NoNode THEN {node[top].central} ELSE Addr \cup {NULL} :
           r' = [r EXCEPT ![t].pc = "pullcas", ![t].next = n]
      /\ UNCHANGED <<used, localVars, stackVars, globalVars, mapped, work>>

Top(t) == [object |-> r[t].object, counter |-> r[t].counter]

(* A failed compare-and-swap loads the top.                                *)
Reload(t, l) ==
  r' = [r EXCEPT ![t].pc = l, ![t].object = central[r[t].class].object,
                 ![t].counter = central[r[t].class].counter, ![t].next = NULL]

PullTake(t, c) ==
  /\ central' = [central EXCEPT ![c] = [object |-> r[t].next, counter |-> @.counter + 1]]
  /\ node' = [node EXCEPT ![r[t].object] = NoNode]
  /\ list' = [list EXCEPT ![t][c] = Tail(node[r[t].object].items)]
  /\ Give(t, r[t].object)

(* Mutant: the counter is not compared.                                    *)
PullCasPointer(t) ==
  LET c == r[t].class
  IN  /\ r[t].pc = "pullcas"
      /\ IF central[c].object = r[t].object
           THEN PullTake(t, c)
           ELSE /\ Reload(t, IF central[c].object = NULL THEN "miss" ELSE "pullnext")
                /\ UNCHANGED <<stackVars, list, bump, used>>
      /\ UNCHANGED <<blocks, largest, globalVars, mapped, work>>

PullCas(t) ==
  LET c == r[t].class
  IN  /\ r[t].pc = "pullcas"
      /\ IF central[c] = Top(t)
           THEN PullTake(t, c)
           ELSE /\ Reload(t, IF central[c].object = NULL THEN "miss" ELSE "pullnext")
                /\ UNCHANGED <<stackVars, list, bump, used>>
      /\ UNCHANGED <<blocks, largest, globalVars, mapped, work>>

(* The stack is empty: cut an item of class 0 from the thread's free block,*)
(* or get memory of POOL_ALIGN for it; for that class, ask for a block.    *)
Miss(t) ==
  /\ r[t].pc = "miss"
  /\ IF r[t].class = 1 THEN Goto(t, "pages") /\ UNCHANGED <<used, bump>>
     ELSE IF bump[t].start < bump[t].end
       THEN /\ used' = used \cup {InUse(bump[t].start, 1, t)}
            /\ bump' = [bump EXCEPT ![t].start = @ + 1]
            /\ r' = [r EXCEPT ![t] = Idle]
       ELSE r' = [r EXCEPT ![t].pc = "get", ![t].class = 1] /\ UNCHANGED <<used, bump>>
  /\ UNCHANGED <<list, blocks, largest, stackVars, globalVars, mapped, work>>

-----------------------------------------------------------------------------
(***************************************************************************)
(* Blocks.                                                                 *)
(***************************************************************************)
(* pool_block_insert: the list of a thread is sorted by size.              *)
Insert(seq, b) ==
  SelectSeq(seq, LAMBDA x : x.size < b.size) \o <<b>> \o SelectSeq(seq, LAMBDA x : x.size >= b.size)

Need(t) == IF r[t].size <= Align THEN Align ELSE r[t].size

(* Mutant: largest_size stays when the largest block is cut.               *)
TakeStale(t, n) ==
  LET mine == blocks[t]
      i    == SelectInSeq(mine, LAMBDA b : b.size >= n)
      rem  == mine[i].size - n
  IN  /\ blocks' = [blocks EXCEPT ![t] =
           IF rem = 0 THEN RemoveAt(mine, i) ELSE Insert(RemoveAt(mine, i), Block(mine[i].at, rem))]
      /\ UNCHANGED largest
      /\ Give(t, mine[i].at + rem)

(* pool_block_get, from the thread's own list: the first block that is     *)
(* large enough, or its end, in which case it may have to move forward.    *)
Take(t, n) ==
  LET mine  == blocks[t]
      i     == SelectInSeq(mine, LAMBDA b : b.size >= n)
      rem   == mine[i].size - n
      moves == i > 1 /\ mine[i - 1].size > rem
  IN  /\ blocks' = [blocks EXCEPT ![t] =
           IF rem = 0 THEN RemoveAt(mine, i)
           ELSE IF moves THEN Insert(RemoveAt(mine, i), Block(mine[i].at, rem))
           ELSE [mine EXCEPT ![i].size = rem]]
      /\ largest' = IF i < Len(mine) THEN largest
                    ELSE [largest EXCEPT ![t] = IF rem > 0 /\ ~moves THEN rem
                                                ELSE IF i = 1 THEN 0 ELSE mine[i - 1].size]
      /\ Give(t, mine[i].at + rem)

(* pool_alloc_pages, pool_block_get, and the first look of pool_block_pull *)
(* at the global list.                                                     *)
Pages(t) ==
  /\ r[t].pc = "pages"
  /\ IF largest[t] >= Need(t)
       THEN Take(t, Need(t))
       ELSE /\ Goto(t, IF gnext[Head0] = NULL THEN "map" ELSE "enter")
            /\ UNCHANGED <<blocks, largest, used, bump>>
  /\ UNCHANGED <<list, stackVars, globalVars, mapped, work>>

(* A block larger than what is needed is kept, but for its end.            *)
Keep(t, b, n) ==
  LET rem == b.size - n
  IN  /\ blocks' = IF rem = 0 THEN blocks ELSE [blocks EXCEPT ![t] = Insert(@, Block(b.at, rem))]
      /\ largest' = [largest EXCEPT ![t] = Max({@, rem})]
      /\ Give(t, b.at + rem)

(* ponyint_virt_alloc: POOL_MMAP, or what is asked for if that is more.    *)
Map(t) ==
  LET n == Max({Need(t), Mmap})
  IN  /\ r[t].pc = "map" /\ mapped + n <= MaxMap
      /\ mapped' = mapped + n
      /\ Keep(t, Block(mapped, n), Need(t))
      /\ UNCHANGED <<list, stackVars, globalVars, work>>

(* ponyint_pool_free, ponyint_pool_free_size.  A list that is full is given*)
(* to the others first.                                                    *)
FreeItem(t) ==
  /\ r[t].pc = "idle"
  /\ \E u \in {v \in used : v.size <= Align} :
       LET c == ClassOf(u.size)
       IN  /\ used' = used \ {u}
           /\ IF Len(list[t][c]) = Count[c]
                THEN r' = [r EXCEPT ![t] = [Idle EXCEPT !.pc = "push", !.class = c, !.blk = u.at]]
                     /\ UNCHANGED list
                ELSE list' = [list EXCEPT ![t][c] = <<u.at>> \o @] /\ UNCHANGED r
  /\ UNCHANGED <<bump, blocks, largest, stackVars, globalVars, mapped, work>>

(* ponyint_pool_free_size, pool_free_pages.                                *)
FreePages(t) ==
  /\ r[t].pc = "idle"
  /\ \E u \in {v \in used : v.size > Align} :
       /\ used' = used \ {u}
       /\ blocks' = [blocks EXCEPT ![t] = Insert(@, Block(u.at, u.size))]
       /\ largest' = [largest EXCEPT ![t] = Max({@, u.size})]
  /\ UNCHANGED <<r, list, bump, stackVars, globalVars, mapped, work>>

(* pool_push.                                                              *)
PushObject(t) ==
  /\ r[t].pc = "push"
  /\ r' = [r EXCEPT ![t].pc = "pushcounter", ![t].object = central[r[t].class].object]
  /\ UNCHANGED <<used, localVars, stackVars, globalVars, mapped, work>>

Mine(t) == list[t][r[t].class]

PushCounter(t) ==
  /\ r[t].pc = "pushcounter"
  /\ r' = [r EXCEPT ![t].pc = "pushcas", ![t].counter = central[r[t].class].counter]
  /\ node' = [node EXCEPT ![Mine(t)[1]] = [items |-> Mine(t), central |-> r[t].object]]
  /\ UNCHANGED <<used, localVars, central, globalVars, mapped, work>>

PushCas(t) ==
  LET c == r[t].class
  IN  /\ r[t].pc = "pushcas"
      /\ IF central[c] = Top(t)
           THEN /\ central' = [central EXCEPT ![c] = [object |-> Mine(t)[1], counter |-> @.counter + 1]]
                /\ list' = [list EXCEPT ![t][c] = IF r[t].blk = NULL THEN <<>> ELSE <<r[t].blk>>]
                /\ r' = [r EXCEPT ![t] = IF r[t].blk = NULL THEN [Idle EXCEPT !.pc = "cleanup"] ELSE Idle]
                /\ UNCHANGED node
           ELSE /\ Reload(t, "pushcas")
                /\ node' = [node EXCEPT ![Mine(t)[1]].central = central[c].object]
                /\ UNCHANGED <<central, list>>
      /\ UNCHANGED <<used, bump, blocks, largest, globalVars, mapped, work>>

-----------------------------------------------------------------------------
(***************************************************************************)
(* The global list of blocks: pool_block_pull, and pool_block_push, which  *)
(* has no request (size 0) and a block to insert.  Both walk the list the  *)
(* same way, and start over whenever they lose a race.                     *)
(***************************************************************************)
Pushing(t) == r[t].size = 0

Wanted(t) == IF Pushing(t) THEN gsize[r[t].blk] ELSE Need(t)

EnterGlobal(t) ==
  /\ r[t].pc = "enter"
  /\ inside' = inside + 1
  /\ Goto(t, "start")
  /\ UNCHANGED <<used, localVars, stackVars, gsize, gnext, acquired, mapped, work>>

StartWalk(t) ==
  /\ r[t].pc = "start"
  /\ r' = [r EXCEPT ![t].pc = IF gnext[Head0] = NULL /\ ~Pushing(t) THEN "leave" ELSE "walk",
                    ![t].pos = gnext[Head0], ![t].prev = Head0]
  /\ UNCHANGED <<used, localVars, stackVars, globalVars, mapped, work>>

(* The next block, while it is too small; else acquire the one before it.  *)
Walk(t) ==
  LET pos  == r[t].pos
      prev == r[t].prev
  IN  /\ r[t].pc = "walk"
      /\ IF pos # NULL /\ Wanted(t) > (IF pos = NULL THEN 0 ELSE gsize[pos])
           THEN r' = [r EXCEPT ![t].prev = pos, ![t].pos = gnext[pos]] /\ UNCHANGED acquired
         ELSE IF pos = NULL /\ ~Pushing(t)
           THEN Goto(t, "leave") /\ UNCHANGED acquired
           ELSE /\ Goto(t, IF acquired[prev] THEN "start" ELSE "check")
                /\ acquired' = [acquired EXCEPT ![prev] = TRUE]
      /\ UNCHANGED <<used, localVars, stackVars, gsize, gnext, inside, mapped, work>>

(* Nothing was inserted or removed in between.                             *)
CheckLink(t) ==
  /\ r[t].pc = "check"
  /\ Goto(t, IF gnext[r[t].prev] # r[t].pos THEN "drop" ELSE IF Pushing(t) THEN "link" ELSE "take")
  /\ UNCHANGED <<used, localVars, stackVars, globalVars, mapped, work>>

(* Mutant: prev stays acquired when the block is somebody else's.          *)
DropKeeps(t) ==
  /\ r[t].pc = "drop"
  /\ Goto(t, "start")
  /\ UNCHANGED <<used, localVars, stackVars, globalVars, mapped, work>>

Drop(t) ==
  /\ r[t].pc = "drop"
  /\ acquired' = [acquired EXCEPT ![r[t].prev] = FALSE]
  /\ Goto(t, "start")
  /\ UNCHANGED <<used, localVars, stackVars, gsize, gnext, inside, mapped, work>>

AcquireBlock(t) ==
  /\ r[t].pc = "take"
  /\ Goto(t, IF acquired[r[t].pos] THEN "drop" ELSE "next")
  /\ acquired' = [acquired EXCEPT ![r[t].pos] = TRUE]
  /\ UNCHANGED <<used, localVars, stackVars, gsize, gnext, inside, mapped, work>>

LoadNext(t) ==
  /\ r[t].pc = "next"
  /\ r' = [r EXCEPT ![t].pc = "unlink", ![t].next = gnext[r[t].pos]]
  /\ UNCHANGED <<used, localVars, stackVars, globalVars, mapped, work>>

Unlink(t) ==
  /\ r[t].pc = "unlink"
  /\ gnext' = [gnext EXCEPT ![r[t].prev] = r[t].next]
  /\ r' = [r EXCEPT ![t].pc = "release", ![t].blk = r[t].pos]
  /\ UNCHANGED <<used, localVars, stackVars, gsize, acquired, inside, mapped, work>>

Link(t) ==
  /\ r[t].pc = "link"
  /\ gnext' = [gnext EXCEPT ![r[t].blk] = r[t].pos, ![r[t].prev] = r[t].blk]
  /\ r' = [r EXCEPT ![t].pc = "release", ![t].blk = NULL]
  /\ UNCHANGED <<used, localVars, stackVars, gsize, acquired, inside, mapped, work>>

(* The block itself stays acquired.                                        *)
Release(t) ==
  /\ r[t].pc = "release"
  /\ acquired' = [acquired EXCEPT ![r[t].prev] = FALSE]
  /\ Goto(t, "leave")
  /\ UNCHANGED <<used, localVars, stackVars, gsize, gnext, inside, mapped, work>>

LeaveGlobal(t) ==
  /\ r[t].pc = "leave"
  /\ inside' = inside - 1
  /\ r' = [r EXCEPT ![t].pc = IF Pushing(t) THEN "cleanup" ELSE IF r[t].blk = NULL THEN "map" ELSE "wait",
                    ![t].pos = NULL, ![t].prev = NULL, ![t].next = NULL]
  /\ UNCHANGED <<used, localVars, stackVars, gsize, gnext, acquired, mapped, work>>

Unlisted(b) ==
  /\ gsize' = [gsize EXCEPT ![b] = 0]
  /\ gnext' = [gnext EXCEPT ![b] = NULL]
  /\ acquired' = [acquired EXCEPT ![b] = FALSE]

(* Mutant: the block is used while others may still read it.               *)
TakeBlockNow(t) ==
  /\ r[t].pc = "wait"
  /\ Keep(t, Block(r[t].blk, gsize[r[t].blk]), Need(t))
  /\ Unlisted(r[t].blk)
  /\ UNCHANGED <<list, stackVars, inside, mapped, work>>

(* Once nobody is in the list, the block is the thread's to change.        *)
TakeBlock(t) ==
  /\ r[t].pc = "wait" /\ inside = 0
  /\ Keep(t, Block(r[t].blk, gsize[r[t].blk]), Need(t))
  /\ Unlisted(r[t].blk)
  /\ UNCHANGED <<list, stackVars, inside, mapped, work>>

-----------------------------------------------------------------------------
(***************************************************************************)
(* The end of a thread: ponyint_pool_thread_cleanup.  What is left of the  *)
(* free block becomes items, the lists go to the stacks, the blocks to the *)
(* global list.                                                            *)
(***************************************************************************)
End(t) ==
  /\ r[t].pc = "idle" /\ work[t].ends /\ work[t].requests = 0
  /\ Goto(t, "cleanup")
  /\ UNCHANGED <<used, localVars, stackVars, globalVars, mapped, work>>

PushList(t, c) ==
  /\ r' = [r EXCEPT ![t] = [Idle EXCEPT !.pc = "push", !.class = c]]
  /\ UNCHANGED <<localVars, gsize>>

CutItem(t) ==
  /\ list' = [list EXCEPT ![t][0] = <<bump[t].start>> \o @]
  /\ bump' = [bump EXCEPT ![t].start = @ + 1]
  /\ UNCHANGED <<r, blocks, largest, gsize>>

PushBlock(t) ==
  LET b == blocks[t][1]
  IN  /\ blocks' = [blocks EXCEPT ![t] = Tail(@)]
      /\ gsize' = [gsize EXCEPT ![b.at] = b.size]
      /\ r' = [r EXCEPT ![t] = [Idle EXCEPT !.pc = "enter", !.blk = b.at]]
      /\ UNCHANGED <<list, bump, largest>>

Cleanup(t) ==
  /\ r[t].pc = "cleanup"
  /\ IF bump[t].start < bump[t].end
       THEN IF Len(list[t][0]) = Count[0] THEN PushList(t, 0) ELSE CutItem(t)
     ELSE IF \E c \in Class : list[t][c] # <<>>
       THEN PushList(t, Min({c \in Class : list[t][c] # <<>>}))
     ELSE IF blocks[t] # <<>> THEN PushBlock(t)
     ELSE /\ largest' = [largest EXCEPT ![t] = 0]
          /\ Goto(t, "done")
          /\ UNCHANGED <<list, bump, blocks, gsize>>
  /\ UNCHANGED <<used, stackVars, gnext, acquired, inside, mapped, work>>

-----------------------------------------------------------------------------
(* What a thread does once it is in the pool.                              *)
Step(t) ==
  \/ Get(t) \/ PullObject(t) \/ PullCounter(t) \/ PullNext(t) \/ PullCas(t) \/ Miss(t)
  \/ Pages(t) \/ Map(t) \/ PushObject(t) \/ PushCounter(t) \/ PushCas(t)
  \/ EnterGlobal(t) \/ StartWalk(t) \/ Walk(t) \/ CheckLink(t) \/ Drop(t)
  \/ AcquireBlock(t) \/ LoadNext(t) \/ Unlink(t) \/ Link(t) \/ Release(t)
  \/ LeaveGlobal(t) \/ TakeBlock(t) \/ Cleanup(t)

Next == \E t \in Thread : Alloc(t) \/ FreeItem(t) \/ FreePages(t) \/ End(t) \/ Step(t)

Spec == Init /\ [][Next]_vars

(* A thread that is in the pool is scheduled; what it asks for is its own. *)
FairSpec == Spec /\ \A t \in Thread : WF_vars(Step(t))

-----------------------------------------------------------------------------
(***************************************************************************)
(* Properties.                                                             *)
(***************************************************************************)
RECURSIVE Chain(_, _, _)
(* The first n elements that the links of a list lead to.                  *)
Chain(next, a, n) == IF a = NULL \/ n = 0 THEN <<>> ELSE <<a>> \o Chain(next, next[a], n - 1)

StackOf(c) == Chain([a \in Addr |-> node[a].central], central[c].object, MaxMap)
GlobalList == Chain(gnext, gnext[Head0], MaxMap)

Piece(where, a, n) == [where |-> where, at |-> a, size |-> n]

(* The memory that is one thread's, or the program's.  A piece says where  *)
(* it is, so that what is in two places, even of one kind, is two pieces.  *)
Owned ==
  {Piece(<<"used", u.by>>, u.at, u.size) : u \in used}
    \cup UNION {{Piece(<<"list", t, c, i>>, list[t][c][i], SizeOf(c)) : i \in DOMAIN list[t][c]} :
                 <<t, c>> \in Thread \X Class}
    \cup {Piece(<<"bump", t>>, bump[t].start, bump[t].end - bump[t].start) : t \in Thread}
    \cup UNION {{Piece(<<"blocks", t, i>>, blocks[t][i].at, blocks[t][i].size) : i \in DOMAIN blocks[t]} :
                 t \in Thread}

(* What a thread has in its hands: an item to free, a block on its way from*)
(* or to the global list.                                                  *)
Held == {Piece(<<"held", t>>, r[t].blk,
               IF r[t].pc \in {"push", "pushcounter", "pushcas"} THEN SizeOf(r[t].class) ELSE gsize[r[t].blk]) :
           t \in {u \in Thread : r[u].blk # NULL}}

Shared ==
  UNION {LET at == StackOf(c)
         IN  UNION {{Piece(<<"stack", c, i, j>>, node[at[i]].items[j], SizeOf(c)) : j \in DOMAIN node[at[i]].items} :
                      i \in DOMAIN at} : c \in Class}
    \cup {Piece(<<"global", i>>, GlobalList[i], gsize[GlobalList[i]]) : i \in DOMAIN GlobalList}

Extent(p) == p.at .. (p.at + p.size - 1)

(* Memory is never lost and never in two places: whatever the system gave, *)
(* in use, in a thread's lists or blocks, on a stack, in the global list or*)
(* on its way between them, is there once (pool_pull and pool_push of two  *)
(* threads on one stack, with the ABA counter; pool_block_pull of one      *)
(* thread against pool_block_push of another).                             *)
MemoryAccounted ==
  LET pieces == Owned \cup Held \cup Shared
  IN  /\ \A p, q \in pieces : p # q => Extent(p) \cap Extent(q) = {}
      /\ UNION {Extent(p) : p \in pieces} = 0 .. (mapped - 1)

(* "We can't modify block until we're sure no other thread will try to read*)
(* from it": the blocks that a thread in the global list has its pointers  *)
(* at are not yet anybody's to use or to cut (the wait for                 *)
(* in_pool_block_global in pool_block_pull).                               *)
NotReadWhileChanged ==
  \A t \in Thread : \A a \in {r[t].pos, r[t].prev} \ {NULL, Head0} :
    \A p \in Owned : a \notin Extent(p)

(* The list of a thread's blocks is sorted and largest_size is the size of *)
(* its last one, whatever pool_block_get cuts, moves or takes out: where it*)
(* says that a block is large enough there is one (the pony_assert(false)  *)
(* there), and where it says there is none the thread holds none.          *)
LocalListOrdered ==
  \A t \in Thread :
    /\ \A i, j \in DOMAIN blocks[t] : i < j => blocks[t][i].size <= blocks[t][j].size
    /\ r[t].pc \in {"idle", "get", "pages", "map", "wait"} =>
         largest[t] = IF blocks[t] = <<>> THEN 0 ELSE Last(blocks[t]).size

(* Every call returns: no thread starts over for ever, in a stack or in the*)
(* global list, nor waits for ever until nobody is in it, once the others  *)
(* stop coming.                                                            *)
EveryCallReturns == \A t \in Thread : []<>(r[t].pc \in {"idle", "done"})
=============================================================================
