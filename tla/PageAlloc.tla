------------------------------ MODULE PageAlloc ------------------------------
(***************************************************************************)
(* The buddy allocator of src/page_alloc.c: page_alloc() and page_free()   *)
(* over the per-order block lists of fl_meta.                              *)
(*                                                                         *)
(* A page block (struct page_block) is the record of its order and its     *)
(* first page; addresses are page numbers (addr / PAGE_SIZE).  list[o] is  *)
(* the chain from fl_meta.list[o].first, count[o] the counter beside it.   *)
(* The two are separate state because the code lets them part: truncating  *)
(* a chain in remove_next_free_block() takes one off the counter however   *)
(* many blocks it cuts off.                                                *)
(*                                                                         *)
(* Calls are made one at a time (see README), so op is the one call in     *)
(* progress and each action is one iteration of its loop or recursion.     *)
(***************************************************************************)
EXTENDS Integers, Sequences, SequencesExt

CONSTANTS
  MaxPageOrder,   \* MAX_PAGE_ORDER: lists exist for orders 0..MaxPageOrder
  BootOrder,      \* the heap given to init_free_list() is 2^BootOrder pages
  Bases,          \* where it may start, &__phymem_end / PAGE_SIZE: linker.ld
                  \* aligns it to a page, not to the size of the heap
  PageBlock,      \* PAGE_BLOCK(order), the pages of a block of that order
  Requests        \* the page counts that callers ask for

Orders == 0 .. MaxPageOrder

ASSUME OrderAssumption ==
  /\ MaxPageOrder \in Nat
  /\ BootOrder \in Nat
  /\ BootOrder < MaxPageOrder

ASSUME HeapAssumption ==
  /\ Bases \subseteq Nat
  /\ Requests \subseteq Nat

ASSUME PageBlockAssumption ==
  /\ PageBlock \in [Orders -> Nat]
  /\ PageBlock[0] = 1
  /\ \A o \in Orders : o + 1 \in Orders => PageBlock[o + 1] = 2 * PageBlock[o]
  /\ \A o, q \in Orders : o < q => 2 * PageBlock[o] <= PageBlock[q]

VARIABLES
  list,    \* list[o]: the blocks chained from fl_meta.list[o].first
  count,   \* count[o]: fl_meta.list[o].count
  used,    \* the blocks whose flags are BLOCK_USED
  last,    \* the block of fl_meta.last_entry, chained or not
  held,    \* the blocks whose address a caller got and has not freed
  op,      \* the call in progress
  base,    \* the first page of the heap, addr of init_free_list()
  crossed  \* history: a split has taken its second half from below the first

vars == <<list, count, used, last, held, op, base, crossed>>

Block == [order : Orders, page : Int]

\* A block [order, page] covers the pages page .. page + 2^order - 1.
Pages(b) == b.page .. b.page + PageBlock[b.order] - 1

Disjoint(b, c) ==
  \/ b.page + PageBlock[b.order] <= c.page
  \/ c.page + PageBlock[c.order] <= b.page

\* get_buddy_pfn(): XOR of the address with the size of the block flips one bit.
Buddy(b) ==
  LET size == PageBlock[b.order]
  IN  [order |-> b.order,
       page  |-> IF (b.page \div size) % 2 = 0 THEN b.page + size
                                               ELSE b.page - size]

\* get_page_order(): the first order whose blocks are large enough.
IsPageOrder(n, o) ==
  /\ n <= PageBlock[o]
  /\ \A q \in 0 .. o - 1 : PageBlock[q] < n

Free(b) == b \notin used

Listed == UNION {ToSet(list[o]) : o \in Orders}

-----------------------------------------------------------------------------
(* The searches of the lists. *)

\* list_has_free_block(): looks at no more than count blocks, stops at NULL.
HasFreeBlock(o) ==
  \E i \in DOMAIN list[o] : i <= count[o] /\ Free(list[o][i])

\* The order get_block() starts to split from; with no free block anywhere its
\* loop runs out at MAX_PAGE_ORDER.
IsClosestOrder(target, curr) ==
  /\ target <= curr
  /\ curr < MaxPageOrder => HasFreeBlock(curr)
  /\ \A o \in target .. curr - 1 : ~ HasFreeBlock(o)

LastEntryFits(o) == last.order = o /\ Free(last)

\* get_next_free_block() reads past NULL when count is two ahead of the chain.
SearchWalksOff(o) == ~ LastEntryFits(o) /\ count[o] > Len(list[o]) + 1

\* get_next_free_block(): the last entry made, if it is free and of the order,
\* else the free block nearest the tail; the empty set is NULL.  One count too
\* many makes get_nth_block() return NULL for the first index tried.
NextFreeBlock(o) ==
  IF LastEntryFits(o) THEN {last}
  ELSE IF count[o] > Len(list[o]) THEN {}
  ELSE {list[o][i] : i \in {j \in DOMAIN list[o] :
                              /\ Free(list[o][j])
                              /\ \A k \in j + 1 .. Len(list[o]) : ~ Free(list[o][k])}}

\* remove_next_free_block() reads the flags of NULL when count is ahead.
RemoveWalksOff(o) == count[o] >= 2 /\ count[o] > Len(list[o])

\* Wrong on purpose: cuts the chain behind the free block, not before it.
NextFreeRemoved_Behind(o) ==
  IF count[o] = 1
  THEN {s \in {<< >>} : Free(list[o][1])}
  ELSE {SubSeq(list[o], 1, i) : i \in {j \in 2 .. Len(list[o]) :
                                         /\ Free(list[o][j])
                                         /\ \A k \in j + 1 .. Len(list[o]) : ~ Free(list[o][k])}}

\* remove_next_free_block(): the chains it may leave, none when it fails.  Of
\* several blocks it cuts the chain before the free one nearest the tail,
\* whatever comes after, and never looks at the first.
NextFreeRemoved(o) ==
  IF count[o] = 1
  THEN {s \in {<< >>} : Free(list[o][1])}
  ELSE {SubSeq(list[o], 1, i - 1) : i \in {j \in 2 .. Len(list[o]) :
                                             /\ Free(list[o][j])
                                             /\ \A k \in j + 1 .. Len(list[o]) : ~ Free(list[o][k])}}

\* Wrong on purpose: the whole list goes, however many blocks it has.
PageBlockRemoved_All(s, c, b) == {<< >>}

\* Wrong on purpose: counted off, but still linked.
PageBlockRemoved_Linked(s, c, b) == {s}

\* remove_page_block(b): the chains it may leave of chain s with counter c.  A
\* list counted as one block is emptied; otherwise b is unlinked from its
\* predecessor, so a block that comes first cannot be removed.
PageBlockRemoved(s, c, b) ==
  IF c = 1 THEN {<< >>}
  ELSE {RemoveAt(s, i) : i \in {j \in 2 .. Len(s) : s[j] = b}}

\* find_block_by_pfn(): the block that starts at the page, lowest order first.
IsBlockOfPfn(b, page) ==
  /\ b \in Listed
  /\ b.page = page
  /\ \A c \in Listed : c.page = page => b.order <= c.order

-----------------------------------------------------------------------------
(* The call in progress. *)

Idle == [pc |-> "idle"]
Wild == [pc |-> "wild"]      \* the code has followed a NULL pointer
Reducing(curr, target) == [pc |-> "reduce", curr |-> curr, target |-> target]
Merging(b) == [pc |-> "merge", block |-> b]

Calls ==
  [pc : {"idle", "wild"}]
    \union [pc : {"reduce"}, curr : Orders, target : Orders]
    \union [pc : {"merge"}, block : Block]

\* init_free_list() on 2^BootOrder pages: one block, in the list of its order.
BootAt(page) == [order |-> BootOrder, page |-> page]

BootBlock == BootAt(base)

Init ==
  /\ base \in Bases
  /\ list = [o \in Orders |-> IF o = BootOrder THEN <<BootBlock>> ELSE << >>]
  /\ count = [o \in Orders |-> IF o = BootOrder THEN 1 ELSE 0]
  /\ used = {}
  /\ last = BootBlock
  /\ held = {}
  /\ op = Idle
  /\ crossed = FALSE

-----------------------------------------------------------------------------
(* page_alloc(n): get_block(), reduce_to_order(), mark_block_used(). *)

\* The checks of page_alloc() and the order get_block() starts from.  A call
\* for no page or for more than MAX_PAGE_BLOCK returns NULL and changes nothing.
AllocStart(n) ==
  /\ op = Idle
  /\ n > 0
  /\ \E target \in Orders, curr \in Orders :
       /\ IsPageOrder(n, target)
       /\ IsClosestOrder(target, curr)
       /\ op' = Reducing(curr, target)
  /\ UNCHANGED <<list, count, used, last, held, base, crossed>>

Splitting(o) == op.pc = "reduce" /\ op.curr = o /\ op.curr > op.target

\* split_page_block(): the next free block goes, whether or not it is the one
\* removed from the chain, and its two halves join the list one order below.
SplitPageBlock(o) ==
  /\ Splitting(o)
  /\ ~ SearchWalksOff(o) /\ ~ RemoveWalksOff(o)
  /\ \E b \in NextFreeBlock(o) :
       LET lower == [order |-> o - 1, page |-> b.page]
           upper == Buddy(lower)
       IN  /\ \E s \in NextFreeRemoved(o) :
                list' = [list EXCEPT ![o] = s, ![o - 1] = @ \o <<lower, upper>>]
           /\ used' = used \ {lower, upper}
           /\ last' = upper
           /\ crossed' = (crossed \/ upper.page < lower.page)
  /\ count' = [count EXCEPT ![o] = @ - 1, ![o - 1] = @ + 2]
  /\ op' = Reducing(o - 1, op.target)
  /\ UNCHANGED <<held, base>>

\* split_page_block() returns 1 and page_alloc() NULL: nothing could be removed.
SplitFails(o) ==
  /\ Splitting(o)
  /\ ~ SearchWalksOff(o) /\ ~ RemoveWalksOff(o)
  /\ NextFreeRemoved(o) = {}
  /\ op' = Idle
  /\ UNCHANGED <<list, count, used, last, held, base, crossed>>

\* The counter is ahead of the chain and the search follows its last next.
SplitWalksOff(o) ==
  /\ Splitting(o)
  /\ SearchWalksOff(o) \/ RemoveWalksOff(o)
  /\ op' = Wild
  /\ UNCHANGED <<list, count, used, last, held, base, crossed>>

\* Wrong on purpose: the loop of reduce_to_order() runs while curr >= target.
Picking_Below(o) == op.pc = "reduce" /\ op.curr = o /\ op.curr < op.target

Picking(o) == op.pc = "reduce" /\ op.curr = o /\ op.curr <= op.target

\* Wrong on purpose: a block handed out is counted off its list.
TakeBlock_Uncounted(o) ==
  /\ Picking(o)
  /\ ~ SearchWalksOff(op.target)
  /\ \E b \in NextFreeBlock(op.target) :
       /\ used' = used \union {b}
       /\ held' = held \union {b}
  /\ count' = [count EXCEPT ![op.target] = @ - 1]
  /\ op' = Idle
  /\ UNCHANGED <<list, last, base, crossed>>

\* The end of reduce_to_order(), and the block marked used and returned.
TakeBlock(o) ==
  /\ Picking(o)
  /\ ~ SearchWalksOff(op.target)
  /\ \E b \in NextFreeBlock(op.target) :
       /\ used' = used \union {b}
       /\ held' = held \union {b}
  /\ op' = Idle
  /\ UNCHANGED <<list, count, last, base, crossed>>

NoBlock(o) ==
  /\ Picking(o)
  /\ ~ SearchWalksOff(op.target)
  /\ NextFreeBlock(op.target) = {}
  /\ op' = Idle
  /\ UNCHANGED <<list, count, used, last, held, base, crossed>>

TakeWalksOff(o) ==
  /\ Picking(o)
  /\ SearchWalksOff(op.target)
  /\ op' = Wild
  /\ UNCHANGED <<list, count, used, last, held, base, crossed>>

-----------------------------------------------------------------------------
(* page_free(pfn): find_block_by_pfn(), mark_block_free(), merge_buddy(). *)

\* A caller gives back the address it got; the block is looked up by address.
PageFree(b) ==
  /\ op = Idle
  /\ b \in held
  /\ held' = held \ {b}
  /\ \/ /\ \A c \in Listed : c.page # b.page
        /\ UNCHANGED <<used, op>>
     \/ \E c \in Listed :
          /\ IsBlockOfPfn(c, b.page)
          /\ used' = used \ {c}
          /\ op' = Merging(c)
  /\ UNCHANGED <<list, count, last, base, crossed>>

\* Wrong on purpose: merges with a buddy in use.
Mergeable_UsedBuddy(b) ==
  /\ Buddy(b) \in ToSet(list[b.order])
  /\ Free(b)
  /\ PageBlockRemoved(list[b.order], count[b.order], b) # {}

\* Both free, and the block can be unlinked: what merge_buddy() checks first.
Mergeable(b) ==
  /\ Buddy(b) \in ToSet(list[b.order])
  /\ Free(b) /\ Free(Buddy(b))
  /\ PageBlockRemoved(list[b.order], count[b.order], b) # {}

\* merge_buddy() returns without having changed anything.
MergeStops ==
  /\ op.pc = "merge"
  /\ ~ Mergeable(op.block)
  /\ op' = Idle
  /\ UNCHANGED <<list, count, used, last, held, base, crossed>>

\* merge_buddy() has unlinked the block and fails to unlink the buddy, which
\* comes first: the block is in no list any more.
MergeDropsBlock ==
  /\ op.pc = "merge"
  /\ Mergeable(op.block)
  /\ LET b == op.block
         o == b.order
     IN  \E t \in PageBlockRemoved(list[o], count[o], b) :
           /\ PageBlockRemoved(t, count[o] - 1, Buddy(b)) = {}
           /\ list' = [list EXCEPT ![o] = t]
           /\ count' = [count EXCEPT ![o] = @ - 1]
  /\ op' = Idle
  /\ UNCHANGED <<used, last, held, base, crossed>>

\* Both unlinked: one block of the next order is made of them, and merged too.
MergeBuddies ==
  /\ op.pc = "merge"
  /\ Mergeable(op.block)
  /\ LET b == op.block
         o == b.order
         c == Buddy(b)
         whole == [order |-> o + 1,
                   page |-> IF b.page > c.page THEN c.page ELSE b.page]
     IN  \E t \in PageBlockRemoved(list[o], count[o], b) :
           \E u \in PageBlockRemoved(t, count[o] - 1, c) :
             /\ list' = [list EXCEPT ![o] = u, ![o + 1] = Append(@, whole)]
             /\ count' = [count EXCEPT ![o] = @ - 2, ![o + 1] = @ + 1]
             /\ used' = used \ {whole}
             /\ last' = whole
             /\ op' = Merging(whole)
  /\ UNCHANGED <<held, base, crossed>>

-----------------------------------------------------------------------------
\* After a NULL pointer was followed nothing is claimed: the kernel is gone.
Halted == op = Wild /\ UNCHANGED vars

Reduce ==
  \E o \in Orders : \/ SplitPageBlock(o) \/ SplitFails(o) \/ SplitWalksOff(o)
                    \/ TakeBlock(o) \/ NoBlock(o) \/ TakeWalksOff(o)

Merge == MergeStops \/ MergeDropsBlock \/ MergeBuddies

Step == Reduce \/ Merge

Next ==
  \/ \E n \in Requests : AllocStart(n)
  \/ \E b \in held : PageFree(b)
  \/ Step
  \/ Halted

Spec == Init /\ [][Next]_vars

\* A call, once made, runs on: nothing on its core takes its place.
FairSpec == Spec /\ WF_vars(Step)

-----------------------------------------------------------------------------
(* Properties *)

TypeOK ==
  /\ list \in [Orders -> Seq(Block)]
  /\ count \in [Orders -> Nat]
  /\ used \subseteq Block
  /\ last \in Block
  /\ held \subseteq Block
  /\ op \in Calls
  /\ base \in Bases
  /\ crossed \in BOOLEAN

\* Blocks the allocator can hand out or has handed out: those in the lists,
\* those callers hold (in a list or cut out of it), and the last entry while
\* it is free, for get_next_free_block() offers it without looking for it.
Live == Listed \union held \union {b \in {last} : Free(b)}

\* The lists implement a pool of pages: free are the pages of the free blocks
\* the allocator can still find, live the runs of pages of the blocks held.
\* The pool is broken once a split has made its second half below the first:
\* that page run is another block's, or nobody's.
FreePages == UNION {Pages(b) : b \in {c \in Live : Free(c)}}

Pool == INSTANCE PagePool WITH
          Heaps <- {Pages(BootAt(page)) : page \in Bases},
          Sizes <- {PageBlock[o] : o \in Orders},
          free <- IF crossed THEN {} ELSE FreePages,
          live <- IF crossed THEN {} ELSE {Pages(b) : b \in held},
          broken <- crossed

\* Until a split has made its second half below the first, page_alloc() hands
\* out whole runs of pages that are free, page_free() gives back what its caller
\* had, and nothing else ever makes a page free: no split, failed split, merge or
\* half-done merge returns a page someone holds.  Where the heap is aligned to its
\* size no split does that (SplitsUpwards); where it is only aligned to a page,
\* as linker.ld has it, a split may, and may break the pool for good.
ImplementsPool == Pool!Spec

\* A block a caller holds is never free to be split, merged or handed out
\* again, even once the lists have lost it (mark_block_used, page_free).
HeldIsUsed == held \subseteq used

\* page_alloc() never returns an address that somebody holds, wherever the heap
\* starts: what is held is never free again, and no two blocks start at one page,
\* although blocks are cut out of the lists, come back through last_entry, and are
\* split and merged at addresses computed by XOR.  Until a split has made its
\* second half below the first, no page is in two blocks either.
NoOverlap ==
  /\ HeldIsUsed
  /\ \A b, c \in Live : b # c => /\ b.page # c.page
                                 /\ ~ crossed => Disjoint(b, c)

\* A block is chained once, in the list of its order: with one chained twice,
\* remove_page_block() would leave a freed block behind for a second owner.
ChainedOnce ==
  \A o \in Orders :
    /\ \A i \in DOMAIN list[o] : list[o][i].order = o
    /\ \A i, j \in DOMAIN list[o] : i # j => list[o][i] # list[o][j]

\* The counter never falls behind the chain, and the two are empty together:
\* remove_next_free_block() and remove_page_block() decide by the counter alone
\* when to drop the whole chain.
CountCovers ==
  \A o \in Orders :
    /\ Len(list[o]) <= count[o]
    /\ list[o] = << >> <=> count[o] = 0

\* The last entry made, if it is chained, ends its chain: split_page_block()
\* cuts off the very block it splits.
LastIsTail ==
  \A o \in Orders : \A i \in DOMAIN list[o] :
    list[o][i] = last => i = Len(list[o])

\* A block at a multiple of its size.
Aligned(b) == b.page = (b.page \div PageBlock[b.order]) * PageBlock[b.order]

\* Every place the heap may start is a multiple of its size: what XOR buddies
\* need to lie inside it, and what linker.ld does not ask for.
AlignedHeap == \A page \in Bases : Aligned(BootAt(page))

OpOK ==
  /\ op.pc = "reduce" => op.target <= op.curr
  /\ op.pc = "merge" => op.block \in Listed /\ Free(op.block)

\* page_alloc() and page_free() return, or have followed a NULL pointer: the
\* split loop and the recursion of merge_buddy() come to an end.
CallsReturn == (op # Idle) ~> (op = Idle \/ op = Wild)

\* page_alloc.c:24: "Free list contains all page blocks."
FreeListContainsAll == held \subseteq Listed

\* page_alloc.c:555: "Seconday block or buddy is always created at a higher
\* address": the second block split_page_block() makes lies above the first.
SecondBuddyHigher ==
  [][\A o \in Orders : SplitPageBlock(o) =>
       \E b \in NextFreeBlock(o) : b.page < last'.page]_vars

=============================================================================
