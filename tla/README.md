# HobOS in TLA+

HobOS is a small AArch64 kernel for the Raspberry Pi 3. Core 0 boots, sets up
memory, the console, the timer and the run queues, and starts one kernel thread
that enters user space; cores 1 to 3 are started once and park. This directory
models the parts whose correctness depends on order, interleaving or long
sequences of calls. TLC checks the models on small instances, TLAPS proves their
safety for every value of the constants.

    tlc -workers 2 -config MCPageAlloc.cfg MCPageAlloc
    tlapm PageAllocProofs.tla

## Inventory

| part | source | state | operations | hard because | correct when |
|---|---|---|---|---|---|
| page allocator | `page_alloc.c` | `fl_meta`: a list, a counter per order, the last entry made; flags of blocks | `page_alloc`, `page_free`, `init_free_list` | lists are truncated, counters and chains part, blocks come back by address or as last entry | an address has one owner, blocks are disjoint, calls return |
| console and locking | `kstdio.c`, `asm/mutex.h`, `irq.c` | `print_mutex`, each core's interrupt mask, event register, exclusive monitor | `kprintf` | every core prints, from threads and from handlers | messages do not mix, nobody spins for ever, masks are restored |
| remote cores | `smp.c`, `proc.S` | per core: two mutexes, spin-table entry, jobs | `init_smp`, `__run_core`, `__park_and_wait`, `worker_process` | two cores hand a word over with two locks and events | each dispatch runs, and runs once |
| tasks and scheduler | `task.c`, `sched.c`, `workqueue.c` | run queue per core, context per task, `pid_cntr` | `kthread_create`, `kthread_queue`, `yield`, the timer handler | the tick comes anywhere, `yield` runs with interrupts on | stacks stay apart, the queue keeps every task until it is done |
| slab allocator | `slub.c`, `mm.c` | a cache per order and core, object lists of tasks, end of metadata | `slub_alloc`, `slub_free` | objects move between cores and tasks | an object has one owner |
| page tables | `pt.c`, `mmu.c` | three levels of tables and descriptors beside them | `map_pa_to_va_pg`, `va_set_attr`, `va_clear_attr`, `init_mmu` | descriptors and entries have to agree; pages come uncleared | a mapped page translates as asked and nothing else changes |
| user entry, system calls | `usr_entry.c`, `usr_ops.c`, `syscall*.c` | the user's table | `usr_init`, `svc` handlers | mostly straight-line | user memory only is read |
| boot, exception entry | `boot.S`, `proc.S`, `entry.S` | processor registers | straight-line | interrupts between two instructions | |
| timer, devices | `timer.c`, `uart.c`, `gpio.c`, `mmio.c`, `io.c`, `irq_bcm.c`, `irq_controller.c` | device registers | register accesses | | |
| formatted printing | `printf.c` | none | `vprintf`, conversions | boundaries of integers | digits are right |

How they meet: `kmalloc` (`mm.c`) calls the page allocator for a page or more and
the slab allocator otherwise, which itself takes pages; page tables take their
pages from `kmalloc`; tasks come from `kmalloc` too. `kprintf` is called from
everywhere, on every core and in handlers. The scheduler runs in the timer's
interrupt. Core 0 talks to the other cores through the spin table, two mutexes
per core and `sev`.

`PROJECT.json` lists every component with its status, every hazard at its line,
the runs, the theorems, and for each definition of a model the lines it stands
for.

## Modules

| module | what it is |
|---|---|
| `PageAlloc` | the buddy allocator |
| `PagePool` | what the allocator promises: runs of free pages, one owner per page |
| `Console` | `kprintf` on any set of cores, instruction by instruction |
| `Mutex` | what the instructions amount to: a mutex acquired in one step by one owner |
| `Smp` | start and dispatch of remote cores |
| `PageTable` | the page tables, their descriptors, and calls that change them |
| `PageMap` | what they promise: a map from pages to entries, which a call changes at one page and at once |
| `Slub` | the slab allocator, one object of a chain at a time |
| `Sched` | the threads of core 0, from `main()` to user space, and the timer's interrupt |
| `PageAllocProofs`, `ConsoleProofs`, `SmpProofs`, `PageTableProofs`, `SlubProofs`, `SlubChainProofs`, `SchedProofs` | the theorems |
| `MCPageAlloc`, `MCConsole`, `MCSmp`, `MCPageTable`, `MCSlub`, `MCSched` | the instances TLC runs |

Operators whose names end in `_Something` (`StoreExclusive_Plain`) are defects put
beside the definition they would replace; they are in no behaviour. Each shows
that a property would notice such a defect.

### PageAlloc

A `struct page_block` is the record of its order and its first page; `list[o]` is
the chain from `fl_meta.list[o].first`, `count[o]` its counter, `used` the blocks
with `BLOCK_USED`, `last` the block of `last_entry`. The chain and its counter
are separate state because the code lets them part. `held` is not in the code:
it is what callers hold.

`op` is the call in progress. `page_alloc` begins with `AllocStart` (the checks
and the order `get_block` finds), goes on with one `SplitPageBlock` per iteration
of `reduce_to_order`, and ends with `TakeBlock`, `NoBlock` or `SplitFails`.
`page_free` is `PageFree` followed by one `MergeBuddies` per recursion of
`merge_buddy`, and ends with `MergeStops`, or with `MergeDropsBlock` when the
block was unlinked and its buddy could not be. Where the code would follow a NULL
pointer (the counter ahead of the chain) the call goes to `Wild`, and nothing is
claimed of what follows.

One call runs at a time, which is what the kernel does: everything that
allocates runs in the boot code of core 0 or in its one thread, remote cores
only load a table core 0 has made, and the timer handler allocates nothing. There
is no lock in the allocator and none is modelled.

`init_free_list` is modelled for a power of two of pages, one block: `kernel.c`
passes 256. It may start at any page of `Bases`: the linker script aligns the heap to a
page and no more, so `get_buddy_pfn()` may take the second half of a split from below the
first. `crossed` remembers that this has happened. Print-outs and the test function are left out, and so is the place of the
metadata in memory: entries are never reclaimed and nothing bounds them.

`PagePool` has no lists. It allocates a run of pages that are free, takes a run
back, and may lose free pages: the code does. It never makes a page free that
somebody holds, until it breaks (`Break`) and promises nothing. `ImplementsPool` maps `free` to
the pages of the free blocks that can still be found, `live` to the runs that callers
hold, and `broken` to `crossed`: a split that goes down takes pages that are a caller's or
are not in the heap, and that is the only way the pool breaks.

### Console

`pc[c]["thread"]` and `pc[c]["handler"]` say at which instruction of `kprintf` each
level of core `c` is; `flags` is the `irq_flags` of that call, `masked` the
processor's mask. `ReadFlags` and `SetMask` are the two instructions of
`irq_save`; `LoadExclusive`, `StoreExclusive` and `WaitForEvent` the loop of
`acquire_mutex`; `StoreRelease` and `SendEvent` are `release_mutex`. `reserved` is
the exclusive monitor and `event` the event register of each core: both are the
processor's, as are `TakeInterrupt` and `ReturnFromInterrupt`. A handler is not
preempted by another: HobOS enables interrupts nowhere in one. `handle_irq` restores x19 to
x30 only, so a thread interrupted between `ReadFlags` and `SetMask` goes on with flags that
the handler has left in x0 (`LosesFlags`); `torn` remembers where they say masked. A store-exclusive
whose reservation stands succeeds; a spurious failure would only repeat the loop.

`Mutex` has no instructions: `Acquire` takes the mutex when it is 0 and makes one party its
owner, `Release` is the owner's. `ImplementsMutex` maps `owners` to the threads and handlers
that are in `vprintf` or about to release. It is what `Smp` takes `acquire_mutex` for.

### Smp

`master` is core 0: in `init_smp`, or between two calls of `__run_core`. `m0`, `m1`
and `exec_addr` are the fields of `struct worker`; `dispatched` and `starts` are
history, for the properties. `acquire_mutex` is one step that waits (Console has
its instructions), `release_mutex` stores and signals. The firmware's spin loop,
which makes the first jump, and wake-ups that have nothing to do with core 0
(`StrayEvent`: every `release_mutex` of a `kprintf` sends one) are outside the
repository. Memory is sequentially consistent.

No code calls `__run_core` yet: it is marked `__unused`, like the job queue behind
`worker_process`. The dispatch protocol is modelled as it is written; what a
worker does with its jobs is `Work`, which ends.

A core that runs `jump_to_EL1` a second time branches into `setup_stack` after
the stack offset is computed (`proc.S:28`, `:147`): its stack is wherever `x2`
points. `Boot` lets it park again or be `lost`.

### PageTable

A table is the page it is in. `entry` is what the page holds, and what the MMU sees;
`level` and `children` are its descriptor, `children` the chain from
`child_pt_desc`. A level of 0 means that the page has no descriptor. `Walk` is the
MMU's way through the entries, which knows nothing of descriptors.

`Call` begins `map_pa_to_va_pg` at the top table of the kernel (`ioremap`, the two
functions for attributes) or of the user (`id_map_to_usr`). Each iteration of its
loop is a step: `NewTable` or `NoPage` at an empty entry, `Follow` or `NotFound`
elsewhere, `WriteEntry` at level 3, which includes what the caller does with the
entry. Calls come one at a time, from core 0, but each iteration can be seen by
the MMUs of all cores. Within one iteration only one entry that a walk can
reach changes, so the iteration is one step. Any caller may
call in any order; the kernel's own order is one of these.

`create_pt` does not clear the page it gets. `Uncleared` fills it with empty entries
and junk in any mixture; `EntriesAssumption` says that junk does not
happen to refer to a page table. Tables are never freed, so no old table returns as
a new page; data that looks like a table's address is excluded by assumption. The descriptor of
the user's top table is uninitialised: `wild` says that its child pointer is not 0.

`init_mmu` links its first descriptor to a parent that is NULL (`mmu.c:134`): `Init` has the
kernel that stops there too. `Stopped` is `kernel_panic()`, and also where the code leaves what C defines: a wild
child pointer followed, a store through the NULL that a failed walk returns, a
user table at address 0. Nothing is claimed of what follows.

`PageMap` has no tables. A space (the kernel's, the user's) gives every page an entry;
`Begin` starts a call, `Finish` changes the entry of its page as asked and nothing else,
`Fail` ends it with nothing mapped, which only a mapping for the user survives. `Grow` is the
gap in the promise: a call in progress may make pages of its space that were empty read as
what lay in the pages it took for tables. `ImplementsMap` maps a space to what `Walk` finds from its top table.
So `Finish` is one step although the call takes up to three and every core's MMU looks on.

Not modelled: `create_id_mapping` and `create_pt_entries`, which nothing calls; the
unused `pt_len`; TLB maintenance, so `ImplementsMap` speaks of the tables and not of
stale translations; the page of 128 descriptors and its 8-bit counter.

### Slub

An object of `Objects` stands for its `struct kmem_obj` and for the memory at its
`addr`. `next` is the field of that name, which chains the objects of a cache and
those of a task alike; `used[t]` is `t->ctxt->used_kmem`; a cache's `first` never
changes and is the function `First`. `op[k]` is the call in progress on core `k` with
the pointers its loop moves: `WalkCache` and `Unlink` take the last object of the
cache, `WalkUsed` and `AddToTask` put it at the end of the task's list; `Free`, `Seek`,
`Found` and `NotFound` are `kmem_get_obj_parent`, `WalkHome` and `AddToCache` the end of
`kmem_reclaim_obj`. Every step follows one pointer, so the calls of several cores
interleave as they can without a lock. `FirstTask` is the first pid; before it every
core works for `idle_task`. `Schedule` gives a core's queue another head.

`slub.c` has defects that end in a chain that is no chain. Each is a step of the
model, which names it in `harm`:

| `harm` | what happened |
|---|---|
| `page` | no page for the caches; the NULL is used (`slub.c:195`, `:150`) |
| `beyond` | 1025 to 4095 bytes: an order past the last cache (`slub.c:231`) |
| `last` | the last object of a cache was handed out and stays in it (`slub.c:253`) |
| `nobody` | no current task: the object is lost, or NULL is followed (`slub.c:314`, `:371`) |
| `shared` | two cores at the list of one task, which is `idle_task`'s (`slub.c:275`) |
| `first` | the first object of a list was freed, the second one taken (`slub.c:363`) |
| `only` | the only object was freed and stays in the list (`slub.c:360`) |
| `missed` | an object of another task goes to `page_free` (`mm.c:54`) |
| `remote` | an object of another core goes to a cache nothing refers to (`slub.c:425`) |

No call begins after one, and the safety properties claim nothing from then on:
`OneReference`, `FixedLength`, `NothingLost`, `HeldIsListed` and the theorems about them all begin
with `Sound`, no defect so far, and `CallsReturn` ends with it. What is left is what a kernel gets that avoids these cases, and it is
not empty: `NothingLost` and `HeldIsListed` relate both kinds of chain, the hands of the
calls and what callers hold, over all interleavings. Not modelled: where metadata lies
(the 129 records of a core take more than the page they start in), and the status
of a cache, which nothing reads but its own update.

A thread that is interrupted in a call finds, if it goes on at all, that nothing has
happened: the tick's handler allocates nothing, and of the kernel's threads only
the one that enters user space does. So a core has one call at a time.

### Sched

Core 0 after `enable_interrupts()`: it is the only core whose queue has tasks and to
which the timer is routed. `queue` is `wq->queue` with its `next` pointers, `cyclic` says
that the last one's leads back into it. `made` and `new` are the tasks of `clone()`;
`running`, `completed` are fields; `frame[t]` is on whose stack `t->ctxt->sp` lies. The core is
`code` (whose function), `place` (where in it), `stack` and `lost`. They are apart
because the code lets them part: the handler saves the stack pointer and x19 to x30 of
what it interrupts and loads those of the next task, but `ELR_EL1`, and so the
place where `eret` goes, is left alone unless `kthread_init_stack()` sets it for a new
task. A resumed thread therefore never goes on at its own place: the code that was
interrupted does, on the other's stack (`TickResumes`).

`main()` is `Create` (or `CreateFails`), `AssignPid`, `Push` and at last `Idle`: the tick may
come between any two. It makes and queues up to three tasks: those of `test.c`
and the one that enters user space; with the test disabled, one. A tick is one step, since the
handler runs with interrupts off: `TickToNone` returns to what it interrupted,
`TickStarts` begins the next task, `TickResumes` takes its stack, `TickFails` follows NULL, a
queue without end, or, from user space, a vector that does not exist. A task works
(`work`), may return (`Return`, then `Yield` and `Switch`) or enter user space (`EnterUser`,
`ReturnToUser`) and call the kernel (`Svc`, `SvcEnds`). Code that has lost a register it
needs or is on another's stack goes on as it is written, or does anything (`GoAstray`):
nothing is claimed of a core that is `astray`. `Return` marks the task that is current, on whatever
stack it runs: `MarksStacksOwner` says which one that is.

`yield()` runs with interrupts on, and the tick may come between any two of its
looks at the queue: `Yield` finds a second task, `ReadHead` and `Unlink` are `wq_pop()`, which
reads the head and then takes it out, `PutBack` is `wq_push()`, for a task that has not completed.
A tick between `Yield` and `Unlink` moves the head on. The yielder then either is replaced by a
thread that starts, or goes on with registers that are not its own, and what it
pops may be another task, which is out of the queue until it is pushed. `torn` records such
an `Unlink`. The queue's properties hold up to it and claim nothing from then on; what
they do say is that this is the only way. After `Unlink` the yielder has left the queue but
runs on its stack until `sched_switch()` has loaded another: a tick in this window saves that stack in
the context of the next task (`sched.c:119`), whose own is lost. `HeadOnItsStack` names
the window. `sched_switch()` loads its registers from `struct ctxt` instead of the stack the
context points to, x30 from behind its end; `Switch` ends astray.

## Runs

| run | instance | shows |
|---|---|---|
| `page_alloc` | 8 pages from page 8 or 10, orders 0 to 4, requests of 1, 2, 5, 9 pages | no address given twice, well-formed lists, calls that return; disjoint blocks and the pool until a split goes down |
| `page_alloc_lists` | 8 pages from page 8, requests of 1, 2, 3, 8, 9 pages | violated: lists do not contain all blocks |
| `page_alloc_unaligned` | the same heap from page 9 | violated: the second buddy is below the first |
| `console` | 3 cores, thread and handler on each | one message at a time, the mutex of `Mutex`, no self-deadlock, no lost wake-up, masks kept but for a torn `irq_save`, someone prints |
| `smp` | 2 remote cores, 3 dispatches to each | no lost dispatch, at most one extra run, dispatches run, core 0 returns |
| `page_table` | tables of 2 entries, 3 pages for new ones, 4 pages to map, 1 whose attributes change | descriptors and entries agree, no shared table, the map of `PageMap`: no other page disturbed |
| `smp_new` | 2 remote cores, set up only | violated: a core runs what it has already run |
| `slub` | 2 cores, orders of 3 objects and of 1, `idle_task` and 2 tasks of core 0 | until a defect has struck: one reference to an object, no loss, caches of one length, calls that return |
| `slub_free` | the same | violated: freeing the first object takes out the second |
| `sched` | 3 tasks | until a torn `yield()`: stacks apart, the queue keeps its tasks, the stack in use is the head's outside of the switch; all are started and leave when marked done |
| `sched_context` | the same | violated: a thread loses registers or its stack |
| `sched_idle` | the same | violated: a tick with no current task |

Bounds. Eight pages give four orders: a chain of several blocks to truncate, a
split of a block in the middle of a chain, merges of merges, a metadata entry
that survives its list, and one order above the heap, where a request falls off
the end of the search. The heap starts at a multiple of its size, where no split goes down, or two pages above it,
where those of four pages into two and two do: over a block that a caller has, or out of
the heap. The request sizes are one page, two, one that is rounded up to the whole heap, and one
page more than that. Three cores are one that holds the mutex, one that releases it and one
that loads it, each with a handler on top. Two remote cores let the boot of the
second overlap the parking of the first; the set-up and two dispatches let an
early start, the run it leaves behind and a following dispatch all happen to one
core. `MaxDispatches` is the only bound on a counter. With two entries in a table there is one
that is used and one that is not; the pages to map lie in one table, in two
of one parent, and under two entries of the top. Three new tables are the user's
with a branch below it, or a whole branch under the kernel's and one more, and run
out in the middle of a call. Three objects in a cache are one that stays first, one that moves
and one that another call follows meanwhile; the order of one object is the cache that
cannot lose its last one. Two tasks on one core let objects be freed by a task that
does not have them; on core 1 no task is queued, as in the kernel. Three tasks are as
many as the kernel makes, and the least for the queue to become cyclic.

`slub` does not check for deadlock: no call begins after a defect has struck. Neither does
`sched`: a core that hangs or has gone astray stops, and
so does one in user space whose program is not made to call. Nor does `smp`:
after a second boot that loses a core, core 0
waits for its mutex for ever. The property `MasterReturns` says that this is the
only way.

What the violated runs show:

* `FreeListContainsAll`, after `page_alloc.c:24`. `remove_next_free_block` ends the
  chain before the free block it removes, and with it goes whatever follows. A
  caller's block that was cut out is not found by `page_free` and its pages stay
  used for ever. What was proved and checked says how far this damage goes: pages
  are lost, but no address is given to two callers, and on a heap that is aligned to its
  size no page is.
* `SecondBuddyHigher`, after `page_alloc.c:555`. The linker script aligns the heap to
  a page; XOR buddies need a heap aligned to its size. On another heap a split
  hands out pages outside the block it split: with eight pages from page 9, page 12 as a
  block of its own while a caller has the pages 9 to 12. `NoOverlap` and `ImplementsPool` claim
  disjoint pages only until the first such split.
* `SomethingNew`, after `smp.c:193`. The window is between `smp.c:173` and `:174`.
* `TakesOutWhatIsFreed`, after `slub.c:321`. `kmem_get_obj_parent` answers the first object
  for itself and for the second one, and its caller takes what follows: memory in
  use goes back to the cache.
* `ContextKept`, after `task.h:14`. The frame of an interrupt has 12 of the 31 registers and not the
  address to return to. `StacksApart` and `HeadOnItsStack` say what is right all the same:
  outside of the switch of `yield()`, and until a torn one, a tick saves the stack pointer for the
  task that has the stack.
* `SomethingCurrent`, after `task.c:18`. The idle task is current only until the first pid is
  assigned, and never again.

## Fairness

`page_alloc`: a call in progress takes its next step, since nothing on its core takes
its place for ever. Callers are not made to call. `console`: a core that can execute
the next instruction of a `kprintf` does; interrupts, and new calls, are not
assumed. A holder runs with interrupts masked, so it is not held up by a
handler. `smp`: core 0 goes on with a dispatch it has begun, remote cores execute,
and jobs end, which is what `worker_process` counts on. Stray events and
dispatches are not assumed. `page_table`: a call goes on, for the same reason as in
`page_alloc`. `slub`: the same for each core; `sched` shows that a thread which is
interrupted in a call may never go on, and `CallsReturn` says that no loop of the allocator is to
blame. `sched`: strong fairness of `Tick`, because the handler sets the timer
again and an interrupt that comes while interrupts are off stays pending until they are on;
weak fairness of the end of a system call, whose functions have no loop but that of
`syscall_panic()`, after which the core hangs. All other fairness is weak: no step needs to be enabled
again and again to be taken, and so nothing is said of one core that always
loses the race for `print_mutex`: `SomeonePrints` promises that some core gets it.

## Proofs

Everything holds for every value of the constants under the named assumptions.

**Page allocator** (`PageAllocProofs`). Assumptions: `OrderAssumption`,
`HeapAssumption` (the heap may start at any page), `PageBlockAssumption` (sizes double from order to
order). The invariant `IInv`: the chains are well formed and covered by their counters; the
last entry ends its chain; what is held is used; the cells of live blocks are disjoint, and
the blocks themselves as long as no split has gone down. The cell of a block is the block at
a multiple of its size in which it starts. On a heap that is page aligned only, blocks do not lie in
their cells and may overlap, but a split still replaces a cell by its halves and a merge joins
them, so no two live blocks start at one page. None of the parts holds alone. That the
block split is the one cut off needs the last entry to end its chain; when a list
is emptied by its counter there must be one block in it; finding a block by its
address is safe only because no other block has that address. The
theorems are type correctness, `NoOverlap`, `ChainedOnce`, `CountCovers`, and
that `Spec` implements `PagePool` step by step, the last of disjoint pages and of the pool until
`crossed`. `SplitsUpwards` is the one theorem with the hypothesis `AlignedHeap`, which the linker
script does not guarantee: with it `SecondBuddyHigher`, which `page_alloc_unaligned`
violates, holds and `crossed` stays false, so that alignment is all that is missing. `StepsAreBounded`
gives every call a number of steps it has left, which each of its steps lowers.

**Console** (`ConsoleProofs`). Assumption: there is a core. To the properties the
invariant adds that a handler's `kprintf` found interrupts masked, that outside its
handler a core has no handler's call under way, that a thread which found interrupts masked
has torn flags behind it, and that a reservation about
to be used has seen a free mutex. Proved: `OneMessage`, `NoSelfDeadlock`,
`NoLostWakeup`, `MaskKept`, and that `Spec` implements `Mutex`. From the same invariant, what of
`SomeonePrints` needs no fairness: while a core waits some core can go on (`NeverAllAsleep`), and an
attempt at the mutex fails only because another one succeeds (`OneAttemptSucceeds`).

**Remote cores** (`SmpProofs`). Assumption: there is a remote core and dispatches are
bounded by a positive number. The invariant counts: how often core 0 took `m1` of a
core and how often the core started differ by at most one, and which way depends
on the core's place and on `m1` (`Balance`). Proved: `AtMostOneExtra`,
`NoneMissed`, `EntryReady`. `Progress` adds that a taken `m0` is one the core still has to
release and that a core which was told something has an event coming; with it, core 0 never
waits for a mutex of a core that waits for core 0 (`NeitherWaits`): the core is on its way to
the release, or lost in a second boot.

**Page tables** (`PageTableProofs`). Assumptions: `PagesAssumption` and
`EntriesAssumption`. The invariant makes the tables a forest: descriptors and entries
agree, a table's children are one level down and have no other parent, the top tables
are at level 1; and a call in progress is on the way the MMU goes for its page. So a
walk that looks at an entry of level 3 determines its page (`OneWay`), and a
walk that looks at an empty entry ends there (`WalkEnds`). Proved: `DescsAgree`,
`OneParent`, `SamePath`, `OnlyItsPage`, `TakesEffect`, and that `Spec` implements `PageMap`.
The refinement says more than the two before it, and the run checks it in their place. Its
one step that is not theirs is `NewTable`: the table is on the way of pages of one space
only (`OneSpace`), and those that change were empty (`NewTableReads`). `CallsAreShort`: every
step of a call ends it or goes one of three levels down.

**Slab allocator** (`SlubProofs`, `SlubChainProofs`). Assumptions: `SlubAssumption` and `NullAssumption`. The
invariant adds to `OneReference` what every loop relies on: an object's `list` is that of the object
it follows, so that a chain is of one list; `prev` of a walk is on the list the call
works on, and `obj` follows it; an object in the hands of a call has no
successor and belongs to no list; nothing refers to a core's objects before its caches are made; no two
calls walk one list. All of it holds until a defect has struck. With several cores
the last part is the argument: a walk stays on chains of its own core, or on the list of a
task that no other core works for, and `Shared` is exactly where that fails. Proved:
`OneReference`, `FixedLength`.

`NothingLost` and `HeldIsListed` speak of all the objects that chains reach. An
induction along a chain is out of these provers' reach, so reaching is said with sets: a root
reaches an object when every set that has the root and is closed under `next` has the object. To
show that an object is still reached after a link has changed, take any set closed
under the new links, and add to it (or take from it) what the changed link leads to: the result is closed
under the old ones. The lemmas of `SlubChainProofs` do this once for an
appended and once for a cut object. What they need is that chains end, or that the object a call
cuts out or appends at is where it takes it to be: `Whole`, which joins the invariant of
`SlubProofs`. That no chain closes (`WalksEnd`) is stated the same way: no set of objects but the
empty one has the successor of each of its members. It is kept by every link that is appended or cut; only for the
chains of new caches the proof needs an order, and takes the object of such a set that is nearest to the end of
its cache. Proved: `NothingLost`, `HeldIsListed`, `WalksEnd`.

**Scheduler** (`SchedProofs`). Assumption: `SchedAssumption`. The invariant: `main()` makes and
queues tasks before any has started and is never resumed; and until a torn `yield()`: the queue has no
task twice, only made ones, and no more than two if it has an end; only its head can have completed, and
not once `yield()` has dropped it; queued tasks have different stacks, and the stack in use is the
head's once a task has started and outside of the switch; code at the end of a task, if it has its
registers, is that of the completed head. The last part is what makes `yield()` safe at every
place the tick can come: after a tick that moves the head on, a yielder with another queued
task to go to has lost its registers, and any other has nothing to take out. `StacksApart` is not
inductive without `HeadOnItsStack`, and neither is
without the order of the queue, since a tick saves for one task and loads for another. Proved: `StacksApart`,
`HeadOnItsStack`, `MarksStacksOwner`, `YieldDropsItself`, `LoopsWithThree`, `StaysQueued`.
`OneTickMovesOn`: an interrupt that the core lives through starts every queued task but the
first, since a queue that has an end has at most two, and drops one that has completed.

Checked by TLC only: the liveness properties `CallsReturn`, `SomeonePrints`,
`DispatchRuns`, `MasterReturns`, `Started` and `GoneWhenDone`, which rest on fairness and
which these provers do not handle. What of them is safety is proved where it could be stated:
`StepsAreBounded`, `CallsAreShort` and `WalksEnd` for the three `CallsReturn`, `NeverAllAsleep` and
`OneAttemptSucceeds` for `SomeonePrints`, `NeitherWaits` for `MasterReturns`, `NoDispatchMissed` for
`DispatchRuns`, `OneTickMovesOn` for the two of `Sched`. What remains is that a step which can be
taken is taken.

## Not modelled

* The job queue behind `worker_process` (`smp.c`): nothing creates, pushes or pops a job.
* Formatted printing (`printf.c`): sequential, without state. `int_chars()` overflows for
  large numbers; no property here is about wording.
* Timer and devices: register access. The timer is the interrupt of `Console` and `Sched`.
* Boot code and `main()` up to `enable_interrupts()`: one order of steps on one core. The models take
  from it: interrupts are masked on entry, `eret` clears the exclusive monitor, cores
  run at EL1 once booted, the first page tables, an empty run queue.
* What system calls print or copy; `copy_from_user()` looks at one address.
* Queues of cores 1 to 3, which stay empty, and `yield()` called by other code than the end
  of a thread: there is none.
* How deep a stack is: the frame that `TickToNone` leaves behind, and a stack's 8192 bytes.

## Plan

What could follow, in this order: a bound on the steps of each call of `Slub`, as
`StepsAreBounded` has it for the page allocator; an abstract store of objects, which are with a
cache, a call or a task, that `Slub` implements; `JobQueue`, if a caller appears, composed
with `Smp`; the number conversions of `Printf` as functions against a reference, over the
boundaries of the integers.
