-------------------------------- MODULE Slub --------------------------------
(***************************************************************************)
(* The slab allocator of HobOS: slub_alloc() and slub_free() of slub.c, as *)
(* kmalloc() and kfree() call them for less than a page.                   *)
(*                                                                         *)
(* Every core has a cache for each order: a chain of objects that starts   *)
(* at the cache's first object.  What a task was given is on a chain of    *)
(* its own (ctxt->used_kmem).  Both chains go through the objects' next    *)
(* fields, and there is no lock: "lockless ops since it is not visible to  *)
(* other cores" (slub.h).  Until the first task is made every core works   *)
(* for the same task, idle_task.                                           *)
(*                                                                         *)
(* A chain is followed one object per step, so a call is many steps, and   *)
(* calls of several cores interleave.  A core makes one call at a time.    *)
(***************************************************************************)
EXTENDS Naturals, FiniteSets

CONSTANTS
  Cores,
  Orders,     \* MIN_ORDER_KMEM .. MAX_ORDER_KMEM
  NrObjs,     \* the objects in a page, for each order
  Tasks,      \* those with a list of objects, idle_task among them
  IdleTask,
  Home,       \* the core in whose run queue a task is
  Null

ASSUME SlubAssumption ==
  /\ NrObjs \in [Orders -> Nat \ {0}]
  /\ IdleTask \in Tasks /\ Home \in [Tasks \ {IdleTask} -> Cores]
  /\ Null \notin Tasks
  /\ Tasks \cap {"cache", "call"} = {}

\* A struct kmem_obj: parent_core_id, order, and its place in the slab.  It stands
\* for the memory at its addr as well.
Objects == UNION {[core : Cores, order : {s}, nr : 1 .. NrObjs[s]] : s \in Orders}

ASSUME NullAssumption == Null \notin Objects

VARIABLES
  ready,      \* the cores whose caches are made
  next,       \* the next field of every object
  used,       \* used_kmem of every task
  head,       \* the head of every core's run queue
  booting,    \* pid_cntr == 1
  op,         \* the call in progress on every core
  held,       \* history: the objects whose address a caller has
  list,       \* history: what every object was last put on
  harm        \* history: what happened that the allocator does not survive

vars == <<ready, next, used, head, booting, op, held, list, harm>>

\* c->first, which never changes once the cache is made.
First(k, s) == [core |-> k, order |-> s, nr |-> 1]

\* obj and prev are the two pointers that every loop of slub.c moves; task is whose
\* list the call works on, addr what slub_free() was given.
Calls == [pc : {"idle", "take", "add", "seek", "give", "astray"},
          obj : Objects \cup {Null}, prev : Objects \cup {Null},
          task : Tasks, addr : Objects \cup {Null}]

Idle == [pc |-> "idle", obj |-> Null, prev |-> Null, task |-> IdleTask, addr |-> Null]

Harms == {"none", "page", "beyond", "last", "nobody", "shared", "first", "only",
          "missed", "remote"}

TypeOK ==
  /\ ready \subseteq Cores
  /\ next \in [Objects -> Objects \cup {Null}]
  /\ used \in [Tasks -> Objects \cup {Null}]
  /\ head \in [Cores -> (Tasks \ {IdleTask}) \cup {Null}]
  /\ booting \in BOOLEAN
  /\ op \in [Cores -> Calls]
  /\ held \subseteq Objects
  /\ list \in [Objects -> {"cache", "call"} \cup Tasks]
  /\ harm \in Harms

\* wq_init() takes the first objects before there is any other core, task or
\* interrupt; the model starts earlier, with nothing.
Init ==
  /\ ready = {}
  /\ next = [o \in Objects |-> Null]
  /\ used = [t \in Tasks |-> Null]
  /\ head = [k \in Cores |-> Null]
  /\ booting = TRUE
  /\ op = [k \in Cores |-> Idle]
  /\ held = {}
  /\ list = [o \in Objects |-> "cache"]
  /\ harm = "none"

\* Nothing has happened so far of Harms: each is a defect of slub.c after which an
\* object is on two chains, or on none.  No call begins after one, and nothing is
\* claimed from then on.
Sound == harm = "none"

-----------------------------------------------------------------------------
(* The current task *)

\* get_curr_task(): the counter of pids is one for all cores.
CurrTask(k) == IF booting THEN IdleTask ELSE head[k]

\* A core that goes through a task's list while another one does.
Shared(k, t) ==
  \E j \in Cores \ {k} : op[j].pc \in {"add", "seek"} /\ op[j].task = t

Or(reason, happens) == IF happens THEN reason ELSE harm

\* clone() has assigned the first pid.
FirstTask ==
  /\ booting
  /\ booting' = FALSE
  /\ UNCHANGED <<ready, next, used, head, op, held, list, harm>>

\* The run queue of a core has another head.
Schedule(k) ==
  /\ ~ booting
  /\ op[k].pc = "idle"
  /\ head' \in {[head EXCEPT ![k] = t] : t \in {u \in DOMAIN Home : Home[u] = k} \cup {Null}}
  /\ UNCHANGED <<ready, next, used, booting, op, held, list, harm>>

-----------------------------------------------------------------------------
(* slub_alloc *)

\* kmem_init_caches() chains the objects of each page in the order of their addresses.
Chained(k) ==
  [o \in Objects |->
     IF o.core # k THEN next[o]
     ELSE IF o.nr < NrObjs[o.order] THEN [o EXCEPT !.nr = @ + 1] ELSE Null]

\* A call for s finds the first object of the cache; the first call of a core makes
\* the caches.  Nothing looks whether page_alloc() gave a page: without the page of
\* metadata a NULL cache is used, without one for objects they start at address 0.
MakeCaches(k) ==
  /\ ready' = ready \cup {k}
  /\ next' = IF k \in ready THEN next ELSE Chained(k)

Alloc(k, s) ==
  /\ op[k].pc = "idle" /\ Sound
  /\ MakeCaches(k)
  /\ LET begun == [op EXCEPT ![k] = [Idle EXCEPT !.pc = "take", !.obj = First(k, s),
                                                 !.prev = First(k, s)]]
     IN  \/ op' = begun /\ UNCHANGED harm
         \/ /\ k \notin ready
            /\ op' \in {begun, [op EXCEPT ![k].pc = "astray"]}
            /\ harm' = "page"
  /\ UNCHANGED <<used, head, booting, held, list>>

\* 1025 to 4095 bytes: the order is past the last cache, and what lies behind the
\* array, the end of the metadata, is taken for one.  If its memory is clear that
\* cache has no object and the call returns 0.
AllocBeyond(k) ==
  /\ op[k].pc = "idle" /\ Sound
  /\ MakeCaches(k)
  /\ \/ UNCHANGED <<op, harm>>
     \/ /\ op' = [op EXCEPT ![k].pc = "astray"]
        /\ harm' = "beyond"
  /\ UNCHANGED <<used, head, booting, held, list>>

WalkCache(k) ==
  /\ op[k].pc = "take" /\ next[op[k].obj] # Null
  /\ op' = [op EXCEPT ![k].prev = op[k].obj, ![k].obj = next[op[k].obj]]
  /\ UNCHANGED <<ready, next, used, head, booting, held, list, harm>>

\* The last object is found but not cut off.
Unlink_Leaves(k) ==
  /\ op[k].pc = "take" /\ next[op[k].obj] = Null
  /\ CurrTask(k) # Null
  /\ op' = [op EXCEPT ![k].pc = "add", ![k].task = CurrTask(k),
                      ![k].prev = used[CurrTask(k)]]
  /\ list' = [list EXCEPT ![op[k].obj] = "call"]
  /\ harm' = Or("shared", Shared(k, CurrTask(k)))
  /\ UNCHANGED <<ready, next, used, head, booting, held>>

\* A call is made for no task as for any other.
Unlink_NoCheck(k) ==
  /\ op[k].pc = "take" /\ next[op[k].obj] = Null
  /\ next' = [next EXCEPT ![op[k].prev] = Null]
  /\ op' = [op EXCEPT ![k].pc = "add", ![k].task = CurrTask(k), ![k].prev = Null]
  /\ list' = [list EXCEPT ![op[k].obj] = "call"]
  /\ UNCHANGED <<ready, used, head, booting, held, harm>>

\* The last object of the cache goes to the current task, and its address to the
\* caller; it is lost if there is no current task.  A cache's only object stays first.
Unlink(k) ==
  /\ op[k].pc = "take" /\ next[op[k].obj] = Null
  /\ next' = [next EXCEPT ![op[k].prev] = Null]
  /\ list' = [list EXCEPT ![op[k].obj] = "call"]
  /\ IF CurrTask(k) = Null
       THEN /\ op' = [op EXCEPT ![k] = Idle]
            /\ harm' = "nobody"
       ELSE /\ op' = [op EXCEPT ![k].pc = "add", ![k].task = CurrTask(k),
                                ![k].prev = used[CurrTask(k)]]
            /\ harm' = IF op[k].obj = op[k].prev THEN "last"
                       ELSE Or("shared", Shared(k, CurrTask(k)))
  /\ UNCHANGED <<ready, used, head, booting, held>>

WalkUsed(k) ==
  /\ op[k].pc = "add" /\ op[k].prev # Null /\ next[op[k].prev] # Null
  /\ op' = [op EXCEPT ![k].prev = next[op[k].prev]]
  /\ UNCHANGED <<ready, next, used, head, booting, held, list, harm>>

\* The object becomes the task's list instead of its end.
AddToTask_Replaces(k) ==
  /\ op[k].pc = "add"
  /\ used' = [used EXCEPT ![op[k].task] = op[k].obj]
  /\ list' = [list EXCEPT ![op[k].obj] = op[k].task]
  /\ held' = held \cup {op[k].obj}
  /\ op' = [op EXCEPT ![k] = Idle]
  /\ UNCHANGED <<ready, next, head, booting, harm>>

\* The end of kmem_add_to_task(), and of the call.
AddToTask(k) ==
  /\ op[k].pc = "add"
  /\ \/ /\ op[k].prev = Null
        /\ used' = [used EXCEPT ![op[k].task] = op[k].obj]
        /\ UNCHANGED next
     \/ /\ op[k].prev # Null /\ next[op[k].prev] = Null
        /\ next' = [next EXCEPT ![op[k].prev] = op[k].obj]
        /\ UNCHANGED used
  /\ list' = [list EXCEPT ![op[k].obj] = op[k].task]
  /\ held' = held \cup {op[k].obj}
  /\ op' = [op EXCEPT ![k] = Idle]
  /\ UNCHANGED <<ready, head, booting, harm>>

-----------------------------------------------------------------------------
(* slub_free *)

\* The cache of the core that frees takes the object, wherever it is from.
Reclaim_Anywhere(k, o, t, addr, whenNative) ==
  /\ op' = [op EXCEPT ![k] = [pc |-> "give", obj |-> o, prev |-> First(k, o.order),
                              task |-> t, addr |-> addr]]
  /\ harm' = whenNative

\* kmem_reclaim_obj(): on the object's core it goes to the end of its cache.  On
\* another one a cache is made for it that nothing refers to.
Reclaim(k, o, t, addr, whenNative) ==
  IF o.core = k
    THEN /\ op' = [op EXCEPT ![k] = [pc |-> "give", obj |-> o, prev |-> First(k, o.order),
                                     task |-> t, addr |-> addr]]
         /\ harm' = whenNative
    ELSE /\ op' = [op EXCEPT ![k] = Idle]
         /\ harm' = "remote"

\* The object keeps what followed it in the task's list.
Extract_KeepsNext(k, p, t, addr) ==
  LET child == IF next[p] = Null THEN p ELSE next[p]
  IN  /\ next' = IF next[p] = Null THEN next ELSE [next EXCEPT ![p] = next[child]]
      /\ list' = [list EXCEPT ![child] = "call"]
      /\ Reclaim(k, child, t, addr,
                 IF child = p THEN "only"
                 ELSE IF child # addr THEN "first"
                 ELSE Or("shared", Shared(k, t)))

\* kmem_extract_obj_child(): what follows p in t's list, or p itself if nothing does.
Extract(k, p, t, addr) ==
  LET child == IF next[p] = Null THEN p ELSE next[p]
  IN  /\ next' = IF next[p] = Null THEN next
                 ELSE [next EXCEPT ![p] = next[child], ![child] = Null]
      /\ list' = [list EXCEPT ![child] = "call"]
      /\ Reclaim(k, child, t, addr,
                 IF child = p THEN "only"
                 ELSE IF child # addr THEN "first"
                 ELSE Or("shared", Shared(k, t)))

\* The address of o is freed, by whoever has it.  A task that has no objects does
\* not know it, a core that has no task follows a NULL pointer; the first object of
\* a list is taken for its own parent.
Free(k, o) ==
  /\ op[k].pc = "idle" /\ Sound
  /\ o \in held
  /\ held' = held \ {o}
  /\ LET t == CurrTask(k)
     IN  \/ /\ t = Null
            /\ op' = [op EXCEPT ![k].pc = "astray"]
            /\ harm' = "nobody"
            /\ UNCHANGED <<next, list>>
         \/ /\ t # Null /\ used[t] = Null
            /\ harm' = "missed"
            /\ UNCHANGED <<next, list, op>>
         \/ /\ t # Null /\ used[t] = o
            /\ Extract(k, o, t, o)
         \/ /\ t # Null /\ used[t] \notin {o, Null}
            /\ op' = [op EXCEPT ![k] = [pc |-> "seek", obj |-> next[used[t]],
                                        prev |-> used[t], task |-> t, addr |-> o]]
            /\ harm' = Or("shared", Shared(k, t))
            /\ UNCHANGED <<next, list>>
  /\ UNCHANGED <<ready, used, head, booting>>

\* The loop of kmem_get_obj_parent().
Seek(k) ==
  /\ op[k].pc = "seek" /\ op[k].obj \notin {Null, op[k].addr}
  /\ op' = [op EXCEPT ![k].prev = op[k].obj, ![k].obj = next[op[k].obj]]
  /\ UNCHANGED <<ready, next, used, head, booting, held, list, harm>>

Found(k) ==
  /\ op[k].pc = "seek" /\ op[k].obj = op[k].addr
  /\ Extract(k, op[k].prev, op[k].task, op[k].addr)
  /\ UNCHANGED <<ready, used, head, booting, held>>

\* slub_free() returns -1, and kfree() gives the address to page_free(): the object
\* of another task stays in that task's list.
NotFound(k) ==
  /\ op[k].pc = "seek" /\ op[k].obj = Null
  /\ op' = [op EXCEPT ![k] = Idle]
  /\ harm' = "missed"
  /\ UNCHANGED <<ready, next, used, head, booting, held, list>>

\* kmem_add_obj(): to the end of the cache.
WalkHome(k) ==
  /\ op[k].pc = "give" /\ next[op[k].prev] # Null
  /\ op' = [op EXCEPT ![k].prev = next[op[k].prev]]
  /\ UNCHANGED <<ready, next, used, head, booting, held, list, harm>>

\* The object goes behind the first one of its cache, whatever is there.
AddToCache_BehindFirst(k) ==
  /\ op[k].pc = "give"
  /\ next' = [next EXCEPT ![First(k, op[k].obj.order)] = op[k].obj]
  /\ list' = [list EXCEPT ![op[k].obj] = "cache"]
  /\ op' = [op EXCEPT ![k] = Idle]
  /\ UNCHANGED <<ready, used, head, booting, held, harm>>

AddToCache(k) ==
  /\ op[k].pc = "give" /\ next[op[k].prev] = Null
  /\ next' = [next EXCEPT ![op[k].prev] = op[k].obj]
  /\ list' = [list EXCEPT ![op[k].obj] = "cache"]
  /\ op' = [op EXCEPT ![k] = Idle]
  /\ UNCHANGED <<ready, used, head, booting, held, harm>>

-----------------------------------------------------------------------------
Begin(k) ==
  \/ \E s \in Orders : Alloc(k, s)
  \/ AllocBeyond(k)
  \/ \E o \in Objects : Free(k, o)
  \/ Schedule(k)

Continue(k) ==
  \/ WalkCache(k) \/ Unlink(k) \/ WalkUsed(k) \/ AddToTask(k)
  \/ Seek(k) \/ Found(k) \/ NotFound(k) \/ WalkHome(k) \/ AddToCache(k)

Next ==
  \/ FirstTask
  \/ \E k \in Cores : Begin(k) \/ Continue(k)

\* A core that has begun a call goes on with it.
Spec == Init /\ [][Next]_vars /\ \A k \in Cores : WF_vars(Continue(k))

-----------------------------------------------------------------------------
(* Properties.  Those under Sound claim nothing once a defect of Harms has struck. *)

\* The objects that a call has taken off a chain and not put on another yet.
InHand == {op[k].obj : k \in {j \in Cores : op[j].pc \in {"add", "give"}}}

\* Until a defect has struck an object has one reference: it is the first of its cache, or of a task's list, or
\* follows one other object, or is in the hands of one call.  Two callers would be
\* given the same memory, or a loop over a chain not end, if one had two.
OneReference ==
  Sound =>
    /\ \A x, y \in Objects : next[x] = next[y] /\ next[x] # Null => x = y
    /\ \A t, u \in Tasks : used[t] = used[u] /\ used[t] # Null => t = u
    /\ \A x \in Objects, t \in Tasks : used[t] = next[x] => used[t] = Null
    /\ \A k \in Cores, s \in Orders :
         /\ \A x \in Objects : next[x] # First(k, s)
         /\ \A t \in Tasks : used[t] # First(k, s)
    /\ \A o \in InHand : (\A x \in Objects : next[x] # o) /\ (\A t \in Tasks : used[t] # o)
    /\ \A j, k \in Cores :
         op[j].pc \in {"add", "give"} /\ op[k].pc \in {"add", "give"} /\ op[j].obj = op[k].obj
           => j = k

\* Until a defect has struck the objects of a cache are of its core and of its order: a
\* caller gets the length it asked for ("Each slab must contain objects of a fixed len",
\* slub.c:296).  A free by another core is such a defect (remote).
FixedLength ==
  Sound =>
    \A x \in Objects :
      list[x] = "cache" /\ next[x] # Null
        => list[next[x]] = "cache" /\ next[x].core = x.core /\ next[x].order = x.order

\* A set that the links of f do not lead out of.
Closed(f, S) == \A x \in S : f[x] # Null => f[x] \in S

\* C is what the chains of f from roots run through: they stay in C, and in no part of it.
Reaches(f, roots, C) ==
  /\ roots \subseteq C /\ Closed(f, C)
  /\ \A S \in SUBSET C : roots \subseteq S /\ Closed(f, S) => S = C

\* What was last put on a list, or back into a cache.
Listed(l) == {o \in Objects : list[o] = l}
Cached(k, s) == {o \in Listed("cache") : o.core = k /\ o.order = s}

\* Until a defect has struck every object of a core whose caches are made is on exactly
\* one chain, that of what it was last put on, or in the hands of a call: nothing is lost,
\* whatever calls of the cores interleave.
NothingLost ==
  Sound =>
    /\ \A k \in ready, s \in Orders : Reaches(next, {First(k, s)}, Cached(k, s))
    /\ \A t \in Tasks : Reaches(next, {used[t]} \ {Null}, Listed(t))
    /\ Listed("call") = InHand

\* Until a defect has struck callers hold what is on the tasks' chains, but for what they
\* are just freeing: nothing they use can be handed out again, and what they freed is not
\* kept.
HeldIsListed ==
  Sound =>
    Reaches(next, {used[t] : t \in Tasks} \ {Null},
            held \cup {op[k].addr : k \in {j \in Cores : op[j].pc = "seek"}})

\* A call ends, unless harm is done: no loop over a chain is endless.
CallsReturn ==
  \A k \in Cores : op[k].pc # "idle" ~> (op[k].pc = "idle" \/ ~ Sound)

\* What slub_free() takes out of the list is what it was asked to free: "Return the
\* parent object which points to this addr.  If this is a single entry, return it"
\* (slub.c:322).
TakesOutWhatIsFreed ==
  \A k \in Cores : op[k].pc = "give" => op[k].obj = op[k].addr

=============================================================================
