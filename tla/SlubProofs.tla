----------------------------- MODULE SlubProofs -----------------------------
(***************************************************************************)
(* Theorems about Slub: as long as nothing of Harms has happened, every    *)
(* object has one reference and a cache has objects of one length.         *)
(*                                                                         *)
(* The properties are not inductive: which chain a step cuts or extends is *)
(* known only from where the pointers of the call in progress are, and     *)
(* that two calls do not meet only from which chain each works on.  IInv   *)
(* says both through list, the chain every object is on.                   *)
(***************************************************************************)
EXTENDS Slub, TLAPS

\* The pointers that a call follows are not NULL, whatever has happened.
Shape ==
  \A k \in Cores :
    /\ op[k].pc \in {"take", "add", "give"} => op[k].obj \in Objects
    /\ op[k].pc \in {"take", "seek", "give"} => op[k].prev \in Objects
    /\ op[k].pc = "seek" => op[k].addr \in Objects

\* A chain is on one list, has one way in, and does not come back to its beginning.
Links ==
  \A x \in Objects : next[x] # Null =>
    /\ list[next[x]] = list[x] /\ list[x] # "call"
    /\ list[x] = "cache" => next[x].core = x.core /\ next[x].order = x.order
    /\ \A y \in Objects : next[y] = next[x] => y = x
    /\ next[x].nr # 1 \/ list[x] # "cache"
    /\ \A t \in Tasks : used[t] # next[x]

\* Where chains begin.
Begins ==
  /\ \A k \in Cores, s \in Orders : list[First(k, s)] = "cache"
  /\ \A t \in Tasks : used[t] # Null => list[used[t]] = t

\* A core whose caches are not made has handed out nothing.
Unused == \A o \in Objects : list[o] # "cache" => o.core \in ready

Taking(k) ==
  /\ k \in ready
  /\ list[op[k].obj] = "cache" /\ op[k].obj.core = k
  /\ \/ op[k].obj = op[k].prev
     \/ next[op[k].prev] = op[k].obj /\ op[k].obj # op[k].prev

Adding(k) ==
  /\ list[op[k].obj] = "call"
  /\ op[k].prev = Null => used[op[k].task] = Null
  /\ op[k].prev # Null => list[op[k].prev] = op[k].task

Seeking(k) ==
  /\ list[op[k].prev] = op[k].task
  /\ op[k].obj = next[op[k].prev]

Giving(k) ==
  /\ list[op[k].obj] = "call" /\ op[k].obj.core = k
  /\ list[op[k].prev] = "cache"
  /\ op[k].prev.core = k /\ op[k].prev.order = op[k].obj.order

\* Where the pointers of the call of core k are.
Pointers(k) ==
  /\ op[k].pc = "take" => Taking(k)
  /\ op[k].pc = "add" => Adding(k)
  /\ op[k].pc = "seek" => Seeking(k)
  /\ op[k].pc = "give" => Giving(k)

\* Two calls work on different objects and different lists.
Apart(j, k) ==
  /\ op[j].pc \in {"add", "give"} /\ op[k].pc \in {"add", "give"}
       => op[j].obj # op[k].obj
  /\ op[j].pc \in {"add", "seek"} /\ op[k].pc \in {"add", "seek"}
       => op[j].task # op[k].task

\* What a call has in hand is followed by nothing.
Loose == \A o \in Objects : list[o] = "call" => next[o] = Null

Good ==
  /\ Links /\ Begins /\ Unused /\ Loose
  /\ \A k \in Cores : Pointers(k)
  /\ \A j, k \in Cores : j # k => Apart(j, k)

IInv == TypeOK /\ Shape /\ (Sound => Good)

-----------------------------------------------------------------------------
(* Objects *)

\* An object is what its core, order and number say.
LEMMA ObjectFields ==
  ASSUME NEW o \in Objects
  PROVE  /\ o.core \in Cores /\ o.order \in Orders /\ o.nr \in 1 .. NrObjs[o.order]
         /\ o = [core |-> o.core, order |-> o.order, nr |-> o.nr]
<1>1. PICK s \in Orders : o \in [core : Cores, order : {s}, nr : 1 .. NrObjs[s]]
  BY DEF Objects
<1> QED BY <1>1

LEMMA IsObject ==
  ASSUME NEW k \in Cores, NEW s \in Orders, NEW n \in 1 .. NrObjs[s]
  PROVE  [core |-> k, order |-> s, nr |-> n] \in Objects
<1>1. [core |-> k, order |-> s, nr |-> n]
        \in [core : Cores, order : {s}, nr : 1 .. NrObjs[s]]
  OBVIOUS
<1> QED BY <1>1 DEF Objects

\* The first object of a cache, of the core and the order of the cache.
LEMMA FirstObject ==
  ASSUME NEW k \in Cores, NEW s \in Orders
  PROVE  /\ First(k, s) \in Objects /\ First(k, s) # Null
         /\ First(k, s).core = k /\ First(k, s).order = s /\ First(k, s).nr = 1
<1>1. NrObjs[s] \in Nat \ {0}
  BY SlubAssumption
<1>2. 1 \in 1 .. NrObjs[s]
  BY <1>1
<1>3. First(k, s) \in Objects
  BY <1>2, IsObject DEF First
<1> QED BY <1>3, NullAssumption DEF First

LEMMA IsFirst ==
  ASSUME NEW o \in Objects, o.nr = 1
  PROVE  o = First(o.core, o.order) /\ o.core \in Cores /\ o.order \in Orders
BY ObjectFields DEF First

\* The object behind another in its page.
LEMMA NextObject ==
  ASSUME NEW o \in Objects, o.nr < NrObjs[o.order]
  PROVE  /\ [o EXCEPT !.nr = @ + 1] \in Objects
         /\ [o EXCEPT !.nr = @ + 1].core = o.core
         /\ [o EXCEPT !.nr = @ + 1].order = o.order
         /\ [o EXCEPT !.nr = @ + 1].nr = o.nr + 1
<1>1. /\ o.core \in Cores /\ o.order \in Orders /\ o.nr \in 1 .. NrObjs[o.order]
      /\ o = [core |-> o.core, order |-> o.order, nr |-> o.nr]
  BY ObjectFields
<1>2. NrObjs[o.order] \in Nat
  BY <1>1, SlubAssumption
<1>3. o.nr + 1 \in 1 .. NrObjs[o.order]
  BY <1>1, <1>2
<1>4. [o EXCEPT !.nr = @ + 1] = [core |-> o.core, order |-> o.order, nr |-> o.nr + 1]
  BY <1>1
<1>5. [core |-> o.core, order |-> o.order, nr |-> o.nr + 1] \in Objects
  BY <1>1, <1>3, IsObject
<1> QED BY <1>4, <1>5

LEMMA SameObject ==
  ASSUME NEW x \in Objects, NEW y \in Objects,
         x.core = y.core, x.order = y.order, x.nr = y.nr
  PROVE  x = y
BY ObjectFields

-----------------------------------------------------------------------------
(* Types *)

LEMMA IdleType == Idle \in Calls
BY SlubAssumption DEF Idle, Calls

LEMMA CurrTaskType ==
  ASSUME TypeOK, NEW k \in Cores
  PROVE  CurrTask(k) \in Tasks \cup {Null}
BY SlubAssumption DEF CurrTask, TypeOK

\* The caches of a core chain objects.
LEMMA MakeCachesType ==
  ASSUME TypeOK, NEW k \in Cores, MakeCaches(k)
  PROVE  ready' \subseteq Cores /\ next' \in [Objects -> Objects \cup {Null}]
<1>1. Chained(k) \in [Objects -> Objects \cup {Null}]
  <2> SUFFICES ASSUME NEW o \in Objects
               PROVE  Chained(k)[o] \in Objects \cup {Null}
    BY DEF Chained
  <2> QED BY NextObject DEF Chained, TypeOK
<1> QED BY <1>1 DEF MakeCaches, TypeOK

\* Taking an object out of a list keeps the types.
LEMMA ExtractType ==
  ASSUME TypeOK, NEW k \in Cores, NEW p \in Objects, NEW t \in Tasks, NEW addr \in Objects,
         Extract(k, p, t, addr)
  PROVE  /\ next' \in [Objects -> Objects \cup {Null}]
         /\ list' \in [Objects -> {"cache", "call"} \cup Tasks]
         /\ op' \in [Cores -> Calls] /\ harm' \in Harms
<1> DEFINE child == IF next[p] = Null THEN p ELSE next[p]
<1> DEFINE why == IF child = p THEN "only" ELSE IF child # addr THEN "first"
                  ELSE Or("shared", Shared(k, t))
<1>1. child \in Objects /\ why \in Harms
  BY DEF TypeOK, Or, Harms
<1>2. next' = IF next[p] = Null THEN next
              ELSE [next EXCEPT ![p] = next[child], ![child] = Null]
  BY DEF Extract
<1>3. list' = [list EXCEPT ![child] = "call"]
  BY DEF Extract
<1>4. Reclaim(k, child, t, addr, why)
  BY DEF Extract
<1>5. next' \in [Objects -> Objects \cup {Null}]
  BY <1>1, <1>2 DEF TypeOK
<1>6. list' \in [Objects -> {"cache", "call"} \cup Tasks]
  BY <1>3 DEF TypeOK
<1> HIDE DEF child, why
<1>7. op' \in [Cores -> Calls] /\ harm' \in Harms
  <2>1. child.order \in Orders
    BY <1>1, ObjectFields
  <2>2. First(k, child.order) \in Objects
    BY <2>1, FirstObject
  <2>3. [pc |-> "give", obj |-> child, prev |-> First(k, child.order),
         task |-> t, addr |-> addr] \in Calls
    BY <1>1, <2>2 DEF Calls
  <2> QED BY <1>1, <1>4, <2>3, IdleType DEF Reclaim, TypeOK, Harms
<1> QED BY <1>5, <1>6, <1>7

LEMMA TypeStep == TypeOK /\ Shape /\ [Next]_vars => TypeOK' /\ Shape'
<1> SUFFICES ASSUME TypeOK, Shape, [Next]_vars PROVE TypeOK' /\ Shape'
  OBVIOUS
<1>1. CASE UNCHANGED vars
  BY <1>1 DEF vars, TypeOK, Shape
<1>2. CASE FirstTask
  BY <1>2 DEF FirstTask, TypeOK, Shape
<1>3. ASSUME NEW k \in Cores, Schedule(k) PROVE TypeOK' /\ Shape'
  BY <1>3, SlubAssumption DEF Schedule, TypeOK, Shape
\* The call of one core goes on, at a new place.
<1>g. ASSUME NEW k \in Cores, NEW c \in Calls, op' = [op EXCEPT ![k] = c],
             c.pc \in {"take", "add", "give"} => c.obj \in Objects,
             c.pc \in {"take", "seek", "give"} => c.prev \in Objects,
             c.pc = "seek" => c.addr \in Objects
      PROVE  op' \in [Cores -> Calls] /\ Shape'
  BY <1>g DEF TypeOK, Shape
<1>4. ASSUME NEW k \in Cores, NEW s \in Orders, Alloc(k, s) PROVE TypeOK' /\ Shape'
  <2>1. MakeCaches(k) /\ UNCHANGED <<used, head, booting, held, list>> /\ harm' \in Harms
    BY <1>4 DEF Alloc, TypeOK, Harms
  <2> DEFINE begun == [Idle EXCEPT !.pc = "take", !.obj = First(k, s), !.prev = First(k, s)]
  <2> DEFINE astray == [op[k] EXCEPT !.pc = "astray"]
  <2>2. begun \in Calls /\ begun.obj \in Objects /\ begun.prev \in Objects /\ begun.pc = "take"
    BY FirstObject, SlubAssumption DEF Idle, Calls
  <2>3. astray \in Calls /\ astray.pc = "astray"
    BY DEF TypeOK, Calls
  <2>4. op' = [op EXCEPT ![k] = begun] \/ op' = [op EXCEPT ![k] = astray]
    BY <1>4 DEF Alloc
  <2> HIDE DEF begun, astray
  <2>5. op' \in [Cores -> Calls] /\ Shape'
    BY <2>2, <2>3, <2>4, <1>g
  <2> QED BY <2>1, <2>5, MakeCachesType DEF TypeOK
<1>5. ASSUME NEW k \in Cores, AllocBeyond(k) PROVE TypeOK' /\ Shape'
  <2>1. MakeCaches(k) /\ UNCHANGED <<used, head, booting, held, list>> /\ harm' \in Harms
    BY <1>5 DEF AllocBeyond, TypeOK, Harms
  <2> DEFINE astray == [op[k] EXCEPT !.pc = "astray"]
  <2>2. astray \in Calls /\ astray.pc = "astray"
    BY DEF TypeOK, Calls
  <2>3. op' = op \/ op' = [op EXCEPT ![k] = astray]
    BY <1>5 DEF AllocBeyond
  <2> HIDE DEF astray
  <2>4. op' \in [Cores -> Calls] /\ Shape'
    BY <2>2, <2>3, <1>g DEF TypeOK, Shape
  <2> QED BY <2>1, <2>4, MakeCachesType DEF TypeOK
<1>6. ASSUME NEW k \in Cores, WalkCache(k) PROVE TypeOK' /\ Shape'
  <2> DEFINE c == [op[k] EXCEPT !.prev = op[k].obj, !.obj = next[op[k].obj]]
  <2>1. op[k].obj \in Objects /\ next[op[k].obj] \in Objects
    BY <1>6 DEF WalkCache, Shape, TypeOK
  <2>2. c \in Calls /\ c.pc = "take" /\ c.obj \in Objects /\ c.prev \in Objects
    BY <1>6, <2>1 DEF WalkCache, TypeOK, Calls
  <2>3. op' = [op EXCEPT ![k] = c]
    BY <1>6 DEF WalkCache
  <2> HIDE DEF c
  <2> QED BY <1>6, <2>2, <2>3, <1>g DEF WalkCache, TypeOK
<1>7. ASSUME NEW k \in Cores, Unlink(k) PROVE TypeOK' /\ Shape'
  <2> DEFINE c == [op[k] EXCEPT !.pc = "add", !.task = CurrTask(k),
                                !.prev = used[CurrTask(k)]]
  <2>1. op[k].obj \in Objects /\ op[k].prev \in Objects
    BY <1>7 DEF Unlink, Shape
  <2>2. /\ next' = [next EXCEPT ![op[k].prev] = Null]
        /\ list' = [list EXCEPT ![op[k].obj] = "call"]
        /\ harm' \in Harms /\ UNCHANGED <<ready, used, head, booting, held>>
    BY <1>7 DEF Unlink, Or, Harms, TypeOK
  <2>3. CASE CurrTask(k) = Null
    <3>1. op' = [op EXCEPT ![k] = Idle] /\ Idle.pc = "idle"
      BY <1>7, <2>3 DEF Unlink, Idle
    <3>2. op' \in [Cores -> Calls] /\ Shape'
      BY <3>1, IdleType, <1>g
    <3> QED BY <2>2, <3>2 DEF TypeOK
  <2>4. CASE CurrTask(k) # Null
    <3>1. c \in Calls /\ c.pc = "add" /\ c.obj = op[k].obj
      BY <2>1, <2>4, CurrTaskType DEF TypeOK, Calls
    <3>2. op' = [op EXCEPT ![k] = c]
      BY <1>7, <2>4 DEF Unlink
    <3> HIDE DEF c
    <3>3. op' \in [Cores -> Calls] /\ Shape'
      BY <2>1, <3>1, <3>2, <1>g
    <3> QED BY <2>2, <3>3 DEF TypeOK
  <2> QED BY <2>3, <2>4
<1>8. ASSUME NEW k \in Cores, WalkUsed(k) PROVE TypeOK' /\ Shape'
  <2> DEFINE c == [op[k] EXCEPT !.prev = next[op[k].prev]]
  <2>1. op[k].obj \in Objects /\ op[k].prev \in Objects
    BY <1>8 DEF WalkUsed, Shape, TypeOK, Calls
  <2>2. c \in Calls /\ c.pc = "add" /\ c.obj = op[k].obj
    BY <1>8, <2>1 DEF WalkUsed, TypeOK, Calls
  <2>3. op' = [op EXCEPT ![k] = c]
    BY <1>8 DEF WalkUsed
  <2> HIDE DEF c
  <2> QED BY <1>8, <2>1, <2>2, <2>3, <1>g DEF WalkUsed, TypeOK
<1>9. ASSUME NEW k \in Cores, AddToTask(k) PROVE TypeOK' /\ Shape'
  <2>1. op[k].obj \in Objects /\ op[k].task \in Tasks /\ op' = [op EXCEPT ![k] = Idle]
    BY <1>9 DEF AddToTask, Shape, TypeOK, Calls
  <2>2. op' \in [Cores -> Calls] /\ Shape'
    BY <2>1, IdleType, <1>g DEF Idle
  <2> QED BY <1>9, <2>1, <2>2 DEF AddToTask, TypeOK
\* Taking out is the same wherever slub_free() found the object.
<1>e. ASSUME NEW k \in Cores, NEW p \in Objects, NEW t \in Tasks, NEW addr \in Objects,
             Extract(k, p, t, addr)
      PROVE  Shape'
  <2> DEFINE child == IF next[p] = Null THEN p ELSE next[p]
  <2> DEFINE c == [pc |-> "give", obj |-> child, prev |-> First(k, child.order),
                   task |-> t, addr |-> addr]
  <2>1. child \in Objects
    BY DEF TypeOK
  <2>2. op' = [op EXCEPT ![k] = c] \/ op' = [op EXCEPT ![k] = Idle]
    BY <1>e DEF Extract, Reclaim
  <2> HIDE DEF child
  <2>3. First(k, child.order) \in Objects
    BY <2>1, ObjectFields, FirstObject
  <2>4. c \in Calls /\ c.pc = "give" /\ c.obj \in Objects /\ c.prev \in Objects
    BY <2>1, <2>3 DEF Calls
  <2> HIDE DEF c
  <2> QED BY <2>2, <2>4, <1>g, IdleType DEF Idle
<1>10. ASSUME NEW k \in Cores, NEW o \in Objects, Free(k, o) PROVE TypeOK' /\ Shape'
  <2>1. CurrTask(k) \in Tasks \cup {Null}
    BY CurrTaskType
  <2>2. held' \subseteq Objects /\ UNCHANGED <<ready, used, head, booting>>
    BY <1>10 DEF Free, TypeOK
  <2>3. CASE CurrTask(k) = Null
    <3> DEFINE astray == [op[k] EXCEPT !.pc = "astray"]
    <3>1. astray \in Calls /\ astray.pc = "astray"
      BY DEF TypeOK, Calls
    <3>2. op' = [op EXCEPT ![k] = astray] /\ UNCHANGED <<next, list>> /\ harm' \in Harms
      BY <1>10, <2>3 DEF Free, Harms
    <3> HIDE DEF astray
    <3> QED BY <2>2, <3>1, <3>2, <1>g DEF TypeOK
  <2>4. CASE CurrTask(k) # Null /\ used[CurrTask(k)] = Null
    <3>1. UNCHANGED <<op, next, list>> /\ harm' \in Harms
      BY <1>10, <2>4, NullAssumption DEF Free, Harms
    <3> QED BY <2>2, <3>1 DEF TypeOK, Shape
  <2>5. CASE CurrTask(k) # Null /\ used[CurrTask(k)] = o
    <3>1. Extract(k, o, CurrTask(k), o)
      BY <1>10, <2>5, NullAssumption DEF Free
    <3> QED BY <2>1, <2>2, <2>5, <3>1, <1>e, ExtractType DEF TypeOK
  <2>6. CASE CurrTask(k) # Null /\ used[CurrTask(k)] \notin {o, Null}
    <3> DEFINE u == used[CurrTask(k)]
    <3> DEFINE c == [pc |-> "seek", obj |-> next[u], prev |-> u, task |-> CurrTask(k),
                     addr |-> o]
    <3>1. u \in Objects
      BY <2>1, <2>6 DEF TypeOK
    <3>2. c \in Calls /\ c.pc = "seek" /\ c.prev \in Objects /\ c.addr \in Objects
      BY <2>1, <2>6, <3>1 DEF Calls, TypeOK
    <3>3. op' = [op EXCEPT ![k] = c] /\ UNCHANGED <<next, list>> /\ harm' \in Harms
      BY <1>10, <2>6 DEF Free, Or, Harms, TypeOK
    <3> HIDE DEF c
    <3> QED BY <2>2, <3>2, <3>3, <1>g DEF TypeOK
  <2> QED BY <2>3, <2>4, <2>5, <2>6
<1>11. ASSUME NEW k \in Cores, Seek(k) PROVE TypeOK' /\ Shape'
  <2> DEFINE c == [op[k] EXCEPT !.prev = op[k].obj, !.obj = next[op[k].obj]]
  <2>1. op[k].obj \in Objects /\ op[k].addr \in Objects
    BY <1>11 DEF Seek, Shape, TypeOK, Calls
  <2>2. c \in Calls /\ c.pc = "seek" /\ c.prev \in Objects /\ c.addr \in Objects
    BY <1>11, <2>1 DEF Seek, TypeOK, Calls
  <2>3. op' = [op EXCEPT ![k] = c]
    BY <1>11 DEF Seek
  <2> HIDE DEF c
  <2> QED BY <1>11, <2>2, <2>3, <1>g DEF Seek, TypeOK
<1>12. ASSUME NEW k \in Cores, Found(k) PROVE TypeOK' /\ Shape'
  <2>1. op[k].prev \in Objects /\ op[k].addr \in Objects /\ op[k].task \in Tasks
    BY <1>12 DEF Found, Shape, TypeOK, Calls
  <2>2. Extract(k, op[k].prev, op[k].task, op[k].addr)
    BY <1>12 DEF Found
  <2>3. UNCHANGED <<ready, used, head, booting, held>>
    BY <1>12 DEF Found
  <2> QED BY <2>1, <2>2, <2>3, <1>e, ExtractType DEF TypeOK
<1>13. ASSUME NEW k \in Cores, NotFound(k) PROVE TypeOK' /\ Shape'
  <2>1. op' \in [Cores -> Calls] /\ Shape'
    BY <1>13, IdleType, <1>g DEF NotFound, Idle
  <2> QED BY <1>13, <2>1 DEF NotFound, TypeOK, Harms
<1>14. ASSUME NEW k \in Cores, WalkHome(k) PROVE TypeOK' /\ Shape'
  <2> DEFINE c == [op[k] EXCEPT !.prev = next[op[k].prev]]
  <2>1. op[k].obj \in Objects /\ op[k].prev \in Objects /\ next[op[k].prev] \in Objects
    BY <1>14 DEF WalkHome, Shape, TypeOK
  <2>2. c \in Calls /\ c.pc = "give" /\ c.obj = op[k].obj /\ c.prev \in Objects
    BY <1>14, <2>1 DEF WalkHome, TypeOK, Calls
  <2>3. op' = [op EXCEPT ![k] = c]
    BY <1>14 DEF WalkHome
  <2> HIDE DEF c
  <2> QED BY <1>14, <2>1, <2>2, <2>3, <1>g DEF WalkHome, TypeOK
<1>15. ASSUME NEW k \in Cores, AddToCache(k) PROVE TypeOK' /\ Shape'
  <2>1. op[k].obj \in Objects /\ op' = [op EXCEPT ![k] = Idle]
    BY <1>15 DEF AddToCache, Shape
  <2>2. op' \in [Cores -> Calls] /\ Shape'
    BY <2>1, IdleType, <1>g DEF Idle
  <2> QED BY <1>15, <2>1, <2>2 DEF AddToCache, TypeOK
<1> QED
  BY <1>1, <1>2, <1>3, <1>4, <1>5, <1>6, <1>7, <1>8, <1>9, <1>10, <1>11, <1>12,
     <1>13, <1>14, <1>15 DEF Next, Begin, Continue

-----------------------------------------------------------------------------
(* The chains *)

\* Once harm is done it stays done.
LEMMA SoundBack ==
  ASSUME [Next]_vars, Sound'
  PROVE  Sound
<1> USE DEF Sound
<1>1. CASE UNCHANGED vars
  BY <1>1 DEF vars
<1>2. CASE FirstTask
  BY <1>2 DEF FirstTask
<1>3. ASSUME NEW k \in Cores, Begin(k) PROVE Sound
  BY <1>3 DEF Begin, Alloc, AllocBeyond, Free, Schedule
<1>4. ASSUME NEW k \in Cores, Continue(k) PROVE Sound
  BY <1>4 DEF Continue, WalkCache, Unlink, WalkUsed, AddToTask, Seek, Found, NotFound,
               WalkHome, AddToCache, Extract, Reclaim, Or
<1> QED BY <1>1, <1>2, <1>3, <1>4 DEF Next

\* A call that looks for the end of a cache stays in the cache.
LEMMA TakingPrev ==
  ASSUME TypeOK, Shape, Good, NEW j \in Cores, op[j].pc = "take"
  PROVE  /\ op[j].obj \in Objects /\ op[j].prev \in Objects
         /\ list[op[j].prev] = "cache" /\ op[j].prev.core = j
<1>1. op[j].obj \in Objects /\ op[j].prev \in Objects /\ Taking(j)
  BY DEF Good, Pointers, Shape
<1>2. op[j].obj # Null
  BY <1>1, NullAssumption
<1> QED BY <1>1, <1>2 DEF Taking, Good, Links

\* What a call has in hand is on no chain.
LEMMA InHandAlone ==
  ASSUME TypeOK, Good, NEW o \in Objects, list[o] = "call"
  PROVE  /\ next[o] = Null /\ o.nr # 1
         /\ \A x \in Objects : next[x] # o
         /\ \A t \in Tasks : used[t] # o
<1>1. next[o] = Null
  BY DEF Good, Loose
<1>2. o.nr # 1
  BY IsFirst DEF Good, Begins
<1>3. \A x \in Objects : next[x] # o
  BY NullAssumption DEF Good, Links
<1>4. \A t \in Tasks : used[t] # o
  BY NullAssumption, SlubAssumption DEF Good, Begins
<1> QED BY <1>1, <1>2, <1>3, <1>4

\* Only the call of one core has moved its pointers.
LEMMA OpStep ==
  ASSUME TypeOK, Good, NEW k \in Cores, NEW c, op' = [op EXCEPT ![k] = c],
         UNCHANGED <<ready, next, used, list>>,
         Pointers(k)', \A j \in Cores \ {k} : Apart(j, k)'
  PROVE  Good'
<1>1. Links' /\ Begins' /\ Unused' /\ Loose'
  BY DEF Good, Links, Begins, Unused, Loose
<1>2. \A j \in Cores \ {k} : op'[j] = op[j]
  BY DEF TypeOK
<1>3. ASSUME NEW j \in Cores, j # k PROVE Pointers(j)'
  BY <1>2, <1>3 DEF Good, Pointers, Taking, Adding, Seeking, Giving
<1>4. ASSUME NEW i \in Cores, NEW j \in Cores, i # j PROVE Apart(i, j)'
  <2>1. CASE i # k /\ j # k
    BY <1>2, <1>4, <2>1 DEF Good, Apart
  <2>2. CASE j = k
    BY <1>4, <2>2
  <2>3. CASE i = k
    <3>1. Apart(j, k)'
      BY <1>4, <2>3
    <3> QED BY <2>3, <3>1 DEF Apart
  <2> QED BY <2>1, <2>2, <2>3
<1> QED BY <1>1, <1>3, <1>4 DEF Good

LEMMA WalkCacheGood ==
  ASSUME TypeOK, Shape, Good, NEW k \in Cores, WalkCache(k) PROVE Good'
<1> DEFINE c == [op[k] EXCEPT !.prev = op[k].obj, !.obj = next[op[k].obj]]
<1>1. op[k].obj \in Objects /\ next[op[k].obj] # Null /\ Taking(k)
  BY DEF WalkCache, Shape, Good, Pointers
<1>2. op' = [op EXCEPT ![k] = c] /\ UNCHANGED <<ready, next, used, list>>
  BY DEF WalkCache
<1>3. c.pc = "take" /\ c.prev = op[k].obj /\ c.obj = next[op[k].obj]
  BY DEF WalkCache, TypeOK, Calls
<1> HIDE DEF c
<1>4. op'[k] = c
  BY <1>2 DEF TypeOK
<1>5. Taking(k)'
  BY <1>1, <1>2, <1>3, <1>4 DEF Taking, Good, Links
<1>6. Pointers(k)'
  BY <1>3, <1>4, <1>5 DEF Pointers
<1>7. \A j \in Cores \ {k} : Apart(j, k)'
  BY <1>3, <1>4 DEF Apart
<1> QED BY <1>2, <1>6, <1>7, OpStep

LEMMA WalkUsedGood ==
  ASSUME TypeOK, Shape, Good, NEW k \in Cores, WalkUsed(k) PROVE Good'
<1> DEFINE c == [op[k] EXCEPT !.prev = next[op[k].prev]]
<1>1. op[k].prev \in Objects /\ next[op[k].prev] # Null /\ Adding(k) /\ op[k].pc = "add"
  BY DEF WalkUsed, Good, Pointers, TypeOK, Calls
<1>2. op' = [op EXCEPT ![k] = c] /\ UNCHANGED <<ready, next, used, list>>
  BY DEF WalkUsed
<1>3. /\ c.pc = "add" /\ c.prev = next[op[k].prev] /\ c.obj = op[k].obj
      /\ c.task = op[k].task
  BY DEF WalkUsed, TypeOK, Calls
<1> HIDE DEF c
<1>4. op'[k] = c /\ \A j \in Cores \ {k} : op'[j] = op[j]
  BY <1>2 DEF TypeOK
<1>5. Adding(k)'
  BY <1>1, <1>2, <1>3, <1>4, NullAssumption DEF Adding, Good, Links
<1>6. Pointers(k)'
  BY <1>3, <1>4, <1>5 DEF Pointers
<1>7. \A j \in Cores \ {k} : Apart(j, k)'
  BY <1>1, <1>3, <1>4 DEF Apart, Good
<1> QED BY <1>2, <1>6, <1>7, OpStep

LEMMA SeekGood ==
  ASSUME TypeOK, Shape, Good, NEW k \in Cores, Seek(k) PROVE Good'
<1> DEFINE c == [op[k] EXCEPT !.prev = op[k].obj, !.obj = next[op[k].obj]]
<1>1. /\ op[k].prev \in Objects /\ op[k].obj \in Objects /\ op[k].obj # Null
      /\ Seeking(k) /\ op[k].pc = "seek"
  BY DEF Seek, Good, Pointers, TypeOK, Calls, Shape
<1>2. op' = [op EXCEPT ![k] = c] /\ UNCHANGED <<ready, next, used, list>>
  BY DEF Seek
<1>3. /\ c.pc = "seek" /\ c.prev = op[k].obj /\ c.obj = next[op[k].obj]
      /\ c.task = op[k].task
  BY DEF Seek, TypeOK, Calls
<1> HIDE DEF c
<1>4. op'[k] = c /\ \A j \in Cores \ {k} : op'[j] = op[j]
  BY <1>2 DEF TypeOK
<1>5. Seeking(k)'
  BY <1>1, <1>2, <1>3, <1>4 DEF Seeking, Good, Links
<1>6. Pointers(k)'
  BY <1>3, <1>4, <1>5 DEF Pointers
<1>7. \A j \in Cores \ {k} : Apart(j, k)'
  BY <1>1, <1>3, <1>4 DEF Apart, Good
<1> QED BY <1>2, <1>6, <1>7, OpStep

LEMMA WalkHomeGood ==
  ASSUME TypeOK, Shape, Good, NEW k \in Cores, WalkHome(k) PROVE Good'
<1> DEFINE c == [op[k] EXCEPT !.prev = next[op[k].prev]]
<1>1. op[k].prev \in Objects /\ next[op[k].prev] # Null /\ Giving(k) /\ op[k].pc = "give"
  BY DEF WalkHome, Good, Pointers, Shape
<1>2. op' = [op EXCEPT ![k] = c] /\ UNCHANGED <<ready, next, used, list>>
  BY DEF WalkHome
<1>3. c.pc = "give" /\ c.prev = next[op[k].prev] /\ c.obj = op[k].obj
  BY DEF WalkHome, TypeOK, Calls
<1> HIDE DEF c
<1>4. op'[k] = c /\ \A j \in Cores \ {k} : op'[j] = op[j]
  BY <1>2 DEF TypeOK
<1>5. Giving(k)'
  BY <1>1, <1>2, <1>3, <1>4 DEF Giving, Good, Links
<1>6. Pointers(k)'
  BY <1>3, <1>4, <1>5 DEF Pointers
<1>7. \A j \in Cores \ {k} : Apart(j, k)'
  BY <1>1, <1>3, <1>4 DEF Apart, Good
<1> QED BY <1>2, <1>6, <1>7, OpStep

-----------------------------------------------------------------------------
(* The steps that change a chain *)

\* The calls of the other cores are where they were.
LEMMA GoodFrom ==
  ASSUME Links', Begins', Unused', Loose', NEW k \in Cores, Pointers(k)',
         \A j \in Cores \ {k} : Pointers(j)' /\ Apart(j, k)',
         \A i, j \in Cores \ {k} : i # j => Apart(i, j)'
  PROVE  Good'
<1>1. \A j \in Cores \ {k} : Apart(k, j)'
  BY DEF Apart
<1> QED BY <1>1 DEF Good

\* The end of the cache is cut off and is in the hands of the call.
LEMMA UnlinkGood ==
  ASSUME TypeOK, Shape, Good, NEW k \in Cores, Unlink(k), Sound'
  PROVE  Good'
<1> DEFINE o == op[k].obj
<1> DEFINE p == op[k].prev
<1> DEFINE t == CurrTask(k)
<1> DEFINE c == [op[k] EXCEPT !.pc = "add", !.task = t, !.prev = used[t]]
<1>1. /\ op[k].pc = "take" /\ next[o] = Null /\ t # Null /\ o # p /\ ~ Shared(k, t)
      /\ next' = [next EXCEPT ![p] = Null] /\ list' = [list EXCEPT ![o] = "call"]
      /\ op' = [op EXCEPT ![k] = c] /\ UNCHANGED <<ready, used>>
  BY DEF Unlink, Sound, Or
<1>2. /\ o \in Objects /\ p \in Objects /\ list[p] = "cache" /\ p.core = k
      /\ list[o] = "cache" /\ o.core = k /\ k \in ready /\ next[p] = o /\ t \in Tasks
  BY <1>1, TakingPrev, CurrTaskType DEF Good, Pointers, Taking
<1>3. c.pc = "add" /\ c.obj = o /\ c.prev = used[t] /\ c.task = t
  BY <1>1 DEF TypeOK, Calls
<1> HIDE DEF c, t
<1>4. op'[k] = c /\ \A j \in Cores \ {k} : op'[j] = op[j]
  BY <1>1 DEF TypeOK
<1>5. o.nr # 1
  BY <1>1, <1>2, NullAssumption DEF Good, Links
<1>6. \A x \in Objects : /\ x # p => next'[x] = next[x]
                         /\ x # o => list'[x] = list[x]
  BY <1>1, <1>2 DEF TypeOK
<1>7. next'[p] = Null /\ list'[o] = "call" /\ next'[o] = Null
  BY <1>1, <1>2, <1>6 DEF TypeOK
<1> HIDE DEF o, p
<1>8. Links'
  <2> SUFFICES ASSUME NEW x \in Objects, next'[x] # Null
               PROVE  /\ list'[next'[x]] = list'[x] /\ list'[x] # "call"
                      /\ list'[x] = "cache" => next'[x].core = x.core /\ next'[x].order = x.order
                      /\ \A y \in Objects : next'[y] = next'[x] => y = x
                      /\ next'[x].nr # 1 \/ list'[x] # "cache"
                      /\ \A u \in Tasks : used'[u] # next'[x]
    BY DEF Links
  <2>1. x # p /\ x # o /\ next'[x] = next[x] /\ list'[x] = list[x]
    BY <1>6, <1>7
  <2>2. next[x] \in Objects /\ next[x] # o
    BY <2>1, <1>2, NullAssumption DEF Good, Links, TypeOK
  <2>3. list'[next[x]] = list[next[x]]
    BY <1>6, <2>2
  <2>4. \A y \in Objects : next'[y] = next[x] => y = x
    BY <2>1, <1>6, <1>7 DEF Good, Links
  <2> QED BY <2>1, <2>2, <2>3, <2>4, <1>1 DEF Good, Links
<1>9. Begins'
  <2>1. \A j \in Cores, s \in Orders : First(j, s) # o
    BY <1>5, FirstObject
  <2>2. \A u \in Tasks : used[u] # o
    BY <1>2, NullAssumption, SlubAssumption DEF Good, Begins
  <2> QED BY <2>1, <2>2, <1>1, <1>6, FirstObject DEF Good, Begins, TypeOK
<1>10. Unused' /\ Loose'
  BY <1>1, <1>2, <1>6, <1>7 DEF Good, Unused, Loose
<1>11. Pointers(k)'
  <2>1. used[t] # Null => list'[used[t]] = t
    BY <1>2, <1>6, SlubAssumption DEF Good, Begins, TypeOK
  <2> QED BY <2>1, <1>1, <1>3, <1>4, <1>7 DEF Pointers, Adding
<1>12. ASSUME NEW j \in Cores \ {k} PROVE Pointers(j)'
  <2>1. op'[j] = op[j]
    BY <1>4
  <2>2. CASE op[j].pc = "take"
    <3>1. /\ op[j].obj \in Objects /\ op[j].prev \in Objects /\ op[j].prev.core = j
          /\ op[j].obj.core = j
      BY <2>2, TakingPrev DEF Good, Pointers, Taking
    <3>2. op[j].prev # p /\ op[j].obj # o
      BY <3>1, <1>2
    <3> QED BY <2>1, <2>2, <3>1, <3>2, <1>1, <1>6 DEF Pointers, Taking, Good
  <2>3. CASE op[j].pc = "add"
    <3>1. op[j].obj \in Objects /\ Adding(j) /\ op[j].prev \in Objects \cup {Null} /\ op[j].task \in Tasks
      BY <2>3 DEF Shape, Good, Pointers, TypeOK, Calls
    <3>2. op[j].obj # o /\ op[j].prev # o
      BY <3>1, <1>2, NullAssumption, SlubAssumption DEF Adding
    <3> QED BY <2>1, <2>3, <3>1, <3>2, <1>1, <1>6 DEF Pointers, Adding
  <2>4. CASE op[j].pc = "seek"
    <3>1. op[j].prev \in Objects /\ Seeking(j) /\ op[j].task \in Tasks
      BY <2>4 DEF Shape, Good, Pointers, TypeOK, Calls
    <3>2. op[j].prev # o /\ op[j].prev # p
      BY <3>1, <1>2, SlubAssumption DEF Seeking
    <3> QED BY <2>1, <2>4, <3>1, <3>2, <1>6 DEF Pointers, Seeking
  <2>5. CASE op[j].pc = "give"
    <3>1. op[j].obj \in Objects /\ op[j].prev \in Objects /\ Giving(j)
      BY <2>5 DEF Shape, Good, Pointers
    <3>2. op[j].obj # o /\ op[j].prev # o
      BY <3>1, <1>2 DEF Giving
    <3> QED BY <2>1, <2>5, <3>1, <3>2, <1>6 DEF Pointers, Giving
  <2>6. CASE op[j].pc \notin {"take", "add", "seek", "give"}
    BY <2>1, <2>6 DEF Pointers
  <2> QED BY <2>2, <2>3, <2>4, <2>5, <2>6
<1>13. ASSUME NEW j \in Cores \ {k} PROVE Apart(j, k)'
  <2>1. op[j].pc \in {"add", "give"} => op[j].obj # o
    BY <1>2 DEF Good, Pointers, Adding, Giving
  <2>2. op[j].pc \in {"add", "seek"} => op[j].task # t
    BY <1>1 DEF Shared
  <2> QED BY <2>1, <2>2, <1>3, <1>4 DEF Apart
<1>14. \A i, j \in Cores \ {k} : i # j => Apart(i, j)'
  BY <1>4 DEF Good, Apart
<1> QED BY <1>8, <1>9, <1>10, <1>11, <1>12, <1>13, <1>14, GoodFrom

\* o becomes the list of the task to, or follows the end of the chain of to.
Attached(k, o, to) ==
  \/ /\ to \in Tasks /\ used[to] = Null
     /\ used' = [used EXCEPT ![to] = o] /\ next' = next
  \/ \E p \in Objects : /\ next[p] = Null /\ list[p] = to
                        /\ to = "cache" => p.core = o.core /\ p.order = o.order /\ p.core = k
                        /\ next' = [next EXCEPT ![p] = o] /\ used' = used

\* What a call has in hand goes to the end of a chain, or becomes one of a task.
LEMMA LinkGood ==
  ASSUME TypeOK, Shape, Good, NEW k \in Cores, NEW o \in Objects,
         NEW to \in Tasks \cup {"cache"},
         op[k].pc \in {"add", "give"}, op[k].obj = o, list[o] = "call",
         to = "cache" => o.core \in ready,
         to \in Tasks => op[k].pc = "add" /\ op[k].task = to,
         list' = [list EXCEPT ![o] = to], op' = [op EXCEPT ![k] = Idle], ready' = ready,
         Attached(k, o, to)
  PROVE  Good'
<1>1. /\ next[o] = Null /\ o.nr # 1
      /\ \A x \in Objects : next[x] # o
      /\ \A t \in Tasks : used[t] # o
  BY InHandAlone
<1>2. to \notin {"call"} /\ ("cache" \notin Tasks)
  BY SlubAssumption
<1>3. Idle.pc = "idle" /\ op'[k] = Idle /\ \A j \in Cores \ {k} : op'[j] = op[j]
  BY DEF TypeOK, Idle
<1>4. list'[o] = to /\ \A x \in Objects : x # o => list'[x] = list[x]
  BY DEF TypeOK
<1>5. Pointers(k)'
  BY <1>3 DEF Pointers
<1>6. \A j \in Cores \ {k} : Apart(j, k)'
  BY <1>3 DEF Apart
<1>7. \A i, j \in Cores \ {k} : i # j => Apart(i, j)'
  BY <1>3 DEF Good, Apart
<1>8. Unused'
  <2> SUFFICES ASSUME NEW x \in Objects, list'[x] # "cache" PROVE x.core \in ready
    BY DEF Unused
  <2> QED BY <1>4 DEF Good, Unused
<1>9. CASE next' = next /\ to \in Tasks /\ used[to] = Null /\ used' = [used EXCEPT ![to] = o]
  <2>1. used'[to] = o /\ \A t \in Tasks : t # to => used'[t] = used[t]
    BY <1>9 DEF TypeOK
  <2>2. Links'
    <3> SUFFICES ASSUME NEW x \in Objects, next[x] # Null
                 PROVE  /\ list'[next[x]] = list'[x] /\ list'[x] # "call"
                        /\ list'[x] = "cache" => next[x].core = x.core /\ next[x].order = x.order
                        /\ \A y \in Objects : next[y] = next[x] => y = x
                        /\ next[x].nr # 1 \/ list'[x] # "cache"
                        /\ \A t \in Tasks : used'[t] # next[x]
      BY <1>9 DEF Links
    <3>1. x # o /\ next[x] # o /\ next[x] \in Objects
      BY <1>1 DEF TypeOK
    <3>2. list'[x] = list[x] /\ list'[next[x]] = list[next[x]]
      BY <3>1, <1>4
    <3> QED BY <2>1, <3>1, <3>2 DEF Good, Links
  <2>3. Begins'
    <3>1. \A j \in Cores, s \in Orders : First(j, s) # o
      BY <1>1, FirstObject
    <3>2. \A t \in Tasks : used'[t] # Null => list'[used'[t]] = t
      BY <1>1, <1>4, <2>1 DEF Good, Begins, TypeOK
    <3> QED BY <3>1, <3>2, <1>4, FirstObject DEF Good, Begins
  <2>4. Loose'
    BY <1>2, <1>4, <1>9 DEF Good, Loose
  <2>5. ASSUME NEW j \in Cores \ {k} PROVE Pointers(j)'
    <3>1. op'[j] = op[j]
      BY <1>3
    <3>2. CASE op[j].pc = "take"
      <4>1. /\ op[j].obj \in Objects /\ op[j].obj # o /\ Taking(j)
        BY <3>2 DEF Shape, Good, Pointers, Taking
      <4> QED BY <3>1, <3>2, <4>1, <1>4, <1>9 DEF Pointers, Taking
    <3>3. CASE op[j].pc = "add"
      <4>1. op[j].obj \in Objects /\ Adding(j) /\ op[j].obj # o /\ op[j].task \in Tasks
        BY <3>3 DEF Shape, Good, Pointers, Apart, TypeOK, Calls
      <4>2. op[j].prev \in Objects \cup {Null} /\ op[j].prev # o
        BY <4>1, NullAssumption, SlubAssumption DEF Adding, TypeOK, Calls
      <4>3. CASE op[j].prev # Null
        BY <3>1, <3>3, <4>1, <4>2, <4>3, <1>4 DEF Pointers, Adding
      <4>4. CASE op[j].prev = Null /\ op[j].task # to
        BY <3>1, <3>3, <4>1, <4>2, <4>4, <1>4, <2>1 DEF Pointers, Adding
      <4>5. op[j].task # to
        BY <3>3, <1>9 DEF Good, Apart
      <4> QED BY <4>3, <4>4, <4>5
    <3>4. CASE op[j].pc = "seek"
      <4>1. op[j].prev \in Objects /\ Seeking(j) /\ op[j].prev # o
        BY <3>4, SlubAssumption DEF Shape, Good, Pointers, Seeking, TypeOK, Calls
      <4> QED BY <3>1, <3>4, <4>1, <1>4, <1>9 DEF Pointers, Seeking
    <3>5. CASE op[j].pc = "give"
      <4>1. /\ op[j].obj \in Objects /\ op[j].prev \in Objects /\ Giving(j)
            /\ op[j].obj # o /\ op[j].prev # o
        BY <3>5 DEF Shape, Good, Pointers, Apart, Giving
      <4> QED BY <3>1, <3>5, <4>1, <1>4 DEF Pointers, Giving
    <3>6. CASE op[j].pc \notin {"take", "add", "seek", "give"}
      BY <3>1, <3>6 DEF Pointers
    <3> QED BY <3>2, <3>3, <3>4, <3>5, <3>6
  <2> QED BY <2>2, <2>3, <2>4, <2>5, <1>5, <1>6, <1>7, <1>8, GoodFrom
<1>10. CASE \E p \in Objects : /\ next[p] = Null /\ list[p] = to
                               /\ to = "cache" => p.core = o.core /\ p.order = o.order /\ p.core = k
                               /\ next' = [next EXCEPT ![p] = o] /\ used' = used
  <2>1. PICK p \in Objects : /\ next[p] = Null /\ list[p] = to
                             /\ to = "cache" => p.core = o.core /\ p.order = o.order /\ p.core = k
                             /\ next' = [next EXCEPT ![p] = o] /\ used' = used
    BY <1>10
  <2>2. next'[p] = o /\ p # o /\ \A x \in Objects : x # p => next'[x] = next[x]
    BY <2>1, <1>2 DEF TypeOK
  <2>3. Links'
    <3> SUFFICES ASSUME NEW x \in Objects, next'[x] # Null
                 PROVE  /\ list'[next'[x]] = list'[x] /\ list'[x] # "call"
                        /\ list'[x] = "cache" => next'[x].core = x.core /\ next'[x].order = x.order
                        /\ \A y \in Objects : next'[y] = next'[x] => y = x
                        /\ next'[x].nr # 1 \/ list'[x] # "cache"
                        /\ \A t \in Tasks : used[t] # next'[x]
      BY <2>1 DEF Links
    <3>1. CASE x = p
      <4>1. next'[x] = o /\ list'[o] = list'[x] /\ list'[x] = to
        BY <3>1, <2>1, <2>2, <1>4
      <4>2. \A y \in Objects : next'[y] = o => y = x
        BY <3>1, <2>2, <1>1
      <4> QED BY <4>1, <4>2, <3>1, <2>1, <1>1, <1>2
    <3>2. CASE x # p
      <4>1. next'[x] = next[x] /\ x # o /\ next[x] # o /\ next[x] \in Objects
        BY <3>2, <2>2, <1>1 DEF TypeOK
      <4>2. list'[x] = list[x] /\ list'[next[x]] = list[next[x]]
        BY <4>1, <1>4
      <4>3. \A y \in Objects : next'[y] = next[x] => y = x
        BY <4>1, <2>2 DEF Good, Links
      <4> QED BY <4>1, <4>2, <4>3 DEF Good, Links
    <3> QED BY <3>1, <3>2
  <2>4. Begins'
    <3>1. \A j \in Cores, s \in Orders : First(j, s) # o
      BY <1>1, FirstObject
    <3>2. \A t \in Tasks : used[t] # Null => list'[used[t]] = t
      BY <1>1, <1>4 DEF Good, Begins, TypeOK
    <3> QED BY <3>1, <3>2, <2>1, <1>4, FirstObject DEF Good, Begins
  <2>5. Loose'
    <3> SUFFICES ASSUME NEW x \in Objects, list'[x] = "call" PROVE next'[x] = Null
      BY DEF Loose
    <3>1. x # o /\ list[x] = "call" /\ x # p
      BY <1>2, <1>4, <2>1
    <3> QED BY <3>1, <2>2 DEF Good, Loose
  <2>6. ASSUME NEW j \in Cores \ {k} PROVE Pointers(j)'
    <3>1. op'[j] = op[j]
      BY <1>3
    <3>2. CASE op[j].pc = "take"
      <4>1. /\ op[j].obj \in Objects /\ op[j].obj # o /\ Taking(j)
            /\ op[j].prev \in Objects /\ op[j].prev.core = j /\ list[op[j].prev] = "cache"
        BY <3>2, TakingPrev DEF Good, Pointers, Taking
      <4>2. op[j].prev # p
        BY <4>1, <2>1, <1>2
      <4> QED BY <3>1, <3>2, <4>1, <4>2, <1>4, <2>2 DEF Pointers, Taking
    <3>3. CASE op[j].pc = "add"
      <4>1. op[j].obj \in Objects /\ Adding(j) /\ op[j].obj # o /\ op[j].task \in Tasks
        BY <3>3 DEF Shape, Good, Pointers, Apart, TypeOK, Calls
      <4>2. op[j].prev \in Objects \cup {Null} /\ op[j].prev # o
        BY <4>1, NullAssumption, SlubAssumption DEF Adding, TypeOK, Calls
      <4> QED BY <3>1, <3>3, <4>1, <4>2, <2>1, <1>4 DEF Pointers, Adding
    <3>4. CASE op[j].pc = "seek"
      <4>1. op[j].prev \in Objects /\ Seeking(j) /\ op[j].prev # o /\ op[j].task \in Tasks
        BY <3>4, SlubAssumption DEF Shape, Good, Pointers, Seeking, TypeOK, Calls
      <4>2. op[j].task # to
        BY <3>4, <4>1, <1>2 DEF Good, Apart
      <4>3. op[j].prev # p
        BY <4>1, <4>2, <2>1 DEF Seeking
      <4> QED BY <3>1, <3>4, <4>1, <4>3, <1>4, <2>2 DEF Pointers, Seeking
    <3>5. CASE op[j].pc = "give"
      <4>1. /\ op[j].obj \in Objects /\ op[j].prev \in Objects /\ Giving(j)
            /\ op[j].obj # o /\ op[j].prev # o
        BY <3>5 DEF Shape, Good, Pointers, Apart, Giving
      <4> QED BY <3>1, <3>5, <4>1, <1>4 DEF Pointers, Giving
    <3>6. CASE op[j].pc \notin {"take", "add", "seek", "give"}
      BY <3>1, <3>6 DEF Pointers
    <3> QED BY <3>2, <3>3, <3>4, <3>5, <3>6
  <2> QED BY <2>3, <2>4, <2>5, <2>6, <1>5, <1>6, <1>7, <1>8, GoodFrom
<1> QED BY <1>9, <1>10 DEF Attached

\* The last step of a call: what it had in hand, o, goes to the list to.
Delivers(k, o, to) ==
  /\ op[k].pc \in {"add", "give"} /\ op[k].obj = o /\ list[o] = "call"
  /\ to = "cache" => o.core \in ready
  /\ to \in Tasks => op[k].pc = "add" /\ op[k].task = to
  /\ list' = [list EXCEPT ![o] = to] /\ op' = [op EXCEPT ![k] = Idle] /\ ready' = ready
  /\ held' = IF to = "cache" THEN held ELSE held \cup {o}
  /\ Attached(k, o, to)

LEMMA AddToTaskDelivers ==
  ASSUME TypeOK, Shape, Good, NEW k \in Cores, AddToTask(k)
  PROVE  \E o \in Objects, to \in Tasks : Delivers(k, o, to)
<1>o. op[k].pc = "add" /\ op[k].obj \in Objects
  BY DEF AddToTask, Shape
<1>p. PICK o \in Objects : o = op[k].obj
  BY <1>o
<1>t. PICK to \in Tasks : to = op[k].task
  BY DEF TypeOK, Calls
<1>1. /\ op[k].pc \in {"add", "give"} /\ op[k].pc = "add" /\ op[k].obj = o
      /\ op[k].task = to /\ op[k].prev \in Objects \cup {Null}
  BY <1>o, <1>p, <1>t DEF TypeOK, Calls
<1>2. /\ list[o] = "call"
      /\ op[k].prev = Null => used[to] = Null
      /\ op[k].prev # Null => list[op[k].prev] = to
  BY <1>1 DEF Good, Pointers, Adding
<1>3. to # "cache"
  BY <1>1, SlubAssumption
<1>4. /\ list' = [list EXCEPT ![o] = to] /\ held' = held \cup {o}
      /\ op' = [op EXCEPT ![k] = Idle] /\ ready' = ready
  BY <1>p, <1>t DEF AddToTask
<1>5. Attached(k, o, to)
  <2>1. CASE op[k].prev = Null
    BY <1>1, <1>2, <2>1, NullAssumption DEF AddToTask, Attached
  <2>2. CASE op[k].prev # Null
    BY <1>1, <1>2, <1>3, <2>2 DEF AddToTask, Attached
  <2> QED BY <2>1, <2>2
<1>6. Delivers(k, o, to)
  BY <1>1, <1>2, <1>3, <1>4, <1>5 DEF Delivers
<1> QED BY <1>6

LEMMA AddToCacheDelivers ==
  ASSUME TypeOK, Shape, Good, NEW k \in Cores, AddToCache(k)
  PROVE  \E o \in Objects : Delivers(k, o, "cache")
<1> DEFINE to == "cache"
<1>o. op[k].pc = "give" /\ op[k].obj \in Objects
  BY DEF AddToCache, Shape
<1>p. PICK o \in Objects : o = op[k].obj
  BY <1>o
<1>1. /\ op[k].pc \in {"add", "give"} /\ op[k].pc = "give" /\ op[k].obj = o
      /\ op[k].prev \in Objects /\ next[op[k].prev] = Null
  BY <1>o, <1>p DEF AddToCache, Shape
<1>2. /\ list[o] = "call" /\ o.core = k /\ list[op[k].prev] = to
      /\ op[k].prev.core = k /\ op[k].prev.order = o.order
  BY <1>1 DEF Good, Pointers, Giving
<1>3. o.core \in ready
  BY <1>1, <1>2 DEF Good, Unused
<1>4. /\ next' = [next EXCEPT ![op[k].prev] = op[k].obj]
      /\ list' = [list EXCEPT ![o] = to] /\ held' = held
      /\ op' = [op EXCEPT ![k] = Idle] /\ ready' = ready /\ used' = used
  BY <1>p DEF AddToCache
<1>5. Attached(k, o, to)
  BY <1>1, <1>2, <1>4 DEF Attached
<1>6. to \notin Tasks
  BY SlubAssumption
<1>7. Delivers(k, o, to)
  BY <1>1, <1>2, <1>3, <1>4, <1>5, <1>6 DEF Delivers
<1> QED BY <1>7

LEMMA AddToTaskGood ==
  ASSUME TypeOK, Shape, Good, NEW k \in Cores, AddToTask(k) PROVE Good'
<1>1. PICK o \in Objects, to \in Tasks : Delivers(k, o, to)
  BY AddToTaskDelivers
<1>2. to \in Tasks \cup {"cache"}
  OBVIOUS
<1> QED BY <1>1, <1>2, LinkGood, Zenon DEF Delivers

LEMMA AddToCacheGood ==
  ASSUME TypeOK, Shape, Good, NEW k \in Cores, AddToCache(k) PROVE Good'
<1>1. PICK o \in Objects : Delivers(k, o, "cache")
  BY AddToCacheDelivers
<1> DEFINE to == "cache"
<1>2. Delivers(k, o, to) /\ to \in Tasks \cup {"cache"}
  BY <1>1
<1> HIDE DEF to
<1> QED BY <1>2, LinkGood, Zenon DEF Delivers

\* Unless harm is done, the object that is freed is taken out of the chain of its task.
LEMMA ExtractGood ==
  ASSUME TypeOK, Shape, Good, Sound', NEW k \in Cores, NEW p \in Objects, NEW t \in Tasks,
         NEW addr \in Objects, list[p] = t, Extract(k, p, t, addr), UNCHANGED <<ready, used>>
  PROVE  Good'
<1>1. next[p] # Null /\ next[p] # p /\ next[p] = addr /\ addr.core = k /\ ~ Shared(k, t)
  BY DEF Extract, Reclaim, Sound, Or
<1> DEFINE c == [pc |-> "give", obj |-> addr, prev |-> First(k, addr.order),
                 task |-> t, addr |-> addr]
<1>2. /\ next' = [next EXCEPT ![p] = next[addr], ![addr] = Null]
      /\ list' = [list EXCEPT ![addr] = "call"] /\ op' = [op EXCEPT ![k] = c]
  BY <1>1 DEF Extract, Reclaim
<1>3. t # "cache" /\ t # "call" /\ list[addr] = t
  BY <1>1, SlubAssumption DEF Good, Links
<1>4. c.pc = "give" /\ c.obj = addr /\ c.prev = First(k, addr.order)
  OBVIOUS
<1> HIDE DEF c
<1>5. op'[k] = c /\ \A j \in Cores \ {k} : op'[j] = op[j]
  BY <1>2 DEF TypeOK
<1>6. /\ next'[p] = next[addr] /\ next'[addr] = Null
      /\ \A x \in Objects : x \notin {p, addr} => next'[x] = next[x]
  BY <1>1, <1>2 DEF TypeOK
<1>7. list'[addr] = "call" /\ \A x \in Objects : x # addr => list'[x] = list[x]
  BY <1>2 DEF TypeOK
<1>8. /\ \A x \in Objects : next[x] = addr => x = p
      /\ \A u \in Tasks : used[u] # addr
      /\ \A j \in Cores, s \in Orders : First(j, s) # addr
      /\ next[addr] # addr /\ addr \in Objects
  BY <1>1, <1>3 DEF Good, Links, Begins
<1>9. Links'
  <2> SUFFICES ASSUME NEW x \in Objects, next'[x] # Null
               PROVE  /\ list'[next'[x]] = list'[x] /\ list'[x] # "call"
                      /\ list'[x] = "cache" => next'[x].core = x.core /\ next'[x].order = x.order
                      /\ \A y \in Objects : next'[y] = next'[x] => y = x
                      /\ next'[x].nr # 1 \/ list'[x] # "cache"
                      /\ \A u \in Tasks : used'[u] # next'[x]
    BY DEF Links
  <2>1. CASE x = p
    <3>1. next'[x] = next[addr] /\ next[addr] \in Objects /\ next[addr] # addr
      BY <2>1, <1>6, <1>8 DEF TypeOK
    <3>2. list'[x] = t /\ list'[next[addr]] = t
      BY <2>1, <3>1, <1>1, <1>3, <1>7 DEF Good, Links
    <3>3. \A y \in Objects : next'[y] = next[addr] => y = x
      BY <2>1, <3>1, <1>6, <1>8, NullAssumption DEF Good, Links
    <3>4. \A u \in Tasks : used[u] # next[addr]
      BY <3>1, NullAssumption DEF Good, Links
    <3> QED BY <3>1, <3>2, <3>3, <3>4, <1>3
  <2>2. CASE x # p
    <3>1. x # addr /\ next'[x] = next[x] /\ next[x] \in Objects
      BY <2>2, <1>6 DEF TypeOK
    <3>2. next[x] # addr /\ list'[x] = list[x]
      BY <2>2, <3>1, <1>7, <1>8
    <3>3. list'[next[x]] = list[next[x]]
      BY <3>1, <3>2, <1>7
    <3>4. \A y \in Objects : next'[y] = next[x] => y = x
      <4> SUFFICES ASSUME NEW y \in Objects, next'[y] = next[x] PROVE y = x
        OBVIOUS
      <4>1. CASE y = p
        <5>1. next[addr] = next[x]
          BY <4>1, <1>6
        <5> QED BY <5>1, <3>1, <1>8, NullAssumption DEF Good, Links
      <4>2. CASE y # p
        BY <4>2, <3>1, <1>6, NullAssumption DEF Good, Links
      <4> QED BY <4>1, <4>2
    <3> QED BY <3>1, <3>2, <3>3, <3>4 DEF Good, Links
  <2> QED BY <2>1, <2>2
<1>10. Begins'
  <2>1. \A u \in Tasks : used[u] # Null => list'[used[u]] = u
    BY <1>7, <1>8 DEF Good, Begins, TypeOK
  <2> QED BY <2>1, <1>7, <1>8, FirstObject DEF Good, Begins
<1>11. Unused'
  BY <1>3, <1>7 DEF Good, Unused
<1>12. Loose'
  <2> SUFFICES ASSUME NEW x \in Objects, list'[x] = "call" PROVE next'[x] = Null
    BY DEF Loose
  <2>1. x # p
    BY <1>1, <1>3, <1>7
  <2> QED BY <2>1, <1>6, <1>7 DEF Good, Loose
<1>13. Pointers(k)'
  <2>1. addr.order \in Orders
    BY ObjectFields
  <2>2. /\ First(k, addr.order) \in Objects /\ First(k, addr.order).core = k
        /\ First(k, addr.order).order = addr.order
        /\ list[First(k, addr.order)] = "cache"
    BY <2>1, FirstObject DEF Good, Begins
  <2>3. list'[First(k, addr.order)] = "cache"
    BY <2>2, <1>3, <1>7
  <2> QED BY <2>2, <2>3, <1>1, <1>4, <1>5, <1>7 DEF Pointers, Giving
<1>14. ASSUME NEW j \in Cores \ {k} PROVE Pointers(j)' /\ Apart(j, k)'
  <2>1. op'[j] = op[j]
    BY <1>5
  <2>2. CASE op[j].pc = "take"
    <3>1. /\ op[j].obj \in Objects /\ op[j].prev \in Objects
          /\ list[op[j].obj] = "cache" /\ list[op[j].prev] = "cache"
      BY <2>2, TakingPrev DEF Good, Pointers, Taking
    <3>2. op[j].prev \notin {p, addr} /\ op[j].obj # addr
      BY <3>1, <1>3
    <3> QED BY <2>1, <2>2, <3>1, <3>2, <1>4, <1>5, <1>6, <1>7
          DEF Pointers, Taking, Good, Apart
  <2>3. CASE op[j].pc = "add"
    <3>1. op[j].obj \in Objects /\ Adding(j) /\ op[j].prev \in Objects \cup {Null} /\ op[j].task # t
      BY <2>3, <1>1 DEF Shape, Good, Pointers, TypeOK, Calls, Shared
    <3>2. op[j].obj # addr /\ op[j].prev # addr
      BY <3>1, <1>3, NullAssumption DEF Adding
    <3> QED BY <2>1, <2>3, <3>1, <3>2, <1>4, <1>5, <1>7 DEF Pointers, Adding, Apart
  <2>4. CASE op[j].pc = "seek"
    <3>1. op[j].prev \in Objects /\ Seeking(j) /\ op[j].task # t
      BY <2>4, <1>1 DEF Shape, Good, Pointers, Shared
    <3>2. op[j].prev \notin {p, addr}
      BY <3>1, <1>3 DEF Seeking
    <3> QED BY <2>1, <2>4, <3>1, <3>2, <1>4, <1>5, <1>6, <1>7 DEF Pointers, Seeking, Apart
  <2>5. CASE op[j].pc = "give"
    <3>1. op[j].obj \in Objects /\ op[j].prev \in Objects /\ Giving(j)
      BY <2>5 DEF Shape, Good, Pointers
    <3>2. op[j].obj # addr /\ op[j].prev # addr
      BY <3>1, <1>3 DEF Giving
    <3> QED BY <2>1, <2>5, <3>1, <3>2, <1>4, <1>5, <1>7 DEF Pointers, Giving, Apart
  <2>6. CASE op[j].pc \notin {"take", "add", "seek", "give"}
    BY <2>1, <2>6 DEF Pointers, Apart
  <2> QED BY <2>2, <2>3, <2>4, <2>5, <2>6
<1>15. \A i, j \in Cores \ {k} : i # j => Apart(i, j)'
  BY <1>5 DEF Good, Apart
<1> QED BY <1>9, <1>10, <1>11, <1>12, <1>13, <1>14, <1>15, GoodFrom

LEMMA FoundGood ==
  ASSUME TypeOK, Shape, Good, Sound', NEW k \in Cores, Found(k) PROVE Good'
<1>1. op[k].pc = "seek" /\ op[k].prev \in Objects /\ op[k].addr \in Objects
  BY DEF Found, Shape
<1>2. PICK p \in Objects : p = op[k].prev
  BY <1>1
<1>3. PICK addr \in Objects : addr = op[k].addr
  BY <1>1
<1>4. PICK t \in Tasks : t = op[k].task
  BY DEF TypeOK, Calls
<1>5. list[p] = t
  BY <1>1, <1>2, <1>4 DEF Good, Pointers, Seeking
<1>6. Extract(k, p, t, addr) /\ UNCHANGED <<ready, used>>
  BY <1>2, <1>3, <1>4 DEF Found
<1> QED BY <1>5, <1>6, ExtractGood, Zenon

LEMMA FreeGood ==
  ASSUME TypeOK, Shape, Good, Sound', NEW k \in Cores, NEW o \in Objects, Free(k, o)
  PROVE  Good'
<1>0. CurrTask(k) \in Tasks /\ used[CurrTask(k)] # Null
  <2>1. harm' \notin {"nobody", "missed"}
    BY DEF Sound
  <2>2. CurrTask(k) # Null /\ used[CurrTask(k)] # Null
    BY <2>1, NullAssumption DEF Free
  <2> QED BY <2>2, CurrTaskType
<1>1. PICK t \in Tasks : t = CurrTask(k) /\ used[t] # Null
  BY <1>0
<1>2. used[t] \in Objects /\ list[used[t]] = t
  BY <1>1 DEF TypeOK, Good, Begins
<1>3. CASE used[t] = o
  <2>1. Extract(k, o, t, o) /\ UNCHANGED <<ready, used>>
    BY <1>1, <1>3, SlubAssumption DEF Free
  <2>2. list[o] = t
    BY <1>2, <1>3
  <2> QED BY <2>1, <2>2, ExtractGood, Zenon
<1>4. CASE used[t] # o
  <2> DEFINE c == [pc |-> "seek", obj |-> next[used[t]], prev |-> used[t], task |-> t,
                   addr |-> o]
  <2>1. /\ op' = [op EXCEPT ![k] = c] /\ ~ Shared(k, t)
        /\ UNCHANGED <<ready, next, used, list>>
    BY <1>1, <1>4, SlubAssumption DEF Free, Sound, Or
  <2>2. c.pc = "seek" /\ c.obj = next[used[t]] /\ c.prev = used[t] /\ c.task = t
    OBVIOUS
  <2> HIDE DEF c
  <2>3. op'[k] = c /\ \A j \in Cores \ {k} : op'[j] = op[j]
    BY <2>1 DEF TypeOK
  <2>4. Pointers(k)'
    BY <1>2, <2>1, <2>2, <2>3 DEF Pointers, Seeking
  <2>5. \A j \in Cores \ {k} : Apart(j, k)'
    BY <2>1, <2>2, <2>3 DEF Apart, Shared
  <2> QED BY <2>1, <2>4, <2>5, OpStep
<1> QED BY <1>3, <1>4

\* The caches of a core are made before it has given anything away.
LEMMA MakeCachesGood ==
  ASSUME TypeOK, Shape, Good, NEW k \in Cores, MakeCaches(k), UNCHANGED <<used, list>>,
         NEW c, op' = [op EXCEPT ![k] = c],
         Pointers(k)', \A j \in Cores \ {k} : Apart(j, k)'
  PROVE  Good'
<1>1. ready' = ready \cup {k} /\ \A j \in Cores \ {k} : op'[j] = op[j]
  BY DEF MakeCaches, TypeOK
<1>2. CASE k \in ready
  <2>1. UNCHANGED <<ready, next, used, list>>
    BY <1>2 DEF MakeCaches
  <2> QED BY <2>1, OpStep
<1>3. CASE k \notin ready
  <2>1. \A x \in Objects : x.core = k => list[x] = "cache"
    BY <1>3 DEF Good, Unused
  <2>2. next' = Chained(k)
    BY <1>3 DEF MakeCaches
  <2>3. \A x \in Objects : x.core # k => next'[x] = next[x]
    BY <2>2 DEF Chained
  <2>4. ASSUME NEW x \in Objects, x.core = k, next'[x] # Null
        PROVE  /\ next'[x] \in Objects /\ next'[x].core = k /\ next'[x].order = x.order
               /\ next'[x].nr = x.nr + 1
    <3>1. x.nr < NrObjs[x.order] /\ next'[x] = [x EXCEPT !.nr = @ + 1]
      BY <2>2, <2>4 DEF Chained
    <3> QED BY <3>1, <2>4, NextObject
  <2>5. ASSUME NEW x \in Objects, x.core # k, next[x] # Null
        PROVE  next[x] \in Objects /\ next[x].core # k
    <3>1. next[x] \in Objects
      BY <2>5 DEF TypeOK
    <3>2. list[next[x]] = list[x] /\ (list[x] = "cache" => next[x].core = x.core)
      BY <2>5 DEF Good, Links
    <3> QED BY <3>1, <3>2, <2>1, <2>5
  <2>6. \A x \in Objects : x.nr \in Nat /\ x.nr >= 1 /\ x.core \in Cores /\ x.order \in Orders
    <3>1. ASSUME NEW x \in Objects PROVE x.nr \in Nat /\ x.nr >= 1 /\ x.core \in Cores /\ x.order \in Orders
      <4>1. x.nr \in 1 .. NrObjs[x.order] /\ x.order \in Orders /\ x.core \in Cores
        BY ObjectFields
      <4>2. NrObjs[x.order] \in Nat
        BY <4>1, SlubAssumption
      <4> QED BY <4>1, <4>2
    <3> QED BY <3>1
  <2>7. ASSUME NEW x \in Objects, next'[x] # Null
        PROVE  /\ list[next'[x]] = list[x] /\ list[x] # "call"
               /\ list[x] = "cache" => next'[x].core = x.core /\ next'[x].order = x.order
               /\ \A y \in Objects : next'[y] = next'[x] => y = x
               /\ next'[x].nr # 1 \/ list[x] # "cache"
               /\ \A t \in Tasks : used[t] # next'[x]
    <3>1. CASE x.core = k
      <4>1. /\ next'[x] \in Objects /\ next'[x].core = k /\ next'[x].order = x.order
            /\ next'[x].nr = x.nr + 1
        BY <2>4, <2>7, <3>1
      <4>2. list[next'[x]] = "cache" /\ list[x] = "cache" /\ next'[x].nr # 1
        BY <4>1, <2>1, <2>6, <3>1
      <4>3. ASSUME NEW y \in Objects, next'[y] = next'[x] PROVE y = x
        <5>1. y.core = k
          BY <4>1, <4>3, <2>3, <2>5, <2>7
        <5>2. next'[y].order = y.order /\ next'[y].nr = y.nr + 1
          BY <5>1, <4>3, <2>4, <2>7
        <5>3. y.order = x.order /\ y.nr = x.nr
          BY <5>2, <4>1, <4>3, <2>6
        <5> QED BY <5>1, <5>3, <3>1, SameObject
      <4>4. \A t \in Tasks : used[t] # next'[x]
        BY <4>1, <4>2, <2>7, SlubAssumption DEF Good, Begins
      <4> QED BY <4>1, <4>2, <4>3, <4>4, <3>1
    <3>2. CASE x.core # k
      <4>1. next'[x] = next[x] /\ next[x] # Null /\ next[x] \in Objects /\ next[x].core # k
        BY <2>3, <2>5, <2>7, <3>2
      <4>2. ASSUME NEW y \in Objects, next'[y] = next[x] PROVE y = x
        <5>1. y.core # k
          BY <4>1, <4>2, <2>4
        <5> QED BY <5>1, <4>1, <4>2, <2>3 DEF Good, Links
      <4> QED BY <4>1, <4>2 DEF Good, Links
    <3> QED BY <3>1, <3>2
  <2>8. Links'
    BY <2>7 DEF Links
  <2>9. Begins' /\ Unused'
    BY <1>1 DEF Good, Begins, Unused
  <2>10. Loose'
    <3> SUFFICES ASSUME NEW o \in Objects, list[o] = "call" PROVE next'[o] = Null
      BY DEF Loose
    <3> QED BY <2>1, <2>3 DEF Good, Loose
  <2>11. ASSUME NEW j \in Cores \ {k} PROVE Pointers(j)'
    <3>1. op'[j] = op[j]
      BY <1>1
    <3>2. CASE op[j].pc = "take"
      <4>1. /\ op[j].obj \in Objects /\ op[j].prev \in Objects /\ op[j].prev.core # k
            /\ Taking(j)
        BY <3>2, TakingPrev DEF Good, Pointers
      <4> QED BY <3>1, <3>2, <4>1, <1>1, <2>3 DEF Pointers, Taking
    <3>3. CASE op[j].pc = "add"
      BY <3>1, <3>3 DEF Good, Pointers, Adding
    <3>4. CASE op[j].pc = "seek"
      <4>1. op[j].prev \in Objects /\ Seeking(j) /\ op[j].task \in Tasks
        BY <3>4 DEF Shape, Good, Pointers, TypeOK, Calls
      <4>2. op[j].prev.core # k
        BY <4>1, <2>1, SlubAssumption DEF Seeking
      <4> QED BY <3>1, <3>4, <4>1, <4>2, <2>3 DEF Pointers, Seeking
    <3>5. CASE op[j].pc = "give"
      BY <3>1, <3>5 DEF Good, Pointers, Giving
    <3>6. CASE op[j].pc \notin {"take", "add", "seek", "give"}
      BY <3>1, <3>6 DEF Pointers
    <3> QED BY <3>2, <3>3, <3>4, <3>5, <3>6
  <2>12. \A i, j \in Cores \ {k} : i # j => Apart(i, j)'
    BY <1>1 DEF Good, Apart
  <2> QED BY <2>8, <2>9, <2>10, <2>11, <2>12, GoodFrom
<1> QED BY <1>2, <1>3

LEMMA AllocGood ==
  ASSUME TypeOK, Shape, Good, NEW k \in Cores, NEW s \in Orders, Alloc(k, s), Sound'
  PROVE  Good'
<1> DEFINE c == [Idle EXCEPT !.pc = "take", !.obj = First(k, s), !.prev = First(k, s)]
<1>1. MakeCaches(k) /\ op' = [op EXCEPT ![k] = c] /\ UNCHANGED <<used, list>>
  BY DEF Alloc, Sound
<1>2. c.pc = "take" /\ c.obj = First(k, s) /\ c.prev = First(k, s)
  BY DEF Idle
<1> HIDE DEF c
<1>3. op'[k] = c
  BY <1>1 DEF TypeOK
<1>4. list'[First(k, s)] = "cache" /\ First(k, s).core = k /\ k \in ready'
  BY <1>1, FirstObject DEF Good, Begins, MakeCaches
<1>5. Pointers(k)'
  BY <1>2, <1>3, <1>4 DEF Pointers, Taking
<1>6. \A j \in Cores \ {k} : Apart(j, k)'
  BY <1>2, <1>3 DEF Apart
<1> QED BY <1>1, <1>5, <1>6, MakeCachesGood

LEMMA AllocBeyondGood ==
  ASSUME TypeOK, Shape, Good, NEW k \in Cores, AllocBeyond(k), Sound'
  PROVE  Good'
<1>1. MakeCaches(k) /\ op' = op /\ UNCHANGED <<used, list>> /\ op[k].pc = "idle"
  BY DEF AllocBeyond, Sound
<1>2. op' = [op EXCEPT ![k] = op[k]] /\ op'[k].pc = "idle"
  BY <1>1 DEF TypeOK
<1>3. Pointers(k)' /\ \A j \in Cores \ {k} : Apart(j, k)'
  BY <1>2 DEF Pointers, Apart
<1> QED BY <1>1, <1>2, <1>3, MakeCachesGood

-----------------------------------------------------------------------------
(* The invariant *)

LEMMA InitIInv == Init => IInv
<1> SUFFICES ASSUME Init PROVE IInv
  OBVIOUS
<1>1. TypeOK
  BY IdleType DEF Init, TypeOK, Harms
<1>2. \A k \in Cores : op[k].pc = "idle"
  BY DEF Init, Idle
<1>3. Shape /\ \A k \in Cores : Pointers(k) /\ \A j \in Cores : Apart(j, k)
  BY <1>2 DEF Shape, Pointers, Apart
<1>4. Links /\ Unused /\ Loose /\ Begins
  BY FirstObject DEF Init, Links, Unused, Loose, Begins
<1> QED BY <1>1, <1>3, <1>4 DEF IInv, Good

LEMMA StepIInv == IInv /\ [Next]_vars => IInv'
<1> SUFFICES ASSUME IInv, [Next]_vars PROVE IInv'
  OBVIOUS
<1>1. TypeOK /\ Shape /\ TypeOK' /\ Shape'
  BY TypeStep DEF IInv
<1>2. ASSUME Sound' PROVE Good'
  <2>1. Good /\ Sound
    BY <1>2, SoundBack DEF IInv
  <2> USE <1>1, <1>2, <2>1
  <2>a. ASSUME UNCHANGED <<ready, next, used, op, list>> PROVE Good'
    BY <2>a DEF Good, Links, Begins, Unused, Loose, Pointers, Taking, Adding, Seeking,
                Giving, Apart
  <2>2. CASE UNCHANGED vars
    BY <2>2, <2>a DEF vars
  <2>3. CASE FirstTask
    BY <2>3, <2>a DEF FirstTask
  <2>4. ASSUME NEW k \in Cores, Schedule(k) PROVE Good'
    BY <2>4, <2>a DEF Schedule
  <2>5. ASSUME NEW k \in Cores, NEW s \in Orders, Alloc(k, s) PROVE Good'
    BY <2>5, AllocGood
  <2>6. ASSUME NEW k \in Cores, AllocBeyond(k) PROVE Good'
    BY <2>6, AllocBeyondGood
  <2>7. ASSUME NEW k \in Cores, NEW o \in Objects, Free(k, o) PROVE Good'
    BY <2>7, FreeGood
  <2>8. ASSUME NEW k \in Cores, NotFound(k) PROVE Good'
    BY <2>8 DEF NotFound, Sound
  <2>9. ASSUME NEW k \in Cores, WalkCache(k) PROVE Good'
    BY <2>9, WalkCacheGood
  <2>10. ASSUME NEW k \in Cores, Unlink(k) PROVE Good'
    BY <2>10, UnlinkGood
  <2>11. ASSUME NEW k \in Cores, WalkUsed(k) PROVE Good'
    BY <2>11, WalkUsedGood
  <2>12. ASSUME NEW k \in Cores, AddToTask(k) PROVE Good'
    BY <2>12, AddToTaskGood
  <2>13. ASSUME NEW k \in Cores, Seek(k) PROVE Good'
    BY <2>13, SeekGood
  <2>14. ASSUME NEW k \in Cores, Found(k) PROVE Good'
    BY <2>14, FoundGood
  <2>15. ASSUME NEW k \in Cores, WalkHome(k) PROVE Good'
    BY <2>15, WalkHomeGood
  <2>16. ASSUME NEW k \in Cores, AddToCache(k) PROVE Good'
    BY <2>16, AddToCacheGood
  <2> QED
    BY <2>2, <2>3, <2>4, <2>5, <2>6, <2>7, <2>8, <2>9, <2>10, <2>11, <2>12, <2>13,
       <2>14, <2>15, <2>16 DEF Next, Begin, Continue
<1> QED BY <1>1, <1>2 DEF IInv

-----------------------------------------------------------------------------
(* The theorems *)

\* Whatever calls the cores make, in whatever order their steps come, every chain is
\* whole until something of Harms happens, and every pointer a loop of slub.c follows
\* is an object even after it.
THEOREM Invariance == Spec => []IInv
<1>1. Init => IInv
  BY InitIInv
<1>2. IInv /\ [Next]_vars => IInv'
  BY StepIInv
<1> QED BY <1>1, <1>2, PTL DEF Spec

\* The state of the allocator keeps its type for any number of cores, orders, objects
\* and tasks.
THEOREM TypeCorrect == Spec => []TypeOK
<1>1. IInv => TypeOK
  BY DEF IInv
<1> QED BY <1>1, Invariance, PTL

\* An object has one reference: slub_alloc() gives no memory away twice, by itself or
\* with a call of another core, until one of the defects in Harms shows.
THEOREM NoSharing == Spec => []OneReference
<1>1. IInv => OneReference
  <2> SUFFICES ASSUME TypeOK, Shape, Good PROVE
        /\ \A x, y \in Objects : next[x] = next[y] /\ next[x] # Null => x = y
        /\ \A t, u \in Tasks : used[t] = used[u] /\ used[t] # Null => t = u
        /\ \A x \in Objects, t \in Tasks : used[t] = next[x] => used[t] = Null
        /\ \A k \in Cores, s \in Orders :
             /\ \A x \in Objects : next[x] # First(k, s)
             /\ \A t \in Tasks : used[t] # First(k, s)
        /\ \A o \in InHand : (\A x \in Objects : next[x] # o) /\ (\A t \in Tasks : used[t] # o)
        /\ \A j, k \in Cores :
             op[j].pc \in {"add", "give"} /\ op[k].pc \in {"add", "give"} /\ op[j].obj = op[k].obj
               => j = k
    BY DEF IInv, OneReference
  <2>1. \A x, y \in Objects : next[x] = next[y] /\ next[x] # Null => x = y
    BY DEF Good, Links
  <2>2. \A t, u \in Tasks : used[t] = used[u] /\ used[t] # Null => t = u
    BY DEF Good, Begins
  <2>3. \A x \in Objects, t \in Tasks : used[t] = next[x] => used[t] = Null
    BY DEF Good, Links
  <2>4. ASSUME NEW k \in Cores, NEW s \in Orders
        PROVE  /\ \A x \in Objects : next[x] # First(k, s)
               /\ \A t \in Tasks : used[t] # First(k, s)
    <3>1. /\ First(k, s) \in Objects /\ First(k, s) # Null /\ First(k, s).nr = 1
          /\ list[First(k, s)] = "cache"
      BY FirstObject DEF Good, Begins
    <3>2. ASSUME NEW x \in Objects, next[x] = First(k, s) PROVE FALSE
      BY <3>1, <3>2 DEF Good, Links
    <3>3. ASSUME NEW t \in Tasks, used[t] = First(k, s) PROVE FALSE
      BY <3>1, <3>3, SlubAssumption DEF Good, Begins
    <3> QED BY <3>2, <3>3
  <2>5. ASSUME NEW k \in Cores, op[k].pc \in {"add", "give"}
        PROVE  /\ \A x \in Objects : next[x] # op[k].obj
               /\ \A t \in Tasks : used[t] # op[k].obj
    <3>1. op[k].obj \in Objects /\ list[op[k].obj] = "call"
      BY <2>5 DEF Shape, Good, Pointers, Adding, Giving
    <3> QED BY <3>1, InHandAlone
  <2>6. \A j, k \in Cores :
          op[j].pc \in {"add", "give"} /\ op[k].pc \in {"add", "give"} /\ op[j].obj = op[k].obj
            => j = k
    BY DEF Good, Apart
  <2> QED BY <2>1, <2>2, <2>3, <2>4, <2>5, <2>6 DEF InHand
<1> QED BY <1>1, Invariance, PTL

\* Until then a cache holds objects of its own core and its own length.
THEOREM LengthsFixed == Spec => []FixedLength
<1>1. IInv => FixedLength
  BY DEF IInv, FixedLength, Good, Links
<1> QED BY <1>1, Invariance, PTL

=============================================================================
