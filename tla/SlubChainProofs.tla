--------------------------- MODULE SlubChainProofs ---------------------------
(***************************************************************************)
(* Theorems about the chains of Slub as wholes: nothing falls off one, the *)
(* tasks' chains are what callers hold, and no chain is endless.           *)
(*                                                                         *)
(* SlubProofs says what one link of a chain connects.  That the links of a *)
(* chain run through everything that is on it is a statement about sets of *)
(* objects: a set that has the beginning of the chain and is not led out   *)
(* of has all of it.  When a link is set or cut, such a set for the new    *)
(* links is turned into one for the old links, so that no induction along  *)
(* the chain is needed.                                                    *)
(***************************************************************************)
EXTENDS SlubProofs, WellFoundedInduction

\* Everything on a list can be reached from where it begins.
Chains ==
  /\ \A k \in ready, s \in Orders : Reaches(next, {First(k, s)}, Cached(k, s))
  /\ \A t \in Tasks : Reaches(next, {used[t]} \ {Null}, Listed(t))

\* What is on no list is in the hands of a call.
CallsHold ==
  \A o \in Objects : list[o] = "call" =>
    \E k \in Cores : op[k].pc \in {"add", "give"} /\ op[k].obj = o

\* What the call of core k is to free.
Frees(k, o) == op[k].pc = "seek" /\ op[k].addr = o

\* What is on a task's list is held, or is being freed by one call.
Users ==
  \A o \in Objects :
    /\ list[o] \in Tasks <=> o \in held \/ \E k \in Cores : Frees(k, o)
    /\ \A k \in Cores : Frees(k, o) => o \notin held
    /\ \A j, k \in Cores : Frees(j, o) /\ Frees(k, o) => j = k

\* Every walk along f ends: there is no set in which every link stays.
Ends(f) == \A C \in SUBSET Objects : (\A x \in C : f[x] \in C) => C = {}

Whole == Chains /\ CallsHold /\ Users /\ Ends(next)

WInv == IInv /\ (Sound => Whole)

-----------------------------------------------------------------------------
(* Chains in general *)

\* A chain depends on the links inside it only.
LEMMA ReachesSame ==
  ASSUME NEW f, NEW g, NEW R, NEW C, Reaches(f, R, C), \A x \in C : g[x] = f[x]
  PROVE  Reaches(g, R, C)
BY DEF Reaches, Closed

\* A chain with no beginning is empty.
LEMMA ReachesNothing ==
  ASSUME NEW f, NEW C, Reaches(f, {}, C)
  PROVE  C = {}
<1>1. {} \in SUBSET C /\ Closed(f, {})
  BY DEF Closed
<1> QED BY <1>1 DEF Reaches

\* A chain of one object.
LEMMA ReachesOne ==
  ASSUME NEW f, NEW o, f[o] = Null
  PROVE  Reaches(f, {o}, {o})
BY DEF Reaches, Closed

\* An object is added behind the last one, p.
LEMMA ReachesAppend ==
  ASSUME NEW f, NEW g, NEW R, NEW C, Reaches(f, R, C),
         NEW p \in C, NEW o, o \notin C, o # Null, f[p] = Null,
         g[p] = o, g[o] = Null, \A x \in C \ {p} : g[x] = f[x]
  PROVE  Reaches(g, R, C \cup {o})
<1>1. R \subseteq C \cup {o} /\ Closed(g, C \cup {o})
  BY DEF Reaches, Closed
<1>2. ASSUME NEW S \in SUBSET (C \cup {o}), R \subseteq S, Closed(g, S)
      PROVE  S = C \cup {o}
  <2>1. o \notin R
    BY DEF Reaches
  <2>2. R \subseteq S \ {o} /\ S \ {o} \in SUBSET C
    BY <1>2, <2>1
  <2>3. Closed(f, S \ {o})
    <3> SUFFICES ASSUME NEW x \in S \ {o}, f[x] # Null PROVE f[x] \in S \ {o}
      BY DEF Closed
    <3>1. x \in C \ {p} /\ g[x] = f[x]
      BY <1>2
    <3>2. f[x] \in S /\ f[x] \in C
      BY <1>2, <3>1 DEF Reaches, Closed
    <3> QED BY <3>2
  <2>4. S \ {o} = C
    BY <2>2, <2>3 DEF Reaches
  <2>5. o \in S
    <3>1. p \in S
      BY <2>4
    <3> QED BY <1>2, <3>1 DEF Closed
  <2> QED BY <1>2, <2>4, <2>5
<1> QED BY <1>1, <1>2 DEF Reaches

\* The object c behind p is taken out.
LEMMA ReachesCut ==
  ASSUME NEW f, NEW g, NEW R, NEW C, Reaches(f, R, C),
         NEW p \in C, NEW c \in C, c # p, f[p] = c, c \notin R,
         \A x \in C : f[x] = c => x = p,
         g[p] = f[c], \A x \in C \ {p, c} : g[x] = f[x]
  PROVE  Reaches(g, R, C \ {c})
<1>1. R \subseteq C \ {c} /\ Closed(g, C \ {c})
  BY DEF Reaches, Closed
<1>2. ASSUME NEW S \in SUBSET (C \ {c}), R \subseteq S, Closed(g, S)
      PROVE  S = C \ {c}
  <2>1. CASE p \in S
    <3>1. Closed(f, S \cup {c})
      BY <1>2, <2>1 DEF Closed
    <3>2. S \cup {c} = C
      BY <1>2, <3>1 DEF Reaches
    <3> QED BY <1>2, <3>2
  <2>2. CASE p \notin S
    <3>1. Closed(f, S)
      BY <1>2, <2>2 DEF Closed
    <3>2. S = C
      BY <1>2, <3>1 DEF Reaches
    <3> QED BY <2>2, <3>2
  <2> QED BY <2>1, <2>2
<1> QED BY <1>1, <1>2 DEF Reaches

\* Walks still end when o, which led nowhere, is added behind p.
LEMMA EndsAppend ==
  ASSUME NEW f, NEW g, Ends(f), NEW p \in Objects, NEW o \in Objects, g[o] = Null,
         g[p] = o, \A x \in Objects \ {p, o} : g[x] = f[x]
  PROVE  Ends(g)
<1> SUFFICES ASSUME NEW C \in SUBSET Objects, \A x \in C : g[x] \in C PROVE C = {}
  BY DEF Ends
<1>1. o \notin C /\ p \notin C
  BY NullAssumption
<1>2. \A x \in C : f[x] \in C
  BY <1>1
<1> QED BY <1>2 DEF Ends

\* Walks still end when the object c behind p is taken out.
LEMMA EndsCut ==
  ASSUME NEW f, NEW g, Ends(f), NEW p \in Objects, NEW c \in Objects, f[p] = c,
         g[p] = f[c], g[c] = Null, \A x \in Objects \ {p, c} : g[x] = f[x]
  PROVE  Ends(g)
<1> SUFFICES ASSUME NEW C \in SUBSET Objects, \A x \in C : g[x] \in C PROVE C = {}
  BY DEF Ends
<1>1. c \notin C
  BY NullAssumption
<1>2. CASE p \in C
  <2>1. \A x \in C \cup {c} : f[x] \in C \cup {c}
    BY <1>1, <1>2
  <2>2. C \cup {c} = {}
    BY <2>1 DEF Ends
  <2> QED BY <2>2
<1>3. CASE p \notin C
  <2>1. \A x \in C : f[x] \in C
    BY <1>1, <1>3
  <2> QED BY <2>1 DEF Ends
<1> QED BY <1>2, <1>3

\* A set of numbers has a smallest one.
LEMMA Smallest ==
  ASSUME NEW S \in SUBSET Nat, S # {}
  PROVE  \E m \in S : \A n \in S : m <= n
<1>1. PICK m \in S : \A n \in S : ~ (<<n, m>> \in OpToRel(<, Nat))
  BY WFMin, NatLessThanWellFounded, Zenon
<1>2. \A n \in S : ~ (n < m)
  BY <1>1 DEF OpToRel
<1> QED BY <1>2

-----------------------------------------------------------------------------
(* The steps *)

\* The objects of a cache that has just been made.
LEMMA ReachesChained ==
  ASSUME NEW k \in Cores, NEW s \in Orders, Cached(k, s) = {o \in Objects : o.core = k /\ o.order = s}
  PROVE  Reaches(Chained(k), {First(k, s)}, Cached(k, s))
<1> DEFINE C == Cached(k, s)
<1> DEFINE g == Chained(k)
<1>0. NrObjs[s] \in Nat
  BY SlubAssumption
<1>1. \A x \in C : x \in Objects /\ x.core = k /\ x.order = s /\ x.nr \in 1 .. NrObjs[s]
  BY ObjectFields
<1>2. \A x \in C : g[x] = IF x.nr < NrObjs[s] THEN [x EXCEPT !.nr = @ + 1] ELSE Null
  BY <1>1 DEF Chained
<1>3. First(k, s) \in C
  BY FirstObject
<1>4. ASSUME NEW x \in C, g[x] # Null PROVE g[x] \in C
  BY <1>1, <1>2, <1>4, NextObject
<1> HIDE DEF C, g
<1>5. ASSUME NEW S \in SUBSET C, First(k, s) \in S, Closed(g, S)
      PROVE  S = C
  <2> SUFFICES ASSUME C \ S # {} PROVE FALSE
    BY <1>5
  <2> DEFINE T == {x.nr : x \in C \ S}
  <2>1. T \in SUBSET Nat /\ T # {}
    BY <1>0, <1>1
  <2>2. PICK m \in T : \A n \in T : m <= n
    BY <2>1, Smallest
  <2>3. PICK x \in C \ S : x.nr = m
    BY <2>2
  <2>4. x.nr # 1
    BY <1>1, <1>3, <1>5, FirstObject, SameObject
  <2> DEFINE y == [core |-> k, order |-> s, nr |-> x.nr - 1]
  <2>5. y \in Objects /\ y.core = k /\ y.order = s /\ y.nr = x.nr - 1
    <3>1. x.nr - 1 \in 1 .. NrObjs[s]
      BY <1>0, <1>1, <2>4
    <3> QED BY <3>1, IsObject
  <2>6. y \in C
    BY <2>5 DEF C, Cached
  <2>7. y \in S
    <3>1. y.nr \notin T
      BY <1>0, <1>1, <2>2, <2>3, <2>5
    <3> HIDE DEF y
    <3> QED BY <2>6, <3>1
  <2>8. g[y] = x
    <3>1. x.nr - 1 < NrObjs[s] /\ x.nr - 1 + 1 = x.nr
      BY <1>0, <1>1
    <3>2. g[y] = [y EXCEPT !.nr = @ + 1]
      BY <1>2, <2>5, <2>6, <3>1
    <3>3. /\ g[y] \in Objects /\ g[y].core = k /\ g[y].order = s
          /\ g[y].nr = x.nr
      BY <2>5, <3>1, <3>2, NextObject, <1>0, <1>1
    <3> QED BY <1>1, <3>3, SameObject
  <2> QED BY <1>1, <1>5, <2>3, <2>7, <2>8, NullAssumption DEF Closed
<1> QED BY <1>3, <1>4, <1>5 DEF Reaches, Closed, C, g

\* Walks end in new caches, where the numbers of objects only grow.
LEMMA EndsChained ==
  ASSUME NEW f, NEW g, Ends(f), NEW k \in Cores,
         \A x \in Objects : x.core # k => g[x] = f[x] /\ (g[x] # Null => g[x].core # k),
         \A x \in Objects : x.core = k => g[x] = Chained(k)[x]
  PROVE  Ends(g)
<1> SUFFICES ASSUME NEW C \in SUBSET Objects, \A x \in C : g[x] \in C PROVE C = {}
  BY DEF Ends
<1> DEFINE A == {x \in C : x.core # k}
<1>1. \A x \in A : f[x] \in A
  BY NullAssumption
<1>2. A = {}
  BY <1>1 DEF Ends
<1>3. \A x \in C : /\ x.core = k /\ x.nr < NrObjs[x.order]
                   /\ g[x] = [x EXCEPT !.nr = @ + 1]
  <2> SUFFICES ASSUME NEW x \in C
               PROVE  /\ x.core = k /\ x.nr < NrObjs[x.order]
                      /\ g[x] = [x EXCEPT !.nr = @ + 1]
    OBVIOUS
  <2>1. x.core = k
    BY <1>2
  <2>2. g[x] = IF x.nr < NrObjs[x.order] THEN [x EXCEPT !.nr = @ + 1] ELSE Null
    BY <2>1 DEF Chained
  <2>3. g[x] # Null
    BY NullAssumption
  <2> QED BY <2>1, <2>2, <2>3
<1>4. \A x \in C : /\ NrObjs[x.order] - x.nr \in Nat
                   /\ NrObjs[g[x].order] - g[x].nr < NrObjs[x.order] - x.nr
  <2> SUFFICES ASSUME NEW x \in C
               PROVE  /\ NrObjs[x.order] - x.nr \in Nat
                      /\ NrObjs[g[x].order] - g[x].nr < NrObjs[x.order] - x.nr
    OBVIOUS
  <2>1. x.order \in Orders /\ x.nr \in 1 .. NrObjs[x.order]
    BY ObjectFields
  <2>2. NrObjs[x.order] \in Nat
    BY <2>1, SlubAssumption
  <2>3. g[x].order = x.order /\ g[x].nr = x.nr + 1
    BY <1>3, NextObject
  <2> QED BY <2>1, <2>2, <2>3, <1>3
<1> DEFINE T == {NrObjs[x.order] - x.nr : x \in C}
<1> SUFFICES ASSUME C # {} PROVE FALSE
  OBVIOUS
<1>5. T \in SUBSET Nat /\ T # {}
  BY <1>4
<1>6. PICK m \in T : \A n \in T : m <= n
  BY <1>5, Smallest
<1>7. PICK x \in C : NrObjs[x.order] - x.nr = m
  BY <1>6
<1>8. PICK n \in T : n = NrObjs[g[x].order] - g[x].nr
  OBVIOUS
<1>9. n < m
  BY <1>4, <1>7, <1>8
<1>10. m <= n /\ m \in Nat /\ n \in Nat
  BY <1>5, <1>6
<1> QED BY <1>9, <1>10

\* The call of core k is at another place; calls have what they had, or c has it.
LEMMA CallsHoldStep ==
  ASSUME TypeOK, CallsHold, NEW k \in Cores, NEW c, op' = [op EXCEPT ![k] = c],
         \A o \in Objects : list'[o] = "call" =>
            \/ c.pc \in {"add", "give"} /\ c.obj = o
            \/ list[o] = "call" /\ ~ (op[k].pc \in {"add", "give"} /\ op[k].obj = o)
  PROVE  CallsHold'
<1> SUFFICES ASSUME NEW o \in Objects, list'[o] = "call"
             PROVE  \E j \in Cores : op'[j].pc \in {"add", "give"} /\ op'[j].obj = o
  BY DEF CallsHold
<1>1. op'[k] = c /\ \A j \in Cores \ {k} : op'[j] = op[j]
  BY DEF TypeOK
<1>2. CASE c.pc \in {"add", "give"} /\ c.obj = o
  BY <1>1, <1>2
<1>3. CASE list[o] = "call" /\ ~ (op[k].pc \in {"add", "give"} /\ op[k].obj = o)
  <2>1. PICK j \in Cores : op[j].pc \in {"add", "give"} /\ op[j].obj = o
    BY <1>3 DEF CallsHold
  <2>2. j # k
    BY <1>3, <2>1
  <2> QED BY <1>1, <2>1, <2>2
<1> QED BY <1>2, <1>3

\* A step outside slub_free()'s search that gives callers nothing and takes nothing.
LEMMA UsersStep ==
  ASSUME TypeOK, Users, NEW k \in Cores, NEW c, op' = [op EXCEPT ![k] = c],
         op[k].pc # "seek", c.pc # "seek", held' = held,
         \A o \in Objects : list'[o] \in Tasks <=> list[o] \in Tasks
  PROVE  Users'
<1>1. op'[k] = c /\ \A j \in Cores \ {k} : op'[j] = op[j]
  BY DEF TypeOK
<1>2. \A j \in Cores, o \in Objects : Frees(j, o)' <=> Frees(j, o)
  BY <1>1 DEF Frees
<1> QED BY <1>2 DEF Users

\* No chain has changed.
LEMMA WholeStep ==
  ASSUME Whole, UNCHANGED <<ready, next, used, list>>, CallsHold', Users'
  PROVE  Whole'
<1>1. Chains'
  BY DEF Whole, Chains, Cached, Listed
<1> QED BY <1>1 DEF Whole

\* A pointer has moved on along a chain, or a call is over that had nothing.
LEMMA WalkWhole ==
  ASSUME TypeOK, Whole, NEW k \in Cores, NEW c, op' = [op EXCEPT ![k] = c],
         UNCHANGED <<ready, next, used, list, held>>,
         c.pc = op[k].pc, c.pc \in {"add", "give"} => c.obj = op[k].obj, c.addr = op[k].addr
  PROVE  Whole'
<1>1. op'[k] = c /\ \A j \in Cores \ {k} : op'[j] = op[j]
  BY DEF TypeOK
<1>2. CallsHold'
  BY <1>1 DEF Whole, CallsHold
<1>3. \A j \in Cores, o \in Objects : Frees(j, o)' <=> Frees(j, o)
  BY <1>1 DEF Frees
<1>4. Users'
  BY <1>3 DEF Whole, Users
<1> QED BY <1>2, <1>4, WholeStep

LEMMA WalksWhole ==
  ASSUME TypeOK, Whole, NEW k \in Cores,
         WalkCache(k) \/ WalkUsed(k) \/ Seek(k) \/ WalkHome(k)
  PROVE  Whole'
<1>1. op[k].pc \in {"take", "add", "seek", "give"} /\ UNCHANGED <<ready, next, used, list, held>>
  BY DEF WalkCache, WalkUsed, Seek, WalkHome
<1> DEFINE c == [op[k] EXCEPT !.prev = op[k].obj, !.obj = next[op[k].obj]]
<1> DEFINE d == [op[k] EXCEPT !.prev = next[op[k].prev]]
<1>2. /\ c.pc = op[k].pc /\ c.addr = op[k].addr
      /\ d.pc = op[k].pc /\ d.addr = op[k].addr /\ d.obj = op[k].obj
  BY DEF TypeOK, Calls
<1>3. CASE WalkCache(k) \/ Seek(k)
  <2>1. op' = [op EXCEPT ![k] = c] /\ op[k].pc \in {"take", "seek"}
    BY <1>3 DEF WalkCache, Seek
  <2> HIDE DEF c
  <2>2. ~ (c.pc \in {"add", "give"})
    BY <1>2, <2>1
  <2> QED BY <1>1, <1>2, <2>1, <2>2, WalkWhole
<1>4. CASE WalkUsed(k) \/ WalkHome(k)
  <2>1. op' = [op EXCEPT ![k] = d]
    BY <1>4 DEF WalkUsed, WalkHome
  <2> HIDE DEF d
  <2> QED BY <1>1, <1>2, <2>1, WalkWhole
<1> QED BY <1>3, <1>4

LEMMA UnlinkWhole ==
  ASSUME TypeOK, Shape, Good, Whole, NEW k \in Cores, Unlink(k), Sound'
  PROVE  Whole'
<1>0. op[k].pc = "take" /\ op[k].obj \in Objects /\ op[k].prev \in Objects
  BY DEF Unlink, Shape
<1>o. PICK o \in Objects : o = op[k].obj
  BY <1>0
<1>p. PICK p \in Objects : p = op[k].prev
  BY <1>0
<1> DEFINE t == CurrTask(k)
<1> DEFINE c == [op[k] EXCEPT !.pc = "add", !.task = t, !.prev = used[t]]
<1>1. /\ next[o] = Null /\ t # Null /\ o # p
      /\ next' = [next EXCEPT ![p] = Null] /\ list' = [list EXCEPT ![o] = "call"]
      /\ op' = [op EXCEPT ![k] = c] /\ UNCHANGED <<ready, used, held>>
  BY <1>o, <1>p DEF Unlink, Sound, Or
<1>2. /\ list[p] = "cache" /\ p.core = k
      /\ list[o] = "cache" /\ o.core = k /\ next[p] = o
  BY <1>0, <1>o, <1>p, <1>1, TakingPrev DEF Good, Pointers, Taking
<1>3. c.pc = "add" /\ c.obj = o
  BY <1>o DEF TypeOK, Calls
<1> HIDE DEF c, t
<1>4. /\ \A x \in Objects \ {p} : next'[x] = next[x]
      /\ \A x \in Objects \ {o} : list'[x] = list[x]
      /\ next'[p] = Null /\ list'[o] = "call" /\ next'[o] = Null
  BY <1>1 DEF TypeOK
<1>5. o.nr # 1 /\ p.order = o.order /\ \A x \in Objects : next[x] = o => x = p
  BY <1>2, NullAssumption DEF Good, Links
<1>6. ASSUME NEW j \in ready, NEW s \in Orders
      PROVE  Reaches(next, {First(j, s)}, Cached(j, s))'
  <2>1. Reaches(next, {First(j, s)}, Cached(j, s)) /\ j \in Cores
    BY DEF Whole, Chains, TypeOK
  <2>2. CASE j = k /\ s = o.order
    <3>1. p \in Cached(j, s) /\ o \in Cached(j, s) /\ Cached(j, s)' = Cached(j, s) \ {o}
      BY <1>2, <1>4, <1>5, <2>2 DEF Cached, Listed
    <3>2. o \notin {First(j, s)}
      BY <1>5, <2>1, FirstObject
    <3>3. /\ \A x \in Cached(j, s) : next[x] = o => x = p
          /\ \A x \in Cached(j, s) \ {p, o} : next'[x] = next[x]
      BY <1>4, <1>5 DEF Cached, Listed
    <3>4. next'[p] = next[o] /\ o # p /\ next[p] = o
      BY <1>1, <1>2, <1>4
    <3>5. Reaches(next', {First(j, s)}, Cached(j, s) \ {o})
      <4> DEFINE R == {First(j, s)}
      <4> DEFINE C == Cached(j, s)
      <4>1. /\ Reaches(next, R, C) /\ p \in C /\ o \in C /\ o \notin R
            /\ \A x \in C : next[x] = o => x = p
            /\ \A x \in C \ {p, o} : next'[x] = next[x]
        BY <2>1, <3>1, <3>2, <3>3
      <4> HIDE DEF R, C
      <4>2. Reaches(next', R, C \ {o})
        BY <3>4, <4>1, ReachesCut
      <4> QED BY <4>2 DEF R, C
    <3> QED BY <3>1, <3>5 DEF First
  <2>3. CASE j # k \/ s # o.order
    <3>1. Cached(j, s)' = Cached(j, s) /\ \A x \in Cached(j, s) : next'[x] = next[x]
      BY <1>2, <1>4, <1>5, <2>3 DEF Cached, Listed
    <3>2. Reaches(next', {First(j, s)}, Cached(j, s))
      BY <2>1, <3>1, ReachesSame
    <3> QED BY <3>1, <3>2 DEF First
  <2> QED BY <2>2, <2>3
<1>7. ASSUME NEW u \in Tasks PROVE Reaches(next, {used[u]} \ {Null}, Listed(u))'
  <2>1. Reaches(next, {used[u]} \ {Null}, Listed(u))
    BY DEF Whole, Chains
  <2>2. u # "cache" /\ u # "call"
    BY SlubAssumption
  <2>3. Listed(u)' = Listed(u) /\ \A x \in Listed(u) : next'[x] = next[x]
    BY <1>2, <1>4, <2>2 DEF Listed
  <2>4. Reaches(next', {used[u]} \ {Null}, Listed(u))
    BY <2>1, <2>3, ReachesSame
  <2> QED BY <1>1, <2>3, <2>4
<1>8. Chains'
  BY <1>1, <1>6, <1>7 DEF Chains
<1>9. CallsHold'
  <2>1. \A x \in Objects : list'[x] = "call" =>
          \/ c.pc \in {"add", "give"} /\ c.obj = x
          \/ list[x] = "call" /\ ~ (op[k].pc \in {"add", "give"} /\ op[k].obj = x)
    BY <1>0, <1>3, <1>4
  <2> QED BY <1>1, <2>1, CallsHoldStep DEF Whole
<1>10. Users'
  <2>1. \A x \in Objects : list'[x] \in Tasks <=> list[x] \in Tasks
    BY <1>2, <1>4, SlubAssumption
  <2> QED BY <1>0, <1>1, <1>3, <2>1, UsersStep DEF Whole
<1>11. Ends(next)'
  <2>1. Ends(next)
    BY DEF Whole
  <2>2. /\ next[p] = o /\ next'[p] = next[o] /\ next'[o] = Null
        /\ \A x \in Objects \ {p, o} : next'[x] = next[x]
    BY <1>1, <1>2, <1>4
  <2>3. Ends(next')
    BY <2>1, <2>2, EndsCut, Zenon
  <2> QED BY <2>3
<1> QED BY <1>8, <1>9, <1>10, <1>11 DEF Whole

\* What a call had in hand becomes the only object of a task.
LEMMA FirstChains ==
  ASSUME TypeOK, Good, Chains, NEW o \in Objects, NEW to \in Tasks, list[o] = "call",
         used[to] = Null, used' = [used EXCEPT ![to] = o], next' = next,
         list' = [list EXCEPT ![o] = to], ready' = ready
  PROVE  Chains'
<1>1. to \notin {"cache", "call"} /\ \A u \in Tasks : u \notin {"cache", "call"}
  BY SlubAssumption
<1>2. list'[o] = to /\ \A x \in Objects \ {o} : list'[x] = list[x]
  BY DEF TypeOK
<1>3. used'[to] = o /\ \A u \in Tasks \ {to} : used'[u] = used[u]
  BY DEF TypeOK
<1>4. next[o] = Null
  BY DEF Good, Loose
<1>5. ASSUME NEW k \in ready, NEW s \in Orders
      PROVE  Reaches(next, {First(k, s)}, Cached(k, s))'
  <2>1. Cached(k, s)' = Cached(k, s)
    BY <1>1, <1>2 DEF Cached, Listed
  <2>2. Reaches(next, {First(k, s)}, Cached(k, s))
    BY DEF Chains
  <2> QED BY <2>1, <2>2 DEF First
<1>6. ASSUME NEW u \in Tasks, u # to PROVE Reaches(next, {used[u]} \ {Null}, Listed(u))'
  <2>1. Listed(u)' = Listed(u) /\ used'[u] = used[u]
    BY <1>1, <1>2, <1>3, <1>6 DEF Listed
  <2>2. Reaches(next, {used[u]} \ {Null}, Listed(u))
    BY DEF Chains
  <2> QED BY <2>1, <2>2
<1>7. Reaches(next, {used[to]} \ {Null}, Listed(to))'
  <2>1. Reaches(next, {used[to]} \ {Null}, Listed(to)) /\ {used[to]} \ {Null} = {}
    BY DEF Chains
  <2>2. Listed(to) = {}
    BY <2>1, ReachesNothing
  <2>3. Listed(to)' = {o} /\ {used'[to]} \ {Null} = {o}
    BY <1>2, <1>3, <2>2, NullAssumption DEF Listed
  <2>4. Reaches(next, {o}, {o})
    BY <1>4, ReachesOne
  <2> QED BY <2>3, <2>4
<1> QED BY <1>5, <1>6, <1>7 DEF Chains

\* What a call had in hand goes behind the end of a chain.
LEMMA AppendChains ==
  ASSUME TypeOK, Good, Chains, NEW o \in Objects, NEW to \in Tasks \cup {"cache"},
         NEW p \in Objects, list[o] = "call", next[p] = Null, list[p] = to,
         to = "cache" => p.core = o.core /\ p.order = o.order,
         next' = [next EXCEPT ![p] = o], used' = used,
         list' = [list EXCEPT ![o] = to], ready' = ready
  PROVE  Chains'
<1>1. to # "call" /\ \A u \in Tasks : u \notin {"cache", "call"}
  BY SlubAssumption
<1>2. list'[o] = to /\ \A x \in Objects \ {o} : list'[x] = list[x]
  BY DEF TypeOK
<1>3. /\ next[o] = Null /\ o # p /\ o # Null /\ next'[p] = o /\ next'[o] = Null
      /\ \A x \in Objects \ {p} : next'[x] = next[x]
  BY <1>1, NullAssumption DEF Good, Loose, TypeOK
\* A chain that ends with p has o as well, another one is what it was.
<1>4. ASSUME NEW R, NEW C \in SUBSET Objects, Reaches(next, R, C), o \notin C, p \in C
      PROVE  Reaches(next', R, C \cup {o})
  <2>1. \A x \in C \ {p} : next'[x] = next[x]
    BY <1>3
  <2>2. o # Null /\ next[p] = Null /\ next'[p] = o /\ next'[o] = Null
    BY <1>3
  <2> DEFINE f == next
  <2> DEFINE g == next'
  <2>3. /\ Reaches(f, R, C) /\ p \in C /\ o \notin C /\ o # Null /\ f[p] = Null
        /\ g[p] = o /\ g[o] = Null /\ \A x \in C \ {p} : g[x] = f[x]
    BY <1>4, <2>1, <2>2
  <2> HIDE DEF f, g
  <2>4. Reaches(g, R, C \cup {o})
    BY <2>3, ReachesAppend
  <2> QED BY <2>4 DEF g
<1>5. ASSUME NEW R, NEW C \in SUBSET Objects, Reaches(next, R, C), p \notin C
      PROVE  Reaches(next', R, C)
  <2>1. \A x \in C : next'[x] = next[x]
    BY <1>3, <1>5
  <2> QED BY <1>5, <2>1, ReachesSame
<1>6. ASSUME NEW k \in ready, NEW s \in Orders
      PROVE  Reaches(next, {First(k, s)}, Cached(k, s))'
  <2>1. Reaches(next, {First(k, s)}, Cached(k, s)) /\ First(k, s)' = First(k, s)
    BY DEF Chains, First
  <2>2. Cached(k, s) \in SUBSET Objects /\ o \notin Cached(k, s)
    BY DEF Cached, Listed
  <2>3. CASE p \in Cached(k, s)
    <3>1. Cached(k, s)' = Cached(k, s) \cup {o}
      BY <1>1, <1>2, <2>3 DEF Cached, Listed
    <3>2. Reaches(next', {First(k, s)}, Cached(k, s) \cup {o})
      BY <2>1, <2>2, <2>3, <1>4
    <3> QED BY <2>1, <3>1, <3>2
  <2>4. CASE p \notin Cached(k, s)
    <3>1. Cached(k, s)' = Cached(k, s)
      BY <1>1, <1>2, <2>4 DEF Cached, Listed
    <3>2. Reaches(next', {First(k, s)}, Cached(k, s))
      BY <2>1, <2>2, <2>4, <1>5
    <3> QED BY <2>1, <3>1, <3>2
  <2> QED BY <2>3, <2>4
<1>7. ASSUME NEW u \in Tasks PROVE Reaches(next, {used[u]} \ {Null}, Listed(u))'
  <2>1. Reaches(next, {used[u]} \ {Null}, Listed(u))
    BY DEF Chains
  <2>2. Listed(u) \in SUBSET Objects /\ o \notin Listed(u)
    BY <1>1 DEF Listed
  <2>3. CASE to = u
    <3>1. Listed(u)' = Listed(u) \cup {o} /\ p \in Listed(u)
      BY <1>1, <1>2, <2>3 DEF Listed
    <3>2. Reaches(next', {used[u]} \ {Null}, Listed(u) \cup {o})
      BY <2>1, <2>2, <3>1, <1>4
    <3> QED BY <3>1, <3>2
  <2>4. CASE to # u
    <3>1. Listed(u)' = Listed(u) /\ p \notin Listed(u)
      BY <1>1, <1>2, <2>4 DEF Listed
    <3>2. Reaches(next', {used[u]} \ {Null}, Listed(u))
      BY <2>1, <2>2, <3>1, <1>5
    <3> QED BY <3>1, <3>2
  <2> QED BY <2>3, <2>4
<1> QED BY <1>6, <1>7 DEF Chains

\* The end of a call loses nothing and adds to what callers hold what goes to a task.
LEMMA DeliversWhole ==
  ASSUME TypeOK, Shape, Good, Whole, NEW k \in Cores, NEW o \in Objects,
         NEW to \in Tasks \cup {"cache"}, Delivers(k, o, to)
  PROVE  Whole'
<1>1. /\ op[k].pc \in {"add", "give"} /\ op[k].obj = o /\ list[o] = "call"
      /\ list' = [list EXCEPT ![o] = to] /\ op' = [op EXCEPT ![k] = Idle] /\ ready' = ready
      /\ held' = (IF to = "cache" THEN held ELSE held \cup {o}) /\ Attached(k, o, to)
  BY DEF Delivers
<1>2. to # "call" /\ "call" \notin Tasks /\ "cache" \notin Tasks
  BY SlubAssumption
<1>3. list'[o] = to /\ \A x \in Objects \ {o} : list'[x] = list[x]
  BY <1>1 DEF TypeOK
<1>4. Idle.pc = "idle" /\ op'[k] = Idle /\ \A j \in Cores \ {k} : op'[j] = op[j]
  BY <1>1 DEF TypeOK, Idle
<1>5. CallsHold'
  <2>1. \A x \in Objects : list'[x] = "call" => list[x] = "call" /\ x # o
    BY <1>2, <1>3
  <2> QED BY <1>1, <2>1, CallsHoldStep DEF Whole
<1>6. Users'
  <2>1. \A j \in Cores, x \in Objects : Frees(j, x)' <=> Frees(j, x)
    BY <1>1, <1>4 DEF Frees
  <2>2. o \notin held /\ \A j \in Cores : ~ Frees(j, o)
    BY <1>1, <1>2 DEF Whole, Users
  <2>3. \A x \in Objects \ {o} : x \in held' <=> x \in held
    BY <1>1
  <2>4. o \in held' <=> to \in Tasks
    BY <1>1, <1>2, <2>2
  <2> QED BY <1>3, <2>1, <2>2, <2>3, <2>4 DEF Whole, Users
<1>7. CASE to \in Tasks /\ used[to] = Null /\ used' = [used EXCEPT ![to] = o] /\ next' = next
  <2>1. Chains'
    BY <1>1, <1>7, FirstChains DEF Whole
  <2>2. Ends(next)'
    BY <1>7 DEF Whole
  <2> QED BY <1>5, <1>6, <2>1, <2>2 DEF Whole
<1>8. ASSUME NEW p \in Objects, next[p] = Null, list[p] = to,
             to = "cache" => p.core = o.core /\ p.order = o.order,
             next' = [next EXCEPT ![p] = o], used' = used
      PROVE  Whole'
  <2>1. Chains'
    BY <1>1, <1>8, AppendChains DEF Whole
  <2>2. /\ Ends(next) /\ o # p /\ next'[o] = Null /\ next'[p] = o
        /\ \A x \in Objects \ {p, o} : next'[x] = next[x]
    BY <1>1, <1>2, <1>8 DEF Whole, Good, Loose, TypeOK
  <2>3. Ends(next')
    BY <2>2, EndsAppend, Zenon
  <2> QED BY <1>5, <1>6, <2>1, <2>3 DEF Whole
<1> QED BY <1>1, <1>7, <1>8 DEF Attached

\* The object that slub_free() looked for is taken out of its task's chain, and out of
\* nothing else.
LEMMA FoundWhole ==
  ASSUME TypeOK, Shape, Good, Whole, Sound', NEW k \in Cores, Found(k) PROVE Whole'
<1>0. op[k].pc = "seek" /\ op[k].prev \in Objects /\ op[k].addr \in Objects
  BY DEF Found, Shape
<1>p. PICK p \in Objects : p = op[k].prev
  BY <1>0
<1>a. PICK a \in Objects : a = op[k].addr
  BY <1>0
<1>t. PICK t \in Tasks : t = op[k].task
  BY DEF TypeOK, Calls
<1>1. Extract(k, p, t, a) /\ list[p] = t /\ UNCHANGED <<ready, used, held>>
  BY <1>0, <1>p, <1>a, <1>t DEF Found, Good, Pointers, Seeking
<1>2. next[p] # Null /\ next[p] # p /\ next[p] = a /\ a.core = k
  BY <1>1 DEF Extract, Reclaim, Sound, Or
<1> DEFINE c == [pc |-> "give", obj |-> a, prev |-> First(k, a.order),
                 task |-> t, addr |-> a]
<1>3. /\ next' = [next EXCEPT ![p] = next[a], ![a] = Null]
      /\ list' = [list EXCEPT ![a] = "call"] /\ op' = [op EXCEPT ![k] = c]
  BY <1>1, <1>2 DEF Extract, Reclaim
<1>4. c.pc = "give" /\ c.obj = a
  OBVIOUS
<1> HIDE DEF c
<1>5. op'[k] = c /\ \A j \in Cores \ {k} : op'[j] = op[j]
  BY <1>3 DEF TypeOK
<1>6. /\ \A x \in Objects \ {p, a} : next'[x] = next[x]
      /\ next'[p] = next[a] /\ next'[a] = Null
      /\ list'[a] = "call" /\ \A x \in Objects \ {a} : list'[x] = list[x]
  BY <1>2, <1>3 DEF TypeOK
<1>7. /\ list[a] = t /\ \A u \in Tasks : u \notin {"cache", "call"}
      /\ \A u \in Tasks : used[u] # a /\ \A x \in Objects : next[x] = a => x = p
  BY <1>1, <1>2, SlubAssumption DEF Good, Links
<1>8. ASSUME NEW j \in ready, NEW s \in Orders
      PROVE  Reaches(next, {First(j, s)}, Cached(j, s))'
  <2>1. Reaches(next, {First(j, s)}, Cached(j, s))
    BY DEF Whole, Chains
  <2>2. /\ Cached(j, s)' = Cached(j, s)
        /\ \A x \in Cached(j, s) : next'[x] = next[x]
    BY <1>1, <1>6, <1>7 DEF Cached, Listed
  <2>3. Reaches(next', {First(j, s)}, Cached(j, s))
    BY <2>1, <2>2, ReachesSame
  <2> QED BY <2>2, <2>3 DEF First
<1>9. ASSUME NEW u \in Tasks PROVE Reaches(next, {used[u]} \ {Null}, Listed(u))'
  <2> DEFINE R == {used[u]} \ {Null}
  <2> DEFINE C == Listed(u)
  <2>1. Reaches(next, R, C)
    BY DEF Whole, Chains
  <2>2. CASE u = t
    <3>1. p \in C /\ a \in C /\ C' = C \ {a}
      BY <1>1, <1>6, <1>7, <2>2 DEF Listed
    <3>2. /\ a \notin R /\ a # p /\ next[p] = a
          /\ \A x \in C : next[x] = a => x = p
          /\ \A x \in C \ {p, a} : next'[x] = next[x]
      BY <1>2, <1>6, <1>7 DEF Listed
    <3> HIDE DEF R, C
    <3>3. Reaches(next', R, C \ {a})
      BY <1>6, <2>1, <3>1, <3>2, ReachesCut
    <3> QED BY <1>1, <3>1, <3>3 DEF R, C
  <2>3. CASE u # t
    <3>1. C' = C /\ \A x \in C : next'[x] = next[x]
      BY <1>1, <1>6, <1>7, <2>3 DEF Listed
    <3> HIDE DEF R, C
    <3>2. Reaches(next', R, C)
      BY <2>1, <3>1, ReachesSame
    <3> QED BY <1>1, <3>1, <3>2 DEF R, C
  <2> QED BY <2>2, <2>3
<1>10. Chains'
  BY <1>1, <1>8, <1>9 DEF Chains
<1>11. CallsHold'
  <2>1. \A x \in Objects : list'[x] = "call" =>
          \/ c.pc \in {"add", "give"} /\ c.obj = x
          \/ list[x] = "call" /\ ~ (op[k].pc \in {"add", "give"} /\ op[k].obj = x)
    BY <1>0, <1>4, <1>6
  <2> QED BY <1>3, <2>1, CallsHoldStep DEF Whole
<1>12. Users'
  <2>1. Frees(k, a) /\ \A x \in Objects : Frees(k, x) => x = a
    BY <1>0, <1>a DEF Frees
  <2>2. \A x \in Objects : /\ ~ Frees(k, x)'
                          /\ \A j \in Cores \ {k} : Frees(j, x)' <=> Frees(j, x)
    BY <1>4, <1>5 DEF Frees
  <2>3. a \notin held /\ \A j \in Cores \ {k} : ~ Frees(j, a)
    BY <2>1 DEF Whole, Users
  <2>4. "call" \notin Tasks
    BY SlubAssumption
  <2>5. ASSUME NEW x \in Objects
        PROVE  /\ list'[x] \in Tasks <=> x \in held \/ \E j \in Cores : Frees(j, x)'
               /\ \A j \in Cores : Frees(j, x)' => x \notin held
               /\ \A i, j \in Cores : Frees(i, x)' /\ Frees(j, x)' => i = j
    <3>1. CASE x = a
      BY <1>6, <2>2, <2>3, <2>4, <3>1
    <3>2. CASE x # a
      <4>1. \A j \in Cores : Frees(j, x)' <=> Frees(j, x)
        BY <2>1, <2>2, <3>2
      <4> QED BY <1>6, <3>2, <4>1 DEF Whole, Users
    <3> QED BY <3>1, <3>2
  <2> QED BY <1>1, <2>5 DEF Users
<1>13. Ends(next)'
  <2>1. Ends(next)
    BY DEF Whole
  <2>2. Ends(next')
    BY <2>1, <1>2, <1>6, EndsCut, Zenon
  <2> QED BY <2>2
<1> QED BY <1>10, <1>11, <1>12, <1>13 DEF Whole

\* slub_free() begins to look for what a caller gave up.
LEMMA FreeWhole ==
  ASSUME TypeOK, Shape, Good, Whole, Sound', NEW k \in Cores, NEW o \in Objects, Free(k, o)
  PROVE  Whole'
<1>0. CurrTask(k) \in Tasks /\ used[CurrTask(k)] # Null
  <2>1. harm' \notin {"nobody", "missed"}
    BY DEF Sound
  <2>2. CurrTask(k) # Null /\ used[CurrTask(k)] # Null
    BY <2>1, NullAssumption DEF Free
  <2> QED BY <2>2, CurrTaskType
<1>1. PICK t \in Tasks : t = CurrTask(k) /\ used[t] # Null
  BY <1>0
\* The first object of a list is taken for its own parent, and what follows it goes.
<1>2. used[t] # o
  <2> SUFFICES ASSUME used[t] = o PROVE FALSE
    OBVIOUS
  <2>1. Extract(k, o, t, o)
    BY <1>1, SlubAssumption DEF Free
  <2>2. next[o] # Null /\ next[o] = o
    BY <2>1 DEF Extract, Reclaim, Sound, Or
  <2> QED BY <1>1, <2>2 DEF Good, Links
<1> DEFINE c == [pc |-> "seek", obj |-> next[used[t]], prev |-> used[t], task |-> t,
                 addr |-> o]
<1>3. /\ op' = [op EXCEPT ![k] = c] /\ op[k].pc = "idle" /\ o \in held
      /\ held' = held \ {o} /\ UNCHANGED <<ready, next, used, list>>
  BY <1>1, <1>2, SlubAssumption DEF Free, Sound
<1>4. c.pc = "seek" /\ c.addr = o
  OBVIOUS
<1> HIDE DEF c
<1>5. op'[k] = c /\ \A j \in Cores \ {k} : op'[j] = op[j]
  BY <1>3 DEF TypeOK
<1>6. CallsHold'
  BY <1>3, CallsHoldStep DEF Whole
<1>7. Users'
  <2>1. \A x \in Objects : /\ ~ Frees(k, x) /\ (Frees(k, x)' <=> x = o)
                          /\ \A j \in Cores \ {k} : Frees(j, x)' <=> Frees(j, x)
    BY <1>3, <1>4, <1>5 DEF Frees
  <2>2. \A j \in Cores : ~ Frees(j, o)
    BY <1>3 DEF Whole, Users
  <2>3. ASSUME NEW x \in Objects
        PROVE  /\ list[x] \in Tasks <=> x \in held' \/ \E j \in Cores : Frees(j, x)'
               /\ \A j \in Cores : Frees(j, x)' => x \notin held'
               /\ \A i, j \in Cores : Frees(i, x)' /\ Frees(j, x)' => i = j
    <3>1. CASE x = o
      BY <1>3, <2>1, <2>2, <3>1 DEF Whole, Users
    <3>2. CASE x # o
      <4>1. (\A j \in Cores : Frees(j, x)' <=> Frees(j, x)) /\ (x \in held' <=> x \in held)
        BY <1>3, <2>1, <3>2
      <4> QED BY <4>1 DEF Whole, Users
    <3> QED BY <3>1, <3>2
  <2> QED BY <1>3, <2>3 DEF Users
<1> QED BY <1>3, <1>6, <1>7, WholeStep

\* The caches of a core are chained before anything of them is handed out.
LEMMA MakeCachesWhole ==
  ASSUME TypeOK, Shape, Good, Whole, NEW k \in Cores, MakeCaches(k),
         UNCHANGED <<used, list, held>>, NEW c, op' = [op EXCEPT ![k] = c],
         op[k].pc = "idle", c.pc \in {"idle", "take"}
  PROVE  Whole'
<1>1. CallsHold'
  BY CallsHoldStep DEF Whole
<1>2. Users'
  BY UsersStep DEF Whole
<1>3. CASE k \in ready
  <2>1. UNCHANGED <<ready, next, used, list>>
    BY <1>3 DEF MakeCaches
  <2> QED BY <1>1, <1>2, <2>1, WholeStep
<1>4. CASE k \notin ready
  <2>1. ready' = ready \cup {k} /\ next' = Chained(k)
    BY <1>4 DEF MakeCaches
  <2>2. \A x \in Objects : x.core = k => list[x] = "cache"
    BY <1>4 DEF Good, Unused
  <2>3. \A x \in Objects : x.core # k => next'[x] = next[x]
    BY <2>1 DEF Chained
  <2>4. ASSUME NEW x \in Objects, x.core # k, next[x] # Null PROVE next[x].core # k
    <3>1. next[x] \in Objects
      BY <2>4 DEF TypeOK
    <3>2. list[next[x]] = list[x] /\ (list[x] = "cache" => next[x].core = x.core)
      BY <2>4 DEF Good, Links
    <3> QED BY <2>2, <2>4, <3>1, <3>2
  <2>5. ASSUME NEW j \in ready', NEW s \in Orders
        PROVE  Reaches(next, {First(j, s)}, Cached(j, s))'
    <3>1. Cached(j, s)' = Cached(j, s)
      BY DEF Cached, Listed
    <3>2. CASE j = k
      <4>1. Cached(k, s) = {o \in Objects : o.core = k /\ o.order = s}
        BY <2>2 DEF Cached, Listed
      <4>2. Reaches(Chained(k), {First(k, s)}, Cached(k, s))
        BY <4>1, ReachesChained
      <4> QED BY <2>1, <3>1, <3>2, <4>2 DEF First
    <3>3. CASE j # k
      <4>1. j \in ready
        BY <2>1, <3>3
      <4>2. Reaches(next, {First(j, s)}, Cached(j, s))
        BY <4>1 DEF Whole, Chains
      <4>3. \A x \in Cached(j, s) : next'[x] = next[x]
        BY <2>3, <3>3 DEF Cached, Listed
      <4>4. Reaches(next', {First(j, s)}, Cached(j, s))
        BY <4>2, <4>3, ReachesSame
      <4> QED BY <3>1, <4>4 DEF First
    <3> QED BY <3>2, <3>3
  <2>6. ASSUME NEW t \in Tasks PROVE Reaches(next, {used[t]} \ {Null}, Listed(t))'
    <3>1. Listed(t)' = Listed(t) /\ Reaches(next, {used[t]} \ {Null}, Listed(t))
      BY DEF Listed, Whole, Chains
    <3>2. \A x \in Listed(t) : next'[x] = next[x]
      BY <2>2, <2>3, SlubAssumption DEF Listed
    <3>3. Reaches(next', {used[t]} \ {Null}, Listed(t))
      BY <3>1, <3>2, ReachesSame
    <3> QED BY <3>1, <3>3
  <2>7. Chains'
    BY <2>5, <2>6 DEF Chains
  <2>8. Ends(next)'
    <3>1. \A x \in Objects : x.core # k => next'[x] = next[x] /\ (next'[x] # Null => next'[x].core # k)
      BY <2>3, <2>4
    <3>2. \A x \in Objects : x.core = k => next'[x] = Chained(k)[x]
      BY <2>1
    <3>3. Ends(next)
      BY DEF Whole
    <3>4. Ends(next')
      BY <3>1, <3>2, <3>3, EndsChained
    <3> QED BY <3>4
  <2> QED BY <1>1, <1>2, <2>7, <2>8 DEF Whole
<1> QED BY <1>3, <1>4

LEMMA AllocWhole ==
  ASSUME TypeOK, Shape, Good, Whole, NEW k \in Cores, Sound',
         AllocBeyond(k) \/ \E s \in Orders : Alloc(k, s)
  PROVE  Whole'
<1>1. CASE AllocBeyond(k)
  <2>1. /\ MakeCaches(k) /\ op' = op /\ UNCHANGED <<used, list, held>>
        /\ op[k].pc = "idle"
    BY <1>1 DEF AllocBeyond, Sound
  <2>2. op' = [op EXCEPT ![k] = op[k]] /\ op[k].pc \in {"idle", "take"}
    BY <2>1 DEF TypeOK
  <2> QED BY <2>1, <2>2, MakeCachesWhole
<1>2. ASSUME NEW s \in Orders, Alloc(k, s) PROVE Whole'
  <2> DEFINE c == [Idle EXCEPT !.pc = "take", !.obj = First(k, s), !.prev = First(k, s)]
  <2>1. /\ MakeCaches(k) /\ op' = [op EXCEPT ![k] = c] /\ UNCHANGED <<used, list, held>>
        /\ op[k].pc = "idle"
    BY <1>2 DEF Alloc, Sound
  <2>2. c.pc \in {"idle", "take"}
    BY DEF Idle
  <2> HIDE DEF c
  <2> QED BY <2>1, <2>2, MakeCachesWhole
<1> QED BY <1>1, <1>2

-----------------------------------------------------------------------------
(* The invariant *)

LEMMA InitWhole == Init => Whole
<1> SUFFICES ASSUME Init PROVE Whole
  OBVIOUS
<1>1. /\ ready = {} /\ held = {} /\ \A t \in Tasks : used[t] = Null
      /\ \A o \in Objects : list[o] = "cache" /\ next[o] = Null
      /\ \A k \in Cores : op[k].pc = "idle"
  BY DEF Init, Idle
<1>2. \A t \in Tasks : Listed(t) = {} /\ {used[t]} \ {Null} = {}
  BY <1>1, SlubAssumption DEF Listed
<1>3. Reaches(next, {}, {})
  BY DEF Reaches, Closed
<1>4. Chains
  BY <1>1, <1>2, <1>3 DEF Chains
<1>5. CallsHold /\ Users
  BY <1>1, SlubAssumption DEF CallsHold, Users, Frees
<1>6. Ends(next)
  BY <1>1, NullAssumption DEF Ends
<1> QED BY <1>4, <1>5, <1>6 DEF Whole

LEMMA StepWhole == WInv /\ [Next]_vars => WInv'
<1> SUFFICES ASSUME WInv, [Next]_vars PROVE WInv'
  OBVIOUS
<1>1. IInv'
  BY StepIInv DEF WInv
<1>2. ASSUME Sound' PROVE Whole'
  <2>1. TypeOK /\ Shape /\ Good /\ Whole
    BY <1>2, SoundBack DEF WInv, IInv
  <2> USE <1>2, <2>1
  <2>a. ASSUME UNCHANGED <<ready, next, used, op, list, held>> PROVE Whole'
    <3>1. CallsHold' /\ Users'
      BY <2>a DEF Whole, CallsHold, Users, Frees
    <3> QED BY <2>a, <3>1, WholeStep
  <2>2. CASE UNCHANGED vars
    BY <2>2, <2>a DEF vars
  <2>3. CASE FirstTask
    BY <2>3, <2>a DEF FirstTask
  <2>4. ASSUME NEW k \in Cores, Begin(k) PROVE Whole'
    <3>1. CASE Schedule(k)
      BY <3>1, <2>a DEF Schedule
    <3>2. CASE AllocBeyond(k) \/ \E s \in Orders : Alloc(k, s)
      BY <3>2, AllocWhole
    <3>3. ASSUME NEW o \in Objects, Free(k, o) PROVE Whole'
      BY <3>3, FreeWhole
    <3> QED BY <2>4, <3>1, <3>2, <3>3 DEF Begin
  <2>5. ASSUME NEW k \in Cores, Continue(k) PROVE Whole'
    <3>1. CASE WalkCache(k) \/ WalkUsed(k) \/ Seek(k) \/ WalkHome(k)
      BY <3>1, WalksWhole
    <3>2. CASE Unlink(k)
      BY <3>2, UnlinkWhole
    <3>3. CASE AddToTask(k)
      <4>1. PICK o \in Objects, to \in Tasks : Delivers(k, o, to)
        BY <3>3, AddToTaskDelivers
      <4> QED BY <4>1, DeliversWhole
    <3>4. CASE AddToCache(k)
      <4>1. PICK o \in Objects : Delivers(k, o, "cache")
        BY <3>4, AddToCacheDelivers
      <4> QED BY <4>1, DeliversWhole
    <3>5. CASE Found(k)
      BY <3>5, FoundWhole
    <3>6. CASE NotFound(k)
      BY <3>6 DEF NotFound, Sound
    <3> QED BY <2>5, <3>1, <3>2, <3>3, <3>4, <3>5, <3>6 DEF Continue
  <2> QED BY <2>2, <2>3, <2>4, <2>5 DEF Next
<1> QED BY <1>1, <1>2 DEF WInv

-----------------------------------------------------------------------------
(* The theorems *)

\* Whatever calls the cores make, every chain runs through all that is on its list, and
\* callers hold what is on the tasks' lists, until something of Harms happens.
THEOREM Wholeness == Spec => []WInv
<1>1. Init => WInv
  BY InitIInv, InitWhole DEF WInv
<1>2. WInv /\ [Next]_vars => WInv'
  BY StepWhole
<1> QED BY <1>1, <1>2, PTL DEF Spec

\* Until something of Harms happens nothing falls off a chain: what is not in the hands of
\* a call is found by the loop over the cache it is in, or over the list of the task that
\* has it.
THEOREM NoneLost == Spec => []NothingLost
<1>1. WInv => NothingLost
  <2> SUFFICES ASSUME TypeOK, Shape, Good, Whole
               PROVE  Chains /\ Listed("call") = InHand
    BY DEF WInv, IInv, NothingLost, Chains
  <2>1. ASSUME NEW o \in Objects, list[o] = "call" PROVE o \in InHand
    <3>1. PICK k \in Cores : op[k].pc \in {"add", "give"} /\ op[k].obj = o
      BY <2>1 DEF Whole, CallsHold
    <3> QED BY <3>1 DEF InHand
  <2>2. ASSUME NEW k \in Cores, op[k].pc \in {"add", "give"}
        PROVE  op[k].obj \in Objects /\ list[op[k].obj] = "call"
    BY <2>2 DEF Shape, Good, Pointers, Adding, Giving
  <2> QED BY <2>1, <2>2 DEF Whole, Listed, InHand
<1> QED BY <1>1, Wholeness, PTL

\* Until then what a caller holds is on a task's chain until it is freed, and what is freed
\* is not: no later slub_alloc() gives it away while it is in use.
THEOREM HeldKept == Spec => []HeldIsListed
<1>1. WInv => HeldIsListed
  <2> DEFINE freed == {op[k].addr : k \in {j \in Cores : op[j].pc = "seek"}}
  <2> DEFINE roots == {used[t] : t \in Tasks} \ {Null}
  <2> DEFINE U == {o \in Objects : list[o] \in Tasks}
  <2> SUFFICES ASSUME TypeOK, Shape, Good, Whole
               PROVE  Reaches(next, roots, held \cup freed)
    BY DEF WInv, IInv, HeldIsListed
  <2>1. held \cup freed = U
    <3>1. held \subseteq Objects /\ freed \subseteq Objects
      BY DEF TypeOK, Shape
    <3>2. \A o \in Objects : o \in freed <=> \E k \in Cores : Frees(k, o)
      BY DEF Frees
    <3> HIDE DEF freed
    <3> QED BY <3>1, <3>2 DEF Whole, Users
  <2>2. roots \subseteq U
    BY DEF Good, Begins, TypeOK
  <2>3. Closed(next, U)
    BY DEF Good, Links, TypeOK, Closed
  <2>4. ASSUME NEW S \in SUBSET U, roots \subseteq S, Closed(next, S) PROVE S = U
    <3> SUFFICES ASSUME NEW t \in Tasks PROVE Listed(t) \subseteq S
      BY DEF Listed
    <3>1. Reaches(next, {used[t]} \ {Null}, Listed(t))
      BY DEF Whole, Chains
    <3>2. {used[t]} \ {Null} \subseteq S \cap Listed(t)
      BY <2>4, <3>1 DEF Reaches
    <3>3. Closed(next, S \cap Listed(t))
      BY <2>4, <3>1 DEF Reaches, Closed
    <3>4. S \cap Listed(t) = Listed(t)
      BY <3>1, <3>2, <3>3 DEF Reaches
    <3> QED BY <3>4
  <2> HIDE DEF freed, roots, U
  <2>5. Reaches(next, roots, U)
    BY <2>2, <2>3, <2>4 DEF Reaches
  <2> QED BY <2>1, <2>5
<1> QED BY <1>1, Wholeness, PTL

\* Until then no loop over a chain is endless: in no set of objects does every next field
\* lead to the set again, whatever the numbers of cores and objects.
THEOREM WalksEnd == Spec => [](Sound => Ends(next))
<1>1. WInv => (Sound => Ends(next))
  BY DEF WInv, Whole
<1> QED BY <1>1, Wholeness, PTL

=============================================================================
