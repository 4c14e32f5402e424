---------------------------- MODULE ConsoleProofs ----------------------------
(***************************************************************************)
(* The safety of kprintf() for any set of cores.  The properties of        *)
(* Console are not inductive: what keeps a handler from spinning for its   *)
(* own thread is that the thread masks first (MaskKept) and that a handler *)
(* restores the mask it found (FlagsKept); what a thread restores is clear *)
(* but where it has lost what it read (FlagsTorn); what keeps two cores    *)
(* from storing 1 one after the other is that a reservation that stands    *)
(* has seen a free mutex (ReservedFree).                                   *)
(***************************************************************************)
EXTENDS Console, TLAPS

\* Outside its handler a core has no kprintf of the handler under way.
HandlerOut == \A c \in Cores : ~ handling[c] => pc[c]["handler"] = "out"

\* A handler's kprintf found the interrupts masked, as they are in a handler.
FlagsKept == \A c \in Cores : pc[c]["handler"] # "out" => flags[c]["handler"]

\* A thread's kprintf found them enabled, or has lost the flags, now or before.
FlagsTorn ==
  \A c \in Cores : pc[c]["thread"] # "out" /\ flags[c]["thread"] => c \in torn

\* A store-exclusive that is going to succeed stores over 0.
ReservedFree ==
  \A c \in Cores, l \in Levels : c \in reserved /\ pc[c][l] = "store" => mutex = 0

\* The part of the invariant about one core's interrupts, and the part about
\* the mutex the cores share.
Irq == NoSelfDeadlock /\ MaskKept /\ HandlerOut /\ FlagsKept /\ FlagsTorn

Lock == OneMessage /\ ReservedFree /\ NoLostWakeup

IInv == TypeOK /\ Irq /\ Lock

-----------------------------------------------------------------------------
(* At first no core is in kprintf and the mutex is free. *)
LEMMA InitIInv == Init => IInv
<1> SUFFICES ASSUME Init PROVE IInv
  OBVIOUS
<1> USE DEF Init, Levels
<1>1. TypeOK
  BY DEF TypeOK, Places
<1>2. Irq
  BY DEF Irq, NoSelfDeadlock, MaskKept, HandlerOut, FlagsKept, FlagsTorn
<1>3. Lock
  BY DEF Lock, OneMessage, Holding, ReservedFree, NoLostWakeup
<1> QED
  BY <1>1, <1>2, <1>3 DEF IInv

-----------------------------------------------------------------------------
(* Every step keeps the types. *)
LEMMA TypeStep == TypeOK /\ [Next]_vars => TypeOK'
<1> SUFFICES ASSUME TypeOK, [Next]_vars PROVE TypeOK'
  OBVIOUS
<1> USE DEF TypeOK, Goto, At, Level, Levels, Places
<1>1. CASE UNCHANGED vars
  BY <1>1 DEF vars
<1>2. ASSUME NEW c \in Cores, TakeInterrupt(c) PROVE TypeOK'
  BY <1>2 DEF TakeInterrupt
<1>3. ASSUME NEW c \in Cores, ReturnFromInterrupt(c) PROVE TypeOK'
  BY <1>3 DEF ReturnFromInterrupt, LosesFlags
<1>4. ASSUME NEW c \in Cores, ReadFlags(c) PROVE TypeOK'
  BY <1>4 DEF ReadFlags
<1>5. ASSUME NEW c \in Cores, SetMask(c) PROVE TypeOK'
  BY <1>5 DEF SetMask
<1>6. ASSUME NEW c \in Cores, LoadExclusive(c) PROVE TypeOK'
  BY <1>6 DEF LoadExclusive
<1>7. ASSUME NEW c \in Cores, StoreExclusive(c) PROVE TypeOK'
  <2>1. UNCHANGED <<event, handling, masked, flags, torn>>
    BY <1>7 DEF StoreExclusive
  <2>2. PICK place \in Places : pc' = [pc EXCEPT ![c][Level(c)] = place]
    BY <1>7 DEF StoreExclusive
  <2>3. pc' \in [Cores -> [Levels -> Places]]
    BY <2>2
  <2>4. mutex' \in {0, 1} /\ reserved' \subseteq Cores
    BY <1>7 DEF StoreExclusive
  <2> QED BY <2>1, <2>3, <2>4
<1>8. ASSUME NEW c \in Cores, WaitForEvent(c) PROVE TypeOK'
  BY <1>8 DEF WaitForEvent
<1>9. ASSUME NEW c \in Cores, PrintMessage(c) PROVE TypeOK'
  BY <1>9 DEF PrintMessage
<1>10. ASSUME NEW c \in Cores, StoreRelease(c) PROVE TypeOK'
  BY <1>10 DEF StoreRelease
<1>11. ASSUME NEW c \in Cores, SendEvent(c) PROVE TypeOK'
  BY <1>11 DEF SendEvent
<1>12. ASSUME NEW c \in Cores, RestoreFlags(c) PROVE TypeOK'
  BY <1>12 DEF RestoreFlags
<1> QED
  BY <1>1, <1>2, <1>3, <1>4, <1>5, <1>6, <1>7, <1>8, <1>9, <1>10, <1>11, <1>12
     DEF Next, Continue

(* The interrupt discipline needs nothing of the mutex. *)
LEMMA IrqStep == TypeOK /\ Irq /\ [Next]_vars => Irq'
<1> SUFFICES ASSUME TypeOK, Irq, [Next]_vars PROVE Irq'
  OBVIOUS
<1> USE DEF TypeOK, Irq, NoSelfDeadlock, MaskKept, HandlerOut, FlagsKept, FlagsTorn,
            Goto, At, Level, Levels, Places
<1>1. CASE UNCHANGED vars
  BY <1>1 DEF vars
<1>2. ASSUME NEW c \in Cores, TakeInterrupt(c) PROVE Irq'
  BY <1>2 DEF TakeInterrupt
<1>3. ASSUME NEW c \in Cores, ReturnFromInterrupt(c) PROVE Irq'
  BY <1>3 DEF ReturnFromInterrupt, LosesFlags
<1>4. ASSUME NEW c \in Cores, ReadFlags(c) PROVE Irq'
  BY <1>4 DEF ReadFlags
<1>5. ASSUME NEW c \in Cores, SetMask(c) PROVE Irq'
  BY <1>5 DEF SetMask
<1>6. ASSUME NEW c \in Cores, LoadExclusive(c) PROVE Irq'
  BY <1>6 DEF LoadExclusive
<1>7. ASSUME NEW c \in Cores, StoreExclusive(c) PROVE Irq'
  <2>1. UNCHANGED <<handling, masked, flags, torn>>
    BY <1>7 DEF StoreExclusive
  <2>2. PICK place \in {"print", "load"} : pc' = [pc EXCEPT ![c][Level(c)] = place]
    BY <1>7 DEF StoreExclusive
  <2>3. pc[c][Level(c)] = "store"
    BY <1>7 DEF StoreExclusive
  <2>4. \A d \in Cores, l \in Levels :
          \/ pc'[d][l] = pc[d][l]
          \/ pc[d][l] = "store" /\ pc'[d][l] = place
    BY <2>2, <2>3
  <2>5. NoSelfDeadlock'
    BY <2>1, <2>4
  <2>6. MaskKept'
    BY <2>1, <2>4
  <2>7. HandlerOut'
    BY <2>1, <2>4
  <2>8. FlagsKept'
    BY <2>1, <2>4
  <2>9. FlagsTorn'
    BY <2>1, <2>4
  <2> QED
    BY <2>5, <2>6, <2>7, <2>8, <2>9
<1>8. ASSUME NEW c \in Cores, WaitForEvent(c) PROVE Irq'
  BY <1>8 DEF WaitForEvent
<1>9. ASSUME NEW c \in Cores, PrintMessage(c) PROVE Irq'
  BY <1>9 DEF PrintMessage
<1>10. ASSUME NEW c \in Cores, StoreRelease(c) PROVE Irq'
  BY <1>10 DEF StoreRelease
<1>11. ASSUME NEW c \in Cores, SendEvent(c) PROVE Irq'
  BY <1>11 DEF SendEvent
<1>12. ASSUME NEW c \in Cores, RestoreFlags(c) PROVE Irq'
  BY <1>12 DEF RestoreFlags
<1> QED
  BY <1>1, <1>2, <1>3, <1>4, <1>5, <1>6, <1>7, <1>8, <1>9, <1>10, <1>11, <1>12
     DEF Next, Continue

(* The mutex needs the interrupt discipline where an action is read as one *)
(* of the thread or of the handler: the other of the two is then outside.  *)
LEMMA LockStep == TypeOK /\ Irq /\ Lock /\ [Next]_vars => Lock'
<1> SUFFICES ASSUME TypeOK, Irq, Lock, [Next]_vars PROVE Lock'
  OBVIOUS
<1> USE DEF TypeOK, Lock, OneMessage, Holding, ReservedFree, NoLostWakeup,
            Goto, At, Level, Levels, Places
<1>1. CASE UNCHANGED vars
  BY <1>1 DEF vars
<1>2. ASSUME NEW c \in Cores, TakeInterrupt(c) PROVE Lock'
  BY <1>2 DEF TakeInterrupt
<1>3. ASSUME NEW c \in Cores, ReturnFromInterrupt(c) PROVE Lock'
  BY <1>3 DEF ReturnFromInterrupt
<1>4. ASSUME NEW c \in Cores, ReadFlags(c) PROVE Lock'
  BY <1>4 DEF ReadFlags
<1>5. ASSUME NEW c \in Cores, SetMask(c) PROVE Lock'
  BY <1>5 DEF SetMask
<1>6. ASSUME NEW c \in Cores, LoadExclusive(c) PROVE Lock'
  BY <1>6 DEF LoadExclusive, Irq, NoSelfDeadlock, HandlerOut
<1>7. ASSUME NEW c \in Cores, StoreExclusive(c) PROVE Lock'
  \* the store over 0: nobody held the mutex
  <2>1. CASE c \in reserved
    <3>1. mutex = 0 /\ mutex' = 1 /\ reserved' = {}
      BY <1>7, <2>1 DEF StoreExclusive
    <3>2. \A d \in Cores, l \in Levels : ~ Holding(d, l)
      BY <3>1
    <3>3. pc' = [pc EXCEPT ![c][Level(c)] = "print"] /\ UNCHANGED event
      BY <1>7, <2>1 DEF StoreExclusive
    <3>4. OneMessage'
      BY <3>1, <3>2, <3>3
    <3> QED
      BY <3>1, <3>3, <3>4
  \* the store that fails: back to the load
  <2>2. CASE c \notin reserved
    <3>1. /\ pc' = [pc EXCEPT ![c][Level(c)] = "load"]
          /\ pc[c][Level(c)] = "store"
          /\ UNCHANGED <<mutex, reserved, event>>
      BY <1>7, <2>2 DEF StoreExclusive
    <3>2. \A d \in Cores, l \in Levels :
            \/ pc'[d][l] = pc[d][l]
            \/ pc'[d][l] = "load" /\ pc[d][l] = "store"
      BY <3>1
    <3> QED
      BY <3>1, <3>2
  <2> QED
    BY <2>1, <2>2
<1>8. ASSUME NEW c \in Cores, WaitForEvent(c) PROVE Lock'
  BY <1>8 DEF WaitForEvent, Irq, NoSelfDeadlock, HandlerOut
<1>9. ASSUME NEW c \in Cores, PrintMessage(c) PROVE Lock'
  BY <1>9 DEF PrintMessage
<1>10. ASSUME NEW c \in Cores, StoreRelease(c) PROVE Lock'
  BY <1>10 DEF StoreRelease
<1>11. ASSUME NEW c \in Cores, SendEvent(c) PROVE Lock'
  BY <1>11 DEF SendEvent
<1>12. ASSUME NEW c \in Cores, RestoreFlags(c) PROVE Lock'
  BY <1>12 DEF RestoreFlags
<1> QED
  BY <1>1, <1>2, <1>3, <1>4, <1>5, <1>6, <1>7, <1>8, <1>9, <1>10, <1>11, <1>12
     DEF Next, Continue

-----------------------------------------------------------------------------
(* kprintf() keeps its invariant, for any number of cores and however the  *)
(* instructions of the cores and their interrupts interleave.              *)
THEOREM Invariance == Spec => []IInv
<1>1. IInv /\ [Next]_vars => IInv'
  BY TypeStep, IrqStep, LockStep DEF IInv
<1> QED
  BY InitIInv, <1>1, PTL DEF Spec

(* The variables of the console have their types. *)
THEOREM TypeCorrect == Spec => []TypeOK
BY Invariance, PTL DEF IInv

(* One thread or handler of one core at a time is in vprintf(), print_mutex *)
(* being held exactly then.                                                 *)
THEOREM MutualExclusion == Spec => []OneMessage
BY Invariance, PTL DEF IInv, Lock

(* No interrupt handler spins for a print_mutex that the thread it has *)
(* preempted holds or is about to take.                                *)
THEOREM HandlerNeverSpins == Spec => []NoSelfDeadlock
BY Invariance, PTL DEF IInv, Irq

(* No core sleeps in wfe beside a free mutex with no event to wake it. *)
THEOREM WakeupsArrive == Spec => []NoLostWakeup
BY Invariance, PTL DEF IInv, Lock

(* Interrupts are masked from irq_save() to irq_restore() and in handlers, and   *)
(* a thread of a core that runs outside with them masked has lost its flags to   *)
(* an interrupt between the two instructions of irq_save().                      *)
THEOREM MaskRestored == Spec => []MaskKept
BY Invariance, PTL DEF IInv, Irq

-----------------------------------------------------------------------------
(* What of SomeonePrints is safety: the cores never all wait for each      *)
(* other, and one attempt at the mutex fails only because another one      *)
(* succeeds.  What is left to fairness is that each core goes on.          *)

Waiting == \E c \in Cores, l \in Levels : pc[c][l] \in {"load", "store", "sleep"}

\* The core has an instruction of kprintf to execute, and is not stopped at a wfe.
CanGoOn(c) == ~ At(c, "out") /\ (At(c, "sleep") => event[c])

(* Where a call is past irq_save, it is the one its core executes. *)
LEMMA PastMaskRuns ==
  ASSUME TypeOK, Irq, NEW c \in Cores, NEW l \in Levels, pc[c][l] \notin {"out", "mask"}
  PROVE  l = Level(c)
BY DEF TypeOK, Irq, NoSelfDeadlock, HandlerOut, Level, Levels

(* While a core waits for the mutex, some core can go on: the one that has it, *)
(* the one that is about to send the event, or one that waits.                 *)
THEOREM NeverAllAsleep == Spec => [](Waiting => \E c \in Cores : CanGoOn(c))
<1>1. IInv /\ Waiting => \E c \in Cores : CanGoOn(c)
  <2> SUFFICES ASSUME IInv, Waiting PROVE \E c \in Cores : CanGoOn(c)
    OBVIOUS
  <2>1. TypeOK /\ Irq /\ OneMessage /\ NoLostWakeup
    BY DEF IInv, Lock
  <2>2. ASSUME NEW c \in Cores, NEW l \in Levels,
               pc[c][l] \in {"load", "store", "print", "release", "send"}
        PROVE  CanGoOn(c)
    <3>1. l = Level(c)
      BY <2>1, <2>2, PastMaskRuns
    <3> QED BY <2>2, <3>1 DEF CanGoOn, At
  <2>3. PICK c \in Cores, l \in Levels : pc[c][l] \in {"load", "store", "sleep"}
    BY DEF Waiting
  <2>4. CASE pc[c][l] # "sleep"
    BY <2>2, <2>3, <2>4
  <2>5. CASE pc[c][l] = "sleep" /\ mutex = 0
    <3>1. l = Level(c)
      BY <2>1, <2>5, PastMaskRuns
    <3>2. event[c] => CanGoOn(c)
      BY <2>5, <3>1 DEF CanGoOn, At
    <3> QED BY <2>1, <2>2, <2>5, <3>2 DEF NoLostWakeup
  <2>6. CASE mutex = 1
    <3>1. PICK d \in Cores, k \in Levels : Holding(d, k)
      BY <2>1, <2>6 DEF OneMessage
    <3> QED BY <2>2, <3>1 DEF Holding
  <2> QED BY <2>1, <2>3, <2>4, <2>5, <2>6 DEF TypeOK
<1> QED BY <1>1, Invariance, PTL

\* A core that is at its store-exclusive, with the reservation standing, loses it
\* only to another that gets the mutex in this step.
LosesToAnother ==
  [][\A c \in Cores, l \in Levels :
       pc[c][l] = "store" /\ c \in reserved /\ pc'[c][l] = "store" /\ c \notin reserved'
         => \E d \in Cores \ {c}, k \in Levels : pc[d][k] = "store" /\ pc'[d][k] = "print"]_vars

(* No attempt at the mutex fails but for another's success. *)
THEOREM OneAttemptSucceeds == Spec => LosesToAnother
<1>1. ASSUME IInv, [Next]_vars, NEW c \in Cores, NEW l \in Levels,
             pc[c][l] = "store", c \in reserved, pc'[c][l] = "store", c \notin reserved'
      PROVE  \E d \in Cores \ {c}, k \in Levels : pc[d][k] = "store" /\ pc'[d][k] = "print"
  <2>1. /\ TypeOK /\ mutex = 0 /\ l = Level(c)
        /\ \A d \in Cores, k \in Levels : ~ Holding(d, k)
    <3>1. TypeOK /\ Irq /\ OneMessage /\ ReservedFree
      BY <1>1 DEF IInv, Lock
    <3>2. l = Level(c)
      BY <1>1, <3>1, PastMaskRuns
    <3>3. mutex = 0
      BY <1>1, <3>1 DEF ReservedFree
    <3>4. \A d \in Cores, k \in Levels : ~ Holding(d, k)
      BY <3>1, <3>3 DEF OneMessage
    <3> QED BY <3>1, <3>2, <3>3, <3>4
  <2>2. ASSUME NEW d \in Cores, StoreExclusive(d)
        PROVE  \E e \in Cores \ {c}, k \in Levels : pc[e][k] = "store" /\ pc'[e][k] = "print"
    <3>1. d \in reserved
      BY <1>1, <2>2 DEF StoreExclusive
    <3>2. Level(d) \in Levels /\ pc[d][Level(d)] = "store" /\ pc'[d][Level(d)] = "print"
      BY <2>1, <2>2, <3>1 DEF StoreExclusive, At, Goto, Level, Levels, TypeOK
    <3>3. d # c
      BY <1>1, <2>1, <3>2
    <3> QED BY <3>2, <3>3
  <2>3. ASSUME NEW d \in Cores, StoreRelease(d) PROVE FALSE
    <3>1. Level(d) \in Levels /\ pc[d][Level(d)] = "release"
      BY <2>3 DEF StoreRelease, At, Level, Levels
    <3> QED BY <2>1, <3>1 DEF Holding
  <2>4. ASSUME NEW d \in Cores, ReturnFromInterrupt(d) PROVE FALSE
    <3>1. d = c /\ pc[c][Level(c)] = "out"
      BY <1>1, <2>4 DEF ReturnFromInterrupt, At
    <3> QED BY <1>1, <2>1, <3>1
  <2>5. ASSUME NEW d \in Cores,
               \/ TakeInterrupt(d) \/ ReadFlags(d) \/ SetMask(d) \/ LoadExclusive(d)
               \/ WaitForEvent(d) \/ PrintMessage(d) \/ SendEvent(d) \/ RestoreFlags(d)
        PROVE  FALSE
    BY <1>1, <2>5
      DEF TakeInterrupt, ReadFlags, SetMask, LoadExclusive, WaitForEvent, PrintMessage,
          SendEvent, RestoreFlags
  <2>6. CASE UNCHANGED vars
    BY <1>1, <2>6 DEF vars
  <2> QED BY <1>1, <2>2, <2>3, <2>4, <2>5, <2>6 DEF Next, Continue
<1>2. IInv /\ [Next]_vars =>
        [\A c \in Cores, l \in Levels :
           pc[c][l] = "store" /\ c \in reserved /\ pc'[c][l] = "store" /\ c \notin reserved'
             => \E d \in Cores \ {c}, k \in Levels :
                  pc[d][k] = "store" /\ pc'[d][k] = "print"]_vars
  BY <1>1
<1> QED BY <1>2, Invariance, PTL DEF Spec, LosesToAnother

-----------------------------------------------------------------------------
(* The instructions implement a mutex that is acquired in one step. *)

Owners == {p \in Cores \X Levels : Holding(p[1], p[2])}

(* Whoever is in vprintf is the only owner. *)
LEMMA OnlyOwner ==
  ASSUME TypeOK, OneMessage, NEW c \in Cores, NEW l \in Levels, Holding(c, l)
  PROVE  Owners = {<<c, l>>}
BY DEF Owners, OneMessage

(* Steps that neither enter nor leave vprintf change no owner. *)
LEMMA OwnersKept ==
  ASSUME \A c \in Cores, l \in Levels : Holding(c, l)' <=> Holding(c, l)
  PROVE  UNCHANGED Owners
BY DEF Owners

(* What an instruction does to the places. *)
LEMMA GotoOnly ==
  ASSUME TypeOK, NEW c \in Cores, NEW place, Goto(c, place)
  PROVE  /\ Level(c) \in Levels
         /\ \A d \in Cores, l \in Levels :
              pc'[d][l] = IF d = c /\ l = Level(c) THEN place ELSE pc[d][l]
BY DEF TypeOK, Goto, Level, Levels

(* kprintf()'s use of print_mutex is that of a mutex which a thread or handler *)
(* acquires at once and alone, and which only it releases.                     *)
THEOREM AcquiresInOneStep == Spec => ImplementsMutex
<1>1. Init => OneStep!Init
  BY DEF Init, OneStep!Init, Holding, Levels
<1>2. IInv /\ IInv' /\ [Next]_vars => [OneStep!Next]_<<mutex, Owners>>
  <2> SUFFICES ASSUME IInv, IInv', [Next]_vars PROVE [OneStep!Next]_<<mutex, Owners>>
    OBVIOUS
  <2>1. TypeOK /\ OneMessage /\ OneMessage' /\ TypeOK' /\ ReservedFree
    BY DEF IInv, Lock
  <2>2. ASSUME NEW c \in Cores, StoreExclusive(c), c \in reserved
        PROVE  OneStep!Next
    <3>1. /\ At(c, "store") /\ Goto(c, "print") /\ mutex' = 1 /\ Level(c) \in Levels
      BY <2>1, <2>2, GotoOnly DEF StoreExclusive
    <3>2. mutex = 0
      BY <2>1, <2>2, <3>1 DEF ReservedFree, At
    <3>3. PICK l \in Levels : l = Level(c)
      BY <3>1
    <3>4. Owners' = {<<c, l>>}
      <4>1. Holding(c, l)'
        BY <2>1, <3>1, <3>3, GotoOnly DEF Holding
      <4> QED BY <2>1, <4>1 DEF Owners, OneMessage
    <3> QED BY <3>3, <3>1, <3>2, <3>4 DEF OneStep!Next, OneStep!Acquire, Owners
  <2>3. ASSUME NEW c \in Cores, StoreRelease(c)
        PROVE  OneStep!Next
    <3>1. /\ At(c, "release") /\ Goto(c, "send") /\ mutex' = 0 /\ Level(c) \in Levels
      BY <2>1, <2>3, GotoOnly DEF StoreRelease
    <3>2. Owners = {<<c, Level(c)>>}
      BY <2>1, <3>1, OnlyOwner DEF At, Holding
    <3>3. Owners' = {}
      BY <2>1, <3>1 DEF Owners, OneMessage
    <3> QED BY <3>1, <3>2, <3>3 DEF OneStep!Next, OneStep!Release, Owners
  <2>4. ASSUME NEW c \in Cores, NEW from, NEW to, At(c, from), Goto(c, to),
               from \in {"print", "release"} <=> to \in {"print", "release"}
        PROVE  UNCHANGED Owners
    BY <2>1, <2>4, GotoOnly, OwnersKept DEF Holding, At
  <2>5. ASSUME NEW c \in Cores, StoreExclusive(c), c \notin reserved
        PROVE  UNCHANGED <<mutex, Owners>>
    BY <2>4, <2>5 DEF StoreExclusive
  <2>6. ASSUME NEW c \in Cores, LoadExclusive(c)
        PROVE  UNCHANGED <<mutex, Owners>>
    BY <2>4, <2>6 DEF LoadExclusive
  <2>7. ASSUME NEW c \in Cores,
               \/ ReadFlags(c) \/ SetMask(c) \/ WaitForEvent(c)
               \/ PrintMessage(c) \/ SendEvent(c) \/ RestoreFlags(c)
        PROVE  UNCHANGED <<mutex, Owners>>
    BY <2>4, <2>7 DEF ReadFlags, SetMask, WaitForEvent, PrintMessage, SendEvent, RestoreFlags
  <2>8. ASSUME UNCHANGED <<mutex, pc>>
        PROVE  UNCHANGED <<mutex, Owners>>
    BY <2>8, OwnersKept DEF Holding
  <2>9. CASE \E c \in Cores : TakeInterrupt(c) \/ ReturnFromInterrupt(c)
    BY <2>8, <2>9 DEF TakeInterrupt, ReturnFromInterrupt
  <2> QED
    BY <2>2, <2>3, <2>5, <2>6, <2>7, <2>8, <2>9 DEF Next, Continue, vars
<1> QED BY <1>1, <1>2, Invariance, PTL DEF Spec, ImplementsMutex, OneStep!Spec, Owners

=============================================================================
