------------------------------ MODULE SmpProofs ------------------------------
(***************************************************************************)
(* The safety of the start and dispatch of remote cores, for any number of *)
(* cores and of dispatches.  The argument counts: Told(c), how often core  *)
(* 0 took m1 of c, against starts[c].  The two differ by at most one, and  *)
(* which way depends on where the core is and on whether m1 is taken       *)
(* (Balance).                                                              *)
(***************************************************************************)
EXTENDS Smp, TLAPS

\* How often core 0 took m1 of c: a function that is stored but not yet
\* announced does not count.
Told(c) ==
  IF master.core = c /\ master.at = "m1" THEN dispatched[c] - 1 ELSE dispatched[c]

Running == {"boot", "work", "release1", "lost"}

Parked == {"release0", "look", "sleep", "trigger"}

\* starts[c] against Told(c).  A running core has used up what it was told, an
\* early start has not been told anything yet; a parked core whose m1 is taken
\* has one run to come.
Balance(c) ==
  /\ pc[c] = "spin" => starts[c] = 0 /\ Told(c) = m1[c]
  /\ pc[c] \in Running /\ m1[c] = 0 => starts[c] = Told(c) + 1
  /\ pc[c] \in Running /\ m1[c] = 1 => starts[c] \in {Told(c), Told(c) + 1}
  /\ pc[c] \in Parked /\ m1[c] = 0 => starts[c] \in {Told(c), Told(c) + 1}
  /\ pc[c] \in Parked /\ m1[c] = 1 => starts[c] \in {Told(c) - 1, Told(c)}

\* The entry is written from the first dispatch on, and m1 is taken only later.
Entry(c) ==
  /\ exec_addr[c] = "none" <=> dispatched[c] = 0
  /\ m1[c] = 1 \/ (master.core = c /\ master.at = "m1") => dispatched[c] > 0
  /\ pc[c] = "trigger" => m1[c] = 1

\* A core in the firmware's loop that may leave it has its m0 taken.
Held(c) ==
  /\ pc[c] = "spin" /\ (dispatched[c] > 0 \/ (master.core = c /\ master.at = "store"))
       => m0[c] = 1
  /\ pc[c] \in {"boot", "work", "release1"} => m0[c] = 1 \/ m1[c] = 1

\* init_smp has not come to c.
Untouched(c) == pc[c] = "spin" /\ dispatched[c] = 0 /\ m1[c] = 0

Setup ==
  /\ master.at = "init" => master.fn = "jump_to_EL1" /\ Untouched(master.core)
  /\ master.at # "idle" /\ master.fn = "jump_to_EL1"
       => \A c \in Remotes : c > master.core => Untouched(c)

IInv ==
  /\ TypeOK
  /\ Setup
  /\ \A c \in Remotes : Balance(c) /\ Entry(c) /\ Held(c)

-----------------------------------------------------------------------------
(* At first every core is in the firmware's loop. *)
LEMMA InitIInv == Init => IInv
<1> SUFFICES ASSUME Init PROVE IInv
  OBVIOUS
<1> USE SmpAssumption DEF Init, Remotes
<1>1. TypeOK
  BY DEF TypeOK, Functions, Places
<1>2. Setup
  BY DEF Setup, Untouched
<1>3. \A c \in Remotes : Balance(c) /\ Entry(c) /\ Held(c)
  BY DEF Balance, Entry, Held, Told, Running, Parked
<1> QED
  BY <1>1, <1>2, <1>3 DEF IInv

(* Every step keeps the types. *)
LEMMA TypeStep == TypeOK /\ [Next]_vars => TypeOK'
<1> SUFFICES ASSUME TypeOK, [Next]_vars PROVE TypeOK'
  OBVIOUS
<1> USE SmpAssumption DEF TypeOK, Functions, Places
<1>1. CASE UNCHANGED vars
  BY <1>1 DEF vars
<1>2. CASE InitWorker
  BY <1>2 DEF InitWorker
<1>3. CASE AcquireM0
  BY <1>3 DEF AcquireM0
<1>4. CASE StoreFunction
  BY <1>4 DEF StoreFunction
<1>5. CASE AcquireM1
  BY <1>5 DEF AcquireM1
<1>6. CASE SendEvent
  <2>1. CASE master.fn = "jump_to_EL1" /\ master.core < MAX_REMOTE_CORE_ID
    <3>1. master.core + 1 \in Remotes
      BY <2>1 DEF Remotes
    <3>2. master' = [master EXCEPT !.at = "init", !.core = @ + 1]
      BY <1>6, <2>1 DEF SendEvent
    <3>3. master' \in [at : {"init", "m0", "store", "m1", "sev", "idle"},
                       core : Remotes, fn : Functions]
      BY <3>1, <3>2
    <3> QED
      BY <1>6, <3>3 DEF SendEvent
  <2>2. CASE ~ (master.fn = "jump_to_EL1" /\ master.core < MAX_REMOTE_CORE_ID)
    <3>1. master' = [master EXCEPT !.at = "idle"]
      BY <1>6, <2>2 DEF SendEvent
    <3> QED
      BY <1>6, <3>1 DEF SendEvent
  <2> QED
    BY <2>1, <2>2
<1>7. ASSUME NEW c \in Remotes, RunCore(c) PROVE TypeOK'
  BY <1>7 DEF RunCore
<1>8. ASSUME NEW c \in Remotes, StrayEvent(c) PROVE TypeOK'
  BY <1>8 DEF StrayEvent
<1>9. ASSUME NEW c \in Remotes, FirmwareJump(c) PROVE TypeOK'
  BY <1>9 DEF FirmwareJump
<1>10. ASSUME NEW c \in Remotes, Boot(c) PROVE TypeOK'
  BY <1>10 DEF Boot
<1>11. ASSUME NEW c \in Remotes, Work(c) PROVE TypeOK'
  BY <1>11 DEF Work
<1>12. ASSUME NEW c \in Remotes, ReleaseM1(c) PROVE TypeOK'
  BY <1>12 DEF ReleaseM1
<1>13. ASSUME NEW c \in Remotes, ReleaseM0(c) PROVE TypeOK'
  BY <1>13 DEF ReleaseM0
<1>14. ASSUME NEW c \in Remotes, Look(c) PROVE TypeOK'
  BY <1>14 DEF Look
<1>15. ASSUME NEW c \in Remotes, WaitForEvent(c) PROVE TypeOK'
  BY <1>15 DEF WaitForEvent
<1>16. ASSUME NEW c \in Remotes, Trigger(c) PROVE TypeOK'
  BY <1>16 DEF Trigger
<1> QED
  BY <1>1, <1>2, <1>3, <1>4, <1>5, <1>6, <1>7, <1>8, <1>9, <1>10, <1>11, <1>12,
     <1>13, <1>14, <1>15, <1>16 DEF Next, Master, Remote

(* A core that starts once more had one start outstanding. *)
LEMMA TriggerBalance ==
  ASSUME NEW c \in Remotes, TypeOK, Balance(c), Entry(c), Trigger(c)
  PROVE  Balance(c)'
<1>1. starts[c] \in Nat /\ dispatched[c] \in Nat /\ pc \in [Remotes -> Places]
  BY DEF TypeOK
<1>2. Told(c) \in Int /\ Told(c)' = Told(c)
  BY <1>1 DEF Told, Trigger
<1>3. PICK place \in {"work", "boot"} : pc' = [pc EXCEPT ![c] = place]
  BY DEF Trigger
<1>4. pc'[c] = place /\ starts'[c] = starts[c] + 1 /\ m1[c] = 1 /\ m1'[c] = 1
  BY <1>1, <1>3 DEF Trigger, TypeOK, Entry
<1>5. starts[c] \in {Told(c) - 1, Told(c)}
  BY <1>4 DEF Balance, Parked, Trigger
<1> QED
  BY <1>1, <1>2, <1>3, <1>4, <1>5 DEF Balance, Running, Parked

(* Every step keeps the rest of the invariant. *)
LEMMA Step ==
  ASSUME IInv, TypeOK', [Next]_vars
  PROVE  Setup' /\ \A d \in Remotes : Balance(d)' /\ Entry(d)' /\ Held(d)'
<1> DEFINE Goal == Setup' /\ \A d \in Remotes : Balance(d)' /\ Entry(d)' /\ Held(d)'
<1> USE SmpAssumption DEF IInv, TypeOK, Functions, Places, Remotes, Setup, Untouched,
        Balance, Entry, Held, Told, Running, Parked
<1>1. CASE UNCHANGED vars
  BY <1>1 DEF vars
<1>2. CASE InitWorker
  BY <1>2 DEF InitWorker
<1>3. CASE AcquireM0
  BY <1>3 DEF AcquireM0
<1>4. CASE StoreFunction
  BY <1>4 DEF StoreFunction
<1>5. CASE AcquireM1
  <2>1. Setup'
    BY <1>5 DEF AcquireM1
  <2>2. \A d \in Remotes : Balance(d)'
    BY <1>5 DEF AcquireM1
  <2>3. \A d \in Remotes : Entry(d)'
    BY <1>5 DEF AcquireM1
  <2>4. \A d \in Remotes : Held(d)'
    <3> HIDE DEF Setup, Balance, Entry
    <3> SUFFICES ASSUME NEW d \in Remotes PROVE Held(d)'
      OBVIOUS
    <3>1. Held(d) /\ UNCHANGED <<pc, m0, dispatched>>
      BY <1>5 DEF AcquireM1
    <3>2. m1[d] = 1 => m1'[d] = 1
      BY <1>5 DEF AcquireM1
    <3>3. master.at = "m1" /\ master'.at = "sev"
      BY <1>5 DEF AcquireM1
    <3> QED BY <3>1, <3>2, <3>3
  <2> HIDE DEF Setup, Balance, Entry, Held
  <2> QED BY <2>1, <2>2, <2>3, <2>4
<1>6. CASE SendEvent
  BY <1>6 DEF SendEvent
<1>7. ASSUME NEW c \in Remotes, RunCore(c) PROVE Goal
  BY <1>7 DEF RunCore
<1>8. ASSUME NEW c \in Remotes, StrayEvent(c) PROVE Goal
  BY <1>8 DEF StrayEvent
<1>9. ASSUME NEW c \in Remotes, FirmwareJump(c) PROVE Goal
  <2>1. CASE exec_addr[c] = "none"
    BY <1>9, <2>1 DEF FirmwareJump
  <2>2. CASE exec_addr[c] # "none"
    <3>1. /\ pc[c] = "spin" /\ pc' = [pc EXCEPT ![c] = "boot"]
          /\ starts' = [starts EXCEPT ![c] = @ + 1]
          /\ UNCHANGED <<master, m0, m1, exec_addr, dispatched>>
      BY <1>9, <2>2 DEF FirmwareJump
    <3> QED
      BY <3>1, <2>2
  <2> QED
    BY <2>1, <2>2
<1>10. ASSUME NEW c \in Remotes, Boot(c) PROVE Goal
  <2>1. PICK place \in {"release1", "lost"} : pc' = [pc EXCEPT ![c] = place]
    BY <1>10 DEF Boot
  <2>2. pc[c] = "boot" /\ UNCHANGED <<master, m0, m1, exec_addr, starts, dispatched>>
    BY <1>10 DEF Boot
  <2> QED
    BY <2>1, <2>2
<1>11. ASSUME NEW c \in Remotes, Work(c) PROVE Goal
  BY <1>11 DEF Work
<1>12. ASSUME NEW c \in Remotes, ReleaseM1(c) PROVE Goal
  BY <1>12 DEF ReleaseM1
<1>13. ASSUME NEW c \in Remotes, ReleaseM0(c) PROVE Goal
  BY <1>13 DEF ReleaseM0
<1>14. ASSUME NEW c \in Remotes, Look(c) PROVE Goal
  BY <1>14 DEF Look
<1>15. ASSUME NEW c \in Remotes, WaitForEvent(c) PROVE Goal
  BY <1>15 DEF WaitForEvent
<1>16. ASSUME NEW c \in Remotes, Trigger(c) PROVE Goal
  <2>1. PICK place \in {"work", "boot"} : pc' = [pc EXCEPT ![c] = place]
    BY <1>16 DEF Trigger
  <2>2. /\ pc[c] = "trigger" /\ starts' = [starts EXCEPT ![c] = @ + 1]
        /\ UNCHANGED <<master, m0, m1, exec_addr, dispatched>>
    BY <1>16 DEF Trigger
  <2>3. Setup'
    BY <2>1, <2>2
  <2>4. ASSUME NEW d \in Remotes, d # c PROVE Balance(d)' /\ Entry(d)' /\ Held(d)'
    BY <2>1, <2>2, <2>4
  <2>5. Balance(c)'
    <3> HIDE DEF Balance, Held, Setup
    <3> QED
      BY <1>16, TriggerBalance
  <2>6. Entry(c)' /\ Held(c)'
    BY <2>1, <2>2
  <2> HIDE DEF IInv, TypeOK, Setup, Balance, Entry, Held
  <2> QED
    BY <2>3, <2>4, <2>5, <2>6
<1> HIDE DEF Goal
<1>17. Goal
  BY <1>1, <1>2, <1>3, <1>4, <1>5, <1>6, <1>7, <1>8, <1>9, <1>10, <1>11, <1>12,
     <1>13, <1>14, <1>15, <1>16 DEF Next, Master, Remote, Goal
<1> QED
  BY <1>17 DEF Goal

-----------------------------------------------------------------------------
(* smp.c keeps its invariant, for any number of cores and of dispatches. *)
THEOREM Invariance == Spec => []IInv
<1>1. IInv /\ [Next]_vars => IInv'
  BY TypeStep, Step DEF IInv
<1> QED
  BY InitIInv, <1>1, PTL DEF Spec

(* The variables have their types; in particular a mutex is 0 or 1. *)
THEOREM TypeCorrect == Spec => []TypeOK
BY Invariance, PTL DEF IInv

(* A remote core runs at most once more than core 0 told it to. *)
THEOREM OneExtraAtMost == Spec => []AtMostOneExtra
<1>1. IInv => AtMostOneExtra
  <2> SUFFICES ASSUME IInv, NEW c \in Remotes PROVE starts[c] <= dispatched[c] + 1
    BY DEF AtMostOneExtra
  <2>1. starts[c] \in Int /\ dispatched[c] \in Int /\ m1[c] \in {0, 1} /\ pc[c] \in Places
    BY DEF IInv, TypeOK
  <2>2. Told(c) <= dispatched[c] /\ Told(c) \in Int
    BY <2>1 DEF Told
  <2>3. starts[c] <= Told(c) + 1
    BY <2>1, <2>2 DEF IInv, Balance, Places, Running, Parked, Told
  <2> QED
    BY <2>1, <2>2, <2>3
<1> QED
  BY Invariance, <1>1, PTL

(* A parked core that nothing announces a run to has run as often as told. *)
THEOREM NoDispatchMissed == Spec => []NoneMissed
<1>1. IInv => NoneMissed
  BY DEF IInv, NoneMissed, Balance, Told, TypeOK, Dispatching, Parked
<1> QED
  BY Invariance, <1>1, PTL

(* A core that leaves its loop finds a function and has a mutex taken. *)
THEOREM EntryIsReady == Spec => []EntryReady
<1>1. IInv => EntryReady
  BY DEF IInv, EntryReady, Entry, Held, TypeOK
<1> QED
  BY Invariance, <1>1, PTL

-----------------------------------------------------------------------------
(* What of MasterReturns is safety: core 0 never waits for a core that     *)
(* waits for core 0.                                                       *)

\* Core 0 is in acquire_mutex for c and finds the mutex taken.
Blocked(c) ==
  /\ master.core = c
  /\ \/ master.at = "m0" /\ m0[c] = 1
     \/ master.at = "m1" /\ m1[c] = 1

\* The core gets to its releases without anything more from core 0.
OnItsWay(c) ==
  \/ pc[c] \in {"boot", "work", "release1", "release0", "trigger"}
  \/ pc[c] = "look" /\ m1[c] = 1
  \/ pc[c] = "sleep" /\ m1[c] = 1 /\ event[c]
  \/ pc[c] = "spin" /\ exec_addr[c] # "none" /\ event[c]

NoMutualWait == \A c \in Remotes : Blocked(c) => OnItsWay(c) \/ pc[c] = "lost"

\* A taken m0 that is not about to be used is one the core still has to release.
ToRelease(c) ==
  m0[c] = 1 /\ ~ (master.core = c /\ master.at \in {"store", "m1"}) =>
    \/ pc[c] \in {"boot", "work", "release1", "release0", "lost"}
    \/ pc[c] = "spin" /\ exec_addr[c] # "none"
    \/ pc[c] \in {"look", "sleep", "trigger"} /\ m1[c] = 1

\* A core that has been told sleeps no longer than to the next sev.
Woken(c) ==
  pc[c] \in {"sleep", "spin"} /\ m1[c] = 1 =>
    event[c] \/ (master.core = c /\ master.at = "sev")

Progress == \A c \in Remotes : ToRelease(c) /\ Woken(c)

(* Every step keeps the releases to come and the wake-ups. *)
LEMMA ProgressStep ==
  ASSUME IInv, IInv', Progress, [Next]_vars
  PROVE  Progress'
<1> USE SmpAssumption DEF IInv, TypeOK, Functions, Places, Remotes, Entry, Progress,
        ToRelease, Woken
<1>1. CASE UNCHANGED vars
  BY <1>1 DEF vars
<1>2. CASE InitWorker
  BY <1>2 DEF InitWorker
<1>3. CASE AcquireM0
  BY <1>3 DEF AcquireM0
<1>4. CASE StoreFunction
  BY <1>4 DEF StoreFunction
<1>5. CASE AcquireM1
  BY <1>5 DEF AcquireM1
<1>6. CASE SendEvent
  BY <1>6 DEF SendEvent
<1>7. ASSUME NEW c \in Remotes, RunCore(c) PROVE Progress'
  BY <1>7 DEF RunCore
<1>8. ASSUME NEW c \in Remotes, StrayEvent(c) PROVE Progress'
  BY <1>8 DEF StrayEvent
<1>9. ASSUME NEW c \in Remotes, FirmwareJump(c) PROVE Progress'
  <2>1. CASE exec_addr[c] = "none"
    <3>1. /\ event' = [event EXCEPT ![c] = FALSE]
          /\ UNCHANGED <<master, pc, m0, m1, exec_addr>>
      BY <1>9, <2>1 DEF FirmwareJump
    <3>2. m1[c] = 0
      <4>1. Entry(c) /\ dispatched[c] \in Nat /\ m1[c] \in {0, 1}
        OBVIOUS
      <4> HIDE DEF IInv, TypeOK, Progress
      <4> QED BY <2>1, <4>1
    <3>3. ASSUME NEW d \in Remotes PROVE ToRelease(d)' /\ Woken(d)'
      <4>1. ToRelease(d) /\ Woken(d) /\ event'[d] = IF d = c THEN FALSE ELSE event[d]
        BY <3>1
      <4> HIDE DEF IInv, TypeOK, Progress
      <4> QED BY <3>1, <3>2, <4>1
    <3> HIDE DEF IInv, TypeOK, ToRelease, Woken
    <3> QED BY <3>3
  <2>2. CASE exec_addr[c] # "none"
    <3>1. /\ pc' = [pc EXCEPT ![c] = "boot"] /\ event' = [event EXCEPT ![c] = FALSE]
          /\ UNCHANGED <<master, m0, m1, exec_addr>>
      BY <1>9, <2>2 DEF FirmwareJump
    <3> QED BY <3>1
  <2> QED BY <2>1, <2>2
<1>10. ASSUME NEW c \in Remotes, Boot(c) PROVE Progress'
  <2>1. PICK p \in {"release1", "lost"} : pc' = [pc EXCEPT ![c] = p]
    BY <1>10 DEF Boot
  <2>2. UNCHANGED <<master, m0, m1, exec_addr, event>>
    BY <1>10 DEF Boot
  <2> QED BY <2>1, <2>2
<1>11. ASSUME NEW c \in Remotes, Work(c) PROVE Progress'
  BY <1>11 DEF Work
<1>12. ASSUME NEW c \in Remotes, ReleaseM1(c) PROVE Progress'
  BY <1>12 DEF ReleaseM1
<1>13. ASSUME NEW c \in Remotes, ReleaseM0(c) PROVE Progress'
  BY <1>13 DEF ReleaseM0
<1>14. ASSUME NEW c \in Remotes, Look(c) PROVE Progress'
  BY <1>14 DEF Look
<1>15. ASSUME NEW c \in Remotes, WaitForEvent(c) PROVE Progress'
  BY <1>15 DEF WaitForEvent
<1>16. ASSUME NEW c \in Remotes, Trigger(c) PROVE Progress'
  <2>1. PICK p \in {"work", "boot"} : pc' = [pc EXCEPT ![c] = p]
    BY <1>16 DEF Trigger
  <2>2. UNCHANGED <<master, m0, m1, exec_addr, event>>
    BY <1>16 DEF Trigger
  <2> QED BY <2>1, <2>2
<1> QED
  BY <1>1, <1>2, <1>3, <1>4, <1>5, <1>6, <1>7, <1>8, <1>9, <1>10, <1>11, <1>12,
     <1>13, <1>14, <1>15, <1>16 DEF Next, Master, Remote

(* While core 0 waits for a mutex of a core, that core is on its way to give *)
(* it back, or is lost: neither sleeps for a word from the other.            *)
THEOREM NeitherWaits == Spec => []NoMutualWait
<1>1. Init => Progress
  BY DEF Init, Progress, ToRelease, Woken
<1>2. IInv /\ IInv' /\ Progress /\ [Next]_vars => Progress'
  BY ProgressStep
<1>3. IInv /\ Progress => NoMutualWait
  <2> SUFFICES ASSUME IInv, Progress, NEW c \in Remotes, Blocked(c)
               PROVE  OnItsWay(c) \/ pc[c] = "lost"
    BY DEF NoMutualWait
  <2>1. /\ TypeOK /\ Entry(c) /\ ToRelease(c) /\ Woken(c)
        /\ pc[c] \in Places /\ m0[c] \in {0, 1} /\ m1[c] \in {0, 1}
    BY DEF IInv, Progress, TypeOK
  <2>2. CASE master.at = "m0" /\ m0[c] = 1
    <3>1. pc[c] = "spin" /\ exec_addr[c] # "none" => m1[c] = 1
      <4>1. dispatched[c] \in Nat /\ Told(c) = dispatched[c] /\ Balance(c)
        BY <2>1, <2>2 DEF TypeOK, Told, IInv
      <4> QED BY <2>1, <4>1 DEF Entry, Balance
    <3> QED BY <2>1, <2>2, <3>1 DEF ToRelease, Woken, OnItsWay
  <2>3. CASE master.at = "m1" /\ m1[c] = 1
    BY <2>1, <2>3 DEF Woken, OnItsWay, Entry, Places, TypeOK
  <2> QED BY <2>2, <2>3 DEF Blocked
<1> QED BY <1>1, <1>2, <1>3, Invariance, PTL DEF Spec

=============================================================================
