--------------------------------- MODULE Smp ---------------------------------
(***************************************************************************)
(* Starting the remote cores and dispatching work to them, src/smp.c.      *)
(*                                                                         *)
(* Core 0 gives a core a function to run by storing its address in the     *)
(* core's entry of the firmware's spin table.  Two mutexes per core keep   *)
(* the entry: core 0 takes both, the core gives both back when it parks.   *)
(* A parked core watches the second one and, when it is taken, calls what  *)
(* the entry holds.  The firmware's spin loop, which makes the first jump, *)
(* and the event register are external.                                    *)
(*                                                                         *)
(* acquire_mutex is one step here, waiting until the mutex is free:        *)
(* Console has its instructions.                                           *)
(***************************************************************************)
EXTENDS Integers

CONSTANTS
  MAX_REMOTE_CORE_ID,
  MaxDispatches        \* bound: how often one core is given a function

ASSUME SmpAssumption ==
  /\ MAX_REMOTE_CORE_ID \in Nat \ {0}
  /\ MaxDispatches \in Nat \ {0}

Remotes == 1 .. MAX_REMOTE_CORE_ID

Functions == {"jump_to_EL1", "worker_process"}

VARIABLES
  master,      \* core 0: at which instruction, for which core, with what function
  pc,          \* pc[c]: where the remote core is
  m0, m1,      \* mutex[0] and mutex[1] of the core's struct worker
  exec_addr,   \* exec_addr[c]: the spin-table entry of c
  event,       \* event[c]: the event register that wfe waits for
  dispatched,  \* history: how often a function was stored for c
  starts       \* history: how often c began to run one

vars == <<master, pc, m0, m1, exec_addr, event, dispatched, starts>>

\* spin      firmware loop           boot, work   running what it was given
\* release1, release0  giving back m1, m0 in __park_and_wait
\* look      at READ_ONCE(*m1)       sleep        at wfe
\* trigger   at the load of the entry
\* lost      ran jump_to_EL1 at EL1 and went astray
Places == {"spin", "boot", "work", "release1", "release0", "look", "sleep", "trigger", "lost"}

Init ==
  /\ master = [at |-> "init", core |-> 1, fn |-> "jump_to_EL1"]
  /\ pc = [c \in Remotes |-> "spin"]
  /\ m0 = [c \in Remotes |-> 0]
  /\ m1 = [c \in Remotes |-> 0]
  /\ exec_addr = [c \in Remotes |-> "none"]
  /\ event = [c \in Remotes |-> FALSE]
  /\ dispatched = [c \in Remotes |-> 0]
  /\ starts = [c \in Remotes |-> 0]

-----------------------------------------------------------------------------
(* Core 0 *)

\* __init_worker(core, 0), called by init_smp
InitWorker ==
  /\ master.at = "init"
  /\ master' = [master EXCEPT !.at = "m0"]
  /\ m0' = [m0 EXCEPT ![master.core] = 0]
  /\ m1' = [m1 EXCEPT ![master.core] = 0]
  /\ UNCHANGED <<pc, exec_addr, event, dispatched, starts>>

\* __run_core(c)
RunCore(c) ==
  /\ master.at = "idle"
  /\ dispatched[c] < MaxDispatches
  /\ master' = [at |-> "m0", core |-> c, fn |-> "worker_process"]
  /\ UNCHANGED <<pc, m0, m1, exec_addr, event, dispatched, starts>>

\* The rest is the same in __setup_core and __run_core.

\* Mutant: the entry is stored without the first mutex.
AcquireM0_Skipped ==
  /\ master.at = "m0"
  /\ master' = [master EXCEPT !.at = "store"]
  /\ UNCHANGED <<pc, m0, m1, exec_addr, event, dispatched, starts>>

AcquireM0 ==
  /\ master.at = "m0"
  /\ m0[master.core] = 0
  /\ m0' = [m0 EXCEPT ![master.core] = 1]
  /\ master' = [master EXCEPT !.at = "store"]
  /\ UNCHANGED <<pc, m1, exec_addr, event, dispatched, starts>>

StoreFunction ==
  /\ master.at = "store"
  /\ exec_addr' = [exec_addr EXCEPT ![master.core] = master.fn]
  /\ dispatched' = [dispatched EXCEPT ![master.core] = @ + 1]
  /\ master' = [master EXCEPT !.at = "m1"]
  /\ UNCHANGED <<pc, m0, m1, event, starts>>

\* Mutant: the core is not told.
AcquireM1_Skipped ==
  /\ master.at = "m1"
  /\ master' = [master EXCEPT !.at = "sev"]
  /\ UNCHANGED <<pc, m0, m1, exec_addr, event, dispatched, starts>>

AcquireM1 ==
  /\ master.at = "m1"
  /\ m1[master.core] = 0
  /\ m1' = [m1 EXCEPT ![master.core] = 1]
  /\ master' = [master EXCEPT !.at = "sev"]
  /\ UNCHANGED <<pc, m0, exec_addr, event, dispatched, starts>>

\* Mutant: no sev.
SendEvent_Missing ==
  /\ master.at = "sev"
  /\ master' = IF master.fn = "jump_to_EL1" /\ master.core < MAX_REMOTE_CORE_ID
               THEN [master EXCEPT !.at = "init", !.core = @ + 1]
               ELSE [master EXCEPT !.at = "idle"]
  /\ UNCHANGED <<pc, m0, m1, exec_addr, event, dispatched, starts>>

\* sev wakes every core; init_smp goes on with the next core.
SendEvent ==
  /\ master.at = "sev"
  /\ event' = [c \in Remotes |-> TRUE]
  /\ master' = IF master.fn = "jump_to_EL1" /\ master.core < MAX_REMOTE_CORE_ID
               THEN [master EXCEPT !.at = "init", !.core = @ + 1]
               ELSE [master EXCEPT !.at = "idle"]
  /\ UNCHANGED <<pc, m0, m1, exec_addr, dispatched, starts>>

Master ==
  \/ InitWorker
  \/ AcquireM0 \/ StoreFunction \/ AcquireM1 \/ SendEvent

-----------------------------------------------------------------------------
(* A remote core *)

\* Other code's sev, or a wfe that returns for reasons of its own.
StrayEvent(c) ==
  /\ ~ event[c]
  /\ event' = [event EXCEPT ![c] = TRUE]
  /\ UNCHANGED <<master, pc, m0, m1, exec_addr, dispatched, starts>>

\* The firmware's loop: wfe, then jump to the entry unless it is 0.
FirmwareJump(c) ==
  /\ pc[c] = "spin"
  /\ event[c]
  /\ event' = [event EXCEPT ![c] = FALSE]
  /\ IF exec_addr[c] = "none"
     THEN UNCHANGED <<pc, starts>>
     ELSE /\ pc' = [pc EXCEPT ![c] = "boot"]
          /\ starts' = [starts EXCEPT ![c] = @ + 1]
  /\ UNCHANGED <<master, m0, m1, exec_addr, dispatched>>

\* jump_to_EL1, setup_stack, init_mmu, switch_vmem; then __park_and_wait.  Run
\* a second time, at EL1, it enters setup_stack past the computation of x2 and
\* the core's stack is wherever x2 says.
Boot(c) ==
  /\ pc[c] = "boot"
  /\ \/ pc' = [pc EXCEPT ![c] = "release1"]
     \/ starts[c] > 1 /\ pc' = [pc EXCEPT ![c] = "lost"]
  /\ UNCHANGED <<master, m0, m1, exec_addr, event, dispatched, starts>>

\* worker_process runs its jobs to the end and calls __park_and_wait.
Work(c) ==
  /\ pc[c] = "work"
  /\ pc' = [pc EXCEPT ![c] = "release1"]
  /\ UNCHANGED <<master, m0, m1, exec_addr, event, dispatched, starts>>

\* Mutant: only m0 is given back.
ReleaseM1_Kept(c) ==
  /\ pc[c] = "release1"
  /\ event' = [d \in Remotes |-> TRUE]
  /\ pc' = [pc EXCEPT ![c] = "release0"]
  /\ UNCHANGED <<master, m0, m1, exec_addr, dispatched, starts>>

ReleaseM1(c) ==
  /\ pc[c] = "release1"
  /\ m1' = [m1 EXCEPT ![c] = 0]
  /\ event' = [d \in Remotes |-> TRUE]
  /\ pc' = [pc EXCEPT ![c] = "release0"]
  /\ UNCHANGED <<master, m0, exec_addr, dispatched, starts>>

\* Mutant: only m1 is given back.
ReleaseM0_Kept(c) ==
  /\ pc[c] = "release0"
  /\ event' = [d \in Remotes |-> TRUE]
  /\ pc' = [pc EXCEPT ![c] = "look"]
  /\ UNCHANGED <<master, m0, m1, exec_addr, dispatched, starts>>

\* Mutant: releasing subtracts.
ReleaseM0_Subtract(c) ==
  /\ pc[c] = "release0"
  /\ m0' = [m0 EXCEPT ![c] = @ - 1]
  /\ event' = [d \in Remotes |-> TRUE]
  /\ pc' = [pc EXCEPT ![c] = "look"]
  /\ UNCHANGED <<master, m1, exec_addr, dispatched, starts>>

ReleaseM0(c) ==
  /\ pc[c] = "release0"
  /\ m0' = [m0 EXCEPT ![c] = 0]
  /\ event' = [d \in Remotes |-> TRUE]
  /\ pc' = [pc EXCEPT ![c] = "look"]
  /\ UNCHANGED <<master, m1, exec_addr, dispatched, starts>>

Look(c) ==
  /\ pc[c] = "look"
  /\ pc' = [pc EXCEPT ![c] = IF m1[c] = 0 THEN "sleep" ELSE "trigger"]
  /\ UNCHANGED <<master, m0, m1, exec_addr, event, dispatched, starts>>

WaitForEvent(c) ==
  /\ pc[c] = "sleep"
  /\ event[c]
  /\ event' = [event EXCEPT ![c] = FALSE]
  /\ pc' = [pc EXCEPT ![c] = "look"]
  /\ UNCHANGED <<master, m0, m1, exec_addr, dispatched, starts>>

Trigger(c) ==
  /\ pc[c] = "trigger"
  /\ pc' = [pc EXCEPT ![c] = IF exec_addr[c] = "worker_process" THEN "work" ELSE "boot"]
  /\ starts' = [starts EXCEPT ![c] = @ + 1]
  /\ UNCHANGED <<master, m0, m1, exec_addr, event, dispatched>>

Remote(c) ==
  \/ FirmwareJump(c) \/ Boot(c) \/ Work(c)
  \/ ReleaseM1(c) \/ ReleaseM0(c)
  \/ Look(c) \/ WaitForEvent(c) \/ Trigger(c)

Next ==
  \/ Master
  \/ \E c \in Remotes : RunCore(c) \/ Remote(c) \/ StrayEvent(c)

Spec == Init /\ [][Next]_vars

\* Every core executes its next instruction when it can; jobs come to an end.
FairSpec == Spec /\ WF_vars(Master) /\ \A c \in Remotes : WF_vars(Remote(c))

-----------------------------------------------------------------------------
(* Properties *)

\* Every variable has its type; the mutexes are 0 or 1.
TypeOK ==
  /\ master \in [at : {"init", "m0", "store", "m1", "sev", "idle"},
                 core : Remotes, fn : Functions]
  /\ pc \in [Remotes -> Places]
  /\ m0 \in [Remotes -> {0, 1}]
  /\ m1 \in [Remotes -> {0, 1}]
  /\ exec_addr \in [Remotes -> Functions \union {"none"}]
  /\ event \in [Remotes -> BOOLEAN]
  /\ dispatched \in [Remotes -> Nat]
  /\ starts \in [Remotes -> Nat]

\* Core 0 is giving a function to c and has not finished.
Dispatching(c) == master.core = c /\ master.at \in {"store", "m1", "sev"}

\* A core never runs more often than it was told to, but for one run: the early
\* start from the firmware's loop, which leaves m1 taken behind it.
AtMostOneExtra == \A c \in Remotes : starts[c] <= dispatched[c] + 1

\* No dispatch is lost: a core that watches a free m1, while core 0 is not
\* giving it a function, has run as often as it was told to.
NoneMissed ==
  \A c \in Remotes :
    pc[c] \in {"look", "sleep"} /\ m1[c] = 0 /\ ~ Dispatching(c)
      => starts[c] >= dispatched[c]

\* A core that leaves its loop finds a function in the entry, not 0; and while it
\* runs, one of its mutexes is taken, so that no dispatch to it can complete.
EntryReady ==
  \A c \in Remotes :
    /\ pc[c] = "trigger" => exec_addr[c] # "none"
    /\ pc[c] \in {"trigger", "boot", "work"} => m0[c] = 1 \/ m1[c] = 1

\* What core 0 has stored gets run, unless a core boots twice and is lost.
DispatchRuns ==
  \A c \in Remotes :
    dispatched[c] > starts[c] ~> (starts[c] >= dispatched[c] \/ pc[c] = "lost")

\* __setup_core and __run_core return, unless a core boots twice and is lost.
MasterReturns ==
  master.at # "idle" ~> (master.at = "idle" \/ \E c \in Remotes : pc[c] = "lost")

\* smp.c:193, "keep waiting until you see something new": a core runs no more
\* often than it was given something to run.
SomethingNew == \A c \in Remotes : starts[c] <= dispatched[c]

=============================================================================
