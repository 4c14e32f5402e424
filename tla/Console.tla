------------------------------- MODULE Console -------------------------------
(***************************************************************************)
(* kprintf() of src/kstdio.c: the messages of all cores, from threads and  *)
(* from the interrupt handlers that preempt them, serialised by            *)
(* print_mutex with interrupts masked around it (irq_save, irq_restore).   *)
(*                                                                         *)
(* The mutex is the one of include/hobos/asm/mutex.h, one action per       *)
(* instruction that another core can observe: load-exclusive, store-       *)
(* exclusive, wait-for-event, store-release, send-event.  What the         *)
(* processor does around them (the exclusive monitor, the event register,  *)
(* taking an interrupt and returning from it) is external.                 *)
(***************************************************************************)
EXTENDS Integers

CONSTANT Cores

ASSUME CoresAssumption == Cores # {}

VARIABLES
  mutex,      \* print_mutex
  reserved,   \* the cores whose load-exclusive of print_mutex still stands
  event,      \* event[c]: the event register that wfe waits for
  handling,   \* handling[c]: the core is in its interrupt handler
  masked,     \* masked[c]: DAIF.I, no interrupt is taken
  pc,         \* pc[c][l]: where the thread and the handler of c are in kprintf
  flags,      \* flags[c][l]: irq_flags of that call
  torn        \* history: the cores whose thread was interrupted between the two
              \* instructions of irq_save and got flags back with the mask set

vars == <<mutex, reserved, event, handling, masked, pc, flags, torn>>

Levels == {"thread", "handler"}

\* out      not in kprintf          mask      irq_save has read the flags
\* load     at ldaxr                store     at stxr, having loaded 0
\* sleep    at wfe, having loaded 1 print     in vprintf, with the mutex
\* release  at stlr                 send      at sev
\* restore  at irq_restore
Places == {"out", "mask", "load", "store", "sleep", "print", "release", "send", "restore"}

Level(c) == IF handling[c] THEN "handler" ELSE "thread"

At(c, place) == pc[c][Level(c)] = place

Goto(c, place) == pc' = [pc EXCEPT ![c][Level(c)] = place]

Init ==
  /\ mutex = 0
  /\ reserved = {}
  /\ event = [c \in Cores |-> FALSE]
  /\ handling = [c \in Cores |-> FALSE]
  /\ masked = [c \in Cores |-> FALSE]
  /\ pc = [c \in Cores |-> [l \in Levels |-> "out"]]
  /\ flags = [c \in Cores |-> [l \in Levels |-> FALSE]]
  /\ torn = {}

-----------------------------------------------------------------------------
(* The core takes an interrupt, which masks the next, and returns from it. *)

TakeInterrupt(c) ==
  /\ ~ handling[c] /\ ~ masked[c]
  /\ handling' = [handling EXCEPT ![c] = TRUE]
  /\ masked' = [masked EXCEPT ![c] = TRUE]
  /\ UNCHANGED <<mutex, reserved, event, pc, flags, torn>>

\* handle_irq restores x19 to x30 only.  What irq_save() has read into x0 is not
\* the thread's flags any more, but whatever the handler left there.  (That the
\* link register is not the thread's either, and that the tick may go on with
\* another task, is in Sched: here the thread goes on where it was.)
LosesFlags(c) ==
  \E left \in BOOLEAN :
    /\ flags' = [flags EXCEPT ![c]["thread"] = left]
    /\ torn' = IF left THEN torn \union {c} ELSE torn \ {c}

\* eret restores the mask of the thread, which was clear, and gives up the
\* exclusive reservation.
ReturnFromInterrupt(c) ==
  /\ handling[c] /\ At(c, "out")
  /\ handling' = [handling EXCEPT ![c] = FALSE]
  /\ masked' = [masked EXCEPT ![c] = FALSE]
  /\ reserved' = reserved \ {c}
  /\ IF pc[c]["thread"] = "mask"
     THEN LosesFlags(c)
     ELSE UNCHANGED <<flags, torn>>
  /\ UNCHANGED <<mutex, event, pc>>

-----------------------------------------------------------------------------
(* irq_save(): two instructions, and an interrupt may come between them. *)

ReadFlags(c) ==
  /\ At(c, "out")
  /\ flags' = [flags EXCEPT ![c][Level(c)] = masked[c]]
  /\ Goto(c, "mask")
  /\ UNCHANGED <<mutex, reserved, event, handling, masked, torn>>

\* Mutant: irq_save leaves the interrupts enabled.
SetMask_Open(c) ==
  /\ At(c, "mask")
  /\ Goto(c, "load")
  /\ UNCHANGED <<mutex, reserved, event, handling, masked, flags, torn>>

SetMask(c) ==
  /\ At(c, "mask")
  /\ masked' = [masked EXCEPT ![c] = TRUE]
  /\ Goto(c, "load")
  /\ UNCHANGED <<mutex, reserved, event, handling, flags, torn>>

(* acquire_mutex() *)

LoadExclusive(c) ==
  /\ At(c, "load")
  /\ reserved' = reserved \union {c}
  /\ Goto(c, IF mutex = 0 THEN "store" ELSE "sleep")
  /\ UNCHANGED <<mutex, event, handling, masked, flags, torn>>

\* Mutant: a plain store, which succeeds whatever happened since the load.
StoreExclusive_Plain(c) ==
  /\ At(c, "store")
  /\ mutex' = 1
  /\ reserved' = {}
  /\ Goto(c, "print")
  /\ UNCHANGED <<event, handling, masked, flags, torn>>

\* Mutant: the mutex counts its holders.
StoreExclusive_Count(c) ==
  /\ At(c, "store")
  /\ mutex' = mutex + 1
  /\ reserved' = {}
  /\ Goto(c, "print")
  /\ UNCHANGED <<event, handling, masked, flags, torn>>

\* The store fails when another core has written since the load, and a store
\* that succeeds takes the reservation from every other core.
StoreExclusive(c) ==
  /\ At(c, "store")
  /\ IF c \in reserved
     THEN /\ mutex' = 1
          /\ reserved' = {}
          /\ Goto(c, "print")
     ELSE /\ Goto(c, "load")
          /\ UNCHANGED <<mutex, reserved>>
  /\ UNCHANGED <<event, handling, masked, flags, torn>>

\* wfe returns at once when an event came since the last, else it waits for one.
WaitForEvent(c) ==
  /\ At(c, "sleep")
  /\ event[c]
  /\ event' = [event EXCEPT ![c] = FALSE]
  /\ Goto(c, "load")
  /\ UNCHANGED <<mutex, reserved, handling, masked, flags, torn>>

PrintMessage(c) ==
  /\ At(c, "print")
  /\ Goto(c, "release")
  /\ UNCHANGED <<mutex, reserved, event, handling, masked, flags, torn>>

(* release_mutex() *)

StoreRelease(c) ==
  /\ At(c, "release")
  /\ mutex' = 0
  /\ reserved' = {}
  /\ Goto(c, "send")
  /\ UNCHANGED <<event, handling, masked, flags, torn>>

\* Mutant: sevl for sev, the event reaches the sender only.
SendEvent_Local(c) ==
  /\ At(c, "send")
  /\ event' = [event EXCEPT ![c] = TRUE]
  /\ Goto(c, "restore")
  /\ UNCHANGED <<mutex, reserved, handling, masked, flags, torn>>

\* Mutant: a release without its sev.
SendEvent_Missing(c) ==
  /\ At(c, "send")
  /\ Goto(c, "restore")
  /\ UNCHANGED <<mutex, reserved, event, handling, masked, flags, torn>>

SendEvent(c) ==
  /\ At(c, "send")
  /\ event' = [d \in Cores |-> TRUE]
  /\ Goto(c, "restore")
  /\ UNCHANGED <<mutex, reserved, handling, masked, flags, torn>>

\* Mutant: irq_enable for irq_restore.
RestoreFlags_Enable(c) ==
  /\ At(c, "restore")
  /\ masked' = [masked EXCEPT ![c] = FALSE]
  /\ flags' = [flags EXCEPT ![c][Level(c)] = FALSE]
  /\ Goto(c, "out")
  /\ UNCHANGED <<mutex, reserved, event, handling, torn>>

\* irq_flags is dead after the call, and FALSE in the model.
RestoreFlags(c) ==
  /\ At(c, "restore")
  /\ masked' = [masked EXCEPT ![c] = flags[c][Level(c)]]
  /\ flags' = [flags EXCEPT ![c][Level(c)] = FALSE]
  /\ Goto(c, "out")
  /\ UNCHANGED <<mutex, reserved, event, handling, torn>>

-----------------------------------------------------------------------------
\* One more instruction of a kprintf that has begun.
Continue(c) ==
  \/ SetMask(c)
  \/ LoadExclusive(c) \/ StoreExclusive(c) \/ WaitForEvent(c)
  \/ PrintMessage(c)
  \/ StoreRelease(c) \/ SendEvent(c)
  \/ RestoreFlags(c)

Next ==
  \E c \in Cores : \/ TakeInterrupt(c) \/ ReturnFromInterrupt(c)
                   \/ ReadFlags(c)
                   \/ Continue(c)

Spec == Init /\ [][Next]_vars

\* Cores run: a core that can execute its next instruction does.
FairSpec == Spec /\ \A c \in Cores : WF_vars(Continue(c))

-----------------------------------------------------------------------------
(* Properties *)

TypeOK ==
  /\ mutex \in {0, 1}
  /\ reserved \subseteq Cores
  /\ event \in [Cores -> BOOLEAN]
  /\ handling \in [Cores -> BOOLEAN]
  /\ masked \in [Cores -> BOOLEAN]
  /\ pc \in [Cores -> [Levels -> Places]]
  /\ flags \in [Cores -> [Levels -> BOOLEAN]]
  /\ torn \subseteq Cores

Holding(c, l) == pc[c][l] \in {"print", "release"}

\* Of all threads and handlers of all cores one at a time is in vprintf(), and
\* the mutex is set exactly then: messages do not mix on the serial line.
OneMessage ==
  /\ \A c, d \in Cores : \A l, k \in Levels :
       Holding(c, l) /\ Holding(d, k) => c = d /\ l = k
  /\ mutex = 1 <=> \E c \in Cores, l \in Levels : Holding(c, l)

\* A handler never preempts a kprintf() of its own core that may have the mutex:
\* it would spin for a mutex whose holder it keeps from running.
NoSelfDeadlock ==
  \A c \in Cores : handling[c] => pc[c]["thread"] \in {"out", "mask"}

\* No wake-up is lost: a core that sleeps although the mutex is free has an
\* event pending, or the core that released it has yet to send one.
NoLostWakeup ==
  \A c \in Cores, l \in Levels :
    pc[c][l] = "sleep" /\ mutex = 0
      => event[c] \/ \E d \in Cores, k \in Levels : pc[d][k] = "send"

\* Interrupts stay masked from irq_save() to irq_restore() and throughout the
\* handler, whose kprintf() gives back the mask it found.  The thread's gives them
\* back too, unless an interrupt between the two instructions of its irq_save() has
\* left it other flags: then the core runs on with its interrupts off.
MaskKept ==
  \A c \in Cores :
    LET outside == ~ handling[c] /\ pc[c]["thread"] \in {"out", "mask"}
    IN  /\ ~ masked[c] => outside
        /\ masked[c] /\ outside => c \in torn

OneStep == INSTANCE Mutex WITH
  Parties <- Cores \X Levels,
  owners  <- {p \in Cores \X Levels : Holding(p[1], p[2])}

\* Its instructions, with every interrupt between them, amount to a mutex that is
\* acquired in one step, as Smp has it: no two stores make one acquisition, and
\* nobody's release frees what another has acquired.
ImplementsMutex == OneStep!Spec

\* While some core waits for the mutex, some core gets to print.
SomeonePrints ==
  (\E c \in Cores, l \in Levels : pc[c][l] \in {"load", "store", "sleep"})
    ~> (\E c \in Cores, l \in Levels : pc[c][l] = "print")

=============================================================================
