-------------------------------- MODULE Mutex --------------------------------
(***************************************************************************)
(* A mutex as the code above include/hobos/asm/mutex.h sees it: acquired   *)
(* in one step, when it is 0, and released by the one that has it.         *)
(***************************************************************************)
EXTENDS Integers

CONSTANT Parties    \* the threads and handlers that use it

VARIABLES
  mutex,
  owners            \* the party that has it

Init == mutex = 0 /\ owners = {}

Acquire(p) ==
  /\ mutex = 0 /\ mutex' = 1
  /\ owners' = {p}

Release(p) ==
  /\ owners = {p} /\ owners' = {}
  /\ mutex' = 0

Next == \E p \in Parties : Acquire(p) \/ Release(p)

Spec == Init /\ [][Next]_<<mutex, owners>>

=============================================================================
