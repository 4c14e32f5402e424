------------------------------ MODULE PagePool ------------------------------
(***************************************************************************)
(* What the page allocator promises its callers, whatever lists it keeps:  *)
(* an allocation is a run of free pages, and pages belong to at most one   *)
(* caller.  It does not promise to keep every page: free pages may be lost *)
(* (the code cuts blocks out of its lists), and a returned run may be      *)
(* forgotten instead of becoming free again.  Nor does it promise to last: *)
(* once broken it promises nothing (the code breaks it on a heap that is   *)
(* not aligned to its size).                                               *)
(***************************************************************************)
EXTENDS Integers

CONSTANTS
  Heaps,   \* the sets of pages init_free_list() may be given
  Sizes    \* the lengths of the runs handed out

VARIABLES
  free,    \* the pages that can be allocated
  live,    \* the runs callers hold
  broken   \* the pool has given its promises up

pool == <<free, live, broken>>

Init == free \in Heaps /\ live = {} /\ broken = FALSE

Allocate(run) ==
  /\ ~ broken
  /\ run \subseteq free
  /\ free' = free \ run
  /\ live' = live \union {run}
  /\ UNCHANGED broken

Return(run) ==
  /\ ~ broken
  /\ live' = live \ {run}
  /\ \/ free' = free \union run
     \/ free' = free
  /\ UNCHANGED broken

Lose ==
  /\ free' \subseteq free
  /\ UNCHANGED <<live, broken>>

Break ==
  /\ broken' = TRUE
  /\ free' = {}
  /\ live' = {}

Next ==
  \/ \E first \in UNION Heaps, size \in Sizes : Allocate(first .. first + size - 1)
  \/ \E run \in live : Return(run)
  \/ Lose
  \/ Break

Spec == Init /\ [][Next]_pool

=============================================================================
