---------------------------- MODULE MCPageAlloc ----------------------------
(* Instances of PageAlloc for TLC: a heap of eight pages. *)
EXTENDS PageAlloc

MCPageBlock == [o \in 0 .. MaxPageOrder |-> 2 ^ o]

=============================================================================
