----------------------------- MODULE MCConsole -----------------------------
(* Three cores printing, each from its thread and from its handler. *)
EXTENDS Console

CONSTANTS c0, c1, c2

MCCores == {c0, c1, c2}

=============================================================================
