------------------------------- MODULE MCSmp -------------------------------
(* Two remote cores, each set up and then dispatched to twice. *)
EXTENDS Smp

=============================================================================
