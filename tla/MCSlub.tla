------------------------------- MODULE MCSlub -------------------------------
(* Two cores with caches of two orders, idle_task and two tasks of core c0. *)
EXTENDS Slub, TLC

CONSTANTS c0, c1, small, large, idle, a, b

MCCores == {c0, c1}
MCOrders == {small, large}
MCNrObjs == small :> 3 @@ large :> 1
MCTasks == {idle, a, b}
MCHome == a :> c0 @@ b :> c0

=============================================================================
