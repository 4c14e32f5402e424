------------------------------- MODULE MCSched -------------------------------
(* Three tasks: as many as the kernel makes with its test enabled. *)
EXTENDS Sched
CONSTANTS t1, t2, t3

MCTasks == {t1, t2, t3}

=============================================================================
