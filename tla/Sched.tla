--------------------------------- MODULE Sched ---------------------------------
(***************************************************************************)
(* Kernel threads of HobOS on core 0: how main() makes and queues them, how *)
(* the timer's interrupt goes from one to the next, how one ends or enters  *)
(* user space.  task.c, sched.c, workqueue.c, handle_irq of proc.S.         *)
(*                                                                         *)
(* The interrupt saves x19 to x30 on the stack it finds and the stack       *)
(* pointer in the context of the queue's head.  It saves neither x0 to x18  *)
(* nor ELR_EL1.  So a thread that is started begins at its function, but to *)
(* resume a thread means no more than to take its stack and its x19 to x30: *)
(* the code goes on where it was interrupted.  The model therefore keeps    *)
(* whose code runs and whose stack it runs on apart.                        *)
(***************************************************************************)
EXTENDS Naturals, Sequences

CONSTANTS
  Tasks,
  Main,       \* main(), which is no task, and its stack
  None

ASSUME SchedAssumption == Main \notin Tasks /\ None \notin Tasks \cup {Main}

VARIABLES
  queue,      \* wq->queue and the next fields, the head first
  cyclic,     \* the last one's next is not NULL: it leads back into the queue
  pid_cntr,
  made,       \* the tasks that clone() has made
  new,        \* the one that main() has made and not queued yet
  chained,    \* its next is not NULL
  running,    \* t->running
  completed,  \* t->completed
  frame,      \* on whose stack the sp of t->ctxt is
  code,       \* whose code the core executes
  place,      \* where in it
  stack,      \* on whose stack
  lost,       \* the code needs a register that an interrupt has changed
  status,     \* what has become of the core
  popped,     \* yield()'s wq_pop(): the task it takes out
  torn        \* history: yield() changed the queue, its registers lost

run == <<code, place, stack, lost, status>>
tasks == <<pid_cntr, made, new, chained>>
yielding == <<popped, torn>>
vars == <<queue, cyclic, tasks, running, completed, frame, run, yielding>>

MainPlaces == {"create", "pid", "push", "idle"}
TaskPlaces ==
  {"work", "entry", "user", "svc", "leave", "done", "pop", "unlink", "putback", "switch"}

TypeOK ==
  /\ queue \in Seq(Tasks)
  /\ cyclic \in BOOLEAN
  /\ pid_cntr \in Nat \ {0}
  /\ made \subseteq Tasks
  /\ new \in Tasks \cup {None}
  /\ chained \in BOOLEAN
  /\ running \in [Tasks -> BOOLEAN]
  /\ completed \in [Tasks -> BOOLEAN]
  /\ frame \in [Tasks -> Tasks \cup {Main}]
  /\ code \in Tasks \cup {Main}
  /\ place \in MainPlaces \cup TaskPlaces
  /\ stack \in Tasks \cup {Main}
  /\ lost \in BOOLEAN
  /\ status \in {"up", "hung", "null", "astray"}
  /\ popped \in Tasks \cup {None}
  /\ torn \in BOOLEAN

\* main() after enable_interrupts(): wq_init() has made the queue.
Init ==
  /\ queue = <<>> /\ cyclic = FALSE
  /\ pid_cntr = 1 /\ made = {} /\ new = None /\ chained = FALSE
  /\ running = [t \in Tasks |-> FALSE]
  /\ completed = [t \in Tasks |-> FALSE]
  /\ frame = [t \in Tasks |-> t]
  /\ code = Main /\ place = "create" /\ stack = Main
  /\ lost = FALSE /\ status = "up"
  /\ popped = None /\ torn = FALSE

\* The tasks in a queue.
Members(q) == {q[i] : i \in DOMAIN q}

At(p) == status = "up" /\ place = p

\* get_curr_task() takes the task at the end.
CurrTask_Last == IF pid_cntr = 1 \/ queue = <<>> THEN None ELSE queue[Len(queue)]

\* get_curr_task().  None is idle_task before the first pid, NULL after it.
CurrTask == IF pid_cntr = 1 \/ queue = <<>> THEN None ELSE queue[1]

-----------------------------------------------------------------------------
(* main() *)

\* A new task is taken to have a successor whenever there is a current one.
Create_Chained(t) ==
  /\ At("create") /\ t \notin made
  /\ made' = made \cup {t} /\ new' = t
  /\ chained' = (queue # <<>>)
  /\ completed' = [completed EXCEPT ![t] = CurrTask # None /\ completed[CurrTask]]
  /\ place' = "pid"
  /\ UNCHANGED <<queue, cyclic, pid_cntr, running, frame, code, stack, lost, status, yielding>>

\* clone(): the new task is a copy of the current one, of its next pointer too.
Create(t) ==
  /\ At("create") /\ t \notin made
  /\ made' = made \cup {t} /\ new' = t
  /\ chained' = (Len(queue) >= 2)
  /\ completed' = [completed EXCEPT ![t] = CurrTask # None /\ completed[CurrTask]]
  /\ place' = "pid"
  /\ UNCHANGED <<queue, cyclic, pid_cntr, running, frame, code, stack, lost, status, yielding>>

\* The NULL that kthread_create() returns is queued.
CreateFails_Queues ==
  /\ At("create") /\ made # Tasks
  /\ new' = None /\ chained' = FALSE /\ place' = "pid"
  /\ UNCHANGED <<queue, cyclic, pid_cntr, made, running, completed, frame, code, stack, lost,
                 status, yielding>>

\* kmalloc() has returned 0: memset() clears what is at address 0.
CreateFails ==
  /\ At("create") /\ made # Tasks
  /\ status' = "astray"
  /\ UNCHANGED <<queue, cyclic, tasks, running, completed, frame, code, place, stack, lost, yielding>>

AssignPid ==
  /\ At("pid")
  /\ pid_cntr' = pid_cntr + 1
  /\ place' = "push"
  /\ UNCHANGED <<queue, cyclic, made, new, chained, running, completed, frame, code, stack,
                 lost, status, yielding>>

\* kthread_queue().  The end of a queue that has none is looked for for ever.
Push ==
  /\ At("push")
  /\ IF cyclic
       THEN status' = "hung" /\ UNCHANGED <<queue, cyclic, new, place>>
       ELSE /\ queue' = Append(queue, new)
            /\ cyclic' = (chained /\ queue # <<>>)
            /\ new' = None
            /\ place' = "create"
            /\ UNCHANGED status
  /\ UNCHANGED <<pid_cntr, made, chained, running, completed, frame, code, stack, lost, yielding>>

\* The loop at the end of main(), which needs no register.
Idle ==
  /\ At("create") /\ made # {}
  /\ place' = "idle"
  /\ UNCHANGED <<queue, cyclic, tasks, running, completed, frame, code, stack, lost, status, yielding>>

-----------------------------------------------------------------------------
(* The timer's interrupt *)

\* The task that was first is forgotten.
Rotated_Drops == Tail(queue)

\* The first task stays first.
Rotated_Stays == IF completed[queue[1]] THEN Tail(queue) ELSE queue

\* A completed task is queued again.
Rotated_Keeps == Append(Tail(queue), queue[1])

\* wq_queue_next(): the head goes to the end, or out of the queue if it has completed.
Rotated == IF completed[queue[1]] THEN Tail(queue) ELSE Append(Tail(queue), queue[1])

\* The processor is interrupted and the handler finds a queue it can rotate.
Interrupted ==
  /\ status = "up" /\ place \notin {"svc", "user"}
  /\ pid_cntr = 1 \/ queue # <<>>
  /\ ~ cyclic
  /\ UNCHANGED <<cyclic, tasks, completed, status, torn>>

\* The stack pointer goes into the context of the next task.
Save_Next == frame' = IF Rotated = <<>> THEN frame ELSE [frame EXCEPT ![Rotated[1]] = stack]

\* t->ctxt->sp, for the task that was current.
Save == frame' = [frame EXCEPT ![queue[1]] = stack]

\* The code goes on with other values in x0 to x18, which it may not need; the
\* ELR_EL1 of an exception that is about to return, it needs.
Clobbered == lost' \in (IF place \in {"entry", "leave"} THEN {TRUE} ELSE {lost, TRUE})

\* No task is queued yet, or the last one has completed: eret from C.
TickToNone ==
  /\ Interrupted
  /\ IF pid_cntr = 1
       THEN UNCHANGED <<queue, frame>>
       ELSE Rotated = <<>> /\ queue' = <<>> /\ Save
  /\ Clobbered
  /\ UNCHANGED <<running, code, place, stack, popped>>

\* kthread_start() prepares the stack: the next task begins.
TickStarts ==
  /\ Interrupted
  /\ pid_cntr # 1 /\ Rotated # <<>> /\ ~ running[Rotated[1]]
  /\ queue' = Rotated
  /\ Save
  /\ running' = [running EXCEPT ![Rotated[1]] = TRUE]
  /\ code' = Rotated[1] /\ place' = "work" /\ stack' = frame'[Rotated[1]] /\ lost' = FALSE
  /\ popped' = None

\* handle_irq keeps its stack pointer.
TickResumes_OldStack ==
  /\ Interrupted
  /\ pid_cntr # 1 /\ Rotated # <<>> /\ running[Rotated[1]]
  /\ queue' = Rotated
  /\ Save
  /\ Clobbered
  /\ UNCHANGED <<running, code, place, stack, popped>>

\* The next task's stack and registers, but not its place.
TickResumes ==
  /\ Interrupted
  /\ pid_cntr # 1 /\ Rotated # <<>> /\ running[Rotated[1]]
  /\ queue' = Rotated
  /\ Save
  /\ stack' = frame'[Rotated[1]]
  /\ IF stack' = stack THEN Clobbered ELSE lost' = TRUE
  /\ UNCHANGED <<running, code, place, popped>>

\* There are pids and no head of the queue: the context of NULL.  A queue without an
\* end is rotated, or only printed (wq_print()), for ever.  For an interrupt from EL0
\* the table of vectors has no entry.
TickFails ==
  /\ status = "up" /\ place # "svc"
  /\ status' = IF place = "user" THEN "astray" ELSE IF cyclic THEN "hung" ELSE "null"
  /\ place = "user" \/ cyclic \/ (pid_cntr # 1 /\ queue = <<>>)
  /\ UNCHANGED <<queue, cyclic, tasks, running, completed, frame, code, place, stack, lost, yielding>>

Tick == TickToNone \/ TickStarts \/ TickResumes \/ TickFails

\* Code that has lost a register, or runs on another's stack, may do anything.
GoAstray ==
  /\ status = "up" /\ place # "idle"
  /\ lost \/ (code # Main /\ stack # frame[code])
  /\ status' = "astray"
  /\ UNCHANGED <<queue, cyclic, tasks, running, completed, frame, code, place, stack, lost, yielding>>

-----------------------------------------------------------------------------
(* A task *)

\* Mutant: the store of completed is forgotten, as if resume were all there is to set.
Return_Unmarked ==
  /\ At("work")
  /\ place' = "done"
  /\ UNCHANGED <<queue, cyclic, tasks, running, completed, frame, code, stack, lost, status, yielding>>

\* kthread_ret_from_fork(): its function has returned, and the task that is current
\* is marked, whosever code and stack it is.
Return ==
  /\ At("work")
  /\ completed' = [t \in Tasks |-> completed[t] \/ t = CurrTask]
  /\ status' \in IF CurrTask = None THEN {status, "astray"} ELSE {status}
  /\ place' = "done"
  /\ UNCHANGED <<queue, cyclic, tasks, running, frame, code, stack, lost, yielding>>

\* yield() returns unless another task is queued.  (Its looks at the head and at the next
\* pointer of that are one step.)  It goes on with interrupts on, and each of the
\* following steps reads or writes the queue.
Yield ==
  /\ At("done") /\ Len(queue) >= 2
  /\ place' = "pop"
  /\ UNCHANGED <<queue, cyclic, tasks, running, completed, frame, code, stack, lost, status, yielding>>

\* wq_pop() takes the head, if there is one.
ReadHead ==
  /\ At("pop")
  /\ IF queue = <<>>
       THEN place' = "switch" /\ UNCHANGED popped
       ELSE place' = "unlink" /\ popped' = queue[1]
  /\ UNCHANGED <<queue, cyclic, tasks, running, completed, frame, code, stack, lost, status, torn>>

\* The tasks that the next pointers lead to from t: none if t is no longer queued.
Following(t) ==
  IF t \in Members(queue)
    THEN SubSeq(queue, 1 + CHOOSE i \in DOMAIN queue : queue[i] = t, Len(queue))
    ELSE <<>>

\* The queue goes on with what follows that task, be it the head still or not.  If it
\* has completed, it is gone.
Unlink ==
  /\ At("unlink")
  /\ queue' = Following(popped)
  /\ torn' = (torn \/ lost)
  /\ IF completed[popped]
       THEN place' = "switch" /\ popped' = None
       ELSE place' = "putback" /\ UNCHANGED popped
  /\ UNCHANGED <<cyclic, tasks, running, completed, frame, code, stack, lost, status>>

\* wq_push() of yield().  (The end of the queue is found and linked in one step.)
PutBack ==
  /\ At("putback")
  /\ queue' = Append(queue, popped)
  /\ popped' = None
  /\ place' = "switch"
  /\ UNCHANGED <<cyclic, tasks, running, completed, frame, code, stack, lost, status, torn>>

\* sched_switch() to the head, or to the task itself if there is none.  It loads the
\* registers from the struct ctxt instead of the stack: x30, to which it returns,
\* from behind its end.  So nobody takes up what it has saved before.
Switch ==
  /\ At("switch")
  /\ running' = IF queue = <<>> THEN running ELSE [running EXCEPT ![queue[1]] = TRUE]
  /\ status' = "astray"
  /\ UNCHANGED <<queue, cyclic, tasks, completed, frame, code, place, stack, lost, yielding>>

\* jump_to_usr() has set ELR_EL1, with interrupts on; it needs no register from before.
EnterUser ==
  /\ At("work")
  /\ place' = "entry"
  /\ lost' = FALSE
  /\ UNCHANGED <<queue, cyclic, tasks, running, completed, frame, code, stack, status, yielding>>

\* Its eret, or the one of handle_el0_svc.
ReturnToUser ==
  /\ At("entry") \/ At("leave")
  /\ ~ lost
  /\ place' = "user"
  /\ UNCHANGED <<queue, cyclic, tasks, running, completed, frame, code, stack, lost, status, yielding>>

\* A system call runs with interrupts off.
Svc ==
  /\ At("user")
  /\ place' = "svc"
  /\ UNCHANGED <<queue, cyclic, tasks, running, completed, frame, code, stack, lost, status, yielding>>

\* It ends, or is syscall_panic(); interrupts go on before the eret.
SvcEnds ==
  /\ At("svc")
  /\ \/ place' = "leave" /\ UNCHANGED status
     \/ status' = "hung" /\ UNCHANGED place
  /\ UNCHANGED <<queue, cyclic, tasks, running, completed, frame, code, stack, lost, yielding>>

-----------------------------------------------------------------------------
Boot == (\E t \in Tasks : Create(t)) \/ CreateFails \/ AssignPid \/ Push \/ Idle

Thread ==
  \/ Return \/ Yield \/ ReadHead \/ Unlink \/ PutBack \/ Switch
  \/ EnterUser \/ ReturnToUser \/ Svc \/ SvcEnds

Next == Boot \/ Tick \/ GoAstray \/ Thread

\* The handler sets the timer again, and an interrupt that comes while interrupts are
\* off is taken when they are on.  A system call ends.
Spec == Init /\ [][Next]_vars /\ SF_vars(Tick) /\ WF_vars(SvcEnds)

-----------------------------------------------------------------------------
(* Properties *)

Up == status = "up"

\* A task leaves the queue only when it has completed, and is not put in a second time,
\* as long as no yield() works on the queue with registers that an interrupt changed:
\* one that does may take out a task that is not its own, and leave it out.
StaysQueued ==
  [][~ torn' =>
       /\ \A t \in Members(queue) : t \in Members(queue') \/ completed[t]
       /\ \A i, j \in DOMAIN queue' : queue'[i] = queue'[j] => i = j]_vars

\* No two queued tasks have a stack in common, before such a yield(): "Due to interrupts,
\* another task might just come in and write over the current stack frame completely"
\* (task.h:28).  The one that is first when main() is interrupted has main()'s.
StacksApart == ~ torn => \A t, u \in Members(queue) : frame[t] = frame[u] => t = u

\* The stack in use is that of the head of the queue, for which the next interrupt saves
\* it, whosever code is running; but not between yield()'s wq_pop() and the end of
\* sched_switch().  The stack is then that of the task which yields and has left the
\* queue, and an interrupt there does save it for another, whose own is lost.
HeadOnItsStack ==
  Up /\ code # Main /\ queue # <<>> /\ ~ torn =>
    \/ stack = frame[queue[1]]
    \/ place = "switch" /\ completed[code] /\ stack = frame[code] /\ code \notin Members(queue)

\* The task that is marked as completed is the one whose stack is in use: itself, if it
\* ends on its own stack.  A thread that ends on another's marks that other one.
MarksStacksOwner ==
  [][~ torn => \A t \in Tasks : completed'[t] # completed[t] =>
       frame[t] = stack /\ (frame[code] = stack => t = code)]_vars

\* yield() takes out the task that calls it, and that has completed, although an interrupt
\* may come after each of its looks at the queue: if one has moved the head on, either
\* another task is started or the registers are lost.
YieldDropsItself ==
  At("unlink") /\ ~ lost /\ ~ torn => popped = code /\ queue[1] = code /\ completed[code]

\* It takes a third task for the queue to lose its end: with two, clone() copies no
\* pointer that matters.
LoopsWithThree == cyclic => pid_cntr > 3

\* A queued task is started, if the core lives and no yield() forgets it.
Started == \A t \in Tasks : t \in Members(queue) ~> (running[t] \/ ~ Up \/ torn)

\* A task that is marked as completed leaves the queue, if the core lives.
GoneWhenDone == \A t \in Tasks : completed[t] ~> (t \notin Members(queue) \/ ~ Up)

\* "Since scheduler handles preemption, we need to be ready for all registers - i.e, we
\* need to save the entire irq frame" (task.h:14): a thread goes on with its own.
ContextKept == Up /\ code # Main => ~ lost /\ stack = frame[code]

\* "idle process, run when nothing to do" (task.c:18): the timer finds a task to save
\* the context for.
SomethingCurrent == status # "null"

=============================================================================
