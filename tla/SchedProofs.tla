----------------------------- MODULE SchedProofs -----------------------------
(***************************************************************************)
(* Theorems about Sched, for any set of tasks.                             *)
(*                                                                         *)
(* The properties lean on each other.  An interrupt saves the right stack   *)
(* for the head only because the head's is in use; it drops the right task  *)
(* only because the head alone can have completed; yield() loses nothing    *)
(* because there are at most two tasks in a queue that has an end, and one  *)
(* whose registers are as it left them is the head.  After a yield() whose  *)
(* registers were not (torn) only the types and main()'s part are left.     *)
(***************************************************************************)
EXTENDS Sched, TLAPS

Distinct(q) == \A i, j \in DOMAIN q : q[i] = q[j] => i = j

\* main() runs until the first task is started, and all is as it made it.
MainFirst ==
  /\ code = Main <=> place \in MainPlaces
  /\ code = Main => /\ stack = Main /\ ~ torn
                    /\ \A t \in Tasks : frame[t] = t /\ ~ completed[t] /\ ~ running[t]
  /\ place \in {"pid", "push"} => new \in made \ Members(queue)

\* wq_pop() has a task in its hands.
InHand == place \in {"unlink", "putback"} => popped \in Tasks

\* Only main() closes a loop.
LoopInv == cyclic => pid_cntr > 3 /\ code = Main

\* The queue: no task twice, none that is not made, no more than there are pids.
QueueInv ==
  /\ Distinct(queue)
  /\ Members(queue) \subseteq made
  /\ Len(queue) < pid_cntr
  /\ place = "push" => Len(queue) + 1 < pid_cntr

\* Where its end may be missing.
EndInv ==
  /\ ~ cyclic => Len(queue) <= 2
  /\ place \in {"pid", "push"} => (chained <=> Len(queue) >= 2)

Kernel == {"work", "entry", "user", "svc", "leave"}

\* Whose code runs, and which of the queued tasks can have completed: the head, and
\* until yield() has dropped it.
CodeInv ==
  /\ \A t \in Members(queue) : completed[t] => t = queue[1] /\ place \in {"done", "pop", "unlink"}
  /\ place \in Kernel => code \in Members(queue)
  /\ place = "done" /\ ~ lost => queue = <<>> \/ (code = queue[1] /\ completed[code])
  /\ place \in {"pop", "unlink"} /\ ~ lost => Len(queue) = 2 /\ code = queue[1] /\ completed[code]
  /\ place = "unlink" /\ ~ lost => popped = code
  /\ place # "putback"

\* Code that has its registers is on its stack, until yield() has dropped the task.
StackInv ==
  /\ StacksApart
  /\ code # Main /\ queue # <<>> /\ place # "switch" => stack = frame[queue[1]]
  /\ place \in {"work", "done", "pop", "unlink"} /\ ~ lost => stack = frame[code]
  /\ place = "switch" /\ queue # <<>> =>
       /\ Len(queue) = 1
       /\ \/ stack = frame[queue[1]]
          \/ completed[code] /\ stack = frame[code] /\ code \notin Members(queue)

Untorn == QueueInv /\ EndInv /\ CodeInv /\ StackInv

IInv == TypeOK /\ MainFirst /\ InHand /\ LoopInv /\ (~ torn => Untorn)

-----------------------------------------------------------------------------
(* Sequences *)

LEMMA HeadMember ==
  ASSUME NEW q \in Seq(Tasks), q # <<>>
  PROVE  q[1] \in Tasks /\ q[1] \in Members(q) /\ 1 \in DOMAIN q /\ Len(q) >= 1
<1>1. Len(q) \in Nat /\ Len(q) # 0 /\ DOMAIN q = 1 .. Len(q)
  OBVIOUS
<1>2. 1 \in DOMAIN q
  BY <1>1
<1> QED BY <1>1, <1>2 DEF Members

\* Without its head a queue has the other tasks.
LEMMA TailMembers ==
  ASSUME NEW q \in Seq(Tasks), q # <<>>, Distinct(q)
  PROVE  /\ Tail(q) \in Seq(Tasks) /\ Len(Tail(q)) = Len(q) - 1
         /\ Distinct(Tail(q)) /\ Members(Tail(q)) = Members(q) \ {q[1]}
<1>1. /\ Len(q) \in Nat /\ Len(q) # 0 /\ DOMAIN q = 1 .. Len(q)
      /\ Tail(q) \in Seq(Tasks) /\ Len(Tail(q)) = Len(q) - 1
      /\ DOMAIN Tail(q) = 1 .. Len(q) - 1
  OBVIOUS
<1>2. \A i \in 1 .. Len(q) - 1 : Tail(q)[i] = q[i + 1]
  OBVIOUS
<1>3. Distinct(Tail(q))
  BY <1>1, <1>2 DEF Distinct
<1>4. ASSUME NEW t \in Members(Tail(q)) PROVE t \in Members(q) \ {q[1]}
  <2>1. PICK i \in 1 .. Len(q) - 1 : t = q[i + 1]
    BY <1>1, <1>2, <1>4 DEF Members
  <2>2. i + 1 \in DOMAIN q /\ 1 \in DOMAIN q /\ i + 1 # 1
    BY <1>1
  <2> QED BY <2>1, <2>2 DEF Members, Distinct
<1>5. ASSUME NEW t \in Members(q), t # q[1] PROVE t \in Members(Tail(q))
  <2>1. PICK i \in 1 .. Len(q) : t = q[i]
    BY <1>1, <1>5 DEF Members
  <2>2. i # 1
    BY <2>1, <1>5
  <2>3. i - 1 \in 1 .. Len(q) - 1 /\ (i - 1) + 1 = i
    BY <2>2, <1>1
  <2>4. Tail(q)[i - 1] = q[i]
    BY <2>3, <1>2
  <2> QED BY <2>1, <2>3, <2>4, <1>1 DEF Members
<1> QED BY <1>1, <1>3, <1>4, <1>5

\* A task that is appended is one more.
LEMMA AppendMembers ==
  ASSUME NEW q \in Seq(Tasks), Distinct(q), NEW t \in Tasks, t \notin Members(q)
  PROVE  /\ Append(q, t) \in Seq(Tasks) /\ Len(Append(q, t)) = Len(q) + 1
         /\ Distinct(Append(q, t)) /\ Members(Append(q, t)) = Members(q) \cup {t}
<1>1. /\ Len(q) \in Nat /\ DOMAIN q = 1 .. Len(q)
      /\ Append(q, t) \in Seq(Tasks) /\ Len(Append(q, t)) = Len(q) + 1
      /\ DOMAIN Append(q, t) = 1 .. Len(q) + 1
  OBVIOUS
<1>2. /\ \A i \in 1 .. Len(q) : Append(q, t)[i] = q[i]
      /\ Append(q, t)[Len(q) + 1] = t
  OBVIOUS
<1>3. \A i \in 1 .. Len(q) + 1 : i # Len(q) + 1 => i \in 1 .. Len(q)
  BY <1>1
<1>4. \A i \in 1 .. Len(q) : q[i] # t
  BY <1>1 DEF Members
<1>5. Distinct(Append(q, t))
  BY <1>1, <1>2, <1>3, <1>4 DEF Distinct
<1>6. Members(Append(q, t)) = Members(q) \cup {t}
  BY <1>1, <1>2, <1>3 DEF Members
<1> QED BY <1>1, <1>5, <1>6

\* What a rotation keeps.
LEMMA RotatedMembers ==
  ASSUME queue \in Seq(Tasks), queue # <<>>, Distinct(queue)
  PROVE  /\ Rotated \in Seq(Tasks) /\ Distinct(Rotated)
         /\ completed[queue[1]] => /\ Len(Rotated) = Len(queue) - 1
                                   /\ Members(Rotated) = Members(queue) \ {queue[1]}
         /\ ~ completed[queue[1]] => /\ Len(Rotated) = Len(queue)
                                     /\ Members(Rotated) = Members(queue)
<1>1. /\ queue[1] \in Tasks /\ queue[1] \in Members(queue) /\ Len(queue) \in Nat
      /\ Tail(queue) \in Seq(Tasks) /\ Len(Tail(queue)) = Len(queue) - 1
      /\ Distinct(Tail(queue)) /\ Members(Tail(queue)) = Members(queue) \ {queue[1]}
  BY HeadMember, TailMembers
<1>2. CASE completed[queue[1]]
  BY <1>1, <1>2 DEF Rotated
<1>3. CASE ~ completed[queue[1]]
  <2>1. queue[1] \notin Members(Tail(queue))
    BY <1>1
  <2>2. PICK h \in Tasks : h = queue[1]
    BY <1>1
  <2>3. PICK q \in Seq(Tasks) : q = Tail(queue)
    BY <1>1
  <2>4. /\ Append(q, h) \in Seq(Tasks) /\ Len(Append(q, h)) = Len(q) + 1
        /\ Distinct(Append(q, h)) /\ Members(Append(q, h)) = Members(q) \cup {h}
    BY <1>1, <2>1, <2>2, <2>3, AppendMembers
  <2>5. Rotated = Append(q, h)
    BY <1>3, <2>2, <2>3 DEF Rotated
  <2>6. Len(q) + 1 = Len(queue) /\ Members(q) \cup {h} = Members(queue)
    BY <1>1, <2>2, <2>3
  <2> QED BY <1>3, <2>4, <2>5, <2>6
<1> QED BY <1>2, <1>3

\* Whatever is rotated is a queue.
LEMMA RotatedType ==
  ASSUME queue \in Seq(Tasks), queue # <<>>
  PROVE  Rotated \in Seq(Tasks)
<1>1. queue[1] \in Tasks /\ Tail(queue) \in Seq(Tasks)
  BY HeadMember
<1>2. Append(Tail(queue), queue[1]) \in Seq(Tasks)
  BY <1>1
<1> QED BY <1>1, <1>2 DEF Rotated

\* What follows a task in the queue is a queue; what follows the head is the others.
LEMMA FollowingType ==
  ASSUME queue \in Seq(Tasks), NEW t
  PROVE  Following(t) \in Seq(Tasks)
<1>1. CASE t \in Members(queue)
  <2> DEFINE i == CHOOSE j \in DOMAIN queue : queue[j] = t
  <2>1. i \in DOMAIN queue /\ DOMAIN queue = 1 .. Len(queue) /\ Len(queue) \in Nat
    BY <1>1 DEF Members
  <2>2. 1 + i \in 1 .. Len(queue) + 1
    BY <2>1
  <2> HIDE DEF i
  <2>3. SubSeq(queue, 1 + i, Len(queue)) \in Seq(Tasks)
    BY <2>1, <2>2
  <2> QED BY <1>1, <2>3 DEF Following, i
<1>2. CASE t \notin Members(queue)
  BY <1>2 DEF Following
<1> QED BY <1>1, <1>2

LEMMA FollowingHead ==
  ASSUME queue \in Seq(Tasks), queue # <<>>, Distinct(queue)
  PROVE  Following(queue[1]) = Tail(queue)
<1>1. queue[1] \in Members(queue) /\ 1 \in DOMAIN queue
  BY HeadMember
<1>2. (CHOOSE j \in DOMAIN queue : queue[j] = queue[1]) = 1
  BY <1>1 DEF Distinct
<1>3. Following(queue[1]) = SubSeq(queue, 1 + 1, Len(queue))
  BY <1>1, <1>2 DEF Following
<1>4. SubSeq(queue, 2, Len(queue)) = Tail(queue)
  OBVIOUS
<1> QED BY <1>3, <1>4

-----------------------------------------------------------------------------
(* Types *)

LEMMA TypeStep == IInv /\ [Next]_vars => TypeOK'
<1> SUFFICES ASSUME IInv, [Next]_vars PROVE TypeOK'
  OBVIOUS
<1> USE DEF TypeOK, MainPlaces, TaskPlaces, tasks, yielding
<1>0. TypeOK
  BY DEF IInv
<1>1. CASE UNCHANGED vars
  BY <1>0, <1>1 DEF vars, run
<1>2. ASSUME NEW t \in Tasks, Create(t) PROVE TypeOK'
  <2>1. completed' \in [Tasks -> BOOLEAN]
    BY <1>0, <1>2, Zenon DEF Create
  <2> QED BY <1>0, <1>2, <2>1 DEF Create
<1>3. CASE CreateFails
  BY <1>0, <1>3 DEF CreateFails
<1>4. CASE AssignPid
  BY <1>0, <1>4 DEF AssignPid, At
<1>5. CASE Push
  <2>1. place = "push"
    BY <1>5 DEF Push, At
  <2>2. new \in Tasks
    BY <1>0, <2>1 DEF IInv, MainFirst
  <2>3. queue' \in Seq(Tasks)
    BY <1>0, <1>5, <2>2 DEF Push
  <2>4. cyclic' \in BOOLEAN
    BY <1>0, <1>5, Zenon DEF Push
  <2> QED BY <1>0, <1>5, <2>3, <2>4 DEF Push
<1>6. CASE Idle
  BY <1>0, <1>6 DEF Idle
<1>t. ASSUME pid_cntr # 1, Interrupted
      PROVE  /\ queue[1] \in Tasks /\ Rotated \in Seq(Tasks)
             /\ Rotated # <<>> => Rotated[1] \in Tasks
             /\ Save => frame' \in [Tasks -> Tasks \cup {Main}]
  <2>1. queue # <<>>
    BY <1>t DEF Interrupted
  <2>2. queue[1] \in Tasks /\ Rotated \in Seq(Tasks)
    BY <1>0, <2>1, HeadMember, RotatedType
  <2>3. Rotated # <<>> => Rotated[1] \in Tasks
    BY <2>2, HeadMember
  <2> QED BY <1>0, <2>2, <2>3 DEF Save
<1>7. CASE TickToNone
  <2>1. queue' \in Seq(Tasks) /\ frame' \in [Tasks -> Tasks \cup {Main}]
    BY <1>0, <1>7, <1>t DEF TickToNone
  <2>2. lost' \in BOOLEAN
    BY <1>0, <1>7 DEF TickToNone, Clobbered
  <2> QED BY <1>0, <1>7, <2>1, <2>2 DEF TickToNone, Interrupted
<1>8. CASE TickStarts
  <2>1. /\ Rotated \in Seq(Tasks) /\ Rotated[1] \in Tasks
        /\ frame' \in [Tasks -> Tasks \cup {Main}]
    BY <1>8, <1>t DEF TickStarts
  <2>2. /\ queue' = Rotated /\ running' = [running EXCEPT ![Rotated[1]] = TRUE]
        /\ code' = Rotated[1] /\ place' = "work" /\ stack' = frame'[Rotated[1]]
        /\ lost' = FALSE /\ popped' = None
        /\ UNCHANGED <<cyclic, tasks, completed, status, torn>>
    BY <1>8 DEF TickStarts, Interrupted
  <2> QED BY <1>0, <2>1, <2>2
<1>9. CASE TickResumes
  <2>1. /\ Rotated \in Seq(Tasks) /\ Rotated[1] \in Tasks
        /\ frame' \in [Tasks -> Tasks \cup {Main}]
    BY <1>9, <1>t DEF TickResumes
  <2>2. lost' \in BOOLEAN
    BY <1>0, <1>9 DEF TickResumes, Clobbered
  <2>3. /\ queue' = Rotated /\ stack' = frame'[Rotated[1]]
        /\ UNCHANGED <<running, code, place, popped, cyclic, tasks, completed, status, torn>>
    BY <1>9 DEF TickResumes, Interrupted
  <2> QED BY <1>0, <2>1, <2>2, <2>3
<1>10. CASE TickFails
  BY <1>0, <1>10 DEF TickFails
<1>11. CASE GoAstray
  BY <1>0, <1>11 DEF GoAstray
<1>12. CASE Return
  <2>1. completed' \in [Tasks -> BOOLEAN]
    BY <1>12, Zenon DEF Return
  <2>2. status' \in {"up", "hung", "null", "astray"}
    BY <1>0, <1>12 DEF Return
  <2> QED BY <1>0, <1>12, <2>1, <2>2 DEF Return
<1>13. CASE Yield
  BY <1>0, <1>13 DEF Yield
<1>16. CASE ReadHead
  <2>1. popped' \in Tasks \cup {None}
    BY <1>0, <1>16, HeadMember DEF ReadHead
  <2> QED BY <1>0, <1>16, <2>1 DEF ReadHead
<1>17. CASE Unlink
  <2>1. queue' \in Seq(Tasks)
    BY <1>0, <1>17, FollowingType DEF Unlink
  <2>2. torn' \in BOOLEAN
    BY <1>0, <1>17, Zenon DEF Unlink
  <2> QED BY <1>0, <1>17, <2>1, <2>2 DEF Unlink
<1>18. CASE PutBack
  <2>1. popped \in Tasks
    BY <1>18 DEF IInv, InHand, PutBack, At
  <2>2. queue' \in Seq(Tasks)
    BY <1>0, <1>18, <2>1 DEF PutBack
  <2> QED BY <1>0, <1>18, <2>2 DEF PutBack
<1>14. CASE Switch
  <2>1. running' \in [Tasks -> BOOLEAN]
    BY <1>0, <1>14 DEF Switch
  <2> QED BY <1>0, <1>14, <2>1 DEF Switch
<1>15. CASE EnterUser \/ ReturnToUser \/ Svc \/ SvcEnds
  <2>1. CASE EnterUser
    BY <1>0, <2>1 DEF EnterUser
  <2>2. CASE ReturnToUser
    BY <1>0, <2>2 DEF ReturnToUser
  <2>3. CASE Svc
    BY <1>0, <2>3 DEF Svc
  <2>4. CASE SvcEnds
    BY <1>0, <2>4 DEF SvcEnds
  <2> QED BY <1>15, <2>1, <2>2, <2>3, <2>4
<1> QED
  BY <1>1, <1>2, <1>3, <1>4, <1>5, <1>6, <1>7, <1>8, <1>9, <1>10, <1>11, <1>12, <1>13,
     <1>14, <1>15, <1>16, <1>17, <1>18 DEF Next, Boot, Tick, Thread

-----------------------------------------------------------------------------
(* The invariant *)

\* yield() and the wq_pop() in it hold a task.
LEMMA HandStep == IInv /\ [Next]_vars => InHand'
<1> SUFFICES ASSUME IInv, [Next]_vars PROVE InHand'
  OBVIOUS
<1> USE DEF InHand, IInv, At, yielding
<1>1. CASE UNCHANGED vars
  BY <1>1 DEF vars, run
<1>2. CASE Boot \/ GoAstray
  BY <1>2 DEF Boot, GoAstray, Create, CreateFails, AssignPid, Push, Idle, MainFirst
<1>3. CASE Tick
  BY <1>3 DEF Tick, TickToNone, TickStarts, TickResumes, TickFails
<1>4. CASE ReadHead
  BY <1>4, HeadMember DEF ReadHead, TypeOK
<1>5. CASE Unlink \/ PutBack
  BY <1>5 DEF Unlink, PutBack
<1>6. CASE Return \/ Yield \/ Switch \/ EnterUser \/ ReturnToUser \/ Svc \/ SvcEnds
  BY <1>6 DEF Return, Yield, Switch, EnterUser, ReturnToUser, Svc, SvcEnds
<1> QED BY <1>1, <1>2, <1>3, <1>4, <1>5, <1>6 DEF Next, Thread

\* Only wq_pop() sets torn, and nothing clears it.
LEMMA TornStays == [Next]_vars => (torn => torn') /\ (torn' => torn \/ Unlink)
<1> USE DEF yielding
<1>1. ASSUME Boot \/ GoAstray \/ UNCHANGED vars PROVE UNCHANGED torn
  BY <1>1 DEF Boot, Create, CreateFails, AssignPid, Push, Idle, GoAstray, vars
<1>2. ASSUME Tick PROVE UNCHANGED torn
  BY <1>2 DEF Tick, TickToNone, TickStarts, TickResumes, TickFails, Interrupted
<1>3. ASSUME Thread, ~ Unlink PROVE UNCHANGED torn
  BY <1>3 DEF Thread, Return, Yield, ReadHead, PutBack, Switch, EnterUser, ReturnToUser, Svc,
              SvcEnds
<1>4. ASSUME Unlink PROVE torn => torn'
  BY <1>4 DEF Unlink
<1> QED BY <1>1, <1>2, <1>3, <1>4 DEF Next

\* What is left of the invariant once a yield() has lost its registers.
LEMMA TornStep == IInv /\ TypeOK' /\ [Next]_vars /\ torn' => IInv'
<1> SUFFICES ASSUME IInv, TypeOK', [Next]_vars, torn' PROVE IInv'
  OBVIOUS
<1> USE DEF tasks, yielding
<1>1. torn \/ Unlink
  BY TornStays
<1>2. code # Main /\ place \notin MainPlaces /\ ~ cyclic
  BY <1>1 DEF IInv, MainFirst, LoopInv, Unlink, At, MainPlaces
<1>3. code' # Main /\ place' \notin MainPlaces /\ ~ cyclic'
  <2>1. CASE TickStarts
    <3>1. queue' # <<>> /\ code' = queue'[1] /\ place' = "work" /\ UNCHANGED cyclic
      BY <2>1 DEF TickStarts, Interrupted
    <3>2. code' \in Tasks
      BY <3>1, HeadMember DEF TypeOK
    <3> QED BY <1>2, <3>1, <3>2, SchedAssumption DEF MainPlaces
  <2>2. CASE Boot
    BY <1>2, <2>2 DEF Boot, Create, CreateFails, AssignPid, Push, Idle, At, MainPlaces
  <2>3. CASE TickToNone \/ TickResumes \/ TickFails \/ GoAstray \/ UNCHANGED vars
    <3>1. UNCHANGED <<code, place, cyclic>>
      <4>1. CASE TickToNone
        BY <4>1 DEF TickToNone, Interrupted
      <4>2. CASE TickResumes
        BY <4>2 DEF TickResumes, Interrupted
      <4>3. CASE TickFails \/ GoAstray \/ UNCHANGED vars
        BY <4>3 DEF TickFails, GoAstray, vars, run
      <4> QED BY <2>3, <4>1, <4>2, <4>3
    <3> QED BY <1>2, <3>1
  <2>4. CASE Thread
    <3>1. UNCHANGED <<code, cyclic>> /\ (place' = place \/ place' \in TaskPlaces)
      <4>1. CASE Return \/ Yield \/ ReadHead
        BY <4>1 DEF Return, Yield, ReadHead, TaskPlaces
      <4>2. CASE Unlink \/ PutBack \/ Switch
        BY <4>2 DEF Unlink, PutBack, Switch, TaskPlaces
      <4>3. CASE EnterUser \/ ReturnToUser \/ Svc \/ SvcEnds
        BY <4>3 DEF EnterUser, ReturnToUser, Svc, SvcEnds, TaskPlaces
      <4> QED BY <2>4, <4>1, <4>2, <4>3 DEF Thread
    <3> QED BY <1>2, <3>1 DEF MainPlaces, TaskPlaces
  <2> QED BY <2>1, <2>2, <2>3, <2>4 DEF Next, Tick
<1> QED BY <1>3, HandStep DEF IInv, MainFirst, LoopInv, MainPlaces

\* What is left of it when the queue and the stacks stay and the code goes on.
LEMMA PlaceStep ==
  ASSUME IInv, ~ torn, TypeOK', InHand',
         UNCHANGED <<queue, cyclic, tasks, completed, frame, code, stack, popped, torn>>,
         \/ place' = place /\ (lost => lost')
         \/ place \in Kernel /\ place' \in Kernel \ {"work"}
         \/ place = "create" /\ place' = "idle",
         running' = running \/ code # Main
  PROVE  IInv'
<1> USE DEF IInv, Untorn, tasks
<1>1. MainFirst'
  BY DEF MainFirst, MainPlaces, Members, Kernel
<1>2. QueueInv'
  BY DEF QueueInv, Distinct, Members, Kernel
<1>3. EndInv' /\ LoopInv'
  BY DEF EndInv, LoopInv, Kernel
<1>4. CodeInv'
  BY DEF CodeInv, Members, Kernel
<1>5. StackInv'
  BY DEF StackInv, StacksApart, Members, Kernel
<1> QED BY <1>1, <1>2, <1>3, <1>4, <1>5

\* main() makes a task and queues it.
LEMMA BootStep ==
  ASSUME IInv, ~ torn, TypeOK', InHand', (\E t \in Tasks : Create(t)) \/ AssignPid \/ (Push /\ ~ cyclic)
  PROVE  IInv'
<1> USE DEF IInv, Untorn, tasks, yielding
<1>1. place \in {"create", "pid", "push"} /\ code = Main
  BY DEF Create, AssignPid, Push, At, MainFirst, MainPlaces
<1>2. /\ UNCHANGED <<code, stack, frame, running, torn>>
      /\ stack = Main /\ \A t \in Tasks : frame[t] = t /\ ~ completed[t] /\ ~ running[t]
  BY <1>1 DEF Create, AssignPid, Push, MainFirst
<1>3. CASE \E t \in Tasks : Create(t)
  <2>1. PICK t \in Tasks : Create(t)
    BY <1>3
  <2>2. CurrTask # None => CurrTask \in Tasks
    BY HeadMember DEF CurrTask, TypeOK
  <2>3. completed'[t] = FALSE /\ \A u \in Tasks : u # t => completed'[u] = completed[u]
    BY <2>1, <2>2, <1>2 DEF Create, TypeOK
  <2>4. \A u \in Tasks : ~ completed'[u]
    BY <2>3, <1>2
  <2>5. /\ UNCHANGED <<queue, cyclic, pid_cntr>> /\ place' = "pid" /\ new' = t
        /\ made' = made \cup {t} /\ t \notin made /\ (chained' <=> Len(queue) >= 2)
    BY <2>1 DEF Create
  <2>6. MainFirst'
    BY <2>4, <2>5, <1>1, <1>2 DEF MainFirst, MainPlaces, QueueInv
  <2>7. QueueInv'
    BY <2>5 DEF QueueInv
  <2>8. EndInv' /\ LoopInv'
    BY <2>5, <1>1, <1>2 DEF EndInv, LoopInv
  <2>9. CodeInv'
    BY <2>4, <2>5 DEF CodeInv, Kernel, TypeOK, Members
  <2>10. StackInv'
    BY <2>4, <2>5, <1>1, <1>2 DEF StackInv, StacksApart
  <2> QED BY <2>6, <2>7, <2>8, <2>9, <2>10
<1>4. CASE AssignPid
  <2>1. /\ UNCHANGED <<queue, cyclic, made, new, chained, completed>> /\ place' = "push"
        /\ pid_cntr' = pid_cntr + 1 /\ place = "pid"
    BY <1>4 DEF AssignPid, At
  <2>2. MainFirst'
    BY <2>1, <1>1, <1>2 DEF MainFirst, MainPlaces
  <2>3. QueueInv'
    BY <2>1 DEF QueueInv, TypeOK
  <2>4. EndInv' /\ LoopInv'
    BY <2>1, <1>1, <1>2 DEF EndInv, LoopInv, TypeOK
  <2>5. CodeInv' /\ StackInv'
    BY <2>1, <1>1, <1>2 DEF CodeInv, Kernel, StackInv, StacksApart, TypeOK, Members
  <2> QED BY <2>2, <2>3, <2>4, <2>5
<1>5. CASE Push /\ ~ cyclic
  <2>1. PICK t \in Tasks : t = new /\ t \in made \ Members(queue)
    BY <1>5 DEF MainFirst, TypeOK, Push, At
  <2>2. /\ UNCHANGED <<pid_cntr, made, chained, completed>> /\ place' = "create" /\ place = "push"
        /\ queue' = Append(queue, t) /\ (cyclic' <=> chained /\ queue # <<>>)
    BY <1>5, <2>1 DEF Push, At
  <2>3. /\ queue' \in Seq(Tasks) /\ Len(queue') = Len(queue) + 1
        /\ Distinct(queue') /\ Members(queue') = Members(queue) \cup {t}
    BY <2>1, <2>2, AppendMembers DEF QueueInv, TypeOK
  <2>4. Len(queue) \in Nat /\ Len(queue) + 1 < pid_cntr /\ pid_cntr \in Nat
    BY <2>2 DEF QueueInv, TypeOK
  <2>5. MainFirst'
    BY <2>2, <1>1, <1>2 DEF MainFirst, MainPlaces
  <2>6. QueueInv'
    BY <2>1, <2>2, <2>3, <2>4 DEF QueueInv
  <2>7. EndInv' /\ LoopInv'
    <3>1. chained <=> Len(queue) >= 2
      BY <2>2 DEF EndInv, LoopInv
    <3>2. Len(queue) >= 2 => queue # <<>>
      BY <2>4
    <3> QED BY <3>1, <3>2, <2>2, <2>3, <2>4, <1>1, <1>2 DEF EndInv, LoopInv
  <2>8. Members(queue') \subseteq Tasks
    BY <2>1, <2>3 DEF Members, TypeOK
  <2>9. CodeInv'
    BY <2>2, <2>8, <1>2 DEF CodeInv, Kernel
  <2>10. StackInv'
    BY <2>2, <2>8, <1>1, <1>2 DEF StackInv, StacksApart
  <2> QED BY <2>5, <2>6, <2>7, <2>9, <2>10
<1> QED BY <1>3, <1>4, <1>5

\* An interrupt: the head's stack is saved, the queue is rotated.
LEMMA RotationStep ==
  ASSUME IInv, ~ torn, TypeOK', InHand', Interrupted, pid_cntr # 1, queue' = Rotated, Save,
         \/ TickStarts
         \/ TickResumes
         \/ Rotated = <<>> /\ Clobbered /\ UNCHANGED <<running, code, place, stack, popped>>
  PROVE  IInv'
<1> USE DEF IInv, Untorn, tasks
<1>1. /\ queue # <<>> /\ ~ cyclic /\ UNCHANGED <<cyclic, pid_cntr, made, new, chained, completed, torn>>
      /\ place \notin {"svc", "user"}
  BY DEF Interrupted
<1>2. PICK h \in Tasks : h = queue[1] /\ h \in Members(queue)
  BY <1>1, HeadMember DEF TypeOK
<1>3. /\ queue' \in Seq(Tasks) /\ Distinct(queue')
      /\ completed[h] => Len(queue') = Len(queue) - 1 /\ Members(queue') = Members(queue) \ {h}
      /\ ~ completed[h] => Len(queue') = Len(queue) /\ Members(queue') = Members(queue)
  BY <1>1, <1>2, RotatedMembers DEF TypeOK, QueueInv
<1>4. Len(queue) \in Nat /\ Len(queue) <= 2 /\ Len(queue') \in Nat /\ Len(queue') <= Len(queue)
  BY <1>1, <1>3 DEF EndInv, TypeOK
<1>5. /\ frame' = [frame EXCEPT ![h] = stack]
      /\ frame'[h] = stack /\ \A t \in Tasks : t # h => frame'[t] = frame[t]
  BY <1>2 DEF Save, TypeOK
<1>6. Members(queue) \subseteq Tasks
  BY DEF Members, TypeOK
<1>7. Members(queue') \subseteq Members(queue)
  BY <1>3
\* The task whose code or whose stack is taken.
<1>8. queue' # <<>> => queue'[1] \in Tasks /\ queue'[1] \in Members(queue')
  BY <1>3, HeadMember
<1>9. code = Main => ~ completed[h] /\ ~ running[queue'[1]] /\ queue' # <<>>
  <2> SUFFICES ASSUME code = Main PROVE ~ completed[h] /\ ~ running[queue'[1]] /\ queue' # <<>>
    OBVIOUS
  <2>1. ~ completed[h]
    BY <1>2 DEF MainFirst
  <2>2. Len(queue') = Len(queue) /\ Len(queue) # 0
    BY <2>1, <1>1, <1>3 DEF TypeOK
  <2>3. queue' # <<>>
    BY <2>2
  <2> QED BY <2>1, <2>3, <1>8 DEF MainFirst
<1>10. \/ /\ code' = queue'[1] /\ place' = "work" /\ queue' # <<>>
       \/ code' = code /\ place' = place /\ code # Main /\ running' = running
  BY <1>9 DEF TickStarts, TickResumes
<1>11. MainFirst'
  <2>1. code' # Main /\ place' \notin MainPlaces
    BY <1>8, <1>10, SchedAssumption DEF MainFirst, MainPlaces
  <2> QED BY <2>1 DEF MainFirst, MainPlaces
<1>12. QueueInv'
  <2>1. place' # "push"
    BY <1>10 DEF MainFirst, MainPlaces
  <2>2. Len(queue') < pid_cntr /\ Members(queue') \subseteq made
    BY <1>4, <1>7 DEF QueueInv, TypeOK
  <2> QED BY <2>1, <2>2, <1>1, <1>3 DEF QueueInv
<1>13. EndInv' /\ LoopInv'
  <2>1. place' \notin {"pid", "push"}
    BY <1>10 DEF MainFirst, MainPlaces
  <2> QED BY <2>1, <1>1, <1>4 DEF EndInv, LoopInv
\* The stack that the interrupt finds is the head's, unless yield() has dropped a task.
<1>17. code # Main /\ place # "switch" => stack = frame[h] /\ \A t \in Tasks : frame'[t] = frame[t]
  BY <1>1, <1>2, <1>5 DEF StackInv
\* Where the head has completed and another comes first, its stack is another.
<1>18. ASSUME code # Main, place # "switch", completed[h], queue' # <<>>, stack' = frame'[queue'[1]]
       PROVE  stack' # stack
  <2>1. queue'[1] \in Members(queue) /\ queue'[1] \in Tasks /\ queue'[1] # h
    BY <1>3, <1>8, <1>18
  <2>2. frame[queue'[1]] # frame[h]
    BY <2>1, <1>2 DEF StackInv, StacksApart
  <2> QED BY <1>17, <1>18, <2>1, <2>2
<1>14. CodeInv'
  \* Only the head can have completed, and then it is dropped.
  <2>1. \A t \in Members(queue') : ~ completed[t]
    <3> SUFFICES ASSUME NEW t \in Members(queue'), completed[t] PROVE FALSE
      OBVIOUS
    <3>1. t = h /\ completed[h]
      BY <1>2, <1>7 DEF CodeInv
    <3> QED BY <3>1, <1>3
  <2>2. CASE code' = queue'[1] /\ place' = "work" /\ queue' # <<>>
    BY <2>1, <2>2, <1>1, <1>8 DEF CodeInv, Kernel
  <2>3. CASE ~ (code' = queue'[1] /\ place' = "work" /\ queue' # <<>>)
    <3>1. code' = code /\ place' = place /\ code # Main /\ popped' = popped
      BY <1>10, <2>3 DEF TickStarts, TickResumes
    <3>2. queue' # <<>> => stack' = frame'[queue'[1]]
      BY DEF TickStarts, TickResumes
    <3>3. ~ lost' => ~ lost /\ stack' = stack
      BY <1>10, <2>3 DEF TickStarts, TickResumes, Clobbered, TypeOK
    <3>4. CASE place \in Kernel
      <4>1. code \in Members(queue) /\ ~ completed[h]
        BY <3>4, <1>2 DEF CodeInv, Kernel
      <4>2. code \in Members(queue')
        BY <4>1, <1>3
      <4> QED BY <3>1, <3>4, <4>2, <2>1, <1>1 DEF CodeInv, Kernel
    <3>5. CASE place = "done"
      <4>1. ~ lost' => queue' = <<>>
        <5> SUFFICES ASSUME ~ lost', queue' # <<>> PROVE FALSE
          OBVIOUS
        <5>1. completed[h]
          BY <3>3, <3>5, <1>1, <1>2 DEF CodeInv
        <5> QED BY <5>1, <3>1, <3>2, <3>3, <3>5, <1>18
      <4> QED BY <3>1, <3>5, <4>1, <2>1, <1>1 DEF CodeInv, Kernel
    <3>6. CASE place \in {"pop", "unlink"}
      <4>1. lost'
        <5> SUFFICES ASSUME ~ lost' PROVE FALSE
          OBVIOUS
        <5>1. completed[h] /\ Len(queue) = 2
          BY <3>3, <3>6, <1>1, <1>2 DEF CodeInv
        <5>2. Len(queue') = 1
          BY <5>1, <1>3
        <5>3. queue' # <<>>
          BY <5>2
        <5> QED BY <5>1, <5>3, <3>1, <3>2, <3>3, <3>6, <1>18
      <4> QED BY <3>1, <3>6, <4>1, <2>1, <1>1 DEF CodeInv, Kernel
    <3>7. CASE place = "switch"
      BY <3>1, <3>7, <2>1, <1>1 DEF CodeInv, Kernel
    <3> QED
      BY <3>1, <3>4, <3>5, <3>6, <3>7
        DEF MainFirst, CodeInv, TypeOK, MainPlaces, TaskPlaces, Kernel
  <2> QED BY <2>2, <2>3
<1>15. StackInv'
  <2>1. StacksApart'
    <3> SUFFICES ASSUME NEW t \in Members(queue'), NEW u \in Members(queue'),
                        frame'[t] = frame'[u]
                 PROVE  t = u
      BY DEF StacksApart
    <3>1. t \in Members(queue) /\ u \in Members(queue) /\ t \in Tasks /\ u \in Tasks
      BY <1>6, <1>7
    <3>2. CASE code = Main
      <4>1. stack = Main /\ \A v \in Tasks : frame[v] = v /\ v # Main
        BY <3>2, SchedAssumption DEF MainFirst
      <4> QED BY <3>1, <4>1, <1>5
    <3>3. CASE code # Main /\ place # "switch"
      <4>1. stack = frame[h]
        BY <3>3, <1>1, <1>2 DEF StackInv
      <4>2. \A v \in Tasks : frame'[v] = frame[v]
        BY <4>1, <1>5
      <4> QED BY <3>1, <4>2 DEF StackInv, StacksApart
    <3>4. CASE place = "switch"
      <4>1. Len(queue) = 1
        BY <3>4, <1>1 DEF StackInv
      <4>2. DOMAIN queue = 1 .. Len(queue) /\ 1 .. Len(queue) = {1}
        BY <4>1, <1>4 DEF TypeOK
      <4> QED BY <3>1, <4>2 DEF Members
    <3> QED BY <3>2, <3>3, <3>4
  <2>2. queue' # <<>> => stack' = frame'[queue'[1]]
    BY DEF TickStarts, TickResumes
  <2>3. place' \in {"work", "done", "pop", "unlink"} /\ ~ lost' => stack' = frame'[code']
    <3>1. CASE code' = queue'[1] /\ place' = "work" /\ queue' # <<>>
      BY <2>2, <3>1
    <3>2. CASE ~ (code' = queue'[1] /\ place' = "work" /\ queue' # <<>>)
      <4>1. code' = code /\ place' = place /\ code # Main
        BY <1>10, <3>2
      <4>2. ~ lost' => ~ lost /\ stack' = stack
        BY <1>10, <3>2 DEF TickStarts, TickResumes, Clobbered, TypeOK
      <4>3. code \in Tasks
        BY <4>1 DEF TypeOK
      <4> QED BY <4>1, <4>2, <4>3, <1>17 DEF StackInv
    <3> QED BY <3>1, <3>2
  <2>4. place' = "switch" /\ queue' # <<>> => Len(queue') = 1
    <3> SUFFICES ASSUME place' = "switch", queue' # <<>> PROVE Len(queue') = 1
      OBVIOUS
    <3>1. place = "switch"
      BY <1>10
    <3>2. Len(queue) = 1 /\ Len(queue') # 0
      BY <3>1, <1>1, <1>3 DEF StackInv
    <3> QED BY <3>2, <1>4
  <2> QED BY <2>1, <2>2, <2>3, <2>4 DEF StackInv
<1> QED BY <1>1, <1>11, <1>12, <1>13, <1>14, <1>15

\* An interrupt before there is a task changes nothing but registers.
LEMMA TickStep ==
  ASSUME IInv, ~ torn, TypeOK', InHand', TickToNone \/ TickStarts \/ TickResumes PROVE IInv'
<1>1. CASE pid_cntr = 1
  <2>1. UNCHANGED <<queue, frame, running, code, place, stack, popped, cyclic, tasks, completed, torn>>
    BY <1>1 DEF TickToNone, TickStarts, TickResumes, Interrupted
  <2>2. lost => lost'
    BY <1>1 DEF TickToNone, TickStarts, TickResumes, Clobbered
  <2> QED BY <2>1, <2>2, PlaceStep
<1>2. CASE pid_cntr # 1
  <2>1. Interrupted /\ Save /\ queue' = Rotated
    BY <1>2 DEF TickToNone, TickStarts, TickResumes
  <2>2. \/ TickStarts \/ TickResumes
        \/ Rotated = <<>> /\ Clobbered /\ UNCHANGED <<running, code, place, stack, popped>>
    BY <1>2 DEF TickToNone
  <2> QED BY <1>2, <2>1, <2>2, RotationStep
<1> QED BY <1>1, <1>2

\* The task that is marked is the head, and itself if the code has its registers.
LEMMA ReturnStep ==
  ASSUME IInv, ~ torn, TypeOK', InHand', Return
  PROVE  IInv' /\ queue # <<>> /\ CurrTask = queue[1]
<1> USE DEF IInv, Untorn, tasks, yielding
<1>1. /\ place = "work" /\ place' = "done" /\ code # Main
      /\ UNCHANGED <<queue, cyclic, pid_cntr, made, new, chained, running, frame, code, stack, lost, popped, torn>>
      /\ completed' = [t \in Tasks |-> completed[t] \/ t = CurrTask]
  BY DEF Return, At, MainFirst, MainPlaces
<1>2. code \in Members(queue)
  BY <1>1 DEF CodeInv, Kernel
<1>3. queue # <<>> /\ queue[1] \in Tasks /\ queue[1] \in Members(queue) /\ Len(queue) >= 1
  BY <1>2, HeadMember DEF Members, TypeOK
<1>4. CurrTask = queue[1]
  BY <1>3 DEF CurrTask, QueueInv, TypeOK
<1>5. ~ lost => code = queue[1]
  BY <1>1, <1>2, <1>3 DEF StackInv, StacksApart
<1>6. Members(queue) \subseteq Tasks
  BY DEF Members, TypeOK
<1>7. MainFirst'
  BY <1>1 DEF MainFirst, MainPlaces
<1>8. QueueInv' /\ EndInv' /\ LoopInv'
  BY <1>1 DEF QueueInv, EndInv, LoopInv, Distinct, Members
<1>9. CodeInv'
  <2>1. \A t \in Members(queue) : completed'[t] <=> t = queue[1]
    BY <1>1, <1>3, <1>4, <1>6 DEF CodeInv
  <2>2. Members(queue') = Members(queue)
    BY <1>1
  <2> QED BY <2>1, <2>2, <1>1, <1>3, <1>5 DEF CodeInv, Kernel
<1>10. StackInv'
  BY <1>1 DEF StackInv, StacksApart, Members
<1> QED BY <1>1, <1>3, <1>4, <1>7, <1>8, <1>9, <1>10

\* yield() looks whether there is another task, and takes the head.
LEMMA YieldStep == ASSUME IInv, ~ torn, TypeOK', InHand', Yield \/ ReadHead PROVE IInv'
<1> USE DEF IInv, Untorn, tasks, yielding
<1>1. /\ UNCHANGED <<queue, cyclic, pid_cntr, made, new, chained, running, completed, frame, code, stack, lost, torn>>
      /\ place \in {"done", "pop"} /\ place' \in {"pop", "unlink", "switch"} /\ code # Main
  BY DEF Yield, ReadHead, At, MainFirst, MainPlaces
<1>2. MainFirst'
  BY <1>1 DEF MainFirst, MainPlaces
<1>3. QueueInv' /\ EndInv' /\ LoopInv'
  BY <1>1 DEF QueueInv, EndInv, LoopInv, Distinct, Members
<1>4. Members(queue') = Members(queue)
  BY <1>1
<1>5. CASE Yield
  <2>1. place = "done" /\ place' = "pop" /\ Len(queue) >= 2 /\ UNCHANGED popped
    BY <1>5 DEF Yield, At
  <2>2. Len(queue) = 2 /\ queue # <<>>
    <3>1. ~ cyclic /\ Len(queue) \in Nat
      BY <1>1 DEF LoopInv, TypeOK
    <3>2. Len(queue) <= 2
      BY <3>1 DEF EndInv
    <3>3. PICK n \in Nat : n = Len(queue) /\ n >= 2 /\ n <= 2
      BY <2>1, <3>1, <3>2
    <3>4. Len(queue) = 2
      BY <3>3
    <3> QED BY <3>4
  <2>3. CodeInv'
    BY <1>1, <1>4, <2>1, <2>2 DEF CodeInv, Kernel
  <2>4. StackInv'
    BY <1>1, <1>4, <2>1 DEF StackInv, StacksApart
  <2> QED BY <1>1, <1>2, <1>3, <2>3, <2>4
<1>6. CASE ReadHead
  <2>1. /\ place = "pop"
        /\ \/ queue = <<>> /\ place' = "switch"
           \/ queue # <<>> /\ place' = "unlink" /\ popped' = queue[1]
    BY <1>6 DEF ReadHead, At
  <2>2. queue = <<>> => Members(queue) = {}
    BY DEF Members
  <2>3. CodeInv'
    BY <1>1, <1>4, <2>1, <2>2 DEF CodeInv, Kernel
  <2>4. StackInv'
    BY <1>1, <1>4, <2>1 DEF StackInv, StacksApart
  <2> QED BY <1>1, <1>2, <1>3, <2>3, <2>4
<1> QED BY <1>5, <1>6

\* With its registers, yield() takes out the task that calls it.
LEMMA UnlinkDropsCaller ==
  ASSUME IInv, ~ torn, Unlink, ~ torn'
  PROVE  /\ popped = code /\ code = queue[1] /\ completed[code] /\ Len(queue) = 2
         /\ queue' = Tail(queue) /\ queue # <<>> /\ place' = "switch"
<1>1. place = "unlink" /\ ~ lost
  BY DEF Unlink, At
<1>2. popped = code /\ code = queue[1] /\ completed[code] /\ Len(queue) = 2
  BY <1>1 DEF IInv, Untorn, CodeInv
<1>3. queue # <<>> /\ queue \in Seq(Tasks) /\ Distinct(queue)
  <2>1. queue # <<>>
    BY <1>2
  <2> QED BY <2>1 DEF IInv, Untorn, QueueInv, TypeOK
<1> QED BY <1>2, <1>3, FollowingHead DEF Unlink

LEMMA UnlinkStep == ASSUME IInv, ~ torn, ~ torn', TypeOK', InHand', Unlink PROVE IInv'
<1> USE DEF IInv, Untorn, tasks
<1>1. /\ code = queue[1] /\ completed[code] /\ Len(queue) = 2 /\ queue # <<>>
      /\ queue' = Tail(queue) /\ place' = "switch"
  BY UnlinkDropsCaller
<1>2. /\ UNCHANGED <<cyclic, pid_cntr, made, new, chained, running, completed, frame, code, stack, lost>>
      /\ place = "unlink" /\ code # Main /\ ~ lost
  BY DEF Unlink, At, MainFirst, MainPlaces
<1>3. /\ queue' \in Seq(Tasks) /\ Len(queue') = 1 /\ Distinct(queue')
      /\ Members(queue') = Members(queue) \ {code}
  BY <1>1, TailMembers DEF QueueInv, TypeOK
<1>4. MainFirst'
  BY <1>1, <1>2 DEF MainFirst, MainPlaces
<1>5. QueueInv' /\ EndInv' /\ LoopInv'
  BY <1>1, <1>2, <1>3 DEF QueueInv, EndInv, LoopInv, TypeOK
<1>6. CodeInv'
  BY <1>1, <1>2, <1>3 DEF CodeInv, Kernel
<1>7. StackInv'
  <2>1. stack = frame[code]
    BY <1>2 DEF StackInv
  <2>2. StacksApart'
    BY <1>2, <1>3 DEF StackInv, StacksApart
  <2> QED BY <2>1, <2>2, <1>1, <1>2, <1>3 DEF StackInv
<1> QED BY <1>4, <1>5, <1>6, <1>7

LEMMA InitIInv == Init => IInv
<1> SUFFICES ASSUME Init PROVE IInv
  OBVIOUS
<1> USE DEF Init
<1>1. Members(queue) = {} /\ Len(queue) = 0 /\ queue \in Seq(Tasks) /\ DOMAIN queue = {}
  BY DEF Members
<1>2. TypeOK
  <2>1. running \in [Tasks -> BOOLEAN] /\ completed \in [Tasks -> BOOLEAN]
    BY Zenon
  <2>2. frame \in [Tasks -> Tasks \cup {Main}]
    OBVIOUS
  <2>3. cyclic \in BOOLEAN /\ chained \in BOOLEAN /\ lost \in BOOLEAN /\ torn \in BOOLEAN
    BY Zenon
  <2>4. /\ pid_cntr \in Nat \ {0} /\ made \subseteq Tasks /\ new \in Tasks \cup {None}
        /\ code \in Tasks \cup {Main} /\ place \in MainPlaces \cup TaskPlaces
        /\ stack \in Tasks \cup {Main} /\ status \in {"up", "hung", "null", "astray"}
        /\ popped \in Tasks \cup {None}
    BY DEF MainPlaces
  <2> QED BY <1>1, <2>1, <2>2, <2>3, <2>4, Zenon DEF TypeOK
<1>3. MainFirst
  BY DEF MainFirst, MainPlaces
<1>4. QueueInv /\ EndInv /\ LoopInv /\ InHand
  BY <1>1 DEF QueueInv, EndInv, LoopInv, InHand, Distinct
<1>5. CodeInv /\ StackInv
  BY <1>1 DEF CodeInv, Kernel, StackInv, StacksApart
<1> QED BY <1>2, <1>3, <1>4, <1>5 DEF IInv, Untorn

LEMMA StepIInv == IInv /\ [Next]_vars => IInv'
<1> SUFFICES ASSUME IInv, [Next]_vars PROVE IInv'
  OBVIOUS
<1> USE DEF yielding
<1>1. TypeOK' /\ InHand'
  BY TypeStep, HandStep
<1>2. CASE torn'
  BY <1>1, <1>2, TornStep
<1>3. CASE ~ torn'
  <2>1. ~ torn
    BY <1>3, TornStays
  <2>2. CASE UNCHANGED vars
    BY <1>1, <2>1, <2>2, PlaceStep DEF vars, run
  <2>3. CASE CreateFails \/ Idle \/ TickFails \/ GoAstray
    BY <1>1, <2>1, <2>3, PlaceStep DEF CreateFails, Idle, TickFails, GoAstray, At
  <2>4. CASE EnterUser \/ ReturnToUser \/ Svc \/ SvcEnds
    BY <1>1, <2>1, <2>4, PlaceStep DEF EnterUser, ReturnToUser, Svc, SvcEnds, At, Kernel
  <2>5. CASE Switch
    <3>1. code # Main
      BY <2>5 DEF Switch, At, IInv, MainFirst, MainPlaces
    <3> QED BY <1>1, <2>1, <2>5, <3>1, PlaceStep DEF Switch
  <2>6. CASE Push
    <3>1. CASE cyclic
      <4>1. UNCHANGED <<queue, cyclic, tasks, completed, frame, code, stack, popped, torn, place, running, lost>>
        BY <2>6, <3>1 DEF Push, tasks
      <4> QED BY <1>1, <2>1, <4>1, PlaceStep
    <3>2. CASE ~ cyclic
      BY <1>1, <2>1, <2>6, <3>2, BootStep
    <3> QED BY <3>1, <3>2
  <2>7. CASE (\E t \in Tasks : Create(t)) \/ AssignPid
    BY <1>1, <2>1, <2>7, BootStep
  <2>8. CASE TickToNone \/ TickStarts \/ TickResumes
    BY <1>1, <2>1, <2>8, TickStep
  <2>9. CASE Return
    BY <1>1, <2>1, <2>9, ReturnStep
  <2>10. CASE Yield \/ ReadHead
    BY <1>1, <2>1, <2>10, YieldStep
  <2>11. CASE Unlink
    BY <1>1, <1>3, <2>1, <2>11, UnlinkStep
  <2>12. CASE PutBack
    BY <2>1, <2>12 DEF PutBack, At, IInv, Untorn, CodeInv
  <2> QED
    BY <2>2, <2>3, <2>4, <2>5, <2>6, <2>7, <2>8, <2>9, <2>10, <2>11, <2>12
      DEF Next, Boot, Tick, Thread
<1> QED BY <1>2, <1>3

-----------------------------------------------------------------------------
(* The theorems *)

\* What the scheduler keeps, whatever interrupts come and for any number of tasks.
THEOREM Invariance == Spec => []IInv
<1>1. Init => IInv
  BY InitIInv
<1>2. IInv /\ [Next]_vars => IInv'
  BY StepIInv
<1> QED BY <1>1, <1>2, PTL DEF Spec

\* The state of the scheduler keeps its type: no NULL is ever queued.
THEOREM TypeCorrect == Spec => []TypeOK
<1>1. IInv => TypeOK
  BY DEF IInv
<1> QED BY <1>1, Invariance, PTL

\* Queued tasks do not share a stack, until a yield() has lost its registers.
THEOREM StacksKept == Spec => []StacksApart
<1>1. IInv => StacksApart
  BY DEF IInv, Untorn, StackInv, StacksApart
<1> QED BY <1>1, Invariance, PTL

\* The stack in use is the one of the queue's head, for which the next interrupt saves it,
\* but in the window from wq_pop() to the end of sched_switch().
THEOREM HeadsStack == Spec => []HeadOnItsStack
<1>1. IInv => HeadOnItsStack
  BY DEF IInv, Untorn, StackInv, HeadOnItsStack
<1> QED BY <1>1, Invariance, PTL

\* What kthread_ret_from_fork() marks is the task on whose stack it runs, whosever code
\* that is.
THEOREM MarksOwner == Spec => MarksStacksOwner
<1> DEFINE Marks == ~ torn => \A t \in Tasks : completed'[t] # completed[t] =>
                      frame[t] = stack /\ (frame[code] = stack => t = code)
<1>1. IInv /\ [Next]_vars => [Marks]_vars
  <2> SUFFICES ASSUME IInv, Next, ~ torn, NEW t \in Tasks, completed'[t] # completed[t]
               PROVE  frame[t] = stack /\ (frame[code] = stack => t = code)
    OBVIOUS
  <2>1. (\E u \in Tasks : Create(u)) \/ Return
    BY DEF Next, Boot, Tick, Thread, CreateFails, AssignPid, Push, Idle, TickToNone, TickStarts,
           TickResumes, TickFails, Interrupted, GoAstray, Yield, ReadHead, Unlink, PutBack,
           Switch, EnterUser, ReturnToUser, Svc, SvcEnds
  <2>2. ASSUME NEW u \in Tasks, Create(u) PROVE FALSE
    <3>1. code = Main /\ place = "create"
      BY <2>2 DEF Create, At, IInv, MainFirst, MainPlaces
    <3>2. \A w \in Tasks : ~ completed[w]
      BY <3>1 DEF IInv, MainFirst
    <3>3. CurrTask \in Tasks \/ CurrTask = None
      BY HeadMember DEF CurrTask, IInv, TypeOK
    <3>4. ~ (CurrTask # None /\ completed[CurrTask])
      BY <3>2, <3>3
    <3>5. completed' = [completed EXCEPT ![u] = FALSE]
      BY <2>2, <3>4 DEF Create
    <3> QED BY <3>2, <3>5 DEF IInv, TypeOK
  <2>3. CASE Return
    <3>1. /\ place = "work" /\ code # Main /\ queue # <<>> /\ CurrTask = queue[1]
      <4>1. place = "work" /\ code # Main
        BY <2>3 DEF Return, At, IInv, MainFirst, MainPlaces
      <4>2. TypeOK' /\ InHand'
        BY TypeStep, HandStep
      <4> QED BY <2>3, <4>1, <4>2, ReturnStep
    <3>2. t = queue[1]
      <4>1. t # CurrTask => completed'[t] = (completed[t] \/ FALSE)
        BY <2>3 DEF Return
      <4>2. completed[t] \in BOOLEAN
        BY DEF IInv, TypeOK
      <4> QED BY <3>1, <4>1, <4>2
    <3>3. stack = frame[queue[1]] /\ queue[1] \in Members(queue)
      BY <3>1, HeadMember DEF IInv, Untorn, StackInv, TypeOK
    <3>4. code \in Members(queue)
      BY <3>1 DEF IInv, Untorn, CodeInv, Kernel
    <3> QED BY <3>2, <3>3, <3>4 DEF IInv, Untorn, StackInv, StacksApart
  <2> QED BY <2>1, <2>2, <2>3
<1>2. Spec => [][Next]_vars
  BY PTL DEF Spec
<1> QED BY <1>1, <1>2, Invariance, PTL DEF MarksStacksOwner

\* yield() with its registers takes out the task that calls it, wherever interrupts came
\* between its looks at the queue.
THEOREM YieldSafe == Spec => []YieldDropsItself
<1>1. IInv => YieldDropsItself
  BY DEF IInv, Untorn, CodeInv, YieldDropsItself, At
<1> QED BY <1>1, Invariance, PTL

\* clone() closes a loop in the queue with the third task at the earliest.
THEOREM LoopsLate == Spec => []LoopsWithThree
<1>1. IInv => LoopsWithThree
  BY DEF IInv, LoopInv, LoopsWithThree
<1> QED BY <1>1, Invariance, PTL

\* A task that is queued stays so until it has completed, and none is queued twice, over
\* main()'s steps, the timer's and those of a yield() that has its registers.
THEOREM TasksKept == Spec => StaysQueued
<1> DEFINE Keeps == ~ torn' =>
             /\ \A t \in Members(queue) : t \in Members(queue') \/ completed[t]
             /\ \A i, j \in DOMAIN queue' : queue'[i] = queue'[j] => i = j
<1>1. IInv /\ IInv' /\ [Next]_vars => [Keeps]_vars
  <2> SUFFICES ASSUME IInv, IInv', Next, ~ torn'
               PROVE  /\ \A t \in Members(queue) : t \in Members(queue') \/ completed[t]
                      /\ \A i, j \in DOMAIN queue' : queue'[i] = queue'[j] => i = j
    OBVIOUS
  <2>0. ~ torn
    BY TornStays
  <2>1. \A i, j \in DOMAIN queue' : queue'[i] = queue'[j] => i = j
    BY DEF IInv, Untorn, QueueInv, Distinct
  <2>2. CASE UNCHANGED queue
    BY <2>1, <2>2
  <2>3. CASE Push /\ ~ cyclic
    <3>1. new \in Tasks /\ new \notin Members(queue) /\ queue' = Append(queue, new)
      BY <2>3 DEF Push, At, IInv, MainFirst, TypeOK
    <3>2. PICK t \in Tasks : t = new
      BY <3>1
    <3>3. Members(Append(queue, t)) = Members(queue) \cup {t}
      BY <2>0, <3>1, <3>2, AppendMembers DEF IInv, Untorn, QueueInv, TypeOK
    <3> QED BY <2>1, <3>1, <3>2, <3>3
  <2>4. CASE queue' = Rotated /\ queue # <<>>
    <3>1. \/ Members(Rotated) = Members(queue)
          \/ completed[queue[1]] /\ Members(Rotated) = Members(queue) \ {queue[1]}
      BY <2>0, <2>4, RotatedMembers DEF IInv, Untorn, QueueInv, TypeOK
    <3> QED BY <2>1, <2>4, <3>1
  <2>5. CASE Unlink
    <3>1. completed[queue[1]] /\ queue' = Tail(queue) /\ queue # <<>>
      BY <2>0, <2>5, UnlinkDropsCaller
    <3>2. Members(queue') = Members(queue) \ {queue[1]}
      BY <2>0, <3>1, TailMembers DEF IInv, Untorn, QueueInv, TypeOK
    <3> QED BY <2>1, <3>1, <3>2
  <2>6. ~ PutBack
    BY <2>0 DEF PutBack, At, IInv, Untorn, CodeInv
  <2>7. \/ UNCHANGED queue \/ (Push /\ ~ cyclic) \/ (queue' = Rotated /\ queue # <<>>)
        \/ Unlink
    <3>1. CASE Tick
      <4>1. CASE TickFails
        BY <4>1 DEF TickFails
      <4>2. CASE TickToNone \/ TickStarts \/ TickResumes
        BY <4>2 DEF TickToNone, TickStarts, TickResumes, Interrupted
      <4> QED BY <3>1, <4>1, <4>2 DEF Tick
    <3>2. CASE Boot
      BY <3>2 DEF Boot, Create, CreateFails, AssignPid, Push, Idle
    <3>3. CASE GoAstray
      BY <3>3 DEF GoAstray
    <3>4. CASE Thread
      BY <2>6, <3>4 DEF Thread, Return, Yield, ReadHead, Switch, EnterUser, ReturnToUser, Svc,
                        SvcEnds
    <3> QED BY <3>1, <3>2, <3>3, <3>4 DEF Next
  <2> QED BY <2>2, <2>3, <2>4, <2>5, <2>7
<1>2. Spec => [][Next]_vars
  BY PTL DEF Spec
<1> QED BY <1>1, <1>2, Invariance, PTL DEF StaysQueued

-----------------------------------------------------------------------------
(* What of Started and of GoneWhenDone is safety: how far one interrupt gets. *)

\* When the core lives through an interrupt of the timer, every queued task but the
\* one that was first has been started, and a task that had completed is gone.
TicksMoveOn ==
  [][Tick /\ status' = "up" /\ ~ torn =>
       \A t \in Members(queue) :
         /\ t # queue[1] => running'[t]
         /\ completed[t] => t \notin Members(queue')]_vars

\* The queue's second task comes first when it is rotated, and is its only other one.
LEMMA SecondComesFirst ==
  ASSUME IInv, ~ torn, ~ cyclic, NEW t \in Members(queue), t # queue[1]
  PROVE  Rotated # <<>> /\ Rotated[1] = t
<1>1. /\ queue \in Seq(Tasks) /\ Len(queue) \in Nat /\ Len(queue) <= 2
      /\ DOMAIN queue = 1 .. Len(queue)
  BY DEF IInv, Untorn, TypeOK, EndInv
<1>2. PICK i \in DOMAIN queue : t = queue[i]
  BY DEF Members
<1>3. i = 2 /\ Len(queue) = 2 /\ queue # <<>>
  BY <1>1, <1>2
<1>4. /\ Tail(queue) \in Seq(Tasks) /\ Len(Tail(queue)) = 1 /\ Tail(queue)[1] = queue[2]
  BY <1>1, <1>3
<1>5. CASE completed[queue[1]]
  BY <1>2, <1>3, <1>4, <1>5 DEF Rotated
<1>6. CASE ~ completed[queue[1]]
  <2>1. queue[1] \in Tasks
    BY <1>1, <1>3
  <2>2. PICK q \in Seq(Tasks), h \in Tasks : q = Tail(queue) /\ h = queue[1] /\ Len(q) = 1
    BY <1>4, <2>1
  <2>3. /\ Len(Append(q, h)) = Len(q) + 1
        /\ \A j \in 1 .. Len(q) : Append(q, h)[j] = q[j]
    OBVIOUS
  <2>4. Append(q, h)[1] = q[1] /\ Append(q, h) # <<>>
    <3>0. Len(q) = 1
      BY <2>2, Zenon
    <3>1. 1 \in 1 .. Len(q)
      BY <3>0
    <3>2. Append(q, h)[1] = q[1]
      BY <2>3, <3>1
    <3>3. Append(q, h) # <<>>
      OBVIOUS
    <3> QED BY <3>2, <3>3
  <2> QED BY <1>2, <1>3, <1>4, <1>6, <2>2, <2>3, <2>4 DEF Rotated
<1> QED BY <1>5, <1>6

\* One interrupt is enough, if the core lives through it.
THEOREM OneTickMovesOn == Spec => TicksMoveOn
<1>1. ASSUME IInv, Tick, status' = "up", ~ torn, NEW t \in Members(queue)
      PROVE  /\ t # queue[1] => running'[t]
             /\ completed[t] => t \notin Members(queue')
  <2>1. ~ TickFails
    BY <1>1 DEF TickFails
  <2>2. /\ TypeOK /\ Distinct(queue) /\ queue \in Seq(Tasks) /\ t \in Tasks
        /\ Len(queue) \in Nat /\ DOMAIN queue = 1 .. Len(queue)
    BY <1>1 DEF IInv, Untorn, TypeOK, QueueInv, Members
  <2>3. queue # <<>> /\ pid_cntr # 1
    <3>1. PICK i \in DOMAIN queue : t = queue[i]
      BY <1>1 DEF Members
    <3>2. Len(queue) >= 1
      BY <2>2, <3>1
    <3> QED BY <1>1, <2>2, <3>2 DEF IInv, Untorn, QueueInv, TypeOK
  <2>4. ~ cyclic /\ queue' = Rotated
    BY <1>1, <2>1, <2>3 DEF Tick, TickToNone, TickStarts, TickResumes, Interrupted
  <2>5. ASSUME t # queue[1] PROVE running'[t]
    <3>1. Rotated # <<>> /\ Rotated[1] = t
      BY <1>1, <2>4, <2>5, SecondComesFirst
    <3>2. CASE TickStarts
      BY <2>2, <3>1, <3>2 DEF TickStarts, TypeOK
    <3>3. CASE TickResumes
      BY <3>1, <3>3 DEF TickResumes
    <3>4. CASE TickToNone
      BY <2>3, <3>1, <3>4 DEF TickToNone
    <3> QED BY <1>1, <2>1, <3>2, <3>3, <3>4 DEF Tick
  <2>6. ASSUME completed[t] PROVE t \notin Members(queue')
    <3>1. t = queue[1]
      BY <1>1, <2>6 DEF IInv, Untorn, CodeInv
    <3> QED BY <2>2, <2>3, <2>4, <2>6, <3>1, RotatedMembers
  <2> QED BY <2>5, <2>6
<1>2. IInv /\ [Next]_vars =>
        [Tick /\ status' = "up" /\ ~ torn =>
           \A t \in Members(queue) :
             /\ t # queue[1] => running'[t]
             /\ completed[t] => t \notin Members(queue')]_vars
  BY <1>1
<1>3. Spec => [][Next]_vars
  BY PTL DEF Spec
<1> QED BY <1>2, <1>3, Invariance, PTL DEF TicksMoveOn

=============================================================================
