-------------------------- MODULE MultitaskProofs --------------------------
(***************************************************************************)
(* Proofs about Multitask, for any number of tasks, any roles, any widths  *)
(* and any nesting of timer interrupts.                                    *)
(*                                                                         *)
(* The invariants the runs check say what the top of every stack is.  They *)
(* are not inductive: iret uncovers the frame below, and a saved frame is  *)
(* used long after it was written.  Inv adds what every frame of a stack   *)
(* must be (GoodStack).                                                    *)
(*                                                                         *)
(* For ready_to_run_counter it is strengthened by CountInv: a task's own   *)
(* code is at the bottom of its stack only, so that every half-done update *)
(* of the counter is counted once (BottomOK).  Every step then moves the   *)
(* counter and the number of tasks that can run together (Balance), modulo *)
(* the counter's width (Turn, Account).                                    *)
(* And for the list: ListInv says which tasks are not on it yet (Outside)  *)
(* and that nothing points to them.  What each edit of the list does is    *)
(* said of its trail, the walk from head along next_task; that such walks  *)
(* are unique, end for good and meet no task twice is shown by induction   *)
(* on their length (Inductive, from the order of the naturals).            *)
(***************************************************************************)
EXTENDS Multitask, SequenceTheorems, FiniteSetTheorems, WellFoundedInduction,
        TLAPS

(* What the code at a frame's point relies on.                             *)
FrameOK(t, f) ==
  /\ f \in Frames
  /\ f.pc \in {"unblock_return", "pit_flag", "pit_unblock"} => f.x \in Tasks
  /\ f.pc = "sleep_until" => f.n < TickMod
  /\ f.pc \in {"create_store", "soft_store"} => f.n < CounterMod
  /\ f.pc \in {"soft_load", "soft_store", "soft_state"} => f.x # t

(* A task's own frame is at the bottom, interrupt handlers are above it,   *)
(* and only the top may wait in dispatcher.                                *)
GoodStack(t, q) ==
  /\ q \in Seq(Frames)
  /\ q # <<>>
  /\ \A i \in 1..Len(q) : FrameOK(t, q[i])
  /\ \A i \in 1..(Len(q) - 1) : q[i].pc \notin ResumePoints
  /\ q[1].pc \notin HandlerPoints

GoodStacksOf(s) == /\ s \in [AllTasks -> Seq(Frames)]
                   /\ \A t \in AllTasks : GoodStack(t, s[t])

GoodStacks == GoodStacksOf(stack)

TopOf(s, t) == s[t][Len(s[t])]

Types ==
  /\ head \in Tasks \cup {NoTask}
  /\ next_task \in [AllTasks -> Tasks \cup {NoTask}]
  /\ state \in [AllTasks -> States]
  /\ sleep_until \in [AllTasks -> 0..(TickMod - 1)]
  /\ freed \subseteq Tasks
  /\ current_task \in AllTasks
  /\ ready_to_run_counter \in 0..(CounterMod - 1)
  /\ lock_irq_counter \in Nat
  /\ interrupts_on \in BOOLEAN
  /\ tick \in 0..(TickMod - 1)
  /\ prev \in Tasks \cup {NoTask}
  /\ halt \in {"no", "spin", "wild"}

Inv == Types /\ GoodStacks /\ IrqLockHandedOver /\ CurrentRuns

-----------------------------------------------------------------------------
(* The three things a step does to a stack.                                *)

(* The top frame is replaced.                                              *)
LEMMA ReplaceTop ==
  ASSUME NEW t, NEW q, GoodStack(t, q), NEW f, FrameOK(t, f),
         q[Len(q)].pc \in HandlerPoints \/ f.pc \notin HandlerPoints
  PROVE  LET r == [q EXCEPT ![Len(q)] = f]
         IN GoodStack(t, r) /\ Len(r) = Len(q) /\ r[Len(r)] = f
<1> DEFINE r == [q EXCEPT ![Len(q)] = f]
<1>1. q \in Seq(Frames) /\ Len(q) \in Nat \ {0} /\ f \in Frames
  BY DEF GoodStack, FrameOK
<1>2. r \in Seq(Frames) /\ Len(r) = Len(q)
  BY <1>1
<1>3. \A i \in 1..Len(q) : r[i] = IF i = Len(q) THEN f ELSE q[i]
  BY <1>1
<1> HIDE DEF r
<1>4. GoodStack(t, r)
  <2>1. r # <<>>
    BY <1>1, <1>2
  <2>2. \A i \in 1..Len(r) : FrameOK(t, r[i])
    BY <1>1, <1>2, <1>3 DEF GoodStack
  <2>3. \A i \in 1..(Len(r) - 1) : r[i].pc \notin ResumePoints
    <3> TAKE i \in 1..(Len(r) - 1)
    <3>1. i \in 1..(Len(q) - 1) /\ i \in 1..Len(q) /\ i # Len(q)
      BY <1>1, <1>2
    <3>2. q[i].pc \notin ResumePoints
      BY <3>1 DEF GoodStack
    <3> QED BY <1>3, <3>1, <3>2
  <2>4. r[1].pc \notin HandlerPoints
    BY <1>1, <1>3 DEF GoodStack
  <2> QED BY <1>2, <2>1, <2>2, <2>3, <2>4 DEF GoodStack
<1> QED BY <1>1, <1>2, <1>3, <1>4 DEF r

(* A handler's frame is pushed on code that was running.                   *)
LEMMA PushTop ==
  ASSUME NEW t, NEW q, GoodStack(t, q), q[Len(q)].pc \notin ResumePoints,
         NEW f, FrameOK(t, f)
  PROVE  LET r == Append(q, f)
         IN GoodStack(t, r) /\ Len(r) = Len(q) + 1 /\ r[Len(r)] = f
<1> DEFINE r == Append(q, f)
<1>1. q \in Seq(Frames) /\ Len(q) \in Nat \ {0} /\ f \in Frames
  BY DEF GoodStack, FrameOK
<1>2. r \in Seq(Frames) /\ Len(r) = Len(q) + 1
  BY <1>1
<1>3. \A i \in 1..Len(r) : r[i] = IF i = Len(r) THEN f ELSE q[i]
  BY <1>1
<1> HIDE DEF r
<1>4. GoodStack(t, r)
  <2>1. r # <<>>
    BY <1>1, <1>2
  <2>2. \A i \in 1..Len(r) : FrameOK(t, r[i])
    BY <1>1, <1>2, <1>3 DEF GoodStack
  <2>3. \A i \in 1..(Len(r) - 1) : r[i].pc \notin ResumePoints
    BY <1>1, <1>2, <1>3 DEF GoodStack
  <2>4. r[1].pc \notin HandlerPoints
    BY <1>1, <1>2, <1>3 DEF GoodStack
  <2> QED BY <1>2, <2>1, <2>2, <2>3, <2>4 DEF GoodStack
<1> QED BY <1>1, <1>2, <1>3, <1>4 DEF r

(* iret takes a handler's frame off: what it uncovers was interrupted.     *)
LEMMA PopTop ==
  ASSUME NEW t, NEW q, GoodStack(t, q), q[Len(q)].pc \in HandlerPoints
  PROVE  LET r == SubSeq(q, 1, Len(q) - 1)
         IN GoodStack(t, r) /\ r[Len(r)].pc \notin ResumePoints
<1> DEFINE r == SubSeq(q, 1, Len(q) - 1)
<1>1. q \in Seq(Frames) /\ Len(q) \in Nat /\ Len(q) > 1
  BY DEF GoodStack
<1>2. r \in Seq(Frames) /\ Len(r) = Len(q) - 1
  <2>1. 1 \in Int /\ Len(q) - 1 \in Int /\ 1 <= Len(q) - 1
    BY <1>1
  <2>2. \A i \in 1..(Len(q) - 1) : i \in 1..Len(q)
    BY <1>1
  <2>3. \A i \in 1..(Len(q) - 1) : q[i] \in Frames
    BY <1>1, <2>2
  <2>4. /\ SubSeq(q, 1, Len(q) - 1) \in Seq(Frames)
        /\ Len(SubSeq(q, 1, Len(q) - 1))
             = IF 1 <= Len(q) - 1 THEN Len(q) - 1 - 1 + 1 ELSE 0
    BY <2>1, <2>3, SubSeqProperties
  <2> QED BY <1>1, <2>1, <2>4
<1>3. \A i \in 1..Len(r) : r[i] = q[i]
  BY <1>1, <1>2
<1> HIDE DEF r
<1>4. GoodStack(t, r)
  <2>1. r # <<>>
    BY <1>1, <1>2
  <2>2. \A i \in 1..Len(r) : FrameOK(t, r[i])
    BY <1>1, <1>2, <1>3 DEF GoodStack
  <2>3. \A i \in 1..(Len(r) - 1) : r[i].pc \notin ResumePoints
    BY <1>1, <1>2, <1>3 DEF GoodStack
  <2>4. r[1].pc \notin HandlerPoints
    BY <1>1, <1>2, <1>3 DEF GoodStack
  <2> QED BY <1>2, <2>1, <2>2, <2>3, <2>4 DEF GoodStack
<1>5. Len(r) \in 1..(Len(q) - 1) /\ r[Len(r)] = q[Len(r)]
  BY <1>1, <1>2, <1>3
<1> QED BY <1>4, <1>5 DEF GoodStack, r
-----------------------------------------------------------------------------
(* The same three things, for the stacks of all the tasks.                 *)

LEMMA TopFacts ==
  ASSUME GoodStacks, current_task \in AllTasks
  PROVE  /\ Depth \in Nat \ {0}
         /\ GoodStack(current_task, stack[current_task])
         /\ FrameOK(current_task, Top)
         /\ Top \in Frames
         /\ Top = TopOf(stack, current_task)
<1>1. GoodStack(current_task, stack[current_task])
  BY DEF GoodStacks, GoodStacksOf
<1>2. Depth \in Nat \ {0} /\ Depth \in 1..Depth
  BY <1>1 DEF GoodStack, Depth
<1>3. FrameOK(current_task, Top)
  BY <1>1, <1>2 DEF GoodStack, Depth, Top
<1> QED BY <1>1, <1>2, <1>3 DEF FrameOK, TopOf, Top, Depth

LEMMA Replacing ==
  ASSUME GoodStacks, current_task \in AllTasks,
         NEW f, FrameOK(current_task, f),
         Top.pc \in HandlerPoints \/ f.pc \notin HandlerPoints
  PROVE  /\ GoodStacksOf(Replaced(f))
         /\ TopOf(Replaced(f), current_task) = f
         /\ \A t \in AllTasks \ {current_task} : Replaced(f)[t] = stack[t]
<1> DEFINE q == stack[current_task]
           r == [q EXCEPT ![Len(q)] = f]
<1>1. GoodStack(current_task, q) /\ Top = q[Len(q)]
  BY TopFacts DEF Top, Depth
<1>2. GoodStack(current_task, r) /\ r[Len(r)] = f
  BY <1>1, ReplaceTop
<1>3. Replaced(f) = [stack EXCEPT ![current_task] = r]
  BY DEF Replaced, Depth
<1> HIDE DEF r
<1>4. Replaced(f) \in [AllTasks -> Seq(Frames)]
  BY <1>2, <1>3 DEF GoodStacks, GoodStacksOf, GoodStack
<1>5. \A t \in AllTasks :
        Replaced(f)[t] = IF t = current_task THEN r ELSE stack[t]
  BY <1>3 DEF GoodStacks, GoodStacksOf
<1> QED BY <1>2, <1>4, <1>5 DEF GoodStacks, GoodStacksOf, TopOf

LEMMA Pushing ==
  ASSUME GoodStacks, current_task \in AllTasks, Top.pc \notin ResumePoints,
         NEW f, FrameOK(current_task, f)
  PROVE  /\ GoodStacksOf(Pushed(f))
         /\ TopOf(Pushed(f), current_task) = f
         /\ \A t \in AllTasks \ {current_task} : Pushed(f)[t] = stack[t]
<1> DEFINE q == stack[current_task]
           r == Append(q, f)
<1>1. GoodStack(current_task, q) /\ Top = q[Len(q)]
  BY TopFacts DEF Top, Depth
<1>2. GoodStack(current_task, r) /\ r[Len(r)] = f
  BY <1>1, PushTop
<1>3. Pushed(f) = [stack EXCEPT ![current_task] = r]
  BY DEF Pushed
<1> HIDE DEF r
<1>4. Pushed(f) \in [AllTasks -> Seq(Frames)]
  BY <1>2, <1>3 DEF GoodStacks, GoodStacksOf, GoodStack
<1>5. \A t \in AllTasks :
        Pushed(f)[t] = IF t = current_task THEN r ELSE stack[t]
  BY <1>3 DEF GoodStacks, GoodStacksOf
<1> QED BY <1>2, <1>4, <1>5 DEF GoodStacks, GoodStacksOf, TopOf

LEMMA Popping ==
  ASSUME GoodStacks, current_task \in AllTasks, Top.pc \in HandlerPoints
  PROVE  /\ GoodStacksOf(Popped)
         /\ TopOf(Popped, current_task).pc \notin ResumePoints
         /\ \A t \in AllTasks \ {current_task} : Popped[t] = stack[t]
<1> DEFINE q == stack[current_task]
           r == SubSeq(q, 1, Len(q) - 1)
<1>1. GoodStack(current_task, q) /\ Top = q[Len(q)]
  BY TopFacts DEF Top, Depth
<1>2. GoodStack(current_task, r) /\ r[Len(r)].pc \notin ResumePoints
  BY <1>1, PopTop
<1>3. Popped = [stack EXCEPT ![current_task] = r]
  BY DEF Popped, Depth
<1> HIDE DEF r
<1>4. Popped \in [AllTasks -> Seq(Frames)]
  BY <1>2, <1>3 DEF GoodStacks, GoodStacksOf, GoodStack
<1>5. \A t \in AllTasks :
        Popped[t] = IF t = current_task THEN r ELSE stack[t]
  BY <1>3 DEF GoodStacks, GoodStacksOf
<1> QED BY <1>2, <1>4, <1>5 DEF GoodStacks, GoodStacksOf, TopOf

-----------------------------------------------------------------------------
(* What the kinds of steps do to the interrupt lock.                       *)

(* Code that runs and goes on running.                                     *)
LEMMA GoStep ==
  ASSUME Inv, Top.pc \notin ResumePoints,
         NEW f, FrameOK(current_task, f), f.pc \notin ResumePoints,
         Top.pc \in HandlerPoints \/ f.pc \notin HandlerPoints,
         Go(f), UNCHANGED <<current_task, irqLock>>
  PROVE  GoodStacks' /\ IrqLockHandedOver'
<1>1. GoodStacks /\ current_task \in AllTasks
  BY DEF Inv, Types
<1>2. /\ GoodStacksOf(stack')
      /\ TopOf(stack', current_task) = f
      /\ \A t \in AllTasks \ {current_task} : stack'[t] = stack[t]
  BY <1>1, Replacing DEF Go
<1>3. GoodStacks'
  BY <1>2 DEF GoodStacks, GoodStacksOf
<1>4. Top' = f
  BY <1>2 DEF Top, Depth, TopOf
<1>5. IrqLockHandedOver'
  BY <1>1, <1>2, <1>4 DEF IrqLockHandedOver, Inv, irqLock
<1> QED BY <1>3, <1>5

(* A task that has been switched to releases the lock.                     *)
LEMMA UnlockStep ==
  ASSUME Inv, Top.pc \in ResumePoints, Unlock,
         NEW f, FrameOK(current_task, f), f.pc \notin ResumePoints,
         Top.pc \in HandlerPoints \/ f.pc \notin HandlerPoints,
         Go(f), UNCHANGED current_task
  PROVE  GoodStacks' /\ IrqLockHandedOver' /\ lock_irq_counter' = 0
<1>1. GoodStacks /\ current_task \in AllTasks
  BY DEF Inv, Types
<1>2. /\ GoodStacksOf(stack')
      /\ TopOf(stack', current_task) = f
      /\ \A t \in AllTasks \ {current_task} : stack'[t] = stack[t]
  BY <1>1, Replacing DEF Go
<1>3. GoodStacks'
  BY <1>2 DEF GoodStacks, GoodStacksOf
<1>4. Top' = f
  BY <1>2 DEF Top, Depth, TopOf
<1>5. lock_irq_counter' = 0 /\ interrupts_on'
  <2>1. lock_irq_counter = 1
    BY DEF IrqLockHandedOver, Inv
  <2>2. lock_irq_counter' = 0
    BY <2>1 DEF Unlock
  <2>3. interrupts_on'
    BY <2>1, Zenon DEF Unlock
  <2> QED BY <2>2, <2>3
<1>6. IrqLockHandedOver'
  BY <1>1, <1>2, <1>4, <1>5 DEF IrqLockHandedOver, Inv
<1> QED BY <1>3, <1>5, <1>6

(* Code that runs takes the lock and is left, or not, inside dispatcher.   *)
LEMMA LockStep ==
  ASSUME Inv, Top.pc \notin ResumePoints, NEW s, Lock(s),
         NEW f, f.pc \in ResumePoints,
         GoodStacksOf(s), TopOf(s, current_task) = f,
         \A t \in AllTasks \ {current_task} : s[t] = stack[t],
         current_task' \in AllTasks
  PROVE  GoodStacks' /\ IrqLockHandedOver' /\ lock_irq_counter' = 1
<1>1. GoodStacks'
  BY DEF Lock, GoodStacks, GoodStacksOf
<1>2. lock_irq_counter' = 1 /\ ~interrupts_on'
  BY DEF Lock, Inv, IrqLockHandedOver
<1>3. \A t \in AllTasks : TopOf(s, t).pc \in ResumePoints
  BY DEF Inv, IrqLockHandedOver, TopOf
<1>4. \A t \in AllTasks : stack'[t][Len(stack'[t])].pc \in ResumePoints
  BY <1>3 DEF TopOf, Lock
<1>5. Top'.pc \in ResumePoints
  BY <1>4 DEF Top, Depth
<1>6. IrqLockHandedOver'
  BY <1>2, <1>4, <1>5 DEF IrqLockHandedOver
<1> QED BY <1>1, <1>2, <1>6
-----------------------------------------------------------------------------
(* The points of the code, apart from one another.                         *)
LEMMA PointSets ==
  /\ \A p \in TaskPoints : p \notin ResumePoints /\ p \notin HandlerPoints
  /\ \A p \in PitPoints : p \notin ResumePoints /\ p \in HandlerPoints
  /\ \A p \in {"task_entry", "block_return", "terminated"} :
        p \in ResumePoints /\ p \notin HandlerPoints
  /\ \A p \in {"unblock_return", "sched_return"} :
        p \in ResumePoints /\ p \in HandlerPoints
BY DEF TaskPoints, ResumePoints, HandlerPoints, PitPoints

LEMMA HomeOK ==
  ASSUME NEW t \in AllTasks
  PROVE  FrameOK(t, Home(t)) /\ Home(t).pc \in TaskPoints
BY DEF Home, At, Frame, Frames, FrameOK, Points, TaskPoints

LEMMA FrameIsOK ==
  ASSUME NEW t, NEW pc \in Points, NEW x \in Tasks \cup {NoTask}, NEW n \in Nat,
         pc \in {"unblock_return", "pit_flag", "pit_unblock"} => x \in Tasks,
         pc = "sleep_until" => n < TickMod,
         pc \in {"create_store", "soft_store"} => n < CounterMod,
         pc \in {"soft_load", "soft_store", "soft_state"} => x # t
  PROVE  FrameOK(t, Frame(pc, x, n)) /\ Frame(pc, x, n).pc = pc
BY DEF Frame, Frames, FrameOK

(* Counters stay within their width.                                       *)
LEMMA Width ==
  /\ \A c \in 0..(CounterMod - 1) :
        Inc(c) \in 0..(CounterMod - 1) /\ Dec(c) \in 0..(CounterMod - 1)
  /\ \A n \in Nat : n % TickMod \in 0..(TickMod - 1)
BY WidthAssumption DEF Inc, Dec

(* scheduler switches to a task it has just marked RUNNING, or to idle.    *)
LEMMA SchedulerStep ==
  ASSUME Types, NEW st \in [AllTasks -> States], NEW c \in 0..(CounterMod - 1),
         Scheduler(st, c)
  PROVE  /\ current_task' \in AllTasks
         /\ state' \in [AllTasks -> States]
         /\ ready_to_run_counter' \in 0..(CounterMod - 1)
         /\ halt' \in {"no", "spin", "wild"}
         /\ halt' = "no" => current_task' = Idle \/ state'[current_task'] = "RUNNING"
<1> DEFINE ready == IF st[current_task] = "RUNNING"
                    THEN [st EXCEPT ![current_task] = "READY_TO_RUN"] ELSE st
<1>1. ready \in [AllTasks -> States]
  BY DEF States
<1> HIDE DEF ready
<1>2. CASE c = 0
  BY <1>2 DEF Scheduler, Dispatch, AllTasks, Types
<1>3. CASE c # 0 /\ FirstReady(ready) # {} /\ halt' = halt
  <2>1. PICK t \in FirstReady(ready) :
          current_task' = t /\ state' = [ready EXCEPT ![t] = "RUNNING"]
    BY <1>3 DEF Scheduler, Dispatch, ready
  <2>2. t \in AllTasks
    BY DEF FirstReady, AllTasks
  <2> QED BY <1>1, <1>3, <2>1, <2>2 DEF Scheduler, Types, States
<1>4. CASE c # 0 /\ FirstReady(ready) = {}
  BY <1>1, <1>4 DEF Scheduler, Types, ready
<1>5. c = 0 \/ (c # 0 /\ FirstReady(ready) # {} /\ halt' = halt)
        \/ (c # 0 /\ FirstReady(ready) = {})
  BY DEF Scheduler, ready
<1> QED BY <1>2, <1>3, <1>4, <1>5

-----------------------------------------------------------------------------
(* Every action preserves the invariant.  First those of code that runs    *)
(* and goes on running.                                                    *)

LEMMA TaskPointIsNotResume ==
  ASSUME NEW pc \in TaskPoints \cup PitPoints
  PROVE  pc \notin ResumePoints
BY PointSets

LEMMA CreateTaskStep == ASSUME Inv, NEW t \in Tasks, CreateTask(t) PROVE Inv'
<1> DEFINE f == Frame("create_load", t, 0)
<1>1. FrameOK(current_task, f) /\ f.pc = "create_load"
  BY FrameIsOK DEF Points, TaskPoints
<1>2. GoodStacks' /\ IrqLockHandedOver'
  BY <1>1, GoStep, PointSets DEF CreateTask, Executes, TaskPoints
<1>3. t # current_task
  BY DEF CreateTask, Clients
<1>4. Types'
  BY DEF CreateTask, Inv, Types, irqLock, AllTasks, States
<1>5. CurrentRuns'
  BY <1>3 DEF CreateTask, Inv, Types, CurrentRuns
<1> QED BY <1>2, <1>4, <1>5 DEF Inv

LEMMA CounterLoadStep == ASSUME Inv, CounterLoad PROVE Inv'
<1>1. /\ Top \in Frames /\ FrameOK(current_task, Top)
      /\ ready_to_run_counter \in 0..(CounterMod - 1) /\ CounterMod \in Nat
  BY TopFacts, WidthAssumption DEF Inv, Types
<1>2. PICK pc \in {"create_store", "soft_store"} :
        /\ Go(Frame(pc, Top.x, ready_to_run_counter))
        /\ pc = "soft_store" => Top.pc = "soft_load"
        /\ Top.pc \in {"create_load", "soft_load"}
  BY DEF CounterLoad, Executes
<1> DEFINE f == Frame(pc, Top.x, ready_to_run_counter)
<1>3. FrameOK(current_task, f) /\ f.pc = pc
  <2>1. pc \in Points /\ Top.x \in Tasks \cup {NoTask}
    BY <1>1 DEF Points, TaskPoints, Frames
  <2>2. pc = "soft_store" => Top.x # current_task
    BY <1>1, <1>2 DEF FrameOK
  <2> QED BY <1>1, <2>1, <2>2, FrameIsOK
<1>4. pc \in TaskPoints /\ Top.pc \in TaskPoints
  BY <1>2 DEF TaskPoints
<1>5. GoodStacks' /\ IrqLockHandedOver'
  BY <1>2, <1>3, <1>4, GoStep, PointSets DEF CounterLoad
<1>6. Types' /\ CurrentRuns'
  BY DEF CounterLoad, Inv, Types, irqLock, list, CurrentRuns
<1> QED BY <1>5, <1>6 DEF Inv

LEMMA CounterStoreStep == ASSUME Inv, CounterStore PROVE Inv'
<1>1. Top \in Frames /\ FrameOK(current_task, Top)
  BY TopFacts DEF Inv, Types
<1>2. PICK pc \in {"create_link", "soft_state"} :
        /\ Go(Frame(pc, Top.x, 0))
        /\ pc = "soft_state" => Top.pc = "soft_store"
        /\ Top.pc \in {"create_store", "soft_store"}
  BY DEF CounterStore, Executes
<1> DEFINE f == Frame(pc, Top.x, 0)
<1>3. FrameOK(current_task, f) /\ f.pc = pc
  <2>1. pc \in Points /\ Top.x \in Tasks \cup {NoTask}
    BY <1>1 DEF Points, TaskPoints, Frames
  <2>2. pc = "soft_state" => Top.x # current_task
    BY <1>1, <1>2 DEF FrameOK
  <2> QED BY <2>1, <2>2, FrameIsOK
<1>4. pc \in TaskPoints /\ Top.pc \in TaskPoints
  BY <1>2 DEF TaskPoints
<1>5. GoodStacks' /\ IrqLockHandedOver'
  BY <1>2, <1>3, <1>4, GoStep, PointSets DEF CounterStore
<1>6. ready_to_run_counter' \in 0..(CounterMod - 1)
  <2>1. Top.n \in 0..(CounterMod - 1)
    BY <1>1, <1>2, WidthAssumption DEF FrameOK, Frames
  <2> QED BY <2>1, Width DEF CounterStore
<1>7. Types' /\ CurrentRuns'
  BY <1>6 DEF CounterStore, Inv, Types, irqLock, list, CurrentRuns
<1> QED BY <1>5, <1>7 DEF Inv

LEMMA CreateLinkStep == ASSUME Inv, CreateLink PROVE Inv'
<1>1. Top \in Frames /\ current_task \in AllTasks
  BY TopFacts DEF Inv, Types
<1>2. GoodStacks' /\ IrqLockHandedOver'
  BY <1>1, HomeOK, GoStep, PointSets DEF CreateLink, Executes, TaskPoints
<1>3. Types' /\ CurrentRuns'
  BY <1>1 DEF CreateLink, Inv, Types, irqLock, CurrentRuns, Frames
<1> QED BY <1>2, <1>3 DEF Inv

LEMMA SleepStep == ASSUME Inv, NEW d \in Durations, Sleep(d) PROVE Inv'
<1> DEFINE n == (d + tick) % TickMod
           f == Frame("sleep_until", NoTask, n)
<1>1. n \in 0..(TickMod - 1) /\ TickMod \in Nat
  <2>1. d + tick \in Nat
    BY WidthAssumption DEF Inv, Types
  <2> QED BY <2>1, Width, WidthAssumption
<1> HIDE DEF n
<1>2. FrameOK(current_task, f) /\ f.pc = "sleep_until"
  BY <1>1, FrameIsOK DEF Points, TaskPoints
<1>3. GoodStacks' /\ IrqLockHandedOver'
  BY <1>2, GoStep, PointSets DEF Sleep, Executes, TaskPoints, n
<1>4. Types' /\ CurrentRuns'
  BY DEF Sleep, Inv, Types, irqLock, list, CurrentRuns
<1> QED BY <1>3, <1>4 DEF Inv

LEMMA SleepUntilStep == ASSUME Inv, SleepUntil PROVE Inv'
<1>1. Top \in Frames /\ FrameOK(current_task, Top) /\ current_task \in AllTasks
  BY TopFacts DEF Inv, Types
<1>2. PICK f : /\ Go(f) /\ FrameOK(current_task, f) /\ f.pc \in TaskPoints
  <2>1. FrameOK(current_task, At("block_sleeping"))
          /\ At("block_sleeping").pc \in TaskPoints
    BY DEF At, Frame, Frames, FrameOK, Points, TaskPoints
  <2> QED BY <1>1, <2>1, HomeOK DEF SleepUntil
<1>3. GoodStacks' /\ IrqLockHandedOver'
  BY <1>2, GoStep, PointSets DEF SleepUntil, Executes, TaskPoints
<1>4. sleep_until' \in [AllTasks -> 0..(TickMod - 1)]
  <2>1. Top.n \in 0..(TickMod - 1)
    BY <1>1, WidthAssumption DEF SleepUntil, Executes, FrameOK, Frames
  <2> QED BY <1>1, <2>1 DEF SleepUntil, Inv, Types
<1>5. Types' /\ CurrentRuns'
  BY <1>4 DEF SleepUntil, Inv, Types, irqLock, list, CurrentRuns
<1> QED BY <1>3, <1>5 DEF Inv

LEMMA SoftUnblockStep == ASSUME Inv, NEW p \in Tasks, SoftUnblock(p) PROVE Inv'
<1> DEFINE f == Frame("soft_load", p, 0)
<1>1. p # current_task
  BY TaskAssumption, RoleAssumption
     DEF SoftUnblock, Executes, Inv, CurrentRuns
<1>2. FrameOK(current_task, f) /\ f.pc = "soft_load"
  BY <1>1, FrameIsOK DEF Points, TaskPoints
<1>3. GoodStacks' /\ IrqLockHandedOver'
  BY <1>2, GoStep, PointSets DEF SoftUnblock, Executes, TaskPoints
<1>4. Types' /\ CurrentRuns'
  BY DEF SoftUnblock, Inv, Types, irqLock, list, CurrentRuns
<1> QED BY <1>3, <1>4 DEF Inv

LEMMA SoftStateStep == ASSUME Inv, SoftState PROVE Inv'
<1>1. Top.x # current_task /\ current_task \in AllTasks
  BY TopFacts DEF SoftState, Executes, FrameOK, Inv, Types
<1>2. GoodStacks' /\ IrqLockHandedOver'
  BY <1>1, HomeOK, GoStep, PointSets DEF SoftState, Executes, TaskPoints
<1>3. Types'
  BY DEF SoftState, Inv, Types, irqLock, list, States
<1>4. CurrentRuns'
  BY <1>1 DEF SoftState, Inv, Types, CurrentRuns
<1> QED BY <1>2, <1>3, <1>4 DEF Inv

LEMMA ReapHeadStep == ASSUME Inv, ReapHead PROVE Inv'
<1> DEFINE f == Frame("reap_scan", head, 0)
<1>1. FrameOK(current_task, f) /\ f.pc = "reap_scan"
  BY FrameIsOK DEF Points, TaskPoints, Inv, Types
<1>2. GoodStacks' /\ IrqLockHandedOver'
  BY <1>1, GoStep, PointSets DEF ReapHead, Executes, TaskPoints
<1>3. Types' /\ CurrentRuns'
  BY DEF ReapHead, Inv, Types, irqLock, list, CurrentRuns
<1> QED BY <1>2, <1>3 DEF Inv

LEMMA PitFlagStep == ASSUME Inv, PitFlag PROVE Inv'
<1>1. Top.x \in Tasks /\ Top \in Frames
  BY TopFacts DEF PitFlag, Executes, FrameOK, Inv, Types
<1>2. CASE Dangling(Top.x)
  <2>1. GoodStacks' /\ IrqLockHandedOver'
    BY <1>2 DEF Dangling, Inv, GoodStacks, GoodStacksOf, irqLock,
                IrqLockHandedOver, Top, Depth
  <2>2. Types' /\ CurrentRuns'
    BY <1>2 DEF Dangling, PitFlag, Inv, Types, irqLock, list, CurrentRuns
  <2> QED BY <2>1, <2>2 DEF Inv
<1>3. CASE ~Dangling(Top.x)
  <2> DEFINE x == next_task[Top.x]
  <2>1. x \in Tasks \cup {NoTask}
    BY <1>1 DEF Inv, Types, AllTasks
  <2>2. PICK pc \in {"pit_end", "pit_unblock", "pit_flag"}, n \in Nat :
          /\ Go(Frame(pc, x, n))
          /\ pc # "pit_end" => x # NoTask
    BY <1>1, <1>3 DEF PitFlag, Frames
  <2> HIDE DEF x
  <2>3. pc \in Points /\ pc \in PitPoints
    BY DEF Points, PitPoints
  <2>4. FrameOK(current_task, Frame(pc, x, n)) /\ Frame(pc, x, n).pc = pc
    BY <2>1, <2>2, <2>3, FrameIsOK
  <2>5. GoodStacks' /\ IrqLockHandedOver'
    BY <1>3, <2>2, <2>3, <2>4, GoStep, PointSets
       DEF PitFlag, Executes, PitPoints
  <2>6. Types' /\ CurrentRuns'
    BY <1>3 DEF PitFlag, Inv, Types, irqLock, list, CurrentRuns
  <2> QED BY <2>5, <2>6 DEF Inv
<1> QED BY <1>2, <1>3

LEMMA ReapScanStep == ASSUME Inv, ReapScan PROVE Inv'
<1>1. Top \in Frames /\ current_task \in AllTasks /\ Top.pc = "reap_scan"
  BY TopFacts DEF Inv, Types, ReapScan, Executes
<1> DEFINE g == Frame("sleep_until", NoTask, (ReapDelay + tick) % TickMod)
<1>2. FrameOK(current_task, At("reap_head")) /\ FrameOK(current_task, g)
        /\ At("reap_head").pc \in TaskPoints /\ g.pc \in TaskPoints
  <2>1. FrameOK(current_task, At("reap_head"))
          /\ At("reap_head").pc \in TaskPoints
    BY DEF At, Frame, Frames, FrameOK, Points, TaskPoints
  <2>2. ReapDelay + tick \in Nat
    BY WidthAssumption DEF Inv, Types
  <2>3. (ReapDelay + tick) % TickMod \in 0..(TickMod - 1) /\ TickMod \in Nat
    BY <2>2, Width, WidthAssumption
  <2> HIDE DEF g
  <2>4. \A n \in 0..(TickMod - 1) :
          LET h == Frame("sleep_until", NoTask, n)
          IN FrameOK(current_task, h) /\ h.pc \in TaskPoints
    BY <2>3 DEF Frame, Frames, FrameOK, Points, TaskPoints
  <2> QED BY <2>1, <2>3, <2>4 DEF g
<1>3. ASSUME \E f \in {At("reap_head"), g} : Go(f)
      PROVE  GoodStacks' /\ IrqLockHandedOver'
  BY <1>1, <1>2, <1>3, GoStep, PointSets DEF ReapScan, TaskPoints
<1>4. ASSUME UNCHANGED stack
      PROVE  GoodStacks' /\ IrqLockHandedOver'
  <2>1. Top' = Top
    BY <1>4 DEF ReapScan, Top, Depth
  <2> QED BY <1>4, <2>1 DEF ReapScan, Inv, GoodStacks, GoodStacksOf, irqLock,
                            IrqLockHandedOver
<1>5. GoodStacks' /\ IrqLockHandedOver'
  <2> HIDE DEF g
  <2>1. Go(At("reap_head")) \/ Go(g) \/ UNCHANGED stack
    BY DEF ReapScan, g
  <2>2. (\E f \in {At("reap_head"), g} : Go(f)) => GoodStacks' /\ IrqLockHandedOver'
    BY <1>3
  <2> QED BY <1>4, <2>1, <2>2
<1>6. Types'
  <2>1. /\ head' \in Tasks \cup {NoTask}
        /\ next_task' \in [AllTasks -> Tasks \cup {NoTask}]
        /\ freed' \subseteq Tasks
        /\ prev' \in Tasks \cup {NoTask}
        /\ halt' \in {"no", "spin", "wild"}
    BY DEF ReapScan, Inv, Types, list, Unlink, UnlinkMidList, AllTasks
  <2> QED BY <2>1 DEF ReapScan, Inv, Types, irqLock
<1>7. CurrentRuns'
  BY DEF ReapScan, Executes, Inv, CurrentRuns
<1> QED BY <1>5, <1>6, <1>7 DEF Inv

-----------------------------------------------------------------------------
(* The steps of a task that has just been switched to: it releases the     *)
(* lock that the task before it has taken.                                 *)

LEMMA UnlockInv ==
  ASSUME Inv, Top.pc \in ResumePoints, Unlock,
         NEW f, FrameOK(current_task, f), f.pc \notin ResumePoints,
         Top.pc \in HandlerPoints \/ f.pc \notin HandlerPoints,
         Go(f),
         UNCHANGED <<list, state, sleep_until, current_task,
                     ready_to_run_counter, tick, halt>>
  PROVE  Inv'
<1>1. GoodStacks' /\ IrqLockHandedOver' /\ lock_irq_counter' = 0
  BY UnlockStep
<1>2. interrupts_on' \in BOOLEAN
  BY Zenon DEF Unlock, Inv, Types
<1>3. Types'
  BY <1>1, <1>2 DEF Inv, Types, list
<1>4. CurrentRuns'
  BY DEF Inv, CurrentRuns
<1> QED BY <1>1, <1>3, <1>4 DEF Inv

LEMMA TaskEntryStep == ASSUME Inv, TaskEntry PROVE Inv'
<1>1. current_task \in AllTasks
  BY DEF Inv, Types
<1> QED
  BY <1>1, HomeOK, PointSets, UnlockInv DEF TaskEntry, Executes

LEMMA BlockReturnStep == ASSUME Inv, BlockReturn PROVE Inv'
<1>1. current_task \in AllTasks
  BY DEF Inv, Types
<1> QED
  BY <1>1, HomeOK, PointSets, UnlockInv DEF BlockReturn, Executes

LEMMA SchedReturnStep == ASSUME Inv, SchedReturn PROVE Inv'
<1>1. FrameOK(current_task, At("iret")) /\ At("iret").pc \in PitPoints
  BY DEF At, Frame, Frames, FrameOK, Points, PitPoints
<1> QED
  BY <1>1, PointSets, UnlockInv DEF SchedReturn, Executes

LEMMA UnblockReturnStep == ASSUME Inv, UnblockReturn PROVE Inv'
<1> DEFINE f == Frame("pit_flag", Top.x, Top.n)
<1>1. Top \in Frames /\ Top.x \in Tasks
  BY TopFacts DEF UnblockReturn, Executes, FrameOK, Inv, Types
<1>2. FrameOK(current_task, f) /\ f.pc \in PitPoints
  BY <1>1 DEF Frame, Frames, FrameOK, Points, PitPoints
<1> QED
  BY <1>2, PointSets, UnlockInv DEF UnblockReturn, Executes

-----------------------------------------------------------------------------
(* The steps that switch to another task.                                  *)

LEMMA SwitchInv ==
  ASSUME Inv, Top.pc \notin ResumePoints, NEW s, Lock(s),
         NEW f, f.pc \in ResumePoints,
         GoodStacksOf(s), TopOf(s, current_task) = f,
         \A t \in AllTasks \ {current_task} : s[t] = stack[t],
         NEW st \in [AllTasks -> States], NEW c \in 0..(CounterMod - 1),
         Scheduler(st, c),
         tick' \in 0..(TickMod - 1), UNCHANGED <<list, sleep_until>>
  PROVE  Inv'
<1>1. /\ current_task' \in AllTasks
      /\ state' \in [AllTasks -> States]
      /\ ready_to_run_counter' \in 0..(CounterMod - 1)
      /\ halt' \in {"no", "spin", "wild"}
      /\ CurrentRuns'
  BY SchedulerStep DEF Inv, CurrentRuns
<1>2. GoodStacks' /\ IrqLockHandedOver' /\ lock_irq_counter' = 1
  BY <1>1, LockStep
<1>3. interrupts_on' \in BOOLEAN
  BY DEF Lock
<1>4. Types'
  BY <1>1, <1>2, <1>3 DEF Inv, Types, list
<1> QED BY <1>1, <1>2, <1>4 DEF Inv

LEMMA BlockTaskStep == ASSUME Inv, BlockTask PROVE Inv'
<1>1. PICK reason \in {"SLEEPING", "BLOCKED"} :
        /\ Top.pc \in {"block_sleeping", "run"}
        /\ Lock(Replaced(At("block_return")))
        /\ Scheduler([state EXCEPT ![current_task] = reason],
                     Dec(ready_to_run_counter))
  BY DEF BlockTask, Executes
<1> DEFINE f == At("block_return")
<1>2. FrameOK(current_task, f) /\ f.pc = "block_return"
  BY DEF At, Frame, Frames, FrameOK, Points, ResumePoints
<1>3. Top.pc \notin ResumePoints /\ f.pc \notin HandlerPoints
        /\ f.pc \in ResumePoints
  BY <1>1, <1>2, PointSets DEF TaskPoints
<1>4. /\ GoodStacksOf(Replaced(f))
      /\ TopOf(Replaced(f), current_task) = f
      /\ \A t \in AllTasks \ {current_task} : Replaced(f)[t] = stack[t]
  BY <1>2, <1>3, Replacing DEF Inv, Types
<1> HIDE DEF f
<1>5. [state EXCEPT ![current_task] = reason] \in [AllTasks -> States]
  BY DEF Inv, Types, States
<1>6. Dec(ready_to_run_counter) \in 0..(CounterMod - 1)
  BY Width DEF Inv, Types
<1> QED
  BY <1>1, <1>3, <1>4, <1>5, <1>6, SwitchInv DEF BlockTask, Inv, Types, f

LEMMA TaskTerminationStep == ASSUME Inv, TaskTermination PROVE Inv'
<1> DEFINE f == At("terminated")
           st == [state EXCEPT ![current_task] = "TERMINATED"]
<1>1. /\ Top.pc = "run"
      /\ Lock(Replaced(f))
      /\ Scheduler(st, Dec(ready_to_run_counter))
  BY DEF TaskTermination, Executes
<1>2. FrameOK(current_task, f) /\ f.pc = "terminated"
  BY DEF At, Frame, Frames, FrameOK, Points, ResumePoints
<1>3. Top.pc \notin ResumePoints /\ f.pc \notin HandlerPoints
        /\ f.pc \in ResumePoints
  BY <1>1, <1>2, PointSets DEF TaskPoints
<1>4. /\ GoodStacksOf(Replaced(f))
      /\ TopOf(Replaced(f), current_task) = f
      /\ \A t \in AllTasks \ {current_task} : Replaced(f)[t] = stack[t]
  BY <1>2, <1>3, Replacing DEF Inv, Types
<1>5. st \in [AllTasks -> States]
  BY DEF Inv, Types, States
<1>6. Dec(ready_to_run_counter) \in 0..(CounterMod - 1)
  BY Width DEF Inv, Types
<1>7. tick' \in 0..(TickMod - 1) /\ UNCHANGED <<list, sleep_until>>
  BY DEF TaskTermination, Inv, Types
<1> HIDE DEF f, st
<1> QED
  BY <1>1, <1>3, <1>4, <1>5, <1>6, <1>7, SwitchInv

LEMMA PitEndStep == ASSUME Inv, PitEnd PROVE Inv'
<1>1. Top.pc = "pit_end" /\ Top.pc \notin ResumePoints
        /\ Top.pc \in HandlerPoints
  BY PointSets DEF PitEnd, Executes, PitPoints
<1>2. tick' \in 0..(TickMod - 1) /\ UNCHANGED <<list, sleep_until>>
  BY DEF PitEnd, Inv, Types
<1>3. CASE Top.n = 0
  <2>1. FrameOK(current_task, At("iret")) /\ At("iret").pc \in PitPoints
    BY DEF At, Frame, Frames, FrameOK, Points, PitPoints
  <2>2. GoodStacks' /\ IrqLockHandedOver'
    BY <1>1, <1>3, <2>1, GoStep, PointSets DEF PitEnd
  <2>3. Types' /\ CurrentRuns'
    BY <1>3 DEF PitEnd, Inv, Types, irqLock, list, CurrentRuns
  <2> QED BY <2>2, <2>3 DEF Inv
<1>4. CASE Top.n # 0
  <2> DEFINE f == At("sched_return")
  <2>1. Lock(Replaced(f)) /\ Scheduler(state, ready_to_run_counter)
    BY <1>4 DEF PitEnd
  <2>2. FrameOK(current_task, f) /\ f.pc \in ResumePoints
    BY DEF At, Frame, Frames, FrameOK, Points, ResumePoints
  <2>3. /\ GoodStacksOf(Replaced(f))
        /\ TopOf(Replaced(f), current_task) = f
        /\ \A t \in AllTasks \ {current_task} : Replaced(f)[t] = stack[t]
    BY <1>1, <2>2, Replacing DEF Inv, Types
  <2>4. state \in [AllTasks -> States]
          /\ ready_to_run_counter \in 0..(CounterMod - 1)
    BY DEF Inv, Types
  <2> HIDE DEF f
  <2> QED
    BY <1>1, <1>2, <2>1, <2>2, <2>3, <2>4, SwitchInv
<1> QED BY <1>3, <1>4 DEF PitEnd

(* unblock_task switches without asking scheduler.                         *)
LEMMA UnblockInv ==
  ASSUME Inv, Top.pc \notin ResumePoints, NEW s,
         NEW f, f.pc \in ResumePoints,
         GoodStacksOf(s), TopOf(s, current_task) = f,
         \A u \in AllTasks \ {current_task} : s[u] = stack[u],
         NEW t \in Tasks, Unblock(t, s),
         tick' \in 0..(TickMod - 1), UNCHANGED <<list, sleep_until>>
  PROVE  Inv'
<1>1. current_task' = t /\ t \in AllTasks /\ Lock(s)
  BY DEF Unblock, Dispatch, AllTasks
<1>2. GoodStacks' /\ IrqLockHandedOver' /\ lock_irq_counter' = 1
  BY <1>1, LockStep
<1>3. state' \in [AllTasks -> States] /\ state'[t] = "RUNNING"
  BY <1>1 DEF Unblock, Inv, Types, States
<1>4. ready_to_run_counter' \in 0..(CounterMod - 1)
  BY Width DEF Unblock, Inv, Types
<1>5. interrupts_on' \in BOOLEAN /\ UNCHANGED halt
  BY DEF Unblock, Lock
<1>6. Types'
  BY <1>1, <1>2, <1>3, <1>4, <1>5 DEF Inv, Types, list
<1>7. CurrentRuns'
  BY <1>1, <1>3 DEF CurrentRuns
<1> QED BY <1>2, <1>6, <1>7 DEF Inv

LEMMA UnblockTaskStep == ASSUME Inv, UnblockTask PROVE Inv'
<1>1. /\ Top.pc = "pit_unblock" /\ Top.pc \notin ResumePoints
      /\ Top.pc \in HandlerPoints
  BY PointSets DEF UnblockTask, Executes, PitPoints
<1>2. Top.x \in Tasks /\ Top \in Frames
  BY <1>1, TopFacts DEF FrameOK, Inv, Types
<1>3. CASE Top.x \in Reached(head)
  <2> DEFINE f == Frame("unblock_return", Top.x, Top.n)
  <2>1. Unblock(Top.x, Replaced(f)) /\ UNCHANGED <<list, sleep_until, tick>>
    BY <1>3 DEF UnblockTask
  <2>2. FrameOK(current_task, f) /\ f.pc \in ResumePoints
    BY <1>2 DEF Frame, Frames, FrameOK, Points, ResumePoints
  <2>3. /\ GoodStacksOf(Replaced(f))
        /\ TopOf(Replaced(f), current_task) = f
        /\ \A t \in AllTasks \ {current_task} : Replaced(f)[t] = stack[t]
    BY <1>1, <2>2, Replacing DEF Inv, Types
  <2>4. tick' \in 0..(TickMod - 1)
    BY <2>1 DEF Inv, Types
  <2> HIDE DEF f
  <2> QED
    BY <1>1, <1>2, <2>1, <2>2, <2>3, <2>4, UnblockInv
<1>4. CASE Top.x \notin Reached(head)
  <2>1. GoodStacks' /\ IrqLockHandedOver'
    BY <1>4 DEF UnblockTask, Inv, GoodStacks, GoodStacksOf, irqLock,
                IrqLockHandedOver, Top, Depth
  <2>2. Types' /\ CurrentRuns'
    BY <1>4 DEF UnblockTask, Inv, Types, irqLock, list, CurrentRuns
  <2> QED BY <2>1, <2>2 DEF Inv
<1> QED BY <1>3, <1>4

LEMMA TimerInterruptStep == ASSUME Inv, TimerInterrupt PROVE Inv'
<1>1. tick' \in 0..(TickMod - 1) /\ UNCHANGED <<list, sleep_until>>
  <2>1. tick + 1 \in Nat
    BY DEF Inv, Types
  <2> QED BY <2>1, Width DEF TimerInterrupt
<1>2. Top.pc \notin ResumePoints /\ current_task \in AllTasks
  BY DEF TimerInterrupt, Inv, Types, IrqLockHandedOver
<1>3. ASSUME NEW f, Lock(Pushed(f)), FrameOK(current_task, f)
      PROVE  /\ GoodStacksOf(Pushed(f))
             /\ TopOf(Pushed(f), current_task) = f
             /\ \A u \in AllTasks \ {current_task} : Pushed(f)[u] = stack[u]
  BY <1>2, <1>3, Pushing DEF Inv
<1>4. CASE \E t \in Tasks, n \in {0, 1} :
             Unblock(t, Pushed(Frame("unblock_return", t, n)))
  <2>1. PICK t \in Tasks, n \in {0, 1} :
          Unblock(t, Pushed(Frame("unblock_return", t, n)))
    BY <1>4
  <2> DEFINE f == Frame("unblock_return", t, n)
  <2>2. FrameOK(current_task, f) /\ f.pc \in ResumePoints
    BY DEF Frame, Frames, FrameOK, Points, ResumePoints
  <2>3. Lock(Pushed(f))
    BY <2>1 DEF Unblock
  <2> HIDE DEF f
  <2> QED BY <1>1, <1>2, <1>3, <2>1, <2>2, <2>3, UnblockInv DEF f
<1>5. CASE /\ Lock(Pushed(At("sched_return")))
           /\ Scheduler(state, ready_to_run_counter)
  <2> DEFINE f == At("sched_return")
  <2>1. FrameOK(current_task, f) /\ f.pc \in ResumePoints
    BY DEF At, Frame, Frames, FrameOK, Points, ResumePoints
  <2>2. state \in [AllTasks -> States]
          /\ ready_to_run_counter \in 0..(CounterMod - 1)
    BY DEF Inv, Types
  <2> HIDE DEF f
  <2> QED BY <1>1, <1>2, <1>3, <1>5, <2>1, <2>2, SwitchInv DEF f
<1>6. CASE /\ UNCHANGED <<state, current_task, ready_to_run_counter, irqLock,
                          stack>>
           /\ halt' \in {halt, "spin"}
  <2>1. GoodStacks' /\ IrqLockHandedOver'
    BY <1>6 DEF Inv, GoodStacks, GoodStacksOf, irqLock, IrqLockHandedOver,
                Top, Depth
  <2>2. Types' /\ CurrentRuns'
    BY <1>1, <1>6 DEF Inv, Types, irqLock, list, CurrentRuns
  <2> QED BY <2>1, <2>2 DEF Inv
<1> QED BY <1>4, <1>5, <1>6 DEF TimerInterrupt

-----------------------------------------------------------------------------
(* The remaining steps.                                                    *)

LEMMA NicInterruptStep == ASSUME Inv, NEW p \in Tasks, NicInterrupt(p) PROVE Inv'
<1>1. GoodStacks' /\ IrqLockHandedOver'
  BY DEF NicInterrupt, Inv, GoodStacks, GoodStacksOf, irqLock,
         IrqLockHandedOver, Top, Depth
<1>2. Types'
  <2>1. state' \in [AllTasks -> States]
          /\ ready_to_run_counter' \in 0..(CounterMod - 1)
    BY Width DEF NicInterrupt, Inv, Types, States
  <2> QED BY <2>1 DEF NicInterrupt, Inv, Types, irqLock, list
<1>3. CurrentRuns'
  <2>1. current_task = Idle \/ p # current_task
    BY DEF NicInterrupt, Inv, CurrentRuns
  <2> QED BY <2>1 DEF NicInterrupt, Inv, Types, CurrentRuns
<1> QED BY <1>1, <1>2, <1>3 DEF Inv

LEMMA ResurrectedStep == ASSUME Inv, Resurrected PROVE Inv'
<1>1. GoodStacks' /\ IrqLockHandedOver'
  BY DEF Resurrected, Inv, GoodStacks, GoodStacksOf, irqLock,
         IrqLockHandedOver, Top, Depth
<1>2. Types' /\ CurrentRuns'
  BY DEF Resurrected, Inv, Types, irqLock, list, CurrentRuns
<1> QED BY <1>1, <1>2 DEF Inv

LEMMA IRetStep == ASSUME Inv, IRet PROVE Inv'
<1>1. Top.pc \in HandlerPoints /\ Top.pc \notin ResumePoints
  BY PointSets DEF IRet, Executes, PitPoints
<1>2. /\ GoodStacksOf(stack')
      /\ TopOf(stack', current_task).pc \notin ResumePoints
      /\ \A t \in AllTasks \ {current_task} : stack'[t] = stack[t]
  BY <1>1, Popping DEF IRet, Inv, Types
<1>3. GoodStacks' /\ Top'.pc \notin ResumePoints
  BY <1>2 DEF IRet, GoodStacks, GoodStacksOf, Top, Depth, TopOf
<1>4. lock_irq_counter' = 0 /\ interrupts_on'
  BY <1>1 DEF IRet, Inv, IrqLockHandedOver
<1>5. IrqLockHandedOver'
  BY <1>2, <1>3, <1>4 DEF IRet, Inv, IrqLockHandedOver
<1>6. Types' /\ CurrentRuns'
  BY DEF IRet, Inv, Types, list, CurrentRuns
<1> QED BY <1>3, <1>5, <1>6 DEF Inv

LEMMA StutterStep == ASSUME Inv, UNCHANGED vars PROVE Inv'
BY DEF vars, Inv, Types, GoodStacks, GoodStacksOf, IrqLockHandedOver,
       CurrentRuns, Top, Depth

-----------------------------------------------------------------------------
LEMMA InitInv == ASSUME Init PROVE Inv
<1> DEFINE pc(t) == IF t = Boot THEN "run" ELSE "task_entry"
<1>1. stack = [t \in AllTasks |-> << At(pc(t)) >>]
  BY DEF Init
<1>2. \A t \in AllTasks :
        FrameOK(t, At(pc(t))) /\ pc(t) \notin HandlerPoints
  BY DEF FrameOK, At, Frame, Frames, Points, TaskPoints, ResumePoints,
         HandlerPoints, PitPoints
<1>3. GoodStacks
  <2>1. \A t \in AllTasks : GoodStack(t, << At(pc(t)) >>)
    <3> TAKE t \in AllTasks
    <3> DEFINE f == At(pc(t))
    <3>1. f \in Frames /\ FrameOK(t, f) /\ f.pc = pc(t)
      BY <1>2 DEF FrameOK, At, Frame
    <3> HIDE DEF f
    <3>2. <<f>> \in Seq(Frames) /\ Len(<<f>>) = 1 /\ <<f>>[1] = f
      BY <3>1
    <3>3. GoodStack(t, <<f>>)
      BY <1>2, <3>1, <3>2 DEF GoodStack
    <3> QED BY <3>3 DEF f
  <2>2. \A t \in AllTasks : stack[t] \in Seq(Frames)
    BY <1>1, <2>1 DEF GoodStack
  <2> QED BY <1>1, <2>1, <2>2 DEF GoodStacks, GoodStacksOf
<1>4. \A t \in AllTasks : stack[t][Len(stack[t])].pc = pc(t)
  <2> TAKE t \in AllTasks
  <2>1. stack[t] = << At(pc(t)) >>
    BY <1>1
  <2> QED BY <2>1 DEF At, Frame
<1>5. IrqLockHandedOver
  <2>1. Top.pc = "run"
    BY <1>4, TaskAssumption DEF Init, Top, Depth, AllTasks
  <2>2. \A t \in AllTasks \ {current_task} :
          stack[t][Len(stack[t])].pc = "task_entry"
    BY <1>4 DEF Init
  <2> QED BY <2>1, <2>2 DEF Init, IrqLockHandedOver, ResumePoints
<1>6. Types
  BY TaskAssumption, WidthAssumption DEF Init, Types, AllTasks, States
<1>7. CurrentRuns
  BY TaskAssumption DEF Init, CurrentRuns, AllTasks
<1> QED BY <1>3, <1>5, <1>6, <1>7 DEF Inv

(* The invariant is inductive.                                             *)
THEOREM InvStep == Inv /\ [Next]_vars => Inv'
<1> SUFFICES ASSUME Inv, [Next]_vars PROVE Inv'
  OBVIOUS
<1>1. CASE \E t \in Tasks : \/ CreateTask(t) \/ SoftUnblock(t)
                            \/ NicInterrupt(t)
  BY <1>1, CreateTaskStep, SoftUnblockStep, NicInterruptStep
<1>2. CASE CounterLoad \/ CounterStore \/ CreateLink
  BY <1>2, CounterLoadStep, CounterStoreStep, CreateLinkStep
<1>3. CASE (\E d \in Durations : Sleep(d)) \/ SleepUntil \/ SoftState
  BY <1>3, SleepStep, SleepUntilStep, SoftStateStep
<1>4. CASE TaskEntry \/ BlockReturn \/ UnblockReturn \/ SchedReturn
  BY <1>4, TaskEntryStep, BlockReturnStep, UnblockReturnStep, SchedReturnStep
<1>5. CASE BlockTask \/ TaskTermination \/ UnblockTask \/ TimerInterrupt
  BY <1>5, BlockTaskStep, TaskTerminationStep, UnblockTaskStep,
     TimerInterruptStep
<1>6. CASE PitFlag \/ PitEnd \/ IRet
  BY <1>6, PitFlagStep, PitEndStep, IRetStep
<1>7. CASE Resurrected \/ ReapHead \/ ReapScan
  BY <1>7, ResurrectedStep, ReapHeadStep, ReapScanStep
<1>8. CASE Halted \/ UNCHANGED vars
  BY <1>8, StutterStep DEF Halted
<1> QED BY <1>1, <1>2, <1>3, <1>4, <1>5, <1>6, <1>7, <1>8 DEF Next

(* Every variable keeps its type, and the counters the width of their C    *)
(* types.                                                                  *)
THEOREM TypeCorrect == Spec => []TypeOK
<1>1. Inv => TypeOK
  BY DEF Inv, Types, GoodStacks, GoodStacksOf, GoodStack, TypeOK
<1> QED BY <1>1, InitInv, InvStep, PTL DEF Spec

(* lock_irq and unlock_irq, called in different tasks, always match: the   *)
(* task that dispatcher switches to releases what its predecessor took,    *)
(* however deep interrupts nest.                                           *)
THEOREM LockIsHandedOver == Spec => []IrqLockHandedOver
<1>1. Inv => IrqLockHandedOver
  BY DEF Inv
<1> QED BY <1>1, InitInv, InvStep, PTL DEF Spec

(* No wake-up, late or not, marks the task that has the processor as       *)
(* anything but running.                                                   *)
THEOREM TheCurrentTaskRuns == Spec => []CurrentRuns
<1>1. Inv => CurrentRuns
  BY DEF Inv
<1> QED BY <1>1, InitInv, InvStep, PTL DEF Spec

-----------------------------------------------------------------------------
(* Who marks a task as running.  scheduler takes a task that is ready, and *)
(* unblock_task whom it is told to.                                        *)
LEMMA SchedulerMarks ==
  ASSUME Types, NEW st \in [AllTasks -> States], NEW c, Scheduler(st, c)
  PROVE  /\ state' \in [AllTasks -> States]
         /\ \A t \in Tasks :
              /\ state'[t] = "RUNNING" => st[t] \in {"RUNNING", "READY_TO_RUN"}
              /\ state'[t] \in {"RUNNING", "READY_TO_RUN"}
                   <=> st[t] \in {"RUNNING", "READY_TO_RUN"}
<1> DEFINE ready == IF st[current_task] = "RUNNING"
                    THEN [st EXCEPT ![current_task] = "READY_TO_RUN"] ELSE st
<1>1. /\ ready \in [AllTasks -> States]
      /\ \A t \in Tasks : ready[t] \in {"RUNNING", "READY_TO_RUN"}
                           <=> st[t] \in {"RUNNING", "READY_TO_RUN"}
      /\ \A t \in Tasks : ready[t] = "RUNNING" => st[t] = "RUNNING"
  BY DEF States, AllTasks, Types
<1>2. \/ state' = st
      \/ state' = ready
      \/ \E t \in FirstReady(ready) : state' = [ready EXCEPT ![t] = "RUNNING"]
  BY DEF Scheduler
<1> HIDE DEF ready
<1>3. \A t \in FirstReady(ready) : t \in Tasks /\ ready[t] = "READY_TO_RUN"
  BY DEF FirstReady
<1>4. CASE state' = st
  BY <1>4
<1>5. CASE state' = ready
  BY <1>1, <1>5
<1>6. CASE \E t \in FirstReady(ready) : state' = [ready EXCEPT ![t] = "RUNNING"]
  <2>1. PICK t \in FirstReady(ready) : state' = [ready EXCEPT ![t] = "RUNNING"]
    BY <1>6
  <2>2. state' \in [AllTasks -> States]
    BY <1>1, <2>1 DEF States
  <2>3. \A u \in Tasks : state'[u] = IF u = t THEN "RUNNING" ELSE ready[u]
    BY <1>1, <2>1 DEF AllTasks
  <2> QED BY <1>1, <1>3, <2>2, <2>3
<1> QED BY <1>2, <1>4, <1>5, <1>6

LEMMA UnblockMarks ==
  ASSUME Types, CurrentRuns, halt = "no", NEW t \in Tasks, NEW s, Unblock(t, s)
  PROVE  /\ state'[t] = "RUNNING"
         /\ \A u \in Tasks \ {t} :
              state'[u] = IF u = current_task THEN "READY_TO_RUN" ELSE state[u]
         /\ current_task = Idle \/ state[current_task] = "RUNNING"
BY DEF Unblock, Types, CurrentRuns, AllTasks

-----------------------------------------------------------------------------
(* ready_to_run_counter.  A task's own code is at the bottom of its stack  *)
(* and nowhere else, soft_unblock_task has a task to unblock, and the idle *)
(* task calls nothing.                                                     *)
BottomOK ==
  \A t \in AllTasks :
    /\ \A i \in 2..Len(stack[t]) : stack[t][i].pc \in HandlerPoints
    /\ stack[t][1].pc \in {"soft_load", "soft_store", "soft_state"}
         => stack[t][1].x \in Tasks
    /\ t = Idle => stack[t][1].pc \in {"task_entry", "hlt"}

CountInv == Inv /\ BottomOK

(* The counter with what the half-done updates have still to add to it or  *)
(* have added too soon, against the tasks that can run.                    *)
Creating == Cardinality(Amid({"create_load", "create_store"}))
Waking   == Cardinality(Amid({"soft_state"}))
Able     == Cardinality(Runnable)
Drift    == (ready_to_run_counter + Creating) - (Waking + Able)

(* Remainders of integers that are a whole turn apart.                     *)
LEMMA Division ==
  ASSUME NEW a \in Int, NEW m \in Nat \ {0}
  PROVE  /\ a \div m \in Int /\ a % m \in Int
         /\ a = m * (a \div m) + (a % m)
         /\ 0 <= (a % m) /\ (a % m) < m
OBVIOUS

LEMMA Turn ==
  ASSUME NEW a \in Int, NEW m \in Nat \ {0}
  PROVE  (a + m) % m = a % m
<1> DEFINE q == a \div m
           r == a % m
           q2 == (a + m) \div m
           r2 == (a + m) % m
<1>1. q \in Int /\ r \in Int /\ 0 <= r /\ r < m /\ a = m * q + r
  BY Division
<1>2. q2 \in Int /\ r2 \in Int /\ 0 <= r2 /\ r2 < m /\ a + m = m * q2 + r2
  BY Division
<1> HIDE DEF q, r, q2, r2
<1>3. m * (q2 - q - 1) = r - r2
  BY <1>1, <1>2
<1>4. CASE q2 - q - 1 >= 1
  <2>1. m * (q2 - q - 1) >= m
    BY <1>1, <1>2, <1>4
  <2> QED BY <1>1, <1>2, <1>3, <2>1
<1>5. CASE q2 - q - 1 <= 0 - 1
  <2>1. m * (q2 - q - 1) <= 0 - m
    BY <1>1, <1>2, <1>5
  <2> QED BY <1>1, <1>2, <1>3, <2>1
<1>6. CASE q2 - q - 1 = 0
  BY <1>1, <1>2, <1>3, <1>6
<1>7. r = r2
  BY <1>1, <1>2, <1>4, <1>5, <1>6
<1> QED BY <1>7 DEF r, r2

LEMMA Finite ==
  /\ IsFiniteSet(AllTasks)
  /\ \A pcs : IsFiniteSet(Amid(pcs)) /\ Cardinality(Amid(pcs)) \in Nat
  /\ IsFiniteSet(Runnable) /\ Cardinality(Runnable) \in Nat
<1>1. IsFiniteSet(AllTasks)
  BY TaskAssumption, FS_AddElement DEF AllTasks
<1>2. \A pcs : Amid(pcs) \in SUBSET AllTasks
  BY DEF Amid
<1>3. \A pcs : IsFiniteSet(Amid(pcs)) /\ Cardinality(Amid(pcs)) \in Nat
  BY <1>1, <1>2, FS_Subset, FS_CardinalityType
<1>4. Runnable \in SUBSET Tasks
  BY DEF Runnable
<1>5. IsFiniteSet(Runnable) /\ Cardinality(Runnable) \in Nat
  BY <1>4, TaskAssumption, FS_Subset, FS_CardinalityType
<1> QED BY <1>1, <1>3, <1>5

CountsAreNat ==
  Creating \in Nat /\ Waking \in Nat /\ Able \in Nat

LEMMA CountsNow == CountsAreNat
BY Finite DEF CountsAreNat, Creating, Waking, Able

LEMMA CountsNext == CountsAreNat'
BY CountsNow, PTL

ExcessIsDrift == Excess = (Drift + CounterMod) % CounterMod

LEMMA ExcessIs == Types => ExcessIsDrift
<1> SUFFICES ASSUME Types PROVE Excess = (Drift + CounterMod) % CounterMod
  BY DEF ExcessIsDrift
<1> DEFINE r == Cardinality(Runnable)
<1>1. /\ Creating \in Nat /\ Waking \in Nat /\ r \in Nat
      /\ ready_to_run_counter \in Nat /\ CounterMod \in Nat
  BY Finite, WidthAssumption DEF Creating, Waking, Types
<1>2. Excess = (CounterMod + ready_to_run_counter + Creating
                 - Waking - r) % CounterMod
  BY DEF Excess, Creating, Waking
<1> HIDE DEF Creating, Waking, r
<1>3. CounterMod + ready_to_run_counter + Creating - Waking - r
        = (ready_to_run_counter + Creating) - (Waking + r) + CounterMod
  BY <1>1
<1> QED BY <1>2, <1>3 DEF Drift, Able, r

LEMMA ExcessWillBe == Types' => ExcessIsDrift'
BY ExcessIs, PTL

(* The account is kept when the two sides of it change by as much, up to a *)
(* turn of the counter.                                                    *)
LEMMA Account ==
  ASSUME Types, Types',
         \/ Drift' = Drift
         \/ Drift' = Drift + CounterMod
         \/ Drift = Drift' + CounterMod
  PROVE  Excess' = Excess
<1>1. /\ Creating \in Nat /\ Waking \in Nat /\ Able \in Nat
      /\ Creating' \in Nat /\ Waking' \in Nat /\ Able' \in Nat
  BY CountsNow, CountsNext DEF CountsAreNat
<1>2. ready_to_run_counter \in Int /\ ready_to_run_counter' \in Int
  BY WidthAssumption DEF Types
<1>3. Drift \in Int /\ Drift' \in Int
  BY <1>1, <1>2 DEF Drift
<1>4. CounterMod \in Nat \ {0}
  BY WidthAssumption
<1>5. /\ Excess = (Drift + CounterMod) % CounterMod
      /\ Excess' = (Drift' + CounterMod) % CounterMod
  BY ExcessIs, ExcessWillBe DEF ExcessIsDrift
<1> DEFINE d == Drift
           e == Drift'
<1>6. \/ e = d
      \/ e = d + CounterMod
      \/ d = e + CounterMod
  OBVIOUS
<1>7. /\ Excess = (d + CounterMod) % CounterMod
      /\ Excess' = (e + CounterMod) % CounterMod
      /\ d \in Int /\ e \in Int
  BY <1>3, <1>5
<1> HIDE DEF d, e
<1> QED BY <1>4, <1>6, <1>7, Turn

-----------------------------------------------------------------------------
(* The bottom of the stacks.                                               *)
Bottom(t) == stack[t][1]

(* Code that is no interrupt handler's is the task's own.                  *)
LEMMA OwnCode ==
  ASSUME CountInv, Top.pc \notin HandlerPoints
  PROVE  /\ Depth = 1 /\ Top = Bottom(current_task)
         /\ current_task \in AllTasks
         /\ current_task = Idle => Top.pc \in {"task_entry", "hlt"}
         /\ Top.pc \in {"soft_load", "soft_store", "soft_state"}
              => Top.x \in Tasks
<1> DEFINE q == stack[current_task]
<1>1. current_task \in AllTasks /\ Depth \in Nat \ {0}
  BY TopFacts DEF CountInv, Inv, Types
<1>2. /\ Len(q) = Depth /\ Top = q[Depth]
      /\ \A i \in 2..Len(q) : q[i].pc \in HandlerPoints
  BY <1>1 DEF CountInv, BottomOK, Depth, Top
<1>3. Depth = 1
  BY <1>1, <1>2
<1>4. Top = Bottom(current_task)
  BY <1>2, <1>3 DEF Bottom
<1> QED BY <1>1, <1>3, <1>4 DEF CountInv, BottomOK, Bottom

(* The code at the point is the task's own, and only that has moved.       *)
LEMMA TaskMoves ==
  ASSUME CountInv, Top.pc \notin HandlerPoints,
         NEW f, f.pc \in {"soft_load", "soft_store", "soft_state"} => f.x \in Tasks,
         current_task = Idle => f.pc = "hlt",
         stack' = Replaced(f)
  PROVE  /\ BottomOK'
         /\ Top = Bottom(current_task)
         /\ \A t \in AllTasks :
              Bottom(t)' = IF t = current_task THEN f ELSE Bottom(t)
<1>1. current_task \in AllTasks /\ stack \in [AllTasks -> Seq(Frames)]
  BY DEF CountInv, Inv, Types, GoodStacks, GoodStacksOf
<1> DEFINE q == stack[current_task]
<1>2. Depth = 1
  BY OwnCode
<1>3. q \in Seq(Frames) /\ Len(q) = 1
  BY <1>1, <1>2 DEF Depth
<1>4. stack' = [stack EXCEPT ![current_task] = [q EXCEPT ![1] = f]]
  BY <1>2 DEF Replaced
<1>5. Len([q EXCEPT ![1] = f]) = 1 /\ [q EXCEPT ![1] = f][1] = f
  BY <1>3
<1>6. \A t \in AllTasks : stack'[t] = IF t = current_task THEN [q EXCEPT ![1] = f]
                                      ELSE stack[t]
  BY <1>1, <1>4
<1>7. \A t \in AllTasks : Bottom(t)' = IF t = current_task THEN f ELSE Bottom(t)
  BY <1>5, <1>6 DEF Bottom
<1>8. \A t \in AllTasks : \A i \in 2..Len(stack'[t]) :
        stack'[t][i].pc \in HandlerPoints
  <2> TAKE t \in AllTasks
  <2>1. CASE t = current_task
    <3>1. Len(stack'[t]) = 1
      BY <1>5, <1>6, <2>1
    <3> QED BY <3>1
  <2>2. CASE t # current_task
    BY <1>6, <2>2 DEF CountInv, BottomOK
  <2> QED BY <2>1, <2>2
<1>9. BottomOK'
  BY <1>7, <1>8 DEF CountInv, BottomOK, Bottom
<1> QED BY <1>7, <1>9, OwnCode

(* An interrupt's frame comes, changes or goes.                            *)
LEMMA HandlerMoves ==
  ASSUME CountInv,
         \/ \E f : /\ f.pc \in HandlerPoints /\ Top.pc \in HandlerPoints
                   /\ stack' = Replaced(f)
         \/ \E f \in Frames : f.pc \in HandlerPoints /\ stack' = Pushed(f)
         \/ Top.pc \in HandlerPoints /\ stack' = Popped
  PROVE  BottomOK' /\ \A t \in AllTasks : Bottom(t)' = Bottom(t)
<1> DEFINE q == stack[current_task]
<1>1. /\ current_task \in AllTasks /\ Depth \in Nat \ {0}
      /\ stack \in [AllTasks -> Seq(Frames)]
      /\ q \in Seq(Frames) /\ Len(q) = Depth /\ Top = q[Depth]
      /\ q[1].pc \notin HandlerPoints
      /\ \A i \in 2..Len(q) : q[i].pc \in HandlerPoints
  BY TopFacts DEF CountInv, Inv, Types, GoodStacks, GoodStacksOf, GoodStack,
    Depth, Top, BottomOK
<1>2. Top.pc \in HandlerPoints => Depth > 1
  BY <1>1
<1>3. PICK r : /\ stack' = [stack EXCEPT ![current_task] = r]
               /\ r[1] = q[1]
               /\ \A i \in 2..Len(r) : r[i].pc \in HandlerPoints
  <2>1. ASSUME NEW f, f.pc \in HandlerPoints, Top.pc \in HandlerPoints,
               stack' = Replaced(f)
        PROVE  \E r : /\ stack' = [stack EXCEPT ![current_task] = r]
                      /\ r[1] = q[1]
                      /\ \A i \in 2..Len(r) : r[i].pc \in HandlerPoints
    <3> DEFINE r == [q EXCEPT ![Depth] = f]
    <3>1. stack' = [stack EXCEPT ![current_task] = r]
      BY <2>1 DEF Replaced
    <3>2. Len(r) = Len(q) /\ \A i \in 1..Len(q) :
                                r[i] = IF i = Depth THEN f ELSE q[i]
      <4>1. q \in [1..Len(q) -> Frames] /\ Len(q) \in Nat
        BY <1>1
      <4>2. DOMAIN r = 1..Len(q)
        BY <4>1
      <4>3. \A i \in 1..Len(q) : r[i] = IF i = Depth THEN f ELSE q[i]
        BY <4>1
      <4> QED BY <1>1, <4>1, <4>2, <4>3
    <3> HIDE DEF r
    <3>3. r[1] = q[1] /\ \A i \in 2..Len(r) : r[i].pc \in HandlerPoints
      BY <1>1, <1>2, <2>1, <3>2
    <3> QED BY <3>1, <3>3
  <2>2. ASSUME NEW f \in Frames, f.pc \in HandlerPoints, stack' = Pushed(f)
        PROVE  \E r : /\ stack' = [stack EXCEPT ![current_task] = r]
                      /\ r[1] = q[1]
                      /\ \A i \in 2..Len(r) : r[i].pc \in HandlerPoints
    <3> DEFINE r == Append(q, f)
    <3>1. stack' = [stack EXCEPT ![current_task] = r]
      BY <2>2 DEF Pushed
    <3>2. Len(r) = Len(q) + 1 /\ \A i \in 1..Len(r) :
                                    r[i] = IF i = Len(r) THEN f ELSE q[i]
      BY <1>1
    <3> HIDE DEF r
    <3>3. r[1] = q[1] /\ \A i \in 2..Len(r) : r[i].pc \in HandlerPoints
      BY <1>1, <2>2, <3>2
    <3> QED BY <3>1, <3>3
  <2>3. ASSUME Top.pc \in HandlerPoints, stack' = Popped
        PROVE  \E r : /\ stack' = [stack EXCEPT ![current_task] = r]
                      /\ r[1] = q[1]
                      /\ \A i \in 2..Len(r) : r[i].pc \in HandlerPoints
    <3> DEFINE r == SubSeq(q, 1, Depth - 1)
    <3>1. stack' = [stack EXCEPT ![current_task] = r]
      BY <2>3 DEF Popped
    <3>2. Len(r) = Depth - 1 /\ \A i \in 1..(Depth - 1) : r[i] = q[i]
      BY <1>1, <1>2, <2>3
    <3> HIDE DEF r
    <3>3. r[1] = q[1] /\ \A i \in 2..Len(r) : r[i].pc \in HandlerPoints
      BY <1>1, <1>2, <2>3, <3>2
    <3> QED BY <3>1, <3>3
  <2> QED BY <2>1, <2>2, <2>3
<1>4. \A t \in AllTasks : stack'[t] = IF t = current_task THEN r ELSE stack[t]
  BY <1>1, <1>3
<1>5. \A t \in AllTasks : Bottom(t)' = Bottom(t)
  BY <1>3, <1>4 DEF Bottom
<1>6. \A t \in AllTasks : \A i \in 2..Len(stack'[t]) :
        stack'[t][i].pc \in HandlerPoints
  BY <1>3, <1>4 DEF CountInv, BottomOK
<1>7. BottomOK'
  BY <1>5, <1>6 DEF CountInv, BottomOK, Bottom
<1> QED BY <1>5, <1>7

(* How the half-done updates are counted after that.                       *)
LEMMA SameHalfDone ==
  ASSUME \A t \in AllTasks : Bottom(t)' = Bottom(t)
  PROVE  Creating' = Creating /\ Waking' = Waking
BY DEF Bottom, Amid, Creating, Waking

LEMMA OneMoves ==
  ASSUME NEW S, NEW T, NEW x, IsFiniteSet(S),
         \A t : t # x => (t \in T <=> t \in S)
  PROVE  /\ Cardinality(S) \in Nat
         /\ (x \in S <=> x \in T) => Cardinality(T) = Cardinality(S)
         /\ x \in S /\ x \notin T => Cardinality(T) = Cardinality(S) + (-1)
         /\ x \notin S /\ x \in T => Cardinality(T) = Cardinality(S) + 1
<1>1. Cardinality(S) \in Nat
  BY FS_CardinalityType
<1>2. (x \in S <=> x \in T) => T = S
  OBVIOUS
<1>3. ASSUME x \in S, x \notin T
      PROVE  Cardinality(T) = Cardinality(S) + (-1)
  <2>1. T = S \ {x}
    BY <1>3
  <2> QED BY <1>1, <1>3, <2>1, FS_RemoveElement
<1>4. ASSUME x \notin S, x \in T
      PROVE  Cardinality(T) = Cardinality(S) + 1
  <2>1. T = S \cup {x}
    BY <1>4
  <2> QED BY <1>4, <2>1, FS_AddElement
<1> QED BY <1>1, <1>2, <1>3, <1>4

(* The running task's own code goes from one point to another.             *)
LEMMA HalfDoneMoves ==
  ASSUME current_task \in AllTasks, NEW f,
         \A t \in AllTasks :
           Bottom(t)' = IF t = current_task THEN f ELSE Bottom(t),
         NEW S
  PROVE  LET from == Bottom(current_task).pc
         IN /\ (from \in S <=> f.pc \in S) =>
                 Cardinality(Amid(S))' = Cardinality(Amid(S))
            /\ from \in S /\ f.pc \notin S =>
                 Cardinality(Amid(S))' = Cardinality(Amid(S)) + (-1)
            /\ from \notin S /\ f.pc \in S =>
                 Cardinality(Amid(S))' = Cardinality(Amid(S)) + 1
<1> DEFINE A == Amid(S)
           B == Amid(S)'
<1>1. /\ A = {t \in AllTasks : Bottom(t).pc \in S}
      /\ B = {t \in AllTasks : Bottom(t)'.pc \in S}
  BY DEF Amid, Bottom
<1>2. /\ current_task \in A <=> Bottom(current_task).pc \in S
      /\ current_task \in B <=> f.pc \in S
      /\ \A t : t # current_task => (t \in B <=> t \in A)
  BY <1>1
<1>3. IsFiniteSet(A)
  BY Finite
<1> HIDE DEF A, B
<1>4. /\ (current_task \in A <=> current_task \in B) => Cardinality(B) = Cardinality(A)
      /\ current_task \in A /\ current_task \notin B
           => Cardinality(B) = Cardinality(A) + (-1)
      /\ current_task \notin A /\ current_task \in B
           => Cardinality(B) = Cardinality(A) + 1
  BY <1>2, <1>3, OneMoves
<1> QED BY <1>2, <1>4 DEF A, B

CreatePoints == {"create_load", "create_store"}
WakePoints   == {"soft_state"}
SoftPoints   == {"soft_load", "soft_store", "soft_state"}

CanRun(st, t) == st[t] \in {"RUNNING", "READY_TO_RUN"}

(* One task becomes ready or stops being so.                               *)
LEMMA RunnableMoves ==
  ASSUME NEW p \in Tasks,
         \A t \in Tasks \ {p} : CanRun(state', t) <=> CanRun(state, t)
  PROVE  /\ (CanRun(state, p) <=> CanRun(state', p)) =>
              Able' = Able
         /\ CanRun(state, p) /\ ~CanRun(state', p) =>
              Able' = Able + (-1)
         /\ ~CanRun(state, p) /\ CanRun(state', p) =>
              Able' = Able + 1
<1> DEFINE A == Runnable
           B == Runnable'
<1>1. /\ p \in A <=> CanRun(state, p)
      /\ p \in B <=> CanRun(state', p)
      /\ \A t : t # p => (t \in B <=> t \in A)
  BY DEF Runnable, CanRun
<1>2. IsFiniteSet(A)
  BY Finite
<1> HIDE DEF A, B
<1>3. /\ (p \in A <=> p \in B) => Cardinality(B) = Cardinality(A)
      /\ p \in A /\ p \notin B => Cardinality(B) = Cardinality(A) + (-1)
      /\ p \notin A /\ p \in B => Cardinality(B) = Cardinality(A) + 1
  BY <1>1, <1>2, OneMoves
<1> QED BY <1>1, <1>3 DEF A, B, Able

LEMMA RunnableStays ==
  ASSUME \A t \in Tasks : CanRun(state', t) <=> CanRun(state, t)
  PROVE  Able' = Able
<1>1. Runnable' = Runnable
  BY DEF Runnable, CanRun
<1> QED BY <1>1 DEF Able

(* What the property says of a step, and what the next step needs.         *)
Accounted == /\ BottomOK'
             /\ Excess' = Excess \/ StaleStore \/ LateWake

(* Steps that leave the states and the counter alone.                      *)
LEMMA SameCounts ==
  ASSUME Types, Types', Creating' = Creating, Waking' = Waking,
         Able' = Able,
         ready_to_run_counter' = ready_to_run_counter
  PROVE  Excess' = Excess
BY Account DEF Drift

LEMMA QuietMove ==
  ASSUME CountInv, Types', Top.pc \notin HandlerPoints,
         NEW f, f.pc \in SoftPoints => f.x \in Tasks,
         current_task = Idle => f.pc = "hlt",
         Go(f), UNCHANGED <<state, ready_to_run_counter>>,
         Top.pc \in CreatePoints <=> f.pc \in CreatePoints,
         Top.pc \in WakePoints <=> f.pc \in WakePoints
  PROVE  Accounted
<1>1. current_task \in AllTasks /\ Types
  BY DEF CountInv, Inv, Types
<1>2. /\ BottomOK' /\ Top = Bottom(current_task)
      /\ \A t \in AllTasks :
           Bottom(t)' = IF t = current_task THEN f ELSE Bottom(t)
  BY TaskMoves DEF Go, SoftPoints
<1>3. Creating' = Creating
  BY <1>1, <1>2, HalfDoneMoves DEF Creating, CreatePoints
<1>4. Waking' = Waking
  BY <1>1, <1>2, HalfDoneMoves DEF Waking, WakePoints
<1>5. Able' = Able
  BY RunnableStays
<1> QED BY <1>1, <1>2, <1>3, <1>4, <1>5, SameCounts DEF Accounted

LEMMA QuietHandler ==
  ASSUME CountInv, Types', UNCHANGED <<state, ready_to_run_counter>>,
         \/ UNCHANGED stack
         \/ \E f : /\ f.pc \in HandlerPoints /\ Top.pc \in HandlerPoints
                   /\ Go(f)
         \/ Top.pc \in HandlerPoints /\ stack' = Popped
  PROVE  Accounted
<1>1. BottomOK' /\ \A t \in AllTasks : Bottom(t)' = Bottom(t)
  BY HandlerMoves DEF CountInv, BottomOK, Bottom, Go
<1>2. Creating' = Creating /\ Waking' = Waking
  BY <1>1, SameHalfDone
<1>3. Able' = Able
  BY RunnableStays
<1> QED BY <1>1, <1>2, <1>3, SameCounts DEF Accounted, CountInv, Inv

(* Code that runs and goes on running.                                     *)
LEMMA HomeIs ==
  ASSUME NEW t
  PROVE  /\ Home(t).pc \in {"reap_head", "hlt", "run"}
         /\ t = Idle => Home(t).pc = "hlt"
BY TaskAssumption DEF Home, At, Frame

LEMMA KernelMovesCounted ==
  ASSUME CountInv, Types',
         \/ TaskEntry \/ BlockReturn \/ CreateLink
         \/ CounterLoad \/ SleepUntil
  PROVE  Accounted
<1> USE DEF Executes, CreatePoints, WakePoints, SoftPoints, HandlerPoints,
      PitPoints, Frame, At
<1>1. CASE TaskEntry \/ BlockReturn \/ CreateLink
  <2> DEFINE f == Home(current_task)
  <2>1. /\ Top.pc \in {"task_entry", "block_return", "create_link"} /\ Go(f)
        /\ UNCHANGED <<state, ready_to_run_counter>>
    BY <1>1 DEF TaskEntry, BlockReturn, CreateLink
  <2>2. f.pc \in {"reap_head", "hlt", "run"} /\ (current_task = Idle => f.pc = "hlt")
    BY HomeIs
  <2> HIDE DEF f
  <2> QED BY <2>1, <2>2, QuietMove
<1>2. CASE CounterLoad
  <2>1. PICK pc \in {"create_store", "soft_store"} :
          /\ Go(Frame(pc, Top.x, ready_to_run_counter))
          /\ Top.pc = IF pc = "create_store" THEN "create_load" ELSE "soft_load"
    BY <1>2 DEF CounterLoad
  <2>2. /\ current_task # Idle /\ Top.pc \notin HandlerPoints
        /\ pc = "soft_store" => Top.x \in Tasks
    BY <2>1, OwnCode
  <2> DEFINE f == Frame(pc, Top.x, ready_to_run_counter)
  <2>3. f.pc = pc /\ f.x = Top.x /\ Go(f)
        /\ UNCHANGED <<state, ready_to_run_counter>>
    BY <1>2, <2>1 DEF CounterLoad
  <2> HIDE DEF f
  <2> QED BY <2>1, <2>2, <2>3, QuietMove
<1>3. CASE SleepUntil
  <2>1. /\ Top.pc = "sleep_until" /\ UNCHANGED <<state, ready_to_run_counter>>
        /\ Go(Home(current_task)) \/ Go(At("block_sleeping"))
    BY <1>3 DEF SleepUntil
  <2>2. current_task # Idle /\ Top.pc \notin HandlerPoints
    BY <2>1, OwnCode
  <2>3. CASE Go(Home(current_task))
    <3> DEFINE f == Home(current_task)
    <3>1. f.pc \in {"reap_head", "hlt", "run"} /\ Go(f)
      BY <2>3, HomeIs
    <3> HIDE DEF f
    <3> QED BY <2>1, <2>2, <3>1, QuietMove
  <2>4. CASE Go(At("block_sleeping"))
    <3> DEFINE f == At("block_sleeping")
    <3>1. f.pc = "block_sleeping" /\ Go(f)
      BY <2>4
    <3> HIDE DEF f
    <3> QED BY <2>1, <2>2, <3>1, QuietMove
  <2> QED BY <2>1, <2>3, <2>4
<1> QED BY <1>1, <1>2, <1>3

LEMMA CallsCounted ==
  ASSUME CountInv, Types',
         \/ \E d \in Durations : Sleep(d)
         \/ \E p \in Tasks : SoftUnblock(p)
         \/ ReapHead \/ ReapScan
  PROVE  Accounted
<1> USE DEF Executes, CreatePoints, WakePoints, SoftPoints, HandlerPoints,
      PitPoints, Frame, At
<1>1. /\ Top.pc \in {"run", "reap_head", "reap_scan"}
      /\ UNCHANGED <<state, ready_to_run_counter>>
      /\ \/ UNCHANGED stack
         \/ \E pc \in {"sleep_until", "soft_load", "reap_scan", "reap_head"} : \E x, n :
              Go(Frame(pc, x, n)) /\ (pc = "soft_load" => x \in Tasks)
  BY DEF Sleep, SoftUnblock, ReapHead, ReapScan
<1>2. CASE UNCHANGED stack
  BY <1>1, <1>2, QuietHandler
<1>3. CASE \E pc \in {"sleep_until", "soft_load", "reap_scan", "reap_head"} : \E x, n :
             Go(Frame(pc, x, n)) /\ (pc = "soft_load" => x \in Tasks)
  <2>1. PICK f : /\ f.pc \in {"sleep_until", "soft_load", "reap_scan", "reap_head"}
                 /\ Go(f) /\ (f.pc = "soft_load" => f.x \in Tasks)
    BY <1>3
  <2>2. current_task # Idle /\ Top.pc \notin HandlerPoints
    BY <1>1, OwnCode
  <2> QED BY <1>1, <2>1, <2>2, QuietMove
<1> QED BY <1>1, <1>2, <1>3

LEMMA HandlersCounted ==
  ASSUME CountInv, Types',
         \/ UnblockReturn \/ PitFlag \/ SchedReturn \/ IRet \/ Resurrected
         \/ UNCHANGED vars
  PROVE  Accounted
<1> USE DEF Executes, HandlerPoints, PitPoints, Frame, At
<1>1. CASE UnblockReturn \/ PitFlag \/ SchedReturn
  <2>1. /\ Top.pc \in HandlerPoints /\ UNCHANGED <<state, ready_to_run_counter>>
        /\ \/ UNCHANGED stack
           \/ \E f : f.pc \in HandlerPoints /\ Go(f)
    <3>1. CASE UnblockReturn
      <4>1. Frame("pit_flag", Top.x, Top.n).pc \in HandlerPoints
        OBVIOUS
      <4> QED BY <3>1, <4>1 DEF UnblockReturn
    <3>2. CASE PitFlag
      <4>1. \A pc \in {"pit_end", "pit_unblock", "pit_flag"} : \A x, n :
              Frame(pc, x, n).pc \in HandlerPoints
        OBVIOUS
      <4>2. \/ UNCHANGED stack
            \/ \E pc \in {"pit_end", "pit_unblock", "pit_flag"} : \E x, n :
                 Go(Frame(pc, x, n))
        BY <3>2 DEF PitFlag, Dangling
      <4>3. Top.pc \in HandlerPoints /\ UNCHANGED <<state, ready_to_run_counter>>
        BY <3>2 DEF PitFlag, Dangling
      <4> HIDE DEF Frame
      <4> QED BY <4>1, <4>2, <4>3
    <3>3. CASE SchedReturn
      <4>1. At("iret").pc \in HandlerPoints
        OBVIOUS
      <4> QED BY <3>3, <4>1 DEF SchedReturn
    <3> QED BY <1>1, <3>1, <3>2, <3>3
  <2> QED BY <2>1, QuietHandler
<1>2. CASE IRet
  BY <1>2, QuietHandler DEF IRet
<1>3. CASE Resurrected \/ UNCHANGED vars
  BY <1>3, QuietHandler DEF Resurrected, vars
<1> QED BY <1>1, <1>2, <1>3

(* One more or one less on both sides of the account.                      *)
LEMMA CounterMoves ==
  ASSUME NEW c \in 0..(CounterMod - 1)
  PROVE  /\ Inc(c) \in {c + 1, c + 1 + CounterMod, c + 1 - CounterMod}
         /\ Dec(c) \in {c + (-1), c + (-1) + CounterMod, c + (-1) - CounterMod}
BY WidthAssumption DEF Inc, Dec

(* What does not change.                                                   *)
LEMMA Unmoved ==
  /\ Creating = Creating + 0 /\ Waking = Waking + 0 /\ Able = Able + 0
  /\ Types => ready_to_run_counter \in {ready_to_run_counter + 0,
                                        ready_to_run_counter + 0 + CounterMod,
                                        ready_to_run_counter + 0 - CounterMod}
BY CountsNow, WidthAssumption DEF CountsAreNat, Types

(* The two sides of the account move together.                             *)
LEMMA Balance ==
  ASSUME Types, Types',
         NEW dc \in Int, NEW dk \in Int, NEW dw \in Int, NEW da \in Int,
         dc + dk = dw + da,
         ready_to_run_counter' \in {ready_to_run_counter + dc,
                                   ready_to_run_counter + dc + CounterMod,
                                   ready_to_run_counter + dc - CounterMod},
         Creating' = Creating + dk, Waking' = Waking + dw, Able' = Able + da
  PROVE  Excess' = Excess
<1>1. /\ Creating \in Int /\ Waking \in Int /\ Able \in Int
      /\ ready_to_run_counter \in Int /\ CounterMod \in Int
  BY CountsNow, WidthAssumption DEF CountsAreNat, Types
<1>2. Drift' = (ready_to_run_counter' + (Creating + dk))
                 - ((Waking + dw) + (Able + da))
  BY DEF Drift
<1>3. \/ Drift' = Drift
      \/ Drift' = Drift + CounterMod
      \/ Drift' = Drift - CounterMod
  <2> DEFINE c == ready_to_run_counter'
             d == (c + (Creating + dk)) - ((Waking + dw) + (Able + da))
  <2>1. c \in {ready_to_run_counter + dc, ready_to_run_counter + dc + CounterMod,
               ready_to_run_counter + dc - CounterMod}
    OBVIOUS
  <2>2. Drift' = d
    BY <1>2
  <2> HIDE DEF c
  <2>3. d = Drift \/ d = Drift + CounterMod \/ d = Drift - CounterMod
    BY <1>1, <2>1 DEF Drift
  <2> QED BY <2>2, <2>3
<1>4. CASE Drift' = Drift - CounterMod
  <2>1. Drift \in Int
    BY <1>1 DEF Drift
  <2>2. Drift = Drift - CounterMod + CounterMod
    BY <1>1, <2>1
  <2> QED BY <1>4, <2>2, Account
<1> QED BY <1>3, <1>4, Account

LEMMA CreateTaskCounted ==
  ASSUME CountInv, Types', NEW t \in Tasks, CreateTask(t)
  PROVE  Accounted
<1> DEFINE f == Frame("create_load", t, 0)
<1>1. /\ Top.pc = "run" /\ Go(f) /\ f.pc = "create_load"
      /\ state[t] = "UNBORN" /\ state' = [state EXCEPT ![t] = "READY_TO_RUN"]
      /\ UNCHANGED ready_to_run_counter
  BY DEF CreateTask, Executes, Frame
<1> HIDE DEF f
<1>2. Top.pc \notin HandlerPoints /\ Types /\ current_task \in AllTasks
  BY <1>1 DEF HandlerPoints, PitPoints, CountInv, Inv, Types
<1>3. Top = Bottom(current_task) /\ current_task # Idle
  BY <1>1, <1>2, OwnCode
<1>4. /\ BottomOK'
      /\ \A u \in AllTasks :
           Bottom(u)' = IF u = current_task THEN f ELSE Bottom(u)
  BY <1>1, <1>2, <1>3, TaskMoves DEF Go
<1>5. Creating' = Creating + 1
  BY <1>1, <1>2, <1>3, <1>4, HalfDoneMoves DEF Creating
<1>6. Waking' = Waking + 0
  <2>1. Waking' = Waking
    BY <1>1, <1>2, <1>3, <1>4, HalfDoneMoves DEF Waking
  <2> QED BY <2>1, Unmoved
<1>7. Able' = Able + 1
  <2>1. /\ ~CanRun(state, t) /\ CanRun(state', t)
        /\ \A u \in Tasks \ {t} : CanRun(state', u) <=> CanRun(state, u)
    BY <1>1, <1>2 DEF CanRun, Types, AllTasks
  <2> QED BY <2>1, RunnableMoves
<1>8. ready_to_run_counter' \in {ready_to_run_counter + 0,
                                ready_to_run_counter + 0 + CounterMod,
                                ready_to_run_counter + 0 - CounterMod}
  BY <1>1, <1>2, Unmoved
<1>9. Excess' = Excess
  BY <1>2, <1>5, <1>6, <1>7, <1>8, Balance
<1> QED BY <1>4, <1>9 DEF Accounted

LEMMA CounterStoreCounted ==
  ASSUME CountInv, Types', CounterStore
  PROVE  Accounted
<1>1. PICK pc \in {"create_link", "soft_state"} :
        /\ Go(Frame(pc, Top.x, 0))
        /\ Top.pc = IF pc = "create_link" THEN "create_store" ELSE "soft_store"
        /\ UNCHANGED state /\ ready_to_run_counter' = Inc(Top.n)
  BY DEF CounterStore, Executes
<1> DEFINE f == Frame(pc, Top.x, 0)
<1>2. f.pc = pc /\ f.x = Top.x /\ Go(f)
  BY <1>1 DEF Frame
<1> HIDE DEF f
<1>3. Top.pc \notin HandlerPoints /\ Types
  BY <1>1 DEF HandlerPoints, PitPoints, CountInv, Inv
<1>4. /\ Top = Bottom(current_task) /\ current_task # Idle
      /\ current_task \in AllTasks
      /\ pc = "soft_state" => Top.x \in Tasks
  BY <1>1, <1>3, OwnCode
<1>5. /\ BottomOK'
      /\ \A u \in AllTasks :
           Bottom(u)' = IF u = current_task THEN f ELSE Bottom(u)
  BY <1>2, <1>3, <1>4, TaskMoves DEF Go
<1>6. Able' = Able + 0
  <2>1. Able' = Able
    BY <1>1, RunnableStays
  <2> QED BY <2>1, Unmoved
<1>7. ASSUME Top.n = ready_to_run_counter
      PROVE  ready_to_run_counter' \in {ready_to_run_counter + 1,
                                       ready_to_run_counter + 1 + CounterMod,
                                       ready_to_run_counter + 1 - CounterMod}
  BY <1>1, <1>3, <1>7, CounterMoves DEF Types
<1>8. ASSUME Top.n = ready_to_run_counter, pc = "create_link"
      PROVE  Excess' = Excess
  <2>1. Creating' = Creating + (-1)
    BY <1>1, <1>2, <1>4, <1>5, <1>8, HalfDoneMoves DEF Creating
  <2>2. Waking' = Waking
    BY <1>1, <1>2, <1>4, <1>5, <1>8, HalfDoneMoves DEF Waking
  <2>3. Waking' = Waking + 0
    BY <2>2, Unmoved
  <2> QED BY <1>3, <1>6, <1>7, <1>8, <2>1, <2>3, Balance
<1>9. ASSUME Top.n = ready_to_run_counter, pc = "soft_state"
      PROVE  Excess' = Excess
  <2>1. Creating' = Creating
    BY <1>1, <1>2, <1>4, <1>5, <1>9, HalfDoneMoves DEF Creating
  <2>2. Waking' = Waking + 1
    BY <1>1, <1>2, <1>4, <1>5, <1>9, HalfDoneMoves DEF Waking
  <2>3. Creating' = Creating + 0
    BY <2>1, Unmoved
  <2> QED BY <1>3, <1>6, <1>7, <1>9, <2>2, <2>3, Balance
<1>10. Top.n # ready_to_run_counter => StaleStore
  BY <1>1 DEF StaleStore
<1> QED BY <1>5, <1>8, <1>9, <1>10 DEF Accounted

LEMMA SoftStateCounted ==
  ASSUME CountInv, Types', SoftState
  PROVE  Accounted
<1> DEFINE f == Home(current_task)
           p == Top.x
<1>1. /\ Top.pc = "soft_state" /\ Go(f) /\ f.pc \in {"reap_head", "hlt", "run"}
      /\ state' = [state EXCEPT ![p] = "READY_TO_RUN"]
      /\ UNCHANGED ready_to_run_counter
  BY HomeIs DEF SoftState, Executes
<1>2. Top.pc \notin HandlerPoints /\ Types
  BY <1>1 DEF HandlerPoints, PitPoints, CountInv, Inv
<1>3. /\ Top = Bottom(current_task) /\ current_task # Idle
      /\ current_task \in AllTasks /\ p \in Tasks
  BY <1>1, <1>2, OwnCode
<1> HIDE DEF f, p
<1>4. /\ BottomOK'
      /\ \A u \in AllTasks :
           Bottom(u)' = IF u = current_task THEN f ELSE Bottom(u)
  BY <1>1, <1>2, <1>3, TaskMoves DEF Go
<1>5. Creating' = Creating + 0
  <2>1. Creating' = Creating
    BY <1>1, <1>3, <1>4, HalfDoneMoves DEF Creating
  <2> QED BY <2>1, Unmoved
<1>6. Waking' = Waking + (-1)
  BY <1>1, <1>3, <1>4, HalfDoneMoves DEF Waking
<1>7. ASSUME p \notin Runnable PROVE Excess' = Excess
  <2>1. /\ ~CanRun(state, p) /\ CanRun(state', p)
        /\ \A u \in Tasks \ {p} : CanRun(state', u) <=> CanRun(state, u)
    BY <1>1, <1>2, <1>3, <1>7 DEF CanRun, Types, AllTasks, Runnable
  <2>2. Able' = Able + 1
    BY <1>3, <2>1, RunnableMoves
  <2>3. ready_to_run_counter' \in {ready_to_run_counter + 0,
                                  ready_to_run_counter + 0 + CounterMod,
                                  ready_to_run_counter + 0 - CounterMod}
    BY <1>1, <1>2, Unmoved
  <2> QED BY <1>2, <1>5, <1>6, <2>2, <2>3, Balance
<1>8. p \in Runnable => LateWake
  BY <1>1 DEF LateWake, p
<1> QED BY <1>4, <1>7, <1>8 DEF Accounted

(* The running task is marked as one that waits or has ended.              *)
Left(st) == /\ st \in [AllTasks -> States]
            /\ ~CanRun(st, current_task)
            /\ \A u \in Tasks \ {current_task} : CanRun(st, u) <=> CanRun(state, u)

LEMMA Leaving ==
  ASSUME Types, NEW reason, reason \in {"SLEEPING", "BLOCKED", "TERMINATED"}
  PROVE  Left([state EXCEPT ![current_task] = reason])
BY DEF Left, CanRun, Types, AllTasks, States

(* block_task and task_termination take the running task off the counter   *)
(* and off the tasks that can run.                                         *)
LEMMA LeavingCounted ==
  ASSUME CountInv, Types', Top.pc \in {"run", "block_sleeping"}, halt = "no",
         NEW f, f.pc \in {"block_return", "terminated"},
         stack' = Replaced(f),
         NEW st, Left(st), NEW c, c = Dec(ready_to_run_counter),
         Scheduler(st, c)
  PROVE  Accounted
<1>1. Top.pc \notin HandlerPoints /\ Types /\ current_task \in AllTasks
  BY DEF HandlerPoints, PitPoints, CountInv, Inv, Types
<1>2. /\ Top = Bottom(current_task) /\ current_task # Idle
      /\ current_task \in Tasks /\ CanRun(state, current_task)
  BY <1>1, OwnCode DEF AllTasks, CountInv, Inv, CurrentRuns, CanRun
<1>3. /\ BottomOK'
      /\ \A u \in AllTasks :
           Bottom(u)' = IF u = current_task THEN f ELSE Bottom(u)
  BY <1>1, <1>2, TaskMoves
<1>4. Creating' = Creating + 0
  <2>1. Creating' = Creating
    BY <1>1, <1>2, <1>3, HalfDoneMoves DEF Creating
  <2> QED BY <2>1, Unmoved
<1>5. Waking' = Waking + 0
  <2>1. Waking' = Waking
    BY <1>1, <1>2, <1>3, HalfDoneMoves DEF Waking
  <2> QED BY <2>1, Unmoved
<1>6. \A u \in Tasks : CanRun(state', u) <=> CanRun(st, u)
  BY <1>1, SchedulerMarks DEF CanRun, Left
<1>7. Able' = Able + (-1)
  BY <1>2, <1>6, RunnableMoves DEF Left
<1>8. ready_to_run_counter' \in {ready_to_run_counter + (-1),
                                ready_to_run_counter + (-1) + CounterMod,
                                ready_to_run_counter + (-1) - CounterMod}
  BY <1>1, CounterMoves DEF Scheduler, Types
<1>9. Excess' = Excess
  BY <1>1, <1>4, <1>5, <1>7, <1>8, Balance
<1> QED BY <1>3, <1>9 DEF Accounted

LEMMA BlockTaskCounted ==
  ASSUME CountInv, Types', BlockTask \/ TaskTermination
  PROVE  Accounted
<1>1. PICK reason \in {"SLEEPING", "BLOCKED", "TERMINATED"},
           f \in {At("block_return"), At("terminated")} :
        /\ Top.pc \in {"run", "block_sleeping"} /\ halt = "no"
        /\ stack' = Replaced(f)
        /\ Scheduler([state EXCEPT ![current_task] = reason],
                     Dec(ready_to_run_counter))
  BY DEF BlockTask, TaskTermination, Executes, Lock
<1> DEFINE st == [state EXCEPT ![current_task] = reason]
           c == Dec(ready_to_run_counter)
<1>2. f.pc \in {"block_return", "terminated"}
  BY DEF At, Frame
<1>3. Left(st)
  BY Leaving DEF CountInv, Inv
<1>4. Scheduler(st, c)
  BY <1>1
<1>5. c = Dec(ready_to_run_counter)
  OBVIOUS
<1> HIDE DEF st, c
<1> QED BY <1>1, <1>2, <1>3, <1>4, <1>5, LeavingCounted

(* A handler pre-empts the task it has interrupted.                        *)
LEMMA PreemptCounted ==
  ASSUME CountInv, Types', BottomOK',
         \A t \in AllTasks : Bottom(t)' = Bottom(t),
         Scheduler(state, ready_to_run_counter)
  PROVE  Accounted
<1>1. Types /\ state \in [AllTasks -> States]
  BY DEF CountInv, Inv, Types
<1>2. Able' = Able
  BY <1>1, SchedulerMarks, RunnableStays DEF CanRun
<1>3. ready_to_run_counter' = ready_to_run_counter
  BY DEF Scheduler
<1> QED BY <1>1, <1>2, <1>3, SameHalfDone, SameCounts DEF Accounted

(* unblock_task adds the task it wakes to both sides.                      *)
LEMMA UnblockCounted ==
  ASSUME CountInv, Types', BottomOK', halt = "no",
         \A u \in AllTasks : Bottom(u)' = Bottom(u),
         NEW t \in Tasks, t \notin Runnable, NEW s, Unblock(t, s)
  PROVE  Accounted
<1>1. Types /\ CurrentRuns
  BY DEF CountInv, Inv
<1>2. Creating' = Creating + 0 /\ Waking' = Waking + 0
  BY SameHalfDone, Unmoved
<1>3. Able' = Able + 1
  <2>1. ~CanRun(state, t)
    BY DEF Runnable, CanRun
  <2>2. CanRun(state', t)
    BY <1>1, UnblockMarks DEF CanRun
  <2>3. \A u \in Tasks \ {t} : CanRun(state', u) <=> CanRun(state, u)
    BY <1>1, UnblockMarks, TaskAssumption DEF CanRun
  <2> QED BY <2>1, <2>2, <2>3, RunnableMoves
<1>4. ready_to_run_counter' \in {ready_to_run_counter + 1,
                                ready_to_run_counter + 1 + CounterMod,
                                ready_to_run_counter + 1 - CounterMod}
  BY <1>1, CounterMoves DEF Unblock, Types
<1>5. Excess' = Excess
  BY <1>1, <1>2, <1>3, <1>4, Balance
<1> QED BY <1>5 DEF Accounted

LEMMA PitEndCounted ==
  ASSUME CountInv, Types', PitEnd
  PROVE  Accounted
<1>1. /\ Top.pc \in HandlerPoints
      /\ At("iret").pc \in HandlerPoints /\ At("sched_return").pc \in HandlerPoints
  BY DEF PitEnd, Executes, HandlerPoints, PitPoints, At, Frame
<1>2. CASE Top.n = 0
  BY <1>1, <1>2, QuietHandler DEF PitEnd
<1>3. CASE Top.n # 0
  <2>1. /\ stack' = Replaced(At("sched_return"))
        /\ Scheduler(state, ready_to_run_counter)
    BY <1>3 DEF PitEnd, Lock
  <2>2. BottomOK' /\ \A t \in AllTasks : Bottom(t)' = Bottom(t)
    BY <1>1, <2>1, HandlerMoves
  <2> QED BY <2>1, <2>2, PreemptCounted
<1> QED BY <1>2, <1>3

LEMMA UnblockTaskCounted ==
  ASSUME CountInv, Types', UnblockTask
  PROVE  Accounted
<1>1. /\ Top.pc = "pit_unblock" /\ Top.pc \in HandlerPoints /\ halt = "no"
  BY DEF UnblockTask, Executes, HandlerPoints, PitPoints
<1>2. Top.x \in Tasks
  BY <1>1, TopFacts DEF FrameOK, CountInv, Inv, Types
<1>3. CASE Top.x \notin Reached(head)
  BY <1>3, QuietHandler DEF UnblockTask
<1>4. CASE Top.x \in Reached(head)
  <2> DEFINE f == Frame("unblock_return", Top.x, Top.n)
  <2>1. Unblock(Top.x, Replaced(f)) /\ stack' = Replaced(f)
    BY <1>4 DEF UnblockTask, Unblock, Lock
  <2>2. f.pc \in HandlerPoints
    BY DEF Frame, HandlerPoints
  <2> HIDE DEF f
  <2>3. BottomOK' /\ \A t \in AllTasks : Bottom(t)' = Bottom(t)
    BY <1>1, <2>1, <2>2, HandlerMoves
  <2>4. CASE Top.x \in Runnable
    BY <1>1, <2>3, <2>4 DEF LateWake, Accounted
  <2>5. CASE Top.x \notin Runnable
    BY <1>1, <1>2, <2>1, <2>3, <2>5, UnblockCounted
  <2> QED BY <2>4, <2>5
<1> QED BY <1>3, <1>4

LEMMA TimerInterruptCounted ==
  ASSUME CountInv, Types', TimerInterrupt
  PROVE  Accounted
<1>1. CASE \E t \in Tasks, n \in {0, 1} :
             /\ Expired(t, (tick + 1) % TickMod)
             /\ Unblock(t, Pushed(Frame("unblock_return", t, n)))
  <2>1. PICK t \in Tasks, n \in {0, 1} :
             /\ Expired(t, (tick + 1) % TickMod)
             /\ Unblock(t, Pushed(Frame("unblock_return", t, n)))
    BY <1>1
  <2> DEFINE f == Frame("unblock_return", t, n)
  <2>2. f \in Frames /\ f.pc \in HandlerPoints
    BY DEF Frame, Frames, Points, ResumePoints, HandlerPoints
  <2>3. stack' = Pushed(f)
    BY <2>1 DEF Unblock, Lock
  <2>4. t \notin Runnable
    BY <2>1 DEF Expired, Runnable
  <2> HIDE DEF f
  <2>5. BottomOK' /\ \A u \in AllTasks : Bottom(u)' = Bottom(u)
    BY <2>2, <2>3, HandlerMoves
  <2> QED BY <2>1, <2>4, <2>5, UnblockCounted DEF TimerInterrupt
<1>2. CASE /\ Lock(Pushed(At("sched_return")))
           /\ Scheduler(state, ready_to_run_counter)
  <2> DEFINE f == At("sched_return")
  <2>1. f \in Frames /\ f.pc \in HandlerPoints
    BY DEF At, Frame, Frames, Points, ResumePoints, HandlerPoints
  <2>2. stack' = Pushed(f)
    BY <1>2 DEF Lock
  <2> HIDE DEF f
  <2>3. BottomOK' /\ \A u \in AllTasks : Bottom(u)' = Bottom(u)
    BY <2>1, <2>2, HandlerMoves
  <2> QED BY <1>2, <2>3, PreemptCounted
<1>3. CASE UNCHANGED <<state, ready_to_run_counter, stack>>
  BY <1>3, QuietHandler
<1> QED BY <1>1, <1>2, <1>3 DEF TimerInterrupt

LEMMA NicInterruptCounted ==
  ASSUME CountInv, Types', NEW p \in Tasks, NicInterrupt(p)
  PROVE  Accounted
<1>1. Types /\ UNCHANGED stack
  BY DEF CountInv, Inv, NicInterrupt
<1>2. BottomOK' /\ \A t \in AllTasks : Bottom(t)' = Bottom(t)
  BY <1>1 DEF CountInv, BottomOK, Bottom
<1>3. Creating' = Creating + 0 /\ Waking' = Waking + 0
  BY <1>2, SameHalfDone, Unmoved
<1>4. Able' = Able + 1
  <2>1. /\ ~CanRun(state, p) /\ CanRun(state', p)
        /\ \A u \in Tasks \ {p} : CanRun(state', u) <=> CanRun(state, u)
    BY <1>1 DEF NicInterrupt, CanRun, Types, AllTasks
  <2> QED BY <2>1, RunnableMoves
<1>5. ready_to_run_counter' \in {ready_to_run_counter + 1,
                                ready_to_run_counter + 1 + CounterMod,
                                ready_to_run_counter + 1 - CounterMod}
  BY <1>1, CounterMoves DEF NicInterrupt, Types
<1>6. Excess' = Excess
  BY <1>1, <1>3, <1>4, <1>5, Balance
<1> QED BY <1>2, <1>6 DEF Accounted

LEMMA EveryStepCounted ==
  ASSUME CountInv, [Next]_vars
  PROVE  CountInv' /\ Accounted
<1>1. Inv' /\ Types'
  BY InvStep DEF CountInv, Inv
<1> SUFFICES Accounted
  BY <1>1 DEF CountInv, Accounted
<1>2. CASE \E t \in Tasks : CreateTask(t) \/ NicInterrupt(t)
  BY <1>1, <1>2, CreateTaskCounted, NicInterruptCounted
<1>3. CASE TaskEntry \/ BlockReturn \/ CreateLink \/ CounterLoad \/ SleepUntil
  BY <1>1, <1>3, KernelMovesCounted
<1>4. CASE \/ \E d \in Durations : Sleep(d)
           \/ \E p \in Tasks : SoftUnblock(p)
           \/ ReapHead \/ ReapScan
  BY <1>1, <1>4, CallsCounted
<1>5. CASE CounterStore \/ SoftState
  BY <1>1, <1>5, CounterStoreCounted, SoftStateCounted
<1>6. CASE BlockTask \/ TaskTermination
  BY <1>1, <1>6, BlockTaskCounted
<1>7. CASE TimerInterrupt \/ UnblockTask \/ PitEnd
  BY <1>1, <1>7, TimerInterruptCounted, UnblockTaskCounted, PitEndCounted
<1>8. CASE \/ UnblockReturn \/ PitFlag \/ SchedReturn \/ IRet \/ Resurrected
           \/ UNCHANGED vars
  BY <1>1, <1>8, HandlersCounted
<1> QED BY <1>2, <1>3, <1>4, <1>5, <1>6, <1>7, <1>8 DEF Next, Halted

LEMMA InitCounted == ASSUME Init PROVE CountInv
<1> DEFINE pc(t) == IF t = Boot THEN "run" ELSE "task_entry"
<1>1. \A t \in AllTasks : stack[t] = << At(pc(t)) >>
  BY DEF Init
<1>2. \A t \in AllTasks : Len(stack[t]) = 1 /\ stack[t][1].pc = pc(t)
  <2> TAKE t \in AllTasks
  <2>1. stack[t] = << At(pc(t)) >> /\ At(pc(t)).pc = pc(t)
    BY <1>1 DEF At, Frame
  <2> HIDE DEF pc
  <2> QED BY <2>1
<1>3. \A t \in AllTasks : \A i \in 2..Len(stack[t]) : FALSE
  <2> TAKE t \in AllTasks
  <2>1. Len(stack[t]) = 1
    BY <1>2
  <2> QED BY <2>1
<1>4. BottomOK
  BY <1>2, <1>3, TaskAssumption DEF BottomOK
<1> QED BY <1>4, InitInv DEF CountInv

(* ready_to_run_counter loses or gains a task in two ways only: the store  *)
(* of an unlocked ++ that has been overtaken, and a wake-up of a task that *)
(* can run already.  block_task, unblock_task, scheduler, create_task,     *)
(* task_termination and soft_unblock_task keep its account otherwise,      *)
(* whatever interrupts what, and even across its wrap.                     *)
THEOREM CounterKeepsAccount == Spec => CounterDriftsOnlyByRace
<1>1. CountInv /\ [Next]_vars
        => CountInv' /\ [Excess' # Excess => StaleStore \/ LateWake]_vars
  BY EveryStepCounted DEF Accounted
<1>2. Init => CountInv
  BY InitCounted
<1> QED BY <1>1, <1>2, PTL DEF Spec, CounterDriftsOnlyByRace

-----------------------------------------------------------------------------
(* Induction over the naturals, from their order being well-founded.       *)
LEMMA Least ==
  ASSUME NEW S \in SUBSET Nat, S # {}
  PROVE  \E m \in S : \A k \in S : m <= k
<1> DEFINE R == OpToRel(<, Nat)
<1>1. IsWellFoundedOn(R, Nat)
  BY NatLessThanWellFounded
<1>2. \A a, b \in Nat : a < b => <<a, b>> \in R
  BY DEF OpToRel
<1> HIDE DEF R
<1>3. PICK m \in S : \A k \in S : ~(<<k, m>> \in R)
  BY <1>1, WFMin
<1>4. \A k \in S : ~(k < m)
  BY <1>2, <1>3
<1> QED BY <1>4

LEMMA Inductive ==
  ASSUME NEW S, 0 \in S, \A n \in Nat : n \in S => n + 1 \in S
  PROVE  \A n \in Nat : n \in S
<1> SUFFICES ASSUME NEW n \in Nat, n \notin S PROVE FALSE
  OBVIOUS
<1> DEFINE T == {k \in Nat : k \notin S}
<1>1. PICK m \in T : \A k \in T : m <= k
  BY Least
<1>2. m # 0 /\ m - 1 \in Nat
  OBVIOUS
<1>3. m - 1 \in S
  BY <1>1, <1>2
<1> QED BY <1>2, <1>3

-----------------------------------------------------------------------------
(* The walk along the list: from start, n steps of next_task.              *)
Succ(nx, t) == IF t = NoTask THEN NoTask ELSE nx[t]

IsTrail(nx, start, n, p) ==
  /\ DOMAIN p = 0..n
  /\ p[0] = start /\ \A i \in 1..n : p[i] = Succ(nx, p[i - 1])

LEMMA TrailsExist ==
  ASSUME NEW nx, NEW start, NEW n \in Nat
  PROVE  \E p : IsTrail(nx, start, n, p)
<1> DEFINE S == {k \in Nat : \E p : IsTrail(nx, start, k, p)}
<1>1. 0 \in S
  <2>1. IsTrail(nx, start, 0, [i \in 0..0 |-> start])
    BY DEF IsTrail
  <2> QED BY <2>1
<1>2. ASSUME NEW k \in Nat, k \in S PROVE k + 1 \in S
  <2>1. PICK p : IsTrail(nx, start, k, p)
    BY <1>2
  <2> DEFINE q == [i \in 0..(k + 1) |-> IF i = k + 1 THEN Succ(nx, p[k]) ELSE p[i]]
  <2>2. IsTrail(nx, start, k + 1, q)
    BY <2>1 DEF IsTrail
  <2> QED BY <2>2
<1> HIDE DEF S
<1>3. n \in S
  BY <1>1, <1>2, Inductive
<1> QED BY <1>3 DEF S

(* From one place there is one way on.                                     *)

(* From one place there is one way on.                                     *)
LEMMA TrailsAgree ==
  ASSUME NEW nx, NEW a, NEW b, NEW n \in Nat, NEW m \in Nat,
         NEW p, IsTrail(nx, a, n, p), NEW q, IsTrail(nx, b, m, q),
         NEW i \in 0..n, NEW j \in 0..m, p[i] = q[j]
  PROVE  \A k \in Nat : i + k <= n /\ j + k <= m => p[i + k] = q[j + k]
<1> DEFINE S == {k \in Nat : i + k <= n /\ j + k <= m => p[i + k] = q[j + k]}
<1>1. 0 \in S
  OBVIOUS
<1>2. ASSUME NEW k \in Nat, k \in S PROVE k + 1 \in S
  <2> SUFFICES ASSUME i + (k + 1) <= n, j + (k + 1) <= m
               PROVE  p[i + (k + 1)] = q[j + (k + 1)]
    OBVIOUS
  <2>1. p[i + k] = q[j + k]
    BY <1>2
  <2>2. /\ i + (k + 1) \in 1..n /\ j + (k + 1) \in 1..m
        /\ (i + (k + 1)) - 1 = i + k /\ (j + (k + 1)) - 1 = j + k
    OBVIOUS
  <2>3. /\ p[i + (k + 1)] = Succ(nx, p[i + k])
        /\ q[j + (k + 1)] = Succ(nx, q[j + k])
    BY <2>2 DEF IsTrail
  <2> QED BY <2>1, <2>3
<1> HIDE DEF S
<1>3. \A k \in Nat : k \in S
  BY <1>1, <1>2, Inductive
<1> QED BY <1>3 DEF S

LEMMA OneTrail ==
  ASSUME NEW nx, NEW start, NEW n \in Nat, NEW p, IsTrail(nx, start, n, p),
         NEW m \in Nat, NEW q, IsTrail(nx, start, m, q)
  PROVE  \A i \in Nat : i <= n /\ i <= m => p[i] = q[i]
<1> DEFINE z == 0
<1>1. /\ z \in 0..n /\ z \in 0..m /\ p[z] = q[z]
      /\ \A i \in Nat : z + i = i
  BY DEF IsTrail
<1> HIDE DEF z
<1>2. \A k \in Nat : z + k <= n /\ z + k <= m => p[z + k] = q[z + k]
  BY <1>1, TrailsAgree
<1> QED BY <1>1, <1>2

(* A trail of tasks: it stays among them, it ends for good, and before its *)
(* end no task comes twice.                                                *)
Linked(nx, T) == \A t \in T : nx[t] \in T \cup {NoTask}

LEMMA TrailStaysAmong ==
  ASSUME NEW nx, NEW T, Linked(nx, T), NEW start \in T \cup {NoTask},
         NEW n \in Nat, NEW p, IsTrail(nx, start, n, p)
  PROVE  \A i \in 0..n : p[i] \in T \cup {NoTask}
<1> DEFINE S == {k \in Nat : k <= n => p[k] \in T \cup {NoTask}}
<1>1. 0 \in S
  BY DEF IsTrail
<1>2. ASSUME NEW k \in Nat, k \in S PROVE k + 1 \in S
  <2> SUFFICES ASSUME k + 1 <= n PROVE p[k + 1] \in T \cup {NoTask}
    OBVIOUS
  <2>1. p[k] \in T \cup {NoTask}
    BY <1>2
  <2>2. k + 1 \in 1..n /\ (k + 1) - 1 = k
    OBVIOUS
  <2>3. p[k + 1] = Succ(nx, p[k])
    BY <2>2 DEF IsTrail
  <2> QED BY <2>1, <2>3 DEF Succ, Linked
<1> HIDE DEF S
<1>3. \A k \in Nat : k \in S
  BY <1>1, <1>2, Inductive
<1> QED BY <1>3 DEF S

LEMMA TrailEnds ==
  ASSUME NEW nx, NEW start, NEW n \in Nat, NEW p, IsTrail(nx, start, n, p),
         NEW i \in 0..n, p[i] = NoTask
  PROVE  \A j \in i..n : p[j] = NoTask
<1> DEFINE S == {k \in Nat : i + k <= n => p[i + k] = NoTask}
<1>1. 0 \in S
  OBVIOUS
<1>2. ASSUME NEW k \in Nat, k \in S PROVE k + 1 \in S
  <2> SUFFICES ASSUME i + (k + 1) <= n PROVE p[i + (k + 1)] = NoTask
    OBVIOUS
  <2>1. p[i + k] = NoTask
    BY <1>2
  <2>2. i + (k + 1) \in 1..n /\ (i + (k + 1)) - 1 = i + k
    OBVIOUS
  <2>3. p[i + (k + 1)] = Succ(nx, p[i + k])
    BY <2>2 DEF IsTrail
  <2> QED BY <2>1, <2>3 DEF Succ
<1> HIDE DEF S
<1>3. \A k \in Nat : k \in S
  BY <1>1, <1>2, Inductive
<1>4. \A j \in i..n : j - i \in Nat /\ i + (j - i) = j
  OBVIOUS
<1>5. \A k \in Nat : i + k <= n => p[i + k] = NoTask
  BY <1>3 DEF S
<1> QED BY <1>4, <1>5

LEMMA TrailDistinct ==
  ASSUME NEW nx, NEW start, NEW n \in Nat, NEW p, IsTrail(nx, start, n, p),
         p[n] = NoTask
  PROVE  \A i, j \in 0..n : i < j /\ p[i] = p[j] => p[i] = NoTask
<1> SUFFICES ASSUME NEW i \in 0..n, NEW j \in 0..n, i < j, p[i] = p[j],
                    p[i] # NoTask
             PROVE  FALSE
  OBVIOUS
<1> DEFINE E == {m \in 0..n : p[m] = NoTask}
<1>1. E \in SUBSET Nat /\ n \in E
  OBVIOUS
<1>2. PICK m \in E : \A k \in E : m <= k
  <2> HIDE DEF E
  <2> QED BY <1>1, Least
<1>3. m \in 0..n /\ p[m] = NoTask
  OBVIOUS
<1>4. \A k \in m..n : p[k] = NoTask
  BY <1>3, TrailEnds
<1>5. j < m
  BY <1>3, <1>4
<1> DEFINE k == m - j
<1>6. k \in Nat /\ j + k = m /\ i + k <= n /\ j + k <= n /\ i + k \in 0..n
      /\ i + k < m
  BY <1>3, <1>5
<1> HIDE DEF k
<1>7. p[i + k] = p[j + k]
  BY <1>6, TrailsAgree
<1>8. i + k \in E
  BY <1>3, <1>6, <1>7
<1> QED BY <1>2, <1>3, <1>6, <1>8

(* Whoever is not on a trail that ends leaves room for one more step.      *)
LEMMA TrailHasRoom ==
  ASSUME NEW nx, NEW T, IsFiniteSet(T), NEW start, NEW n, n = Cardinality(T),
         NEW p, IsTrail(nx, start, n, p), p[n] = NoTask,
         \A i \in 0..n : p[i] \in T \cup {NoTask},
         NEW x \in T, \A i \in 0..n : p[i] # x
  PROVE  n \in Nat \ {0} /\ p[n - 1] = NoTask
<1>1. n \in Nat \ {0}
  BY FS_CardinalityType, FS_EmptySet
<1> SUFFICES ASSUME p[n - 1] # NoTask PROVE FALSE
  BY <1>1
<1>2. \A i \in 0..(n - 1) : p[i] # NoTask
  <2> SUFFICES ASSUME NEW i \in 0..(n - 1), p[i] = NoTask PROVE FALSE
    OBVIOUS
  <2>1. i \in 0..n /\ n - 1 \in i..n
    BY <1>1
  <2> QED BY <1>1, <2>1, TrailEnds
<1> DEFINE I == 0..(n - 1)
           U == T \ {x}
           f == [i \in I |-> p[i]]
<1>3. f \in [I -> U]
  BY <1>1, <1>2
<1>4. IsFiniteSet(I) /\ Cardinality(I) = n
  <2> DEFINE a == 0
             b == n - 1
  <2>1. a \in Int /\ b \in Int /\ ~(a > b) /\ (b - a) + 1 = n /\ I = a..b
    BY <1>1
  <2> HIDE DEF a, b, I
  <2> QED BY <2>1, FS_Interval
<1>5. IsFiniteSet(U) /\ Cardinality(U) = n - 1
  BY FS_RemoveElement
<1>6. \A i, j \in I : i # j => f[i] # f[j]
  <2> SUFFICES ASSUME NEW i \in I, NEW j \in I, i < j, f[i] = f[j] PROVE FALSE
    BY <1>1
  <2>1. i \in 0..n /\ j \in 0..n /\ p[i] = p[j]
    BY <1>1
  <2> QED BY <1>1, <1>2, <2>1, TrailDistinct
<1> HIDE DEF I, U, f
<1>7. Cardinality(U) < Cardinality(I)
  BY <1>1, <1>4, <1>5
<1>8. \E i, j \in I : i # j /\ f[i] = f[j]
  BY <1>3, <1>4, <1>5, <1>7, FS_PigeonHole
<1> QED BY <1>6, <1>8

ChainsAreTrails ==
  \A start : IsTrail(next_task, start, Cardinality(Tasks), Chain(start))

LEMMA ChainIsTrail == ChainsAreTrails
<1> SUFFICES ASSUME NEW start
             PROVE  IsTrail(next_task, start, Cardinality(Tasks), Chain(start))
  BY DEF ChainsAreTrails
<1> DEFINE nx == next_task
           P(n) == CHOOSE p : IsTrail(nx, start, n, p)
           c == [n \in Nat |-> P(n)[n]]
           Step(f) == [i \in Nat |-> IF i = 0 THEN start ELSE Succ(nx, f[i - 1])]
           f == CHOOSE g : g = Step(g)
<1>1. \A n \in Nat : IsTrail(nx, start, n, P(n))
  BY TrailsExist
<1> HIDE DEF P
<1>2. c = Step(c)
  <2>1. \A i \in Nat : c[i] = IF i = 0 THEN start ELSE Succ(nx, c[i - 1])
    <3> SUFFICES ASSUME NEW i \in Nat
                 PROVE  c[i] = IF i = 0 THEN start ELSE Succ(nx, c[i - 1])
      OBVIOUS
    <3>1. CASE i = 0
      BY <1>1, <3>1 DEF IsTrail
    <3>2. CASE i # 0
      <4>1. i - 1 \in Nat /\ i - 1 <= i /\ i \in 1..i
        BY <3>2
      <4>2. P(i)[i] = Succ(nx, P(i)[i - 1])
        BY <1>1, <4>1 DEF IsTrail
      <4>3. IsTrail(nx, start, i - 1, P(i - 1)) /\ IsTrail(nx, start, i, P(i))
        BY <1>1, <4>1
      <4> DEFINE h == i - 1
      <4>4. h \in Nat /\ h <= i
        BY <4>1
      <4>5. \A k \in Nat : k <= h /\ k <= i => P(h)[k] = P(i)[k]
        BY <4>3, <4>4, OneTrail
      <4> QED BY <3>2, <4>1, <4>2, <4>4, <4>5
    <3> QED BY <3>1, <3>2
  <2> HIDE DEF c
  <2>2. c = [i \in Nat |-> c[i]]
    BY DEF c
  <2> QED BY <2>1, <2>2
<1> HIDE DEF c
<1>3. f = Step(f)
  BY <1>2
<1>4. Chain(start) = [i \in 0..Cardinality(Tasks) |-> f[i]]
  BY DEF Chain, Succ
<1> HIDE DEF f
<1>5. \A i \in Nat : f[i] = IF i = 0 THEN start ELSE Succ(nx, f[i - 1])
  BY <1>3
<1>6. Cardinality(Tasks) \in Nat
  BY TaskAssumption, FS_CardinalityType
<1> QED BY <1>4, <1>5, <1>6 DEF IsTrail

(* What the edits of the list do to the trail from head.                   *)

(* A task nobody has reached yet gets a successor.                         *)
LEMMA TrailUntouched ==
  ASSUME NEW nx, NEW D, DOMAIN nx = D, NEW start, NEW n \in Nat,
         NEW p, IsTrail(nx, start, n, p), NEW x, NEW y,
         \A i \in 0..n : p[i] # x,
         NEW T, T \subseteq D, \A i \in 0..n : p[i] \in T \cup {NoTask}
  PROVE  IsTrail([nx EXCEPT ![x] = y], start, n, p)
<1> DEFINE mx == [nx EXCEPT ![x] = y]
<1>1. \A t \in T : t # x => mx[t] = nx[t]
  OBVIOUS
<1> HIDE DEF mx
<1>2. \A i \in 1..n : p[i] = Succ(mx, p[i - 1])
  <2> TAKE i \in 1..n
  <2>1. i - 1 \in 0..n
    OBVIOUS
  <2>2. p[i] = Succ(nx, p[i - 1])
    BY DEF IsTrail
  <2> QED BY <1>1, <2>1, <2>2 DEF Succ
<1>3. IsTrail(mx, start, n, p)
  BY <1>2 DEF IsTrail
<1> QED BY <1>3 DEF mx

(* A new first task.                                                       *)
Led(x, n, p) == [i \in 0..n |-> IF i = 0 THEN x ELSE p[i - 1]]

LEMMA TrailLed ==
  ASSUME NEW nx, NEW start, NEW n \in Nat \ {0}, NEW p, IsTrail(nx, start, n, p),
         NEW x, x # NoTask, nx[x] = start
  PROVE  IsTrail(nx, x, n, Led(x, n, p))
<1> DEFINE q == Led(x, n, p)
<1>1. /\ DOMAIN q = 0..n /\ q[0] = x /\ q[1] = p[0]
      /\ \A i \in 2..n : q[i] = p[i - 1] /\ q[i - 1] = p[(i - 1) - 1]
  BY DEF Led
<1> HIDE DEF q
<1>2. \A i \in 1..n : q[i] = Succ(nx, q[i - 1])
  <2> TAKE i \in 1..n
  <2>1. CASE i = 1
    BY <1>1, <2>1 DEF IsTrail, Succ
  <2>2. CASE i # 1
    <3>1. i \in 2..n /\ i - 1 \in 1..n
      BY <2>2
    <3>2. p[i - 1] = Succ(nx, p[(i - 1) - 1])
      BY <3>1 DEF IsTrail
    <3> QED BY <1>1, <3>1, <3>2
  <2> QED BY <2>1, <2>2
<1> QED BY <1>1, <1>2 DEF IsTrail, q

(* The trail without its i-th task.                                        *)
Without(i, n, p) ==
  [j \in 0..n |-> IF j < i THEN p[j] ELSE IF j = n THEN NoTask ELSE p[j + 1]]

LEMMA WithoutIs ==
  ASSUME NEW n \in Nat, NEW p, NEW i \in 0..n, p[n] = NoTask
  PROVE  /\ DOMAIN Without(i, n, p) = 0..n
         /\ \A j \in 0..(i - 1) : Without(i, n, p)[j] = p[j]
         /\ \A j \in i..(n - 1) : Without(i, n, p)[j] = p[j + 1]
         /\ Without(i, n, p)[n] = NoTask
BY DEF Without

LEMMA TrailWithoutFirst ==
  ASSUME NEW nx, NEW start, NEW n \in Nat, NEW p, IsTrail(nx, start, n, p),
         p[n] = NoTask, start # NoTask
  PROVE  IsTrail(nx, nx[start], n, Without(0, n, p))
<1> DEFINE q == Without(0, n, p)
<1>1. /\ n \in Nat \ {0} /\ p[0] = start
      /\ p[1] = Succ(nx, start)
  BY DEF IsTrail
<1>2. /\ DOMAIN q = 0..n
      /\ \A j \in 0..(n - 1) : q[j] = p[j + 1]
      /\ q[n] = NoTask
  BY WithoutIs
<1> HIDE DEF q
<1>3. \A j \in 1..n : q[j] = Succ(nx, q[j - 1])
  <2> TAKE j \in 1..n
  <2>1. q[j - 1] = p[j]
    <3>1. j - 1 \in 0..(n - 1) /\ (j - 1) + 1 = j
      OBVIOUS
    <3> QED BY <1>2, <3>1
  <2>2. CASE j = n
    BY <1>2, <2>1, <2>2 DEF Succ
  <2>3. CASE j # n
    <3>1. j \in 0..(n - 1) /\ j + 1 \in 1..n /\ (j + 1) - 1 = j
      BY <2>3
    <3> QED BY <1>2, <2>1, <3>1 DEF IsTrail
  <2> QED BY <2>2, <2>3
<1>4. q[0] = nx[start]
  BY <1>1, <1>2 DEF Succ
<1> QED BY <1>2, <1>3, <1>4 DEF IsTrail, q

LEMMA TrailWithoutLater ==
  ASSUME NEW nx, NEW D, DOMAIN nx = D, NEW start, NEW n \in Nat,
         NEW p, IsTrail(nx, start, n, p), p[n] = NoTask,
         NEW T, T \subseteq D, \A j \in 0..n : p[j] \in T \cup {NoTask},
         NEW i \in 1..n, p[i] # NoTask, NoTask \notin T
  PROVE  IsTrail([nx EXCEPT ![p[i - 1]] = nx[p[i]]], start, n, Without(i, n, p))
<1> DEFINE b == p[i - 1]
           mx == [nx EXCEPT ![b] = nx[p[i]]]
           q == Without(i, n, p)
<1>1. i \in 0..(n - 1) /\ i - 1 \in 0..n
  OBVIOUS
<1>2. b # NoTask
  BY <1>1, TrailEnds
<1>3. b \in T
  BY <1>1, <1>2
<1>4. mx[b] = nx[p[i]] /\ \A t \in T : t # b => mx[t] = nx[t]
  BY <1>3
<1>5. \A j \in 0..n : j # i - 1 => p[j] # b
  <2>1. \A j \in 0..n : j < i - 1 \/ j > i - 1 \/ j = i - 1
    BY <1>1
  <2> QED BY <1>1, <1>2, <2>1, TrailDistinct
<1>6. /\ DOMAIN q = 0..n
      /\ \A j \in 0..(i - 1) : q[j] = p[j]
      /\ \A j \in i..(n - 1) : q[j] = p[j + 1]
      /\ q[n] = NoTask
  BY <1>1, WithoutIs
<1> HIDE DEF mx, q, b
<1>7. \A j \in 1..n : q[j] = Succ(mx, q[j - 1])
  <2> TAKE j \in 1..n
  <2>1. CASE j < i
    <3>1. q[j] = p[j] /\ q[j - 1] = p[j - 1] /\ j - 1 \in 0..n /\ j - 1 # i - 1
      BY <1>6, <2>1
    <3>2. p[j] = Succ(nx, p[j - 1])
      BY DEF IsTrail
    <3> QED BY <1>4, <1>5, <3>1, <3>2 DEF Succ
  <2>2. CASE j = i
    <3>1. q[j] = p[i + 1] /\ q[j - 1] = b /\ i + 1 \in 1..n /\ (i + 1) - 1 = i
      BY <1>1, <1>6, <2>2 DEF b
    <3>2. p[i + 1] = Succ(nx, p[i])
      BY <3>1 DEF IsTrail
    <3> QED BY <1>2, <1>4, <3>1, <3>2 DEF Succ
  <2>3. CASE j > i
    <3>1. j - 1 \in i..(n - 1) /\ (j - 1) + 1 = j
      BY <2>3
    <3>2. q[j - 1] = p[j]
      BY <1>6, <3>1
    <3>3. CASE j = n
      BY <1>6, <3>2, <3>3 DEF Succ
    <3>4. CASE j # n
      <4>1. /\ j \in i..(n - 1) /\ j + 1 \in 1..n /\ (j + 1) - 1 = j
            /\ j # i - 1 /\ j \in 0..n
        BY <2>3, <3>4
      <4>2. q[j] = p[j + 1] /\ p[j + 1] = Succ(nx, p[j])
        BY <1>6, <4>1 DEF IsTrail
      <4> QED BY <1>4, <1>5, <3>2, <4>1, <4>2 DEF Succ
    <3> QED BY <3>3, <3>4
  <2> QED BY <2>1, <2>2, <2>3
<1>8. q[0] = start
  <2>1. 0 \in 0..(i - 1)
    OBVIOUS
  <2> QED BY <1>6, <2>1 DEF IsTrail
<1>9. IsTrail(mx, start, n, q)
  BY <1>6, <1>7, <1>8 DEF IsTrail
<1> QED BY <1>9 DEF mx, q, b

-----------------------------------------------------------------------------
(* The tasks that are not on the list yet: nothing points to them but the  *)
(* create_task that is making one.                                         *)
MakingPoints == {"create_load", "create_store", "create_link"}

Making(t) == Bottom(Boot).pc \in MakingPoints /\ Bottom(Boot).x = t

Outside(t) == t \in Tasks /\ (state[t] = "UNBORN" \/ Making(t))

OwnFramesKnown ==
  \A t \in AllTasks :
    /\ Bottom(t).pc \in MakingPoints =>
         t = Boot /\ Bottom(t).x \in Tasks /\ state[Bottom(t).x] # "UNBORN"
    /\ Bottom(t).pc \in SoftPoints => state[Bottom(t).x] # "UNBORN"
    /\ Bottom(t).pc = "reap_scan" => ~Outside(Bottom(t).x)

OutsideUnknown ==
  \A u \in Tasks : Outside(u) => /\ u # head /\ u \notin freed
                                /\ \A t \in AllTasks : next_task[t] # u

ListInv == CountInv /\ OwnFramesKnown /\ OutsideUnknown

(* The list as its trail tells it.                                         *)
TrailOf(p) == IsTrail(next_task, head, Cardinality(Tasks), p)

IntactAlong(p) ==
  /\ p[Cardinality(Tasks)] = NoTask
  /\ \A i \in 0..Cardinality(Tasks) : p[i] \notin freed
  /\ \A t \in Tasks : \/ state[t] = "UNBORN" \/ t \in freed \/ Making(t)
                     \/ \E i \in 0..Cardinality(Tasks) : p[i] = t

LEMMA NumberOfTasks == Cardinality(Tasks) \in Nat
BY TaskAssumption, FS_CardinalityType

(* Only its own code makes a task.                                         *)
LEMMA MakingIs ==
  ASSUME CountInv, NEW t
  PROVE  Making(t) <=> \E i \in DOMAIN stack[Boot] :
                         /\ stack[Boot][i].pc \in MakingPoints
                         /\ stack[Boot][i].x = t
<1>1. /\ Boot \in AllTasks /\ stack[Boot] \in Seq(Frames) /\ stack[Boot] # <<>>
      /\ \A i \in 2..Len(stack[Boot]) : stack[Boot][i].pc \in HandlerPoints
  BY TaskAssumption DEF AllTasks, CountInv, BottomOK, Inv, GoodStacks,
    GoodStacksOf, GoodStack
<1>2. /\ DOMAIN stack[Boot] = 1..Len(stack[Boot])
      /\ Len(stack[Boot]) \in Nat \ {0}
  BY <1>1
<1>3. MakingPoints \cap HandlerPoints = {}
  BY DEF MakingPoints, HandlerPoints, PitPoints
<1>4. \A i \in DOMAIN stack[Boot] : i = 1 \/ i \in 2..Len(stack[Boot])
  BY <1>2
<1>5. 1 \in DOMAIN stack[Boot]
  BY <1>2
<1> QED BY <1>1, <1>3, <1>4, <1>5 DEF Making, Bottom

IntactIsAlong == ListIntact <=> IntactAlong(Chain(head))

LEMMA IntactNow == CountInv => IntactIsAlong
<1> SUFFICES ASSUME CountInv PROVE IntactIsAlong
  OBVIOUS
<1> DEFINE c == Chain(head)
           N == Cardinality(Tasks)
<1>1. N \in Nat /\ N \in 0..N /\ freed \subseteq Tasks /\ NoTask \notin Tasks
  BY NumberOfTasks, TaskAssumption DEF CountInv, Inv, Types
<1>2. Reached(head) = {c[i] : i \in 0..N} \ {NoTask}
  BY DEF Reached
<1>3. Endless(head) <=> c[N] # NoTask
  BY DEF Endless
<1> HIDE DEF c, N
<1>4. \A t \in Tasks : t \in Reached(head) <=> \E i \in 0..N : c[i] = t
  BY <1>1, <1>2
<1>5. Reached(head) \cap freed = {} <=> \A i \in 0..N : c[i] \notin freed
  BY <1>1, <1>2
<1>6. \A t \in Tasks :
        Making(t) <=> \E i \in DOMAIN stack[Boot] :
                         /\ stack[Boot][i].pc \in MakingPoints
                         /\ stack[Boot][i].x = t
  BY MakingIs
<1>7. \A t \in Tasks :
        Making(t) <=> \E i \in DOMAIN stack[Boot] :
                         /\ stack[Boot][i].pc \in {"create_load", "create_store",
                                                   "create_link"}
                         /\ stack[Boot][i].x = t
  BY <1>6 DEF MakingPoints
<1>8. ListIntact <=> IntactAlong(c)
  BY <1>3, <1>4, <1>5, <1>7 DEF ListIntact, IntactAlong, N
<1> QED BY <1>8 DEF IntactIsAlong, c

LEMMA IntactNext == CountInv' => IntactIsAlong'
BY IntactNow, PTL

LEMMA ChainIsTrailNext == ChainsAreTrails'
BY ChainIsTrail, PTL

(* Any trail from head will do.                                            *)
LEMMA IntactOn ==
  ASSUME CountInv, ListIntact
  PROVE  \E p : TrailOf(p) /\ IntactAlong(p)
<1>1. TrailOf(Chain(head))
  BY ChainIsTrail DEF ChainsAreTrails, TrailOf
<1> QED BY <1>1, IntactNow DEF IntactIsAlong

LEMMA IntactIfNext ==
  ASSUME CountInv', NEW p, IsTrail(next_task', head', Cardinality(Tasks), p),
         p[Cardinality(Tasks)] = NoTask,
         \A i \in 0..Cardinality(Tasks) : p[i] \notin freed',
         \A t \in Tasks : \/ state'[t] = "UNBORN" \/ t \in freed' \/ Making(t)'
                         \/ \E i \in 0..Cardinality(Tasks) : p[i] = t
  PROVE  ListIntact'
<1> DEFINE N == Cardinality(Tasks)
           c == Chain(head)'
<1>1. N \in Nat
  BY NumberOfTasks
<1>2. IsTrail(next_task', head', N, c)
  BY ChainIsTrailNext DEF ChainsAreTrails
<1> HIDE DEF c
<1>3. \A i \in 0..N : c[i] = p[i]
  BY <1>1, <1>2, OneTrail
<1>4. /\ c[N] = NoTask
      /\ \A i \in 0..N : c[i] \notin freed'
      /\ \A t \in Tasks : \/ state'[t] = "UNBORN" \/ t \in freed' \/ Making(t)'
                         \/ \E i \in 0..N : c[i] = t
  BY <1>1, <1>3
<1>5. IntactAlong(Chain(head))'
  BY <1>4 DEF IntactAlong, c
<1> QED BY <1>5, IntactNext DEF IntactIsAlong

(* The tasks that have been put on the list point to such tasks.           *)
Inside == {t \in Tasks : ~Outside(t)}

LEMMA InsideLinked ==
  ASSUME ListInv
  PROVE  /\ head \in Inside \cup {NoTask}
         /\ Linked(next_task, Inside)
         /\ Inside \subseteq Tasks /\ Tasks \subseteq AllTasks
BY DEF ListInv, CountInv, Inv, Types, OutsideUnknown, Inside, Linked, AllTasks

LEMMA WalkStaysInside ==
  ASSUME ListInv, NEW start \in Inside \cup {NoTask},
         NEW p, IsTrail(next_task, start, Cardinality(Tasks), p)
  PROVE  \A i \in 0..Cardinality(Tasks) : p[i] \in Inside \cup {NoTask}
BY InsideLinked, NumberOfTasks, TrailStaysAmong

LEMMA ReachedIsInside ==
  ASSUME ListInv, NEW start \in Inside \cup {NoTask}
  PROVE  /\ \A i \in 0..Cardinality(Tasks) : Chain(start)[i] \in Inside \cup {NoTask}
         /\ Reached(start) \subseteq Inside
<1>1. \A i \in 0..Cardinality(Tasks) : Chain(start)[i] \in Inside \cup {NoTask}
  BY WalkStaysInside, ChainIsTrail DEF ChainsAreTrails
<1> QED BY <1>1 DEF Reached

-----------------------------------------------------------------------------
(* What every step does to the list.                                       *)
Excused ==
  \/ Executes("reap_scan") /\ Top.x # head
  \/ Executes("create_link") /\ next_task[Top.x] # head

Kept == ListInv' /\ (ListIntact => ListIntact' \/ Excused)

SameBorn == \A t \in Tasks : state'[t] = "UNBORN" <=> state[t] = "UNBORN"

(* Steps that leave the list alone.                                        *)
LEMMA QuietList ==
  ASSUME ListInv, CountInv', UNCHANGED <<head, next_task, freed>>, SameBorn,
         \A t : Making(t)' <=> Making(t), OwnFramesKnown'
  PROVE  Kept
<1>1. \A t : Outside(t)' <=> Outside(t)
  BY DEF Outside, SameBorn
<1>2. OutsideUnknown'
  BY <1>1 DEF ListInv, OutsideUnknown
<1>3. ASSUME ListIntact PROVE ListIntact'
  <2>1. PICK p : TrailOf(p) /\ IntactAlong(p)
    BY <1>3, IntactOn DEF ListInv
  <2>2. IsTrail(next_task', head', Cardinality(Tasks), p)
    BY <2>1 DEF TrailOf
  <2> QED BY <2>1, <2>2, IntactIfNext DEF IntactAlong, SameBorn
<1> QED BY <1>2, <1>3 DEF Kept, ListInv

LEMMA HandlerLeavesList ==
  ASSUME ListInv, CountInv', UNCHANGED <<head, next_task, freed>>, SameBorn,
         \A t \in AllTasks : Bottom(t)' = Bottom(t)
  PROVE  Kept
<1>1. Bottom(Boot)' = Bottom(Boot)
  BY TaskAssumption DEF AllTasks
<1>2. \A t : Making(t)' <=> Making(t)
  BY <1>1 DEF Making
<1>3. \A t : Outside(t)' <=> Outside(t)
  BY <1>2 DEF Outside, SameBorn
<1>4. OwnFramesKnown'
  <2>1. \A t \in AllTasks : Bottom(t).pc \in SoftPoints => Bottom(t).x \in Tasks
    BY DEF ListInv, CountInv, BottomOK, SoftPoints, Bottom
  <2>2. \A t \in AllTasks :
          /\ Bottom(t).pc \in MakingPoints =>
               t = Boot /\ Bottom(t).x \in Tasks /\ state'[Bottom(t).x] # "UNBORN"
          /\ Bottom(t).pc \in SoftPoints => state'[Bottom(t).x] # "UNBORN"
          /\ Bottom(t).pc = "reap_scan" => ~Outside(Bottom(t).x)
    BY <2>1 DEF ListInv, OwnFramesKnown, SameBorn
  <2> QED BY <1>3, <2>2 DEF OwnFramesKnown
<1> QED BY <1>2, <1>4, QuietList

(* The running task's own code goes to f, and makes no task meanwhile.     *)
GoesOn(f) ==
  /\ stack' = Replaced(f)
  /\ current_task = Idle => f.pc = "hlt"
  /\ f.pc \in SoftPoints => f.x \in Tasks /\ state[f.x] # "UNBORN"
  /\ Top.pc \in MakingPoints <=> f.pc \in MakingPoints
  /\ f.pc \in MakingPoints => f.x = Top.x
  /\ f.pc = "reap_scan" => ~Outside(f.x)

LEMMA GoingOnKeeps ==
  ASSUME ListInv, SameBorn, Top.pc \notin HandlerPoints, NEW f, GoesOn(f)
  PROVE  /\ OwnFramesKnown'
         /\ \A t : Making(t)' <=> Making(t)
         /\ \A t : Outside(t)' <=> Outside(t)
<1>1. /\ Top = Bottom(current_task) /\ current_task \in AllTasks
      /\ Boot \in AllTasks
      /\ \A t \in AllTasks :
           Bottom(t)' = IF t = current_task THEN f ELSE Bottom(t)
  BY TaskMoves, OwnCode, TaskAssumption DEF ListInv, AllTasks, SoftPoints, GoesOn
<1>2. \A t : Making(t)' <=> Making(t)
  BY <1>1 DEF ListInv, OwnFramesKnown, Making, GoesOn
<1>3. \A t : Outside(t)' <=> Outside(t)
  BY <1>2 DEF Outside, SameBorn
<1>4. OwnFramesKnown'
  <2>1. \A t \in AllTasks : Bottom(t).pc \in SoftPoints => Bottom(t).x \in Tasks
    BY DEF ListInv, CountInv, BottomOK, SoftPoints, Bottom
  <2> SUFFICES ASSUME NEW t \in AllTasks
               PROVE  /\ Bottom(t)'.pc \in MakingPoints =>
                           /\ t = Boot /\ Bottom(t)'.x \in Tasks
                           /\ state'[Bottom(t)'.x] # "UNBORN"
                      /\ Bottom(t)'.pc \in SoftPoints =>
                           state'[Bottom(t)'.x] # "UNBORN"
                      /\ Bottom(t)'.pc = "reap_scan" => ~Outside(Bottom(t)'.x)
    BY <1>3 DEF OwnFramesKnown
  <2>2. CASE t # current_task
    BY <1>1, <2>1, <2>2 DEF ListInv, OwnFramesKnown, SameBorn
  <2>3. CASE t = current_task
    <3>1. Bottom(t)' = f /\ Bottom(t) = Top
      BY <1>1, <2>3
    <3>2. f.pc \in MakingPoints =>
            t = Boot /\ f.x \in Tasks /\ state[f.x] # "UNBORN"
      BY <3>1 DEF ListInv, OwnFramesKnown, GoesOn
    <3> QED BY <3>1, <3>2 DEF SameBorn, GoesOn
  <2> QED BY <2>2, <2>3
<1> QED BY <1>2, <1>3, <1>4

LEMMA TaskLeavesList ==
  ASSUME ListInv, CountInv', UNCHANGED <<head, next_task, freed>>, SameBorn,
         Top.pc \notin HandlerPoints, NEW f, GoesOn(f)
  PROVE  Kept
BY GoingOnKeeps, QuietList

(* scheduler and unblock_task make no task and unmake none.                *)
LEMMA SchedulerSameBorn ==
  ASSUME Types, NEW st \in [AllTasks -> States], NEW c, Scheduler(st, c)
  PROVE  \A t \in Tasks : state'[t] = "UNBORN" <=> st[t] = "UNBORN"
<1> DEFINE ready == IF st[current_task] = "RUNNING"
                    THEN [st EXCEPT ![current_task] = "READY_TO_RUN"] ELSE st
<1>1. /\ ready \in [AllTasks -> States]
      /\ \A t \in Tasks : ready[t] = "UNBORN" <=> st[t] = "UNBORN"
  BY DEF States, AllTasks, Types
<1>2. \/ state' = st
      \/ state' = ready
      \/ \E t \in FirstReady(ready) : state' = [ready EXCEPT ![t] = "RUNNING"]
  BY DEF Scheduler
<1> HIDE DEF ready
<1>3. \A t \in FirstReady(ready) : t \in Tasks /\ ready[t] = "READY_TO_RUN"
  BY DEF FirstReady
<1>4. CASE \E t \in FirstReady(ready) : state' = [ready EXCEPT ![t] = "RUNNING"]
  <2>1. PICK t \in FirstReady(ready) : state' = [ready EXCEPT ![t] = "RUNNING"]
    BY <1>4
  <2>2. \A u \in Tasks : state'[u] = IF u = t THEN "RUNNING" ELSE ready[u]
    BY <1>1, <2>1 DEF AllTasks
  <2> QED BY <1>1, <1>3, <2>2
<1> QED BY <1>1, <1>2, <1>4

LEMMA UnblockSameBorn ==
  ASSUME Types, CurrentRuns, halt = "no", NEW t \in Tasks, NEW s, Unblock(t, s),
         state[t] # "UNBORN"
  PROVE  SameBorn
<1>1. /\ state'[t] = "RUNNING"
      /\ \A u \in Tasks \ {t} :
           state'[u] = IF u = current_task THEN "READY_TO_RUN" ELSE state[u]
      /\ current_task = Idle \/ state[current_task] = "RUNNING"
  BY UnblockMarks
<1> QED BY <1>1, TaskAssumption DEF SameBorn

LEMMA CallsLeaveList ==
  ASSUME ListInv, CountInv',
         \/ TaskEntry \/ BlockReturn \/ SoftState \/ SleepUntil
         \/ CounterLoad \/ CounterStore \/ ReapHead
         \/ \E d \in Durations : Sleep(d)
         \/ \E p \in Tasks : SoftUnblock(p)
  PROVE  Kept
<1>1. Top.pc \in {"task_entry", "block_return", "soft_state", "sleep_until",
                 "create_load", "soft_load", "create_store", "soft_store",
                 "reap_head", "run"}
  BY DEF TaskEntry, BlockReturn, SoftState, SleepUntil, CounterLoad, CounterStore,
    ReapHead, Sleep, SoftUnblock, Executes
<1>2. Top.pc \notin HandlerPoints
  BY <1>1 DEF HandlerPoints, PitPoints
<1>3. /\ current_task \in AllTasks /\ Top = Bottom(current_task)
      /\ current_task = Idle => Top.pc = "task_entry"
      /\ Top.pc \in SoftPoints => Top.x \in Tasks /\ state[Top.x] # "UNBORN"
  BY <1>1, <1>2, OwnCode DEF ListInv, OwnFramesKnown, SoftPoints
<1>4. UNCHANGED <<head, next_task, freed>>
  BY DEF TaskEntry, BlockReturn, SoftState, SleepUntil, CounterLoad, CounterStore,
    ReapHead, Sleep, SoftUnblock, list
<1>5. SameBorn
  <2>1. CASE SoftState
    <3>1. state' = [state EXCEPT ![Top.x] = "READY_TO_RUN"]
      BY <2>1 DEF SoftState
    <3>2. Top.pc \in SoftPoints
      BY <2>1 DEF SoftState, Executes, SoftPoints
    <3>3. state \in [AllTasks -> States]
      BY DEF ListInv, CountInv, Inv, Types
    <3> QED BY <1>3, <3>1, <3>2, <3>3 DEF SameBorn, AllTasks
  <2>2. CASE ~SoftState
    <3>1. UNCHANGED state
      BY <2>2 DEF TaskEntry, BlockReturn, SleepUntil, CounterLoad,
        CounterStore, ReapHead, Sleep, SoftUnblock
    <3> QED BY <3>1 DEF SameBorn
  <2> QED BY <2>1, <2>2
<1>6. \E f : GoesOn(f)
  <2> USE DEF GoesOn, SoftPoints, MakingPoints
  <2>1. stack' = Replaced(Home(current_task)) /\ Top.pc \notin MakingPoints
          => \E f : GoesOn(f)
    <3>1. /\ Home(current_task).pc \in {"reap_head", "hlt", "run"}
          /\ current_task = Idle => Home(current_task).pc = "hlt"
      BY HomeIs
    <3>2. stack' = Replaced(Home(current_task)) /\ Top.pc \notin MakingPoints
            => GoesOn(Home(current_task))
      BY <3>1
    <3> QED BY <3>2
  <2>2. CASE TaskEntry \/ BlockReturn \/ SoftState \/ SleepUntil
    <3>1. Top.pc \notin MakingPoints
      BY <2>2 DEF TaskEntry, BlockReturn, SoftState, SleepUntil, Executes
    <3>2. CASE stack' = Replaced(Home(current_task))
      BY <2>1, <3>1, <3>2
    <3>3. CASE SleepUntil /\ stack' = Replaced(At("block_sleeping"))
      <4>1. GoesOn(At("block_sleeping"))
        BY <1>3, <3>3 DEF SleepUntil, Executes, At, Frame
      <4> QED BY <4>1
    <3> QED BY <2>2, <3>2, <3>3 DEF TaskEntry, BlockReturn, SoftState, SleepUntil, Go
  <2>3. CASE CounterLoad \/ CounterStore
    <3>1. PICK pc \in {"create_store", "soft_store", "create_link", "soft_state"},
               n \in {0, ready_to_run_counter} :
            /\ stack' = Replaced(Frame(pc, Top.x, n))
            /\ Top.pc \in {"create_load", "create_store", "soft_load", "soft_store"}
            /\ Top.pc \in MakingPoints <=> pc \in MakingPoints
      BY <2>3 DEF CounterLoad, CounterStore, Executes, Go
    <3>2. GoesOn(Frame(pc, Top.x, n))
      BY <1>3, <3>1 DEF Frame
    <3> QED BY <3>2
  <2>4. CASE ReapHead
    <3>1. ~Outside(head)
      BY DEF ListInv, OutsideUnknown, Outside
    <3>2. GoesOn(Frame("reap_scan", head, 0))
      BY <1>3, <2>4, <3>1 DEF ReapHead, Executes, Frame, Go
    <3> QED BY <3>2
  <2>5. CASE \E d \in Durations : Sleep(d)
    <3>1. PICK n : stack' = Replaced(Frame("sleep_until", NoTask, n))
      BY <2>5 DEF Sleep, Go
    <3>2. GoesOn(Frame("sleep_until", NoTask, n))
      BY <1>3, <2>5, <3>1 DEF Sleep, Executes, Frame
    <3> QED BY <3>2
  <2>6. CASE \E p \in Tasks : SoftUnblock(p)
    <3>1. PICK p \in Tasks : SoftUnblock(p)
      BY <2>6
    <3>2. state[p] # "UNBORN"
      BY <3>1, InsideLinked, ReachedIsInside DEF SoftUnblock, Inside, Outside
    <3>3. GoesOn(Frame("soft_load", p, 0))
      BY <1>3, <3>1, <3>2 DEF SoftUnblock, Executes, Frame, Go
    <3> QED BY <3>3
  <2> QED BY <2>2, <2>3, <2>4, <2>5, <2>6
<1> QED BY <1>2, <1>4, <1>5, <1>6, TaskLeavesList

LEMMA LeavingLeavesList ==
  ASSUME ListInv, CountInv', BlockTask \/ TaskTermination
  PROVE  Kept
<1>1. PICK reason \in {"SLEEPING", "BLOCKED", "TERMINATED"},
           f \in {At("block_return"), At("terminated")} :
        /\ Top.pc \in {"run", "block_sleeping"} /\ halt = "no"
        /\ stack' = Replaced(f)
        /\ Scheduler([state EXCEPT ![current_task] = reason],
                     Dec(ready_to_run_counter))
  BY DEF BlockTask, TaskTermination, Executes, Lock
<1>2. UNCHANGED <<head, next_task, freed>>
  BY DEF BlockTask, TaskTermination, list
<1>3. /\ Types /\ CurrentRuns /\ Top.pc \notin HandlerPoints
      /\ state \in [AllTasks -> States] /\ current_task \in AllTasks
  BY <1>1 DEF ListInv, CountInv, Inv, Types, HandlerPoints, PitPoints
<1>4. current_task # Idle
  BY <1>1, <1>3, OwnCode DEF ListInv
<1>5. SameBorn
  <2> DEFINE st == [state EXCEPT ![current_task] = reason]
  <2>1. st \in [AllTasks -> States]
    BY <1>3 DEF States
  <2>2. \A t \in Tasks : st[t] = "UNBORN" <=> state[t] = "UNBORN"
    BY <1>1, <1>3, <1>4 DEF CurrentRuns, AllTasks
  <2>3. Scheduler(st, Dec(ready_to_run_counter))
    BY <1>1
  <2> HIDE DEF st
  <2>4. \A t \in Tasks : state'[t] = "UNBORN" <=> st[t] = "UNBORN"
    BY <1>3, <2>1, <2>3, SchedulerSameBorn
  <2> QED BY <2>2, <2>4 DEF SameBorn
<1>6. /\ f.pc \in {"block_return", "terminated"}
      /\ f.pc \notin SoftPoints /\ f.pc \notin MakingPoints
      /\ Top.pc \notin MakingPoints
  BY <1>1 DEF At, Frame, SoftPoints, MakingPoints
<1>7. GoesOn(f)
  BY <1>1, <1>4, <1>6 DEF GoesOn
<1> QED BY <1>2, <1>3, <1>5, <1>7, TaskLeavesList

LEMMA HandlersLeaveList ==
  ASSUME ListInv, CountInv',
         \/ UnblockReturn \/ PitFlag \/ SchedReturn \/ IRet \/ PitEnd
         \/ UnblockTask \/ TimerInterrupt \/ Resurrected \/ UNCHANGED vars
         \/ \E p \in Tasks : NicInterrupt(p)
  PROVE  Kept
<1>1. UNCHANGED <<head, next_task, freed>>
  BY DEF UnblockReturn, PitFlag, Dangling, SchedReturn, IRet, PitEnd, UnblockTask,
    TimerInterrupt, Resurrected, NicInterrupt, vars, list
<1>2. /\ Types /\ CurrentRuns /\ state \in [AllTasks -> States]
  BY DEF ListInv, CountInv, Inv, Types
<1>3. \A t \in AllTasks : Bottom(t)' = Bottom(t)
  <2>1. /\ At("iret").pc \in HandlerPoints /\ At("sched_return").pc \in HandlerPoints
        /\ \A x, n : /\ Frame("pit_flag", x, n).pc \in HandlerPoints
                    /\ Frame("pit_unblock", x, n).pc \in HandlerPoints
                    /\ Frame("pit_end", x, n).pc \in HandlerPoints
                    /\ Frame("unblock_return", x, n).pc \in HandlerPoints
        /\ At("sched_return") \in Frames
        /\ \A x \in Tasks, n \in Nat : Frame("unblock_return", x, n) \in Frames
    BY DEF At, Frame, Frames, Points, ResumePoints, HandlerPoints, PitPoints
  <2>2. \/ UnblockReturn \/ PitFlag \/ SchedReturn \/ IRet \/ PitEnd
        \/ UnblockTask
        => Top.pc \in HandlerPoints
    BY DEF UnblockReturn, PitFlag, SchedReturn, IRet, PitEnd, UnblockTask, Executes,
      HandlerPoints, PitPoints
  <2>3. CASE UNCHANGED stack
    BY <2>3 DEF Bottom
  <2>4. CASE UnblockReturn \/ SchedReturn \/ IRet
    BY <2>1, <2>2, <2>4, HandlerMoves DEF UnblockReturn, SchedReturn, IRet, Go, ListInv
  <2>5. CASE PitFlag \/ PitEnd \/ UnblockTask
    <3>1. \/ UNCHANGED stack
          \/ \E f : f.pc \in HandlerPoints /\ stack' = Replaced(f)
      <4>1. CASE PitFlag
        <5>1. \/ UNCHANGED stack
              \/ \E pc \in {"pit_end", "pit_unblock", "pit_flag"} : \E x, n :
                   stack' = Replaced(Frame(pc, x, n))
          BY <4>1 DEF PitFlag, Dangling, Go
        <5> QED BY <2>1, <5>1
      <4>2. CASE PitEnd
        BY <2>1, <4>2 DEF PitEnd, Go, Lock
      <4>3. CASE UnblockTask
        BY <2>1, <4>3 DEF UnblockTask, Unblock, Lock
      <4> QED BY <2>5, <4>1, <4>2, <4>3
    <3> QED BY <2>2, <2>3, <2>5, <3>1, HandlerMoves DEF ListInv
  <2>6. CASE TimerInterrupt
    <3>1. \/ UNCHANGED stack
          \/ stack' = Pushed(At("sched_return"))
          \/ \E t \in Tasks, n \in {0, 1} :
               stack' = Pushed(Frame("unblock_return", t, n))
      BY <2>6 DEF TimerInterrupt, Unblock, Lock
    <3>2. CASE stack' = Pushed(At("sched_return"))
      BY <2>1, <3>2, HandlerMoves DEF ListInv
    <3>3. CASE \E t \in Tasks, n \in {0, 1} :
                 stack' = Pushed(Frame("unblock_return", t, n))
      BY <2>1, <3>3, HandlerMoves DEF ListInv
    <3> QED BY <2>3, <3>1, <3>2, <3>3
  <2>7. CASE \/ Resurrected \/ UNCHANGED vars
            \/ \E p \in Tasks : NicInterrupt(p)
    BY <2>3, <2>7 DEF Resurrected, NicInterrupt, vars
  <2> QED BY <2>4, <2>5, <2>6, <2>7
<1>4. SameBorn
  <2>1. CASE UNCHANGED state
    BY <2>1 DEF SameBorn
  <2>2. CASE Scheduler(state, ready_to_run_counter)
    BY <1>2, <2>2, SchedulerSameBorn DEF SameBorn
  <2>3. CASE halt = "no" /\ \E t \in Tasks : \E s : Unblock(t, s) /\ state[t] # "UNBORN"
    BY <1>2, <2>3, UnblockSameBorn
  <2>4. CASE \E p \in Tasks : NicInterrupt(p)
    <3>1. PICK p \in Tasks : /\ p \in Reached(head)
                            /\ state' = [state EXCEPT ![p] = "READY_TO_RUN"]
      BY <2>4 DEF NicInterrupt
    <3>2. state[p] # "UNBORN"
      BY <3>1, InsideLinked, ReachedIsInside DEF Inside, Outside
    <3> QED BY <1>2, <3>1, <3>2 DEF SameBorn, AllTasks
  <2>5. CASE UnblockTask
    <3>1. Top.x \in Reached(head) => Top.x \in Tasks /\ state[Top.x] # "UNBORN"
      BY InsideLinked, ReachedIsInside DEF Inside, Outside
    <3> QED BY <2>1, <2>3, <2>5, <3>1 DEF UnblockTask, Executes
  <2>6. CASE TimerInterrupt
    <3>1. \/ UNCHANGED state
          \/ Scheduler(state, ready_to_run_counter)
          \/ \E t \in Tasks, n \in {0, 1} :
               /\ Expired(t, (tick + 1) % TickMod)
               /\ Unblock(t, Pushed(Frame("unblock_return", t, n)))
      BY <2>6 DEF TimerInterrupt
    <3>2. \A t \in Tasks : Expired(t, (tick + 1) % TickMod) => state[t] # "UNBORN"
      BY DEF Expired
    <3>3. halt = "no"
      BY <2>6 DEF TimerInterrupt
    <3> QED BY <2>1, <2>2, <2>3, <3>1, <3>2, <3>3
  <2>7. CASE PitEnd
    BY <2>1, <2>2, <2>7 DEF PitEnd
  <2>8. CASE UnblockReturn \/ PitFlag \/ SchedReturn \/ IRet \/ Resurrected \/ UNCHANGED vars
    BY <2>1, <2>8 DEF UnblockReturn, PitFlag, Dangling, SchedReturn, IRet, Resurrected, vars
  <2> QED BY <2>4, <2>5, <2>6, <2>7, <2>8
<1> QED BY <1>1, <1>3, <1>4, HandlerLeavesList

(* create_task takes a task that nothing points to.                        *)
LEMMA CreateTaskKeeps ==
  ASSUME ListInv, CountInv', NEW t \in Tasks, CreateTask(t)
  PROVE  Kept
<1> DEFINE f == Frame("create_load", t, 0)
           N == Cardinality(Tasks)
<1>1. /\ Top.pc = "run" /\ current_task = Boot /\ state[t] = "UNBORN"
      /\ stack' = Replaced(f) /\ f.pc = "create_load" /\ f.x = t
      /\ next_task' = [next_task EXCEPT ![t] = head]
      /\ state' = [state EXCEPT ![t] = "READY_TO_RUN"]
      /\ UNCHANGED <<head, freed>>
  BY DEF CreateTask, Executes, Go, Frame
<1> HIDE DEF f
<1>2. /\ Types /\ t \in AllTasks /\ Boot \in AllTasks /\ Boot # Idle
      /\ Top.pc \notin HandlerPoints /\ Top.pc \notin MakingPoints
      /\ f.pc \in MakingPoints /\ f.pc \notin SoftPoints
  BY <1>1, TaskAssumption DEF ListInv, CountInv, Inv, AllTasks, HandlerPoints,
    PitPoints, MakingPoints, SoftPoints
<1>3. /\ Top = Bottom(Boot)
      /\ \A u \in AllTasks : Bottom(u)' = IF u = Boot THEN f ELSE Bottom(u)
  BY <1>1, <1>2, TaskMoves DEF ListInv, SoftPoints
<1>4. /\ \A u : ~Making(u)
      /\ \A u : Making(u)' <=> u = t
  BY <1>1, <1>2, <1>3 DEF Making
<1>5. \A u \in Tasks : state'[u] = IF u = t THEN "READY_TO_RUN" ELSE state[u]
  BY <1>1 DEF ListInv, CountInv, Inv, Types, AllTasks
<1>6. \A u : Outside(u)' <=> Outside(u)
  BY <1>1, <1>4, <1>5 DEF Outside
<1>7. /\ Outside(t) /\ t # head /\ t \notin freed
      /\ \A u \in AllTasks : next_task[u] # t
  BY <1>1 DEF Outside, ListInv, OutsideUnknown
<1>8. OwnFramesKnown'
  <2>1. \A u \in AllTasks : Bottom(u).pc \in SoftPoints => Bottom(u).x \in Tasks
    BY DEF ListInv, CountInv, BottomOK, SoftPoints, Bottom
  <2> SUFFICES ASSUME NEW u \in AllTasks
               PROVE  /\ Bottom(u)'.pc \in MakingPoints =>
                           /\ u = Boot /\ Bottom(u)'.x \in Tasks
                           /\ state'[Bottom(u)'.x] # "UNBORN"
                      /\ Bottom(u)'.pc \in SoftPoints =>
                           state'[Bottom(u)'.x] # "UNBORN"
                      /\ Bottom(u)'.pc = "reap_scan" => ~Outside(Bottom(u)'.x)
    BY <1>6 DEF OwnFramesKnown
  <2>2. CASE u # Boot
    BY <1>3, <1>5, <2>1, <2>2 DEF ListInv, OwnFramesKnown
  <2>3. CASE u = Boot
    BY <1>1, <1>2, <1>3, <1>5, <2>3
  <2> QED BY <2>2, <2>3
<1>9. OutsideUnknown'
  <2> SUFFICES ASSUME NEW u \in Tasks, Outside(u)
               PROVE  /\ u # head' /\ u \notin freed'
                      /\ \A v \in AllTasks : next_task'[v] # u
    BY <1>6 DEF OutsideUnknown
  <2>1. /\ u # head /\ u \notin freed
        /\ \A v \in AllTasks : next_task[v] # u
    BY DEF ListInv, OutsideUnknown
  <2>2. \A v \in AllTasks : next_task'[v] = IF v = t THEN head ELSE next_task[v]
    BY <1>1, <1>2 DEF Types
  <2> QED BY <1>1, <2>1, <2>2
<1>10. ASSUME ListIntact PROVE ListIntact'
  <2>1. PICK p : TrailOf(p) /\ IntactAlong(p)
    BY <1>10, IntactOn DEF ListInv
  <2>2. IsTrail(next_task, head, N, p) /\ N \in Nat
    BY <2>1, NumberOfTasks DEF TrailOf
  <2>3. \A i \in 0..N : p[i] \in Inside \cup {NoTask}
    BY <2>2, InsideLinked, WalkStaysInside
  <2>4. t \notin Inside /\ t # NoTask /\ Inside \subseteq AllTasks
    BY <1>7, InsideLinked, TaskAssumption DEF Inside
  <2>5. DOMAIN next_task = AllTasks
    BY <1>2 DEF Types
  <2>6. \A i \in 0..N : p[i] # t
    BY <2>3, <2>4
  <2> HIDE DEF N
  <2>7. IsTrail([next_task EXCEPT ![t] = head], head, N, p)
    BY <2>2, <2>3, <2>4, <2>5, <2>6, TrailUntouched
  <2>8. IsTrail(next_task', head', N, p)
    BY <1>1, <2>7
  <2>9. \A u \in Tasks : \/ state'[u] = "UNBORN" \/ u \in freed' \/ Making(u)'
                         \/ \E i \in 0..N : p[i] = u
    BY <1>1, <1>4, <1>5, <2>1 DEF IntactAlong, N
  <2> QED BY <1>1, <2>1, <2>8, <2>9, IntactIfNext DEF IntactAlong, N
<1> QED BY <1>8, <1>9, <1>10 DEF Kept, ListInv

(* The new task becomes the first of the list.                             *)
LEMMA CreateLinkKeeps ==
  ASSUME ListInv, CountInv', CreateLink
  PROVE  Kept
<1> DEFINE f == Home(current_task)
           N == Cardinality(Tasks)
<1>1. PICK x : /\ Executes("create_link") /\ Top.pc = "create_link" /\ x = Top.x
               /\ stack' = Replaced(f) /\ head' = x
               /\ UNCHANGED <<next_task, freed, state>>
  BY DEF CreateLink, Executes, Go
<1>2. f.pc \in {"reap_head", "hlt", "run"} /\ (current_task = Idle => f.pc = "hlt")
  BY HomeIs
<1> HIDE DEF f
<1>3. /\ Types /\ Top.pc \notin HandlerPoints /\ Top.pc \in MakingPoints
      /\ f.pc \notin MakingPoints /\ f.pc \notin SoftPoints /\ f.pc # "reap_scan"
      /\ Boot \in AllTasks
  BY <1>1, <1>2, TaskAssumption DEF ListInv, CountInv, Inv, AllTasks, HandlerPoints,
    PitPoints, MakingPoints, SoftPoints
<1>4. /\ Top = Bottom(current_task) /\ current_task \in AllTasks
      /\ \A u \in AllTasks :
           Bottom(u)' = IF u = current_task THEN f ELSE Bottom(u)
  BY <1>1, <1>2, <1>3, TaskMoves, OwnCode DEF ListInv, SoftPoints
<1>5. /\ current_task = Boot /\ x \in Tasks /\ state[x] # "UNBORN"
      /\ \A u : Making(u) <=> u = x
      /\ \A u : ~Making(u)'
  BY <1>1, <1>3, <1>4 DEF ListInv, OwnFramesKnown, Making
<1>6. /\ Outside(x) /\ ~Outside(x)'
      /\ \A u : Outside(u)' => Outside(u) /\ u # x
  BY <1>1, <1>5 DEF Outside
<1>7. /\ x \notin freed /\ \A u \in AllTasks : next_task[u] # x
  BY <1>5, <1>6 DEF ListInv, OutsideUnknown
<1>8. OwnFramesKnown'
  <2>1. \A u \in AllTasks \ {Boot} :
          /\ Bottom(u)' = Bottom(u) /\ Bottom(u).pc \notin MakingPoints
          /\ Bottom(u).pc \in SoftPoints => state[Bottom(u).x] # "UNBORN"
          /\ Bottom(u).pc = "reap_scan" => ~Outside(Bottom(u).x)
    BY <1>4, <1>5 DEF ListInv, OwnFramesKnown
  <2>2. Bottom(Boot)' = f
    BY <1>3, <1>4, <1>5
  <2> QED BY <1>1, <1>3, <1>6, <2>1, <2>2 DEF OwnFramesKnown
<1>9. OutsideUnknown'
  BY <1>1, <1>6 DEF ListInv, OutsideUnknown
<1>10. ASSUME ListIntact, next_task[x] = head PROVE ListIntact'
  <2>1. PICK p : TrailOf(p) /\ IntactAlong(p)
    BY <1>10, IntactOn DEF ListInv
  <2>2. /\ IsTrail(next_task, head, N, p) /\ N \in Nat /\ p[N] = NoTask
        /\ IsFiniteSet(Tasks) /\ NoTask \notin Tasks /\ NoTask \notin freed
    BY <1>3, <2>1, NumberOfTasks, TaskAssumption DEF TrailOf, IntactAlong, Types
  <2>3. \A i \in 0..N : p[i] \in Inside \cup {NoTask}
    BY <2>2, InsideLinked, WalkStaysInside
  <2>4. \A i \in 0..N : p[i] # x /\ p[i] \in Tasks \cup {NoTask}
    BY <1>5, <1>6, <2>2, <2>3, InsideLinked DEF Inside
  <2>5. N \in Nat \ {0} /\ p[N - 1] = NoTask
    BY <1>5, <2>2, <2>4, TrailHasRoom
  <2> DEFINE q == Led(x, N, p)
  <2> HIDE DEF N
  <2>6. IsTrail(next_task, x, N, q)
    BY <1>5, <1>10, <2>2, <2>5, TrailLed
  <2>7. /\ q[0] = x /\ q[N] = NoTask
        /\ \A i \in 1..N : q[i] = p[i - 1]
        /\ \A i \in 0..(N - 1) : q[i + 1] = p[i]
    BY <2>5 DEF Led
  <2> HIDE DEF q
  <2>8. \A i \in 0..N : q[i] \notin freed
    <3> TAKE i \in 0..N
    <3>1. CASE i = 0
      BY <1>7, <2>7, <3>1
    <3>2. CASE i # 0
      <4>1. i \in 1..N /\ i - 1 \in 0..N
        BY <2>5, <3>2
      <4> QED BY <2>1, <2>7, <4>1 DEF IntactAlong, N
    <3> QED BY <3>1, <3>2
  <2>9. \A u \in Tasks : \/ state[u] = "UNBORN" \/ u \in freed
                         \/ \E i \in 0..N : q[i] = u
    <3> SUFFICES ASSUME NEW u \in Tasks, state[u] # "UNBORN", u \notin freed
                 PROVE  \E i \in 0..N : q[i] = u
      OBVIOUS
    <3>1. CASE u = x
      BY <2>5, <2>7, <3>1
    <3>2. CASE u # x
      <4>1. PICK i \in 0..N : p[i] = u
        BY <1>5, <2>1, <3>2 DEF IntactAlong, N
      <4>2. i \in 0..(N - 1) /\ i + 1 \in 0..N
        BY <2>2, <4>1
      <4> QED BY <2>7, <4>1, <4>2
    <3> QED BY <3>1, <3>2
  <2> QED BY <1>1, <2>6, <2>7, <2>8, <2>9, IntactIfNext DEF N
<1>11. next_task[x] # head => Excused
  BY <1>1 DEF Excused
<1> QED BY <1>8, <1>9, <1>10, <1>11 DEF Kept, ListInv

(* The unlinking, seen from the list: t was its i-th task.                 *)
LEMMA UnlinkKeepsIntact ==
  ASSUME ListInv, CountInv', ListIntact, UNCHANGED state,
         \A u : Making(u)' <=> Making(u),
         NEW i \in 0..Cardinality(Tasks), NEW t \in Tasks, NEW before,
         t = Chain(head)[i],
         i > 0 => before = Chain(head)[i - 1],
         Unlink(t, before), freed' = freed \cup {t}
  PROVE  ListIntact'
<1> DEFINE N == Cardinality(Tasks)
           p == Chain(head)
           q == Without(i, N, p)
<1>1. /\ N \in Nat /\ IsTrail(next_task, head, N, p) /\ IntactAlong(p)
      /\ t = p[i] /\ (i > 0 => before = p[i - 1])
      /\ NoTask \notin Tasks /\ NoTask \notin freed
      /\ DOMAIN next_task = AllTasks /\ Tasks \subseteq AllTasks
  BY NumberOfTasks, ChainIsTrail, IntactNow, TaskAssumption
     DEF ChainsAreTrails, IntactIsAlong, ListInv, CountInv, Inv, Types, AllTasks
<1>2. \A j \in 0..N : p[j] \in Tasks \cup {NoTask}
  BY ReachedIsInside, InsideLinked
<1> HIDE DEF p
<1>3. /\ p[N] = NoTask /\ p[0] = head
      /\ \A j \in 0..N : p[j] \notin freed
      /\ \A u \in Tasks : \/ state[u] = "UNBORN" \/ u \in freed \/ Making(u)
                         \/ \E j \in 0..N : p[j] = u
  BY <1>1 DEF IntactAlong, IsTrail
<1> HIDE DEF N
<1>4. t # NoTask /\ i \in 0..(N - 1)
  BY <1>1, <1>3 DEF N
<1>5. \A j \in 0..N : p[j] = t => j = i
  <2> SUFFICES ASSUME NEW j \in 0..N, p[j] = t, j # i PROVE FALSE
    OBVIOUS
  <2>1. j < i \/ i < j
    BY <1>1
  <2> QED BY <1>1, <1>3, <1>4, <2>1, TrailDistinct DEF N
<1>6. IsTrail(next_task', head', N, q)
  <2>1. CASE t = head
    <3>1. i = 0
      BY <1>1, <1>3, <1>5, <2>1
    <3>2. head' = next_task[head] /\ next_task' = next_task
      BY <2>1 DEF Unlink
    <3>3. IsTrail(next_task, next_task[head], N, Without(0, N, p))
      BY <1>1, <1>3, <1>4, <2>1, TrailWithoutFirst
    <3> QED BY <3>1, <3>2, <3>3
  <2>2. CASE t # head
    <3>1. i \in 1..N /\ before = p[i - 1]
      BY <1>1, <1>3, <1>4, <2>2
    <3>2. next_task' = [next_task EXCEPT ![p[i - 1]] = next_task[p[i]]]
          /\ head' = head
      BY <1>1, <2>2, <3>1 DEF Unlink, UnlinkMidList
    <3>3. IsTrail([next_task EXCEPT ![p[i - 1]] = next_task[p[i]]], head, N,
                  Without(i, N, p))
      BY <1>1, <1>2, <1>3, <1>4, <3>1, TrailWithoutLater DEF N
    <3> QED BY <3>2, <3>3
  <2> QED BY <2>1, <2>2
<1>7. /\ \A j \in 0..(i - 1) : q[j] = p[j]
      /\ \A j \in i..(N - 1) : q[j] = p[j + 1]
      /\ q[N] = NoTask
  BY <1>1, <1>3, WithoutIs DEF N
<1> HIDE DEF q
<1>8. \A j \in 0..N : q[j] \notin freed'
  <2> TAKE j \in 0..N
  <2>1. CASE j < i
    <3>1. j \in 0..(i - 1)
      BY <1>4, <2>1
    <3> QED BY <1>3, <1>5, <1>7, <2>1, <3>1
  <2>2. CASE j >= i /\ j < N
    <3>1. j \in i..(N - 1) /\ j + 1 \in 0..N /\ j + 1 # i
      BY <1>1, <1>4, <2>2
    <3> QED BY <1>3, <1>5, <1>7, <3>1
  <2>3. CASE j = N
    BY <1>1, <1>4, <1>7, <2>3
  <2> QED BY <1>1, <1>4, <2>1, <2>2, <2>3
<1>9. \A u \in Tasks : \/ state[u] = "UNBORN" \/ u \in freed' \/ Making(u)
                       \/ \E j \in 0..N : q[j] = u
  <2> SUFFICES ASSUME NEW u \in Tasks, state[u] # "UNBORN", u \notin freed,
                      u # t, ~Making(u)
               PROVE  \E j \in 0..N : q[j] = u
    OBVIOUS
  <2>1. PICK j \in 0..N : p[j] = u
    BY <1>3
  <2>2. j # i /\ j # N
    BY <1>1, <1>3, <2>1
  <2>3. CASE j < i
    <3>1. j \in 0..(i - 1)
      BY <2>3
    <3> QED BY <1>7, <2>1, <3>1
  <2>4. CASE j > i
    <3>1. j - 1 \in i..(N - 1) /\ (j - 1) + 1 = j /\ j - 1 \in 0..N
      BY <1>1, <2>2, <2>4
    <3> QED BY <1>7, <2>1, <3>1
  <2> QED BY <2>2, <2>3, <2>4
<1> QED BY <1>6, <1>7, <1>8, <1>9, IntactIfNext DEF N

LEMMA ReapScanKeeps ==
  ASSUME ListInv, CountInv', ReapScan
  PROVE  Kept
<1> DEFINE N == Cardinality(Tasks)
           trail == Chain(Top.x)
<1>1. /\ Executes("reap_scan") /\ Top.pc = "reap_scan" /\ UNCHANGED state
      /\ SameBorn
  BY DEF ReapScan, Executes, SameBorn
<1>2. /\ Types /\ Top.pc \notin HandlerPoints /\ Top.pc \notin MakingPoints
      /\ At("reap_head").pc = "reap_head"
      /\ \A n : Frame("sleep_until", NoTask, n).pc = "sleep_until"
  BY <1>1 DEF ListInv, CountInv, Inv, HandlerPoints, PitPoints, MakingPoints, At, Frame
<1>3. /\ Top = Bottom(current_task) /\ current_task \in AllTasks
      /\ current_task # Idle
  BY <1>1, <1>2, OwnCode DEF ListInv
<1>4. Top.x \in Inside \cup {NoTask}
  <2>1. Top \in Frames
    BY TopFacts DEF ListInv, CountInv, Inv, Types, FrameOK
  <2>2. ~Outside(Top.x)
    BY <1>1, <1>3 DEF ListInv, OwnFramesKnown
  <2> QED BY <2>1, <2>2 DEF Frames, Inside
<1>5. \A f : /\ f.pc \in {"reap_head", "sleep_until"}
            /\ stack' = Replaced(f)
            => GoesOn(f)
  BY <1>2, <1>3 DEF GoesOn, SoftPoints, MakingPoints
<1>6. CASE UNCHANGED <<head, next_task, freed, stack>>
  BY <1>1, <1>6, HandlerLeavesList DEF Bottom
<1>7. CASE /\ UNCHANGED <<head, next_task, freed>>
           /\ Go(Frame("sleep_until", NoTask, (ReapDelay + tick) % TickMod))
  BY <1>1, <1>2, <1>5, <1>7, TaskLeavesList DEF Go
<1>8. CASE \E i \in 0..N, t \in Tasks, p \in Tasks \cup {NoTask} :
             /\ t = trail[i]
             /\ p = IF i = 0 THEN prev ELSE trail[i - 1]
             /\ Unlink(t, p)
             /\ freed' = freed \cup {t}
             /\ Go(At("reap_head"))
  <2>1. PICK i \in 0..N, t \in Tasks, p \in Tasks \cup {NoTask} :
             /\ t = trail[i]
             /\ p = IF i = 0 THEN prev ELSE trail[i - 1]
             /\ Unlink(t, p)
             /\ freed' = freed \cup {t}
             /\ Go(At("reap_head"))
    BY <1>8
  <2>2. GoesOn(At("reap_head"))
    BY <1>2, <1>5, <2>1 DEF Go
  <2>3. /\ OwnFramesKnown'
        /\ \A u : Making(u)' <=> Making(u)
        /\ \A u : Outside(u)' <=> Outside(u)
    BY <1>1, <1>2, <2>2, GoingOnKeeps
  <2>4. ~Outside(t)
    <3>1. trail[i] \in Inside \cup {NoTask}
      BY <1>4, ReachedIsInside
    <3> QED BY <2>1, <3>1, TaskAssumption DEF Inside
  <2>5. OutsideUnknown'
    <3> SUFFICES ASSUME NEW u \in Tasks, Outside(u)
                 PROVE  /\ u # head' /\ u \notin freed'
                        /\ \A v \in AllTasks : next_task'[v] # u
      BY <2>3 DEF OutsideUnknown
    <3>1. /\ u # head /\ u \notin freed /\ u # t
          /\ \A v \in AllTasks : next_task[v] # u
      BY <2>4 DEF ListInv, OutsideUnknown
    <3>2. next_task[t] # u
      BY <3>1 DEF AllTasks
    <3>3. \/ head' = next_task[t] /\ next_task' = next_task
          \/ head' = head /\ next_task' = [next_task EXCEPT ![p] = next_task[t]]
      BY <2>1 DEF Unlink, UnlinkMidList
    <3>4. \A v \in AllTasks : next_task'[v] = next_task[v] \/ next_task'[v] = next_task[t]
      BY <1>2, <3>3 DEF Types
    <3> QED BY <2>1, <3>1, <3>2, <3>3, <3>4
  <2>6. ASSUME ListIntact, Top.x = head PROVE ListIntact'
    <3>1. t = Chain(head)[i] /\ (i > 0 => p = Chain(head)[i - 1])
      BY <2>1, <2>6
    <3> HIDE DEF trail
    <3> QED BY <1>1, <2>1, <2>3, <2>6, <3>1, UnlinkKeepsIntact
  <2>7. Top.x # head => Excused
    BY <1>1 DEF Excused
  <2> QED BY <2>3, <2>5, <2>6, <2>7 DEF Kept, ListInv
<1> QED BY <1>6, <1>7, <1>8 DEF ReapScan, list

LEMMA EveryStepKeeps ==
  ASSUME ListInv, [Next]_vars
  PROVE  Kept
<1>1. CountInv'
  BY EveryStepCounted DEF ListInv
<1>2. CASE \/ TaskEntry \/ BlockReturn \/ SoftState \/ SleepUntil
           \/ CounterLoad \/ CounterStore \/ ReapHead
           \/ \E d \in Durations : Sleep(d)
           \/ \E p \in Tasks : SoftUnblock(p)
  BY <1>1, <1>2, CallsLeaveList
<1>3. CASE BlockTask \/ TaskTermination
  BY <1>1, <1>3, LeavingLeavesList
<1>4. CASE \/ UnblockReturn \/ PitFlag \/ SchedReturn \/ IRet \/ PitEnd
           \/ UnblockTask \/ TimerInterrupt \/ Resurrected \/ UNCHANGED vars
           \/ \E p \in Tasks : NicInterrupt(p)
  BY <1>1, <1>4, HandlersLeaveList
<1>5. CASE \E t \in Tasks : CreateTask(t)
  BY <1>1, <1>5, CreateTaskKeeps
<1>6. CASE CreateLink
  BY <1>1, <1>6, CreateLinkKeeps
<1>7. CASE ReapScan
  BY <1>1, <1>7, ReapScanKeeps
<1> QED BY <1>2, <1>3, <1>4, <1>5, <1>6, <1>7 DEF Next, Halted

LEMMA InitListed == ASSUME Init PROVE ListInv
<1>1. \A t \in AllTasks : Bottom(t).pc \in {"run", "task_entry"}
  BY DEF Init, Bottom, At, Frame
<1>2. Boot \in AllTasks /\ \A t : ~Making(t)
  BY <1>1, TaskAssumption DEF AllTasks, Making, MakingPoints
<1>3. OwnFramesKnown
  BY <1>1 DEF OwnFramesKnown, MakingPoints, SoftPoints
<1>4. OutsideUnknown
  BY <1>2, TaskAssumption DEF Init, OutsideUnknown, Outside, AllTasks
<1> QED BY <1>3, <1>4, InitCounted DEF ListInv

(* create_task and task_terminator take the list from one that is whole    *)
(* (it ends, holds no freed block and every task from its creation to its  *)
(* kfree) to one that is not only when the head they read before taking    *)
(* the lock, or before calling kmalloc, is no longer the head: however     *)
(* many tasks there are, and whatever interrupts what.                     *)
THEOREM OnlyStaleHeadsDamageTheList == Spec => ListDamagedOnlyByStaleHead
<1>1. ListInv /\ [Next]_vars
        => /\ ListInv'
           /\ [ListIntact /\ ~ListIntact' =>
                 \/ Executes("reap_scan") /\ Top.x # head
                 \/ Executes("create_link") /\ next_task[Top.x] # head]_vars
  BY EveryStepKeeps DEF Kept, Excused
<1>2. Init => ListInv
  BY InitListed
<1> QED BY <1>1, <1>2, PTL DEF Spec, ListDamagedOnlyByStaleHead
=============================================================================
