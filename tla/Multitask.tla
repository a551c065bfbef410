----------------------------- MODULE Multitask -----------------------------
(***************************************************************************)
(* The multitasking core of jamesOS: multitask.c (task list, scheduler,    *)
(* block / unblock / sleep, the interrupt lock), dispatcher.asm (the       *)
(* context switch), pit.c (the timer interrupt that drives both sleeping   *)
(* and pre-emption) and the two kernel tasks built on them.                *)
(*                                                                         *)
(* There is one processor.  A task is a stack of frames: the bottom frame  *)
(* says where the task's own code is, every further frame is one timer     *)
(* interrupt being handled on that task's stack.  Whatever the code does   *)
(* with interrupts off is one step; code that runs with interrupts on is   *)
(* cut wherever an interrupt can make a difference.                        *)
(***************************************************************************)
EXTENDS Naturals, Sequences, FiniteSets

CONSTANTS
  Tasks,       \* the task control blocks, except the idle task's
  Idle,        \* idle_task: never on the list
  NoTask,      \* the null pointer
  Boot,        \* "JAMES": the task multitask_init makes of the boot code
  Terminator,  \* "CHUAZNEGUER": task_terminator
  Sleepers,    \* the tasks that call sleep
  Blockers,    \* the tasks that call block_task
  Wakers,      \* the tasks that call soft_unblock_task with interrupts on
  Targets,     \* the tasks it is called for
  Mortal,      \* the tasks that call task_termination
  Durations,   \* the arguments of sleep, in ticks
  ReapDelay,   \* the 5 of task_terminator's sleep, in ticks
  TickMod,     \* tick is a uint32_t: 2^32
  CounterMod,  \* ready_to_run_counter is a uint32_t: 2^32
  MaxNested    \* bound on the handlers that interrupt handlers, on all stacks

Clients == Tasks \ {Boot, Terminator}

ASSUME TaskAssumption ==
  /\ IsFiniteSet(Tasks)
  /\ Boot \in Tasks /\ Terminator \in Tasks /\ Boot # Terminator
  /\ Idle \notin Tasks /\ NoTask \notin Tasks /\ Idle # NoTask

ASSUME RoleAssumption ==
  /\ Sleepers \subseteq Tasks \ {Terminator}
  /\ Wakers \subseteq Tasks \ {Terminator}
  /\ Blockers \subseteq Clients /\ Targets \subseteq Clients
  /\ Mortal \subseteq Clients

ASSUME WidthAssumption ==
  /\ TickMod \in Nat \ {0} /\ CounterMod \in Nat /\ CounterMod > 2
  /\ Durations \subseteq Nat /\ ReapDelay \in Nat /\ MaxNested \in Nat

VARIABLES
  head,                  \* the first task of the list
  next_task,             \* tcb.next_task
  state,                 \* tcb.state
  sleep_until,           \* tcb.sleep_until
  freed,                 \* the TCBs given back to the heap
  current_task,
  ready_to_run_counter,
  lock_irq_counter,
  interrupts_on,         \* the processor's IF flag
  tick,
  stack,                 \* what every task's stack says is left to do
  prev,                  \* task_terminator's local variable
  halt                   \* "spin": an endless loop with interrupts off;
                         \* "wild": code went through a dangling pointer

vars == <<head, next_task, state, sleep_until, freed, current_task,
          ready_to_run_counter, lock_irq_counter, interrupts_on, tick, stack,
          prev, halt>>

list    == <<head, next_task, freed, prev>>
irqLock == <<lock_irq_counter, interrupts_on>>

AllTasks == Tasks \cup {Idle}

States == {"UNBORN", "BLOCKED", "RUNNING", "READY_TO_RUN", "SLEEPING", "IDLE",
           "TERMINATED"}

(* A stack that is not running waits at one of these points, inside        *)
(* dispatcher, with the interrupt lock taken: whoever resumes there calls  *)
(* unlock_irq next (a terminated task never should).                       *)
ResumePoints == {"task_entry", "block_return", "unblock_return",
                 "sched_return", "terminated"}

(* Code of the tasks that runs with interrupts on.                         *)
TaskPoints == {"run", "hlt", "sleep_until", "block_sleeping",
               "soft_load", "soft_store", "soft_state", "create_load",
               "create_store", "create_link", "reap_head", "reap_scan"}

PitPoints == {"pit_flag", "pit_unblock", "pit_end", "iret"}

(* Points of a timer interrupt's frame.                                    *)
HandlerPoints == PitPoints \cup {"unblock_return", "sched_return"}

Points == ResumePoints \cup TaskPoints \cup PitPoints

Frames == [pc : Points, x : Tasks \cup {NoTask}, n : Nat]

Frame(pc, x, n) == [pc |-> pc, x |-> x, n |-> n]

At(pc) == Frame(pc, NoTask, 0)

(* Where a task's own code goes on when a kernel call returns.             *)
Home(t) == IF t = Terminator THEN At("reap_head")
           ELSE IF t = Idle THEN At("hlt") ELSE At("run")

-----------------------------------------------------------------------------
(* The task list.  Only a stale head or prev can leave a freed TCB on it,  *)
(* and the walks below then read it as it was when it was freed.           *)

(* The null pointer closes the chain that starts at start.                 *)
Chain(start) ==
  LET After(t) == IF t = NoTask THEN NoTask ELSE next_task[t]
      chain[i \in Nat] == IF i = 0 THEN start ELSE After(chain[i - 1])
  IN [i \in 0..Cardinality(Tasks) |-> chain[i]]

Reached(start) ==
  LET chain == Chain(start)
  IN {chain[i] : i \in 0..Cardinality(Tasks)} \ {NoTask}

Endless(start) == Chain(start)[Cardinality(Tasks)] # NoTask

(* A search that begins at head each time.                                 *)
CircleFromHead ==
  LET circle[i \in Nat] == IF i = 0 \/ next_task[circle[i - 1]] = NoTask
                           THEN head ELSE next_task[circle[i - 1]]
  IN [i \in 0..Cardinality(Tasks) |-> circle[i]]

(* The tasks scheduler looks at, in its order: from the running task's     *)
(* successor, and again from head at the end of the list.                  *)
Circle ==
  LET circle[i \in Nat] ==
        LET after == IF i = 0 THEN next_task[current_task]
                     ELSE next_task[circle[i - 1]]
        IN IF after = NoTask THEN head ELSE after
  IN [i \in 0..Cardinality(Tasks) |-> circle[i]]

(* The first ready task of the circle, if there is one: when there is      *)
(* none, the search goes round for ever.                                   *)
FirstReady(st) ==
  LET circle == Circle
      Ready(i) == st[circle[i]] = "READY_TO_RUN"
  IN {t \in Tasks : \E i \in DOMAIN circle :
                      /\ circle[i] = t /\ Ready(i)
                      /\ \A j \in 0..(i - 1) : ~Ready(j)}

-----------------------------------------------------------------------------
(* Counters, stacks and the context switch.                                *)

Inc(c) == IF c + 1 = CounterMod THEN 0 ELSE c + 1
Dec(c) == IF c = 0 THEN CounterMod - 1 ELSE c - 1

Depth == Len(stack[current_task])
Top   == stack[current_task][Depth]

Replaced(frame) == [stack EXCEPT ![current_task][Depth] = frame]
Pushed(frame) == [stack EXCEPT ![current_task] = Append(@, frame)]
Popped          == [stack EXCEPT ![current_task] = SubSeq(@, 1, Depth - 1)]

Go(frame) == stack' = Replaced(frame)

(* The running task's code is at pc.                                       *)
Executes(pc) == halt = "no" /\ Top.pc = pc

(* lock_irq, in a step that ends in another task: saved is the stack it is *)
(* switched away from; and the unlock_irq of a step that resumes.          *)
LockUncounted(saved) == /\ interrupts_on' = FALSE
                        /\ stack' = saved
                        /\ UNCHANGED lock_irq_counter

Lock(saved) == /\ lock_irq_counter' = lock_irq_counter + 1
               /\ interrupts_on' = FALSE
               /\ stack' = saved

Unlock == /\ lock_irq_counter' = lock_irq_counter - 1
          /\ interrupts_on' = (interrupts_on \/ lock_irq_counter = 1)

(* dispatcher(t): only the stack pointer and current_task change hands; the *)
(* interrupt flag and the lock counter stay as they are.                   *)
Dispatch(t) == current_task' = t

(* A read or write through a pointer to a freed TCB may find anything.     *)
Dangling(t) == /\ t \in freed
               /\ halt' = "wild"
               /\ UNCHANGED <<list, state, sleep_until, current_task,
                    ready_to_run_counter, irqLock, tick, stack>>

(* scheduler(), called with the states st and the counter c its caller     *)
(* leaves behind.                                                          *)
Scheduler(st, c) ==
  LET ready == IF st[current_task] = "RUNNING"
               THEN [st EXCEPT ![current_task] = "READY_TO_RUN"] ELSE st
  IN /\ ready_to_run_counter' = c
     /\ \/ /\ c = 0
           /\ Dispatch(Idle)
           /\ state' = st
           /\ UNCHANGED halt
        \/ /\ c # 0
           /\ \E t \in FirstReady(ready) :
                 /\ Dispatch(t)
                 /\ state' = [ready EXCEPT ![t] = "RUNNING"]
           /\ UNCHANGED halt
        \/ /\ c # 0
           /\ FirstReady(ready) = {}
           /\ state' = ready
           /\ halt' = "spin"
           /\ UNCHANGED current_task

(* unblock_task for the task t of the list: it runs at once.               *)
Unblock(t, saved) ==
  /\ Lock(saved)
  /\ ready_to_run_counter' = Inc(ready_to_run_counter)
  /\ state' = [state EXCEPT ![current_task] = "READY_TO_RUN", ![t] = "RUNNING"]
  /\ Dispatch(t)
  /\ UNCHANGED halt

-----------------------------------------------------------------------------
(* The state multitask_init leaves: the boot code has become a task, the   *)
(* terminator is ready and is the first of the list.                       *)
Init ==
  /\ head = Terminator
  /\ next_task = [t \in AllTasks |-> IF t = Terminator THEN Boot ELSE NoTask]
  /\ state = [t \in AllTasks |-> IF t = Boot THEN "RUNNING"
                                 ELSE IF t = Terminator THEN "READY_TO_RUN"
                                 ELSE IF t = Idle THEN "IDLE" ELSE "UNBORN"]
  /\ sleep_until = [t \in AllTasks |-> 0]
  /\ freed = {}
  /\ current_task = Boot
  /\ ready_to_run_counter = 2
  /\ lock_irq_counter = 0
  /\ interrupts_on = TRUE
  /\ tick = 0
  /\ stack = [t \in AllTasks |->
                << IF t = Boot THEN At("run") ELSE At("task_entry") >>]
  /\ prev = NoTask
  /\ halt = "no"

(* A task function that forgets to call task_entry.                        *)
TaskEntryForgotten ==
  /\ Executes("task_entry")
  /\ Go(Home(current_task))
  /\ UNCHANGED <<list, state, sleep_until, current_task, ready_to_run_counter,
                 irqLock, tick, halt>>

(* A new task starts in task_entry, with the lock its dispatcher took.     *)
TaskEntry ==
  /\ Executes("task_entry")
  /\ Unlock
  /\ Go(Home(current_task))
  /\ UNCHANGED <<list, state, sleep_until, current_task, ready_to_run_counter,
                 tick, halt>>

(* create_task, up to the fields of the new TCB: head has been read.       *)
CreateTask(t) ==
  /\ Executes("run") /\ current_task = Boot
  /\ t \in Clients /\ state[t] = "UNBORN"
  /\ next_task' = [next_task EXCEPT ![t] = head]
  /\ state' = [state EXCEPT ![t] = "READY_TO_RUN"]
  /\ Go(Frame("create_load", t, 0))
  /\ UNCHANGED <<head, freed, prev, sleep_until, current_task,
                 ready_to_run_counter, irqLock, tick, halt>>

(* ++ready_to_run_counter, compiled to a load and a store.                 *)
CounterLoad ==
  /\ \/ /\ Executes("create_load")
        /\ Go(Frame("create_store", Top.x, ready_to_run_counter))
     \/ /\ Executes("soft_load")
        /\ Go(Frame("soft_store", Top.x, ready_to_run_counter))
  /\ UNCHANGED <<list, state, sleep_until, current_task, ready_to_run_counter,
                 irqLock, tick, halt>>

CounterStore ==
  /\ \/ Executes("create_store") /\ Go(Frame("create_link", Top.x, 0))
     \/ Executes("soft_store") /\ Go(Frame("soft_state", Top.x, 0))
  /\ ready_to_run_counter' = Inc(Top.n)
  /\ UNCHANGED <<list, state, sleep_until, current_task, irqLock, tick, halt>>

(* head = the new task.                                                    *)
CreateLink ==
  /\ Executes("create_link")
  /\ head' = Top.x
  /\ Go(Home(current_task))
  /\ UNCHANGED <<next_task, freed, prev, state, sleep_until, current_task,
                 ready_to_run_counter, irqLock, tick, halt>>

-----------------------------------------------------------------------------
(* sleep: the wake-up time is computed from the tick read here.            *)
Sleep(d) ==
  /\ Executes("run") /\ current_task \in Sleepers
  /\ Go(Frame("sleep_until", NoTask, (d + tick) % TickMod))
  /\ UNCHANGED <<list, state, sleep_until, current_task, ready_to_run_counter,
                 irqLock, tick, halt>>

(* sleep_until: nothing to do when the time has passed.                    *)
SleepUntil ==
  /\ Executes("sleep_until")
  /\ \/ /\ Top.n < tick
        /\ Go(Home(current_task))
        /\ UNCHANGED sleep_until
     \/ /\ Top.n >= tick
        /\ sleep_until' = [sleep_until EXCEPT ![current_task] = Top.n]
        /\ Go(At("block_sleeping"))
  /\ UNCHANGED <<list, state, current_task, ready_to_run_counter, irqLock,
                 tick, halt>>

(* block_task: off the ready tasks, and on to the next one.                *)
BlockTask ==
  /\ \E reason \in {"SLEEPING", "BLOCKED"} :
       /\ IF reason = "SLEEPING" THEN Executes("block_sleeping")
          ELSE Executes("run") /\ current_task \in Blockers
       /\ Lock(Replaced(At("block_return")))
       /\ Scheduler([state EXCEPT ![current_task] = reason],
                    Dec(ready_to_run_counter))
  /\ UNCHANGED <<list, sleep_until, tick>>

BlockReturn ==
  /\ Executes("block_return")
  /\ Unlock
  /\ Go(Home(current_task))
  /\ UNCHANGED <<list, state, sleep_until, current_task, ready_to_run_counter,
                 tick, halt>>

(* soft_unblock_task(p), from a task: nothing locks it.                    *)
SoftUnblock(p) ==
  /\ Executes("run") /\ current_task \in Wakers
  /\ p \in Targets \cap Reached(head)
  /\ state[p] \notin {"READY_TO_RUN", "RUNNING"}
  /\ Go(Frame("soft_load", p, 0))
  /\ UNCHANGED <<list, state, sleep_until, current_task, ready_to_run_counter,
                 irqLock, tick, halt>>

SoftState ==
  /\ Executes("soft_state")
  /\ state' = [state EXCEPT ![Top.x] = "READY_TO_RUN"]
  /\ Go(Home(current_task))
  /\ UNCHANGED <<list, sleep_until, current_task, ready_to_run_counter,
                 irqLock, tick, halt>>

(* The interrupt's soft_unblock_task, without the test for RUNNING.        *)
NicInterruptAlways(p) ==
  /\ halt = "no" /\ interrupts_on
  /\ p \in Targets \cap Reached(head)
  /\ state[p] # "READY_TO_RUN"
  /\ state' = [state EXCEPT ![p] = "READY_TO_RUN"]
  /\ ready_to_run_counter' = Inc(ready_to_run_counter)
  /\ UNCHANGED <<list, sleep_until, current_task, irqLock, tick, stack, halt>>

(* soft_unblock_task(p) with interrupts off: the network card's interrupt  *)
(* (nht_enqueue_recv_frame) and tcp_sender_enqueue, which holds the lock.  *)
NicInterrupt(p) ==
  /\ halt = "no" /\ interrupts_on
  /\ p \in Targets \cap Reached(head)
  /\ state[p] \notin {"READY_TO_RUN", "RUNNING"}
  /\ state' = [state EXCEPT ![p] = "READY_TO_RUN"]
  /\ ready_to_run_counter' = Inc(ready_to_run_counter)
  /\ UNCHANGED <<list, sleep_until, current_task, irqLock, tick, stack, halt>>

-----------------------------------------------------------------------------
(* task_termination, without its --ready_to_run_counter.                   *)
TaskTerminationCounted ==
  /\ Executes("run") /\ current_task \in Mortal
  /\ Lock(Replaced(At("terminated")))
  /\ Scheduler([state EXCEPT ![current_task] = "TERMINATED"],
               ready_to_run_counter)
  /\ UNCHANGED <<list, sleep_until, tick>>

(* task_termination.                                                       *)
TaskTermination ==
  /\ Executes("run") /\ current_task \in Mortal
  /\ Lock(Replaced(At("terminated")))
  /\ Scheduler([state EXCEPT ![current_task] = "TERMINATED"],
               Dec(ready_to_run_counter))
  /\ UNCHANGED <<list, sleep_until, tick>>

(* A terminated task that is switched to returns from task_termination to  *)
(* the 0 _create_task put above the arguments.                             *)
Resurrected ==
  /\ Executes("terminated")
  /\ halt' = "wild"
  /\ UNCHANGED <<list, state, sleep_until, current_task, ready_to_run_counter,
                 irqLock, tick, stack>>

(* A scan that starts after the head.                                      *)
ReapAfterHead ==
  /\ Executes("reap_head")
  /\ Go(Frame("reap_scan", next_task[head], 0))
  /\ UNCHANGED <<list, state, sleep_until, current_task, ready_to_run_counter,
                 irqLock, tick, halt>>

(* task_terminator: tmp = head, before it takes the lock.                  *)
ReapHead ==
  /\ Executes("reap_head")
  /\ Go(Frame("reap_scan", head, 0))
  /\ UNCHANGED <<list, state, sleep_until, current_task, ready_to_run_counter,
                 irqLock, tick, halt>>

(* The terminated task t comes off the list.                               *)
UnlinkMidList(t, before) ==
  /\ next_task' = [next_task EXCEPT ![before] = next_task[t]]
  /\ UNCHANGED head

Unlink(t, before) ==
  \/ /\ t = head
     /\ head' = next_task[t]
     /\ UNCHANGED next_task
  \/ t # head /\ UnlinkMidList(t, before)

(* The scan from tmp for the first terminated task, under the lock.  When  *)
(* it is the first one seen, and no longer head, prev is an old value.     *)
ReapScan ==
  LET trail == Chain(Top.x)
      N == Cardinality(Tasks)
      First(i) == /\ trail[i] # NoTask
                  /\ state[trail[i]] = "TERMINATED"
                  /\ \A j \in 0..(i - 1) : state[trail[j]] # "TERMINATED"
      Found == \E i \in 0..N : First(i)
  IN
  /\ Executes("reap_scan")
  /\ \/ \E i \in 0..N, t \in Tasks, p \in Tasks \cup {NoTask} :
          /\ First(i) /\ t = trail[i]
          /\ p = IF i = 0 THEN prev ELSE trail[i - 1]
          /\ t = head \/ p # NoTask
          /\ Unlink(t, p)
          /\ freed' = freed \cup {t}
          /\ prev' = p
          /\ Go(At("reap_head"))
          /\ UNCHANGED halt
     \/ /\ First(0) /\ head # Top.x /\ prev = NoTask
        /\ halt' = "wild"
        /\ UNCHANGED <<list, stack>>
     \/ /\ ~Found /\ ~Endless(Top.x)
        /\ \E i \in 0..(N - 1), last \in Tasks :
              /\ trail[i] = last /\ trail[i + 1] = NoTask
              /\ prev' = last
        /\ Go(Frame("sleep_until", NoTask, (ReapDelay + tick) % TickMod))
        /\ UNCHANGED <<head, next_task, freed, halt>>
     \/ /\ ~Found /\ Endless(Top.x)
        /\ halt' = "spin"
        /\ UNCHANGED <<list, stack>>
  /\ UNCHANGED <<state, sleep_until, current_task, ready_to_run_counter,
                 irqLock, tick>>

-----------------------------------------------------------------------------
(* The frames of timer interrupts that have interrupted pit_callback.      *)
Nested == UNION {{t} \X (3..Len(stack[t])) : t \in AllTasks}

(* The test of pit_callback.                                               *)
Expired(t, now) == state[t] = "SLEEPING" /\ sleep_until[t] < now

(* The timer interrupt, pit_callback with interrupts off: up to the first  *)
(* sleeper of the list whose time has passed, who is switched to at once,  *)
(* or to the end of the list, where a ready task pre-empts the running     *)
(* one.  Whichever comes first, the interrupted code's stack keeps the     *)
(* handler's frame.                                                        *)
TimerInterrupt ==
  LET scan == Chain(head)
      now == (tick + 1) % TickMod
      flag(i) == IF \E j \in 0..i : /\ scan[j] # NoTask
                                    /\ state[scan[j]] = "READY_TO_RUN"
                 THEN 1 ELSE 0
      N == Cardinality(Tasks)
  IN
  /\ halt = "no" /\ interrupts_on
  /\ Depth = 1 \/ Cardinality(Nested) < MaxNested
  /\ tick' = now
  /\ \/ \E i \in 0..N, t \in Tasks :
          /\ t = scan[i] /\ Expired(t, now)
          /\ \A j \in 0..(i - 1) : ~Expired(scan[j], now)
          /\ Unblock(t, Pushed(Frame("unblock_return", t, flag(i))))
     \/ /\ \A t \in Reached(head) : ~Expired(t, now)
        /\ ~Endless(head) /\ flag(N) = 1
        /\ Lock(Pushed(At("sched_return")))
        /\ Scheduler(state, ready_to_run_counter)
     \/ /\ \A t \in Reached(head) : ~Expired(t, now)
        /\ Endless(head)
        /\ halt' = "spin"
        /\ UNCHANGED <<state, current_task, ready_to_run_counter, irqLock,
                       stack>>
     \/ /\ \A t \in Reached(head) : ~Expired(t, now)
        /\ ~Endless(head) /\ flag(N) = 0
        /\ UNCHANGED <<state, current_task, ready_to_run_counter, irqLock,
                       stack, halt>>
  /\ UNCHANGED <<list, sleep_until>>

(* A scan that ends with its first wake-up.                                *)
UnblockReturnStops ==
  /\ Executes("unblock_return")
  /\ Unlock
  /\ Go(Frame("pit_end", NoTask, 1))
  /\ UNCHANGED <<list, state, sleep_until, current_task, ready_to_run_counter,
                 tick, halt>>

(* Back from unblock_task: the rest of the scan runs with interrupts on.   *)
UnblockReturn ==
  /\ Executes("unblock_return")
  /\ Unlock
  /\ Go(Frame("pit_flag", Top.x, Top.n))
  /\ UNCHANGED <<list, state, sleep_until, current_task, ready_to_run_counter,
                 tick, halt>>

(* ++flag for a ready task, x = x->next_task, and the test of the next one. *)
PitFlag ==
  LET x == next_task[Top.x]
      flag == IF state[Top.x] = "READY_TO_RUN" THEN 1 ELSE Top.n
  IN
  /\ Executes("pit_flag")
  /\ \/ /\ Go(Frame(IF x = NoTask THEN "pit_end"
                    ELSE IF Expired(x, tick) THEN "pit_unblock" ELSE "pit_flag",
                    x, flag))
        /\ UNCHANGED <<list, state, sleep_until, current_task,
                       ready_to_run_counter, irqLock, tick, halt>>
     \/ Dangling(Top.x)

(* unblock_task(x->pid), for a sleeper that was found some time ago.       *)
UnblockTask ==
  /\ Executes("pit_unblock")
  /\ \/ /\ Top.x \in Reached(head)
        /\ Unblock(Top.x, Replaced(Frame("unblock_return", Top.x, Top.n)))
        /\ UNCHANGED <<list, sleep_until, tick>>
     \/ /\ Top.x \notin Reached(head)
        /\ halt' = "wild"
        /\ UNCHANGED <<list, state, sleep_until, current_task,
                       ready_to_run_counter, irqLock, tick, stack>>

(* The end of pit_callback: pre-empt when the scan has met a ready task.   *)
PitEnd ==
  /\ Executes("pit_end")
  /\ \/ /\ Top.n = 0
        /\ Go(At("iret"))
        /\ UNCHANGED <<state, current_task, ready_to_run_counter, irqLock, halt>>
     \/ /\ Top.n # 0
        /\ Lock(Replaced(At("sched_return")))
        /\ Scheduler(state, ready_to_run_counter)
  /\ UNCHANGED <<list, sleep_until, tick>>

SchedReturn ==
  /\ Executes("sched_return")
  /\ Unlock
  /\ Go(At("iret"))
  /\ UNCHANGED <<list, state, sleep_until, current_task, ready_to_run_counter,
                 tick, halt>>

(* iret restores the interrupted code's flags: interrupts were on.         *)
IRet ==
  /\ Executes("iret")
  /\ stack' = Popped
  /\ interrupts_on' = TRUE
  /\ UNCHANGED <<list, state, sleep_until, current_task, ready_to_run_counter,
                 lock_irq_counter, tick, halt>>

(* Nothing but a reset gets the machine out.                               *)
Halted == halt # "no" /\ UNCHANGED vars

-----------------------------------------------------------------------------
(* The kernel code that goes on by itself once it has been entered.        *)
KernelStep ==
  \/ TaskEntry \/ CounterLoad \/ CounterStore \/ CreateLink
  \/ SleepUntil \/ BlockReturn \/ SoftState
  \/ (BlockTask /\ Executes("block_sleeping"))
  \/ Resurrected \/ ReapHead \/ ReapScan
  \/ UnblockTask \/ UnblockReturn \/ PitFlag \/ PitEnd
  \/ SchedReturn \/ IRet

Next ==
  \/ TaskEntry
  \/ \E t \in Tasks : CreateTask(t)
  \/ CounterLoad \/ CounterStore \/ CreateLink
  \/ \E d \in Durations : Sleep(d)
  \/ SleepUntil \/ BlockTask \/ BlockReturn
  \/ \E p \in Tasks : SoftUnblock(p)
  \/ SoftState
  \/ \E p \in Tasks : NicInterrupt(p)
  \/ TaskTermination \/ Resurrected
  \/ ReapHead \/ ReapScan
  \/ TimerInterrupt
  \/ UnblockTask \/ UnblockReturn \/ PitFlag \/ PitEnd
  \/ SchedReturn \/ IRet
  \/ Halted

Spec == Init /\ [][Next]_vars

(* The processor executes the code it is in; an interrupt the PIC has      *)
(* latched is taken once interrupts are on; and a tick is long enough for  *)
(* the task that gets the processor to advance in its own code.  What a    *)
(* task calls, and whether the network card has a frame, nobody promises.  *)
FairSpec == /\ Spec
            /\ WF_vars(KernelStep)
            /\ SF_vars(TimerInterrupt)
            /\ \A t \in AllTasks :
                 SF_vars(current_task = t /\ Depth = 1 /\ KernelStep)

-----------------------------------------------------------------------------
(* Safety.                                                                 *)

(* Types: every variable stays in its range, the width of its C type       *)
(* included, and every stack has at least its task's own frame.            *)
TypeOK ==
  /\ head \in Tasks \cup {NoTask}
  /\ next_task \in [AllTasks -> Tasks \cup {NoTask}]
  /\ state \in [AllTasks -> States]
  /\ sleep_until \in [AllTasks -> 0..(TickMod - 1)]
  /\ freed \subseteq Tasks
  /\ current_task \in AllTasks
  /\ ready_to_run_counter \in 0..(CounterMod - 1)
  /\ lock_irq_counter \in Nat
  /\ interrupts_on \in BOOLEAN
  /\ tick \in 0..(TickMod - 1)
  /\ stack \in [AllTasks -> Seq(Frames) \ {<<>>}]
  /\ prev \in Tasks \cup {NoTask}
  /\ halt \in {"no", "spin", "wild"}

(* The interrupt lock is handed over at a context switch: dispatcher saves *)
(* neither the flags nor the counter, so the one who is switched to must   *)
(* release what the one switched away from has taken.  The lock is held    *)
(* once exactly while the running task is about to release it, interrupts  *)
(* are on otherwise, and every task that is not running waits at a point   *)
(* where it will release it.                                               *)
IrqLockHandedOver ==
  /\ lock_irq_counter = IF Top.pc \in ResumePoints THEN 1 ELSE 0
  /\ interrupts_on <=> lock_irq_counter = 0
  /\ \A t \in AllTasks \ {current_task} :
       stack[t][Len(stack[t])].pc \in ResumePoints

(* The task that has the processor is marked as running (the idle task     *)
(* never is): no wake-up, however late, may mark it as something else, or  *)
(* scheduler would hand it the processor twice or never again.             *)
CurrentRuns ==
  halt = "no" => current_task = Idle \/ state[current_task] = "RUNNING"

Runnable == {t \in Tasks : state[t] \in {"RUNNING", "READY_TO_RUN"}}

(* The tasks whose own code is at one of these points.                     *)
Amid(pcs) == {t \in AllTasks : stack[t][1].pc \in pcs}

(* By how much ready_to_run_counter exceeds the tasks it should count,     *)
(* the half-done updates set aside.                                        *)
Excess == (CounterMod + ready_to_run_counter
            + Cardinality(Amid({"create_load", "create_store"}))
            - Cardinality(Amid({"soft_state"}))
            - Cardinality(Runnable)) % CounterMod

(* The store of an unlocked ++ whose load is out of date, and a wake-up of *)
(* a task that is ready or running by now.                                 *)
StaleStore == /\ Top.pc \in {"create_store", "soft_store"}
              /\ Top.n # ready_to_run_counter
LateWake == /\ Top.pc \in {"pit_unblock", "soft_state"}
            /\ Top.x \in Runnable

(* ready_to_run_counter goes out of step with the tasks' states in these   *)
(* two ways only: every other path through block_task, unblock_task,       *)
(* scheduler, task_termination and create_task keeps its account.          *)
CounterDriftsOnlyByRace ==
  [][Excess' # Excess => StaleStore \/ LateWake]_vars

(* The list holds every task from its creation to its kfree, and ends.     *)
ListIntact ==
  /\ ~Endless(head)
  /\ Reached(head) \cap freed = {}
  /\ \A t \in Tasks : state[t] = "UNBORN" \/ t \in freed \/ t \in Reached(head)
                    \/ \E i \in DOMAIN stack[Boot] :
                         stack[Boot][i].pc \in {"create_load", "create_store",
                                               "create_link"}
                         /\ stack[Boot][i].x = t

(* A sleeper whose time has passed, as pit_callback's test sees it.        *)
Overdue(t) == Expired(t, tick)

(* Some scan of pit_callback, perhaps one that its own unblock_task has    *)
(* taken the processor from, has still to come to the task t.              *)
AheadOfScan(t) ==
  \E u \in AllTasks : \E i \in DOMAIN stack[u] :
    LET frame == stack[u][i]
    IN \/ frame.pc = "pit_unblock" /\ frame.x = t
       \/ /\ frame.pc \in {"pit_flag", "pit_unblock", "unblock_return"}
          /\ t \in Reached(next_task[frame.x])

(* A tick leaves no sleeper whose time has passed without a scan that will *)
(* come to it; and no scan passes it by, although unblock_task switches    *)
(* away from the middle of the scan, later ticks start scans of their own, *)
(* other scans and soft_unblock_task wake the tasks the scan is about to   *)
(* look at, and task_terminator takes those it points at off the list.     *)
(* This as long as the list is whole.                                      *)
OverdueIsNotPassed ==
  [][\A t \in Tasks :
       (tick' # tick \/ AheadOfScan(t)) /\ Overdue(t)'
         => AheadOfScan(t)' \/ halt' # "no" \/ ~ListIntact']_vars

(* What unlinks a task or links a new one damages the list only when the   *)
(* head it read before taking the lock, or before calling kmalloc, is no   *)
(* longer the head.                                                        *)
ListDamagedOnlyByStaleHead ==
  [][ListIntact /\ ~ListIntact' =>
       \/ Executes("reap_scan") /\ Top.x # head
       \/ Executes("create_link") /\ next_task[Top.x] # head]_vars

-----------------------------------------------------------------------------
(* Liveness.                                                               *)

(* As long as ready_to_run_counter is right, every ready task gets the     *)
(* processor: unblock_task may jump the queue as often as it likes, the    *)
(* rest of the interrupted scan still pre-empts.                           *)
ReadyRuns == \A t \in Tasks :
  state[t] = "READY_TO_RUN"
    ~> (state[t] = "RUNNING" \/ halt # "no" \/ Excess # 0)

(* sleep_until < tick has no next tick to become true at.                  *)
SleepsForEver(t) == state[t] = "SLEEPING" /\ sleep_until[t] = TickMod - 1

(* task_terminator frees every task that has terminated, unless it sleeps  *)
(* until the last tick before tick wraps.                                  *)
TerminatedIsReaped == \A t \in Mortal :
  state[t] = "TERMINATED"
    ~> (t \in freed \/ halt # "no" \/ Excess # 0 \/ SleepsForEver(Terminator))

-----------------------------------------------------------------------------
(* What comments in the code say, and the code does not keep.              *)

(* "search for next available task" (scheduler): there is one to find when *)
(* the counter says so.                                                    *)
SearchFindsTask == halt # "spin"
=============================================================================
