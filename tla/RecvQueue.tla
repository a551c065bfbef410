----------------------------- MODULE RecvQueue -----------------------------
(***************************************************************************)
(* The receive queue of network_handler_task.c: the network card's         *)
(* interrupt puts frames into a ring, and the task nht_recv_handler takes  *)
(* them out and hands them to the protocols.  The interrupt may come       *)
(* wherever the task has interrupts on; the task sleeps, blocked, when the *)
(* ring is empty, and the interrupt wakes it.                              *)
(***************************************************************************)
EXTENDS Naturals, Sequences

CONSTANTS Frame,    \* what a frame may hold
          NoFrame,  \* what an unused slot holds
          Size      \* NHT_RECV_QUEUE_SIZE

ASSUME SizeAssumption == Size \in Nat /\ Size > 1

VARIABLES
  slot,   \* nht_recv_queue
  push,   \* nht_recv_push
  read,   \* nht_recv_read
  pc,     \* where nht_recv_handler is
  given,  \* the frame it has handed to l2_lower_interface
  tcb     \* nht_recv_tcb->state; the scheduler's choices are in Multitask

vars == <<slot, push, read, pc, given, tcb>>

(* "check" begins with lock_irq.  Between the kfree and the advance of     *)
(* read, the slot holds a pointer to memory that is free.                  *)
Points == {"check", "deliver", "kfree", "advance"}

(* BLOCKED inside block_task, else runnable.                               *)
TaskStates == {"RUNNABLE", "BLOCKED"}

(* An index that leaves the ring.                                          *)
FollowingUnwrapped(i) == i + 1

Following(i) == (i + 1) % Size

Init == /\ slot = [i \in 0..(Size - 1) |-> NoFrame]
        /\ push = 0 /\ read = 0
        /\ pc = "check"
        /\ given = <<>>
        /\ tcb = "RUNNABLE"

(* soft_unblock_task.                                                      *)
WakeHandler == tcb' = "RUNNABLE"

(* An enqueue that forgets to wake the task.                               *)
EnqueueSilently(f) ==
  /\ \/ /\ Following(push) = read
        /\ UNCHANGED <<slot, push>>
     \/ /\ Following(push) # read
        /\ slot' = [slot EXCEPT ![push] = f]
        /\ push' = Following(push)
  /\ UNCHANGED <<read, pc, given, tcb>>

(* An enqueue without the test for a full ring.                            *)
EnqueueAlways(f) ==
  /\ slot' = [slot EXCEPT ![push] = f]
  /\ push' = Following(push)
  /\ WakeHandler
  /\ UNCHANGED <<read, pc, given>>

(* nht_enqueue_recv_frame, in the network card's interrupt: one slot stays *)
(* free, so that a full ring differs from an empty one.                    *)
EnqueueRecvFrame(f) ==
  \/ /\ Following(push) = read
     /\ UNCHANGED vars
  \/ /\ Following(push) # read
     /\ slot' = [slot EXCEPT ![push] = f]
     /\ push' = Following(push)
     /\ WakeHandler
     /\ UNCHANGED <<read, pc, given>>

(* nht_recv_handler: the test for an empty ring and block_task are one     *)
(* step, under the interrupt lock.  The blocked task tests again when it   *)
(* is woken.                                                               *)
Check ==
  /\ pc = "check" /\ tcb = "RUNNABLE"
  /\ \/ push = read /\ tcb' = "BLOCKED" /\ UNCHANGED pc
     \/ push # read /\ pc' = "deliver" /\ UNCHANGED tcb
  /\ UNCHANGED <<slot, push, read, given>>

(* l2_lower_interface.                                                     *)
Deliver ==
  /\ pc = "deliver"
  /\ given' = <<slot[read]>>
  /\ pc' = "kfree"
  /\ UNCHANGED <<slot, push, read, tcb>>

KFree ==
  /\ pc = "kfree"
  /\ slot' = [slot EXCEPT ![read] = NoFrame]
  /\ pc' = "advance"
  /\ UNCHANGED <<push, read, given, tcb>>

Advance ==
  /\ pc = "advance"
  /\ read' = Following(read)
  /\ given' = <<>>
  /\ pc' = "check"
  /\ UNCHANGED <<slot, push, tcb>>

Handler == Check \/ Deliver \/ KFree \/ Advance

Next == (\E f \in Frame : EnqueueRecvFrame(f)) \/ Handler

Spec == Init /\ [][Next]_vars

-----------------------------------------------------------------------------
(* Types, and the indices stay inside the ring.                            *)
TypeOK ==
  /\ slot \in [0..(Size - 1) -> Frame \cup {NoFrame}]
  /\ push \in 0..(Size - 1) /\ read \in 0..(Size - 1)
  /\ pc \in Points
  /\ given \in {<<>>} \cup {<<f>> : f \in Frame}
  /\ tcb \in TaskStates

(* How many frames wait, and the ring's i-th one.                          *)
Count == IF push >= read THEN push - read ELSE push + Size - read
Nth(i) == IF read + i - 1 >= Size THEN read + i - 1 - Size ELSE read + i - 1

(* No wake-up is lost: the task sleeps only while there is nothing to do,  *)
(* although the frame may come between any two of its steps.               *)
NoLostWakeUp == tcb = "BLOCKED" => push = read

(* The ring implements the queue.  The frame whose memory is being given   *)
(* back has left its slot, and is still the first of the queue.            *)
Waiting == [i \in 1..Count |-> IF i = 1 /\ pc = "advance" THEN given[1]
                               ELSE slot[Nth(i)]]

Fifo == INSTANCE FrameFifo WITH Capacity <- Size - 1, waiting <- Waiting,
                                handled <- given
FifoSpec == Fifo!Spec
=============================================================================
