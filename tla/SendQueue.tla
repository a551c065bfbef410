----------------------------- MODULE SendQueue -----------------------------
(***************************************************************************)
(* The send queue of network_handler_task.c.  Its ring is that of the      *)
(* receive queue, but its producers are tasks (the protocols run in        *)
(* nht_recv_handler, in tcp_sender and in the boot task) and nothing locks *)
(* it: the timer may switch from any producer to any other between the     *)
(* statements of nht_enqueue_send_frame, each of which reads nht_send_push *)
(* anew.                                                                   *)
(***************************************************************************)
EXTENDS Naturals, Sequences

CONSTANTS Producers,  \* the tasks that send
          Frame,      \* the frames; each is sent once, in a buffer of its own
          Junk,       \* what memory that was given back, or never was, holds
          Size        \* NHT_SEND_QUEUE_SIZE

ASSUME SizeAssumption == Size \in Nat /\ Size > 1
ASSUME JunkAssumption == Junk \notin Frame

VARIABLES
  slot,     \* nht_send_queue: the buffer, and the frame frame_size is of
  push,     \* nht_send_push
  read,     \* nht_send_read
  content,  \* what the buffer made for a frame holds
  unsent,   \* the frames nobody has started to send
  ppc,      \* where every producer is
  queue_pos,\* its local variable
  frame,    \* and its parameter
  hpc,      \* where nht_send_handler is
  given,    \* the frame it has handed to the network card's driver
  tcb,      \* nht_send_tcb->state
  overtaken \* history: some producer was overtaken by another

vars == <<slot, push, read, content, unsent, ppc, queue_pos, frame, hpc, given,
          tcb, overtaken>>

producers == <<unsent, ppc, queue_pos, frame>>
handler   == <<read, hpc, given>>

(* The statements of nht_enqueue_send_frame: lines 32, 37, 38, 39, 40, 41. *)
Inside == {"test", "buffer", "memcpy", "size", "push"}
ProducerPoints == Inside \cup {"idle", "wake"}
HandlerPoints == {"check", "send", "kfree", "advance"}

(* An index that leaves the ring.                                          *)
FollowingUnwrapped(i) == i + 1

Following(i) == (i + 1) % Size

Init == /\ slot = [i \in 0..(Size - 1) |-> [buffer |-> Junk, size |-> Junk]]
        /\ push = 0 /\ read = 0
        /\ content = [f \in Frame |-> Junk]
        /\ unsent = Frame
        /\ ppc = [p \in Producers |-> "idle"]
        /\ queue_pos = [p \in Producers |-> 0]
        /\ frame = [p \in Producers |-> Junk]
        /\ hpc = "check"
        /\ given = <<>>
        /\ tcb = "RUNNABLE"
        /\ overtaken = FALSE

(* The producer p goes from one statement to another.                      *)
Step(p, from, to) == ppc[p] = from /\ ppc' = [ppc EXCEPT ![p] = to]

(* Its locals go with it when it returns.                                  *)
Return(p, from) == /\ Step(p, from, "idle")
                   /\ queue_pos' = [queue_pos EXCEPT ![p] = 0]
                   /\ frame' = [frame EXCEPT ![p] = Junk]

(* send_ethernet_frame has built f, no matter which of those not yet sent; *)
(* queue_pos is computed.                                                  *)
EnqueueSendFrame(p, f) ==
  /\ Step(p, "idle", "test")
  /\ unsent # {} /\ f = CHOOSE g \in unsent : TRUE
  /\ unsent' = unsent \ {f}
  /\ frame' = [frame EXCEPT ![p] = f]
  /\ queue_pos' = [queue_pos EXCEPT ![p] = Following(push)]
  /\ UNCHANGED <<slot, push, content, handler, tcb>>

(* A ring taken to be full while it has one more place.                    *)
TestEarly(p) ==
  /\ \/ Following(queue_pos[p]) = read /\ Return(p, "test")
     \/ /\ Following(queue_pos[p]) # read
        /\ Step(p, "test", "buffer") /\ UNCHANGED <<queue_pos, frame>>
  /\ UNCHANGED <<slot, push, content, unsent, handler, tcb>>

(* The frame is dropped when the ring is full.                             *)
Test(p) ==
  /\ \/ queue_pos[p] = read /\ Return(p, "test")
     \/ /\ queue_pos[p] # read
        /\ Step(p, "test", "buffer") /\ UNCHANGED <<queue_pos, frame>>
  /\ UNCHANGED <<slot, push, content, unsent, handler, tcb>>

(* A new buffer: it holds what its memory was left with.                   *)
Buffer(p) ==
  /\ Step(p, "buffer", "memcpy")
  /\ slot' = [slot EXCEPT ![push].buffer = frame[p]]
  /\ content' = [content EXCEPT ![frame[p]] = Junk]
  /\ UNCHANGED <<push, unsent, queue_pos, frame, handler, tcb>>

(* Copied into the buffer the slot has now; when there never was one, into *)
(* memory that belongs to nobody here.                                     *)
Memcpy(p) ==
  /\ Step(p, "memcpy", "size")
  /\ content' = [b \in Frame |-> IF b = slot[push].buffer THEN frame[p]
                                 ELSE content[b]]
  /\ UNCHANGED <<slot, push, unsent, queue_pos, frame, handler, tcb>>

FrameSize(p) ==
  /\ Step(p, "size", "push")
  /\ slot' = [slot EXCEPT ![push].size = frame[p]]
  /\ UNCHANGED <<push, content, unsent, queue_pos, frame, handler, tcb>>

Push(p) ==
  /\ Step(p, "push", "wake")
  /\ push' = queue_pos[p]
  /\ UNCHANGED <<slot, content, unsent, queue_pos, frame, handler, tcb>>

(* Leaving without a wake-up.                                              *)
Leave(p) ==
  /\ Return(p, "wake")
  /\ UNCHANGED <<slot, push, content, unsent, handler, tcb>>

(* soft_unblock_task.                                                      *)
Wake(p) ==
  /\ Return(p, "wake")
  /\ tcb' = "RUNNABLE"
  /\ UNCHANGED <<slot, push, content, unsent, handler>>

-----------------------------------------------------------------------------
(* nht_send_handler: the test and block_task are under the interrupt lock, *)
(* so no producer runs between them.                                       *)
Check ==
  /\ hpc = "check" /\ tcb = "RUNNABLE"
  /\ \/ push = read /\ tcb' = "BLOCKED" /\ UNCHANGED hpc
     \/ push # read /\ hpc' = "send" /\ UNCHANGED tcb
  /\ UNCHANGED <<slot, push, read, content, given, producers>>

(* What the card is given: the buffer's content, as long as the slot's     *)
(* frame_size says.                                                        *)
At(i) == LET b == slot[i].buffer
         IN IF b \in Frame /\ content[b] = slot[i].size THEN slot[i].size
            ELSE Junk

(* l1_upper_interface, to rtl8139_send_frame.                              *)
Send ==
  /\ hpc = "send"
  /\ hpc' = "kfree"
  /\ given' = <<At(read)>>
  /\ UNCHANGED <<slot, push, read, content, producers, tcb>>

(* The buffer's memory is free: whoever gets it next may write to it.      *)
KFree ==
  /\ hpc = "kfree"
  /\ hpc' = "advance"
  /\ content' = [b \in Frame |-> IF b = slot[read].buffer THEN Junk
                                 ELSE content[b]]
  /\ UNCHANGED <<slot, push, read, given, producers, tcb>>

Advance ==
  /\ hpc = "advance"
  /\ hpc' = "check"
  /\ read' = Following(read)
  /\ given' = <<>>
  /\ UNCHANGED <<slot, push, content, producers, tcb>>

-----------------------------------------------------------------------------
Enqueue(p) == \/ Test(p) \/ Buffer(p) \/ Memcpy(p) \/ FrameSize(p) \/ Push(p)
              \/ Wake(p)

Handler == Check \/ Send \/ KFree \/ Advance

(* The producer p has been overtaken: another one has moved nht_send_push  *)
(* since it read it, or is about to write to the same slot.                *)
Overtaken(p) ==
  /\ ppc[p] \in Inside
  /\ \/ queue_pos[p] # Following(push)
     \/ \E q \in Producers \ {p} : /\ ppc[q] \in Inside
                                   /\ queue_pos[q] = queue_pos[p]

Record == overtaken' = (overtaken \/ (\E p \in Producers : Overtaken(p))')

(* All frames are sent: the protocols have nothing more to send.           *)
Quiet == /\ unsent = {} /\ \A p \in Producers : ppc[p] = "idle"
         /\ tcb = "BLOCKED"
         /\ UNCHANGED vars

Next == \/ /\ \/ \E p \in Producers, f \in Frame : EnqueueSendFrame(p, f)
              \/ \E p \in Producers : Enqueue(p)
              \/ Handler
           /\ Record
        \/ Quiet

Spec == Init /\ [][Next]_vars

-----------------------------------------------------------------------------
(* Types, and the indices stay inside the ring.                            *)
TypeOK ==
  /\ slot \in [0..(Size - 1) -> [buffer : Frame \cup {Junk},
                                 size : Frame \cup {Junk}]]
  /\ push \in 0..(Size - 1) /\ read \in 0..(Size - 1)
  /\ content \in [Frame -> Frame \cup {Junk}]
  /\ unsent \subseteq Frame
  /\ ppc \in [Producers -> ProducerPoints]
  /\ queue_pos \in [Producers -> 0..(Size - 1)]
  /\ frame \in [Producers -> Frame \cup {Junk}]
  /\ hpc \in HandlerPoints
  /\ given \in {<<>>} \cup {<<f>> : f \in Frame \cup {Junk}}
  /\ tcb \in {"RUNNABLE", "BLOCKED"}
  /\ overtaken \in BOOLEAN

Count == IF push >= read THEN push - read ELSE push + Size - read
Nth(i) == IF read + i - 1 >= Size THEN read + i - 1 - Size ELSE read + i - 1

(* The frames that wait, as they would be sent.                            *)
Waiting == [i \in 1..Count |-> IF i = 1 /\ given # <<>> THEN given[1]
                               ELSE At(Nth(i))]

Fifo == INSTANCE FrameFifo WITH Capacity <- Size - 1, waiting <- Waiting,
                                handled <- given

(* nht_enqueue_send_frame returns from its test: the frame is not sent.    *)
TurnedAway(p) == Test(p) /\ ppc'[p] = "idle"

(* What comes out is what went in, once and in order; a frame that passed  *)
(* the test is queued, and one is turned away only when no place but the   *)
(* free one is left (network_handler_task.c:30-41).  This until some       *)
(* producer is overtaken: with one producer the ring implements the queue. *)
WorksUntilOvertaken ==
  [][overtaken' \/ /\ [Fifo!Next]_<<Waiting, given>>
                   /\ \A p \in Producers :
                        /\ Push(p) => Waiting' = Append(Waiting, frame[p])
                        /\ TurnedAway(p) => Len(Waiting) = Size - 1]_vars

(* The handler sleeps only while there is nothing to send, except for a    *)
(* producer that is about to wake it.                                      *)
NoLostWakeUp ==
  /\ TypeOK
  /\ tcb = "BLOCKED" => push = read \/ \E p \in Producers : ppc[p] = "wake"

(* The ring empties when the protocols stop sending.                       *)
Drains == <>[](push = read)
=============================================================================
