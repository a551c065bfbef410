------------------------------ MODULE NicSend ------------------------------
(***************************************************************************)
(* Sending with the RTL8139.  nht_send_handler (SendQueue) hands a frame   *)
(* to rtl8139_send_frame, which stores its address and its size in the     *)
(* next of four descriptors; the card reads the memory when it comes to    *)
(* it, in the order of the descriptors.  The driver never looks whether a  *)
(* descriptor is free, and the handler gives the memory back at once.      *)
(***************************************************************************)
EXTENDS SendQueue, SequencesExt

CONSTANT Descriptors  \* how many of TSAD and TSD there are: 4

ASSUME DescriptorsAssumption == Descriptors \in Nat \ {0}

VARIABLES
  tsad,      \* the buffer of every descriptor, with the size of TSD, until
             \* the card has read it
  own,       \* the card is done with the descriptor (OWN of TSD)
  tx_cur,    \* rtl8139_device->tx_cur
  card_next, \* the descriptor the card takes next
  handed,    \* history: the frames the driver was given
  wire,      \* history: the frames the card has sent
  damaged    \* history: a frame the card still wanted was lost or changed

nic == <<tsad, own, tx_cur, card_next, handed, wire, damaged>>

Nothing == [buffer |-> Junk, size |-> Junk]
Descriptor == 0..(Descriptors - 1)

NicInit == /\ Init
           /\ tsad = [d \in Descriptor |-> Nothing]
           /\ own = [d \in Descriptor |-> TRUE]
           /\ tx_cur = 0 /\ card_next = 0
           /\ handed = <<>> /\ wire = <<>> /\ damaged = FALSE

(* A wrap one descriptor too soon.                                         *)
FollowingDescriptorShort(d) == IF d + 1 > Descriptors - 2 THEN 0 ELSE d + 1

(* if (tx_cur > 3) tx_cur = 0.                                             *)
FollowingDescriptor(d) == IF d + 1 > Descriptors - 1 THEN 0 ELSE d + 1

(* What is handed and sent is recorded until a frame is damaged.           *)
History(now_handed, now_wire, damage) ==
  /\ damaged' = (damaged \/ damage)
  /\ handed' = IF damaged' THEN <<>> ELSE now_handed
  /\ wire' = IF damaged' THEN <<>> ELSE now_wire

(* rtl8139_send_frame: the write to TSD takes OWN away.                    *)
SendFrame ==
  /\ Send
  /\ tsad' = [tsad EXCEPT ![tx_cur] = slot[read]]
  /\ own' = [own EXCEPT ![tx_cur] = FALSE]
  /\ tx_cur' = FollowingDescriptor(tx_cur)
  /\ History(Append(handed, At(read)), wire, ~own[tx_cur])
  /\ UNCHANGED card_next

(* The card has still to read the descriptor's buffer.                     *)
Waits(d) == ~own[d] /\ tsad[d].buffer \in Frame

(* The handler frees a buffer which the card has still to read.            *)
FreeFrame ==
  /\ KFree
  /\ History(handed, wire,
             \E d \in Descriptor : Waits(d) /\ tsad[d].buffer = slot[read].buffer)
  /\ UNCHANGED <<tsad, own, tx_cur, card_next>>

(* What the card finds, as long as TSD says.                               *)
Found(t) == IF t.buffer \in Frame /\ content[t.buffer] = t.size THEN t.size
            ELSE Junk

(* The card reads the memory, and goes on to the next descriptor.          *)
CardSends ==
  /\ ~own[card_next]
  /\ History(handed, Append(wire, Found(tsad[card_next])), FALSE)
  /\ own' = [own EXCEPT ![card_next] = TRUE]
  /\ tsad' = [tsad EXCEPT ![card_next] = Nothing]
  /\ card_next' = (card_next + 1) % Descriptors
  /\ UNCHANGED <<tx_cur, vars>>

NicHandler == \/ SendFrame
              \/ FreeFrame
              \/ (Check \/ Advance) /\ UNCHANGED nic

(* What an overtaken producer copies into the last slot's buffer may be    *)
(* one that the card has still to read.                                    *)
CardWaits ==
  /\ History(handed, wire,
             \E d \in Descriptor :
               Waits(d) /\ content'[tsad[d].buffer] # content[tsad[d].buffer])
  /\ UNCHANGED <<tsad, own, tx_cur, card_next>>

Protocols == /\ \/ \E p \in Producers, f \in Frame : EnqueueSendFrame(p, f)
                \/ \E p \in Producers : Enqueue(p)
             /\ CardWaits

NicNext == \/ (Protocols \/ NicHandler) /\ Record
           \/ CardSends
           \/ (Quiet /\ UNCHANGED nic)

NicSpec == NicInit /\ [][NicNext]_<<vars, nic>>

(* The processor does not stand still while a task can run (Multitask);   *)
(* which one runs is the timer's choice, and the card may stop.            *)
Tasks == \/ NicHandler
         \/ (\E p \in Producers : Enqueue(p)) /\ CardWaits

NicFairSpec == NicSpec /\ WF_<<vars, nic>>(Tasks /\ Record)

-----------------------------------------------------------------------------
(* The card sends what the driver was given, whole, once and in its order, *)
(* and finds everything it has to send, however the driver's and the       *)
(* card's descriptors wrap; until a frame is freed before the card has     *)
(* read it, a fifth one takes the descriptor of one not sent, or a         *)
(* producer that was overtaken writes into it.                             *)
WireCarriesFrames ==
  ~damaged => /\ IsPrefix(wire, handed)
              /\ own[card_next] => wire = handed
=============================================================================
