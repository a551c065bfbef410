----------------------------- MODULE NicReceive -----------------------------
(***************************************************************************)
(* Receiving with the RTL8139.  The card writes every frame, behind a      *)
(* header, into a ring in memory; rtl8139_handler, in its interrupt,       *)
(* copies the frames out and puts them into the receive queue (RecvQueue). *)
(* The card goes on by itself at any moment; the tasks stand still while   *)
(* the handler runs.                                                       *)
(***************************************************************************)
EXTENDS RecvQueue

CONSTANTS
  RingSize,  \* RX_BUFFER_SIZE - 0x10
  Word,      \* 4: the size of a header, and what every frame is aligned to
  Crc,       \* 4: the CRC behind every frame
  RegMod,    \* 2^16, the values of CAPR
  Gap,       \* 0x10, by which CAPR is behind
  Torn,      \* a frame with a part that is not its own
  Erased,    \* 0xff, what rtl8139_reset fills the ring with
  Faults     \* whether the card may announce a frame whose header is 0xffff

ASSUME RingAssumption ==
  /\ Word \in Nat \ {0} /\ RingSize \in Nat /\ RingSize > 2 * Word
  /\ RingSize % Word = 0
  /\ RegMod \in Nat /\ RegMod >= RingSize /\ RegMod % RingSize = 0
  /\ Gap \in 0..RegMod
  /\ Torn \in Frame /\ Faults \in BOOLEAN

(* The card brings no frame that is nothing but a CRC.                     *)
ASSUME FrameAssumption ==
  /\ Crc \in Nat
  /\ \A f \in Frame \ {Torn} : f.size \in Nat /\ f.size > Crc

VARIABLES
  ring,     \* rtl8139_device->rx_buffer: of which frame a byte is, and which
  written,  \* CBR, where the card writes next
  capr,     \* CAPR, how far the card believes the driver to be
  rok,      \* bit 0 of ISR: a frame has come
  rx_cur,   \* rtl8139_device->rx_cur
  ipc,      \* where rtl8139_handler is
  on_ring,  \* history: the frames the card has accepted and nobody taken
  late,     \* history: a frame came between last look and acknowledgement
  was_reset \* history: the driver has reset the card

card   == <<ring, written, capr, rok>>
driver == <<rx_cur, ipc>>
record == <<on_ring, late, was_reset>>
nic    == <<card, driver, record>>

NicInit == /\ Init
           /\ ring = [i \in 0..(RingSize - 1) |-> Erased]
           /\ written = 0 /\ capr = (RegMod - Gap) % RegMod
           /\ rok = FALSE
           /\ rx_cur = 0 /\ ipc = "off"
           /\ on_ring = <<>> /\ late = FALSE /\ was_reset = FALSE

-----------------------------------------------------------------------------
(* The card.                                                               *)

CardRead == ((capr + Gap) % RegMod) % RingSize
Used     == (written + RingSize - CardRead) % RingSize

(* BUFE, bit 0 of the command register.                                    *)
BufferEmpty == written = CardRead

RoundUp(n) == ((n + Word - 1) \div Word) * Word

(* f.size, with the CRC, is what the header says.                          *)
Taken(f) == RoundUp(Word + f.size)

(* The WRAP bit is 0: what does not fit behind goes to the beginning.      *)
Place(f) == [i \in 0..(RingSize - 1) |->
               LET k == (i + RingSize - written) % RingSize
               IN IF k < Word + f.size THEN [frame |-> f, byte |-> k]
                  ELSE ring[i]]

(* A frame for which there is no room is dropped.                          *)
CardReceives(f) ==
  /\ Used + Taken(f) < RingSize
  /\ ring' = Place(f)
  /\ written' = (written + Taken(f)) % RingSize
  /\ rok' = TRUE
  /\ on_ring' = Append(on_ring, f)
  /\ late' = (late \/ ipc = "ack")
  /\ UNCHANGED <<capr, driver, was_reset, vars>>

(* The case the driver provides for: a frame is announced and its header   *)
(* reads as 0xffff.                                                        *)
CardFaults == /\ Faults /\ ~BufferEmpty /\ ~was_reset
              /\ ring' = [ring EXCEPT ![CardRead] = Erased]
              /\ UNCHANGED <<written, capr, rok, driver, record, vars>>

-----------------------------------------------------------------------------
(* rtl8139_handler.  The interrupt line follows ISR, whose other bit, TOK, *)
(* the handler only acknowledges (NicSend).                                *)
NicInterrupt ==
  /\ ipc = "off" /\ rok
  /\ ipc' = "test"
  /\ UNCHANGED <<card, rx_cur, record, vars>>

(* A copy that begins with the header.                                     *)
CopyWithHeader(f) ==
  IF \A k \in 0..(f.size - Crc - 1) :
       rx_cur + k < RingSize
         /\ ring[rx_cur + k] = [frame |-> f, byte |-> Word + k]
  THEN f ELSE Torn

(* memcpy from behind the header, without the CRC.  It goes straight on    *)
(* over the end of the ring.                                               *)
Copy(f) ==
  IF \A k \in Word..(Word + f.size - Crc - 1) :
       rx_cur + k < RingSize /\ ring[rx_cur + k] = [frame |-> f, byte |-> k]
  THEN f ELSE Torn

(* rx_cur after a frame; without the rounding.                             *)
OffsetUnrounded(size) == (rx_cur + size + Word) % RingSize

Offset(size) == RoundUp(rx_cur + size + Word) % RingSize

(* CAPR is told the new rx_cur.                                            *)
Tell(offset) == capr' = (offset + RegMod - Gap) % RegMod

(* A loop that takes one frame for every interrupt.                        *)
ReceiveOneFrame ==
  /\ ipc = "test" /\ ~BufferEmpty
  /\ ring[rx_cur] # Erased
  /\ LET f == ring[rx_cur].frame
     IN /\ EnqueueRecvFrame(Copy(f))
        /\ rx_cur' = Offset(f.size)
        /\ Tell(Offset(f.size))
  /\ on_ring' = Tail(on_ring)
  /\ ipc' = "ack"
  /\ UNCHANGED <<ring, written, rok, late, was_reset>>

(* One turn of the loop of rtl8139_receive_frame.                          *)
ReceiveFrame ==
  /\ ipc = "test" /\ ~BufferEmpty
  /\ ring[rx_cur] # Erased
  /\ LET f == ring[rx_cur].frame
     IN /\ EnqueueRecvFrame(Copy(f))
        /\ rx_cur' = Offset(f.size)
        /\ Tell(Offset(f.size))
  /\ on_ring' = Tail(on_ring)
  /\ UNCHANGED <<ring, written, rok, ipc, late, was_reset>>

(* Status 0xffff: rtl8139_reset empties the card and the ring; the code    *)
(* behind rx_error then takes the size for 0xffff + 4 = 3, in 16 bits, and *)
(* goes on two words behind the beginning, where the ring is erased too:   *)
(* the card has nothing there and BUFE is clear, so this repeats for ever. *)
Reset ==
  /\ ipc = "test" /\ ~BufferEmpty
  /\ ring[rx_cur] = Erased
  /\ ring' = [i \in 0..(RingSize - 1) |-> Erased]
  /\ written' = 0 /\ rok' = FALSE
  /\ rx_cur' = 2 * Word /\ Tell(2 * Word)
  /\ on_ring' = <<>> /\ was_reset' = TRUE
  /\ UNCHANGED <<ipc, late, vars>>

LoopEnds == /\ ipc = "test" /\ BufferEmpty
            /\ ipc' = "ack" /\ late' = FALSE
            /\ UNCHANGED <<card, rx_cur, on_ring, was_reset, vars>>

(* ROK is cleared, also when it has been set again meanwhile.              *)
Acknowledge == /\ ipc = "ack"
               /\ ipc' = "off" /\ rok' = FALSE
               /\ UNCHANGED <<ring, written, capr, rx_cur, record, vars>>

Interrupt == NicInterrupt \/ ReceiveFrame \/ Reset \/ LoopEnds \/ Acknowledge
Task == ipc = "off" /\ Handler /\ UNCHANGED nic

NicNext == \/ \E f \in Frame \ {Torn} : CardReceives(f)
           \/ CardFaults
           \/ Interrupt
           \/ Task

NicSpec == NicInit /\ [][NicNext]_<<vars, nic>>

(* The processor executes the handler it is in, and the task whenever the   *)
(* handler leaves it some time.  Nothing says that the handler does: while *)
(* it takes a frame out, the card may bring another.                       *)
NicFairSpec == NicSpec /\ WF_<<vars, nic>>(Interrupt) /\ SF_<<vars, nic>>(Task)

-----------------------------------------------------------------------------
(* Driver and card agree on where the next frame is, and its header is     *)
(* there, until the driver has reset the card: no order of arrivals and    *)
(* reads, and no length of a frame, brings rx_cur, which is kept apart     *)
(* from CAPR and rounded by itself, out of step.  With the queue's types.  *)
InStep ==
  /\ TypeOK
  /\ \/ was_reset
     \/ /\ rx_cur = CardRead
        /\ BufferEmpty <=> on_ring = <<>>
        /\ ~BufferEmpty =>
             ring[rx_cur] \in {Erased, [frame |-> Head(on_ring), byte |-> 0]}

(* A frame is put into the queue as it came, in the order of arrival,      *)
(* however many others have come meanwhile.  The exception is a frame that *)
(* the card has wrapped round the end of the ring: its second part is read *)
(* from behind the end.                                                    *)
Wrapped == rx_cur + Word + Head(on_ring).size - Crc > RingSize
FramesIntact ==
  [][push' # push =>
       slot'[push] = IF Wrapped THEN Torn ELSE Head(on_ring)]_<<vars, nic>>

(* A frame on the ring has its interrupt coming, unless it came between    *)
(* the handler's last look at BUFE and its acknowledgement of ROK: such a  *)
(* frame waits until another one comes.                                    *)
FrameIsAnnounced == ipc = "off" /\ ~BufferEmpty => rok \/ late

(* Every frame that was put into the queue gets its turn, unless the        *)
(* processor stays in the interrupt for ever: because frames come as fast  *)
(* as the handler's loop takes them out, or because of a reset.            *)
EveryFrameHandled ==
  \A i \in 0..(Size - 1) :
    (\E k \in 1..Count : i = Nth(k))
      ~> ((read = i /\ given # <<>>) \/ [](ipc # "off"))
=============================================================================
