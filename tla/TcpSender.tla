----------------------------- MODULE TcpSender -----------------------------
(***************************************************************************)
(* The sending half of TCP for one connection: the boot task's echo of     *)
(* what it has read (kernel_main.c), tcp_sender_enqueue, the task          *)
(* tcp_sender that sends, splits and repeats what is queued, and the       *)
(* acknowledgements that tcp_state_connected_handler takes.                *)
(*                                                                         *)
(* The peer takes the segments in the order of their sequence numbers and  *)
(* acknowledges what it has.  Segments are lost, repeated and reordered,   *)
(* acknowledgements are lost and reordered.                                *)
(*                                                                         *)
(* Sequence numbers and ticks are uint32_t and wrap.  tcp_init_window      *)
(* starts the window at 1, and the byte k of the boot task's stream belongs *)
(* at the sequence number k modulo SeqMod.  The model begins at a byte     *)
(* first up to which everything has been sent and acknowledged, and in the *)
(* long stretch of ticks that are far from both ends of their range.       *)
(***************************************************************************)
EXTENDS Naturals, Sequences

CONSTANTS
  MaxQueue,   \* TCP_SENDER_MAX_QUEUE
  WindowSize, \* send_window->window_size, from the peer's SYN
  Resend,     \* after how many ticks a segment is sent again: 100
  Starts,     \* bytes of the stream at which the model may begin
  N,          \* how many bytes the boot task echoes from there
  Sizes,      \* what tcp_read may return to it
  SeqMod,     \* sequence numbers are uint32_t: 2^32
  TickMod,    \* tick is a uint32_t: 2^32
  NoSegment,  \* a null pointer in the queue
  Junk        \* a byte from behind the end of a segment's data

ASSUME QueueAssumption == MaxQueue \in Nat \ {0} /\ WindowSize \in Nat
ASSUME StreamAssumption ==
  /\ SeqMod \in Nat \ {0} /\ Starts \subseteq 1..(SeqMod - 1)
  /\ N \in Nat /\ Sizes \subseteq Nat \ {0} /\ Junk \notin Nat
ASSUME TimeAssumption ==
  Resend \in Nat \ {0} /\ TickMod \in Nat /\ TickMod > Resend + 2

Data == Seq(Nat \cup {Junk})
ASSUME NullAssumption == NoSegment \notin [seqno : Nat, data : Data, tick : Nat]

(* 0xffffffff, the tick that none comes after.                             *)
Never == TickMod - 1

VARIABLES
  segment_queue,   \* its entries: a segment, and the tick after which it is due
  last_acked_byte, \* send_window->last_acked_byte
  tick,
  first,           \* the first byte of the stream that the model looks at
  written,         \* how much of it the boot task has echoed from there
  segment,         \* the segment it has built, to be enqueued
  pc,              \* where tcp_sender is
  i,               \* the entry it looks at
  data_remainder,  \* its local variable, set to 0 only when the task starts
  min_tick,        \* what it calls sleep_until with
  flight,          \* the segments on their way
  acks,            \* the acknowledgements on their way
  got,             \* what the peer has received, in order
  defects          \* history: which of six defects have struck (below)

boot   == <<first, written, segment>>
sender == <<pc, i, data_remainder, min_tick>>
peer   == <<flight, acks, got>>
vars   == <<segment_queue, last_acked_byte, tick, boot, sender, peer, defects>>

Slots == 1..MaxQueue
Entry(seqno, data, after) == [seqno |-> seqno, data |-> data, tick |-> after]
Segment(seqno, data)      == [seqno |-> seqno, data |-> data]

(* A segment whose end has no number of its own below SeqMod.              *)
Wrapped(seg) == IF seg.seqno + Len(seg.data) >= SeqMod THEN {"wrapped"} ELSE {}

(* lock_irq keeps interrupts off during the whole scan of the queue, and   *)
(* nobody turns them on again after a crash.                               *)
Interruptible == pc \notin {"scan", "crashed"}

Init == /\ segment_queue = [s \in Slots |-> NoSegment]
        /\ first \in Starts /\ last_acked_byte = first
        /\ tick = 1
        /\ written = 0 /\ segment = NoSegment
        /\ pc = "top" /\ i = 1 /\ data_remainder = 0 /\ min_tick = Never
        /\ flight = {} /\ acks = {} /\ got = <<>>
        /\ defects = {}

-----------------------------------------------------------------------------
(* The boot task.                                                          *)

(* It gives a segment the number of the first byte the peer has not        *)
(* acknowledged, whatever it has sent since.  The mutant is one late.      *)
SequenceNumberLate == last_acked_byte + 1

SequenceNumber == last_acked_byte

Build(n) ==
  /\ Interruptible /\ segment = NoSegment
  /\ written + n <= N
  /\ segment' = Segment(SequenceNumber, [k \in 1..n |-> first + written + k - 1])
  /\ written' = written + n
  /\ defects' = defects \cup Wrapped(segment')
                  \cup IF last_acked_byte = (first + written) % SeqMod THEN {}
                       ELSE {"renumbered"}
  /\ UNCHANGED <<segment_queue, last_acked_byte, tick, first, sender, peer>>

(* tcp_sender_enqueue: a copy goes to the first free entry, or nowhere.    *)
FreeSlots(queue) == {s \in Slots : queue[s] = NoSegment}
Placed(queue, seg) ==
  [s \in Slots |-> IF s \in FreeSlots(queue) /\ \A f \in FreeSlots(queue) : s <= f
                   THEN Entry(seg.seqno, seg.data, 0) ELSE queue[s]]

(* soft_unblock_task: no use to a task that does not sleep yet.            *)
NotWoken == pc

Woken == IF pc = "asleep" THEN "top" ELSE pc

Enqueue ==
  /\ Interruptible /\ segment # NoSegment
  /\ segment_queue' = Placed(segment_queue, segment)
  /\ segment' = NoSegment
  /\ \/ /\ FreeSlots(segment_queue) = {}
        /\ defects' = defects \cup {"dropped"}
        /\ UNCHANGED pc
     \/ /\ FreeSlots(segment_queue) # {}
        /\ pc' = Woken
        /\ defects' = defects
             \cup (IF pc = "unlocked" /\ min_tick = Never THEN {"overslept"} ELSE {})
             \cup (IF tick = 0 THEN {"tick wrapped"} ELSE {})
  /\ UNCHANGED <<last_acked_byte, tick, first, written, i, data_remainder, min_tick,
                 peer>>

-----------------------------------------------------------------------------
(* tcp_sender_task.                                                        *)

ScanBegin == /\ pc = "top" /\ pc' = "scan"
             /\ i' = 1 /\ min_tick' = Never
             /\ UNCHANGED <<segment_queue, last_acked_byte, tick, boot,
                            data_remainder, peer, defects>>

Scanning == pc = "scan" /\ i \in Slots

(* The entry holds nothing, or was sent not long ago.                      *)
Skip == /\ Scanning
        /\ segment_queue[i] # NoSegment => segment_queue[i].tick >= tick
        /\ i' = i + 1
        /\ UNCHANGED <<segment_queue, last_acked_byte, tick, boot, pc,
                       data_remainder, min_tick, peer, defects>>

Due == Scanning /\ segment_queue[i] # NoSegment /\ segment_queue[i].tick < tick

End(e) == (e.seqno + Len(e.data)) % SeqMod

(* An end that is one byte early.                                          *)
AckedAlmost(e) == last_acked_byte + 1 >= End(e)

Acked(e) == last_acked_byte >= End(e)

FreeEntry == /\ Due /\ Acked(segment_queue[i])
             /\ segment_queue' = [segment_queue EXCEPT ![i] = NoSegment]
             /\ i' = i + 1
             /\ UNCHANGED <<last_acked_byte, tick, boot, pc, data_remainder,
                            min_tick, peer, defects>>

(* A window that is one byte too wide.                                     *)
LastPossibleByteWide == (last_acked_byte + WindowSize + 1) % SeqMod

LastPossibleByte == (last_acked_byte + WindowSize) % SeqMod

(* What does not fit into the window.  When everything fits the variable   *)
(* keeps what an earlier segment has left in it.                           *)
Remainder(e) == IF End(e) > LastPossibleByte THEN End(e) - LastPossibleByte
                ELSE data_remainder

(* The remainder's place is computed as if segments began at byte 0.       *)
RemainderSegment(e) ==
  Segment((e.seqno + LastPossibleByte) % SeqMod,
          [k \in 1..Remainder(e) |->
             IF LastPossibleByte + k <= Len(e.data)
             THEN e.data[LastPossibleByte + k] ELSE Junk])

Split(e) == IF Remainder(e) > 0 THEN Placed(segment_queue, RemainderSegment(e))
            ELSE segment_queue

SplitDefects(e) ==
  IF Remainder(e) > 0 THEN {"split"} \cup Wrapped(RemainderSegment(e)) ELSE {}

DueTime == (Resend + tick) % TickMod

SendEntry ==
  LET e == segment_queue[i]
      to_send == SubSeq(e.data, 1, Len(e.data) - Remainder(e))
  IN /\ Due /\ ~Acked(e) /\ Remainder(e) <= Len(e.data)
     /\ data_remainder' = Remainder(e)
     /\ segment_queue' = [Split(e) EXCEPT ![i] = Entry(e.seqno, to_send, DueTime)]
     /\ flight' = flight \cup {Segment(e.seqno, to_send)}
     /\ min_tick' = IF DueTime < min_tick THEN DueTime ELSE min_tick
     /\ i' = i + 1
     /\ defects' = defects \cup SplitDefects(e)
     /\ UNCHANGED <<last_acked_byte, tick, boot, pc, acks, got>>

(* The remainder is larger than the segment: the size to send wraps and    *)
(* memcpy writes 4 GB from address 0 on.                                   *)
Crash ==
  LET e == segment_queue[i]
  IN /\ Due /\ ~Acked(e) /\ Remainder(e) > Len(e.data)
     /\ data_remainder' = Remainder(e)
     /\ segment_queue' = Split(e)
     /\ pc' = "crashed"
     /\ defects' = defects \cup SplitDefects(e)
     /\ UNCHANGED <<last_acked_byte, tick, boot, i, min_tick, peer>>

(* unlock_irq: from here to sleep_until interrupts are on.                 *)
ScanEnd == /\ pc = "scan" /\ i = MaxQueue + 1
           /\ pc' = "unlocked" /\ i' = 1
           /\ UNCHANGED <<segment_queue, last_acked_byte, tick, boot,
                          data_remainder, min_tick, peer, defects>>

(* sleep_until: nothing to do when the time has passed.                    *)
SleepUntil == /\ pc = "unlocked"
              /\ pc' = IF min_tick < tick THEN "top" ELSE "asleep"
              /\ UNCHANGED <<segment_queue, last_acked_byte, tick, boot, i,
                             data_remainder, min_tick, peer, defects>>

TcpSender == \/ ScanBegin \/ Skip \/ FreeEntry \/ SendEntry \/ Crash \/ ScanEnd
             \/ SleepUntil

-----------------------------------------------------------------------------
(* pit_callback: the tick is now, and a sleeper whose time has passed is   *)
(* woken.  tcp_sender takes an entry for not yet due when its tick is one  *)
(* from before tick wrapped.                                               *)
PitCallback(now, queue, wake_up) ==
  /\ Interruptible
  /\ tick' = now /\ segment_queue' = queue /\ min_tick' = wake_up
  /\ pc' = IF pc = "asleep" /\ wake_up < now THEN "top" ELSE pc
  /\ defects' = IF now = 0 /\ FreeSlots(queue) # Slots
                THEN defects \cup {"tick wrapped"} ELSE defects
  /\ UNCHANGED <<last_acked_byte, boot, i, data_remainder, peer>>

NextTick == PitCallback((tick + 1) % TickMod, segment_queue, min_tick)

(* The ticks far from the ends of the range are all alike: only how far    *)
(* ahead the stored ticks are makes a difference.  The model's tick stays  *)
(* 1 throughout them, and the stored ones come nearer instead: those that  *)
(* are not 0, a new entry's, and not from before tick wrapped.             *)
Nearer(t) == IF t \in 1..(Resend + 1) THEN t - 1 ELSE t

Tick == \/ /\ tick = 1
           /\ PitCallback(tick,
                [s \in Slots |->
                   IF segment_queue[s] = NoSegment THEN NoSegment
                   ELSE [segment_queue[s] EXCEPT !.tick = Nearer(@)]],
                Nearer(min_tick))
        \/ tick # 1 /\ NextTick

(* The last ticks before tick wraps begin, some time or never.             *)
StretchEnds == tick = 1 /\ NextTick

(* tcp_state_connected_handler: the last acknowledgement counts, even if   *)
(* it is an old one.                                                       *)
RecvAck(ack) ==
  /\ Interruptible
  /\ ack \in acks /\ acks' = acks \ {ack}
  /\ last_acked_byte' = ack
  /\ UNCHANGED <<segment_queue, tick, boot, sender, flight, got, defects>>

(* The peer takes the bytes from the one it awaits on; the segment may     *)
(* come again, and the answer may be lost.                                 *)
Awaited == first + Len(got)

Answered == acks' = acks \cup {(first + Len(got')) % SeqMod}

PeerReceives(seg) ==
  LET old == (SeqMod + Awaited - seg.seqno) % SeqMod
  IN /\ seg \in flight
     /\ flight' \in {flight, flight \ {seg}}
     /\ got' = IF old < Len(seg.data)
               THEN got \o SubSeq(seg.data, old + 1, Len(seg.data)) ELSE got
     /\ Answered \/ UNCHANGED acks
     /\ UNCHANGED <<segment_queue, last_acked_byte, tick, boot, sender, defects>>

Lose(seg) ==
  /\ seg \in flight /\ flight' = flight \ {seg}
  /\ UNCHANGED <<segment_queue, last_acked_byte, tick, boot, sender, acks, got,
                 defects>>

(* After the crash nothing needs to happen.                                *)
Halted == pc = "crashed" /\ UNCHANGED vars

Next == \/ \E n \in Sizes : Build(n)
        \/ Enqueue \/ TcpSender \/ Tick \/ StretchEnds
        \/ \E ack \in acks : RecvAck(ack)
        \/ \E seg \in flight : PeerReceives(seg) \/ Lose(seg)
        \/ Halted

Spec == Init /\ [][Next]_vars

(* Every task that can run gets the processor and time passes (Multitask), *)
(* though tick need not wrap while somebody waits; when segments that are  *)
(* not acknowledged are sent again and again, one arrives and is answered, *)
(* and so does one new acknowledgement.                                    *)
AnswersNew == \E seg \in flight : /\ seg.seqno + Len(seg.data) > last_acked_byte
                                 /\ PeerReceives(seg) /\ Answered
RecvNewAck == \E ack \in acks : ack > last_acked_byte /\ RecvAck(ack)

FairSpec == /\ Spec
            /\ WF_vars(Enqueue) /\ WF_vars(TcpSender) /\ WF_vars(Tick)
            /\ SF_vars(AnswersNew) /\ SF_vars(RecvNewAck)

-----------------------------------------------------------------------------
(* Types.  Data that was split again and again may be longer than N.       *)
TypeOK ==
  /\ \A s \in Slots : \/ segment_queue[s] = NoSegment
                      \/ /\ segment_queue[s].seqno \in 0..(SeqMod - 1)
                         /\ segment_queue[s].data \in Data
                         /\ segment_queue[s].tick \in 0..(TickMod - 1)
  /\ last_acked_byte \in 0..(SeqMod - 1)
  /\ tick \in 0..(TickMod - 1)
  /\ first \in Starts /\ written \in 0..N
  /\ pc \in {"top", "scan", "crashed", "unlocked", "asleep"}
  /\ i \in 1..(MaxQueue + 1)
  /\ data_remainder \in Nat
  /\ min_tick \in 0..(TickMod - 1)
  /\ defects \subseteq {"renumbered", "dropped", "overslept", "split", "wrapped",
                        "tick wrapped"}

InPlace(seg) == \A k \in DOMAIN seg.data : seg.data[k] = seg.seqno + k - 1

(* A sequence number stands for one byte of the stream, in every segment   *)
(* on the wire and in what the peer has, until the boot task numbers a     *)
(* segment while an earlier one is unacknowledged or after an old          *)
(* acknowledgement has moved the window back, or a segment is split, or    *)
(* the end of one has no number below 2^32.                                *)
SentIsStream ==
  defects \cap {"renumbered", "split", "wrapped"} = {} =>
    /\ \A seg \in flight : InPlace(seg)
    /\ InPlace(Segment(first, got))

(* Nothing is sent past the peer's window: not after a split, nor after    *)
(* the window has moved back, nor when the window's own end wraps; until   *)
(* the end of a segment does.                                              *)
InsideWindow ==
  /\ TypeOK
  /\ "wrapped" \notin defects =>
       \A seg \in flight : seg.seqno + Len(seg.data) <= Awaited + WindowSize

(* An entry is given up only when the peer has all its numbers, and then,  *)
(* unless the boot task has renumbered or a segment was split, all its     *)
(* bytes; until the end of a segment wraps.                                *)
FreedHasArrived ==
  [][\A s \in Slots :
       LET e == segment_queue[s]
           end == e.seqno + Len(e.data)
       IN e # NoSegment /\ segment_queue'[s] = NoSegment =>
            \/ "wrapped" \in defects
            \/ /\ end <= Awaited
               /\ \/ defects \cap {"renumbered", "split"} # {}
                  \/ SubSeq(got, e.seqno - first + 1, end - first) = e.data]_vars

(* Every byte the boot task hands over reaches the peer and every entry    *)
(* comes free again, unless the boot task renumbers, a full queue drops    *)
(* the segment, a split strikes, the segment comes while tcp_sender is     *)
(* between unlock_irq and sleep_until(0xffffffff), the end of a segment    *)
(* wraps, or tick does while an entry is queued.                           *)
Arrived == /\ Len(got) = written
           /\ \A s \in Slots : segment_queue[s] = NoSegment
StreamArrives == ~Arrived ~> (Arrived \/ defects # {})
=============================================================================
