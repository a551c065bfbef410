-------------------------- MODULE TcpSenderProofs ---------------------------
(***************************************************************************)
(* Proofs about TcpSender, for a queue and a window of any size, numbers   *)
(* and ticks of any width, a stream of any length from any start, and any  *)
(* network: nothing is sent past the window until the end of a segment has *)
(* no number below 2^32; and until then, and until the boot task renumbers *)
(* or a segment is split, what is sent, and what is given up, is the       *)
(* stream.                                                                 *)
(***************************************************************************)
EXTENDS TcpSender, SequenceTheorems, TLAPS

Segments == [seqno : 0..(SeqMod - 1), data : Data]
Entries  == [seqno : 0..(SeqMod - 1), data : Data, tick : 0..(TickMod - 1)]

Queued == {s \in Slots : segment_queue[s] # NoSegment}

QueueOK == /\ DOMAIN segment_queue = Slots
           /\ \A s \in Queued : segment_queue[s] \in Entries

(* What is on its way, and what has been heard of it.  No acknowledgement, *)
(* however old, is ahead of what the peer awaits.                          *)
NetworkOK ==
  /\ segment # NoSegment => segment \in Segments
  /\ flight \subseteq Segments
  /\ got \in Data
  /\ last_acked_byte <= Awaited
  /\ \A ack \in acks : ack \in 0..(SeqMod - 1) /\ ack <= Awaited

(* No segment has reached the wrap yet, and so the peer has not.           *)
Below(seg) == seg.seqno + Len(seg.data) < SeqMod

BelowOK ==
  /\ segment # NoSegment => Below(segment)
  /\ \A s \in Queued : Below(segment_queue[s])
  /\ \A seg \in flight : Below(seg)
  /\ Awaited < SeqMod

(* Every segment, from the boot task's to the peer's, has its bytes where  *)
(* their numbers say, and they are bytes of the stream.                    *)
StreamOK ==
  /\ first + written < SeqMod
  /\ last_acked_byte >= first
  /\ \A ack \in acks : ack >= first
  /\ segment # NoSegment => segment.seqno >= first /\ InPlace(segment)
  /\ \A s \in Queued : segment_queue[s].seqno >= first /\ InPlace(segment_queue[s])
  /\ \A seg \in flight : InPlace(seg)
  /\ InPlace(Segment(first, got))

Unwrapped == "wrapped" \notin defects
Unspoiled == defects \cap {"renumbered", "split", "wrapped"} = {}

Inv == /\ TypeOK /\ QueueOK /\ NetworkOK /\ InsideWindow
       /\ Unwrapped => BelowOK
       /\ Unspoiled => StreamOK
-----------------------------------------------------------------------------
(* Numbers and data.                                                       *)

LEMMA ModBasics ==
  ASSUME NEW n \in Nat, NEW d \in Nat \ {0}
  PROVE  n % d \in 0..(d - 1)
OBVIOUS

LEMMA ModBelow ==
  ASSUME NEW n \in Nat, NEW d \in Nat \ {0}, n < d
  PROVE  n % d = n
OBVIOUS

LEMMA ModAtMost ==
  ASSUME NEW n \in Nat, NEW d \in Nat \ {0}
  PROVE  n % d <= n
<1>1. CASE n < d
  BY <1>1, ModBelow
<1>2. CASE n >= d
  BY <1>2, ModBasics
<1> QED BY <1>1, <1>2

LEMMA ModWraps ==
  ASSUME NEW n \in Nat, NEW d \in Nat \ {0}, d <= n, n < 2 * d
  PROVE  n % d = n - d
OBVIOUS

(* A segment of l bytes from q on, of which the p from the f-th on are new *)
(* to who awaits a.                                                        *)
LEMMA NewPart ==
  ASSUME NEW a \in Nat, NEW q \in Nat, NEW l \in Nat, NEW f \in Nat, NEW p \in Nat,
         f = a - q + 1, p = l - f + 1
  PROVE  /\ a + p = q + l
         /\ \A j \in Nat : q + (f + j - 1) - 1 = a + j - 1
OBVIOUS

LEMMA DataProperties ==
  ASSUME NEW d \in Data
  PROVE  /\ Len(d) \in Nat /\ DOMAIN d = 1..Len(d)
         /\ \A k \in 1..Len(d) : d[k] \in Nat \cup {Junk}
BY LenProperties, ElementOfSeq DEF Data

LEMMA Ranges ==
  ASSUME Inv
  PROVE  /\ SeqMod \in Nat \ {0} /\ TickMod \in Nat \ {0}
         /\ Resend \in Nat /\ WindowSize \in Nat
         /\ last_acked_byte \in 0..(SeqMod - 1) /\ last_acked_byte \in Nat
         /\ first \in 1..(SeqMod - 1) /\ written \in Nat
         /\ tick \in 0..(TickMod - 1) /\ min_tick \in 0..(TickMod - 1)
         /\ data_remainder \in Nat
         /\ got \in Data /\ Len(got) \in Nat /\ DOMAIN got = 1..Len(got)
         /\ Awaited = first + Len(got) /\ Awaited \in Nat
         /\ last_acked_byte <= Awaited
<1>1. TypeOK /\ got \in Data /\ last_acked_byte <= Awaited
  BY DEF Inv, NetworkOK
<1>2. /\ last_acked_byte \in 0..(SeqMod - 1) /\ first \in Starts /\ written \in 0..N
      /\ tick \in 0..(TickMod - 1) /\ min_tick \in 0..(TickMod - 1)
      /\ data_remainder \in Nat
  BY <1>1 DEF TypeOK
<1>3. /\ SeqMod \in Nat \ {0} /\ Starts \subseteq 1..(SeqMod - 1) /\ N \in Nat
      /\ TickMod \in Nat \ {0} /\ Resend \in Nat /\ WindowSize \in Nat
  BY StreamAssumption, TimeAssumption, QueueAssumption
<1>4. Len(got) \in Nat /\ DOMAIN got = 1..Len(got)
  BY <1>1, DataProperties
<1> QED BY <1>1, <1>2, <1>3, <1>4 DEF Awaited

LEMMA BytesAreData ==
  ASSUME NEW n \in Nat, NEW d \in [1..n -> Nat \cup {Junk}]
  PROVE  d \in Data /\ Len(d) = n
<1>1. d \in Seq(Nat \cup {Junk})
  OBVIOUS
<1> QED BY <1>1, LenProperties DEF Data

(* A part of a segment's data.                                             *)
LEMMA PartOfData ==
  ASSUME NEW d \in Data, NEW m \in Nat \ {0}, NEW n \in 0..Len(d)
  PROVE  /\ SubSeq(d, m, n) \in Data
         /\ Len(SubSeq(d, m, n)) = IF m <= n THEN n - m + 1 ELSE 0
         /\ \A k \in 1..Len(SubSeq(d, m, n)) : SubSeq(d, m, n)[k] = d[m + k - 1]
<1> DEFINE S == Nat \cup {Junk}
<1>1. Len(d) \in Nat /\ \A k \in m..n : d[k] \in S
  BY DataProperties
<1>2. m \in Int /\ n \in Int
  BY <1>1
<1>3. /\ SubSeq(d, m, n) \in Seq(S)
      /\ Len(SubSeq(d, m, n)) = IF m <= n THEN n - m + 1 ELSE 0
      /\ \A k \in 1..(n - m + 1) : SubSeq(d, m, n)[k] = d[m + k - 1]
  BY <1>1, <1>2, SubSeqProperties
<1>4. 1..Len(SubSeq(d, m, n)) \subseteq 1..(n - m + 1)
  BY <1>2, <1>3
<1> QED BY <1>3, <1>4 DEF Data

LEMMA ConcatData ==
  ASSUME NEW c \in Data, NEW d \in Data
  PROVE  /\ c \o d \in Data /\ Len(c \o d) = Len(c) + Len(d)
         /\ \A k \in 1..(Len(c) + Len(d)) :
              (c \o d)[k] = IF k <= Len(c) THEN c[k] ELSE d[k - Len(c)]
BY ConcatProperties DEF Data

(* What is placed into the queue changes no entry that is taken.           *)
LEMMA PlacedOK ==
  ASSUME QueueOK, NEW seg \in Segments
  PROVE  LET queue == Placed(segment_queue, seg)
         IN /\ DOMAIN queue = Slots
            /\ \A s \in Slots :
                 \/ queue[s] = segment_queue[s]
                 \/ segment_queue[s] = NoSegment /\ queue[s] = Entry(seg.seqno, seg.data, 0)
            /\ Entry(seg.seqno, seg.data, 0) \in Entries
<1>1. 0 \in 0..(TickMod - 1)
  BY TimeAssumption
<1>2. Entry(seg.seqno, seg.data, 0) \in Entries
  BY <1>1 DEF Entry, Entries, Segments
<1> QED BY <1>2 DEF Placed, FreeSlots

LEMMA EntryIsNoNull == ASSUME NEW e \in Entries PROVE e # NoSegment
<1>1. e \in [seqno : Nat, data : Data, tick : Nat]
  BY TimeAssumption, StreamAssumption DEF Entries
<1> QED BY <1>1, NullAssumption

-----------------------------------------------------------------------------
LEMMA InitInv == Init => Inv
<1> SUFFICES ASSUME Init PROVE Inv
  OBVIOUS
<1> USE QueueAssumption, TimeAssumption, StreamAssumption DEF Init
<1>1. TypeOK
  BY DEF TypeOK, Never
<1>2. QueueOK
  BY DEF QueueOK, Queued
<1>3. got \in Data /\ Len(got) = 0 /\ DOMAIN got = {}
  <2>1. got \in Data /\ Len(got) = 0
    BY EmptySeq DEF Data
  <2> QED BY <2>1, DataProperties
<1>4. Awaited = first /\ first \in 1..(SeqMod - 1)
  BY <1>3 DEF Awaited
<1>5. NetworkOK
  BY <1>3, <1>4 DEF NetworkOK
<1>6. InsideWindow
  BY <1>1 DEF InsideWindow
<1>7. BelowOK
  BY <1>4 DEF BelowOK, Queued
<1>8. StreamOK
  BY <1>3, <1>4 DEF StreamOK, InPlace, Queued, Segment
<1> QED BY <1>1, <1>2, <1>5, <1>6, <1>7, <1>8 DEF Inv

LEMMA BuildKeeps == ASSUME Inv, NEW n \in Sizes, Build(n) PROVE Inv'
<1> DEFINE new == [k \in 1..n |-> first + written + k - 1]
<1> USE DEF Inv, sender, peer
<1>1. /\ segment' = Segment(last_acked_byte, new)
      /\ written + n <= N /\ written' = written + n
      /\ defects' = defects \cup Wrapped(segment')
                     \cup IF last_acked_byte = (first + written) % SeqMod THEN {}
                          ELSE {"renumbered"}
      /\ UNCHANGED <<segment_queue, last_acked_byte, tick, first, sender, peer>>
  BY DEF Build, SequenceNumber
<1>2. /\ n \in Nat \ {0} /\ N \in Nat /\ written \in Nat /\ SeqMod \in Nat \ {0}
      /\ last_acked_byte \in 0..(SeqMod - 1) /\ first \in 1..(SeqMod - 1)
  BY StreamAssumption, Ranges
<1>3. new \in Data /\ Len(new) = n
  <2>1. new \in [1..n -> Nat \cup {Junk}]
    BY <1>2
  <2> QED BY <1>2, <2>1, BytesAreData
<1> HIDE DEF new
<1>4. TypeOK'
  <2>1. defects' \subseteq defects \cup {"wrapped", "renumbered"}
    BY <1>1 DEF Wrapped
  <2>2. written' \in 0..N
    BY <1>1, <1>2
  <2> QED BY <1>1, <2>1, <2>2 DEF TypeOK
<1>5. QueueOK'
  BY <1>1 DEF QueueOK, Queued
<1>6. NetworkOK'
  BY <1>1, <1>2, <1>3 DEF NetworkOK, Segment, Segments, Awaited
<1>7. segment'.seqno = last_acked_byte /\ segment'.data = new
  BY <1>1 DEF Segment
<1>8. InsideWindow'
  BY <1>1, <1>4 DEF InsideWindow, Awaited
<1>9. ASSUME Unwrapped' PROVE BelowOK' /\ Below(segment')
  <2>1. Unwrapped /\ "wrapped" \notin Wrapped(segment')
    BY <1>1, <1>9 DEF Unwrapped
  <2>2. Below(segment')
    BY <1>2, <1>3, <1>7, <2>1 DEF Below, Wrapped
  <2> QED BY <1>1, <2>1, <2>2 DEF BelowOK, Queued, Below, Awaited
<1>10. ASSUME Unspoiled' PROVE StreamOK'
  <2>1. Unspoiled /\ Unwrapped' /\ last_acked_byte = (first + written) % SeqMod
    BY <1>1, <1>10 DEF Unspoiled, Unwrapped
  <2>2. last_acked_byte = first + written
    <3> DEFINE next == first + written
    <3>1. next \in Nat /\ next < SeqMod
      BY <1>2, <2>1 DEF StreamOK
    <3> HIDE DEF next
    <3>2. next % SeqMod = next
      BY <1>2, <3>1, ModBelow
    <3> QED BY <2>1, <3>2 DEF next
  <2>3. InPlace(segment') /\ segment'.seqno >= first
    <3>1. \A k \in DOMAIN new : new[k] = last_acked_byte + k - 1
      BY <1>2, <2>2 DEF new
    <3> QED BY <1>2, <1>7, <2>2, <3>1 DEF InPlace
  <2>4. first + written' < SeqMod
    <3>1. last_acked_byte + n < SeqMod
      BY <1>3, <1>7, <1>9, <2>1 DEF Below
    <3> QED BY <1>1, <1>2, <2>2, <3>1
  <2> QED BY <1>1, <2>1, <2>3, <2>4 DEF StreamOK, Queued, InPlace, Segment
<1> QED BY <1>4, <1>5, <1>6, <1>8, <1>9, <1>10

LEMMA EnqueueKeeps == ASSUME Inv, Enqueue PROVE Inv'
<1> USE DEF Inv, sender, peer
<1>1. /\ segment # NoSegment /\ segment' = NoSegment
      /\ segment_queue' = Placed(segment_queue, segment)
      /\ pc' \in {pc, "top"}
      /\ \E new \in SUBSET {"dropped", "overslept", "tick wrapped"} :
           defects' = defects \cup new
      /\ UNCHANGED <<last_acked_byte, tick, first, written, i, data_remainder,
                     min_tick, peer>>
  <2>1. CASE defects' = defects \cup {"dropped"}
    BY <2>1 DEF Enqueue, Woken
  <2>2. CASE defects' = (defects
             \cup (IF pc = "unlocked" /\ min_tick = Never THEN {"overslept"} ELSE {}))
             \cup (IF tick = 0 THEN {"tick wrapped"} ELSE {})
    <3>1. (IF pc = "unlocked" /\ min_tick = Never THEN {"overslept"} ELSE {})
            \cup (IF tick = 0 THEN {"tick wrapped"} ELSE {})
            \in SUBSET {"dropped", "overslept", "tick wrapped"}
      OBVIOUS
    <3> QED BY <2>2, <3>1 DEF Enqueue, Woken
  <2> QED BY <2>1, <2>2 DEF Enqueue
<1>2. segment \in Segments
  BY <1>1 DEF NetworkOK
<1> DEFINE new == Entry(segment.seqno, segment.data, 0)
<1>3. /\ DOMAIN segment_queue' = Slots
      /\ \A s \in Slots : \/ segment_queue'[s] = segment_queue[s]
                          \/ segment_queue[s] = NoSegment /\ segment_queue'[s] = new
      /\ new \in Entries
  BY <1>1, <1>2, PlacedOK
<1>4. QueueOK'
  BY <1>3 DEF QueueOK, Queued
<1>5. TypeOK'
  BY <1>1, <1>4 DEF TypeOK, QueueOK, Queued, Entries
<1>6. NetworkOK'
  BY <1>1 DEF NetworkOK, Awaited
<1>7. (Unwrapped' <=> Unwrapped) /\ (Unspoiled' <=> Unspoiled)
  BY <1>1 DEF Unwrapped, Unspoiled
<1>8. InsideWindow'
  BY <1>1, <1>5, <1>7 DEF InsideWindow, Awaited, Unwrapped
<1>9. ASSUME Unwrapped' PROVE BelowOK'
  <2>1. BelowOK /\ Below(new)
    BY <1>1, <1>7, <1>9 DEF BelowOK, Below, Entry
  <2> QED BY <1>1, <1>3, <2>1 DEF BelowOK, Queued, Below, Awaited
<1>10. ASSUME Unspoiled' PROVE StreamOK'
  <2>1. StreamOK /\ InPlace(new) /\ new.seqno >= first
    BY <1>1, <1>7, <1>10 DEF StreamOK, InPlace, Entry
  <2> HIDE DEF new
  <2>2. \A s \in Slots : segment_queue'[s] # NoSegment =>
          segment_queue'[s].seqno >= first /\ InPlace(segment_queue'[s])
    BY <1>3, <2>1 DEF StreamOK, Queued
  <2>3. (\A s \in Queued : segment_queue[s].seqno >= first /\ InPlace(segment_queue[s]))'
    BY <1>1, <2>2 DEF Queued, InPlace
  <2> QED BY <1>1, <2>1, <2>3 DEF StreamOK, InPlace, Segment
<1> QED BY <1>4, <1>5, <1>6, <1>8, <1>9, <1>10

-----------------------------------------------------------------------------
(* tcp_sender_task.                                                        *)

(* Steps that change neither the queue nor anything outside the task.      *)
LEMMA LocalKeeps ==
  ASSUME Inv, ScanBegin \/ Skip \/ ScanEnd \/ SleepUntil
  PROVE  Inv'
<1> USE DEF Inv, boot, peer
<1>1. /\ pc' \in {"top", "scan", "unlocked", "asleep"}
      /\ i' \in 1..(MaxQueue + 1)
      /\ min_tick' \in {min_tick, Never}
      /\ UNCHANGED <<segment_queue, last_acked_byte, tick, boot, data_remainder,
                     peer, defects>>
  <2>1. MaxQueue \in Nat \ {0} /\ i \in 1..(MaxQueue + 1)
    BY QueueAssumption DEF TypeOK
  <2>2. CASE ScanBegin
    BY <2>1, <2>2 DEF ScanBegin
  <2>3. CASE Skip
    BY <2>1, <2>3 DEF Skip, Scanning, Slots
  <2>4. CASE ScanEnd \/ SleepUntil
    BY <2>1, <2>4 DEF ScanEnd, SleepUntil
  <2> QED BY <2>2, <2>3, <2>4
<1>2. TypeOK'
  <2>1. min_tick' \in 0..(TickMod - 1)
    BY <1>1, Ranges DEF Never
  <2> QED BY <1>1, <2>1 DEF TypeOK
<1>3. QueueOK' /\ NetworkOK'
  BY <1>1 DEF QueueOK, Queued, NetworkOK, Awaited
<1>4. InsideWindow'
  BY <1>1, <1>2 DEF InsideWindow, Awaited
<1>5. ASSUME Unwrapped' PROVE BelowOK'
  BY <1>1, <1>5 DEF BelowOK, Queued, Below, Unwrapped, Awaited
<1>6. ASSUME Unspoiled' PROVE StreamOK'
  BY <1>1, <1>6 DEF StreamOK, Queued, InPlace, Segment, Unspoiled
<1> QED BY <1>2, <1>3, <1>4, <1>5, <1>6

LEMMA FreeEntryKeeps == ASSUME Inv, FreeEntry PROVE Inv'
<1> USE QueueAssumption DEF Inv, boot, peer
<1>1. /\ i \in Slots
      /\ segment_queue' = [segment_queue EXCEPT ![i] = NoSegment]
      /\ i' = i + 1
      /\ UNCHANGED <<last_acked_byte, tick, boot, pc, data_remainder, min_tick,
                     peer, defects>>
  BY DEF FreeEntry, Due, Scanning
<1>2. QueueOK'
  BY <1>1 DEF QueueOK, Queued
<1>3. TypeOK'
  <2>1. i' \in 1..(MaxQueue + 1)
    BY <1>1 DEF Slots
  <2> QED BY <1>1, <1>2, <2>1 DEF TypeOK, QueueOK, Queued, Entries
<1>4. NetworkOK'
  BY <1>1 DEF NetworkOK, Awaited
<1>5. InsideWindow'
  BY <1>1, <1>3 DEF InsideWindow, Awaited
<1>6. \A s \in Queued' : s \in Queued /\ segment_queue'[s] = segment_queue[s]
  BY <1>1 DEF QueueOK, Queued
<1>7. ASSUME Unwrapped' PROVE BelowOK'
  BY <1>1, <1>6, <1>7 DEF BelowOK, Below, Unwrapped, Awaited
<1>8. ASSUME Unspoiled' PROVE StreamOK'
  BY <1>1, <1>6, <1>8 DEF StreamOK, InPlace, Segment, Unspoiled
<1> QED BY <1>2, <1>3, <1>4, <1>5, <1>7, <1>8

(* The entry the task looks at, and what does not fit into the window.     *)
LEMMA DueEntry ==
  ASSUME Inv, Due
  PROVE  LET e == segment_queue[i]
         IN /\ i \in Slots /\ i \in Queued
            /\ e \in Entries
            /\ End(e) \in 0..(SeqMod - 1)
            /\ LastPossibleByte \in 0..(SeqMod - 1)
            /\ LastPossibleByte <= last_acked_byte + WindowSize
            /\ Remainder(e) \in Nat
            /\ RemainderSegment(e) \in Segments
<1> DEFINE e == segment_queue[i]
           r == RemainderSegment(e)
<1> USE DEF Inv
<1>1. i \in Slots /\ i \in Queued
  BY DEF Due, Scanning, Queued
<1>2. e \in Entries
  BY <1>1 DEF QueueOK
<1>3. /\ SeqMod \in Nat \ {0} /\ last_acked_byte \in Nat /\ data_remainder \in Nat
      /\ WindowSize \in Nat
  BY Ranges
<1> HIDE DEF e, Inv
<1>4. /\ LastPossibleByte \in 0..(SeqMod - 1)
      /\ LastPossibleByte <= last_acked_byte + WindowSize
  <2> DEFINE n == last_acked_byte + WindowSize
  <2>1. n \in Nat
    BY <1>3
  <2> HIDE DEF n
  <2>2. n % SeqMod \in 0..(SeqMod - 1) /\ n % SeqMod <= n
    BY <1>3, <2>1, ModBasics, ModAtMost
  <2> QED BY <2>2 DEF n, LastPossibleByte
<1>5. e.seqno \in Nat /\ e.data \in Data /\ Len(e.data) \in Nat
  BY <1>2, <1>3, DataProperties DEF Entries
<1>6. End(e) \in 0..(SeqMod - 1)
  <2> DEFINE n == e.seqno + Len(e.data)
  <2>1. n \in Nat
    BY <1>5
  <2> HIDE DEF n
  <2>2. n % SeqMod \in 0..(SeqMod - 1)
    BY <1>3, <2>1, ModBasics
  <2> QED BY <2>2 DEF n, End
<1>7. Remainder(e) \in Nat
  BY <1>3, <1>4, <1>6 DEF Remainder
<1>8. RemainderSegment(e) \in Segments
  <2> DEFINE d == [k \in 1..Remainder(e) |->
                     IF LastPossibleByte + k <= Len(e.data)
                     THEN e.data[LastPossibleByte + k] ELSE Junk]
             n == e.seqno + LastPossibleByte
  <2>1. ASSUME NEW k \in 1..Remainder(e), LastPossibleByte + k <= Len(e.data)
        PROVE  e.data[LastPossibleByte + k] \in Nat \cup {Junk}
    <3>1. LastPossibleByte + k \in 1..Len(e.data)
      BY <1>3, <1>4, <1>5, <1>7, <2>1
    <3> QED BY <1>5, <3>1, DataProperties
  <2>2. d \in [1..Remainder(e) -> Nat \cup {Junk}]
    BY <2>1
  <2>3. d \in Data
    BY <1>7, <2>2, BytesAreData
  <2>4. n \in Nat
    BY <1>3, <1>4, <1>5
  <2>5. RemainderSegment(e) = Segment(n % SeqMod, d)
    BY DEF RemainderSegment
  <2> HIDE DEF n, d
  <2>6. n % SeqMod \in 0..(SeqMod - 1)
    BY <1>3, <2>4, ModBasics
  <2> QED BY <2>3, <2>5, <2>6 DEF Segment, Segments
<1> QED BY <1>1, <1>2, <1>4, <1>6, <1>7, <1>8 DEF e

(* The split is placed into a free entry, which is not the one that is     *)
(* being sent.                                                             *)
LEMMA SplitOK ==
  ASSUME Inv, Due
  PROVE  LET e == segment_queue[i]
             r == RemainderSegment(e)
         IN /\ DOMAIN Split(e) = Slots
            /\ \A s \in Slots :
                 \/ Split(e)[s] = segment_queue[s]
                 \/ segment_queue[s] = NoSegment /\ Split(e)[s] = Entry(r.seqno, r.data, 0)
            /\ Entry(r.seqno, r.data, 0) \in Entries
            /\ Remainder(e) = 0 => Split(e) = segment_queue
<1> DEFINE e == segment_queue[i]
           r == RemainderSegment(e)
<1>1. r \in Segments /\ Remainder(e) \in Nat
  BY DueEntry
<1>2. QueueOK
  BY DEF Inv
<1> HIDE DEF r, e
<1>3. /\ DOMAIN Split(e) = Slots
      /\ \A s \in Slots :
           \/ Split(e)[s] = segment_queue[s]
           \/ segment_queue[s] = NoSegment /\ Split(e)[s] = Entry(r.seqno, r.data, 0)
      /\ Entry(r.seqno, r.data, 0) \in Entries
      /\ Remainder(e) = 0 => Split(e) = segment_queue
  <2>1. CASE Remainder(e) > 0
    <3>1. Split(e) = Placed(segment_queue, r)
      BY <2>1 DEF Split, r
    <3> QED BY <1>1, <1>2, <2>1, <3>1, PlacedOK
  <2>2. CASE Remainder(e) = 0
    <3>1. Split(e) = segment_queue
      BY <2>2 DEF Split
    <3>2. Entry(r.seqno, r.data, 0) \in Entries
      BY <1>1, <1>2, PlacedOK
    <3> QED BY <1>2, <3>1, <3>2 DEF QueueOK
  <2> QED BY <1>1, <2>1, <2>2
<1> QED BY <1>3 DEF r, e

(* What a split adds to the history.                                       *)
LEMMA SplitIsTold ==
  ASSUME NEW e, Remainder(e) \in Nat
  PROVE  /\ SplitDefects(e) \subseteq {"split", "wrapped"}
         /\ "split" \in SplitDefects(e) <=> Remainder(e) # 0
         /\ \/ Remainder(e) = 0
            \/ "wrapped" \in SplitDefects(e)
            \/ ~(RemainderSegment(e).seqno + Len(RemainderSegment(e).data) >= SeqMod)
BY DEF SplitDefects, Wrapped

LEMMA DueTimeIsTick == ASSUME Inv PROVE DueTime \in 0..(TickMod - 1)
<1> DEFINE n == Resend + tick
<1>1. n \in Nat /\ TickMod \in Nat \ {0}
  BY Ranges
<1> HIDE DEF n
<1>2. n % TickMod \in 0..(TickMod - 1)
  BY <1>1, ModBasics
<1> QED BY <1>2 DEF n, DueTime

LEMMA SendEntryKeeps == ASSUME Inv, SendEntry PROVE Inv'
<1> DEFINE e == segment_queue[i]
           rest == Remainder(e)
           to_send == SubSeq(e.data, 1, Len(e.data) - rest)
           more == RemainderSegment(e)
           new == Entry(more.seqno, more.data, 0)
           entry == Entry(e.seqno, to_send, DueTime)
           sent == Segment(e.seqno, to_send)
<1> USE DEF Inv, boot
<1>1. /\ Due /\ rest <= Len(e.data)
      /\ data_remainder' = rest
      /\ segment_queue' = [Split(e) EXCEPT ![i] = entry]
      /\ flight' = flight \cup {sent}
      /\ min_tick' \in {DueTime, min_tick} /\ i' = i + 1
      /\ defects' = defects \cup SplitDefects(e)
      /\ UNCHANGED <<last_acked_byte, tick, boot, pc, acks, got>>
  BY DEF SendEntry
<1>2. /\ i \in Slots /\ i \in Queued
      /\ e \in Entries
      /\ End(e) \in 0..(SeqMod - 1)
      /\ LastPossibleByte \in 0..(SeqMod - 1)
      /\ LastPossibleByte <= last_acked_byte + WindowSize
      /\ rest \in Nat
      /\ more \in Segments
  BY <1>1, DueEntry
<1>3. /\ DOMAIN Split(e) = Slots
      /\ \A s \in Slots : \/ Split(e)[s] = segment_queue[s]
                          \/ segment_queue[s] = NoSegment /\ Split(e)[s] = new
      /\ new \in Entries
      /\ rest = 0 => Split(e) = segment_queue
  BY <1>1, SplitOK
<1>4. /\ rest = IF End(e) > LastPossibleByte THEN End(e) - LastPossibleByte
               ELSE data_remainder
      /\ data_remainder \in Nat /\ SeqMod \in Nat \ {0}
  BY Ranges DEF Remainder
<1>5. /\ e.seqno \in 0..(SeqMod - 1) /\ e.data \in Data
      /\ Len(e.data) \in Nat /\ Len(e.data) - rest \in 0..Len(e.data)
  BY <1>1, <1>2, DataProperties DEF Entries
<1>6. /\ SplitDefects(e) \subseteq {"split", "wrapped"}
      /\ "split" \in SplitDefects(e) <=> rest # 0
      /\ rest = 0 \/ "wrapped" \in SplitDefects(e) \/ ~(more.seqno + Len(more.data) >= SeqMod)
  BY <1>2, SplitIsTold
<1> HIDE DEF rest, more
<1>7. to_send \in Data /\ Len(to_send) = Len(e.data) - rest
      /\ \A k \in 1..Len(to_send) : to_send[k] = e.data[k]
  <2>1. /\ to_send \in Data
        /\ Len(to_send) = IF 1 <= Len(e.data) - rest THEN (Len(e.data) - rest) - 1 + 1 ELSE 0
        /\ \A k \in 1..Len(to_send) : to_send[k] = e.data[1 + k - 1]
    BY <1>5, PartOfData
  <2>2. \A k \in 1..Len(to_send) : 1 + k - 1 = k
    BY <2>1, DataProperties
  <2> QED BY <1>5, <2>1, <2>2
<1> HIDE DEF e, to_send, new
<1>8. entry \in Entries
  BY <1>5, <1>7, DueTimeIsTick DEF Entry, Entries
<1>9. sent \in Segments
  BY <1>5, <1>7 DEF Segment, Segments
<1>10. segment_queue'[i] = entry /\ DOMAIN segment_queue' = Slots
       /\ \A s \in Slots \ {i} : segment_queue'[s] = Split(e)[s]
  BY <1>1, <1>2, <1>3
<1>11. sent.seqno = e.seqno /\ sent.data = to_send
       /\ entry.seqno = e.seqno /\ entry.data = to_send
       /\ new.seqno = more.seqno /\ new.data = more.data
  BY DEF sent, entry, new, Segment, Entry
<1> HIDE DEF entry, sent
<1>12. QueueOK'
  BY <1>3, <1>8, <1>10 DEF QueueOK, Queued
<1>13. TypeOK'
  <2>1. i' \in 1..(MaxQueue + 1)
    BY <1>1, <1>2, QueueAssumption DEF Slots
  <2>2. min_tick' \in 0..(TickMod - 1)
    BY <1>1, DueTimeIsTick DEF TypeOK
  <2>3. defects' \subseteq {"renumbered", "dropped", "overslept", "split", "wrapped",
                           "tick wrapped"}
    BY <1>1, <1>6 DEF TypeOK
  <2> QED BY <1>1, <1>2, <1>12, <2>1, <2>2, <2>3 DEF TypeOK, QueueOK, Queued, Entries
<1>14. NetworkOK'
  BY <1>1, <1>9 DEF NetworkOK, Awaited
(* An entry whose end has not wrapped is cut at the window's end, wherever *)
(* that is.                                                                *)
<1>15. ASSUME Unwrapped' PROVE /\ Unwrapped /\ BelowOK
                               /\ Below(e) /\ End(e) = e.seqno + Len(e.data)
                               /\ rest = 0 \/ Below(more)
  <2>1. Unwrapped /\ BelowOK /\ (rest = 0 \/ Below(more))
    <3>1. Unwrapped /\ (rest = 0 \/ ~(more.seqno + Len(more.data) >= SeqMod))
      BY <1>1, <1>6, <1>15 DEF Unwrapped
    <3>2. more.seqno \in Nat /\ Len(more.data) \in Nat
      BY <1>2, DataProperties, StreamAssumption DEF Segments
    <3> QED BY <1>4, <3>1, <3>2 DEF Below
  <2>2. Below(e)
    BY <1>2, <2>1 DEF BelowOK, e
  <2> DEFINE n == e.seqno + Len(e.data)
  <2>3. n \in Nat /\ n < SeqMod
    BY <1>5, <2>2 DEF Below
  <2> HIDE DEF n
  <2>4. n % SeqMod = n
    BY <1>4, <2>3, ModBelow
  <2> QED BY <2>1, <2>2, <2>4 DEF n, End
<1>16. InsideWindow'
  <2> SUFFICES ASSUME Unwrapped', NEW seg \in flight'
               PROVE  seg.seqno + Len(seg.data) <= Awaited' + WindowSize
    BY <1>13 DEF InsideWindow, Unwrapped
  <2>1. CASE seg \in flight
    BY <1>1, <1>15, <2>1 DEF InsideWindow, Unwrapped, Awaited
  <2>2. CASE seg = sent
    <3>1. sent.seqno + Len(sent.data) = e.seqno + (Len(e.data) - rest)
      BY <1>7, <1>11
    <3>2. e.seqno + (Len(e.data) - rest) <= LastPossibleByte
      BY <1>2, <1>4, <1>5, <1>15
    <3>3. LastPossibleByte <= Awaited + WindowSize
      <4>1. /\ last_acked_byte \in Nat /\ last_acked_byte <= Awaited /\ Awaited \in Nat
            /\ WindowSize \in Nat
        BY Ranges
      <4>2. LastPossibleByte \in Int /\ LastPossibleByte <= last_acked_byte + WindowSize
        BY <1>2, <1>4
      <4> HIDE DEF Inv
      <4> QED BY <4>1, <4>2
    <3>4. Awaited' = Awaited /\ Awaited \in Nat /\ WindowSize \in Nat
      BY <1>1, Ranges DEF Awaited
    <3> QED BY <1>2, <1>5, <2>2, <3>1, <3>2, <3>3, <3>4
  <2> QED BY <1>1, <2>1, <2>2
<1>17. ASSUME Unwrapped' PROVE BelowOK'
  <2>1. Below(sent) /\ Below(entry)
    <3>1. Below(e) /\ Len(to_send) <= Len(e.data) /\ Len(to_send) \in Nat
      BY <1>5, <1>7, <1>15, <1>17
    <3> QED BY <1>4, <1>5, <1>11, <3>1 DEF Below
  <2>2. \A s \in Queued' : Below(segment_queue'[s])
    <3> SUFFICES ASSUME NEW s \in Slots, segment_queue'[s] # NoSegment
                 PROVE  Below(segment_queue'[s])
      BY DEF Queued
    <3>1. CASE s = i
      BY <1>10, <2>1, <3>1
    <3>2. CASE s # i /\ segment_queue'[s] = segment_queue[s]
      BY <1>15, <1>17, <3>2 DEF BelowOK, Queued
    <3>3. CASE s # i /\ segment_queue'[s] # segment_queue[s]
      <4>1. segment_queue'[s] = new /\ rest # 0
        BY <1>3, <1>10, <3>3
      <4> QED BY <1>11, <1>15, <1>17, <4>1 DEF Below
    <3> QED BY <3>1, <3>2, <3>3
  <2> QED BY <1>1, <1>15, <1>17, <2>1, <2>2 DEF BelowOK, Below, Awaited
<1>18. ASSUME Unspoiled' PROVE StreamOK'
  <2>1. Unspoiled /\ rest = 0
    BY <1>1, <1>6, <1>18 DEF Unspoiled
  <2>2. InPlace(e) /\ e.seqno >= first /\ StreamOK
    BY <1>2, <2>1 DEF StreamOK, e
  <2>3. InPlace(sent) /\ InPlace(entry)
    <3>1. DOMAIN to_send = 1..Len(to_send) /\ DOMAIN e.data = 1..Len(e.data)
      BY <1>5, <1>7, DataProperties
    <3>2. DOMAIN to_send = DOMAIN e.data
      BY <1>5, <1>7, <2>1, <3>1
    <3>3. \A k \in DOMAIN to_send : to_send[k] = e.seqno + k - 1
      BY <1>7, <2>2, <3>1, <3>2 DEF InPlace
    <3> QED BY <1>11, <3>3 DEF InPlace
  <2>4. \A s \in Slots \ {i} : segment_queue'[s] = segment_queue[s]
    BY <1>3, <1>10, <2>1
  <2>5. \A s \in Slots : segment_queue'[s] # NoSegment =>
          segment_queue'[s].seqno >= first /\ InPlace(segment_queue'[s])
    BY <1>10, <1>11, <2>2, <2>3, <2>4 DEF StreamOK, Queued
  <2>6. (\A s \in Queued : segment_queue[s].seqno >= first /\ InPlace(segment_queue[s]))'
    BY <1>1, <2>5 DEF Queued, InPlace
  <2>7. (\A seg \in flight : InPlace(seg))'
    BY <1>1, <2>2, <2>3 DEF StreamOK, InPlace
  <2> QED BY <1>1, <2>2, <2>6, <2>7 DEF StreamOK, InPlace, Segment
<1> QED BY <1>12, <1>13, <1>14, <1>16, <1>17, <1>18

(* The entry that is sent stays.                                           *)
LEMMA SentEntryIsNoNull == ASSUME Inv, SendEntry PROVE segment_queue'[i] # NoSegment
<1> DEFINE e == segment_queue[i]
           n == Len(e.data) - Remainder(e)
<1>1. /\ Due /\ Remainder(e) <= Len(e.data)
      /\ segment_queue' =
           [Split(e) EXCEPT ![i] = Entry(e.seqno, SubSeq(e.data, 1, n), DueTime)]
  BY DEF SendEntry
<1>2. /\ i \in Slots /\ DOMAIN Split(e) = Slots /\ Remainder(e) \in Nat
      /\ e \in Entries
  BY <1>1, DueEntry, SplitOK
<1> HIDE DEF e
<1>3. n \in 0..Len(e.data) /\ e.data \in Data
  BY <1>1, <1>2, DataProperties DEF Entries
<1>4. SubSeq(e.data, 1, n) \in Data
  BY <1>3, PartOfData
<1>5. segment_queue'[i] = Entry(e.seqno, SubSeq(e.data, 1, n), DueTime)
  BY <1>1, <1>2
<1>6. segment_queue'[i] \in Entries
  BY <1>2, <1>4, <1>5, DueTimeIsTick DEF Entry, Entries
<1> QED BY <1>6, EntryIsNoNull

LEMMA CrashKeeps == ASSUME Inv, Crash PROVE Inv'
<1> DEFINE e == segment_queue[i]
           more == RemainderSegment(e)
           new == Entry(more.seqno, more.data, 0)
<1> USE QueueAssumption DEF Inv, boot, peer
<1>1. /\ Due /\ data_remainder' = Remainder(e) /\ Remainder(e) > Len(e.data)
      /\ segment_queue' = Split(e)
      /\ pc' = "crashed"
      /\ defects' = defects \cup SplitDefects(e)
      /\ UNCHANGED <<last_acked_byte, tick, boot, i, min_tick, peer>>
  BY DEF Crash
<1>2. Remainder(e) \in Nat /\ e \in Entries /\ more \in Segments
  BY <1>1, DueEntry
<1>3. /\ DOMAIN segment_queue' = Slots
      /\ \A s \in Slots : \/ segment_queue'[s] = segment_queue[s]
                          \/ segment_queue[s] = NoSegment /\ segment_queue'[s] = new
      /\ new \in Entries
  BY <1>1, SplitOK
<1>4. /\ SplitDefects(e) \subseteq {"split", "wrapped"}
      /\ "split" \in SplitDefects(e) <=> Remainder(e) # 0
      /\ \/ Remainder(e) = 0
         \/ "wrapped" \in SplitDefects(e)
         \/ ~(more.seqno + Len(more.data) >= SeqMod)
  BY <1>2, SplitIsTold
<1>5. Remainder(e) # 0
  BY <1>1, <1>2, DataProperties DEF Entries
<1> HIDE DEF e, more
<1>6. new.seqno = more.seqno /\ new.data = more.data
  BY DEF Entry
<1> HIDE DEF new
<1>7. QueueOK'
  BY <1>3 DEF QueueOK, Queued
<1>8. TypeOK'
  <2>1. defects' \subseteq {"renumbered", "dropped", "overslept", "split", "wrapped",
                           "tick wrapped"}
    BY <1>1, <1>4 DEF TypeOK
  <2> QED BY <1>1, <1>2, <1>7, <2>1 DEF TypeOK, QueueOK, Queued, Entries
<1>9. NetworkOK'
  BY <1>1 DEF NetworkOK, Awaited
<1>10. Unwrapped' => Unwrapped
  BY <1>1 DEF Unwrapped
<1>11. InsideWindow'
  BY <1>1, <1>8, <1>10 DEF InsideWindow, Unwrapped, Awaited
<1>12. ASSUME Unwrapped' PROVE BelowOK'
  <2>1. ~(more.seqno + Len(more.data) >= SeqMod)
    BY <1>1, <1>4, <1>5, <1>12 DEF Unwrapped
  <2>2. Below(new)
    <3>1. more.seqno \in Nat /\ Len(more.data) \in Nat /\ SeqMod \in Nat
      BY <1>2, DataProperties, StreamAssumption DEF Segments
    <3> QED BY <1>6, <2>1, <3>1 DEF Below
  <2>3. \A s \in Slots : segment_queue'[s] # NoSegment => Below(segment_queue'[s])
    BY <1>3, <1>10, <1>12, <2>2 DEF BelowOK, Queued
  <2> QED BY <1>1, <1>10, <1>12, <2>3 DEF BelowOK, Queued, Below, Awaited
<1>13. ~Unspoiled'
  BY <1>1, <1>4, <1>5 DEF Unspoiled
<1> QED BY <1>7, <1>8, <1>9, <1>11, <1>12, <1>13

-----------------------------------------------------------------------------
(* Time, acknowledgements and the peer.                                    *)

(* A tick changes no segment.                                              *)
LEMMA TickShape ==
  ASSUME Inv, Tick \/ StretchEnds
  PROVE  /\ tick' \in 0..(TickMod - 1)
         /\ DOMAIN segment_queue' = Slots
         /\ \A s \in Slots \ Queued : segment_queue'[s] = NoSegment
         /\ \A s \in Queued : /\ segment_queue'[s] \in Entries
                             /\ segment_queue'[s].seqno = segment_queue[s].seqno
                             /\ segment_queue'[s].data = segment_queue[s].data
         /\ min_tick' \in 0..(TickMod - 1)
         /\ pc' \in {pc, "top"}
         /\ defects' \in {defects, defects \cup {"tick wrapped"}}
         /\ UNCHANGED <<last_acked_byte, boot, i, data_remainder, peer>>
<1> DEFINE queue == [s \in Slots |->
                      IF segment_queue[s] = NoSegment THEN NoSegment
                      ELSE [segment_queue[s] EXCEPT !.tick = Nearer(@)]]
<1>1. /\ TickMod \in Nat \ {0} /\ Resend \in Nat
      /\ tick \in 0..(TickMod - 1) /\ min_tick \in 0..(TickMod - 1)
      /\ DOMAIN segment_queue = Slots
      /\ \A s \in Queued : segment_queue[s] \in Entries
  BY Ranges DEF Inv, QueueOK
<1>2. \A t \in 0..(TickMod - 1) : Nearer(t) \in 0..(TickMod - 1)
  BY <1>1 DEF Nearer
<1>3. CASE tick = 1 /\ PitCallback(tick, queue, Nearer(min_tick))
  <2>1. segment_queue' = queue /\ min_tick' = Nearer(min_tick) /\ tick' = tick
    BY <1>3 DEF PitCallback
  <2>2. \A s \in Slots \ Queued : segment_queue'[s] = NoSegment
    BY <2>1 DEF Queued
  <2>3. ASSUME NEW s \in Queued
        PROVE  /\ segment_queue'[s] \in Entries
               /\ segment_queue'[s].seqno = segment_queue[s].seqno
               /\ segment_queue'[s].data = segment_queue[s].data
    <3>1. segment_queue'[s] = [segment_queue[s] EXCEPT !.tick = Nearer(@)]
      BY <2>1 DEF Queued
    <3>2. Nearer(segment_queue[s].tick) \in 0..(TickMod - 1)
      BY <1>1, <1>2 DEF Entries
    <3> QED BY <1>1, <3>1, <3>2 DEF Entries
  <2> QED BY <1>1, <1>2, <1>3, <2>1, <2>2, <2>3 DEF PitCallback
<1>4. CASE NextTick
  <2> DEFINE now == (tick + 1) % TickMod
  <2>1. now \in 0..(TickMod - 1)
    <3> DEFINE n == tick + 1
    <3>1. n \in Nat
      BY <1>1
    <3> HIDE DEF n
    <3>2. n % TickMod \in 0..(TickMod - 1)
      BY <1>1, <3>1, ModBasics
    <3> QED BY <3>2 DEF n
  <2>2. PitCallback(now, segment_queue, min_tick)
    BY <1>4 DEF NextTick
  <2> HIDE DEF now
  <2> QED BY <1>1, <2>1, <2>2 DEF PitCallback, Queued
<1> QED BY <1>3, <1>4 DEF Tick, StretchEnds

LEMMA TickKeeps == ASSUME Inv, Tick \/ StretchEnds PROVE Inv'
<1> USE DEF Inv, boot, peer
<1>1. /\ tick' \in 0..(TickMod - 1)
      /\ DOMAIN segment_queue' = Slots
      /\ \A s \in Slots \ Queued : segment_queue'[s] = NoSegment
      /\ \A s \in Queued : /\ segment_queue'[s] \in Entries
                          /\ segment_queue'[s].seqno = segment_queue[s].seqno
                          /\ segment_queue'[s].data = segment_queue[s].data
      /\ min_tick' \in 0..(TickMod - 1)
      /\ pc' \in {pc, "top"}
      /\ defects' \in {defects, defects \cup {"tick wrapped"}}
      /\ UNCHANGED <<last_acked_byte, boot, i, data_remainder, peer>>
  BY TickShape
<1>2. QueueOK'
  BY <1>1 DEF QueueOK, Queued
<1>3. TypeOK'
  BY <1>1, <1>2 DEF TypeOK, QueueOK, Queued, Entries
<1>4. NetworkOK'
  BY <1>1 DEF NetworkOK, Awaited
<1>5. (Unwrapped' <=> Unwrapped) /\ (Unspoiled' <=> Unspoiled)
  BY <1>1 DEF Unwrapped, Unspoiled
<1>6. InsideWindow'
  BY <1>1, <1>3, <1>5 DEF InsideWindow, Awaited, Unwrapped
<1>7. Queued' \subseteq Queued
  BY <1>1 DEF Queued
<1>8. ASSUME Unwrapped' PROVE BelowOK'
  BY <1>1, <1>5, <1>7, <1>8 DEF BelowOK, Below, Awaited
<1>9. ASSUME Unspoiled' PROVE StreamOK'
  <2>1. StreamOK
    BY <1>5, <1>9
  <2>2. ASSUME NEW s \in Queued'
        PROVE  (segment_queue[s].seqno >= first /\ InPlace(segment_queue[s]))'
    <3>1. s \in Queued
      BY <1>7
    <3>2. segment_queue[s].seqno >= first /\ InPlace(segment_queue[s])
      BY <2>1, <3>1 DEF StreamOK
    <3>3. /\ segment_queue'[s].seqno = segment_queue[s].seqno
          /\ segment_queue'[s].data = segment_queue[s].data
          /\ first' = first
      BY <1>1, <3>1
    <3> HIDE DEF Inv
    <3> QED BY <3>2, <3>3 DEF InPlace
  <2>3. /\ first' = first /\ written' = written /\ segment' = segment
        /\ got' = got /\ flight' = flight /\ acks' = acks
        /\ last_acked_byte' = last_acked_byte
    BY <1>1
  <2> HIDE DEF Inv
  <2> QED BY <2>1, <2>2, <2>3 DEF StreamOK, InPlace, Segment
<1> QED BY <1>2, <1>3, <1>4, <1>6, <1>8, <1>9

LEMMA NetworkKeeps ==
  ASSUME Inv, (\E ack \in acks : RecvAck(ack)) \/ (\E seg \in flight : Lose(seg))
  PROVE  Inv'
<1> USE DEF Inv, boot, sender
<1>1. /\ last_acked_byte' \in acks \cup {last_acked_byte}
      /\ acks' \subseteq acks /\ flight' \subseteq flight
      /\ UNCHANGED <<segment_queue, tick, boot, sender, got, defects>>
  BY DEF RecvAck, Lose
<1>2. NetworkOK'
  BY <1>1 DEF NetworkOK, Awaited
<1>3. TypeOK'
  <2>1. last_acked_byte' \in 0..(SeqMod - 1)
    BY <1>1 DEF TypeOK, NetworkOK
  <2> QED BY <1>1, <2>1 DEF TypeOK
<1>4. QueueOK'
  BY <1>1 DEF QueueOK, Queued
<1>5. InsideWindow'
  BY <1>1, <1>3 DEF InsideWindow, Awaited
<1>6. ASSUME Unwrapped' PROVE BelowOK'
  BY <1>1, <1>6 DEF BelowOK, Queued, Below, Unwrapped, Awaited
<1>7. ASSUME Unspoiled' PROVE StreamOK'
  BY <1>1, <1>7 DEF StreamOK, Queued, InPlace, Segment, Unspoiled
<1> QED BY <1>2, <1>3, <1>4, <1>5, <1>6, <1>7

(* What the peer has only grows.  Below the wrap it ends where the segment *)
(* ends, and grows by bytes in their place.                                *)
LEMMA PeerTakes ==
  ASSUME Inv, NEW seg \in flight, PeerReceives(seg)
  PROVE  /\ got' \in Data /\ Len(got') \in Nat /\ Len(got') >= Len(got)
         /\ Awaited' = first + Len(got') /\ Awaited' \in Nat /\ Awaited' >= Awaited
         /\ Below(seg) /\ Awaited < SeqMod
              => /\ Awaited' < SeqMod
                 /\ InPlace(seg) /\ InPlace(Segment(first, got))
                      => InPlace(Segment(first, got'))
<1> DEFINE ahead == SeqMod + Awaited - seg.seqno
           old == ahead % SeqMod
           part == SubSeq(seg.data, old + 1, Len(seg.data))
<1>1. /\ got \in Data /\ Len(got) \in Nat /\ DOMAIN got = 1..Len(got)
      /\ Awaited = first + Len(got) /\ Awaited \in Nat
      /\ first \in 1..(SeqMod - 1) /\ SeqMod \in Nat \ {0}
  BY Ranges
<1>2. /\ seg.seqno \in 0..(SeqMod - 1) /\ seg.data \in Data /\ Len(seg.data) \in Nat
      /\ DOMAIN seg.data = 1..Len(seg.data)
  BY DataProperties DEF Inv, NetworkOK, Segments
<1>3. first' = first
  BY DEF PeerReceives, boot
<1>4. got' = IF old < Len(seg.data) THEN got \o part ELSE got
  BY DEF PeerReceives
<1>5. ahead \in Nat
  BY <1>1, <1>2
<1>6. old \in 0..(SeqMod - 1)
  <2> HIDE DEF ahead
  <2> QED BY <1>1, <1>5, ModBasics
<1>7. ASSUME Below(seg), Awaited < SeqMod, old < Len(seg.data)
      PROVE  old = Awaited - seg.seqno
  <2> HIDE DEF old
  <2>3. Awaited < SeqMod
    BY <1>7
  <2> USE DEF old
  <2>1. CASE seg.seqno <= Awaited
    <3>1. ahead = SeqMod + (Awaited - seg.seqno)
      BY <1>1, <1>2
    <3>2. Awaited - seg.seqno \in 0..(SeqMod - 1)
      <4> HIDE DEF ahead, old, part
      <4> QED BY <1>1, <1>2, <2>1, <2>3
    <3>3. SeqMod <= ahead /\ ahead < SeqMod + SeqMod /\ SeqMod + SeqMod = 2 * SeqMod
      BY <1>1, <3>1, <3>2
    <3>4. old = ahead - SeqMod
      <4> HIDE DEF ahead
      <4> QED BY <1>1, <1>5, <3>3, ModWraps
    <3> QED BY <1>1, <3>1, <3>2, <3>4
  <2>2. CASE seg.seqno > Awaited
    <3>1. ahead < SeqMod
      BY <1>1, <1>2, <2>2
    <3>2. old = ahead
      <4> HIDE DEF ahead
      <4> QED BY <1>1, <1>5, <3>1, ModBelow
    <3>3. seg.seqno + Len(seg.data) < SeqMod
      BY <1>7 DEF Below
    <3> QED BY <1>1, <1>2, <1>7, <3>2, <3>3
  <2> QED BY <1>1, <1>2, <2>1, <2>2
<1> HIDE DEF ahead, old
<1>8. CASE ~(old < Len(seg.data))
  <2>1. got' = got
    BY <1>4, <1>8
  <2> QED BY <1>1, <1>3, <2>1 DEF Awaited
<1>9. CASE old < Len(seg.data)
  <2>1. got' = got \o part
    BY <1>4, <1>9
  <2> DEFINE from == old + 1
  <2>2. from \in Nat \ {0} /\ from <= Len(seg.data) /\ part = SubSeq(seg.data, from, Len(seg.data))
    BY <1>2, <1>6, <1>9
  <2> HIDE DEF from
  <2>3. /\ part \in Data
        /\ Len(part) = Len(seg.data) - from + 1
        /\ \A k \in 1..Len(part) : part[k] = seg.data[from + k - 1]
    <3>1. Len(seg.data) \in 0..Len(seg.data)
      BY <1>2
    <3>2. /\ SubSeq(seg.data, from, Len(seg.data)) \in Data
          /\ Len(SubSeq(seg.data, from, Len(seg.data))) =
               IF from <= Len(seg.data) THEN Len(seg.data) - from + 1 ELSE 0
          /\ \A k \in 1..Len(SubSeq(seg.data, from, Len(seg.data))) :
               SubSeq(seg.data, from, Len(seg.data))[k] = seg.data[from + k - 1]
      BY <1>2, <2>2, <3>1, PartOfData
    <3> HIDE DEF part
    <3> QED BY <2>2, <3>2
  <2> HIDE DEF part
  <2>4. Len(part) \in Nat
    BY <2>3, DataProperties
  <2>5. /\ got' \in Data /\ Len(got') = Len(got) + Len(part)
        /\ DOMAIN got' = 1..(Len(got) + Len(part))
        /\ \A k \in 1..(Len(got) + Len(part)) :
             got'[k] = IF k <= Len(got) THEN got[k] ELSE part[k - Len(got)]
    BY <1>1, <2>1, <2>3, ConcatData, DataProperties
  <2>6. /\ Len(got') \in Nat /\ Len(got') >= Len(got)
        /\ Awaited' = first + Len(got') /\ Awaited' \in Nat /\ Awaited' >= Awaited
    <3>1. Awaited' = first + Len(got')
      BY <1>3 DEF Awaited
    <3> QED BY <1>1, <2>4, <2>5, <3>1
  <2>7. ASSUME Below(seg), Awaited < SeqMod
        PROVE  /\ from = Awaited - seg.seqno + 1
               /\ Awaited' < SeqMod
    <3>1. from = Awaited - seg.seqno + 1
      BY <1>7, <1>9, <2>7 DEF from
    <3>2. seg.seqno + Len(seg.data) < SeqMod
      BY <2>7 DEF Below
    <3>3. Awaited' = Awaited + Len(part)
      BY <1>1, <2>4, <2>5, <2>6
    <3>4. Len(part) = Len(seg.data) - from + 1 /\ from \in Nat
      BY <2>2, <2>3
    <3>5. Awaited + Len(part) = seg.seqno + Len(seg.data)
      <4> DEFINE q == seg.seqno
                 l == Len(seg.data)
                 p == Len(part)
      <4>1. Awaited \in Nat /\ q \in Nat /\ l \in Nat /\ p \in Nat /\ from \in Nat
        BY <1>1, <1>2, <2>4, <3>4
      <4>2. from = Awaited - q + 1 /\ p = l - from + 1
        BY <3>1, <3>4
      <4> HIDE DEF q, l, p
      <4>3. Awaited + p = q + l
        BY <4>1, <4>2, NewPart
      <4> QED BY <4>3 DEF q, l, p
    <3> QED BY <3>1, <3>2, <3>3, <3>5
  <2>8. ASSUME Below(seg), Awaited < SeqMod, InPlace(seg), InPlace(Segment(first, got))
        PROVE  InPlace(Segment(first, got'))
    <3> SUFFICES ASSUME NEW k \in 1..(Len(got) + Len(part)) PROVE got'[k] = first + k - 1
      BY <2>5 DEF InPlace, Segment
    <3>1. CASE k <= Len(got)
      <4>1. k \in 1..Len(got)
        BY <1>1, <3>1
      <4>2. got[k] = first + k - 1
        BY <1>1, <2>8, <4>1 DEF InPlace, Segment
      <4> QED BY <2>5, <3>1, <4>2
    <3>2. CASE k > Len(got)
      <4> DEFINE j == k - Len(got)
      <4>1. j \in 1..Len(part) /\ got'[k] = part[j]
        BY <1>1, <2>4, <2>5, <3>2
      <4>2. from + j - 1 \in 1..Len(seg.data)
        <5> HIDE DEF j
        <5> QED BY <1>2, <2>2, <2>3, <4>1
      <4>3. part[j] = seg.seqno + (from + j - 1) - 1
        BY <1>2, <2>3, <2>8, <4>1, <4>2 DEF InPlace
      <4>4. from = Awaited - seg.seqno + 1 /\ j \in Nat
        BY <2>4, <2>7, <2>8, <4>1
      <4>5. seg.seqno + (from + j - 1) - 1 = Awaited + j - 1
        <5> DEFINE q == seg.seqno
                   l == Len(seg.data)
                   p == Len(part)
        <5>1. /\ Awaited \in Nat /\ q \in Nat /\ l \in Nat /\ p \in Nat /\ from \in Nat
              /\ j \in Nat
          BY <1>1, <1>2, <2>2, <2>4, <4>4
        <5>2. from = Awaited - q + 1 /\ p = l - from + 1
          BY <2>3, <4>4
        <5> HIDE DEF q, l, p, j
        <5>3. q + (from + j - 1) - 1 = Awaited + j - 1
          BY <5>1, <5>2, NewPart
        <5> QED BY <5>3 DEF q
      <4> QED BY <1>1, <4>1, <4>3, <4>5
    <3> QED BY <1>1, <2>4, <3>1, <3>2
  <2> QED BY <2>5, <2>6, <2>7, <2>8
<1> QED BY <1>8, <1>9

LEMMA PeerKeeps == ASSUME Inv, NEW seg \in flight, PeerReceives(seg) PROVE Inv'
<1> USE DEF Inv, boot, sender
<1>1. /\ flight' \subseteq flight
      /\ acks' \in {acks, acks \cup {(first + Len(got')) % SeqMod}}
      /\ UNCHANGED <<segment_queue, last_acked_byte, tick, boot, sender, defects>>
  BY DEF PeerReceives, Answered
<1>2. /\ got' \in Data /\ Len(got') \in Nat /\ Len(got') >= Len(got)
      /\ Awaited' = first + Len(got') /\ Awaited' \in Nat /\ Awaited' >= Awaited
      /\ Below(seg) /\ Awaited < SeqMod
           => /\ Awaited' < SeqMod
              /\ InPlace(seg) /\ InPlace(Segment(first, got))
                   => InPlace(Segment(first, got'))
  BY PeerTakes
<1>3. /\ SeqMod \in Nat \ {0} /\ last_acked_byte \in Nat /\ last_acked_byte <= Awaited
      /\ Awaited \in Nat /\ WindowSize \in Nat /\ first \in Nat
      /\ Len(got) \in Nat /\ Awaited = first + Len(got)
  BY Ranges
<1> DEFINE answer == (first + Len(got')) % SeqMod
<1>4. /\ answer \in 0..(SeqMod - 1) /\ answer <= Awaited'
      /\ Awaited' < SeqMod => answer = Awaited'
  <2> DEFINE n == first + Len(got')
  <2>1. n \in Nat /\ n = Awaited'
    BY <1>2
  <2> HIDE DEF n
  <2>2. n % SeqMod \in 0..(SeqMod - 1) /\ n % SeqMod <= n /\ (n < SeqMod => n % SeqMod = n)
    BY <1>3, <2>1, ModBasics, ModAtMost, ModBelow
  <2>3. answer = n % SeqMod
    BY DEF n
  <2> HIDE DEF answer
  <2> QED BY <2>1, <2>2, <2>3
<1>5. acks' \subseteq acks \cup {answer}
  BY <1>1
<1> HIDE DEF answer
<1>6. NetworkOK'
  <2>1. last_acked_byte' <= Awaited'
    BY <1>1, <1>2, <1>3
  <2>2. \A ack \in acks' : ack \in 0..(SeqMod - 1) /\ ack <= Awaited'
    BY <1>2, <1>3, <1>4, <1>5 DEF NetworkOK
  <2> QED BY <1>1, <1>2, <2>1, <2>2 DEF NetworkOK
<1>7. TypeOK'
  BY <1>1 DEF TypeOK
<1>8. QueueOK'
  BY <1>1 DEF QueueOK, Queued
<1>9. InsideWindow'
  <2> SUFFICES ASSUME Unwrapped, NEW x \in flight'
               PROVE  x.seqno + Len(x.data) <= Awaited' + WindowSize
    BY <1>1, <1>7 DEF InsideWindow, Unwrapped
  <2>1. x.seqno + Len(x.data) <= Awaited + WindowSize /\ x \in Segments
    BY <1>1 DEF InsideWindow, Unwrapped, NetworkOK
  <2>2. x.seqno \in Nat /\ Len(x.data) \in Nat
    BY <1>3, <2>1, DataProperties DEF Segments
  <2> QED BY <1>2, <1>3, <2>1, <2>2
<1>10. ASSUME Unwrapped' PROVE BelowOK' /\ Awaited' < SeqMod
  <2>1. BelowOK
    BY <1>1, <1>10 DEF Unwrapped
  <2>2. Awaited' < SeqMod
    BY <1>2, <2>1 DEF BelowOK
  <2> QED BY <1>1, <2>1, <2>2 DEF BelowOK, Queued, Below
<1>11. ASSUME Unspoiled' PROVE StreamOK'
  <2>1. StreamOK /\ BelowOK /\ Unwrapped'
    BY <1>1, <1>11 DEF Unspoiled, Unwrapped
  <2>2. InPlace(Segment(first, got'))
    BY <1>2, <2>1 DEF StreamOK, BelowOK
  <2>3. \A ack \in acks' : ack >= first
    <3>1. answer >= first
      BY <1>2, <1>3, <1>4, <1>10, <2>1
    <3> QED BY <1>5, <2>1, <3>1 DEF StreamOK
  <2>4. /\ first' = first /\ written' = written /\ segment' = segment
        /\ segment_queue' = segment_queue /\ last_acked_byte' = last_acked_byte
    BY <1>1
  <2>5. InPlace(Segment(first, got))'
    BY <2>2, <2>4 DEF InPlace, Segment
  <2> QED BY <1>1, <2>1, <2>3, <2>4, <2>5 DEF StreamOK, Queued, InPlace
<1> QED BY <1>6, <1>7, <1>8, <1>9, <1>10, <1>11

-----------------------------------------------------------------------------
LEMMA InvStep == Inv /\ [Next]_vars => Inv'
<1> SUFFICES ASSUME Inv, [Next]_vars PROVE Inv'
  OBVIOUS
<1>1. CASE \E n \in Sizes : Build(n)
  BY <1>1, BuildKeeps
<1>2. CASE Enqueue \/ Tick \/ StretchEnds
  BY <1>2, EnqueueKeeps, TickKeeps
<1>3. CASE TcpSender
  BY <1>3, LocalKeeps, FreeEntryKeeps, SendEntryKeeps, CrashKeeps DEF TcpSender
<1>4. CASE \/ \E ack \in acks : RecvAck(ack)
           \/ \E seg \in flight : PeerReceives(seg) \/ Lose(seg)
  BY <1>4, NetworkKeeps, PeerKeeps
<1>5. CASE UNCHANGED vars
  <2> USE <1>5 DEF Inv, vars, boot, sender, peer
  <2>1. TypeOK' /\ QueueOK' /\ NetworkOK'
    BY DEF TypeOK, QueueOK, Queued, NetworkOK, Awaited
  <2>2. InsideWindow'
    BY <2>1 DEF InsideWindow, Awaited
  <2>3. Unwrapped' => BelowOK'
    BY DEF BelowOK, Queued, Below, Unwrapped, Awaited
  <2>4. Unspoiled' => StreamOK'
    BY DEF StreamOK, Queued, InPlace, Segment, Unspoiled
  <2> QED BY <2>1, <2>2, <2>3, <2>4
<1> QED BY <1>1, <1>2, <1>3, <1>4, <1>5 DEF Next, Halted

LEMMA InvHolds == Spec => []Inv
<1> QED BY InitInv, InvStep, PTL DEF Spec

-----------------------------------------------------------------------------
(* Nothing is sent past the window that the peer has announced, also after *)
(* a split, after an old acknowledgement and when the window's end wraps,  *)
(* until a segment's end does.                                             *)
THEOREM SentFitsWindow == Spec => []InsideWindow
<1>1. Inv => InsideWindow
  BY DEF Inv
<1> QED BY InvHolds, <1>1, PTL

(* What is on the wire, and what the peer has, is the boot task's stream,  *)
(* until the boot task renumbers, a segment is split or the end of one     *)
(* wraps.                                                                  *)
THEOREM StreamIsSent == Spec => []SentIsStream
<1>1. Inv => SentIsStream
  BY DEF Inv, SentIsStream, Unspoiled, StreamOK
<1> QED BY InvHolds, <1>1, PTL

(* Where the n bytes from the number q stand in g bytes from f.            *)
LEMMA PartBounds ==
  /\ \A q, f, n, g \in Nat : q >= f /\ q + n <= f + g =>
       /\ q - f + 1 \in Nat \ {0} /\ (q + n) - f \in 0..g
       /\ (q + n) - f = (q - f + 1) + n - 1
  /\ \A from \in Nat \ {0}, n, g, to, k \in Nat :
       to = from + n - 1 /\ to <= g /\ k \in 1..n => from + k - 1 \in 1..g
OBVIOUS

(* tcp_sender gives up an entry only when the peer has all its numbers,    *)
(* and, but for a renumbering or a split, all its bytes, until the end of  *)
(* a segment wraps.                                                        *)
THEOREM GivenUpHasArrived == Spec => FreedHasArrived
<1> DEFINE Arrives(s) ==
      LET e == segment_queue[s]
          end == e.seqno + Len(e.data)
      IN e # NoSegment /\ segment_queue'[s] = NoSegment =>
           \/ "wrapped" \in defects
           \/ /\ end <= Awaited
              /\ \/ defects \cap {"renumbered", "split"} # {}
                 \/ SubSeq(got, e.seqno - first + 1, end - first) = e.data
<1>1. ASSUME Inv, [Next]_vars, NEW s \in Slots PROVE Arrives(s)
  <2> DEFINE e == segment_queue[s]
             end == e.seqno + Len(e.data)
  <2> SUFFICES ASSUME e # NoSegment, segment_queue'[s] = NoSegment, Unwrapped
               PROVE  /\ end <= Awaited
                      /\ Unspoiled => SubSeq(got, e.seqno - first + 1, end - first) = e.data
    BY DEF Unspoiled, Unwrapped
  <2>1. QueueOK /\ NetworkOK /\ BelowOK /\ s \in Queued /\ e \in Entries
    BY <1>1 DEF Inv, QueueOK, Queued
  <2>2. /\ e.seqno \in Nat /\ e.data \in Data
        /\ Len(e.data) \in Nat /\ DOMAIN e.data = 1..Len(e.data)
    BY <2>1, DataProperties, StreamAssumption DEF Entries
  <2>3. /\ got \in Data /\ Len(got) \in Nat /\ DOMAIN got = 1..Len(got)
        /\ Awaited = first + Len(got) /\ first \in Nat /\ last_acked_byte \in Nat
        /\ last_acked_byte <= Awaited /\ SeqMod \in Nat \ {0}
    BY <1>1, Ranges
  <2>4. last_acked_byte >= End(e)
    <3>1. CASE FreeEntry
      <4>1. s = i
        BY <2>1, <3>1 DEF FreeEntry, QueueOK
      <4> QED BY <3>1, <4>1 DEF FreeEntry, Acked
    <3>2. CASE Enqueue
      <4>1. segment \in Segments
        BY <2>1, <3>2 DEF Enqueue, NetworkOK
      <4>2. segment_queue'[s] = e
        BY <2>1, <3>2, <4>1, PlacedOK DEF Enqueue
      <4> QED BY <4>2
    <3>3. CASE SendEntry
      <4>1. segment_queue'[s] # NoSegment
        <5>1. QueueOK' /\ Inv
          BY <1>1, <3>3, SendEntryKeeps DEF Inv
        <5>2. CASE s = i
          BY <3>3, <5>1, <5>2, SentEntryIsNoNull
        <5>3. CASE s # i
          <6>1. Due /\ segment_queue'[s] = Split(segment_queue[i])[s]
            BY <3>3, <5>1, <5>3 DEF SendEntry, QueueOK
          <6>2. segment_queue'[s] = e
            BY <2>1, <5>1, <6>1, SplitOK
          <6> QED BY <6>2
        <5> QED BY <5>2, <5>3
      <4> QED BY <4>1
    <3>4. CASE Crash
      <4>1. segment_queue'[s] = e
        BY <1>1, <2>1, <3>4, SplitOK DEF Crash
      <4> QED BY <4>1
    <3>5. CASE Tick \/ StretchEnds
      <4>1. segment_queue'[s] \in Entries
        BY <1>1, <2>1, <3>5, TickShape
      <4> QED BY <4>1, EntryIsNoNull
    <3>6. CASE segment_queue' = segment_queue
      BY <3>6
    <3> QED BY <1>1, <3>1, <3>2, <3>3, <3>4, <3>5, <3>6
            DEF Next, TcpSender, Build, ScanBegin, Skip, ScanEnd, SleepUntil, RecvAck,
                PeerReceives, Lose, Halted, vars
  <2>5. end \in Nat /\ end <= Awaited
    <3>1. end \in Nat /\ end < SeqMod
      BY <2>1, <2>2 DEF BelowOK, Below
    <3>2. end % SeqMod = end
      <4> HIDE DEF end
      <4> QED BY <2>3, <3>1, ModBelow
    <3>3. End(e) = end
      BY <3>2 DEF End
    <3> HIDE DEF end
    <3> QED BY <2>3, <2>4, <3>1, <3>3
  <2>6. ASSUME Unspoiled PROVE SubSeq(got, e.seqno - first + 1, end - first) = e.data
    <3> DEFINE from == e.seqno - first + 1
               to == end - first
               part == SubSeq(got, from, to)
    <3>1. InPlace(e) /\ e.seqno >= first /\ InPlace(Segment(first, got))
      BY <1>1, <2>1, <2>6 DEF Inv, StreamOK
    <3>2. from \in Nat \ {0} /\ to \in 0..Len(got) /\ to = from + Len(e.data) - 1
      <4>1. e.seqno >= first
        BY <3>1
      <4>2. e.seqno + Len(e.data) <= first + Len(got)
        BY <2>3, <2>5
      <4> DEFINE q == e.seqno
                 n == Len(e.data)
                 g == Len(got)
      <4>3. /\ q \in Nat /\ n \in Nat /\ g \in Nat /\ first \in Nat
            /\ q >= first /\ q + n <= first + g
        BY <2>2, <2>3, <4>1, <4>2
      <4> HIDE DEF q, n, g
      <4>4. /\ q - first + 1 \in Nat \ {0} /\ (q + n) - first \in 0..g
            /\ (q + n) - first = (q - first + 1) + n - 1
        BY <4>3, PartBounds
      <4> QED BY <4>4 DEF q, n, g
    <3>3. e.seqno = first + (from - 1)
      BY <2>2, <2>3, <3>1
    <3> HIDE DEF from, to
    <3>4. /\ part \in Data
          /\ Len(part) = IF from <= to THEN to - from + 1 ELSE 0
          /\ \A k \in 1..Len(part) : part[k] = got[from + k - 1]
      BY <2>3, <3>2, PartOfData
    <3> HIDE DEF part
    <3>5. Len(part) = Len(e.data)
      BY <2>2, <3>2, <3>4
    <3>6. \A k \in 1..Len(part) : part[k] = e.data[k]
      <4> SUFFICES ASSUME NEW k \in 1..Len(part) PROVE part[k] = e.data[k]
        OBVIOUS
      <4> DEFINE j == from + k - 1
      <4>1. /\ j \in 1..Len(got) /\ k \in 1..Len(e.data)
            /\ k \in DOMAIN e.data
        <5>1. k \in 1..Len(e.data)
          BY <3>5
        <5>2. k \in DOMAIN e.data
          BY <2>2, <5>1
        <5>3. from + k - 1 \in 1..Len(got)
          BY <2>2, <2>3, <3>2, <5>1, PartBounds
        <5> QED BY <5>1, <5>2, <5>3
      <4>2. got[j] = first + j - 1
        <5> HIDE DEF j
        <5> QED BY <2>3, <3>1, <4>1 DEF InPlace, Segment
      <4>3. e.data[k] = e.seqno + k - 1
        BY <2>2, <3>1, <4>1 DEF InPlace
      <4>4. first + j - 1 = e.seqno + k - 1
        BY <2>2, <2>3, <3>2, <3>3, <4>1
      <4> QED BY <3>4, <4>2, <4>3, <4>4
    <3>7. part = e.data
      BY <2>2, <3>4, <3>5, <3>6, SeqEqual DEF Data
    <3> QED BY <3>7 DEF part, from, to
  <2> QED BY <2>5, <2>6
<1>2. Inv /\ [Next]_vars => [\A s \in Slots : Arrives(s)]_vars
  BY <1>1
<1> QED BY InvHolds, <1>2, PTL DEF Spec, FreedHasArrived
=============================================================================
