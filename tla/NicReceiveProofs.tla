-------------------------- MODULE NicReceiveProofs --------------------------
(***************************************************************************)
(* Proofs about RecvQueue and NicReceive, for a ring and a queue of any    *)
(* size, any word and any frames: no wake-up is lost, the queue implements *)
(* FrameFifo, driver and card stay in step and frames come through whole.  *)
(***************************************************************************)
EXTENDS NicReceive, SequenceTheorems, TLAPS

-----------------------------------------------------------------------------
(* The queue, alone.                                                       *)

(* The handler works on the first frame that waits, and nothing else frees *)
(* its slot; every other waiting slot holds the frame that was put there.  *)
Working == pc \in {"deliver", "kfree", "advance"}

HandlerOK ==
  /\ Working => push # read /\ tcb = "RUNNABLE"
  /\ given # <<>> <=> pc \in {"kfree", "advance"}
  /\ pc = "kfree" => given = <<slot[read]>>

FramesWait ==
  \A k \in 1..Count : slot[Nth(k)] \in Frame \/ (k = 1 /\ pc = "advance")

Inv == TypeOK /\ NoLostWakeUp /\ HandlerOK /\ FramesWait

(* The ring's arithmetic, without the remainder.                           *)
LEMMA FollowingFact ==
  \A i \in 0..(Size - 1) :
    /\ Following(i) = IF i + 1 = Size THEN 0 ELSE i + 1
    /\ Following(i) \in 0..(Size - 1)
<1> TAKE i \in 0..(Size - 1)
<1>1. Size \in Nat /\ Size > 1 /\ i \in Nat
  BY SizeAssumption
<1>2. CASE i + 1 = Size
  BY <1>1, <1>2 DEF Following
<1>3. CASE i + 1 # Size
  BY <1>1, <1>3 DEF Following
<1> QED BY <1>2, <1>3

LEMMA RingFacts ==
  ASSUME TypeOK
  PROVE  /\ Count \in 0..(Size - 1)
         /\ Count = 0 <=> push = read
         /\ \A k \in 1..Count : Nth(k) \in 0..(Size - 1) /\ Nth(k) # push
         /\ Nth(1) = read
         /\ \A k \in 1..Count : k # 1 => Nth(k) # read
BY SizeAssumption DEF TypeOK, Count, Nth

LEMMA InitInv == Init => Inv
BY SizeAssumption DEF Init, Inv, TypeOK, NoLostWakeUp, HandlerOK, FramesWait,
  Working, Count, Points, TaskStates

LEMMA EnqueueStep ==
  ASSUME Inv, NEW f \in Frame, EnqueueRecvFrame(f)
  PROVE  Inv'
<1>1. CASE UNCHANGED vars
  BY <1>1 DEF vars, Inv, TypeOK, NoLostWakeUp, HandlerOK, Working, FramesWait,
    Count, Nth
<1>2. CASE Following(push) # read /\ ~UNCHANGED vars
  <2>1. /\ slot' = [slot EXCEPT ![push] = f] /\ push' = Following(push)
        /\ tcb' = "RUNNABLE" /\ UNCHANGED <<read, pc, given>>
    BY <1>2 DEF EnqueueRecvFrame, WakeHandler
  <2>2. /\ push \in 0..(Size - 1) /\ read \in 0..(Size - 1)
        /\ push' = IF push + 1 = Size THEN 0 ELSE push + 1
        /\ push' \in 0..(Size - 1) /\ push' # read
    BY <1>2, <2>1, FollowingFact DEF Inv, TypeOK
  <2>3. TypeOK'
    BY <2>1, <2>2 DEF Inv, TypeOK, TaskStates
  <2>4. HandlerOK'
    <3>1. Working => slot'[read] = slot[read]
      BY <2>1 DEF Inv, HandlerOK, TypeOK
    <3> QED BY <2>1, <2>2, <3>1 DEF Inv, HandlerOK, Working
  <2>5. FramesWait'
    <3> SUFFICES ASSUME NEW k \in 1..Count'
                 PROVE  slot'[Nth(k)] \in Frame \/ (k = 1 /\ pc' = "advance")
      BY <2>1 DEF FramesWait, Nth
    <3>1. k \in 1..Count \/ Nth(k) = push
      BY <2>1, <2>2, SizeAssumption DEF Count, Nth
    <3>2. CASE Nth(k) = push
      BY <2>1, <2>2, <3>2 DEF Inv, TypeOK
    <3>3. CASE k \in 1..Count /\ Nth(k) # push
      BY <2>1, <3>3, RingFacts DEF Inv, TypeOK, FramesWait
    <3> QED BY <3>1, <3>2, <3>3
  <2> QED BY <2>1, <2>3, <2>4, <2>5 DEF Inv, NoLostWakeUp
<1> QED BY <1>1, <1>2 DEF EnqueueRecvFrame

LEMMA HandlerStep == ASSUME Inv, Handler PROVE Inv'
<1>1. CASE Check
  BY <1>1 DEF Check, Inv, TypeOK, NoLostWakeUp, HandlerOK, Working, FramesWait,
    Count, Nth, Points, TaskStates
<1>2. CASE Deliver
  <2>1. slot[read] \in Frame /\ push # read
    BY <1>2, RingFacts, SizeAssumption DEF Deliver, Inv, HandlerOK, Working,
      FramesWait
  <2>2. TypeOK' /\ HandlerOK'
    BY <1>2, <2>1 DEF Deliver, Inv, TypeOK, Points, HandlerOK, Working
  <2>3. FramesWait' /\ NoLostWakeUp'
    BY <1>2 DEF Deliver, Inv, FramesWait, Count, Nth, NoLostWakeUp
  <2> QED BY <2>2, <2>3 DEF Inv
<1>3. CASE KFree
  <2>1. TypeOK' /\ HandlerOK' /\ NoLostWakeUp'
    BY <1>3 DEF KFree, Inv, TypeOK, Points, HandlerOK, Working, NoLostWakeUp
  <2>2. FramesWait'
    BY <1>3, RingFacts DEF KFree, Inv, TypeOK, FramesWait, Count, Nth
  <2> QED BY <2>1, <2>2 DEF Inv
<1>4. CASE Advance
  <2>1. /\ read' = IF read + 1 = Size THEN 0 ELSE read + 1
        /\ read' \in 0..(Size - 1) /\ push # read
        /\ push \in 0..(Size - 1) /\ read \in 0..(Size - 1)
    BY <1>4, FollowingFact DEF Advance, Inv, TypeOK, HandlerOK, Working
  <2>2. TypeOK' /\ HandlerOK' /\ NoLostWakeUp'
    BY <1>4, <2>1 DEF Advance, Inv, TypeOK, Points, HandlerOK, Working,
      NoLostWakeUp, TaskStates
  <2>3. FramesWait'
    <3> SUFFICES ASSUME NEW k \in 1..Count'
                 PROVE  slot'[Nth(k)'] \in Frame
      BY DEF FramesWait
    <3>1. k + 1 \in 1..Count /\ Nth(k)' = Nth(k + 1) /\ k + 1 # 1
      BY <1>4, <2>1, SizeAssumption DEF Advance, Count, Nth
    <3> QED BY <1>4, <3>1 DEF Advance, Inv, FramesWait
  <2> QED BY <2>2, <2>3 DEF Inv
<1> QED BY <1>1, <1>2, <1>3, <1>4 DEF Handler

LEMMA InvStep == Inv /\ [Next]_vars => Inv'
<1>1. Inv /\ UNCHANGED vars => Inv'
  BY DEF vars, Inv, TypeOK, NoLostWakeUp, HandlerOK, Working, FramesWait,
    Count, Nth
<1> QED BY <1>1, EnqueueStep, HandlerStep DEF Next

(* The indices stay inside the ring.                                       *)
THEOREM TypeCorrect == Spec => []TypeOK
<1>1. Inv => TypeOK
  BY DEF Inv
<1> QED BY <1>1, InitInv, InvStep, PTL DEF Spec

(* The handler never sleeps on a frame: the interrupt lock keeps the test  *)
(* for an empty ring and block_task together.                              *)
THEOREM WakeUpsArrive == Spec => []NoLostWakeUp
<1>1. Inv => NoLostWakeUp
  BY DEF Inv
<1> QED BY <1>1, InitInv, InvStep, PTL DEF Spec

-----------------------------------------------------------------------------
(* The refinement.                                                         *)

LEMMA WaitingFacts ==
  ASSUME Inv
  PROVE  /\ Waiting \in Seq(Frame)
         /\ Len(Waiting) = Count
         /\ \A i \in 1..Count :
              Waiting[i] = IF i = 1 /\ pc = "advance" THEN given[1]
                           ELSE slot[Nth(i)]
         /\ Count \in Nat
<1>1. Count \in Nat
  BY RingFacts DEF Inv
<1>2. \A i \in 1..Count :
        (IF i = 1 /\ pc = "advance" THEN given[1] ELSE slot[Nth(i)]) \in Frame
  BY DEF Inv, FramesWait, HandlerOK, TypeOK
<1> QED BY <1>1, <1>2 DEF Waiting

LEMMA SeqOf ==
  ASSUME NEW S, NEW n \in Nat, NEW w,
         w = [i \in 1..n |-> w[i]], \A i \in 1..n : w[i] \in S
  PROVE  w \in Seq(S) /\ Len(w) = n
<1>1. w \in [1..n -> S]
  OBVIOUS
<1> QED BY <1>1

LEMMA InitMaps == Init => Fifo!Init
BY SizeAssumption DEF Init, Fifo!Init, Waiting, Count

LEMMA EnqueueMaps ==
  ASSUME Inv, Inv', NEW f \in Frame, EnqueueRecvFrame(f)
  PROVE  [Fifo!Next]_<<Waiting, given>>
<1>1. CASE UNCHANGED vars
  BY <1>1 DEF vars, Waiting, Count, Nth
<1>2. CASE Following(push) # read /\ ~UNCHANGED vars
  <2>1. /\ slot' = [slot EXCEPT ![push] = f] /\ push' = Following(push)
        /\ UNCHANGED <<read, pc, given>>
    BY <1>2 DEF EnqueueRecvFrame
  <2>2. /\ push \in 0..(Size - 1) /\ read \in 0..(Size - 1)
        /\ push' = IF push + 1 = Size THEN 0 ELSE push + 1
        /\ push' # read
    BY <1>2, <2>1, FollowingFact DEF Inv, TypeOK
  <2>3. Count' = Count + 1 /\ Count < Size - 1 /\ Nth(Count + 1) = push
    BY <2>1, <2>2, SizeAssumption DEF Count, Nth
  <2>4. pc = "advance" => Count >= 1
    BY RingFacts DEF Inv, HandlerOK, Working
  <2>5. \A i \in 1..Count' : Waiting'[i] = Append(Waiting, f)[i]
    <3> TAKE i \in 1..Count'
    <3>1. Waiting'[i] = IF i = 1 /\ pc = "advance" THEN given[1]
                        ELSE slot'[Nth(i)]
      BY <2>1, WaitingFacts DEF Nth, Waiting
    <3>2. CASE i = Count + 1
      BY <2>1, <2>2, <2>3, <2>4, <3>1, <3>2, WaitingFacts DEF Inv, TypeOK
    <3>3. CASE i \in 1..Count
      <4>1. slot'[Nth(i)] = slot[Nth(i)]
        BY <2>1, <3>3, RingFacts DEF Inv, TypeOK
      <4>2. Append(Waiting, f)[i] = Waiting[i]
        BY <3>3, WaitingFacts
      <4> QED BY <3>1, <3>3, <4>1, <4>2, WaitingFacts
    <3> QED BY <2>3, <3>2, <3>3, WaitingFacts
  <2>6. Waiting' \in Seq(Frame) /\ Len(Waiting') = Count'
    <3>1. \A i \in 1..Count' : Append(Waiting, f)[i] \in Frame
      BY <2>3, WaitingFacts, RingFacts DEF Inv
    <3>2. Count' \in Nat
      BY <2>3, WaitingFacts
    <3>3. Waiting' = [i \in 1..Count' |-> Waiting'[i]]
      BY DEF Waiting
    <3>4. \A i \in 1..Count' : Waiting'[i] \in Frame
      BY <2>5, <3>1
    <3> HIDE DEF Waiting
    <3> QED BY <3>2, <3>3, <3>4, SeqOf
  <2>7. Waiting' = Append(Waiting, f)
    BY <2>3, <2>5, <2>6, WaitingFacts, SeqEqual
  <2>8. Fifo!Offer(f)
    BY <2>1, <2>3, <2>7, WaitingFacts DEF Fifo!Offer
  <2> QED BY <2>8 DEF Fifo!Next
<1> QED BY <1>1, <1>2 DEF EnqueueRecvFrame

LEMMA HandlerMaps ==
  ASSUME Inv, Inv', Handler
  PROVE  [Fifo!Next]_<<Waiting, given>>
<1>1. CASE Check
  BY <1>1 DEF Check, Waiting, Count, Nth
<1>2. CASE Deliver
  <2>1. Count \in Nat \ {0} /\ Nth(1) = read
    BY <1>2, RingFacts DEF Deliver, Inv, HandlerOK, Working
  <2>2. Waiting # <<>> /\ Head(Waiting) = slot[read]
    BY <1>2, <2>1, WaitingFacts DEF Deliver
  <2>3. Waiting' = Waiting
    BY <1>2 DEF Deliver, Waiting, Count, Nth
  <2>4. Fifo!Handle
    BY <1>2, <2>2, <2>3 DEF Fifo!Handle, Deliver, Inv, HandlerOK
  <2> QED BY <2>4 DEF Fifo!Next
<1>3. CASE KFree
  <2>1. Count' = Count /\ \A i : Nth(i)' = Nth(i)
    BY <1>3 DEF KFree, Count, Nth
  <2>2. given[1] = slot[read] /\ given' = given
    BY <1>3 DEF KFree, Inv, HandlerOK
  <2>3. \A i \in 1..Count : i # 1 => slot'[Nth(i)] = slot[Nth(i)]
    BY <1>3, RingFacts DEF KFree, Inv, TypeOK
  <2>4. Waiting' = [i \in 1..Count |-> IF i = 1 THEN given[1] ELSE slot[Nth(i)]]
    BY <1>3, <2>1, <2>2, <2>3 DEF KFree, Waiting
  <2>5. Waiting = [i \in 1..Count |-> IF i = 1 THEN given[1] ELSE slot[Nth(i)]]
    BY <1>3, <2>2, RingFacts DEF KFree, Waiting, Inv
  <2> QED BY <2>2, <2>4, <2>5
<1>4. CASE Advance
  <2>1. /\ read' = IF read + 1 = Size THEN 0 ELSE read + 1
        /\ push # read /\ given # <<>>
        /\ push \in 0..(Size - 1) /\ read \in 0..(Size - 1)
    BY <1>4, FollowingFact DEF Advance, Inv, TypeOK, HandlerOK, Working
  <2>2. /\ Count \in Nat \ {0} /\ Count' = Count - 1
        /\ \A i \in 1..Count' : Nth(i)' = Nth(i + 1)
    BY <1>4, <2>1, SizeAssumption DEF Advance, Count, Nth
  <2>3. Waiting # <<>>
    BY <2>2, WaitingFacts
  <2>4. Tail(Waiting) \in Seq(Frame) /\ Len(Tail(Waiting)) = Count'
          /\ \A i \in 1..Count' : Tail(Waiting)[i] = slot[Nth(i + 1)]
    BY <2>2, <2>3, WaitingFacts, HeadTailProperties
  <2>5. \A i \in 1..Count' : Waiting'[i] = slot[Nth(i + 1)]
    BY <1>4, <2>2 DEF Advance, Waiting
  <2>6. Waiting' \in Seq(Frame) /\ Len(Waiting') = Count'
    BY <2>2, <2>4, <2>5, WaitingFacts DEF Waiting
  <2>7. Waiting' = Tail(Waiting)
    BY <2>2, <2>4, <2>5, <2>6, SeqEqual
  <2>8. Fifo!Finish
    BY <1>4, <2>1, <2>7 DEF Fifo!Finish, Advance
  <2> QED BY <2>8 DEF Fifo!Next
<1> QED BY <1>1, <1>2, <1>3, <1>4 DEF Handler

(* The receive queue implements FrameFifo: whatever the moments the card   *)
(* interrupts at, nht_recv_handler gives the frames that were accepted to  *)
(* the protocols once each, unchanged and in order, and only a full ring   *)
(* turns one away.                                                         *)
THEOREM ImplementsFifo == Spec => FifoSpec
<1>1. Inv /\ Inv' /\ [Next]_vars => [Fifo!Next]_<<Waiting, given>>
  <2>1. UNCHANGED vars => UNCHANGED <<Waiting, given>>
    BY DEF vars, Waiting, Count, Nth
  <2> QED BY <2>1, EnqueueMaps, HandlerMaps DEF Next
<1> QED BY <1>1, InitMaps, InitInv, InvStep, PTL DEF Spec, FifoSpec, Fifo!Spec

-----------------------------------------------------------------------------
(* The queue with the card that fills it.                                   *)

R == RingSize
Received == Frame \ {Torn}
Bytes == {Erased} \cup [frame : Received, byte : Nat]

-----------------------------------------------------------------------------
(* Arithmetic: remainders by cases, and rounding.                          *)

LEMMA Remainder ==
  ASSUME NEW d \in Nat \ {0}
  PROVE  /\ \A x \in 0..(d - 1) : x % d = x
         /\ \A x \in d..(2 * d - 1) : x % d = x - d
         /\ \A x \in Nat : x % d \in 0..(d - 1)
<1>1. ASSUME NEW x \in d..(2 * d - 1) PROVE x % d = x - d
  <2>1. x = 1 * d + (x - d) /\ 0 <= x - d /\ x - d < d
    BY <1>1
  <2> QED BY <2>1
<1> QED BY <1>1

LEMMA Quotient ==
  ASSUME NEW d \in Nat \ {0}, NEW q \in Nat, NEW r \in 0..(d - 1)
  PROVE  (q * d + r) \div d = q
<1> DEFINE a == q * d + r
<1> DEFINE p == a \div d
<1>1. a \in Nat /\ p \in Nat /\ a = p * d + (a % d) /\ a % d \in 0..(d - 1)
  OBVIOUS
<1>2. CASE p >= q + 1
  <2>1. p * d >= (q + 1) * d
    BY <1>1, <1>2
  <2> QED BY <1>1, <2>1
<1>3. CASE q >= p + 1
  <2>1. q * d >= (p + 1) * d
    BY <1>1, <1>3
  <2> QED BY <1>1, <2>1
<1> QED BY <1>1, <1>2, <1>3

Words(n) == \E q \in Nat : n = q * Word

LEMMA RoundUpFacts ==
  ASSUME NEW n \in Nat
  PROVE  /\ RoundUp(n) \in Nat /\ Words(RoundUp(n))
         /\ RoundUp(n) >= n /\ RoundUp(n) < n + Word
<1> DEFINE a == n + Word - 1
<1>1. Word \in Nat \ {0}
  BY RingAssumption
<1>2. /\ a \in Nat /\ a \div Word \in Nat /\ a % Word \in 0..(Word - 1)
      /\ a = (a \div Word) * Word + (a % Word)
  BY <1>1
<1>3. RoundUp(n) = (a \div Word) * Word
  BY DEF RoundUp
<1>4. Words(RoundUp(n))
  BY <1>2, <1>3 DEF Words
<1>5. RoundUp(n) = a - (a % Word)
  <2>1. (a \div Word) * Word \in Int
    BY <1>1, <1>2
  <2> QED BY <1>2, <1>3, <2>1
<1>6. RoundUp(n) >= n /\ RoundUp(n) < n + Word
  BY <1>1, <1>2, <1>5
<1> QED BY <1>1, <1>2, <1>4, <1>5, <1>6

LEMMA RoundUpShift ==
  ASSUME NEW x \in Nat, Words(x), NEW n \in Nat
  PROVE  RoundUp(x + n) = x + RoundUp(n)
<1> DEFINE a == n + Word - 1
<1>1. Word \in Nat \ {0}
  BY RingAssumption
<1>2. PICK q \in Nat : x = q * Word
  BY DEF Words
<1>3. /\ a \in Nat /\ a \div Word \in Nat /\ a % Word \in 0..(Word - 1)
      /\ a = (a \div Word) * Word + (a % Word)
  BY <1>1
<1>4. (q + (a \div Word)) * Word = x + (a \div Word) * Word
  BY <1>1, <1>2, <1>3
<1>5. x + n + Word - 1 = (q + (a \div Word)) * Word + (a % Word)
  BY <1>1, <1>3, <1>4
<1>6. (x + n + Word - 1) \div Word = q + (a \div Word)
  <2>1. q + (a \div Word) \in Nat
    BY <1>3
  <2> HIDE DEF a
  <2> QED BY <1>1, <1>3, <1>5, <2>1, Quotient
<1> QED BY <1>4, <1>6 DEF RoundUp

LEMMA WordsFacts ==
  /\ Words(0) /\ Words(RingSize) /\ Words(2 * Word)
  /\ \A x, y \in Nat : Words(x) /\ Words(y) => Words(x + y)
  /\ \A x, y \in Nat : Words(x) /\ Words(y) /\ x >= y => Words(x - y)
  /\ \A x \in Nat : Words(x) /\ x > Word => x >= 2 * Word
<1>1. Word \in Nat \ {0} /\ RingSize \in Nat /\ RingSize % Word = 0
  BY RingAssumption
<1>2. Words(0) /\ Words(2 * Word)
  BY <1>1 DEF Words
<1>3. Words(RingSize)
  <2>1. RingSize = (RingSize \div Word) * Word /\ RingSize \div Word \in Nat
    BY <1>1
  <2> QED BY <2>1 DEF Words
<1>4. ASSUME NEW x \in Nat, NEW y \in Nat, Words(x), Words(y)
      PROVE  Words(x + y) /\ (x >= y => Words(x - y))
  <2>1. PICK p \in Nat, q \in Nat : x = p * Word /\ y = q * Word
    BY <1>4 DEF Words
  <2>2. x + y = (p + q) * Word /\ x - y = (p - q) * Word
    BY <1>1, <2>1
  <2>3. x >= y => p >= q
    <3> SUFFICES ASSUME q >= p + 1 PROVE y > x
      BY <2>1
    <3>1. q * Word >= (p + 1) * Word
      BY <1>1
    <3> QED BY <1>1, <2>1, <3>1
  <2>4. x >= y => p - q \in Nat
    BY <2>3
  <2> QED BY <2>2, <2>4 DEF Words
<1>5. ASSUME NEW x \in Nat, Words(x), x > Word PROVE x >= 2 * Word
  <2>1. PICK q \in Nat : x = q * Word
    BY <1>5 DEF Words
  <2>2. q >= 2
    BY <1>1, <1>5, <2>1
  <2>3. q * Word >= 2 * Word
    BY <1>1, <2>2
  <2> QED BY <2>1, <2>3
<1> QED BY <1>2, <1>3, <1>4, <1>5

LEMMA TakenFacts ==
  ASSUME NEW f \in Received
  PROVE  /\ f.size \in Nat /\ f.size > Crc /\ f.size >= 1
         /\ Taken(f) \in Nat /\ Words(Taken(f))
         /\ Taken(f) >= Word + f.size /\ Taken(f) >= 2 * Word
<1>1. /\ f.size \in Nat /\ f.size > Crc /\ Crc \in Nat
      /\ Word \in Nat \ {0}
  BY FrameAssumption, RingAssumption DEF Received
<1>2. Word + f.size \in Nat
  BY <1>1
<1>3. /\ Taken(f) \in Nat /\ Words(Taken(f)) /\ Taken(f) >= Word + f.size
  BY <1>2, RoundUpFacts DEF Taken
<1>4. f.size >= 1 /\ Taken(f) > Word
  BY <1>1, <1>3
<1>5. Taken(f) >= 2 * Word
  BY <1>3, <1>4, WordsFacts
<1> QED BY <1>1, <1>3, <1>4, <1>5

-----------------------------------------------------------------------------
(* The invariant.  Cell(d) is d bytes ahead of the driver.                 *)
Cell(d) == IF rx_cur + d >= R THEN rx_cur + d - R ELSE rx_cur + d

Waits == Len(on_ring)

RingTypeOK ==
  /\ ring \in [0..(R - 1) -> Bytes]
  /\ written \in 0..(R - 1) /\ rx_cur \in 0..(R - 1) /\ Words(rx_cur)
  /\ on_ring \in Seq(Received)
  /\ rok \in BOOLEAN /\ late \in BOOLEAN /\ was_reset \in BOOLEAN
  /\ ipc \in {"off", "test", "ack"}

(* CAPR says where the driver is.                                          *)
Told == CardRead = rx_cur

(* The frames lie on the ring one behind the other, from the driver's      *)
(* place to the card's; start[i] is the distance to the i-th one.          *)
Starts == [1..(Waits + 1) -> 0..(R - 1)]

Apart(start) ==
  /\ start[1] = 0
  /\ written = Cell(start[Waits + 1])
  /\ \A i \in 1..Waits : \A j \in 1..(Waits + 1) :
       i < j => start[i] + Taken(on_ring[i]) <= start[j]
  /\ \A i \in 1..Waits : start[i + 1] = start[i] + Taken(on_ring[i])

(* Every byte of them is its own, but for a header the card has spoilt.    *)
Whole(start) ==
  \A i \in 1..Waits : \A k \in 0..(Word + on_ring[i].size - 1) :
    \/ ring[Cell(start[i] + k)] = [frame |-> on_ring[i], byte |-> k]
    \/ i = 1 /\ k = 0 /\ ring[rx_cur] = Erased

LaidOut == \E start \in Starts : Apart(start) /\ Whole(start)

(* After a reset the driver waits two words ahead, for ever.               *)
StuckAfterReset ==
  /\ rx_cur = 2 * Word /\ written = 0 /\ on_ring = <<>>
  /\ \A i \in 0..(R - 1) : ring[i] = Erased

Announced ==
  /\ FrameIsAnnounced
  /\ ipc = "ack" => BufferEmpty \/ late

NicInv ==
  /\ RingTypeOK /\ Told /\ Announced
  /\ IF was_reset THEN StuckAfterReset ELSE LaidOut

-----------------------------------------------------------------------------
(* Places on the ring.                                                     *)

LEMMA Sizes == /\ R \in Nat /\ Word \in Nat /\ Word > 0 /\ R > 2 * Word
               /\ RegMod \in Nat /\ RegMod >= R /\ Gap \in 0..RegMod
               /\ Crc \in Nat
BY RingAssumption, FrameAssumption DEF R

LEMMA CellFacts ==
  ASSUME RingTypeOK
  PROVE  /\ Cell(0) = rx_cur
         /\ \A d \in 0..(R - 1) : Cell(d) \in 0..(R - 1)
         /\ \A d, e \in 0..(R - 1) : d # e => Cell(d) # Cell(e)
         /\ \A d, u \in 0..(R - 1) :
              (Cell(d) + R - Cell(u)) % R = IF d >= u THEN d - u ELSE d - u + R
<1> USE Sizes
<1>1. rx_cur \in 0..(R - 1)
  BY DEF RingTypeOK
<1>2. \A d \in 0..(R - 1) : Cell(d) \in 0..(R - 1)
  BY <1>1 DEF Cell
<1>3. ASSUME NEW d \in 0..(R - 1), NEW u \in 0..(R - 1)
      PROVE (Cell(d) + R - Cell(u)) % R = IF d >= u THEN d - u ELSE d - u + R
  <2> DEFINE x == Cell(d) + R - Cell(u)
  <2> DEFINE y == IF d >= u THEN d - u ELSE d - u + R
  <2>1. x = y \/ x = y + R
    BY <1>1 DEF Cell
  <2>2. y \in 0..(R - 1)
    OBVIOUS
  <2>3. y % R = y /\ (y + R) % R = y
    <3> HIDE DEF y
    <3>1. y + R \in R..(2 * R - 1) /\ (y + R) - R = y
      BY <2>2
    <3> QED BY <2>2, <3>1, Remainder
  <2> QED BY <2>1, <2>3
<1> QED BY <1>1, <1>2, <1>3 DEF Cell

(* CAPR holds what it was told.                                            *)
LEMMA CaprFact ==
  ASSUME NEW x \in 0..(R - 1)
  PROVE  ((((x + RegMod - Gap) % RegMod) + Gap) % RegMod) % R = x
<1> USE Sizes
<1>1. x % R = x
  BY Remainder
<1>2. x % RegMod = x /\ (x + RegMod) % RegMod = x
  <2>1. /\ x \in 0..(RegMod - 1) /\ x + RegMod \in RegMod..(2 * RegMod - 1)
        /\ (x + RegMod) - RegMod = x
    OBVIOUS
  <2> QED BY <2>1, Remainder
<1>3. CASE x >= Gap
  <2> DEFINE y == x + RegMod - Gap
  <2>1. /\ y \in RegMod..(2 * RegMod - 1) /\ y - RegMod = x - Gap
        /\ RegMod \in Nat \ {0}
    BY <1>3
  <2>2. y % RegMod = x - Gap
    <3> HIDE DEF y
    <3> QED BY <2>1, Remainder
  <2>3. (x - Gap) + Gap = x
    OBVIOUS
  <2> QED BY <1>1, <1>2, <2>2, <2>3
<1>4. CASE x < Gap
  <2> DEFINE y == x + RegMod - Gap
  <2>1. y \in 0..(RegMod - 1) /\ RegMod \in Nat \ {0}
    BY <1>4
  <2>2. y % RegMod = y
    <3> HIDE DEF y
    <3> QED BY <2>1, Remainder
  <2>3. (x + RegMod - Gap) + Gap = x + RegMod
    OBVIOUS
  <2> QED BY <1>1, <1>2, <2>2, <2>3
<1> QED BY <1>3, <1>4

(* The rounding of rx_cur goes to where the next frame begins.             *)
LEMMA OffsetFact ==
  ASSUME RingTypeOK, NEW f \in Received, Taken(f) \in 0..(R - 1)
  PROVE  /\ Offset(f.size) = Cell(Taken(f))
         /\ Offset(f.size) \in 0..(R - 1) /\ Words(Offset(f.size))
<1> USE Sizes
<1>1. /\ rx_cur \in 0..(R - 1) /\ Words(rx_cur) /\ f.size \in Nat
      /\ Words(Taken(f))
  BY TakenFacts DEF RingTypeOK
<1>2. RoundUp(rx_cur + f.size + Word) = rx_cur + Taken(f)
  <2>1. Word + f.size \in Nat /\ rx_cur + (Word + f.size) = rx_cur + f.size + Word
    BY <1>1
  <2>2. RoundUp(rx_cur + (Word + f.size)) = rx_cur + RoundUp(Word + f.size)
    BY <1>1, <2>1, RoundUpShift
  <2> QED BY <2>1, <2>2 DEF Taken
<1>3. Words(rx_cur + Taken(f)) /\ Words(R)
  BY <1>1, WordsFacts DEF R
<1> DEFINE y == rx_cur + Taken(f)
<1>4. Offset(f.size) = y % R /\ R \in Nat \ {0}
  BY <1>2 DEF Offset, R
<1>5. CASE rx_cur + Taken(f) < R
  <2>1. Offset(f.size) = rx_cur + Taken(f)
    <3>1. y \in 0..(R - 1)
      BY <1>1, <1>5
    <3> HIDE DEF y
    <3>2. y % R = y
      BY <1>4, <3>1, Remainder
    <3> QED BY <1>1, <1>4, <3>2 DEF y
  <2> QED BY <1>1, <1>3, <1>5, <2>1 DEF Cell
<1>6. CASE rx_cur + Taken(f) >= R
  <2>1. rx_cur + Taken(f) \in R..(2 * R - 1)
    BY <1>1, <1>6
  <2>2. Offset(f.size) = rx_cur + Taken(f) - R
    <3>1. y \in R..(2 * R - 1)
      BY <2>1
    <3> HIDE DEF y
    <3>2. y % R = y - R
      BY <1>4, <3>1, Remainder
    <3> QED BY <1>1, <1>4, <3>2 DEF y
  <2>3. Words(rx_cur + Taken(f) - R)
    BY <1>1, <1>3, <1>6, WordsFacts
  <2> QED BY <1>1, <1>6, <2>2, <2>3 DEF Cell
<1> QED BY <1>1, <1>5, <1>6

LEMMA LayoutFacts ==
  ASSUME RingTypeOK, Told, NEW start \in Starts, Apart(start)
  PROVE  /\ Waits \in Nat /\ (Waits = 0 <=> on_ring = <<>>)
         /\ \A i \in 1..Waits : on_ring[i] \in Received
         /\ start[Waits + 1] \in 0..(R - 1)
         /\ Used = start[Waits + 1]
         /\ BufferEmpty <=> Waits = 0
         /\ \A i \in 1..Waits : \A k \in 0..(Taken(on_ring[i]) - 1) :
              /\ start[i] + k \in 0..(R - 1)
              /\ start[i] + k < start[Waits + 1]
<1> USE Sizes
<1>1. /\ Waits \in Nat /\ (Waits = 0 <=> on_ring = <<>>)
      /\ \A i \in 1..Waits : on_ring[i] \in Received
  BY DEF RingTypeOK, Waits
<1>2. \A i \in 1..(Waits + 1) : start[i] \in 0..(R - 1)
  BY DEF Starts
<1>3. Waits + 1 \in 1..(Waits + 1) /\ 1 \in 1..(Waits + 1)
  BY <1>1
<1>4. \A i \in 1..Waits : /\ Taken(on_ring[i]) \in Nat \ {0}
                          /\ start[i] \in 0..(R - 1)
                          /\ start[i] + Taken(on_ring[i]) <= start[Waits + 1]
  <2> TAKE i \in 1..Waits
  <2>1. Taken(on_ring[i]) \in Nat /\ Taken(on_ring[i]) >= 2 * Word
    BY <1>1, TakenFacts
  <2>2. i < Waits + 1 /\ i \in 1..(Waits + 1)
    BY <1>1
  <2>3. start[i] + Taken(on_ring[i]) <= start[Waits + 1]
    BY <1>3, <2>2 DEF Apart
  <2> QED BY <1>2, <2>1, <2>2, <2>3
<1>5. start[Waits + 1] \in 0..(R - 1) /\ start[1] = 0
  BY <1>2, <1>3 DEF Apart
<1>6. Used = start[Waits + 1]
  <2>1. Used = (Cell(start[Waits + 1]) + R - Cell(0)) % R
    BY CellFacts DEF Used, Told, Apart, R
  <2>2. 0 \in 0..(R - 1) /\ start[Waits + 1] >= 0
        /\ start[Waits + 1] - 0 = start[Waits + 1]
    BY <1>5
  <2> QED BY <1>5, <2>1, <2>2, CellFacts
<1>7. BufferEmpty <=> start[Waits + 1] = 0
  <2>1. BufferEmpty <=> Cell(start[Waits + 1]) = Cell(0)
    BY CellFacts DEF BufferEmpty, Told, Apart
  <2> QED BY <1>5, <2>1, CellFacts
<1>8. BufferEmpty <=> Waits = 0
  <2>1. CASE Waits = 0
    BY <1>5, <1>7, <2>1
  <2>2. CASE Waits # 0
    <3>1. 1 \in 1..Waits
      BY <1>1, <2>2
    <3> QED BY <1>4, <1>5, <1>7, <2>2, <3>1
  <2> QED BY <2>1, <2>2
<1> QED BY <1>1, <1>4, <1>5, <1>6, <1>8

-----------------------------------------------------------------------------
(* Initially.                                                              *)

LEMMA NicInitInv == NicInit => NicInv
<1> SUFFICES ASSUME NicInit PROVE NicInv
  OBVIOUS
<1> USE Sizes
<1>1. RingTypeOK
  <2>1. 0 \in 0..(R - 1) /\ Words(0) /\ <<>> \in Seq(Received)
    BY WordsFacts, EmptySeq
  <2> QED BY <2>1 DEF NicInit, RingTypeOK, Bytes, R
<1>2. Told
  <2>1. capr = (0 + RegMod - Gap) % RegMod /\ rx_cur = 0
    BY DEF NicInit
  <2> QED BY <2>1, CaprFact DEF Told, CardRead, R
<1>3. BufferEmpty /\ ipc = "off"
  BY <1>2 DEF NicInit, BufferEmpty, Told
<1>4. LaidOut
  <2> DEFINE start == [i \in 1..1 |-> 0]
  <2>1. Waits = 0
    BY DEF NicInit, Waits
  <2>2. start \in Starts
    BY <2>1 DEF Starts
  <2>3. Cell(0) = 0
    BY <1>1, CellFacts DEF NicInit
  <2>4. Apart(start)
    BY <2>1, <2>3 DEF Apart, NicInit
  <2>5. Whole(start)
    BY <2>1 DEF Whole
  <2> QED BY <2>2, <2>4, <2>5 DEF LaidOut
<1> QED BY <1>1, <1>2, <1>3, <1>4 DEF NicInv, Announced, FrameIsAnnounced,
  NicInit

-----------------------------------------------------------------------------
(* The card's steps.                                                       *)

LEMMA PlaceFact ==
  ASSUME RingTypeOK, NEW f \in Received, NEW u \in 0..(R - 1),
         written = Cell(u), u + Taken(f) < R, NEW d \in 0..(R - 1)
  PROVE  Place(f)[Cell(d)] =
           IF d >= u /\ d - u < Word + f.size
           THEN [frame |-> f, byte |-> d - u] ELSE ring[Cell(d)]
<1> USE Sizes
<1> DEFINE k == (Cell(d) + R - written) % R
<1>1. k = IF d >= u THEN d - u ELSE d - u + R
  BY CellFacts
<1>2. Place(f)[Cell(d)] = IF k < Word + f.size THEN [frame |-> f, byte |-> k]
                          ELSE ring[Cell(d)]
  BY CellFacts DEF Place, R
<1>3. d < u => k >= Word + f.size
  BY <1>1, TakenFacts
<1> HIDE DEF k
<1>4. CASE d >= u
  <2>1. k = d - u /\ f.size \in Nat
    BY <1>1, <1>4, TakenFacts
  <2> QED BY <1>2, <1>4, <2>1
<1>5. CASE d < u
  BY <1>1, <1>2, <1>3, <1>5, TakenFacts
<1> QED BY <1>4, <1>5

LEMMA CellSum ==
  ASSUME RingTypeOK, NEW u \in 0..(R - 1), NEW t \in Nat, u + t < R
  PROVE  (Cell(u) + t) % R = Cell(u + t)
<1> USE Sizes
<1> DEFINE x == Cell(u) + t
<1>1. rx_cur \in 0..(R - 1) /\ u + t \in 0..(R - 1)
  BY DEF RingTypeOK
<1>2. x = Cell(u + t) \/ x = Cell(u + t) + R
  BY <1>1 DEF Cell
<1>3. Cell(u + t) \in 0..(R - 1)
  BY <1>1, CellFacts
<1>4. Cell(u + t) + R \in R..(2 * R - 1) /\ (Cell(u + t) + R) - R = Cell(u + t)
  BY <1>3
<1>5. x % R = Cell(u + t)
  <2> DEFINE y == Cell(u + t)
  <2>1. R \in Nat \ {0} /\ y % R = y
    <3>1. y \in 0..(R - 1)
      BY <1>3
    <3> HIDE DEF y
    <3> QED BY <3>1, Remainder
  <2>2. (y + R) % R = y
    <3> DEFINE z == y + R
    <3>1. z \in R..(2 * R - 1) /\ z - R = y
      BY <1>4
    <3>2. z % R = z - R
      <4> HIDE DEF z
      <4> QED BY <2>1, <3>1, Remainder
    <3> QED BY <3>1, <3>2
  <2> HIDE DEF x, y
  <2> QED BY <1>2, <2>1, <2>2 DEF y
<1> QED BY <1>5

(* A byte of a frame lies inside what the frame takes.                     *)
LEMMA Inside ==
  ASSUME NEW size \in Nat, NEW t \in Nat, t >= Word + size,
         NEW k \in 0..(Word + size - 1)
  PROVE  /\ k \in 0..(t - 1) /\ k < Word + size
         /\ \A u \in 0..(R - 1) : u + t < R =>
              u + k \in 0..(R - 1) /\ u + k >= u /\ (u + k) - u = k
BY Sizes

LEMMA CardReceivesKeeps ==
  ASSUME NicInv, NEW f \in Received, CardReceives(f)
  PROVE  NicInv'
<1> USE Sizes
<1> DEFINE T == Taken(f)
<1>1. /\ Used + T < R /\ ring' = Place(f) /\ written' = (written + T) % R
      /\ rok' = TRUE /\ on_ring' = Append(on_ring, f)
      /\ late' = (late \/ ipc = "ack")
      /\ UNCHANGED <<capr, rx_cur, ipc, was_reset>>
  BY DEF CardReceives, driver, R
<1>2. RingTypeOK /\ Told /\ Announced
  BY DEF NicInv
<1>3. T \in Nat /\ T >= Word + f.size /\ T >= 2 * Word /\ f.size \in Nat
  BY TakenFacts
<1>4. ~was_reset
  <2> SUFFICES ASSUME was_reset PROVE FALSE
    OBVIOUS
  <2>1. CardRead = 2 * Word /\ written = 0
    BY <1>2 DEF NicInv, StuckAfterReset, Told
  <2> DEFINE x == R - 2 * Word
  <2>2. x \in 0..(R - 1) /\ 0 + R - 2 * Word = x
    OBVIOUS
  <2>3. x % R = x
    <3> HIDE DEF x
    <3> QED BY <2>2, Remainder
  <2>4. Used = R - 2 * Word
    BY <2>1, <2>2, <2>3 DEF Used, R
  <2> QED BY <1>1, <1>3, <2>4
<1>5. PICK start \in Starts : Apart(start) /\ Whole(start)
  BY <1>4 DEF NicInv, LaidOut
<1>6. PICK n \in Nat, u \in 0..(R - 1) :
        /\ n = Waits /\ u = start[n + 1] /\ Used = u
        /\ \A i \in 1..n : on_ring[i] \in Received
        /\ start \in [1..(n + 1) -> 0..(R - 1)]
  BY <1>2, <1>5, LayoutFacts DEF Starts
<1>7. /\ u \in 0..(R - 1) /\ u + T \in 0..(R - 1) /\ u + T < R
      /\ f.size \in Nat /\ T \in Nat /\ T >= Word + f.size
  BY <1>1, <1>3, <1>6
<1>16. written = Cell(u)
  BY <1>5, <1>6 DEF Apart
<1>8. written' = Cell(u + T) /\ written' \in 0..(R - 1)
  <2>1. (Cell(u) + T) % R = Cell(u + T)
    BY <1>2, <1>7, CellSum
  <2>2. Cell(u + T) \in 0..(R - 1)
    BY <1>2, <1>7, CellFacts
  <2> QED BY <1>1, <1>16, <2>1, <2>2
<1>9. /\ Waits' = n + 1 /\ on_ring' \in Seq(Received)
      /\ \A i \in 1..n : on_ring'[i] = on_ring[i]
      /\ on_ring'[n + 1] = f
  <2>1. on_ring \in Seq(Received) /\ n = Len(on_ring)
    BY <1>2, <1>6 DEF RingTypeOK, Waits
  <2>2. /\ on_ring' \in Seq(Received) /\ Len(on_ring') = Len(on_ring) + 1
        /\ \A i \in 1..Len(on_ring) : on_ring'[i] = on_ring[i]
        /\ on_ring'[Len(on_ring) + 1] = f
    BY <1>1, <2>1, AppendProperties
  <2> QED BY <2>1, <2>2 DEF Waits
<1>10. \A d : Cell(d)' = Cell(d)
  BY <1>1 DEF Cell
<1>11. \A g : Taken(g)' = Taken(g)
  BY DEF Taken, RoundUp
<1>12. RingTypeOK'
  <2>1. ring' \in [0..(R - 1) -> Bytes]
    <3>1. ASSUME NEW i \in 0..(R - 1)
          PROVE (i + R - written) % R \in Nat
      <4>1. i + R - written \in Nat
        BY <1>2 DEF RingTypeOK
      <4> HIDE DEF R
      <4> QED BY <4>1, Remainder
    <3>2. ring \in [0..(R - 1) -> Bytes] /\ f \in Received
      BY <1>2 DEF RingTypeOK
    <3> QED BY <1>1, <3>1, <3>2 DEF Place, Bytes, R
  <2> QED BY <1>1, <1>2, <1>8, <1>9, <2>1 DEF RingTypeOK
<1>13. Told'
  BY <1>1, <1>2 DEF Told, CardRead
<1>14. LaidOut'
  <2>1. PICK next \in [1..(n + 2) -> 0..(R - 1)] :
          /\ next[n + 2] = u + T
          /\ \A i \in 1..(n + 1) : next[i] = start[i]
    <3> DEFINE g == [i \in 1..(n + 2) |-> IF i = n + 2 THEN u + T ELSE start[i]]
    <3>1. g \in [1..(n + 2) -> 0..(R - 1)]
      BY <1>6, <1>7
    <3>2. g[n + 2] = u + T /\ \A i \in 1..(n + 1) : g[i] = start[i]
      OBVIOUS
    <3> HIDE DEF g
    <3> QED BY <3>1, <3>2
  <2>2. next \in Starts'
    BY <1>6, <1>9, <2>1 DEF Starts
  <2>3. Apart(next)'
    <3>1. next[1] = 0 /\ written' = Cell(next[n + 2])'
      BY <1>5, <1>6, <1>8, <1>10, <2>1 DEF Apart
    <3>2. ASSUME NEW i \in 1..(n + 1)
          PROVE  /\ next[i + 1] = next[i] + Taken(on_ring'[i])
                 /\ \A j \in 1..(n + 2) :
                      i < j => next[i] + Taken(on_ring'[i]) <= next[j]
      <4>1. CASE i = n + 1
        BY <1>3, <1>6, <1>9, <2>1, <4>1
      <4>2. CASE i \in 1..n
        <5>1. /\ on_ring'[i] = on_ring[i] /\ next[i] = start[i]
              /\ next[i + 1] = start[i + 1]
          BY <1>6, <1>9, <2>1, <4>2
        <5>2. start[i + 1] = start[i] + Taken(on_ring[i])
          BY <1>5, <1>6, <4>2 DEF Apart
        <5>3. \A j \in 1..(n + 1) : i < j => start[i] + Taken(on_ring[i]) <= start[j]
          BY <1>5, <1>6, <4>2 DEF Apart
        <5>4. start[i] + Taken(on_ring[i]) <= u
          BY <1>6, <4>2, <5>3
        <5>5. /\ start[i] \in Nat /\ Taken(on_ring[i]) \in Nat
              /\ \A j \in 1..(n + 1) : start[j] \in Nat
          BY <1>6, <4>2, TakenFacts
        <5>6. start[i] + Taken(on_ring[i]) <= u + T
          BY <1>3, <1>6, <5>4, <5>5
        <5> QED BY <1>6, <2>1, <5>1, <5>2, <5>3, <5>6
      <4> QED BY <1>6, <4>1, <4>2
    <3> QED BY <1>6, <1>9, <1>11, <3>1, <3>2 DEF Apart
  <2>4. Whole(next)'
    <3> SUFFICES ASSUME NEW i \in 1..(n + 1),
                        NEW k \in 0..(Word + on_ring'[i].size - 1)
                 PROVE  \/ ring'[Cell(next[i] + k)]
                             = [frame |-> on_ring'[i], byte |-> k]
                        \/ i = 1 /\ k = 0 /\ ring'[rx_cur] = Erased
      BY <1>1, <1>9, <1>10 DEF Whole
    <3>1. CASE i = n + 1
      <4>1. k \in 0..(Word + f.size - 1) /\ next[i] = u
        BY <1>6, <1>9, <2>1, <3>1
      <4>2. u + k \in 0..(R - 1) /\ u + k >= u /\ (u + k) - u = k
            /\ k < Word + f.size
        <5>1. k \in 0..(Word + f.size - 1)
          BY <4>1
        <5>2. f.size \in Nat /\ T \in Nat /\ T >= Word + f.size
          BY <1>7
        <5>3. /\ k < Word + f.size
              /\ \A v \in 0..(R - 1) : v + T < R =>
                   v + k \in 0..(R - 1) /\ v + k >= v /\ (v + k) - v = k
          BY <5>1, <5>2, Inside
        <5> QED BY <1>7, <5>3
      <4>3. ring'[Cell(u + k)] = [frame |-> f, byte |-> k]
        BY <1>1, <1>2, <1>7, <1>16, <4>2, PlaceFact
      <4> QED BY <1>9, <3>1, <4>1, <4>3
    <3>2. CASE i \in 1..n
      <4>1. on_ring'[i] = on_ring[i] /\ next[i] = start[i]
        BY <1>6, <1>9, <2>1, <3>2
      <4>2. k \in 0..(Taken(on_ring[i]) - 1)
        <5>1. on_ring[i] \in Received
          BY <1>6, <3>2
        <5>2. k \in 0..(Word + on_ring[i].size - 1)
          BY <4>1
        <5> QED BY <5>1, <5>2, TakenFacts, Inside
      <4>3. start[i] + k \in 0..(R - 1) /\ start[i] + k < u
        <5>1. i \in 1..Waits /\ u = start[Waits + 1]
          BY <1>6, <3>2
        <5> QED BY <1>2, <1>5, <4>2, <5>1, LayoutFacts
      <4>4. ring'[Cell(start[i] + k)] = ring[Cell(start[i] + k)]
        <5> DEFINE d == start[i] + k
        <5>1. d \in 0..(R - 1) /\ ~(d >= u)
          BY <1>7, <4>3
        <5> HIDE DEF d
        <5>2. ring'[Cell(d)] = ring[Cell(d)]
          BY <1>1, <1>2, <1>7, <1>16, <5>1, PlaceFact
        <5> QED BY <5>2 DEF d
      <4>5. i = 1 /\ k = 0 => Cell(start[i] + k) = rx_cur
        <5>1. start[1] + 0 = 0
          BY <1>5 DEF Apart
        <5> QED BY <1>2, <5>1, CellFacts
      <4>6. \/ ring[Cell(start[i] + k)] = [frame |-> on_ring[i], byte |-> k]
            \/ i = 1 /\ k = 0 /\ ring[rx_cur] = Erased
        <5>1. i \in 1..Waits /\ k \in 0..(Word + on_ring[i].size - 1)
          BY <1>6, <3>2, <4>1
        <5> QED BY <1>5, <5>1 DEF Whole
      <4> QED BY <4>1, <4>4, <4>5, <4>6
    <3> QED BY <1>6, <3>1, <3>2
  <2> QED BY <2>2, <2>3, <2>4 DEF LaidOut
<1>15. Announced'
  BY <1>1, <1>2 DEF Announced, FrameIsAnnounced
<1> QED BY <1>1, <1>4, <1>12, <1>13, <1>14, <1>15 DEF NicInv

LEMMA CardFaultsKeeps == ASSUME NicInv, CardFaults PROVE NicInv'
<1>1. /\ ring' = [ring EXCEPT ![CardRead] = Erased] /\ ~was_reset
      /\ UNCHANGED <<written, capr, rok, rx_cur, ipc, on_ring, late, was_reset>>
  BY DEF CardFaults, driver, record
<1>2. RingTypeOK /\ Told /\ Announced /\ LaidOut
  BY <1>1 DEF NicInv
<1>3. ring' = [ring EXCEPT ![rx_cur] = Erased] /\ rx_cur \in 0..(R - 1)
  BY <1>1, <1>2 DEF Told, RingTypeOK
<1>4. RingTypeOK'
  BY <1>1, <1>2, <1>3 DEF RingTypeOK, Bytes
<1>5. Told' /\ Announced'
  BY <1>1, <1>2 DEF Told, CardRead, Announced, FrameIsAnnounced, BufferEmpty
<1>6. PICK start \in Starts : Apart(start) /\ Whole(start)
  BY <1>2 DEF LaidOut
<1>7. Waits' = Waits /\ (\A d : Cell(d)' = Cell(d)) /\ \A g : Taken(g)' = Taken(g)
  BY <1>1 DEF Waits, Cell, Taken, RoundUp
<1>8. start \in Starts' /\ Apart(start)'
  BY <1>1, <1>6, <1>7 DEF Starts, Apart
<1>9. Whole(start)'
  <2> SUFFICES ASSUME NEW i \in 1..Waits,
                      NEW k \in 0..(Word + on_ring[i].size - 1)
               PROVE  \/ ring'[Cell(start[i] + k)]
                           = [frame |-> on_ring[i], byte |-> k]
                      \/ i = 1 /\ k = 0 /\ ring'[rx_cur] = Erased
    BY <1>1, <1>7 DEF Whole
  <2>1. /\ on_ring[i] \in Received /\ Waits \in Nat
        /\ i \in 1..(Waits + 1) /\ 1 \in 1..Waits
    BY <1>2, <1>6, LayoutFacts
  <2>2. k \in 0..(Taken(on_ring[i]) - 1)
    BY <2>1, TakenFacts, Inside
  <2>3. start[i] + k \in 0..(R - 1) /\ 0 \in 0..(R - 1)
    BY <1>2, <1>6, <2>2, LayoutFacts, Sizes
  <2>4. CASE start[i] + k = 0
    <3>1. start[i] = 0 /\ k = 0
      BY <1>6, <2>1, <2>4 DEF Starts
    <3>2. i = 1
      <4> SUFFICES ASSUME 1 < i PROVE FALSE
        BY <2>1
      <4>1. start[1] + Taken(on_ring[1]) <= start[i] /\ start[1] = 0
        BY <1>6, <2>1 DEF Apart
      <4>2. Taken(on_ring[1]) \in Nat /\ Taken(on_ring[1]) >= 2 * Word
        BY <1>2, <1>6, <2>1, LayoutFacts, TakenFacts
      <4> QED BY <3>1, <4>1, <4>2, Sizes
    <3>3. ring'[rx_cur] = Erased
      BY <1>2, <1>3 DEF RingTypeOK
    <3> QED BY <3>1, <3>2, <3>3
  <2>5. CASE start[i] + k # 0
    <3>1. Cell(start[i] + k) # rx_cur /\ Cell(start[i] + k) \in 0..(R - 1)
      BY <1>2, <2>3, <2>5, CellFacts
    <3>2. ring'[Cell(start[i] + k)] = ring[Cell(start[i] + k)]
      BY <1>2, <1>3, <3>1 DEF RingTypeOK
    <3>3. ring'[rx_cur] = Erased
      BY <1>2, <1>3 DEF RingTypeOK
    <3> QED BY <1>6, <3>2, <3>3 DEF Whole
  <2> QED BY <2>4, <2>5
<1> QED BY <1>1, <1>4, <1>5, <1>6, <1>8, <1>9 DEF NicInv, LaidOut

-----------------------------------------------------------------------------
(* The driver's steps.                                                     *)

(* What rtl8139_receive_frame finds is the header of the next frame.       *)
LEMMA HeaderFact ==
  ASSUME NicInv, ~BufferEmpty, ring[rx_cur] # Erased
  PROVE  /\ ~was_reset /\ on_ring # <<>>
         /\ Head(on_ring) \in Received /\ Head(on_ring) = on_ring[1]
         /\ ring[rx_cur] = [frame |-> Head(on_ring), byte |-> 0]
         /\ ring[rx_cur].frame = Head(on_ring)
<1>1. RingTypeOK /\ Told /\ rx_cur \in 0..(R - 1)
  BY DEF NicInv, RingTypeOK
<1>2. ~was_reset
  BY <1>1 DEF NicInv, StuckAfterReset
<1>3. PICK start \in Starts : Apart(start) /\ Whole(start)
  BY <1>2 DEF NicInv, LaidOut
<1>4. Waits \in Nat /\ Waits # 0 /\ on_ring # <<>> /\ 1 \in 1..Waits
  BY <1>1, <1>3, LayoutFacts
<1>5. /\ Head(on_ring) = on_ring[1] /\ on_ring[1] \in Received
      /\ on_ring \in Seq(Received)
  BY <1>1, <1>4 DEF RingTypeOK, Waits
<1>6. 0 \in 0..(Word + on_ring[1].size - 1)
  BY <1>5, TakenFacts, Sizes
<1>7. Cell(start[1] + 0) = rx_cur
  <2>1. start[1] + 0 = 0
    BY <1>3 DEF Apart
  <2> QED BY <1>1, <2>1, CellFacts
<1>8. ring[rx_cur] = [frame |-> on_ring[1], byte |-> 0]
  BY <1>3, <1>4, <1>6, <1>7 DEF Whole
<1> QED BY <1>2, <1>4, <1>5, <1>8

(* What is copied is the frame, unless the card has wrapped it.            *)
LEMMA CopyFact ==
  ASSUME NicInv, ~BufferEmpty, ring[rx_cur] # Erased
  PROVE  Copy(Head(on_ring)) = IF Wrapped THEN Torn ELSE Head(on_ring)
<1> DEFINE f == Head(on_ring)
<1>1. RingTypeOK /\ Told /\ rx_cur \in 0..(R - 1)
  BY DEF NicInv, RingTypeOK
<1>2. ~was_reset /\ on_ring # <<>> /\ f \in Received /\ f = on_ring[1]
  BY HeaderFact
<1>3. PICK start \in Starts : Apart(start) /\ Whole(start)
  BY <1>2 DEF NicInv, LaidOut
<1>4. 1 \in 1..Waits /\ start[1] = 0
  BY <1>1, <1>2, <1>3, LayoutFacts DEF Apart
<1>5. /\ f.size \in Nat /\ f.size > Crc /\ Crc \in Nat /\ Word \in Nat
      /\ Word > 0 /\ R \in Nat
  BY <1>2, TakenFacts, Sizes
<1>6. ASSUME NEW k \in Word..(Word + f.size - Crc - 1), rx_cur + k < R
      PROVE  ring[rx_cur + k] = [frame |-> f, byte |-> k]
  <2>1. k \in 0..(Word + on_ring[1].size - 1) /\ k # 0
    BY <1>2, <1>5
  <2>2. ring[Cell(start[1] + k)] = [frame |-> on_ring[1], byte |-> k]
    BY <1>3, <1>4, <2>1 DEF Whole
  <2>3. Cell(start[1] + k) = rx_cur + k
    <3>1. start[1] + k = k
      BY <1>4, <1>5
    <3>2. ~(rx_cur + k >= R)
      BY <1>1, <1>5, <1>6
    <3> QED BY <3>1, <3>2 DEF Cell
  <2> QED BY <1>2, <2>2, <2>3
<1>7. CASE Wrapped
  <2> DEFINE k == Word + f.size - Crc - 1
  <2>1. k \in Word..(Word + f.size - Crc - 1)
    BY <1>5
  <2>2. ~(rx_cur + k < R)
    BY <1>1, <1>5, <1>7 DEF Wrapped, R
  <2> QED BY <1>7, <2>1, <2>2 DEF Copy, R
<1>8. CASE ~Wrapped
  <2> SUFFICES ASSUME NEW k \in Word..(Word + f.size - Crc - 1)
               PROVE  rx_cur + k < R /\ ring[rx_cur + k] = [frame |-> f, byte |-> k]
    BY <1>8 DEF Copy, R
  <2>1. rx_cur + k < R
    BY <1>1, <1>5, <1>8 DEF Wrapped, R
  <2> QED BY <1>6, <2>1
<1> QED BY <1>7, <1>8

LEMMA TellFact ==
  ASSUME NEW x \in 0..(R - 1), Tell(x), rx_cur' = x
  PROVE  Told'
<1>1. capr' = (x + RegMod - Gap) % RegMod
  BY DEF Tell
<1> QED BY <1>1, CaprFact DEF Told, CardRead, R

LEMMA ReceiveFrameKeeps == ASSUME NicInv, ReceiveFrame PROVE NicInv'
<1> DEFINE f == Head(on_ring)
<1> DEFINE x == Offset(f.size)
<1>1. /\ ~BufferEmpty /\ ring[rx_cur] # Erased /\ ipc = "test"
      /\ rx_cur' = Offset(ring[rx_cur].frame.size)
      /\ Tell(Offset(ring[rx_cur].frame.size))
      /\ on_ring' = Tail(on_ring)
      /\ UNCHANGED <<ring, written, rok, ipc, late, was_reset>>
  BY DEF ReceiveFrame
<1>2. /\ ~was_reset /\ on_ring # <<>> /\ f \in Received /\ f = on_ring[1]
      /\ rx_cur' = x /\ Tell(x)
  BY <1>1, HeaderFact
<1>3. RingTypeOK /\ Told /\ on_ring \in Seq(Received)
  BY DEF NicInv, RingTypeOK
<1>4. PICK start \in Starts : Apart(start) /\ Whole(start)
  BY <1>2 DEF NicInv, LaidOut
<1>5. PICK n \in Nat, t \in Nat :
        /\ Waits = n + 1 /\ t = Taken(f) /\ t >= 2 * Word
        /\ start \in [1..(n + 2) -> 0..(R - 1)]
  <2>1. Waits \in Nat \ {0}
    BY <1>2, <1>3, <1>4, LayoutFacts
  <2>2. Waits - 1 \in Nat /\ Waits = (Waits - 1) + 1
        /\ (Waits - 1) + 2 = Waits + 1
    BY <2>1
  <2> QED BY <1>2, <2>2, TakenFacts DEF Starts
<1>6. /\ start[1] = 0 /\ start[2] = t /\ t \in 0..(R - 1)
      /\ \A i \in 2..(n + 2) : start[i] >= t
  <2>1. 1 \in 1..Waits /\ \A i \in 2..(n + 2) : 1 < i /\ i \in 1..(Waits + 1)
    BY <1>5
  <2>2. start[1 + 1] = start[1] + t /\ start[1] = 0
    BY <1>2, <1>4, <1>5, <2>1 DEF Apart
  <2>3. \A i \in 2..(n + 2) : start[1] + t <= start[i]
    BY <1>2, <1>4, <1>5, <2>1 DEF Apart
  <2>4. 1 + 1 = 2 /\ 0 + t = t /\ 2 \in 1..(n + 2)
    BY <1>5
  <2> QED BY <1>5, <2>2, <2>3, <2>4
<1>7. x = Cell(t) /\ x \in 0..(R - 1) /\ Words(x)
  BY <1>2, <1>3, <1>5, <1>6, OffsetFact
<1>8. /\ Waits' = n /\ on_ring' \in Seq(Received)
      /\ \A i \in 1..n : on_ring'[i] = on_ring[i + 1]
  <2>1. /\ on_ring' \in Seq(Received) /\ Len(on_ring') = Len(on_ring) - 1
        /\ \A i \in 1..Len(on_ring') : on_ring'[i] = on_ring[i + 1]
    BY <1>1, <1>2, <1>3, HeadTailProperties
  <2>2. Len(on_ring') = n
    BY <1>5, <2>1 DEF Waits
  <2> QED BY <2>1, <2>2 DEF Waits
<1>9. RingTypeOK'
  BY <1>1, <1>2, <1>3, <1>7, <1>8 DEF RingTypeOK
<1>10. Told'
  BY <1>2, <1>7, TellFact
(* The driver is t bytes further on.                                       *)
<1>11. \A d \in 0..(R - 1) : d >= t => Cell(d - t)' = Cell(d)
  <2> TAKE d \in 0..(R - 1)
  <2>1. rx_cur \in 0..(R - 1) /\ R \in Nat
    BY <1>3, Sizes DEF RingTypeOK
  <2>2. rx_cur' = Cell(t)
    BY <1>2, <1>7
  <2>3. Cell(d - t)' = IF Cell(t) + (d - t) >= R THEN Cell(t) + (d - t) - R
                       ELSE Cell(t) + (d - t)
    BY <2>2 DEF Cell
  <2> QED BY <1>6, <2>1, <2>3 DEF Cell
<1>12. PICK next \in [1..(n + 1) -> 0..(R - 1)] :
         \A i \in 1..(n + 1) : next[i] = start[i + 1] - t
  <2> DEFINE g == [i \in 1..(n + 1) |-> start[i + 1] - t]
  <2>1. ASSUME NEW i \in 1..(n + 1) PROVE start[i + 1] - t \in 0..(R - 1)
    <3>1. i + 1 \in 2..(n + 2) /\ i + 1 \in 1..(n + 2)
      OBVIOUS
    <3>2. start[i + 1] >= t /\ start[i + 1] \in 0..(R - 1)
      BY <1>5, <1>6, <3>1
    <3> QED BY <1>6, <3>2, Sizes
  <2>2. g \in [1..(n + 1) -> 0..(R - 1)]
    BY <2>1
  <2>3. \A i \in 1..(n + 1) : g[i] = start[i + 1] - t
    OBVIOUS
  <2> HIDE DEF g
  <2> QED BY <2>2, <2>3
<1>13. \A g : Taken(g)' = Taken(g)
  BY DEF Taken, RoundUp
<1>14. Apart(next)'
  <2>1. next[1] = 0
    <3>1. 1 \in 1..(n + 1) /\ 1 + 1 = 2
      OBVIOUS
    <3> QED BY <1>6, <1>12, <3>1
  <2>2. written' = Cell(next[n + 1])'
    <3>1. n + 1 \in 1..(n + 1) /\ (n + 1) + 1 = n + 2 /\ n + 2 \in 2..(n + 2)
      OBVIOUS
    <3>2. next[n + 1] = start[n + 2] - t /\ start[n + 2] >= t
          /\ start[n + 2] \in 0..(R - 1)
      BY <1>5, <1>6, <1>12, <3>1
    <3>3. written = Cell(start[n + 2])
      BY <1>4, <1>5, <3>1 DEF Apart
    <3>4. Cell(next[n + 1])' = Cell(start[n + 2])
      BY <1>11, <3>2
    <3> QED BY <1>1, <3>3, <3>4
  <2>3. ASSUME NEW i \in 1..n
        PROVE  /\ next[i + 1] = next[i] + Taken(on_ring'[i])
               /\ \A j \in 1..(n + 1) :
                    i < j => next[i] + Taken(on_ring'[i]) <= next[j]
    <3>1. /\ i + 1 \in 1..Waits /\ i \in 1..(n + 1) /\ i + 1 \in 1..(n + 1)
          /\ i + 1 \in 1..(n + 2) /\ (i + 1) + 1 \in 1..(n + 2)
      BY <1>5
    <3>2. on_ring'[i] = on_ring[i + 1] /\ Taken(on_ring[i + 1]) \in Nat
      BY <1>3, <1>4, <1>8, <3>1, LayoutFacts, TakenFacts
    <3>3. start[(i + 1) + 1] = start[i + 1] + Taken(on_ring[i + 1])
      BY <1>4, <3>1 DEF Apart
    <3>4. next[i] = start[i + 1] - t /\ next[i + 1] = start[(i + 1) + 1] - t
      BY <1>12, <3>1
    <3>5. start[i + 1] \in Nat /\ start[(i + 1) + 1] \in Nat
      BY <1>5, <3>1
    <3>6. next[i + 1] = next[i] + Taken(on_ring'[i])
      BY <3>2, <3>3, <3>4, <3>5
    <3>7. ASSUME NEW j \in 1..(n + 1), i < j
          PROVE  next[i] + Taken(on_ring'[i]) <= next[j]
      <4>1. j + 1 \in 1..(Waits + 1) /\ i + 1 < j + 1 /\ j + 1 \in 1..(n + 2)
        BY <1>5, <3>7
      <4>2. start[i + 1] + Taken(on_ring[i + 1]) <= start[j + 1]
        BY <1>4, <3>1, <4>1 DEF Apart
      <4>3. next[j] = start[j + 1] - t /\ start[j + 1] \in Nat
        BY <1>5, <1>12, <4>1
      <4>4. (start[i + 1] - t) + Taken(on_ring[i + 1]) <= start[j + 1] - t
        <5>1. \A a, b, c \in Nat : a + b <= c => (a - t) + b <= c - t
          OBVIOUS
        <5> QED BY <3>2, <3>5, <4>2, <4>3, <5>1
      <4> QED BY <3>2, <3>4, <4>3, <4>4
    <3> QED BY <3>6, <3>7
  <2> QED BY <1>8, <1>13, <2>1, <2>2, <2>3 DEF Apart
<1>15. Whole(next)'
  <2> SUFFICES ASSUME NEW i \in 1..n,
                      NEW k \in 0..(Word + on_ring'[i].size - 1)
               PROVE  ring'[Cell(next[i] + k)'] = [frame |-> on_ring'[i], byte |-> k]
    BY <1>8 DEF Whole
  <2>1. i + 1 \in 1..Waits /\ i + 1 # 1 /\ i + 1 \in 2..(n + 2)
        /\ i + 1 \in 1..(n + 2) /\ i \in 1..(n + 1)
    BY <1>5
  <2>2. on_ring'[i] = on_ring[i + 1] /\ on_ring[i + 1] \in Received
    BY <1>3, <1>4, <1>8, <2>1, LayoutFacts
  <2>3. k \in 0..(Word + on_ring[i + 1].size - 1)
    BY <2>2
  <2>4. k \in 0..(Taken(on_ring[i + 1]) - 1)
    BY <2>2, <2>3, TakenFacts, Inside
  <2>5. start[i + 1] + k \in 0..(R - 1)
    BY <1>3, <1>4, <2>1, <2>4, LayoutFacts
  <2>6. /\ start[i + 1] + k >= t /\ next[i] + k = (start[i + 1] + k) - t
    <3>1. start[i + 1] >= t /\ start[i + 1] \in Nat
      BY <1>5, <1>6, <2>1
    <3>2. next[i] = start[i + 1] - t
      BY <1>12, <2>1
    <3> QED BY <2>4, <3>1, <3>2
  <2>7. Cell(next[i] + k)' = Cell(start[i + 1] + k)
    <3>1. Cell((start[i + 1] + k) - t)' = Cell(start[i + 1] + k)
      BY <1>11, <2>5, <2>6
    <3> QED BY <2>6, <3>1
  <2>8. ring[Cell(start[i + 1] + k)] = [frame |-> on_ring[i + 1], byte |-> k]
    BY <1>4, <2>1, <2>3 DEF Whole
  <2> QED BY <1>1, <2>2, <2>7, <2>8
<1>16. next \in Starts'
  BY <1>8 DEF Starts
<1>17. Announced'
  BY <1>1 DEF Announced, FrameIsAnnounced
<1> QED BY <1>1, <1>2, <1>9, <1>10, <1>14, <1>15, <1>16, <1>17 DEF NicInv, LaidOut

LEMMA ResetKeeps == ASSUME NicInv, Reset PROVE NicInv'
<1>1. /\ ipc = "test" /\ ring' = [i \in 0..(R - 1) |-> Erased]
      /\ written' = 0 /\ rok' = FALSE /\ rx_cur' = 2 * Word /\ Tell(2 * Word)
      /\ on_ring' = <<>> /\ was_reset' = TRUE /\ UNCHANGED <<ipc, late>>
  BY DEF Reset, R
<1>2. 2 * Word \in 0..(R - 1) /\ 0 \in 0..(R - 1) /\ Words(2 * Word)
  BY Sizes, WordsFacts
<1>3. RingTypeOK'
  BY <1>1, <1>2, EmptySeq DEF NicInv, RingTypeOK, Bytes
<1>4. Told'
  BY <1>1, <1>2, TellFact
<1>5. StuckAfterReset' /\ Announced'
  BY <1>1 DEF StuckAfterReset, Announced, FrameIsAnnounced
<1> QED BY <1>1, <1>3, <1>4, <1>5 DEF NicInv

(* Whatever leaves the ring alone.                                         *)
LEMMA SameRing ==
  ASSUME NicInv, UNCHANGED <<ring, written, capr, rx_cur, on_ring, was_reset>>,
         Announced', ipc' \in {"off", "test", "ack"}, rok' \in BOOLEAN,
         late' \in BOOLEAN
  PROVE  NicInv'
<1>1. RingTypeOK' /\ Told'
  BY DEF NicInv, RingTypeOK, Told, CardRead
<1>2. StuckAfterReset => StuckAfterReset'
  BY DEF StuckAfterReset
<1>3. ASSUME LaidOut PROVE LaidOut'
  <2>1. PICK start \in Starts : Apart(start) /\ Whole(start)
    BY <1>3 DEF LaidOut
  <2>2. Waits' = Waits /\ (\A d : Cell(d)' = Cell(d)) /\ \A g : Taken(g)' = Taken(g)
    BY DEF Waits, Cell, Taken, RoundUp
  <2>3. start \in Starts' /\ Apart(start)' /\ Whole(start)'
    BY <2>1, <2>2 DEF Starts, Apart, Whole
  <2> QED BY <2>3 DEF LaidOut
<1> QED BY <1>1, <1>2, <1>3 DEF NicInv

LEMMA OtherStepsKeep ==
  ASSUME NicInv, NicInterrupt \/ LoopEnds \/ Acknowledge \/ UNCHANGED nic
  PROVE  NicInv'
<1> USE DEF card, driver, record
<1>1. CASE NicInterrupt
  <2>1. Announced'
    BY <1>1 DEF NicInterrupt, Announced, FrameIsAnnounced
  <2> QED BY <1>1, <2>1, SameRing DEF NicInterrupt, NicInv, RingTypeOK
<1>2. CASE LoopEnds
  <2>1. Announced'
    BY <1>2 DEF LoopEnds, Announced, FrameIsAnnounced, BufferEmpty, CardRead
  <2> QED BY <1>2, <2>1, SameRing DEF LoopEnds, NicInv, RingTypeOK
<1>3. CASE Acknowledge
  <2>1. Announced'
    BY <1>3 DEF Acknowledge, NicInv, Announced, FrameIsAnnounced, BufferEmpty,
      CardRead
  <2> QED BY <1>3, <2>1, SameRing DEF Acknowledge, NicInv, RingTypeOK
<1>4. CASE UNCHANGED nic
  <2>1. Announced'
    BY <1>4 DEF nic, NicInv, Announced, FrameIsAnnounced, BufferEmpty, CardRead
  <2> QED BY <1>4, <2>1, SameRing DEF nic, NicInv, RingTypeOK
<1> QED BY <1>1, <1>2, <1>3, <1>4

LEMMA NicInvStep == NicInv /\ [NicNext]_<<vars, nic>> => NicInv'
BY CardReceivesKeeps, CardFaultsKeeps, ReceiveFrameKeeps, ResetKeeps,
  OtherStepsKeep DEF NicNext, Interrupt, Task, Received

(* With EnqueueRecvFrame, what becomes of RecvQueue is one of its steps.   *)
LEMMA QueueStep == NicInv /\ [NicNext]_<<vars, nic>> => [Next]_vars
<1> SUFFICES ASSUME NicInv, [NicNext]_<<vars, nic>> PROVE [Next]_vars
  OBVIOUS
<1>1. CASE ReceiveFrame
  <2> DEFINE f == Head(on_ring)
  <2>1. /\ ~BufferEmpty /\ ring[rx_cur] # Erased
        /\ EnqueueRecvFrame(Copy(ring[rx_cur].frame))
    BY <1>1 DEF ReceiveFrame
  <2>2. Copy(ring[rx_cur].frame) = IF Wrapped THEN Torn ELSE f
    BY <2>1, HeaderFact, CopyFact
  <2>3. f \in Frame /\ Torn \in Frame
    BY <2>1, HeaderFact, RingAssumption DEF Received
  <2> QED BY <2>1, <2>2, <2>3 DEF Next
<1>2. CASE ~ReceiveFrame
  BY <1>2 DEF NicNext, CardReceives, CardFaults, Interrupt, NicInterrupt,
    Reset, LoopEnds, Acknowledge, Task, Next
<1> QED BY <1>1, <1>2

-----------------------------------------------------------------------------
(* NicReceive implements RecvQueue: the driver puts nothing into the queue *)
(* but frames, and touches it in no other way than nht_enqueue_recv_frame. *)
THEOREM ImplementsRecvQueue == NicSpec => Spec
<1>1. NicInit => Init
  BY DEF NicInit
<1> QED BY <1>1, NicInitInv, NicInvStep, QueueStep, PTL DEF NicSpec, Spec

(* So nht_recv_handler does not sleep on a frame, whatever the card does.  *)
THEOREM CardLosesNoWakeUp == NicSpec => []NoLostWakeUp
BY ImplementsRecvQueue, WakeUpsArrive, PTL

(* And the queue between interrupt and task is FrameFifo.                  *)
THEOREM CardFeedsFifo == NicSpec => FifoSpec
BY ImplementsRecvQueue, ImplementsFifo, PTL

(* Driver and card agree on where the next frame is and whether there is   *)
(* one, for every size of ring, word, register and frame, until the driver *)
(* resets the card.                                                        *)
THEOREM DriverInStep == NicSpec => []InStep
<1>1. NicInv /\ TypeOK => InStep
  <2> SUFFICES ASSUME NicInv, TypeOK, ~was_reset
               PROVE  /\ rx_cur = CardRead
                      /\ BufferEmpty <=> on_ring = <<>>
                      /\ ~BufferEmpty =>
                           ring[rx_cur] \in {Erased, [frame |-> Head(on_ring), byte |-> 0]}
    BY DEF InStep
  <2>1. PICK start \in Starts : Apart(start) /\ Whole(start)
    BY DEF NicInv, LaidOut
  <2>2. BufferEmpty <=> on_ring = <<>>
    BY <2>1, LayoutFacts DEF NicInv
  <2>3. ASSUME ~BufferEmpty, ring[rx_cur] # Erased
        PROVE  ring[rx_cur] = [frame |-> Head(on_ring), byte |-> 0]
    BY <2>3, HeaderFact
  <2> QED BY <2>2, <2>3 DEF NicInv, Told
<1>2. NicSpec => []TypeOK
  BY ImplementsRecvQueue, TypeCorrect, PTL
<1> QED BY <1>1, <1>2, NicInitInv, NicInvStep, PTL DEF NicSpec

(* A frame on the ring has its interrupt coming, unless it came between    *)
(* the last look at BUFE and the acknowledgement of ROK.                   *)
THEOREM FramesAreAnnounced == NicSpec => []FrameIsAnnounced
<1>1. NicInv => FrameIsAnnounced
  BY DEF NicInv, Announced
<1> QED BY <1>1, NicInitInv, NicInvStep, PTL DEF NicSpec

(* What is put into the queue is what the card took from the wire, byte    *)
(* for byte and in order, but for a frame wrapped round the ring's end.    *)
THEOREM FramesComeThrough == NicSpec => FramesIntact
<1>1. ASSUME NicInv, TypeOK, [NicNext]_<<vars, nic>>, push' # push
      PROVE  slot'[push] = IF Wrapped THEN Torn ELSE Head(on_ring)
  <2>1. ReceiveFrame
    BY <1>1 DEF NicNext, CardReceives, CardFaults, Interrupt, NicInterrupt,
      Reset, LoopEnds, Acknowledge, Task, vars, Handler, Check, Deliver, KFree,
      Advance
  <2>2. /\ ~BufferEmpty /\ ring[rx_cur] # Erased
        /\ EnqueueRecvFrame(Copy(ring[rx_cur].frame))
    BY <2>1 DEF ReceiveFrame
  <2>3. slot' = [slot EXCEPT ![push] = Copy(ring[rx_cur].frame)]
    BY <1>1, <2>2 DEF EnqueueRecvFrame, vars
  <2>4. Copy(ring[rx_cur].frame) = IF Wrapped THEN Torn ELSE Head(on_ring)
    BY <1>1, <2>2, HeaderFact, CopyFact
  <2> QED BY <1>1, <2>3, <2>4 DEF TypeOK
<1>2. NicSpec => []TypeOK
  BY ImplementsRecvQueue, TypeCorrect, PTL
<1>3. NicInv /\ TypeOK /\ [NicNext]_<<vars, nic>>
        => [push' # push => slot'[push] = IF Wrapped THEN Torn
                                          ELSE Head(on_ring)]_<<vars, nic>>
  BY <1>1
<1> QED BY <1>2, <1>3, NicInitInv, NicInvStep, PTL DEF NicSpec, FramesIntact
=============================================================================
