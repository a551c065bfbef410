--------------------------- MODULE NicSendProofs ---------------------------
(***************************************************************************)
(* Proofs about NicSend, for a queue of any size, any producers and frames *)
(* and any number of descriptors: no wake-up is lost, the wire carries     *)
(* what the driver was given, and until one producer overtakes another the *)
(* queue's steps are those of FrameFifo.                                   *)
(***************************************************************************)
EXTENDS NicSend, SequenceTheorems, TLAPS

(* What memory may hold.                                                   *)
Content == Frame \cup {Junk}

(* The ring's arithmetic, without the remainder.                           *)
LEMMA FollowingFact ==
  \A i \in 0..(Size - 1) : Following(i) \in 0..(Size - 1)
<1> TAKE i \in 0..(Size - 1)
<1>1. Size \in Nat /\ Size > 1 /\ i \in Nat
  BY SizeAssumption
<1>2. CASE i + 1 = Size
  BY <1>1, <1>2 DEF Following
<1>3. CASE i + 1 # Size
  BY <1>1, <1>3 DEF Following
<1> QED BY <1>2, <1>3

-----------------------------------------------------------------------------
(* No lost wake-up.  The handler does nothing while it sleeps; a producer  *)
(* that has moved nht_send_push wakes it before it does anything else.     *)
SleepsAtTest == tcb = "BLOCKED" => hpc = "check"

QueueInv == NoLostWakeUp /\ SleepsAtTest

LEMMA QueueInit == Init => QueueInv
<1> SUFFICES ASSUME Init PROVE QueueInv
  OBVIOUS
<1>1. slot \in [0..(Size - 1) -> [buffer : Content, size : Content]]
  BY DEF Init, Content
<1>2. TypeOK
  <2>1. push \in 0..(Size - 1) /\ read \in 0..(Size - 1)
        /\ queue_pos \in [Producers -> 0..(Size - 1)]
    BY SizeAssumption DEF Init
  <2>2. /\ content \in [Frame -> Content] /\ unsent \subseteq Frame
        /\ frame \in [Producers -> Content]
    BY DEF Init, Content
  <2>3. ppc \in [Producers -> ProducerPoints] /\ hpc \in HandlerPoints
    BY DEF Init, ProducerPoints, Inside, HandlerPoints
  <2>4. given \in {<<>>} \cup {<<f>> : f \in Content}
    BY DEF Init
  <2> QED BY <1>1, <2>1, <2>2, <2>3, <2>4 DEF Init, TypeOK, Content
<1> QED BY <1>2 DEF Init, QueueInv, NoLostWakeUp, SleepsAtTest

(* A step of one producer disturbs no other: who was about to wake the     *)
(* handler still is.                                                       *)
LEMMA WakersStay ==
  ASSUME TypeOK, NEW p \in Producers, NEW from, NEW to, Step(p, from, to),
         from # "wake" \/ to = "wake",
         \E q \in Producers : ppc[q] = "wake"
  PROVE  \E q \in Producers : ppc'[q] = "wake"
BY DEF Step, TypeOK

LEMMA EnqueueFrameStep ==
  ASSUME QueueInv, NEW p \in Producers, NEW f \in Frame,
         EnqueueSendFrame(p, f), Record
  PROVE  QueueInv'
<1>1. push \in 0..(Size - 1)
  BY DEF QueueInv, NoLostWakeUp, TypeOK
<1>2. TypeOK'
  BY <1>1, FollowingFact DEF QueueInv, NoLostWakeUp, TypeOK, EnqueueSendFrame,
    Step, ProducerPoints, Inside, handler, Record
<1>3. (tcb = "BLOCKED" => push = read \/ \E q \in Producers : ppc[q] = "wake")'
  BY WakersStay DEF QueueInv, NoLostWakeUp, EnqueueSendFrame, handler
<1> QED BY <1>2, <1>3 DEF QueueInv, NoLostWakeUp, SleepsAtTest,
  EnqueueSendFrame, handler

LEMMA EnqueueStep ==
  ASSUME QueueInv, NEW p \in Producers, Enqueue(p), Record
  PROVE  QueueInv'
<1> USE DEF QueueInv, NoLostWakeUp, handler
<1>1. overtaken' \in BOOLEAN
  BY DEF Record, TypeOK
<1>2. CASE Test(p)
  <2>1. TypeOK'
    <3>1. 0 \in 0..(Size - 1) /\ Junk \in Content
      BY SizeAssumption DEF Content
    <3>2. CASE Return(p, "test")
      BY <1>1, <1>2, <3>1, <3>2 DEF Test, Return, Step, TypeOK,
        ProducerPoints, Inside, Content
    <3>3. CASE Step(p, "test", "buffer") /\ UNCHANGED <<queue_pos, frame>>
      BY <1>1, <1>2, <3>3 DEF Test, Step, TypeOK, ProducerPoints, Inside
    <3> QED BY <1>2, <3>2, <3>3 DEF Test
  <2>2. \/ Step(p, "test", "idle")
        \/ Step(p, "test", "buffer")
    BY <1>2 DEF Test, Return
  <2> QED BY <1>2, <2>1, <2>2, WakersStay DEF Test, SleepsAtTest
<1>3. CASE Buffer(p)
  <2>1. TypeOK'
    BY <1>1, <1>3 DEF Buffer, Step, TypeOK, ProducerPoints, Inside
  <2> QED BY <1>3, <2>1, WakersStay DEF Buffer, SleepsAtTest
<1>4. CASE Memcpy(p)
  <2>1. TypeOK'
    BY <1>1, <1>4 DEF Memcpy, Step, TypeOK, ProducerPoints, Inside
  <2> QED BY <1>4, <2>1, WakersStay DEF Memcpy, SleepsAtTest
<1>5. CASE FrameSize(p)
  <2>1. TypeOK'
    BY <1>1, <1>5 DEF FrameSize, Step, TypeOK, ProducerPoints, Inside
  <2> QED BY <1>5, <2>1, WakersStay DEF FrameSize, SleepsAtTest
<1>6. CASE Push(p)
  <2>1. TypeOK'
    BY <1>1, <1>6 DEF Push, Step, TypeOK, ProducerPoints, Inside
  <2>2. ppc'[p] = "wake"
    BY <1>6 DEF Push, Step, TypeOK
  <2> QED BY <1>6, <2>1, <2>2 DEF Push, SleepsAtTest
<1>7. CASE Wake(p)
  <2>1. TypeOK'
    BY <1>1, <1>7, SizeAssumption DEF Wake, Return, Step, TypeOK,
      ProducerPoints, Inside
  <2> QED BY <1>7, <2>1 DEF Wake, SleepsAtTest
<1> QED BY <1>2, <1>3, <1>4, <1>5, <1>6, <1>7 DEF Enqueue

LEMMA AtFact == ASSUME TypeOK, NEW i \in 0..(Size - 1) PROVE At(i) \in Content
BY DEF TypeOK, At, Content

LEMMA HandlerStep == ASSUME QueueInv, Handler, Record PROVE QueueInv'
<1> USE DEF QueueInv, NoLostWakeUp, producers
<1>1. overtaken' \in BOOLEAN
  BY DEF Record, TypeOK
<1>2. CASE Check
  BY <1>1, <1>2 DEF Check, TypeOK, HandlerPoints, SleepsAtTest
<1>3. CASE Send
  <2>1. At(read) \in Content
    BY AtFact DEF TypeOK
  <2>2. TypeOK'
    BY <1>1, <1>3, <2>1 DEF Send, TypeOK, HandlerPoints, Content
  <2> QED BY <1>3, <2>2 DEF Send, SleepsAtTest
<1>4. CASE KFree
  <2>1. TypeOK'
    BY <1>1, <1>4 DEF KFree, TypeOK, HandlerPoints
  <2> QED BY <1>4, <2>1 DEF KFree, SleepsAtTest
<1>5. CASE Advance
  <2>1. TypeOK'
    BY <1>1, <1>5, FollowingFact DEF Advance, TypeOK, HandlerPoints
  <2>2. tcb = "RUNNABLE" /\ tcb' = tcb
    BY <1>5 DEF Advance, SleepsAtTest, TypeOK
  <2> QED BY <2>1, <2>2 DEF SleepsAtTest
<1> QED BY <1>2, <1>3, <1>4, <1>5 DEF Handler

LEMMA QueueStutters == QueueInv /\ UNCHANGED vars => QueueInv'
BY DEF QueueInv, NoLostWakeUp, TypeOK, SleepsAtTest, vars

LEMMA QueueStep == QueueInv /\ [NicNext]_<<vars, nic>> => QueueInv'
<1> SUFFICES ASSUME QueueInv, [NicNext]_<<vars, nic>> PROVE QueueInv'
  OBVIOUS
<1>1. CASE Protocols /\ Record
  BY <1>1, EnqueueFrameStep, EnqueueStep DEF Protocols
<1>2. CASE NicHandler /\ Record
  BY <1>2, HandlerStep DEF NicHandler, SendFrame, FreeFrame, Handler
<1>3. CASE CardSends \/ Quiet \/ UNCHANGED <<vars, nic>>
  BY <1>3, QueueStutters DEF CardSends, Quiet
<1> QED BY <1>1, <1>2, <1>3 DEF NicNext

(* nht_send_handler never sleeps while a frame waits and nobody is about   *)
(* to wake it, however the timer switches between the unlocked producers:  *)
(* the interrupt lock keeps the test for an empty ring and block_task      *)
(* together.                                                               *)
THEOREM WakeUpsArrive == NicSpec => []NoLostWakeUp
<1>1. NicInit => QueueInv
  BY QueueInit DEF NicInit
<1>2. QueueInv => NoLostWakeUp
  BY DEF QueueInv
<1> QED BY <1>1, <1>2, QueueStep, PTL DEF NicSpec
-----------------------------------------------------------------------------
(* The wire.  m descriptors are under way: they begin at card_next, end    *)
(* before tx_cur, and hold what was handed to the driver last, in order.   *)
After(k) == IF card_next + k >= Descriptors THEN card_next + k - Descriptors
            ELSE card_next + k

UnderWay == Len(handed) - Len(wire)

InTurn ==
  /\ UnderWay \in 0..Descriptors
  /\ tx_cur = After(UnderWay)
  /\ \A k \in 0..(Descriptors - 1) : own[After(k)] <=> k >= UnderWay
  /\ \A k \in 0..(Descriptors - 1) :
       k < UnderWay => handed[Len(wire) + k + 1] = Found(tsad[After(k)])
  /\ \A i \in 1..Len(wire) : wire[i] = handed[i]

Buffers == [buffer : Content, size : Content]

NicTypeOK ==
  /\ tsad \in [Descriptor -> Buffers]
  /\ own \in [Descriptor -> BOOLEAN]
  /\ tx_cur \in Descriptor /\ card_next \in Descriptor
  /\ handed \in Seq(Content) /\ wire \in Seq(Content)
  /\ damaged \in BOOLEAN

WireInv == NicTypeOK /\ (~damaged => InTurn)

(* Going round the descriptors from the card's, one meets each once.       *)
LEMMA AfterFacts ==
  ASSUME NicTypeOK
  PROVE  /\ \A k \in 0..Descriptors : After(k) \in Descriptor
         /\ After(0) = card_next /\ After(Descriptors) = card_next
         /\ \A j, k \in 0..(Descriptors - 1) : j # k => After(j) # After(k)
         /\ \A k \in 0..(Descriptors - 1) :
              After(k + 1) = FollowingDescriptor(After(k))
BY DescriptorsAssumption DEF NicTypeOK, Descriptor, After, FollowingDescriptor

LEMMA FoundFact == \A t \in Buffers : Found(t) \in Content
BY DEF Buffers, Content, Found

LEMMA WireInit == NicInit => WireInv
<1> SUFFICES ASSUME NicInit PROVE WireInv
  OBVIOUS
<1>1. 0 \in Descriptor /\ Nothing \in Buffers
  BY DescriptorsAssumption DEF Descriptor, Nothing, Buffers, Content
<1>2. NicTypeOK
  BY <1>1 DEF NicInit, NicTypeOK
<1>3. UnderWay = 0
  BY DEF NicInit, UnderWay
<1>4. \A k \in 0..(Descriptors - 1) : After(k) \in Descriptor
  BY <1>2, AfterFacts, DescriptorsAssumption
<1>5. InTurn
  BY <1>2, <1>3, <1>4, AfterFacts, DescriptorsAssumption DEF NicInit, InTurn
<1> QED BY <1>2, <1>5 DEF WireInv

(* What the card will find stays, so what is under way does.               *)
LEMMA SameTurn ==
  ASSUME WireInv, UNCHANGED <<tsad, own, tx_cur, card_next>>,
         handed' \in {<<>>, handed}, wire' \in {<<>>, wire},
         damaged' \in BOOLEAN, damaged => damaged',
         ~damaged' => UNCHANGED <<handed, wire>>,
         ~damaged' => \A d \in Descriptor :
                        ~own[d] => Found(tsad[d])' = Found(tsad[d])
  PROVE  WireInv'
<1>1. NicTypeOK'
  <2>1. handed' \in Seq(Content) /\ wire' \in Seq(Content)
    BY EmptySeq DEF WireInv, NicTypeOK
  <2> QED BY <2>1 DEF WireInv, NicTypeOK
<1>2. CASE ~damaged'
  <2>1. /\ InTurn /\ UnderWay' = UnderWay /\ \A k : After(k)' = After(k)
        /\ UNCHANGED <<handed, wire>>
    BY <1>2 DEF WireInv, UnderWay, After
  <2>2. \A k \in 0..(Descriptors - 1) :
          k < UnderWay => Found(tsad[After(k)])' = Found(tsad[After(k)])
    <3> TAKE k \in 0..(Descriptors - 1)
    <3>1. After(k) \in Descriptor
      BY AfterFacts, DescriptorsAssumption DEF WireInv
    <3>2. own[After(k)] <=> k >= UnderWay
      BY <2>1 DEF InTurn
    <3>3. UnderWay \in Int
      BY <2>1 DEF InTurn
    <3> QED BY <1>2, <2>1, <3>1, <3>2, <3>3
  <2>3. InTurn'
    BY <2>1, <2>2 DEF InTurn
  <2> QED BY <1>1, <2>3 DEF WireInv
<1> QED BY <1>1, <1>2 DEF WireInv

LEMMA SendFrameKeeps ==
  ASSUME TypeOK, WireInv, SendFrame
  PROVE  WireInv'
<1> DEFINE m == UnderWay
<1>1. /\ tsad' = [tsad EXCEPT ![tx_cur] = slot[read]]
      /\ own' = [own EXCEPT ![tx_cur] = FALSE]
      /\ tx_cur' = FollowingDescriptor(tx_cur)
      /\ damaged' = (damaged \/ ~own[tx_cur])
      /\ handed' = IF damaged' THEN <<>> ELSE Append(handed, At(read))
      /\ wire' = IF damaged' THEN <<>> ELSE wire
      /\ UNCHANGED <<card_next, content>>
  BY DEF SendFrame, History, Send
<1>2. slot[read] \in Buffers /\ At(read) = Found(slot[read])
  BY DEF TypeOK, Buffers, Content, At, Found
<1>3. At(read) \in Content
  BY <1>2, FoundFact
<1>4. tx_cur' \in Descriptor
  BY <1>1, DescriptorsAssumption DEF WireInv, NicTypeOK, Descriptor,
    FollowingDescriptor
<1>5. NicTypeOK'
  BY <1>1, <1>2, <1>3, <1>4 DEF WireInv, NicTypeOK
<1>6. CASE ~damaged'
  <2>1. /\ InTurn /\ own[tx_cur] /\ NicTypeOK
        /\ handed' = Append(handed, At(read)) /\ wire' = wire
    BY <1>1, <1>6 DEF WireInv
  <2>2. /\ handed \in Seq(Content) /\ wire \in Seq(Content)
        /\ Len(handed) \in Nat /\ Len(wire) \in Nat /\ m \in 0..Descriptors
        /\ tx_cur = After(m)
    BY <2>1 DEF NicTypeOK, InTurn
  <2>3. m # Descriptors
    <3> SUFFICES ASSUME m = Descriptors PROVE FALSE
      OBVIOUS
    <3>1. tx_cur = After(0)
      BY <2>1, <2>2, AfterFacts
    <3>2. 0 \in 0..(Descriptors - 1) /\ ~(0 >= m)
      BY DescriptorsAssumption
    <3> QED BY <2>1, <3>1, <3>2 DEF InTurn
  <2>4. m \in 0..(Descriptors - 1)
    BY <2>2, <2>3, DescriptorsAssumption
  <2>5. /\ Len(handed') = Len(handed) + 1
        /\ \A i \in 1..Len(handed) : handed'[i] = handed[i]
        /\ handed'[Len(handed) + 1] = At(read)
    BY <1>3, <2>1, <2>2, AppendProperties
  <2>6. UnderWay' = m + 1 /\ \A k : After(k)' = After(k)
    <3>1. UnderWay' = m + 1
      BY <2>1, <2>2, <2>5 DEF UnderWay
    <3>2. \A k : After(k)' = After(k)
      BY <1>1 DEF After
    <3> QED BY <3>1, <3>2
  <2>7. tx_cur' = After(UnderWay)'
    BY <1>1, <2>1, <2>2, <2>4, <2>6, AfterFacts
  <2>8. \A k \in 0..(Descriptors - 1) :
          /\ k # m => After(k) # tx_cur
          /\ After(k) \in Descriptor
    <3> TAKE k \in 0..(Descriptors - 1)
    <3>1. After(k) \in Descriptor
      BY <2>1, AfterFacts, DescriptorsAssumption
    <3>2. k # m => After(k) # After(m)
      BY <2>1, <2>4, AfterFacts
    <3> QED BY <2>2, <3>1, <3>2
  <2>9. \A k \in 0..(Descriptors - 1) : own'[After(k)] <=> k >= m + 1
    <3> TAKE k \in 0..(Descriptors - 1)
    <3>1. CASE k = m
      BY <1>1, <2>2, <2>4, <2>8, <3>1 DEF WireInv, NicTypeOK
    <3>2. CASE k # m
      <4>1. own'[After(k)] = own[After(k)]
        BY <1>1, <2>8, <3>2 DEF WireInv, NicTypeOK
      <4>2. own[After(k)] <=> k >= m
        BY <2>1 DEF InTurn
      <4> QED BY <2>4, <3>2, <4>1, <4>2
    <3> QED BY <3>1, <3>2
  <2>10. ASSUME NEW k \in 0..(Descriptors - 1), k < m + 1
         PROVE  handed'[Len(wire) + k + 1] = Found(tsad[After(k)])'
    <3> After(k)' = After(k)
      BY <2>6
    <3>1. CASE k = m
      <4>1. tsad'[After(k)] = slot[read]
        BY <1>1, <2>2, <2>8, <3>1 DEF WireInv, NicTypeOK
      <4>2. Len(wire) + k + 1 = Len(handed) + 1
        BY <2>2, <3>1 DEF UnderWay
      <4> QED BY <1>1, <1>2, <2>5, <4>1, <4>2 DEF Found
    <3>2. CASE k # m
      <4>1. tsad'[After(k)] = tsad[After(k)]
        BY <1>1, <2>8, <3>2 DEF WireInv, NicTypeOK
      <4>2. k < m
        BY <2>4, <2>10, <3>2
      <4>3. handed[Len(wire) + k + 1] = Found(tsad[After(k)])
        BY <2>1, <4>2 DEF InTurn
      <4>4. Len(wire) + k + 1 \in 1..Len(handed)
        BY <2>2, <2>4, <4>2 DEF UnderWay
      <4> QED BY <1>1, <2>5, <4>1, <4>3, <4>4 DEF Found
    <3> QED BY <3>1, <3>2
  <2>11. \A i \in 1..Len(wire) : wire[i] = handed'[i]
    BY <2>1, <2>2, <2>5 DEF InTurn, UnderWay
  <2>12. m + 1 \in 0..Descriptors
    BY <2>4, DescriptorsAssumption
  <2>13. InTurn'
    BY <2>1, <2>6, <2>7, <2>9, <2>10, <2>11, <2>12 DEF InTurn
  <2> QED BY <1>5, <2>13 DEF WireInv
<1> QED BY <1>5, <1>6 DEF WireInv

LEMMA CardSendsKeeps ==
  ASSUME WireInv, CardSends
  PROVE  WireInv'
<1> DEFINE m == UnderWay
<1> DEFINE next == Found(tsad[card_next])
<1>1. /\ ~own[card_next]
      /\ own' = [own EXCEPT ![card_next] = TRUE]
      /\ tsad' = [tsad EXCEPT ![card_next] = Nothing]
      /\ card_next' = (card_next + 1) % Descriptors
      /\ damaged' = damaged
      /\ handed' = IF damaged THEN <<>> ELSE handed
      /\ wire' = IF damaged THEN <<>> ELSE Append(wire, next)
      /\ UNCHANGED <<tx_cur, content>>
  BY DEF CardSends, History, vars, WireInv, NicTypeOK
<1>2. next \in Content /\ Nothing \in Buffers
  BY FoundFact DEF WireInv, NicTypeOK, Nothing, Buffers, Content
<1>3. card_next' = FollowingDescriptor(card_next) /\ card_next' \in Descriptor
  <2>1. /\ Descriptors \in Nat \ {0} /\ card_next \in Nat
        /\ card_next < Descriptors
    BY DescriptorsAssumption DEF WireInv, NicTypeOK, Descriptor
  <2>2. CASE card_next + 1 = Descriptors
    BY <1>1, <2>1, <2>2 DEF FollowingDescriptor, Descriptor
  <2>3. CASE card_next + 1 < Descriptors
    BY <1>1, <2>1, <2>3 DEF FollowingDescriptor, Descriptor
  <2> QED BY <2>1, <2>2, <2>3
<1>4. NicTypeOK'
  BY <1>1, <1>2, <1>3 DEF WireInv, NicTypeOK
<1>5. CASE ~damaged
  <2>1. InTurn /\ NicTypeOK /\ wire' = Append(wire, next) /\ handed' = handed
    BY <1>1, <1>5 DEF WireInv
  <2>2. /\ handed \in Seq(Content) /\ wire \in Seq(Content)
        /\ Len(handed) \in Nat /\ Len(wire) \in Nat /\ m \in 0..Descriptors
    BY <2>1 DEF NicTypeOK, InTurn
  <2>3. 0 \in 0..(Descriptors - 1) /\ 0 < m /\ After(0) = card_next
    BY <1>1, <2>1, <2>2, AfterFacts, DescriptorsAssumption DEF InTurn
  <2>4. handed[Len(wire) + 1] = next
    BY <2>1, <2>2, <2>3 DEF InTurn
  <2>5. /\ Len(wire') = Len(wire) + 1
        /\ \A i \in 1..Len(wire) : wire'[i] = wire[i]
        /\ wire'[Len(wire) + 1] = next
    BY <1>2, <2>1, <2>2, AppendProperties
  <2>6. UnderWay' = m - 1
    BY <2>1, <2>2, <2>5 DEF UnderWay
  <2>7. /\ \A k \in 0..(Descriptors - 1) : After(k)' = After(k + 1)
        /\ After(Descriptors) = card_next
    BY <1>3, <2>1, DescriptorsAssumption DEF After, NicTypeOK, Descriptor,
      FollowingDescriptor
  <2>8. tx_cur' = After(UnderWay)'
    <3>1. PICK k \in 0..(Descriptors - 1) : k + 1 = m
      <4>1. m - 1 \in 0..(Descriptors - 1) /\ (m - 1) + 1 = m
        BY <2>2, <2>3, DescriptorsAssumption
      <4> QED BY <4>1
    <3>2. After(k)' = After(m)
      BY <2>7, <3>1
    <3>3. UnderWay' = k
      BY <2>2, <2>6, <3>1
    <3>4. After(UnderWay)' = After(k)'
      BY <3>3 DEF After
    <3> QED BY <1>1, <2>1, <3>2, <3>4 DEF InTurn
  <2>9. \A k \in 0..(Descriptors - 1) :
          k + 1 # Descriptors => /\ k + 1 \in 0..(Descriptors - 1)
                                 /\ After(k + 1) # card_next
                                 /\ After(k + 1) \in Descriptor
    BY <2>1, <2>3, AfterFacts, DescriptorsAssumption
  <2>10. ASSUME NEW k \in 0..(Descriptors - 1)
         PROVE  own'[After(k)'] <=> k >= m - 1
    <3>1. CASE k + 1 = Descriptors
      BY <1>1, <2>1, <2>2, <2>7, <3>1 DEF NicTypeOK
    <3>2. CASE k + 1 # Descriptors
      <4>1. own'[After(k)'] = own[After(k + 1)]
        BY <1>1, <2>1, <2>7, <2>9, <3>2 DEF NicTypeOK
      <4>2. own[After(k + 1)] <=> k + 1 >= m
        BY <2>1, <2>9, <3>2 DEF InTurn
      <4> QED BY <2>2, <4>1, <4>2
    <3> QED BY <3>1, <3>2
  <2>11. ASSUME NEW k \in 0..(Descriptors - 1), k < m - 1
         PROVE  handed[Len(wire') + k + 1] = Found(tsad[After(k)])'
    <3>1. k + 1 # Descriptors /\ k + 1 < m
      BY <2>2, <2>11, DescriptorsAssumption
    <3>2. tsad'[After(k)'] = tsad[After(k + 1)]
      BY <1>1, <2>1, <2>7, <2>9, <3>1 DEF NicTypeOK
    <3>3. handed[Len(wire) + (k + 1) + 1] = Found(tsad[After(k + 1)])
      BY <2>1, <2>9, <3>1 DEF InTurn
    <3>4. Len(wire') + k + 1 = Len(wire) + (k + 1) + 1
      BY <2>2, <2>5
    <3> QED BY <1>1, <3>2, <3>3, <3>4 DEF Found
  <2>12. \A i \in 1..Len(wire') : wire'[i] = handed[i]
    BY <2>1, <2>2, <2>4, <2>5 DEF InTurn
  <2>13. m - 1 \in 0..Descriptors
    BY <2>2, <2>3, DescriptorsAssumption
  <2>14. InTurn'
    BY <2>1, <2>6, <2>8, <2>10, <2>11, <2>12, <2>13 DEF InTurn
  <2> QED BY <1>4, <2>14 DEF WireInv
<1> QED BY <1>1, <1>4, <1>5 DEF WireInv

LEMMA FreeFrameKeeps ==
  ASSUME TypeOK, WireInv, FreeFrame
  PROVE  WireInv'
<1> DEFINE damage == \E d \in Descriptor :
                       Waits(d) /\ tsad[d].buffer = slot[read].buffer
<1>1. /\ UNCHANGED <<tsad, own, tx_cur, card_next>>
      /\ damaged' = (damaged \/ damage)
      /\ handed' = IF damaged' THEN <<>> ELSE handed
      /\ wire' = IF damaged' THEN <<>> ELSE wire
      /\ content' = [b \in Frame |-> IF b = slot[read].buffer THEN Junk
                                     ELSE content[b]]
  BY DEF FreeFrame, History, KFree
<1>2. ASSUME ~damaged', NEW d \in Descriptor, ~own[d]
      PROVE  Found(tsad[d])' = Found(tsad[d])
  BY <1>1, <1>2 DEF Found, Waits, TypeOK
<1> QED BY <1>1, <1>2, SameTurn DEF WireInv, NicTypeOK

LEMMA ProtocolsKeep ==
  ASSUME TypeOK, WireInv, CardWaits
  PROVE  WireInv'
<1> DEFINE damage ==
      \E d \in Descriptor :
        Waits(d) /\ content'[tsad[d].buffer] # content[tsad[d].buffer]
<1>1. /\ UNCHANGED <<tsad, own, tx_cur, card_next>>
      /\ damaged' = (damaged \/ damage)
      /\ handed' = IF damaged' THEN <<>> ELSE handed
      /\ wire' = IF damaged' THEN <<>> ELSE wire
  BY DEF CardWaits, History
<1>2. ASSUME ~damaged', NEW d \in Descriptor, ~own[d]
      PROVE  Found(tsad[d])' = Found(tsad[d])
  BY <1>1, <1>2 DEF Found, Waits
<1> QED BY <1>1, <1>2, SameTurn DEF WireInv, NicTypeOK

LEMMA WireStutters ==
  ASSUME WireInv, UNCHANGED nic, content' = content
  PROVE  WireInv'
BY SameTurn DEF WireInv, NicTypeOK, Found, nic

LEMMA WireStep ==
  QueueInv /\ WireInv /\ [NicNext]_<<vars, nic>> => WireInv'
<1> SUFFICES ASSUME QueueInv, WireInv, [NicNext]_<<vars, nic>> PROVE WireInv'
  OBVIOUS
<1>1. TypeOK
  BY DEF QueueInv, NoLostWakeUp
<1>2. CASE Protocols
  BY <1>1, <1>2, ProtocolsKeep DEF Protocols
<1>3. CASE NicHandler
  BY <1>1, <1>3, SendFrameKeeps, FreeFrameKeeps, WireStutters DEF NicHandler,
    Check, Advance
<1>4. CASE CardSends
  BY <1>4, CardSendsKeeps
<1>5. CASE (Quiet /\ UNCHANGED nic) \/ UNCHANGED <<vars, nic>>
  BY <1>5, WireStutters DEF Quiet, vars
<1> QED BY <1>2, <1>3, <1>4, <1>5 DEF NicNext

(* The card sends what rtl8139_send_frame was given, whole, once and in    *)
(* its order, and finds all there is to send, while no frame the card has  *)
(* still to read is freed, loses its descriptor or is written to.          *)
THEOREM WireIsWhole == NicSpec => []WireCarriesFrames
<1>1. NicInit => QueueInv /\ WireInv
  BY QueueInit, WireInit DEF NicInit
<1>2. QueueInv /\ WireInv => WireCarriesFrames
  <2> SUFFICES ASSUME WireInv, ~damaged
               PROVE  IsPrefix(wire, handed) /\ (own[card_next] => wire = handed)
    BY DEF WireCarriesFrames
  <2>1. /\ InTurn /\ handed \in Seq(Content) /\ wire \in Seq(Content)
        /\ Len(handed) \in Nat /\ Len(wire) \in Nat
        /\ Len(wire) <= Len(handed)
    BY DEF WireInv, NicTypeOK, InTurn, UnderWay
  <2>2. IsPrefix(wire, handed)
    BY <2>1 DEF IsPrefix, InTurn
  <2>3. own[card_next] => Len(wire) = Len(handed)
    <3>1. 0 \in 0..(Descriptors - 1) /\ After(0) = card_next
      BY AfterFacts, DescriptorsAssumption DEF WireInv
    <3> QED BY <2>1, <3>1 DEF InTurn, UnderWay
  <2>4. own[card_next] => wire = handed
    BY <2>1, <2>3, SeqEqual DEF InTurn
  <2> QED BY <2>2, <2>4
<1> QED BY <1>1, <1>2, QueueStep, WireStep, PTL DEF NicSpec

-----------------------------------------------------------------------------
(* The queue.  Until a producer is overtaken one alone is inside           *)
(* nht_enqueue_send_frame, and the slots are what they would be with one   *)
(* producer: a queued one holds a frame in a buffer of its own, and the    *)
(* one that is filled holds what has been stored into it.                  *)
Index == 0..(Size - 1)

Queued(i) == IF read <= push THEN read <= i /\ i < push
             ELSE read <= i \/ i < push

Alone == \A p \in Producers : ~Overtaken(p)

HasRoom ==
  \A p \in Producers : ppc[p] \in Inside \ {"test"} => Following(push) # read

FrameStarted ==
  \A p \in Producers : ppc[p] # "idle" => frame[p] \in Frame \ unsent

SlotFills ==
  \A p \in Producers :
    /\ ppc[p] \in {"memcpy", "size", "push"} => slot[push].buffer = frame[p]
    /\ ppc[p] \in {"size", "push"} => content[frame[p]] = frame[p]
    /\ ppc[p] = "push" => slot[push].size = frame[p]

QueuedWhole ==
  \A i \in Index :
    Queued(i) => /\ slot[i].buffer \in Frame \ unsent
                 /\ slot[i].size = slot[i].buffer
                 /\ \/ content[slot[i].buffer] = slot[i].buffer
                    \/ i = read /\ hpc = "advance"

OwnBuffers ==
  /\ \A i, j \in Index :
       Queued(i) /\ Queued(j) /\ i # j => slot[i].buffer # slot[j].buffer
  /\ \A p \in Producers, i \in Index :
       ppc[p] \in Inside /\ Queued(i) => slot[i].buffer # frame[p]

HandlerWorks ==
  /\ hpc # "check" => push # read
  /\ given # <<>> <=> hpc \in {"kfree", "advance"}
  /\ given # <<>> => given = <<slot[read].size>>

Orderly == /\ Alone /\ HasRoom /\ FrameStarted /\ SlotFills
           /\ QueuedWhole /\ OwnBuffers /\ HandlerWorks

OrderInv == ~overtaken => Orderly

(* The ring's arithmetic.                                                  *)
LEMMA NextIndex ==
  \A i \in Index : Following(i) = IF i + 1 = Size THEN 0 ELSE i + 1
<1> TAKE i \in Index
<1>1. Size \in Nat /\ Size > 1 /\ i \in Nat /\ i < Size
  BY SizeAssumption DEF Index
<1>2. CASE i + 1 = Size
  BY <1>1, <1>2 DEF Following
<1>3. CASE i + 1 # Size
  BY <1>1, <1>3 DEF Following
<1> QED BY <1>2, <1>3

LEMMA RingFacts ==
  ASSUME TypeOK
  PROVE  /\ Count \in Nat /\ Count < Size
         /\ Count = 0 <=> push = read
         /\ \A k \in 1..Count : Nth(k) \in Index /\ Queued(Nth(k))
         /\ Nth(1) = read
         /\ \A k \in 1..Count : k # 1 => Nth(k) # read
         /\ push \in Index /\ read \in Index
         /\ ~Queued(push)
         /\ push # read => Queued(read)
<1>1. /\ Size \in Nat /\ push \in Nat /\ push < Size
      /\ read \in Nat /\ read < Size
  BY SizeAssumption DEF TypeOK
<1>2. /\ Count \in Nat /\ Count < Size
      /\ Count = 0 <=> push = read
  BY <1>1 DEF Count
<1>3. ASSUME NEW k \in 1..Count
      PROVE  Nth(k) \in Index /\ Queued(Nth(k)) /\ (k # 1 => Nth(k) # read)
  BY <1>1 DEF Index, Count, Nth, Queued
<1>4. Nth(1) = read
  BY <1>1 DEF Nth
<1>5. /\ push \in Index /\ read \in Index
      /\ ~Queued(push)
      /\ push # read => Queued(read)
  BY <1>1 DEF Index, Queued
<1> QED BY <1>2, <1>3, <1>4, <1>5

LEMMA OneInside ==
  ASSUME TypeOK, Alone, NEW p \in Producers, ppc[p] \in Inside
  PROVE  /\ queue_pos[p] = Following(push)
         /\ \A q \in Producers : ppc[q] \in Inside => q = p
BY DEF Alone, Overtaken

(* What the producer p leaves alone of the others.                         *)
LEMMA OthersStay ==
  ASSUME TypeOK, NEW p \in Producers, NEW from, NEW to, Step(p, from, to)
  PROVE  /\ ppc[p] = from /\ ppc'[p] = to
         /\ \A q \in Producers : q # p => ppc'[q] = ppc[q]
BY DEF Step, TypeOK

LEMMA OrderInit == Init => Orderly
<1> SUFFICES ASSUME Init PROVE Orderly
  OBVIOUS
<1>1. \A p \in Producers : ppc[p] = "idle"
  BY DEF Init
<1>2. Alone /\ HasRoom /\ FrameStarted /\ SlotFills
  BY <1>1 DEF Alone, Overtaken, HasRoom, FrameStarted, SlotFills, Inside
<1>3. \A i \in Index : ~Queued(i)
  BY SizeAssumption DEF Init, Index, Queued
<1>4. QueuedWhole /\ OwnBuffers
  BY <1>3 DEF QueuedWhole, OwnBuffers
<1>5. HandlerWorks
  BY DEF Init, HandlerWorks
<1> QED BY <1>2, <1>4, <1>5 DEF Orderly

LEMMA StartKeepsOrder ==
  ASSUME TypeOK, Orderly, NEW p \in Producers, NEW f \in Frame,
         EnqueueSendFrame(p, f), Alone'
  PROVE  Orderly'
<1>1. /\ UNCHANGED <<slot, push, content, read, hpc, given>>
      /\ unsent' = unsent \ {f} /\ f \in unsent
      /\ frame'[p] = f
      /\ \A q \in Producers : q # p => frame'[q] = frame[q]
  <2>1. f \in unsent
    BY DEF EnqueueSendFrame
  <2> QED BY <2>1 DEF EnqueueSendFrame, handler, TypeOK
<1>2. /\ ppc[p] = "idle" /\ ppc'[p] = "test"
      /\ \A q \in Producers : q # p => ppc'[q] = ppc[q]
  BY OthersStay DEF EnqueueSendFrame
<1>3. \A i : Queued(i)' = Queued(i)
  BY <1>1 DEF Queued
<1>4. HasRoom' /\ HandlerWorks'
  BY <1>1, <1>2 DEF Orderly, HasRoom, HandlerWorks, Following
<1>5. FrameStarted' /\ SlotFills'
  BY <1>1, <1>2 DEF Orderly, FrameStarted, SlotFills
<1>6. QueuedWhole'
  BY <1>1, <1>3 DEF Orderly, QueuedWhole
<1>7. OwnBuffers'
  BY <1>1, <1>2, <1>3 DEF Orderly, OwnBuffers, QueuedWhole
<1> QED BY <1>4, <1>5, <1>6, <1>7 DEF Orderly

LEMMA TestKeepsOrder ==
  ASSUME TypeOK, Orderly, NEW p \in Producers, Test(p), Alone'
  PROVE  Orderly'
<1>1. UNCHANGED <<slot, push, content, unsent, read, hpc, given>>
  BY DEF Test, handler
<1>2. PICK to \in {"idle", "buffer"} :
        /\ Step(p, "test", to)
        /\ to = "buffer" => queue_pos[p] # read /\ UNCHANGED frame
        /\ to = "idle" => frame' = [frame EXCEPT ![p] = Junk]
  BY DEF Test, Return
<1>3. /\ ppc[p] = "test" /\ ppc'[p] = to
      /\ \A q \in Producers : q # p => ppc'[q] = ppc[q]
  BY <1>2, OthersStay
<1>4. \A q \in Producers : ppc'[q] # "idle" => frame'[q] = frame[q]
  BY <1>2, <1>3 DEF TypeOK
<1>5. \A i : Queued(i)' = Queued(i)
  BY <1>1 DEF Queued
<1>6. queue_pos[p] = Following(push)
  BY <1>3, OneInside DEF Orderly, Inside
<1>7. HasRoom'
  BY <1>1, <1>2, <1>3, <1>6 DEF Orderly, HasRoom, Following, Inside
<1>8. FrameStarted' /\ HandlerWorks'
  BY <1>1, <1>2, <1>3, <1>4 DEF Orderly, FrameStarted, HandlerWorks
<1>9. SlotFills'
  BY <1>1, <1>2, <1>3, <1>4 DEF Orderly, SlotFills
<1>10. QueuedWhole'
  BY <1>1, <1>5 DEF Orderly, QueuedWhole
<1>11. OwnBuffers'
  BY <1>1, <1>2, <1>3, <1>4, <1>5 DEF Orderly, OwnBuffers, Inside
<1> QED BY <1>7, <1>8, <1>9, <1>10, <1>11 DEF Orderly

LEMMA BufferKeepsOrder ==
  ASSUME TypeOK, Orderly, NEW p \in Producers, Buffer(p), Alone'
  PROVE  Orderly'
<1>1. /\ UNCHANGED <<push, unsent, frame, read, hpc, given>>
      /\ ppc[p] = "buffer" /\ ppc'[p] = "memcpy"
      /\ \A q \in Producers : q # p => ppc'[q] = ppc[q]
  BY OthersStay DEF Buffer, handler
<1>2. \A q \in Producers : ppc[q] \in Inside => q = p
  BY <1>1, OneInside DEF Orderly, Inside
<1>3. /\ slot'[push].buffer = frame[p]
      /\ \A i \in Index : i # push => slot'[i] = slot[i]
      /\ \A i \in Index : Queued(i) => i # push
  BY RingFacts DEF Buffer, TypeOK, Index
<1>4. \A b \in Frame : b # frame[p] => content'[b] = content[b]
  BY DEF Buffer, TypeOK
<1>5. \A i : Queued(i)' = Queued(i)
  BY <1>1 DEF Queued
<1>6. HasRoom' /\ FrameStarted'
  BY <1>1 DEF Orderly, HasRoom, FrameStarted, Following, Inside
<1>7. SlotFills'
  BY <1>1, <1>2, <1>3 DEF SlotFills, Inside
<1>8. QueuedWhole'
  BY <1>1, <1>3, <1>4, <1>5 DEF Orderly, QueuedWhole, OwnBuffers, Inside
<1>9. OwnBuffers'
  BY <1>1, <1>2, <1>3, <1>5 DEF Orderly, OwnBuffers, Inside
<1>10. HandlerWorks'
  BY <1>1, <1>3, RingFacts DEF Orderly, HandlerWorks
<1> QED BY <1>6, <1>7, <1>8, <1>9, <1>10 DEF Orderly

LEMMA MemcpyKeepsOrder ==
  ASSUME TypeOK, Orderly, NEW p \in Producers, Memcpy(p), Alone'
  PROVE  Orderly'
<1>1. /\ UNCHANGED <<slot, push, unsent, frame, read, hpc, given>>
      /\ ppc[p] = "memcpy" /\ ppc'[p] = "size"
      /\ \A q \in Producers : q # p => ppc'[q] = ppc[q]
  BY OthersStay DEF Memcpy, handler
<1>2. \A q \in Producers : ppc[q] \in Inside => q = p
  BY <1>1, OneInside DEF Orderly, Inside
<1>3. slot[push].buffer = frame[p] /\ frame[p] \in Frame
  BY <1>1 DEF Orderly, SlotFills, FrameStarted
<1>4. /\ content'[frame[p]] = frame[p]
      /\ \A b \in Frame : b # frame[p] => content'[b] = content[b]
  BY <1>3 DEF Memcpy
<1>5. \A i : Queued(i)' = Queued(i)
  BY <1>1 DEF Queued
<1>6. HasRoom' /\ FrameStarted' /\ HandlerWorks'
  BY <1>1 DEF Orderly, HasRoom, FrameStarted, HandlerWorks, Following, Inside
<1>7. SlotFills'
  BY <1>1, <1>2, <1>3, <1>4 DEF SlotFills, Inside
<1>8. QueuedWhole'
  BY <1>1, <1>4, <1>5 DEF Orderly, QueuedWhole, OwnBuffers, Inside
<1>9. OwnBuffers'
  BY <1>1, <1>2, <1>5 DEF Orderly, OwnBuffers, Inside
<1> QED BY <1>6, <1>7, <1>8, <1>9 DEF Orderly

LEMMA SizeKeepsOrder ==
  ASSUME TypeOK, Orderly, NEW p \in Producers, FrameSize(p), Alone'
  PROVE  Orderly'
<1>1. /\ UNCHANGED <<push, content, unsent, frame, read, hpc, given>>
      /\ ppc[p] = "size" /\ ppc'[p] = "push"
      /\ \A q \in Producers : q # p => ppc'[q] = ppc[q]
  BY OthersStay DEF FrameSize, handler
<1>2. \A q \in Producers : ppc[q] \in Inside => q = p
  BY <1>1, OneInside DEF Orderly, Inside
<1>3. /\ slot'[push].size = frame[p] /\ slot'[push].buffer = slot[push].buffer
      /\ \A i \in Index : i # push => slot'[i] = slot[i]
      /\ \A i \in Index : Queued(i) => i # push
  BY RingFacts DEF FrameSize, TypeOK, Index
<1>4. \A i : Queued(i)' = Queued(i)
  BY <1>1 DEF Queued
<1>5. HasRoom' /\ FrameStarted'
  BY <1>1 DEF Orderly, HasRoom, FrameStarted, Following, Inside
<1>6. SlotFills'
  BY <1>1, <1>2, <1>3 DEF Orderly, SlotFills, Inside
<1>7. QueuedWhole'
  BY <1>1, <1>3, <1>4 DEF Orderly, QueuedWhole
<1>8. OwnBuffers'
  BY <1>1, <1>3, <1>4 DEF Orderly, OwnBuffers, Inside
<1>9. HandlerWorks'
  BY <1>1, <1>3, RingFacts DEF Orderly, HandlerWorks
<1> QED BY <1>5, <1>6, <1>7, <1>8, <1>9 DEF Orderly

(* The slot that has been filled is queued behind the others.              *)
LEMMA PushFacts ==
  ASSUME TypeOK, Orderly, NEW p \in Producers, Push(p)
  PROVE  /\ UNCHANGED <<slot, content, unsent, frame, read, hpc, given>>
         /\ ppc[p] = "push" /\ ppc'[p] = "wake"
         /\ \A q \in Producers : q # p => ppc'[q] = ppc[q]
         /\ \A q \in Producers : ppc'[q] \notin Inside
         /\ push' = (IF push + 1 = Size THEN 0 ELSE push + 1) /\ push' # read
         /\ \A i \in Index : Queued(i)' <=> Queued(i) \/ i = push
         /\ slot[push] = [buffer |-> frame[p], size |-> frame[p]]
         /\ content[frame[p]] = frame[p] /\ frame[p] \in Frame \ unsent
<1>1. /\ UNCHANGED <<slot, content, unsent, frame, read, hpc, given>>
      /\ ppc[p] = "push" /\ ppc'[p] = "wake"
      /\ \A q \in Producers : q # p => ppc'[q] = ppc[q]
  BY OthersStay DEF Push, handler
<1>2. \A q \in Producers : ppc'[q] \notin Inside
  BY <1>1, OneInside DEF Orderly, Inside
<1>3. push' = Following(push) /\ push' # read
  <2>1. push' = queue_pos[p] /\ queue_pos[p] = Following(push)
    BY <1>1, OneInside DEF Push, Orderly, Inside
  <2>2. Following(push) # read
    BY <1>1 DEF Orderly, HasRoom, Inside
  <2> QED BY <2>1, <2>2
<1>4. push' = IF push + 1 = Size THEN 0 ELSE push + 1
  BY <1>3, NextIndex, RingFacts
<1>5. \A i \in Index : Queued(i)' <=> Queued(i) \/ i = push
  BY <1>1, <1>3, <1>4, SizeAssumption DEF Queued, TypeOK, Index
<1>6. /\ slot[push].buffer = frame[p] /\ slot[push].size = frame[p]
      /\ content[frame[p]] = frame[p] /\ frame[p] \in Frame \ unsent
  BY <1>1 DEF Orderly, SlotFills, FrameStarted
<1>7. slot[push] = [buffer |-> frame[p], size |-> frame[p]]
  BY <1>6 DEF TypeOK
<1> QED BY <1>1, <1>2, <1>3, <1>4, <1>5, <1>6, <1>7

LEMMA PushKeepsOrder ==
  ASSUME TypeOK, Orderly, NEW p \in Producers, Push(p), Alone'
  PROVE  Orderly'
<1>1. /\ UNCHANGED <<slot, content, unsent, frame, read, hpc, given>>
      /\ ppc[p] = "push" /\ push' # read
      /\ \A q \in Producers : ppc'[q] \notin Inside
      /\ \A q \in Producers : q # p => ppc'[q] = ppc[q]
  BY PushFacts
<1>2. \A i \in Index : Queued(i)' <=> Queued(i) \/ i = push
  BY PushFacts
<1>3. /\ slot[push].buffer = frame[p] /\ slot[push].size = frame[p]
      /\ content[frame[p]] = frame[p] /\ frame[p] \in Frame \ unsent
  <2>1. /\ slot[push] = [buffer |-> frame[p], size |-> frame[p]]
        /\ content[frame[p]] = frame[p] /\ frame[p] \in Frame \ unsent
    BY PushFacts
  <2> QED BY <2>1
<1>4. HasRoom' /\ SlotFills' /\ HandlerWorks' /\ FrameStarted'
  BY <1>1 DEF Orderly, HasRoom, SlotFills, HandlerWorks, FrameStarted, Inside
<1>5. QueuedWhole'
  BY <1>1, <1>2, <1>3 DEF Orderly, QueuedWhole
<1>6. OwnBuffers'
  BY <1>1, <1>2, <1>3 DEF Orderly, OwnBuffers, Inside
<1> QED BY <1>4, <1>5, <1>6 DEF Orderly

LEMMA WakeKeepsOrder ==
  ASSUME TypeOK, Orderly, NEW p \in Producers, Wake(p), Alone'
  PROVE  Orderly'
<1>1. /\ UNCHANGED <<slot, push, content, unsent, read, hpc, given>>
      /\ Step(p, "wake", "idle") /\ frame' = [frame EXCEPT ![p] = Junk]
  BY DEF Wake, Return, handler
<1>2. /\ ppc'[p] = "idle"
      /\ \A q \in Producers : q # p => ppc'[q] = ppc[q]
  BY <1>1, OthersStay
<1>3. \A q \in Producers : ppc'[q] # "idle" => frame'[q] = frame[q]
  BY <1>1, <1>2 DEF TypeOK
<1>4. \A i : Queued(i)' = Queued(i)
  BY <1>1 DEF Queued
<1>5. HasRoom' /\ FrameStarted' /\ SlotFills'
  BY <1>1, <1>2, <1>3 DEF Orderly, HasRoom, FrameStarted, SlotFills, Following,
    Inside
<1>6. QueuedWhole' /\ HandlerWorks'
  BY <1>1, <1>4 DEF Orderly, QueuedWhole, HandlerWorks
<1>7. OwnBuffers'
  BY <1>1, <1>2, <1>3, <1>4 DEF Orderly, OwnBuffers, Inside
<1> QED BY <1>5, <1>6, <1>7 DEF Orderly

(* The handler changes nothing of the producers.                           *)
LEMMA HandlerLeaves ==
  ASSUME Orderly, UNCHANGED <<slot, push, content, producers>>
  PROVE  /\ FrameStarted' /\ SlotFills'
         /\ read' = read => HasRoom' /\ OwnBuffers'
BY DEF producers, Orderly, FrameStarted, SlotFills, HasRoom, OwnBuffers,
  Following, Queued, Inside

LEMMA HandlerKeepsOrder ==
  ASSUME TypeOK, Orderly, Handler, Alone'
  PROVE  Orderly'
<1>1. CASE Check
  <2>1. /\ UNCHANGED <<slot, push, read, content, given, producers>>
        /\ hpc = "check" /\ (hpc' = "check" \/ (hpc' = "send" /\ push # read))
    BY <1>1 DEF Check
  <2>2. QueuedWhole' /\ HandlerWorks'
    BY <2>1 DEF Orderly, QueuedWhole, HandlerWorks, Queued, producers
  <2> QED BY <2>1, <2>2, HandlerLeaves DEF Orderly
<1>2. CASE Send
  <2>1. /\ UNCHANGED <<slot, push, read, content, producers>>
        /\ hpc = "send" /\ hpc' = "kfree" /\ given' = <<At(read)>>
    BY <1>2 DEF Send
  <2>2. At(read) = slot[read].size /\ push # read
    BY <2>1, RingFacts DEF Orderly, HandlerWorks, QueuedWhole, At
  <2>3. QueuedWhole' /\ HandlerWorks'
    BY <2>1, <2>2 DEF Orderly, QueuedWhole, HandlerWorks, Queued, producers
  <2> QED BY <2>1, <2>3, HandlerLeaves DEF Orderly
<1>3. CASE KFree
  <2>1. /\ UNCHANGED <<slot, push, read, given, producers>>
        /\ UNCHANGED <<ppc, frame, unsent>>
        /\ hpc = "kfree" /\ hpc' = "advance" /\ push # read
        /\ \A b \in Frame : b # slot[read].buffer => content'[b] = content[b]
        /\ \A i : Queued(i)' = Queued(i)
    BY <1>3 DEF KFree, producers, Orderly, HandlerWorks, Queued
  <2>2. read \in Index /\ Queued(read)
    BY <2>1, RingFacts
  <2>3. FrameStarted' /\ HasRoom' /\ OwnBuffers'
    BY <2>1 DEF Orderly, FrameStarted, HasRoom, OwnBuffers, Following, Inside
  <2>4. SlotFills'
    <3> SUFFICES ASSUME NEW q \in Producers, ppc[q] \in {"size", "push"}
                 PROVE  content'[frame[q]] = content[frame[q]]
      BY <2>1 DEF Orderly, SlotFills
    <3>1. slot[read].buffer # frame[q]
      BY <2>2 DEF Orderly, OwnBuffers, Inside
    <3> QED BY <2>1, <3>1 DEF Orderly, FrameStarted
  <2>5. QueuedWhole'
    BY <2>1, <2>2 DEF Orderly, QueuedWhole, OwnBuffers
  <2>6. HandlerWorks'
    BY <2>1 DEF Orderly, HandlerWorks
  <2> QED BY <2>3, <2>4, <2>5, <2>6 DEF Orderly
<1>4. CASE Advance
  <2>1. /\ UNCHANGED <<slot, push, content, producers>>
        /\ UNCHANGED <<ppc, frame, unsent>>
        /\ hpc = "advance" /\ hpc' = "check" /\ push # read
        /\ read' = Following(read) /\ given' = <<>>
    BY <1>4 DEF Advance, producers, Orderly, HandlerWorks
  <2>2. /\ push \in Index /\ read \in Index
        /\ read' = IF read + 1 = Size THEN 0 ELSE read + 1
        /\ Following(push) = IF push + 1 = Size THEN 0 ELSE push + 1
    BY <2>1, RingFacts, NextIndex
  <2>3. /\ \A i \in Index : Queued(i)' => Queued(i) /\ i # read
        /\ Following(push) # read'
    BY <2>1, <2>2, SizeAssumption DEF Queued, Index
  <2>4. HasRoom'
    BY <2>1, <2>3 DEF HasRoom, Following
  <2>5. QueuedWhole'
    BY <2>1, <2>3 DEF Orderly, QueuedWhole
  <2>6. OwnBuffers'
    BY <2>1, <2>3 DEF Orderly, OwnBuffers
  <2>7. HandlerWorks'
    BY <2>1 DEF HandlerWorks
  <2> QED BY <2>1, <2>4, <2>5, <2>6, <2>7, HandlerLeaves DEF Orderly
<1> QED BY <1>1, <1>2, <1>3, <1>4 DEF Handler

LEMMA OrderStutters == OrderInv /\ UNCHANGED vars => OrderInv'
BY DEF vars, OrderInv, Orderly, Alone, Overtaken, HasRoom, FrameStarted,
  SlotFills, QueuedWhole, OwnBuffers, HandlerWorks, Queued, Following, Index

LEMMA OrderStep ==
  QueueInv /\ OrderInv /\ [NicNext]_<<vars, nic>> => OrderInv'
<1> SUFFICES ASSUME TypeOK, OrderInv, [NicNext]_<<vars, nic>> PROVE OrderInv'
  BY DEF QueueInv, NoLostWakeUp
<1>1. ASSUME Record, Protocols \/ NicHandler PROVE OrderInv'
  <2> SUFFICES ASSUME ~overtaken' PROVE Orderly'
    BY DEF OrderInv
  <2>1. Orderly /\ Alone'
    BY <1>1 DEF Record, OrderInv, Alone
  <2>2. CASE Protocols
    BY <2>1, <2>2, StartKeepsOrder, TestKeepsOrder, BufferKeepsOrder,
      MemcpyKeepsOrder, SizeKeepsOrder, PushKeepsOrder, WakeKeepsOrder
      DEF Protocols, Enqueue
  <2>3. CASE NicHandler
    BY <2>1, <2>3, HandlerKeepsOrder DEF NicHandler, SendFrame, FreeFrame,
      Handler
  <2> QED BY <1>1, <2>2, <2>3
<1>2. CASE CardSends \/ Quiet \/ UNCHANGED <<vars, nic>>
  BY <1>2, OrderStutters DEF CardSends, Quiet
<1> QED BY <1>1, <1>2 DEF NicNext

-----------------------------------------------------------------------------
(* The queue's steps are those of FrameFifo.                               *)
WaitingIsQueue ==
  /\ Waiting = [k \in 1..Count |-> slot[Nth(k)].size]
  /\ Waiting \in Seq(Frame) /\ Len(Waiting) = Count

LEMMA WaitingIs == TypeOK /\ Orderly => WaitingIsQueue
<1> SUFFICES ASSUME TypeOK, Orderly PROVE WaitingIsQueue
  OBVIOUS
<1>1. ASSUME NEW k \in 1..Count
      PROVE  /\ (IF k = 1 /\ given # <<>> THEN given[1] ELSE At(Nth(k)))
                   = slot[Nth(k)].size
             /\ slot[Nth(k)].size \in Frame
  <2>1. /\ Nth(k) \in Index /\ Queued(Nth(k)) /\ Nth(1) = read
        /\ k # 1 => Nth(k) # read
    BY RingFacts
  <2>2. /\ slot[Nth(k)].buffer \in Frame
        /\ slot[Nth(k)].size = slot[Nth(k)].buffer
        /\ \/ content[slot[Nth(k)].buffer] = slot[Nth(k)].buffer
           \/ Nth(k) = read /\ hpc = "advance"
    BY <2>1 DEF Orderly, QueuedWhole
  <2>3. CASE k = 1 /\ given # <<>>
    BY <2>1, <2>2, <2>3 DEF Orderly, HandlerWorks
  <2>4. CASE ~(k = 1 /\ given # <<>>)
    <3>1. content[slot[Nth(k)].buffer] = slot[Nth(k)].buffer
      BY <2>1, <2>2, <2>4 DEF Orderly, HandlerWorks
    <3> QED BY <2>2, <2>4, <3>1 DEF At
  <2> QED BY <2>3, <2>4
<1>2. Waiting = [k \in 1..Count |-> slot[Nth(k)].size]
  BY <1>1 DEF Waiting
<1>3. Count \in Nat
  BY RingFacts
<1>4. Waiting \in [1..Count -> Frame]
  BY <1>1, <1>2
<1> QED BY <1>2, <1>3, <1>4 DEF WaitingIsQueue

LEMMA WaitingWillBe == TypeOK' /\ Orderly' => WaitingIsQueue'
BY WaitingIs, PTL

(* What leaves the frames of the queued slots alone leaves the queue alone.*)
LEMMA SameWaiting ==
  ASSUME TypeOK, Orderly, TypeOK', Orderly', UNCHANGED <<push, read>>,
         \A i \in Index : Queued(i) => slot'[i].size = slot[i].size
  PROVE  Waiting' = Waiting
<1>1. Count' = Count /\ \A k : Nth(k)' = Nth(k)
  BY DEF Count, Nth
<1>2. \A k \in 1..Count : slot'[Nth(k)].size = slot[Nth(k)].size
  BY RingFacts
<1>3. Waiting' = [k \in 1..Count' |-> slot'[Nth(k)'].size]
  BY WaitingWillBe DEF WaitingIsQueue
<1> QED BY <1>1, <1>2, <1>3, WaitingIs DEF WaitingIsQueue

LEMMA PushMaps ==
  ASSUME TypeOK, Orderly, TypeOK', Orderly', NEW p \in Producers, Push(p)
  PROVE  Waiting' = Append(Waiting, frame[p]) /\ Fifo!Offer(frame[p])
<1> DEFINE f == frame[p]
<1>1. /\ UNCHANGED <<slot, read, given>> /\ push' # read /\ f \in Frame
      /\ push' = IF push + 1 = Size THEN 0 ELSE push + 1
  BY PushFacts
<1>2. slot[push].size = f
  <2>1. slot[push] = [buffer |-> f, size |-> f]
    BY PushFacts
  <2> QED BY <2>1
<1>3. /\ Count' = Count + 1 /\ Count < Size - 1 /\ Count \in Nat
      /\ Nth(Count + 1) = push /\ \A k : Nth(k)' = Nth(k)
  BY <1>1, SizeAssumption DEF TypeOK, Count, Nth
<1>4. /\ Waiting \in Seq(Frame) /\ Len(Waiting) = Count
      /\ Waiting = [k \in 1..Count |-> slot[Nth(k)].size]
  BY WaitingIs DEF WaitingIsQueue
<1>5. /\ Waiting' \in Seq(Frame) /\ Len(Waiting') = Count + 1
      /\ Waiting' = [k \in 1..(Count + 1) |-> slot[Nth(k)].size]
  <2>1. /\ Waiting' \in Seq(Frame) /\ Len(Waiting') = Count'
        /\ Waiting' = [k \in 1..Count' |-> slot'[Nth(k)'].size]
    BY WaitingWillBe DEF WaitingIsQueue
  <2> QED BY <1>1, <1>3, <2>1
<1> HIDE DEF f
<1>6. /\ Append(Waiting, f) \in Seq(Frame)
      /\ Len(Append(Waiting, f)) = Count + 1
      /\ \A k \in 1..Count : Append(Waiting, f)[k] = Waiting[k]
      /\ Append(Waiting, f)[Count + 1] = f
  <2>1. f \in Frame /\ Waiting \in Seq(Frame) /\ Len(Waiting) = Count
    BY <1>1, <1>4
  <2> HIDE DEF Waiting, Count
  <2> QED BY <2>1, AppendProperties
<1>7. \A k \in 1..(Count + 1) : Waiting'[k] = Append(Waiting, f)[k]
  <2> TAKE k \in 1..(Count + 1)
  <2>1. Waiting'[k] = slot[Nth(k)].size
    BY <1>5
  <2>2. CASE k = Count + 1
    BY <1>2, <1>3, <1>6, <2>1, <2>2
  <2>3. CASE k \in 1..Count
    <3>1. Waiting[k] = slot[Nth(k)].size
      BY <1>4, <2>3
    <3> QED BY <1>6, <2>1, <2>3, <3>1
  <2>4. k = Count + 1 \/ k \in 1..Count
    <3>1. Count \in Nat
      BY <1>3
    <3> HIDE DEF Count
    <3> QED BY <3>1
  <2> QED BY <2>2, <2>3, <2>4
<1>8. Waiting' = Append(Waiting, f)
  BY <1>5, <1>6, <1>7, SeqEqual
<1>9. Fifo!Offer(f)
  BY <1>1, <1>3, <1>4, <1>8 DEF Fifo!Offer
<1> QED BY <1>8, <1>9 DEF f

LEMMA ProtocolsMap ==
  ASSUME TypeOK, Orderly, TypeOK', Orderly', Protocols
  PROVE  [Fifo!Next]_<<Waiting, given>>
<1>1. ASSUME NEW p \in Producers, NEW f \in Frame, EnqueueSendFrame(p, f)
      PROVE  UNCHANGED <<Waiting, given>>
  BY <1>1, SameWaiting DEF EnqueueSendFrame, handler
<1>2. ASSUME NEW p \in Producers, Enqueue(p), ~Push(p)
      PROVE  UNCHANGED <<Waiting, given>>
  <2>1. UNCHANGED <<push, read, given>>
    BY <1>2 DEF Enqueue, Test, Buffer, Memcpy, FrameSize, Wake, handler
  <2>2. ASSUME NEW i \in Index, Queued(i)
        PROVE  slot'[i].size = slot[i].size
    <3>1. i # push
      BY <2>2, RingFacts
    <3> QED BY <1>2, <3>1 DEF Enqueue, Test, Buffer, Memcpy, FrameSize, Wake,
          TypeOK, Index
  <2> QED BY <2>1, <2>2, SameWaiting
<1>3. ASSUME NEW p \in Producers, Push(p)
      PROVE  Fifo!Next
  <2>1. frame[p] \in Frame /\ Fifo!Offer(frame[p])
    BY <1>3, PushFacts, PushMaps
  <2> QED BY <2>1 DEF Fifo!Next
<1> QED BY <1>1, <1>2, <1>3 DEF Protocols

LEMMA HandlerMaps ==
  ASSUME TypeOK, Orderly, TypeOK', Orderly', Handler
  PROVE  [Fifo!Next]_<<Waiting, given>>
<1>1. CASE Check
  BY <1>1, SameWaiting DEF Check
<1>2. CASE Send
  <2>1. /\ UNCHANGED <<slot, push, read>> /\ push # read
        /\ given = <<>> /\ given' = <<slot[read].size>>
    BY <1>2 DEF Send, Orderly, HandlerWorks
  <2>2. Waiting' = Waiting
    BY <2>1, SameWaiting
  <2>3. Count \in Nat /\ Count # 0 /\ Nth(1) = read
    BY <2>1, RingFacts
  <2>4. Waiting # <<>> /\ Head(Waiting) = slot[read].size
    BY <2>3, WaitingIs DEF WaitingIsQueue
  <2>5. Fifo!Handle
    BY <2>1, <2>2, <2>4 DEF Fifo!Handle
  <2> QED BY <2>5 DEF Fifo!Next
<1>3. CASE KFree
  BY <1>3, SameWaiting DEF KFree
<1>4. CASE Advance
  <2>1. /\ UNCHANGED <<slot, push>> /\ push # read
        /\ given # <<>> /\ given' = <<>> /\ read' = Following(read)
    BY <1>4 DEF Advance, Orderly, HandlerWorks
  <2>2. /\ push \in Index /\ read \in Index
        /\ read' = IF read + 1 = Size THEN 0 ELSE read + 1
    BY <2>1, RingFacts, NextIndex
  <2>3. /\ Count \in Nat \ {0} /\ Count' = Count - 1
        /\ \A k \in 1..Count' : Nth(k)' = Nth(k + 1)
    BY <2>1, <2>2, SizeAssumption DEF Count, Nth, Index
  <2>4. /\ Waiting \in Seq(Frame) /\ Len(Waiting) = Count
        /\ Waiting = [k \in 1..Count |-> slot[Nth(k)].size]
    BY WaitingIs DEF WaitingIsQueue
  <2>5. /\ Waiting' \in Seq(Frame) /\ Len(Waiting') = Count'
        /\ Waiting' = [k \in 1..Count' |-> slot'[Nth(k)'].size]
    BY WaitingWillBe DEF WaitingIsQueue
  <2>6. Waiting # <<>>
    BY <2>3, <2>4
  <2>7. /\ Tail(Waiting) \in Seq(Frame) /\ Len(Tail(Waiting)) = Count'
        /\ \A k \in 1..Count' : Tail(Waiting)[k] = Waiting[k + 1]
    BY <2>3, <2>4, <2>6, HeadTailProperties
  <2>8. \A k \in 1..Count' : Waiting'[k] = Tail(Waiting)[k]
    <3> TAKE k \in 1..Count'
    <3>1. k + 1 \in 1..Count
      BY <2>3
    <3> QED BY <2>1, <2>3, <2>4, <2>5, <2>7, <3>1
  <2>9. Waiting' = Tail(Waiting)
    BY <2>5, <2>7, <2>8, SeqEqual
  <2>10. Fifo!Finish
    BY <2>1, <2>9 DEF Fifo!Finish
  <2> QED BY <2>10 DEF Fifo!Next
<1> QED BY <1>1, <1>2, <1>3, <1>4 DEF Handler

(* Only the last place is free when a frame is turned away.                *)
LEMMA TurnedAwayWhenFull ==
  ASSUME TypeOK, Orderly, NEW p \in Producers, TurnedAway(p)
  PROVE  Len(Waiting) = Size - 1
<1>1. ppc[p] = "test" /\ ppc'[p] = "idle"
  BY DEF TurnedAway, Test, Return, Step
<1>2. queue_pos[p] = Following(push)
  BY <1>1, OneInside DEF Orderly, Inside
<1>3. queue_pos[p] = read
  BY <1>1 DEF TurnedAway, Test, Step, TypeOK
<1>4. push \in Index /\ read \in Index
  BY RingFacts
<1>5. read = IF push + 1 = Size THEN 0 ELSE push + 1
  BY <1>2, <1>3, <1>4, NextIndex
<1>6. Size \in Nat /\ push \in Nat /\ push < Size
  BY <1>4, SizeAssumption DEF Index
<1>7. Count = Size - 1
  BY <1>5, <1>6 DEF Count
<1> QED BY <1>7, WaitingIs DEF WaitingIsQueue

(* The send queue gives the frames it was handed to the card's driver once *)
(* each, whole and in order: a frame that passes the test is queued, and   *)
(* one is turned away only when Size - 1 wait.  This as long as no         *)
(* producer overtakes another between the statements of                    *)
(* nht_enqueue_send_frame, which nothing locks.                            *)
THEOREM QueueIsOrderly == NicSpec => WorksUntilOvertaken
<1> DEFINE Works == /\ [Fifo!Next]_<<Waiting, given>>
                    /\ \A p \in Producers :
                         /\ Push(p) => Waiting' = Append(Waiting, frame[p])
                         /\ TurnedAway(p) => Len(Waiting) = Size - 1
<1>1. NicInit => QueueInv /\ OrderInv
  BY QueueInit, OrderInit DEF NicInit, OrderInv
<1>2. ASSUME QueueInv, QueueInv', OrderInv, OrderInv', [NicNext]_<<vars, nic>>
      PROVE  [overtaken' \/ Works]_vars
  <2> SUFFICES ASSUME ~overtaken', ~UNCHANGED vars
               PROVE  Works
    OBVIOUS
  <2>1. (Protocols \/ NicHandler) /\ Record
    BY <1>2 DEF NicNext, CardSends, Quiet
  <2>2. Orderly /\ Orderly'
    BY <1>2, <2>1 DEF Record, OrderInv
  <2>3. TypeOK /\ TypeOK'
    BY <1>2 DEF QueueInv, NoLostWakeUp
  <2>4. NicHandler => Handler
    BY DEF NicHandler, SendFrame, FreeFrame, Handler
  <2> QED BY <2>1, <2>2, <2>3, <2>4, ProtocolsMap, HandlerMaps, PushMaps,
        TurnedAwayWhenFull
<1> QED BY <1>1, <1>2, QueueStep, OrderStep, PTL DEF NicSpec,
  WorksUntilOvertaken
=============================================================================
