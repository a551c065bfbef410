---------------------------- MODULE KHeapProofs -----------------------------
(***************************************************************************)
(* Proofs about KHeap, for any callers, any size of the heap, of a byte    *)
(* and of a page: until one of the three steps that KHeap names, no byte   *)
(* is given out twice and none is lost; and a search that nobody disturbs  *)
(* finds the lowest place that fits.                                       *)
(***************************************************************************)
EXTENDS KHeap, TLAPS

Filling  == {"set", "set_store"}
Clearing == {"clear", "clear_store"}

CallTypes == [size : Sizes \cup {0}, align : BOOLEAN, begin : 0..(Bits - 1),
              kfree : {"once", "twice", "again"}]

(* What a caller's point says of its locals.                               *)
CallOK(c) ==
  /\ pc[c] = "idle" => call[c] = NoCall /\ at[c] = 0 /\ count[c] = 0
  /\ pc[c] = "scan" => /\ call[c].size \in Sizes
                       /\ count[c] <= at[c] /\ count[c] < call[c].size
  /\ pc[c] \in Filling \cup Clearing \cup {"kfree_again"} =>
       call[c].size \in Sizes /\ call[c].begin + call[c].size <= Bits
  /\ pc[c] \in Filling \cup Clearing =>
       at[c] >= call[c].begin /\ at[c] < call[c].begin + call[c].size

BlocksFit == \A b \in blocks : b.begin + b.size <= Bits

(* The bits that a caller has found free and not set yet.                  *)
Wanted(c) ==
  CASE pc[c] = "scan" -> (at[c] - count[c])..(at[c] - 1)
    [] pc[c] \in Filling -> at[c]..(call[c].begin + call[c].size - 1)
    [] OTHER -> {}

WantedAreFree == \A c \in Callers : Wanted(c) \cap used = {}

(* No byte has changed since fill has loaded it.                           *)
LoadedIsFresh ==
  \A c \in Callers : Stores(c) => loaded[c] = used \cap ByteOf(at[c])

(* Every set bit belongs to one block, or to one caller that sets or       *)
(* clears it.                                                              *)
OwnedAreUsed ==
  /\ \A b \in blocks : BitsOf(b) \subseteq used
  /\ \A c \in Callers : SetFor(c) \subseteq used

OwnedApart ==
  /\ \A a, b \in blocks : a # b => BitsOf(a) \cap BitsOf(b) = {}
  /\ \A b \in blocks, c \in Callers : SetFor(c) \cap BitsOf(b) = {}
  /\ \A c, d \in Callers : c # d => SetFor(c) \cap SetFor(d) = {}

UsedAreOwned ==
  \A i \in used : \/ \E b \in blocks : i \in BitsOf(b)
                  \/ \E c \in Callers : i \in SetFor(c)

HeapOK == WantedAreFree /\ LoadedIsFresh /\ OwnedAreUsed /\ OwnedApart /\ UsedAreOwned

(* An undisturbed search has passed no place that fits, and an aligned one *)
(* counts from a page's first place: it looks into a byte's middle only    *)
(* behind a set bit, or while it counts.                                   *)
SearchOK ==
  \A c \in Callers : pc[c] = "scan" /\ Undisturbed(c) =>
    /\ \A b \in Fits(call[c].size, call[c].align, used) : b >= at[c] - count[c]
    /\ call[c].align /\ count[c] > 0 => (at[c] - count[c]) % PageSize = 0
    /\ call[c].align /\ count[c] = 0 /\ at[c] % ByteBits # 0 => at[c] - 1 \in used

CallsOK == TypeOK /\ BlocksFit /\ \A c \in Callers : CallOK(c)

Inv == CallsOK /\ (~spoiled => HeapOK /\ SearchOK)
-----------------------------------------------------------------------------
(* Arithmetic of bytes and pages.                                          *)

Multiple(n, d) == \E q \in Nat : n = q * d

LEMMA Quotient ==
  ASSUME NEW d \in Nat \ {0}, NEW q \in Nat, NEW r \in 0..(d - 1)
  PROVE  (q * d + r) \div d = q
<1> DEFINE a == q * d + r
           p == a \div d
<1>1. a \in Nat /\ p \in Nat /\ a = p * d + (a % d) /\ a % d \in 0..(d - 1)
  OBVIOUS
<1>2. CASE p >= q + 1
  <2>1. p * d >= (q + 1) * d
    BY <1>1, <1>2
  <2> QED BY <1>1, <2>1
<1>3. CASE q >= p + 1
  <2>1. q * d >= (p + 1) * d
    BY <1>1, <1>3
  <2> QED BY <1>1, <2>1
<1> QED BY <1>1, <1>2, <1>3

LEMMA NoRemainder ==
  ASSUME NEW n \in Nat, NEW d \in Nat \ {0}
  PROVE  n % d = 0 <=> Multiple(n, d)
<1>1. n = (n \div d) * d + (n % d) /\ n \div d \in Nat /\ n % d \in Nat
  OBVIOUS
<1>2. ASSUME NEW q \in Nat, n = q * d PROVE n % d = 0
  <2>1. n \div d = q
    <3>1. n = q * d + 0 /\ 0 \in 0..(d - 1)
      BY <1>2
    <3> QED BY <3>1, Quotient
  <2> QED BY <1>1, <1>2, <2>1
<1>3. n % d = 0 => Multiple(n, d)
  BY <1>1 DEF Multiple
<1> QED BY <1>2, <1>3 DEF Multiple

LEMMA MultiplesApart ==
  ASSUME NEW a \in Nat, NEW b \in Nat, NEW d \in Nat \ {0},
         Multiple(a, d), Multiple(b, d), a < b
  PROVE  a + d <= b
<1>1. PICK p \in Nat, q \in Nat : a = p * d /\ b = q * d
  BY DEF Multiple
<1>2. CASE p >= q
  <2>1. p * d >= q * d
    BY <1>2
  <2> QED BY <1>1, <2>1
<1>3. CASE q >= p + 1
  <2>1. q * d >= (p + 1) * d
    BY <1>3
  <2> QED BY <1>1, <2>1
<1> QED BY <1>2, <1>3

LEMMA MultiplesChain ==
  ASSUME NEW n \in Nat, NEW d \in Nat \ {0}, NEW e \in Nat \ {0},
         Multiple(n, d), Multiple(d, e)
  PROVE  Multiple(n, e)
<1>1. PICK p \in Nat, q \in Nat : n = p * d /\ d = q * e
  BY DEF Multiple
<1>2. n = (p * q) * e /\ p * q \in Nat
  BY <1>1
<1> QED BY <1>2 DEF Multiple

LEMMA Layout ==
  /\ Bits \in Nat \ {0} /\ ByteBits \in Nat \ {0} /\ PageSize \in Nat \ {0}
  /\ Multiple(PageSize, ByteBits) /\ Multiple(Bits, ByteBits)
BY LayoutAssumption, NoRemainder, MultiplesChain

(* A search that skips a byte stays inside the bitset.                     *)
LEMMA SkipStaysInside ==
  ASSUME NEW n \in 0..Bits, n < Bits, n % ByteBits = 0
  PROVE  n + ByteBits <= Bits
<1>1. Multiple(n, ByteBits) /\ Multiple(Bits, ByteBits)
  BY Layout, NoRemainder
<1> QED BY <1>1, Layout, MultiplesApart

(* No page begins inside of a byte, or in a byte that is skipped.          *)
LEMMA NextPage ==
  ASSUME NEW n \in 0..Bits, NEW b \in 0..Bits, n % ByteBits = 0,
         n % PageSize # 0, b % PageSize = 0, b >= n
  PROVE  b >= n + ByteBits
<1>1. Multiple(n, ByteBits) /\ Multiple(b, ByteBits) /\ b # n
  BY Layout, NoRemainder, MultiplesChain
<1> QED BY <1>1, Layout, MultiplesApart

LEMMA SameByte ==
  ASSUME NEW n \in 1..(Bits - 1), n % ByteBits # 0
  PROVE  n \in ByteOf(n - 1)
<1> DEFINE q == n \div ByteBits
           r == n % ByteBits
<1>1. n = q * ByteBits + r /\ q \in Nat /\ r \in 1..(ByteBits - 1)
  BY Layout
<1>2. n - 1 = q * ByteBits + (r - 1) /\ r - 1 \in 0..(ByteBits - 1)
  BY <1>1, Layout
<1>3. (n - 1) \div ByteBits = q
  <2> HIDE DEF q, r
  <2> QED BY <1>1, <1>2, Layout, Quotient
<1> QED BY <1>3, Layout DEF ByteOf

-----------------------------------------------------------------------------
LEMMA InitInv == Init => Inv
<1> SUFFICES ASSUME Init PROVE Inv
  OBVIOUS
<1>1. NoCall \in CallTypes
  BY Layout DEF NoCall, CallTypes
<1>2. CallsOK
  <2>1. /\ call \in [Callers -> CallTypes]
        /\ loaded \in [Callers -> SUBSET (0..(Bits - 1))]
    BY <1>1 DEF Init
  <2>2. pc \in [Callers -> Points] /\ used \subseteq 0..(Bits - 1)
    BY DEF Init, Points
  <2>3. at \in [Callers -> 0..Bits] /\ count \in [Callers -> 0..Bits]
    BY Layout DEF Init
  <2>4. TypeOK
    BY <2>1, <2>2, <2>3 DEF Init, TypeOK, CallTypes
  <2> QED BY <2>4 DEF Init, CallsOK, CallOK, BlocksFit, Filling, Clearing
<1>3. HeapOK
  BY DEF Init, HeapOK, WantedAreFree, LoadedIsFresh, Stores, OwnedAreUsed,
    OwnedApart, UsedAreOwned, SetFor
<1>4. SearchOK
  BY DEF Init, SearchOK
<1> QED BY <1>2, <1>3, <1>4 DEF Inv

(* What a step of one caller leaves alone.                                 *)
LEMMA OthersStay ==
  ASSUME TypeOK, NEW c \in Callers, Step(c), NEW d \in Callers \ {c}
  PROVE  /\ pc'[d] = pc[d] /\ call'[d] = call[d] /\ at'[d] = at[d]
         /\ count'[d] = count[d] /\ loaded'[d] = loaded[d]
<1> USE DEF TypeOK, Goto
<1>1. ASSUME NEW size \in Sizes, NEW align \in BOOLEAN, Kmalloc(c, size, align)
      PROVE  pc'[d] = pc[d] /\ call'[d] = call[d] /\ UNCHANGED <<at, count, loaded>>
  BY <1>1 DEF Kmalloc
<1>2. CASE SkipByte(c) BY <1>2 DEF SkipByte
<1>3. CASE ScanBit(c) BY <1>3 DEF ScanBit
<1>4. CASE NoRoom(c) BY <1>4 DEF NoRoom, Return
<1>5. CASE Load(c) BY <1>5 DEF Load
<1>6. CASE SetBit(c) BY <1>6 DEF SetBit, NextBit, Return
<1>7. CASE ClearBit(c) BY <1>7 DEF ClearBit, NextBit, Return
<1>8. ASSUME NEW b, NEW times, KFree(c, b, times)
      PROVE  /\ pc'[d] = pc[d] /\ call'[d] = call[d] /\ at'[d] = at[d]
             /\ UNCHANGED <<count, loaded>>
  BY <1>8 DEF KFree
<1>9. CASE KFreeAgain(c) BY <1>9 DEF KFreeAgain
<1> QED BY <1>1, <1>2, <1>3, <1>4, <1>5, <1>6, <1>7, <1>8, <1>9 DEF Step
-----------------------------------------------------------------------------
(* Types, and what a caller's point says of its locals.                    *)

LEMMA CallerTypes ==
  ASSUME CallsOK, NEW c \in Callers
  PROVE  /\ pc[c] \in Points /\ at[c] \in 0..Bits /\ count[c] \in 0..Bits
         /\ call[c].size \in Nat /\ call[c].begin \in 0..(Bits - 1)
         /\ call[c].size \in Sizes => call[c].size \in Nat \ {0}
         /\ call[c].align \in BOOLEAN /\ CallOK(c)
         /\ loaded[c] \subseteq 0..(Bits - 1)
<1>1. call[c] \in CallTypes
  BY DEF CallsOK, TypeOK, CallTypes
<1>2. /\ call[c].size \in Sizes \cup {0} /\ call[c].align \in BOOLEAN
      /\ call[c].begin \in 0..(Bits - 1)
  BY <1>1 DEF CallTypes
<1>3. call[c].size \in Nat /\ (call[c].size \in Sizes => call[c].size \in Nat \ {0})
  <2>1. \A n \in Sizes \cup {0} : n \in Nat /\ (n \in Sizes => n \in Nat \ {0})
    BY SizeAssumption
  <2> QED BY <1>2, <2>1
<1> QED BY <1>2, <1>3 DEF CallsOK, TypeOK

(* It is enough to look at the caller that moves.                          *)
LEMMA OneMoves ==
  ASSUME CallsOK, NEW c \in Callers, Step(c), TypeOK', BlocksFit', CallOK(c)'
  PROVE  CallsOK'
<1>1. ASSUME NEW d \in Callers \ {c} PROVE CallOK(d)'
  <2>1. CallOK(d)
    BY DEF CallsOK
  <2> QED BY <2>1, OthersStay DEF CallsOK, CallOK
<1> QED BY <1>1 DEF CallsOK

LEMMA ReturnFacts ==
  ASSUME TypeOK, NEW c \in Callers, Return(c)
  PROVE  /\ pc' \in [Callers -> Points] /\ at' \in [Callers -> 0..Bits]
         /\ call' \in [Callers -> CallTypes]
         /\ count' \in [Callers -> 0..Bits]
         /\ loaded' \in [Callers -> SUBSET (0..(Bits - 1))]
         /\ CallOK(c)' /\ pc'[c] = "idle"
<1>1. NoCall \in CallTypes
  BY Layout DEF NoCall, CallTypes
<1>2. pc' \in [Callers -> Points] /\ at' \in [Callers -> 0..Bits]
  BY Layout DEF Return, Goto, TypeOK, Points
<1>3. count' \in [Callers -> 0..Bits] /\ loaded' \in [Callers -> SUBSET (0..(Bits - 1))]
  BY Layout DEF Return, TypeOK
<1>4. pc'[c] = "idle" /\ call'[c] = NoCall /\ at'[c] = 0 /\ count'[c] = 0
  BY DEF Return, Goto, TypeOK
<1> QED BY <1>1, <1>2, <1>3, <1>4 DEF Return, TypeOK, CallTypes, CallOK, Filling, Clearing

LEMMA StepTypes ==
  ASSUME CallsOK, NEW c \in Callers, Step(c), Record(c)
  PROVE  CallsOK'
<1> USE CallerTypes, OneMoves
<1>1. disturbed' \subseteq Callers /\ spoiled' \in BOOLEAN
  BY DEF Record, CallsOK, TypeOK
<1>2. ASSUME NEW size \in Sizes, NEW align \in BOOLEAN, Kmalloc(c, size, align)
      PROVE  CallsOK'
  <2>1. TypeOK'
    <3>1. call' \in [Callers -> CallTypes]
      <4>1. call' = [call EXCEPT ![c] = [call[c] EXCEPT !.size = size, !.align = align]]
        BY <1>2 DEF Kmalloc, CallsOK, TypeOK
      <4>2. call[c] \in CallTypes /\ call \in [Callers -> CallTypes]
        BY DEF CallsOK, TypeOK, CallTypes
      <4>3. [call[c] EXCEPT !.size = size, !.align = align] \in CallTypes
        BY <4>2 DEF CallTypes
      <4> QED BY <4>1, <4>2, <4>3
    <3>2. pc' \in [Callers -> Points]
      BY <1>2 DEF Kmalloc, Goto, CallsOK, TypeOK, Points
    <3> QED BY <1>1, <1>2, <3>1, <3>2 DEF Kmalloc, CallsOK, TypeOK, CallTypes
  <2>2. CallOK(c)'
    BY <1>2, SizeAssumption DEF Kmalloc, Goto, CallsOK, TypeOK, CallOK, Filling, Clearing
  <2> QED BY <1>2, <2>1, <2>2 DEF Kmalloc, CallsOK, BlocksFit
<1>3. CASE SkipByte(c)
  <2>1. at[c] + ByteBits \in 0..Bits /\ at[c] + ByteBits >= at[c]
    BY <1>3, Layout, SkipStaysInside DEF SkipByte, GoesOn, SkipsByte
  <2>2. TypeOK'
    BY <1>1, <1>3, <2>1 DEF SkipByte, CallsOK, TypeOK
  <2>3. CallOK(c)'
    BY <1>3, <2>1, Layout DEF SkipByte, GoesOn, CallsOK, TypeOK, CallOK, Filling, Clearing
  <2> QED BY <1>3, <2>2, <2>3 DEF SkipByte, CallsOK, BlocksFit
<1>4. CASE ScanBit(c)
  <2>1. /\ pc[c] = "scan" /\ at[c] < Bits /\ call[c].size \in Nat \ {0}
        /\ Counted(c) \in 0..Bits /\ Counted(c) <= at[c] + 1
        /\ Counted(c) <= call[c].size
    BY <1>4, Layout DEF ScanBit, GoesOn, Counted, CallOK
  <2>2. CASE Counted(c) = call[c].size
    <3>1. at[c] + 1 - call[c].size \in 0..(Bits - 1)
      BY <2>1, <2>2, Layout
    <3>2. /\ pc' = [pc EXCEPT ![c] = "set"] /\ count' = [count EXCEPT ![c] = Counted(c)]
          /\ call' = [call EXCEPT ![c].begin = at[c] + 1 - call[c].size]
          /\ at' = [at EXCEPT ![c] = at[c] + 1 - call[c].size]
          /\ UNCHANGED <<used, blocks, loaded>>
      BY <1>4, <2>2 DEF ScanBit, Goto, CallsOK, TypeOK
    <3>3. TypeOK'
      BY <1>1, <2>1, <3>1, <3>2, Layout DEF CallsOK, TypeOK, Points
    <3>4. CallOK(c)'
      <4>1. /\ pc'[c] = "set" /\ at'[c] = at[c] + 1 - call[c].size
            /\ call'[c].begin = at[c] + 1 - call[c].size
            /\ call'[c].size = call[c].size
        BY <3>2 DEF CallsOK, TypeOK
      <4>2. call[c].size \in Sizes
        BY <2>1 DEF CallOK
      <4> QED BY <2>1, <3>1, <4>1, <4>2, Layout DEF CallOK, Filling, Clearing
    <3> QED BY <1>4, <3>2, <3>3, <3>4 DEF CallsOK, BlocksFit
  <2>3. CASE Counted(c) # call[c].size
    <3>1. /\ at' = [at EXCEPT ![c] = at[c] + 1] /\ count' = [count EXCEPT ![c] = Counted(c)]
          /\ UNCHANGED <<used, blocks, pc, call, loaded>>
      BY <1>4, <2>3 DEF ScanBit, Goto, CallsOK, TypeOK
    <3>2. TypeOK'
      BY <1>1, <2>1, <3>1, Layout DEF CallsOK, TypeOK
    <3>3. CallOK(c)'
      <4>1. pc'[c] = "scan" /\ at'[c] = at[c] + 1 /\ count'[c] = Counted(c)
        BY <2>1, <3>1 DEF CallsOK, TypeOK
      <4>2. call[c].size \in Sizes
        BY <2>1 DEF CallOK
      <4> QED BY <2>1, <2>3, <3>1, <4>1, <4>2 DEF CallOK, Filling, Clearing
    <3> QED BY <1>4, <3>1, <3>2, <3>3 DEF CallsOK, BlocksFit
  <2> QED BY <2>2, <2>3
<1>5. CASE NoRoom(c)
  BY <1>1, <1>5, ReturnFacts DEF NoRoom, CallsOK, TypeOK, CallTypes, BlocksFit
<1>6. CASE Load(c)
  <2>1. TypeOK'
    BY <1>1, <1>6 DEF Load, Goto, CallsOK, TypeOK, Points
  <2>2. CallOK(c)'
    BY <1>6 DEF Load, Goto, CallsOK, TypeOK, CallOK, Filling, Clearing
  <2> QED BY <1>6, <2>1, <2>2 DEF Load, CallsOK, BlocksFit
<1>7. ASSUME NEW to \in {"set", "clear", "kfree_again"}, NextBit(c, to),
             pc[c] \in {"set_store", "clear_store"}, to # "kfree_again" => ~LastBit(c)
      PROVE  /\ pc' \in [Callers -> Points] /\ at' \in [Callers -> 0..Bits]
             /\ loaded' \in [Callers -> SUBSET (0..(Bits - 1))]
             /\ UNCHANGED <<call, count>> /\ CallOK(c)'
  <2>1. /\ call[c].size \in Nat \ {0} /\ at[c] + 1 \in 0..Bits
        /\ at[c] >= call[c].begin
        /\ to # "kfree_again" => at[c] + 1 < call[c].begin + call[c].size
        /\ call[c].begin + call[c].size <= Bits
    BY <1>7, Layout DEF CallOK, Filling, Clearing, LastBit
  <2>2. /\ pc' = [pc EXCEPT ![c] = to] /\ at' = [at EXCEPT ![c] = at[c] + 1]
        /\ loaded' = [loaded EXCEPT ![c] = {}] /\ UNCHANGED <<call, count>>
    BY <1>7 DEF NextBit, Goto
  <2>3. CallOK(c)'
    BY <1>7, <2>1, <2>2 DEF CallsOK, TypeOK, CallOK, Filling, Clearing
  <2> QED BY <1>7, <2>1, <2>2, <2>3 DEF CallsOK, TypeOK, Points
<1>8. CASE SetBit(c)
  <2>1. at[c] \in 0..(Bits - 1)
    <3>1. at[c] < call[c].begin + call[c].size /\ call[c].begin + call[c].size <= Bits
      BY <1>8 DEF SetBit, CallOK, Filling
    <3> QED BY <3>1, Layout
  <2> used' \subseteq 0..(Bits - 1)
    BY <1>8, <2>1 DEF SetBit, Store, CallsOK, TypeOK
  <2>2. CASE ~LastBit(c) /\ NextBit(c, "set") /\ UNCHANGED blocks
    BY <1>1, <1>7, <1>8, <2>1, <2>2 DEF SetBit, CallsOK, TypeOK, BlocksFit
  <2>3. CASE LastBit(c) /\ Return(c) /\ blocks' = blocks \cup {Mine(c)}
    <3>1. /\ Mine(c) \in [owner : Callers, begin : 0..(Bits - 1), size : Sizes]
          /\ Mine(c).begin + Mine(c).size <= Bits
      BY <1>8 DEF SetBit, CallOK, Filling, Mine, Block
    <3> QED BY <1>1, <1>8, <2>1, <2>3, <3>1, ReturnFacts DEF CallsOK, TypeOK, CallTypes, BlocksFit
  <2> QED BY <1>8, <2>2, <2>3 DEF SetBit
<1>9. CASE ClearBit(c)
  <2>1. used' \subseteq 0..(Bits - 1) /\ UNCHANGED blocks
    BY <1>9 DEF ClearBit, Store, CallsOK, TypeOK
  <2>2. ASSUME NEW to \in {"set", "clear", "kfree_again"}, NextBit(c, to),
               to # "kfree_again" => ~LastBit(c)
        PROVE  CallsOK'
    BY <1>1, <1>7, <1>9, <2>1, <2>2 DEF ClearBit, CallsOK, TypeOK, BlocksFit
  <2>3. CASE Return(c)
    BY <1>1, <1>9, <2>1, <2>3, ReturnFacts DEF CallsOK, TypeOK, CallTypes, BlocksFit
  <2> QED BY <1>9, <2>2, <2>3 DEF ClearBit
<1>10. ASSUME NEW b \in blocks, NEW times \in {"once", "twice"}, KFree(c, b, times)
       PROVE  CallsOK'
  <2>1. /\ b \in [owner : Callers, begin : 0..(Bits - 1), size : Sizes]
        /\ b.begin + b.size <= Bits /\ b.size \in Nat \ {0}
    BY SizeAssumption DEF CallsOK, TypeOK, BlocksFit
  <2>2. TypeOK'
    BY <1>1, <1>10, <2>1, Layout DEF KFree, Goto, CallsOK, TypeOK, Points
  <2>3. CallOK(c)'
    BY <1>10, <2>1, Layout DEF KFree, Goto, CallsOK, TypeOK, CallOK, Filling, Clearing
  <2> QED BY <1>10, <2>2, <2>3 DEF KFree, CallsOK, BlocksFit
<1>11. CASE KFreeAgain(c)
  <2>1. TypeOK'
    BY <1>1, <1>11, Layout DEF KFreeAgain, Goto, CallsOK, TypeOK, Points
  <2>2. CallOK(c)'
    BY <1>11 DEF KFreeAgain, Goto, CallsOK, TypeOK, CallOK, Filling, Clearing
  <2> QED BY <1>11, <2>1, <2>2 DEF KFreeAgain, CallsOK, BlocksFit
<1> QED BY <1>2, <1>3, <1>4, <1>5, <1>6, <1>8, <1>9, <1>10, <1>11 DEF Step
-----------------------------------------------------------------------------
(* Who owns which bits.                                                    *)

(* The sets a caller stands for, without the case distinction.             *)
LEMMA Sets ==
  ASSUME NEW c \in Callers
  PROVE  /\ pc[c] \in Filling => SetFor(c) = call[c].begin..(at[c] - 1)
         /\ pc[c] \in Clearing /\ call[c].kfree # "again" =>
              SetFor(c) = at[c]..(call[c].begin + call[c].size - 1)
         /\ pc[c] \notin Filling \cup Clearing \/ (pc[c] \in Clearing /\ call[c].kfree = "again")
              => SetFor(c) = {}
         /\ pc[c] = "scan" => Wanted(c) = (at[c] - count[c])..(at[c] - 1)
         /\ pc[c] \in Filling => Wanted(c) = at[c]..(call[c].begin + call[c].size - 1)
         /\ pc[c] \notin Filling \cup {"scan"} => Wanted(c) = {}
         /\ pc[c] = "scan" => Claimed(c) = Wanted(c)
         /\ pc[c] \in Filling =>
              Claimed(c) = call[c].begin..(call[c].begin + call[c].size - 1)
BY DEF SetFor, Wanted, Claimed, Filling, Clearing, BitsOf, Mine, Block

LEMMA OthersOwn ==
  ASSUME CallsOK, NEW c \in Callers, Step(c), NEW d \in Callers \ {c}
  PROVE  /\ SetFor(d)' = SetFor(d) /\ Wanted(d)' = Wanted(d)
         /\ Stores(d)' = Stores(d) /\ loaded'[d] = loaded[d] /\ at'[d] = at[d]
BY OthersStay DEF CallsOK, SetFor, Wanted, Stores

(* A step that takes nothing and gives nothing back.                       *)
LEMMA NothingChangesHands ==
  ASSUME CallsOK, HeapOK, NEW c \in Callers, Step(c),
         UNCHANGED <<used, blocks>>, SetFor(c)' = SetFor(c),
         Wanted(c)' \cap used = {},
         Stores(c)' => loaded'[c] = used \cap ByteOf(at'[c])
  PROVE  HeapOK'
<1> USE OthersOwn
<1>1. WantedAreFree' /\ LoadedIsFresh'
  BY DEF HeapOK, WantedAreFree, LoadedIsFresh, ByteOf
<1>2. \A d \in Callers : SetFor(d)' = SetFor(d)
  OBVIOUS
<1>3. OwnedAreUsed' /\ OwnedApart' /\ UsedAreOwned'
  BY <1>2 DEF HeapOK, OwnedAreUsed, OwnedApart, UsedAreOwned, BitsOf
<1> QED BY <1>1, <1>3 DEF HeapOK

LEMMA SearchKeepsHeap ==
  ASSUME CallsOK, HeapOK, NEW c \in Callers, Step(c),
         \/ \E size \in Sizes, align \in BOOLEAN : Kmalloc(c, size, align)
         \/ SkipByte(c) \/ ScanBit(c) \/ NoRoom(c) \/ Load(c) \/ KFreeAgain(c)
  PROVE  HeapOK'
<1> USE CallerTypes
<1>1. ASSUME NEW size \in Sizes, NEW align \in BOOLEAN, Kmalloc(c, size, align)
      PROVE  HeapOK'
  <2>1. /\ UNCHANGED <<used, blocks, at, count>> /\ pc[c] = "idle" /\ pc'[c] = "scan"
        /\ at[c] = 0 /\ count[c] = 0
    BY <1>1 DEF Kmalloc, Goto, CallsOK, TypeOK, CallOK
  <2>2. SetFor(c)' = SetFor(c) /\ Wanted(c)' = 0..(0 - 1) /\ ~Stores(c)'
    BY <2>1 DEF SetFor, Wanted, Stores, Filling
  <2> QED BY <2>1, <2>2, NothingChangesHands
<1>2. CASE SkipByte(c)
  <2>1. /\ UNCHANGED <<used, blocks, pc, call, count>> /\ pc[c] = "scan"
        /\ at'[c] = at[c] + ByteBits /\ count[c] = 0
    BY <1>2 DEF SkipByte, SkipsByte, GoesOn, CallsOK, TypeOK
  <2>2. SetFor(c)' = SetFor(c) /\ Wanted(c)' = {} /\ ~Stores(c)'
    BY <2>1, Layout DEF SetFor, Wanted, Stores, Filling
  <2> QED BY <2>1, <2>2, NothingChangesHands
<1>3. CASE ScanBit(c)
  <2>1. /\ UNCHANGED <<used, blocks>> /\ pc[c] = "scan" /\ count'[c] = Counted(c)
        /\ call'[c].size = call[c].size
        /\ \/ /\ Counted(c) = call[c].size /\ pc'[c] = "set"
              /\ call'[c].begin = at[c] + 1 - call[c].size
              /\ at'[c] = at[c] + 1 - call[c].size
           \/ /\ pc'[c] = "scan" /\ at'[c] = at[c] + 1
    BY <1>3 DEF ScanBit, GoesOn, Goto, CallsOK, TypeOK
  <2>2. /\ count[c] \in Nat /\ at[c] \in Nat /\ call[c].size \in Nat \ {0}
        /\ count[c] <= at[c]
    BY <2>1 DEF CallOK
  <2>3. Wanted(c) = (at[c] - count[c])..(at[c] - 1) /\ Wanted(c) \cap used = {}
    BY <2>1, Sets DEF HeapOK, WantedAreFree
  <2>4. SetFor(c) = {} /\ ~Stores(c)'
    BY <2>1 DEF SetFor, Stores
  <2>5. SetFor(c)' = {}
    BY <2>1, <2>2 DEF SetFor
  <2>6. Wanted(c)' = IF at[c] \in used THEN {} ELSE (at[c] - count[c])..at[c]
    <3>1. Counted(c) = IF at[c] \in used THEN 0 ELSE count[c] + 1
      BY DEF Counted
    <3>2. CASE pc'[c] = "set"
      <4>1. Wanted(c)' = at'[c]..(call'[c].begin + call'[c].size - 1)
        BY <3>2 DEF Wanted, Filling
      <4> QED BY <2>1, <2>2, <3>1, <3>2, <4>1
    <3>3. CASE pc'[c] = "scan"
      <4>1. Wanted(c)' = (at'[c] - count'[c])..(at'[c] - 1)
        BY <3>3 DEF Wanted, Filling
      <4> QED BY <2>1, <2>2, <3>1, <3>3, <4>1
    <3> QED BY <2>1, <3>2, <3>3
  <2>7. Wanted(c)' \cap used = {}
    BY <2>2, <2>3, <2>6
  <2> QED BY <2>1, <2>4, <2>5, <2>7, NothingChangesHands
<1>4. CASE NoRoom(c)
  <2>1. UNCHANGED <<used, blocks>> /\ pc[c] = "scan" /\ pc'[c] = "idle"
    BY <1>4, ReturnFacts DEF NoRoom, CallsOK
  <2>2. SetFor(c)' = SetFor(c) /\ Wanted(c)' = {} /\ ~Stores(c)'
    BY <2>1 DEF SetFor, Wanted, Stores, Filling
  <2> QED BY <2>1, <2>2, NothingChangesHands
<1>5. CASE Load(c)
  <2>1. /\ UNCHANGED <<used, blocks, call, at, count>>
        /\ \/ pc[c] = "set" /\ pc'[c] = "set_store"
           \/ pc[c] = "clear" /\ pc'[c] = "clear_store"
        /\ loaded'[c] = used \cap ByteOf(at[c])
    BY <1>5 DEF Load, Goto, CallsOK, TypeOK
  <2>2. SetFor(c)' = SetFor(c) /\ Wanted(c)' = Wanted(c)
    BY <2>1 DEF SetFor, Wanted, Filling
  <2> QED BY <2>1, <2>2, NothingChangesHands DEF HeapOK, WantedAreFree
<1>6. CASE KFreeAgain(c)
  <2>1. /\ UNCHANGED <<used, blocks, loaded>> /\ pc[c] = "kfree_again" /\ pc'[c] = "clear"
        /\ call'[c].kfree = "again"
    BY <1>6 DEF KFreeAgain, Goto, CallsOK, TypeOK
  <2>2. SetFor(c)' = SetFor(c) /\ Wanted(c)' = {} /\ ~Stores(c)'
    BY <2>1 DEF SetFor, Wanted, Stores, Filling
  <2> QED BY <2>1, <2>2, NothingChangesHands
<1> QED BY <1>1, <1>2, <1>3, <1>4, <1>5, <1>6

(* The byte that is stored is the one that was loaded but for one bit, and *)
(* nobody else is about to store it.                                       *)
LEMMA StoreFacts ==
  ASSUME CallsOK, HeapOK, NEW c \in Callers, Step(c), Stores(c), ~StoresLoaded(c)
  PROVE  /\ at[c] \in 0..(Bits - 1) /\ at[c] \in ByteOf(at[c])
         /\ SetBit(c) => used' = used \cup {at[c]}
         /\ ClearBit(c) => used' = used \ {at[c]}
         /\ \A d \in Callers \ {c} : Stores(d) => at[c] \notin ByteOf(at[d])
<1>1. \A d \in Callers : Stores(d) => at[d] \in 0..(Bits - 1)
  <2> SUFFICES ASSUME NEW d \in Callers, Stores(d) PROVE at[d] \in 0..(Bits - 1)
    OBVIOUS
  <2>1. /\ at[d] < call[d].begin + call[d].size /\ call[d].begin + call[d].size <= Bits
        /\ at[d] \in Nat /\ call[d].begin \in Nat /\ call[d].size \in Nat
    BY CallerTypes DEF CallOK, Stores, Filling, Clearing
  <2> QED BY <2>1, Layout
<1>2. at[c] \in ByteOf(at[c])
  BY <1>1 DEF ByteOf
<1>3. loaded[c] = used \cap ByteOf(at[c])
  BY DEF HeapOK, LoadedIsFresh
<1>4. SetBit(c) => used' = used \cup {at[c]}
  BY <1>2, <1>3 DEF SetBit, Store
<1>5. ClearBit(c) => used' = used \ {at[c]}
  BY <1>2, <1>3 DEF ClearBit, Store
<1>6. ASSUME NEW d \in Callers \ {c}, Stores(d) PROVE at[c] \notin ByteOf(at[d])
  <2>1. at[d] \notin ByteOf(at[c]) /\ at[d] \in 0..(Bits - 1)
    BY <1>1, <1>6 DEF StoresLoaded
  <2> QED BY <1>1, <2>1 DEF ByteOf
<1> QED BY <1>1, <1>2, <1>4, <1>5, <1>6

LEMMA LoadedStays ==
  ASSUME CallsOK, HeapOK, NEW c \in Callers, Step(c), Stores(c), ~StoresLoaded(c),
         SetBit(c) \/ ClearBit(c), ~Stores(c)'
  PROVE  LoadedIsFresh'
<1> SUFFICES ASSUME NEW d \in Callers \ {c}, Stores(d)
             PROVE  loaded[d] = used' \cap ByteOf(at[d])
  BY OthersOwn DEF LoadedIsFresh, ByteOf
<1>1. loaded[d] = used \cap ByteOf(at[d])
  BY DEF HeapOK, LoadedIsFresh
<1> QED BY <1>1, StoreFacts
LEMMA SetBitKeepsHeap ==
  ASSUME CallsOK, HeapOK, NEW c \in Callers, Step(c), SetBit(c),
         ~TakesClaimed(c), ~StoresLoaded(c)
  PROVE  HeapOK'
<1> DEFINE x == at[c]
<1>1. /\ pc[c] = "set_store" /\ Stores(c) /\ used' = used \cup {x}
      /\ call[c].begin \in Nat /\ call[c].size \in Nat /\ x \in Nat
      /\ call[c].begin <= x /\ x < call[c].begin + call[c].size
  BY StoreFacts, CallerTypes DEF SetBit, Stores, CallOK, Filling
<1>2. /\ SetFor(c) = call[c].begin..(x - 1)
      /\ Wanted(c) = x..(call[c].begin + call[c].size - 1)
  BY <1>1, Sets DEF Filling
<1>3. x \notin used
  BY <1>1, <1>2 DEF HeapOK, WantedAreFree
<1>4. \A d \in Callers \ {c} : x \notin Wanted(d)
  <2> SUFFICES ASSUME NEW d \in Callers \ {c}, x \in Wanted(d) PROVE FALSE
    OBVIOUS
  <2>1. x \notin Claimed(d)
    BY <1>1 DEF TakesClaimed
  <2>2. CASE pc[d] = "scan"
    BY <2>1, <2>2, Sets
  <2>3. CASE pc[d] \in Filling
    <3>1. call[d].begin <= at[d] /\ call[d].begin \in Nat /\ at[d] \in Nat /\ call[d].size \in Nat
      BY <2>3, CallerTypes DEF CallOK
    <3> QED BY <1>1, <2>1, <2>3, <3>1, Sets
  <2> QED BY <2>2, <2>3, Sets
<1>5. /\ \A d \in Callers \ {c} : SetFor(d)' = SetFor(d) /\ Wanted(d)' = Wanted(d)
      /\ \A d \in Callers : x \notin SetFor(d)
      /\ \A b \in blocks : x \notin BitsOf(b)
  BY <1>3, OthersOwn DEF HeapOK, OwnedAreUsed
<1>6. /\ SetFor(c) \subseteq used /\ Wanted(c) \cap used = {}
      /\ \A d \in Callers \ {c} : SetFor(c) \cap SetFor(d) = {}
      /\ \A b \in blocks : SetFor(c) \cap BitsOf(b) = {}
  BY DEF HeapOK, OwnedAreUsed, OwnedApart, WantedAreFree
<1>7. CASE ~LastBit(c) /\ NextBit(c, "set") /\ UNCHANGED blocks
  <2>1. /\ pc'[c] = "set" /\ at'[c] = x + 1 /\ call'[c] = call[c]
    BY <1>7 DEF NextBit, Goto, CallsOK, TypeOK
  <2>2. SetFor(c)' = call'[c].begin..(at'[c] - 1)
    BY <2>1 DEF SetFor
  <2>3. Wanted(c)' = at'[c]..(call'[c].begin + call'[c].size - 1)
    BY <2>1 DEF Wanted, Filling
  <2>4. /\ SetFor(c)' = SetFor(c) \cup {x} /\ Wanted(c)' = Wanted(c) \ {x}
        /\ ~Stores(c)'
    BY <1>1, <1>2, <2>1, <2>2, <2>3 DEF Stores
  <2> HIDE DEF x
  <2>5. WantedAreFree'
    BY <1>1, <1>4, <1>5, <1>6, <2>4 DEF HeapOK, WantedAreFree
  <2>6. OwnedAreUsed'
    BY <1>1, <1>5, <1>6, <1>7, <2>4 DEF HeapOK, OwnedAreUsed, BitsOf
  <2>7. OwnedApart'
    <3>1. \A b \in blocks, d \in Callers : SetFor(d)' \cap BitsOf(b) = {}
      BY <1>5, <1>6, <2>4 DEF HeapOK, OwnedApart
    <3>2. \A d, e \in Callers : d # e => SetFor(d)' \cap SetFor(e)' = {}
      BY <1>5, <1>6, <2>4 DEF HeapOK, OwnedApart
    <3> QED BY <1>7, <3>1, <3>2 DEF HeapOK, OwnedApart, BitsOf
  <2>8. UsedAreOwned'
    BY <1>1, <1>5, <1>7, <2>4 DEF HeapOK, UsedAreOwned, BitsOf
  <2>9. LoadedIsFresh'
    BY <1>1, <2>4, LoadedStays
  <2> QED BY <2>5, <2>6, <2>7, <2>8, <2>9 DEF HeapOK
<1>8. CASE LastBit(c) /\ Return(c) /\ blocks' = blocks \cup {Mine(c)}
  <2>1. pc'[c] = "idle"
    BY <1>8, ReturnFacts DEF CallsOK
  <2>2. SetFor(c)' = {} /\ Wanted(c)' = {} /\ ~Stores(c)'
    BY <2>1 DEF SetFor, Wanted, Stores, Filling
  <2>3. BitsOf(Mine(c)) = SetFor(c) \cup {x}
    <3>1. BitsOf(Mine(c)) = call[c].begin..(call[c].begin + call[c].size - 1)
      BY DEF BitsOf, Mine, Block
    <3>2. call[c].begin + call[c].size - 1 = x
      BY <1>1, <1>8 DEF LastBit
    <3> QED BY <1>1, <1>2, <3>1, <3>2
  <2> DEFINE m == Mine(c)
  <2> HIDE DEF x, m
  <2>4. BitsOf(m) = SetFor(c) \cup {x} /\ blocks' = blocks \cup {m}
    BY <1>8, <2>3 DEF m
  <2>5. WantedAreFree'
    BY <1>1, <1>4, <1>5, <2>2 DEF HeapOK, WantedAreFree
  <2>6. OwnedAreUsed'
    BY <1>1, <1>5, <1>6, <2>2, <2>4 DEF HeapOK, OwnedAreUsed, BitsOf
  <2>7. OwnedApart'
    <3>1. \A a, b \in blocks \cup {m} : a # b => BitsOf(a) \cap BitsOf(b) = {}
      BY <1>5, <1>6, <2>4 DEF HeapOK, OwnedApart
    <3>2. \A b \in blocks \cup {m}, d \in Callers : SetFor(d)' \cap BitsOf(b) = {}
      BY <1>5, <1>6, <2>2, <2>4 DEF HeapOK, OwnedApart
    <3>3. \A d, e \in Callers : d # e => SetFor(d)' \cap SetFor(e)' = {}
      BY <1>5, <2>2 DEF HeapOK, OwnedApart
    <3> QED BY <2>4, <3>1, <3>2, <3>3 DEF OwnedApart, BitsOf
  <2>8. UsedAreOwned'
    BY <1>1, <1>5, <2>2, <2>4 DEF HeapOK, UsedAreOwned, BitsOf
  <2>9. LoadedIsFresh'
    BY <1>1, <2>2, LoadedStays
  <2> QED BY <2>5, <2>6, <2>7, <2>8, <2>9 DEF HeapOK
<1> QED BY <1>7, <1>8 DEF SetBit

LEMMA ClearBitKeepsHeap ==
  ASSUME CallsOK, HeapOK, NEW c \in Callers, Step(c), ClearBit(c),
         ~StoresLoaded(c), ~FreesTaken(c)
  PROVE  HeapOK'
<1> DEFINE x == at[c]
<1>1. /\ pc[c] = "clear_store" /\ Stores(c) /\ used' = used \ {x} /\ UNCHANGED blocks
      /\ call[c].begin \in Nat /\ call[c].size \in Nat /\ x \in Nat
      /\ call[c].begin <= x /\ x < call[c].begin + call[c].size
  BY StoreFacts, CallerTypes DEF ClearBit, Stores, CallOK, Clearing
<1>2. /\ SetFor(c) = IF call[c].kfree = "again" THEN {}
                     ELSE x..(call[c].begin + call[c].size - 1)
      /\ Wanted(c) = {}
  BY <1>1, Sets DEF Filling, Clearing
<1>3. /\ ~Stores(c)' /\ Wanted(c)' = {}
      /\ SetFor(c)' = SetFor(c) \ {x}
  <2>1. ASSUME NextBit(c, "clear"), ~LastBit(c)
        PROVE  ~Stores(c)' /\ Wanted(c)' = {} /\ SetFor(c)' = SetFor(c) \ {x}
    <3>1. pc'[c] = "clear" /\ at'[c] = x + 1 /\ call'[c] = call[c]
      BY <2>1 DEF NextBit, Goto, CallsOK, TypeOK
    <3>2. SetFor(c)' = IF call[c].kfree = "again" THEN {}
                       ELSE (x + 1)..(call[c].begin + call[c].size - 1)
      BY <3>1 DEF SetFor
    <3>3. ~Stores(c)' /\ Wanted(c)' = {}
      BY <3>1 DEF Stores, Wanted, Filling
    <3> QED BY <1>1, <1>2, <3>2, <3>3
  <2>2. ASSUME LastBit(c), pc'[c] \in {"idle", "kfree_again"}
        PROVE  ~Stores(c)' /\ Wanted(c)' = {} /\ SetFor(c)' = SetFor(c) \ {x}
    <3>1. ~Stores(c)' /\ Wanted(c)' = {} /\ SetFor(c)' = {}
      BY <2>2 DEF Stores, Wanted, Filling, SetFor
    <3>2. SetFor(c) \subseteq {x}
      BY <1>1, <1>2, <2>2 DEF LastBit
    <3> QED BY <3>1, <3>2
  <2>3. Return(c) => pc'[c] = "idle"
    BY ReturnFacts DEF CallsOK
  <2>4. NextBit(c, "kfree_again") => pc'[c] = "kfree_again"
    BY DEF NextBit, Goto, CallsOK, TypeOK
  <2> QED BY <2>1, <2>2, <2>3, <2>4 DEF ClearBit
<1>4. /\ \A d \in Callers \ {c} : SetFor(d)' = SetFor(d) /\ Wanted(d)' = Wanted(d)
  BY OthersOwn
<1>5. /\ \A d \in Callers \ {c} : x \notin SetFor(d)
      /\ \A b \in blocks : x \notin BitsOf(b)
  <2>1. CASE call[c].kfree = "again"
    BY <1>1, <2>1 DEF FreesTaken
  <2>2. CASE call[c].kfree # "again"
    <3>1. x \in SetFor(c)
      BY <1>1, <1>2, <2>2
    <3> QED BY <3>1 DEF HeapOK, OwnedApart
  <2> QED BY <2>1, <2>2
<1> HIDE DEF x
<1>6. WantedAreFree'
  BY <1>1, <1>3, <1>4 DEF HeapOK, WantedAreFree
<1>7. OwnedAreUsed'
  BY <1>1, <1>3, <1>4, <1>5 DEF HeapOK, OwnedAreUsed, BitsOf
<1>8. OwnedApart'
  <2>1. \A b \in blocks, d \in Callers : SetFor(d)' \cap BitsOf(b) = {}
    BY <1>3, <1>4 DEF HeapOK, OwnedApart
  <2>2. \A d, e \in Callers : d # e => SetFor(d)' \cap SetFor(e)' = {}
    BY <1>3, <1>4 DEF HeapOK, OwnedApart
  <2> QED BY <1>1, <2>1, <2>2 DEF HeapOK, OwnedApart, BitsOf
<1>9. UsedAreOwned'
  BY <1>1, <1>3, <1>4 DEF HeapOK, UsedAreOwned, BitsOf
<1>10. LoadedIsFresh'
  BY <1>1, <1>3, LoadedStays
<1> QED BY <1>6, <1>7, <1>8, <1>9, <1>10 DEF HeapOK

LEMMA KFreeKeepsHeap ==
  ASSUME CallsOK, HeapOK, NEW c \in Callers, Step(c), NEW b \in blocks,
         NEW times \in {"once", "twice"}, KFree(c, b, times)
  PROVE  HeapOK'
<1>1. /\ UNCHANGED <<used, count, loaded>> /\ blocks' = blocks \ {b}
      /\ pc[c] = "idle" /\ pc'[c] = "clear" /\ at'[c] = b.begin
      /\ call'[c].begin = b.begin /\ call'[c].size = b.size /\ call'[c].kfree # "again"
  BY DEF KFree, Goto, CallsOK, TypeOK
<1>2. /\ SetFor(c) = {} /\ SetFor(c)' = BitsOf(b)
      /\ Wanted(c)' = {} /\ ~Stores(c)'
  BY <1>1 DEF SetFor, BitsOf, Wanted, Filling, Stores
<1>3. \A d \in Callers \ {c} : /\ SetFor(d)' = SetFor(d) /\ Wanted(d)' = Wanted(d)
                               /\ Stores(d)' = Stores(d) /\ at'[d] = at[d]
  BY OthersOwn
<1>4. WantedAreFree' /\ LoadedIsFresh'
  BY <1>1, <1>2, <1>3 DEF HeapOK, WantedAreFree, LoadedIsFresh, ByteOf
<1>5. OwnedAreUsed'
  BY <1>1, <1>2, <1>3 DEF HeapOK, OwnedAreUsed, BitsOf
<1>6. OwnedApart'
  <2>1. \A a \in blocks \ {b}, d \in Callers : SetFor(d)' \cap BitsOf(a) = {}
    BY <1>2, <1>3 DEF HeapOK, OwnedApart
  <2>2. \A d, e \in Callers : d # e => SetFor(d)' \cap SetFor(e)' = {}
    BY <1>2, <1>3 DEF HeapOK, OwnedApart
  <2> QED BY <1>1, <2>1, <2>2 DEF HeapOK, OwnedApart, BitsOf
<1>7. UsedAreOwned'
  BY <1>1, <1>2, <1>3 DEF HeapOK, UsedAreOwned, BitsOf
<1> QED BY <1>4, <1>5, <1>6, <1>7 DEF HeapOK

LEMMA StepKeepsHeap ==
  ASSUME CallsOK, HeapOK, NEW c \in Callers, Step(c), Record(c), ~spoiled'
  PROVE  HeapOK'
<1>1. ~TakesClaimed(c) /\ ~StoresLoaded(c) /\ ~FreesTaken(c)
  BY DEF Record
<1> QED BY <1>1, SearchKeepsHeap, SetBitKeepsHeap, ClearBitKeepsHeap,
  KFreeKeepsHeap DEF Step
-----------------------------------------------------------------------------
(* The search.                                                             *)

(* Who is still undisturbed behind a step was so before it, and nothing    *)
(* that its search has seen has changed.                                   *)
LEMMA UndisturbedBefore ==
  ASSUME CallsOK, NEW c \in Callers, Step(c), Record(c), NEW d \in Callers,
         pc'[d] = "scan", Undisturbed(d)', d # c \/ used' = used
  PROVE  /\ used' = used /\ d \notin disturbed
         /\ d # c => pc[d] = "scan" /\ Undisturbed(d)
<1>1. d \notin disturbed'
  BY DEF Undisturbed
<1>2. d \notin disturbed /\ (d # c => used' = used)
  BY <1>1 DEF Record
<1>3. d # c => pc[d] = "scan" /\ call'[d] = call[d]
  BY OthersStay DEF CallsOK
<1> QED BY <1>2, <1>3 DEF Undisturbed, WholeBytes, ByteOf

(* A search that is undisturbed has not passed over a place that fits, and *)
(* the one it may find is such a place.                                    *)
LEMMA ScanBitSearch ==
  ASSUME CallsOK, HeapOK, SearchOK, NEW c \in Callers, ScanBit(c), Undisturbed(c)
  PROVE  /\ \A b \in Fits(call[c].size, call[c].align, used) :
              b >= at[c] + 1 - Counted(c)
         /\ call[c].align /\ Counted(c) > 0 =>
              (at[c] + 1 - Counted(c)) % PageSize = 0
<1>1. /\ pc[c] = "scan" /\ at[c] \in Nat /\ count[c] \in Nat /\ at[c] < Bits
      /\ count[c] <= at[c] /\ call[c].size \in Nat \ {0} /\ count[c] < call[c].size
      /\ ~SkipsByte(c)
  BY CallerTypes DEF ScanBit, GoesOn, CallOK
<1>2. /\ \A b \in Fits(call[c].size, call[c].align, used) : b >= at[c] - count[c]
      /\ call[c].align /\ count[c] > 0 => (at[c] - count[c]) % PageSize = 0
      /\ call[c].align /\ count[c] = 0 /\ at[c] % ByteBits # 0 => at[c] - 1 \in used
  BY <1>1 DEF SearchOK
<1>3. CASE at[c] \in used
  <2>1. Counted(c) = 0
    BY <1>3 DEF Counted
  <2>2. ASSUME NEW b \in Fits(call[c].size, call[c].align, used)
        PROVE  b >= at[c] + 1
    <3>1. b \in Nat /\ b >= at[c] - count[c] /\ at[c] \notin b..(b + call[c].size - 1)
      BY <1>1, <1>2, <1>3, <2>2, Layout DEF Fits
    <3> QED BY <1>1, <3>1
  <2> QED BY <1>1, <2>1, <2>2
<1>4. CASE at[c] \notin used
  <2>1. Counted(c) = count[c] + 1
    BY <1>4 DEF Counted
  <2>2. ASSUME call[c].align PROVE (at[c] - count[c]) % PageSize = 0
    <3>1. CASE count[c] > 0
      BY <1>2, <2>2, <3>1
    <3>2. CASE count[c] = 0 /\ at[c] % ByteBits # 0
      <4>1. at[c] - 1 \in used /\ at[c] \in 1..(Bits - 1)
        BY <1>1, <1>2, <2>2, <3>2, Layout DEF CallsOK, TypeOK
      <4>2. at[c] \in ByteOf(at[c] - 1)
        BY <3>2, <4>1, SameByte
      <4> QED BY <1>4, <2>2, <4>1, <4>2 DEF Undisturbed, WholeBytes
    <3>3. CASE count[c] = 0 /\ at[c] % ByteBits = 0
      BY <1>1, <2>2, <3>3 DEF SkipsByte
    <3> QED BY <1>1, <3>1, <3>2, <3>3
  <2>3. at[c] + 1 - Counted(c) = at[c] - count[c]
    BY <1>1, <2>1
  <2> QED BY <1>2, <2>2, <2>3
<1> QED BY <1>3, <1>4

LEMMA StepKeepsSearch ==
  ASSUME CallsOK, HeapOK, SearchOK, NEW c \in Callers, Step(c), Record(c)
  PROVE  SearchOK'
<1> DEFINE Good(d) ==
      /\ \A b \in Fits(call[d].size, call[d].align, used) : b >= at[d] - count[d]
      /\ call[d].align /\ count[d] > 0 => (at[d] - count[d]) % PageSize = 0
      /\ call[d].align /\ count[d] = 0 /\ at[d] % ByteBits # 0 => at[d] - 1 \in used
<1> SUFFICES ASSUME NEW d \in Callers, pc'[d] = "scan", Undisturbed(d)'
             PROVE  Good(d)'
  BY DEF SearchOK
<1>1. CASE d # c
  <2>1. used' = used /\ pc[d] = "scan" /\ Undisturbed(d)
    BY <1>1, UndisturbedBefore
  <2>2. Good(d)
    BY <2>1 DEF SearchOK
  <2> QED BY <1>1, <2>1, <2>2, OthersStay DEF CallsOK, Fits
<1>2. CASE d = c
  <2> SUFFICES Good(c)'
    BY <1>2
  <2>1. ASSUME NEW size \in Sizes, NEW align \in BOOLEAN, Kmalloc(c, size, align)
        PROVE  Good(c)'
    <3>1. at'[c] = 0 /\ count'[c] = 0
      BY <2>1, CallerTypes DEF Kmalloc, CallOK
    <3>2. 0 % ByteBits = 0
      BY Layout
    <3>3. \A b \in Fits(call'[c].size, call'[c].align, used') : b >= 0
      BY DEF Fits
    <3> QED BY <3>1, <3>2, <3>3 DEF Fits
  <2>2. ASSUME pc[c] = "scan", used' = used, call'[c] = call[c]
        PROVE  Undisturbed(c)
    <3>1. c \notin disturbed
      BY <1>2, <2>2, UndisturbedBefore
    <3> QED BY <1>2, <2>2, <3>1 DEF Undisturbed, WholeBytes, ByteOf
  <2>3. CASE SkipByte(c)
    <3>1. /\ pc[c] = "scan" /\ UNCHANGED <<used, call, count>>
          /\ at'[c] = at[c] + ByteBits /\ SkipsByte(c) /\ at[c] < Bits
          /\ at[c] \in 0..Bits
      BY <2>3, CallerTypes DEF SkipByte, GoesOn, CallsOK, TypeOK
    <3>2. Good(c) /\ Undisturbed(c)
      BY <2>2, <3>1 DEF SearchOK
    <3>3. ASSUME NEW b \in Fits(call[c].size, call[c].align, used)
          PROVE  b >= at[c] + ByteBits
      <4>1. b \in 0..Bits /\ b >= at[c] /\ b % PageSize = 0
        BY <3>1, <3>2, CallerTypes, Layout DEF Fits, SkipsByte
      <4> QED BY <3>1, <4>1, NextPage DEF SkipsByte
    <3>4. (at[c] + ByteBits) % ByteBits = 0
      <4>1. PICK q \in Nat : at[c] = q * ByteBits
        <5>1. at[c] \in Nat /\ at[c] % ByteBits = 0
          BY <3>1, Layout DEF SkipsByte
        <5>2. Multiple(at[c], ByteBits)
          BY <5>1, Layout, NoRemainder
        <5> QED BY <5>2 DEF Multiple
      <4>2. at[c] + ByteBits = (q + 1) * ByteBits /\ q + 1 \in Nat
        BY <4>1, Layout
      <4> QED BY <4>2, Layout, NoRemainder DEF Multiple
    <3>5. /\ \A b \in Fits(call'[c].size, call'[c].align, used') :
               b >= at'[c] - count'[c]
          /\ at'[c] - count'[c] = at[c] + ByteBits
      BY <3>1, <3>3, Layout DEF SkipsByte, Fits
    <3> QED BY <3>1, <3>4, <3>5 DEF SkipsByte, Fits
  <2>4. CASE ScanBit(c)
    <3>1. /\ pc[c] = "scan" /\ used' = used /\ call' = call
          /\ at'[c] = at[c] + 1 /\ count'[c] = Counted(c)
          /\ at[c] \in Nat /\ count[c] \in Nat
      BY <1>2, <2>4, CallerTypes DEF ScanBit, GoesOn, Goto, CallsOK, TypeOK
    <3>2. Undisturbed(c)
      BY <2>2, <3>1
    <3>3. Counted(c) = 0 => at[c] \in used
      BY <3>1 DEF Counted
    <3>4. at[c] + 1 - 1 = at[c] /\ (Counted(c) = 0 \/ Counted(c) > 0)
      BY <3>1 DEF Counted
    <3>5. /\ \A b \in Fits(call[c].size, call[c].align, used) :
               b >= at[c] + 1 - Counted(c)
          /\ call[c].align /\ Counted(c) > 0 =>
               (at[c] + 1 - Counted(c)) % PageSize = 0
      BY <2>4, <3>2, ScanBitSearch
    <3>6. Fits(call'[c].size, call'[c].align, used')
            = Fits(call[c].size, call[c].align, used)
      BY <3>1
    <3>7. at'[c] - count'[c] = at[c] + 1 - Counted(c) /\ at'[c] - 1 = at[c]
      <4>1. Counted(c) \in Nat
        BY <3>1 DEF Counted
      <4> HIDE DEF Good
      <4> QED BY <3>1, <4>1
    <3>8. Counted(c) > 0 \/ Counted(c) = 0
      BY <3>4
    <3> QED BY <3>1, <3>3, <3>5, <3>6, <3>7, <3>8
  <2>5. CASE NoRoom(c)
    BY <1>2, <2>5, ReturnFacts DEF NoRoom, CallsOK
  <2>6. CASE Load(c)
    BY <1>2, <2>6 DEF Load, Goto, CallsOK, TypeOK
  <2>7. CASE SetBit(c)
    BY <1>2, <2>7, ReturnFacts DEF SetBit, NextBit, Goto, CallsOK, TypeOK
  <2>8. CASE ClearBit(c)
    BY <1>2, <2>8, ReturnFacts DEF ClearBit, NextBit, Goto, CallsOK, TypeOK
  <2>9. ASSUME NEW b, NEW times, KFree(c, b, times) PROVE FALSE
    BY <1>2, <2>9 DEF KFree, Goto, CallsOK, TypeOK
  <2>10. CASE KFreeAgain(c)
    BY <1>2, <2>10 DEF KFreeAgain, Goto, CallsOK, TypeOK
  <2> QED BY <1>2, <2>1, <2>3, <2>4, <2>5, <2>6, <2>7, <2>8, <2>9, <2>10 DEF Step
<1> QED BY <1>1, <1>2

LEMMA InvStep == Inv /\ [Next]_vars => Inv'
<1> SUFFICES ASSUME Inv, [Next]_vars PROVE Inv'
  OBVIOUS
<1>1. ASSUME ~spoiled, NEW c \in Callers, Step(c), Record(c) PROVE Inv'
  <2>1. CallsOK /\ HeapOK /\ SearchOK
    BY <1>1 DEF Inv
  <2> QED BY <1>1, <2>1, StepTypes, StepKeepsHeap, StepKeepsSearch DEF Inv
<1>2. CASE UNCHANGED vars
  <2>1. UNCHANGED <<used, blocks, pc, call, at, count, loaded, disturbed, spoiled>>
    BY <1>2 DEF vars, caller
  <2>2. CallsOK'
    BY <2>1 DEF Inv, CallsOK, TypeOK, BlocksFit, CallOK
  <2>3. HeapOK => HeapOK'
    BY <2>1 DEF HeapOK, WantedAreFree, Wanted, LoadedIsFresh, Stores, ByteOf,
      OwnedAreUsed, OwnedApart, UsedAreOwned, SetFor, BitsOf
  <2>4. SearchOK => SearchOK'
    BY <2>1 DEF SearchOK, Undisturbed, WholeBytes, ByteOf, Fits
  <2> QED BY <2>1, <2>2, <2>3, <2>4 DEF Inv
<1> QED BY <1>1, <1>2 DEF Next

LEMMA InvHolds == Spec => []Inv
<1> QED BY InitInv, InvStep, PTL DEF Spec

-----------------------------------------------------------------------------
(* No byte of the heap is given to two callers, whatever the callers, the  *)
(* sizes and the heap are, until a search is overtaken, a byte of the      *)
(* bitset is stored by two at once, or a second kfree comes late.          *)
THEOREM NoByteTwice == Spec => []BlocksDisjoint
<1>1. Inv => BlocksDisjoint
  BY DEF Inv, CallsOK, HeapOK, OwnedApart, BlocksDisjoint
<1> QED BY InvHolds, <1>1, PTL

(* Until then no byte is lost: when no call is under way the bits that are *)
(* set are those of the blocks.                                            *)
THEOREM NoByteLost == Spec => []BitsAreBlocks
<1>1. Inv => BitsAreBlocks
  <2> SUFFICES ASSUME Inv, ~spoiled
               PROVE  /\ \A b \in blocks : BitsOf(b) \subseteq used
                      /\ (\A c \in Callers : pc[c] = "idle") =>
                           used = UNION {BitsOf(b) : b \in blocks}
    BY DEF BitsAreBlocks
  <2>1. \A b \in blocks : BitsOf(b) \subseteq used
    BY DEF Inv, HeapOK, OwnedAreUsed
  <2>2. ASSUME \A c \in Callers : pc[c] = "idle"
        PROVE  \A i \in used : \E b \in blocks : i \in BitsOf(b)
    <3>1. \A c \in Callers : SetFor(c) = {}
      BY <2>2 DEF SetFor
    <3> QED BY <3>1 DEF Inv, HeapOK, UsedAreOwned
  <2> QED BY <2>1, <2>2
<1> QED BY InvHolds, <1>1, PTL

(* kmalloc finds the lowest place that fits, and returns 0 only if there   *)
(* is none, for a caller whose search nobody disturbs.                     *)
THEOREM SearchFindsFirstFit == Spec => FirstFit
<1> DEFINE Found(c) ==
      pc[c] = "scan" /\ pc'[c] # "scan" /\ Undisturbed(c) =>
        LET fits == Fits(call[c].size, call[c].align, used)
        IN \/ pc'[c] = "idle" /\ fits = {}
           \/ /\ pc'[c] = "set" /\ call'[c].begin \in fits
              /\ \A b \in fits : call'[c].begin <= b
<1>1. Inv /\ [Next]_vars => [\A c \in Callers : Found(c)]_vars
  <2> SUFFICES ASSUME Inv, Next, NEW c \in Callers, pc[c] = "scan", pc'[c] # "scan",
                      Undisturbed(c)
               PROVE  Found(c)
    BY DEF vars
  <2>1. ~spoiled /\ CallsOK /\ HeapOK /\ SearchOK /\ Step(c)
    BY OthersStay DEF Inv, CallsOK, Next, vars, caller
  <2>2. /\ at[c] \in 0..Bits /\ count[c] \in Nat /\ count[c] <= at[c]
        /\ call[c].size \in Nat \ {0} /\ count[c] < call[c].size
    BY <2>1, CallerTypes DEF CallOK
  <2>3. CASE NoRoom(c)
    <3>1. pc'[c] = "idle" /\ at[c] = Bits
      BY <2>1, <2>3, ReturnFacts DEF NoRoom, CallsOK
    <3>2. ASSUME NEW b \in Fits(call[c].size, call[c].align, used) PROVE FALSE
      <4>1. b \in 0..(Bits - call[c].size)
        BY DEF Fits
      <4>2. b >= at[c] - count[c]
        BY <2>1 DEF SearchOK
      <4> QED BY <2>2, <3>1, <4>1, <4>2, Layout
    <3> QED BY <3>1, <3>2
  <2>4. CASE ScanBit(c)
    <3>1. /\ Counted(c) = call[c].size /\ pc'[c] = "set" /\ at[c] < Bits
          /\ call'[c].begin = at[c] + 1 - call[c].size
      BY <2>1, <2>4 DEF ScanBit, GoesOn, Goto, CallsOK, TypeOK
    <3>2. at[c] \notin used /\ count[c] + 1 = call[c].size
      BY <2>2, <3>1 DEF Counted
    <3>3. \A i \in (at[c] - count[c])..(at[c] - 1) : i \notin used
      BY <2>1, Sets DEF HeapOK, WantedAreFree
    <3>4. at[c] + 1 - call[c].size = at[c] - count[c]
      BY <2>2, <3>2
    <3>5. \A i \in (at[c] - count[c])..(at[c] - count[c] + call[c].size - 1) :
            i \notin used
      BY <2>2, <3>2, <3>3
    <3>6. at[c] - count[c] \in 0..(Bits - call[c].size)
      BY <2>2, <3>1, <3>2, Layout
    <3>7. call[c].align => (at[c] - count[c]) % PageSize = 0
      BY <2>1, <2>2, <2>4, <3>1, <3>4, ScanBitSearch
    <3>8. at[c] - count[c] \in Fits(call[c].size, call[c].align, used)
      BY <3>5, <3>6, <3>7 DEF Fits
    <3>9. \A b \in Fits(call[c].size, call[c].align, used) : b >= at[c] - count[c]
      BY <2>1 DEF SearchOK
    <3>10. \A b \in Fits(call[c].size, call[c].align, used) : b \in Nat
      BY DEF Fits
    <3> QED BY <2>2, <3>1, <3>4, <3>8, <3>9, <3>10
  <2> QED
    BY <2>1, <2>3, <2>4 DEF Step, Kmalloc, SkipByte, Load, SetBit, ClearBit,
      KFree, KFreeAgain
<1> QED BY InvHolds, <1>1, PTL DEF FirstFit, Spec
=============================================================================
