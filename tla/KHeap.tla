-------------------------------- MODULE KHeap --------------------------------
(***************************************************************************)
(* The kernel heap, kheap.c: a bitset with one bit for every byte of the   *)
(* heap, a first-fit search for kmalloc_u and kmalloc, and fill, which     *)
(* sets or clears the bits.  Nothing locks it: every task calls it, the    *)
(* timer switches between them anywhere, and the network card's interrupt  *)
(* calls it as well.  A step is one bit: its test, or the load or the      *)
(* store of its byte.                                                      *)
(***************************************************************************)
EXTENDS Naturals

CONSTANTS
  Callers,      \* the tasks that use the heap
  TwiceFreeing, \* those that may free a block twice: a full frame queue
                \* frees the frame, and so does the caller that offered it
  Bits,         \* (BITSET_LIMIT - BITSET_BASE) * 8
  ByteBits,     \* how many bits the search looks at in one round: 8
  PageSize,     \* 0x1000
  Sizes         \* the arguments of kmalloc

ASSUME LayoutAssumption ==
  /\ ByteBits \in Nat \ {0} /\ PageSize \in Nat \ {0} /\ Bits \in Nat \ {0}
  /\ PageSize % ByteBits = 0 /\ Bits % PageSize = 0
ASSUME CallerAssumption == TwiceFreeing \subseteq Callers
ASSUME SizeAssumption == Sizes \subseteq Nat \ {0}

VARIABLES
  used,      \* the bitset: the bits that are set
  blocks,    \* the blocks the callers hold
  pc,        \* where every caller is
  call,      \* what it has called: the size, and the alignment or the block
  at,        \* the bit it looks at
  count,     \* _kmalloc's count of free bits in a row
  loaded,    \* the byte of the bitset fill has in a register
  disturbed, \* history: the searches during which bits have changed
  spoiled    \* history: one of the three ways to spoil the bitset (below)

caller == <<pc, call, at, count, loaded>>
vars == <<used, blocks, caller, disturbed, spoiled>>

Block(owner, begin, size) == [owner |-> owner, begin |-> begin, size |-> size]
BitsOf(b) == b.begin..(b.begin + b.size - 1)
ByteOf(bit) == {i \in 0..(Bits - 1) : i \div ByteBits = bit \div ByteBits}

Points == {"idle", "scan", "set", "set_store", "clear", "clear_store",
           "kfree_again"}

NoCall == [size |-> 0, align |-> FALSE, begin |-> 0, kfree |-> "once"]

(* kheap_init.                                                             *)
Init == /\ used = {} /\ blocks = {}
        /\ pc = [c \in Callers |-> "idle"]
        /\ call = [c \in Callers |-> NoCall]
        /\ at = [c \in Callers |-> 0]
        /\ count = [c \in Callers |-> 0]
        /\ loaded = [c \in Callers |-> {}]
        /\ disturbed = {} /\ spoiled = FALSE

Goto(c, to) == pc' = [pc EXCEPT ![c] = to]

(* The caller is back where it came from: its locals are gone.             *)
Return(c) == /\ Goto(c, "idle")
             /\ call' = [call EXCEPT ![c] = NoCall]
             /\ at' = [at EXCEPT ![c] = 0]
             /\ count' = [count EXCEPT ![c] = 0]
             /\ loaded' = [loaded EXCEPT ![c] = {}]

-----------------------------------------------------------------------------
(* _kmalloc.                                                               *)

Kmalloc(c, size, align) ==
  /\ pc[c] = "idle" /\ Goto(c, "scan")
  /\ call' = [call EXCEPT ![c].size = size, ![c].align = align]
  /\ UNCHANGED <<used, blocks, at, count, loaded>>

GoesOn(c) == pc[c] = "scan" /\ at[c] < Bits

(* A byte in which no page begins is skipped when the block is to be       *)
(* aligned and no free bits are being counted; a byte is tested once.      *)
SkipsByte(c) ==
  /\ at[c] % ByteBits = 0
  /\ call[c].align /\ count[c] = 0 /\ at[c] % PageSize # 0

SkipByte(c) ==
  /\ GoesOn(c) /\ SkipsByte(c)
  /\ at' = [at EXCEPT ![c] = @ + ByteBits]
  /\ UNCHANGED <<used, blocks, pc, call, count, loaded>>

(* A search that counts on over a set bit.                                 *)
CountsOn(c) == count[c] + 1

Counted(c) == IF at[c] \in used THEN 0 ELSE count[c] + 1

ScanBit(c) ==
  /\ GoesOn(c) /\ ~SkipsByte(c)
  /\ count' = [count EXCEPT ![c] = Counted(c)]
  /\ \/ /\ Counted(c) = call[c].size
        /\ Goto(c, "set")
        /\ call' = [call EXCEPT ![c].begin = at[c] + 1 - call[c].size]
        /\ at' = [at EXCEPT ![c] = @ + 1 - call[c].size]
     \/ /\ Counted(c) # call[c].size
        /\ at' = [at EXCEPT ![c] = @ + 1]
        /\ UNCHANGED <<pc, call>>
  /\ UNCHANGED <<used, blocks, loaded>>

(* No room: _kmalloc returns 0.                                            *)
NoRoom(c) == /\ pc[c] = "scan" /\ at[c] = Bits
             /\ Return(c)
             /\ UNCHANGED <<used, blocks>>

-----------------------------------------------------------------------------
(* fill: the bits are set or cleared one by one, each by a load and a      *)
(* store of its whole byte.                                                *)

Load(c) ==
  /\ \/ pc[c] = "set" /\ Goto(c, "set_store")
     \/ pc[c] = "clear" /\ Goto(c, "clear_store")
  /\ loaded' = [loaded EXCEPT ![c] = used \cap ByteOf(at[c])]
  /\ UNCHANGED <<used, blocks, call, at, count>>

Mine(c) == Block(c, call[c].begin, call[c].size)
LastBit(c) == at[c] + 1 = call[c].begin + call[c].size

Store(c, byte) == used' = (used \ ByteOf(at[c])) \cup byte

NextBit(c, to) == /\ Goto(c, to)
                  /\ at' = [at EXCEPT ![c] = @ + 1]
                  /\ loaded' = [loaded EXCEPT ![c] = {}]
                  /\ UNCHANGED <<call, count>>

SetBit(c) ==
  /\ pc[c] = "set_store"
  /\ Store(c, loaded[c] \cup {at[c]})
  /\ \/ ~LastBit(c) /\ NextBit(c, "set") /\ UNCHANGED blocks
     \/ LastBit(c) /\ Return(c) /\ blocks' = blocks \cup {Mine(c)}

(* A fill that leaves the last bit of the block set.                       *)
ClearAllButLast(c) ==
  /\ pc[c] = "clear_store"
  /\ Store(c, IF LastBit(c) THEN loaded[c] ELSE loaded[c] \ {at[c]})
  /\ \/ ~LastBit(c) /\ NextBit(c, "clear")
     \/ LastBit(c) /\ Return(c)
  /\ UNCHANGED blocks

ClearBit(c) ==
  /\ pc[c] = "clear_store"
  /\ Store(c, loaded[c] \ {at[c]})
  /\ \/ ~LastBit(c) /\ NextBit(c, "clear")
     \/ LastBit(c) /\ call[c].kfree # "twice" /\ Return(c)
     \/ LastBit(c) /\ call[c].kfree = "twice" /\ NextBit(c, "kfree_again")
  /\ UNCHANGED blocks

(* kfree: from here on the caller does not use the block.                  *)
KFree(c, b, times) ==
  /\ pc[c] = "idle" /\ Goto(c, "clear")
  /\ b \in blocks /\ b.owner = c
  /\ blocks' = blocks \ {b}
  /\ call' = [call EXCEPT ![c] = [size |-> b.size, align |-> FALSE,
                                  begin |-> b.begin, kfree |-> times]]
  /\ at' = [at EXCEPT ![c] = b.begin]
  /\ UNCHANGED <<used, count, loaded>>

(* The second kfree, of the pointer and size that were kept.               *)
KFreeAgain(c) ==
  /\ pc[c] = "kfree_again" /\ Goto(c, "clear")
  /\ call' = [call EXCEPT ![c].kfree = "again"]
  /\ at' = [at EXCEPT ![c] = call[c].begin]
  /\ UNCHANGED <<used, blocks, count, loaded>>

-----------------------------------------------------------------------------
(* What spoils the bitset, and nothing else does (BlocksDisjoint):         *)

(* a bit is set that another caller's search has counted as free,          *)
Claimed(c) == CASE pc[c] = "scan" -> (at[c] - count[c])..(at[c] - 1)
                [] pc[c] \in {"set", "set_store"} -> BitsOf(Mine(c))
                [] OTHER -> {}
TakesClaimed(c) == \E d \in Callers \ {c} : pc[c] = "set_store"
                                            /\ at[c] \in Claimed(d)

(* a byte is stored between another caller's load and store of it,         *)
Stores(c) == pc[c] \in {"set_store", "clear_store"}
StoresLoaded(c) == \E d \in Callers \ {c} : /\ Stores(c) /\ Stores(d)
                                             /\ at[d] \in ByteOf(at[c])

(* and a second kfree clears a bit that has been set for somebody else.     *)
SetFor(d) ==
  CASE pc[d] \in {"set", "set_store"} -> call[d].begin..(at[d] - 1)
    [] pc[d] \in {"clear", "clear_store"} /\ call[d].kfree # "again" ->
         at[d]..(call[d].begin + call[d].size - 1)
    [] OTHER -> {}
FreesTaken(c) == /\ pc[c] = "clear_store" /\ call[c].kfree = "again"
                 /\ \/ \E b \in blocks : at[c] \in BitsOf(b)
                    \/ \E d \in Callers \ {c} : at[c] \in SetFor(d)

Record(c) ==
  /\ spoiled' = (spoiled \/ TakesClaimed(c) \/ StoresLoaded(c) \/ FreesTaken(c))
  /\ disturbed' = {d \in Callers : /\ pc'[d] = "scan"
                                   /\ d \in disturbed \/ (d # c /\ used' # used)}

Step(c) ==
  \/ \E size \in Sizes, align \in BOOLEAN : Kmalloc(c, size, align)
  \/ SkipByte(c) \/ ScanBit(c) \/ NoRoom(c)
  \/ Load(c) \/ SetBit(c) \/ ClearBit(c)
  \/ \E b \in blocks : \/ KFree(c, b, "once")
                       \/ c \in TwiceFreeing /\ KFree(c, b, "twice")
  \/ KFreeAgain(c)

(* Nothing is promised of a spoiled heap, and it is not looked at further. *)
Next == \/ ~spoiled /\ \E c \in Callers : Step(c) /\ Record(c)
        \/ spoiled /\ UNCHANGED vars

Spec == Init /\ [][Next]_vars

-----------------------------------------------------------------------------
(* Types.                                                                  *)
TypeOK ==
  /\ used \subseteq 0..(Bits - 1)
  /\ blocks \subseteq [owner : Callers, begin : 0..(Bits - 1), size : Sizes]
  /\ pc \in [Callers -> Points]
  /\ call \in [Callers -> [size : Sizes \cup {0}, align : BOOLEAN,
                           begin : 0..(Bits - 1),
                           kfree : {"once", "twice", "again"}]]
  /\ at \in [Callers -> 0..Bits]
  /\ count \in [Callers -> 0..Bits]
  /\ loaded \in [Callers -> SUBSET (0..(Bits - 1))]
  /\ disturbed \subseteq Callers /\ spoiled \in BOOLEAN

(* No byte of the heap is given to two callers, however the calls          *)
(* interleave, until one of the three steps above happens: a search that   *)
(* is overtaken by another one, a byte of the bitset stored by two at      *)
(* once, a late second kfree.                                              *)
BlocksDisjoint ==
  /\ TypeOK
  /\ spoiled \/ \A b, d \in blocks : b # d => BitsOf(b) \cap BitsOf(d) = {}

(* And until then no byte is lost or left free: every held block has its   *)
(* bits, and with no call under way no other bit is set.                   *)
BitsAreBlocks ==
  spoiled \/ /\ \A b \in blocks : BitsOf(b) \subseteq used
             /\ (\A c \in Callers : pc[c] = "idle") =>
                   used = UNION {BitsOf(b) : b \in blocks}

(* What a first-fit search promises to a caller that nobody disturbs: the  *)
(* lowest place that is free, and 0 only if there is none.  For kmalloc,   *)
(* a page's first place; but only while no byte of the bitset is partly    *)
(* used: the search goes on from the middle of such a byte, and the block  *)
(* it finds is not aligned.                                                *)
Fits(size, align, taken) ==
  {b \in 0..(Bits - size) : /\ (b..(b + size - 1)) \cap taken = {}
                            /\ align => b % PageSize = 0}
WholeBytes(taken) == \A i \in taken : ByteOf(i) \subseteq taken

Undisturbed(c) == /\ c \notin disturbed
                  /\ call[c].align => WholeBytes(used)

FirstFit ==
  [][\A c \in Callers :
       pc[c] = "scan" /\ pc'[c] # "scan" /\ Undisturbed(c) =>
         LET fits == Fits(call[c].size, call[c].align, used)
         IN \/ pc'[c] = "idle" /\ fits = {}
            \/ /\ pc'[c] = "set" /\ call'[c].begin \in fits
               /\ \A b \in fits : call'[c].begin <= b]_vars
=============================================================================
