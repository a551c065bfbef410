# jamesOS in TLA+

jamesOS is a small 32-bit x86 kernel: pre-emptive multitasking on one processor,
a heap, and a network stack from the RTL8139 card up to TCP. This directory holds
TLA+ models of the parts whose correctness depends on *order*: which task runs
when, what an interrupt cuts in two, which segment comes first. It holds the TLC
configurations that check them on small instances, and proofs checked by TLAPS for
every instance. Paths below are relative to the repository's root.

Contents: [inventory](#inventory) - [modules](#modules) - [runs](#runs) -
[fairness](#fairness) - [proofs](#proofs) - [only model-checked](#only-model-checked) -
[not modelled](#not-modelled) - [plan](#plan) - [running it](#running-it)

## Inventory

### How the parts work together

    RTL8139 interrupt --> nht_recv_queue --> nht_recv_handler (task)
                                                |  ethernet -> ARP
                                                |           -> IPv4 -> ICMP
                                                |                   -> UDP -> a task's buffer
                                                |                   -> TCP -> recv_window
    boot task: tcp_read <-----------------------------------------------'
        | tcp_send_segment                                    ACKs: send_window
        v                                                          |
    segment_queue --> tcp_sender (task) <--------------------------'
                          |
    every task that sends: IPv4 -> ethernet --> nht_send_queue --> nht_send_handler (task) --> RTL8139

    timer interrupt: pit_callback --> unblock_task (sleepers), scheduler (pre-emption)
    every task and both interrupts: kmalloc_u / kfree, soft_unblock_task

There is one processor and no lock except `lock_irq` / `unlock_irq`, a counter
around `cli` and `sti`. Most shared structures are not under it. The timer's handler
runs with interrupts *on* (it re-enables them through `unlock_irq`), so it nests.

### Components

| Component (source) | State | Operations | What is hard | What makes it correct |
|---|---|---|---|---|
| Multitasking (`multitask/multitask.c`, `dispatcher.asm`) | task list `head`/`next_task`, `state`, `sleep_until`, `ready_to_run_counter`, `lock_irq_counter`, `current_task` | `create_task`, `block_task`, `unblock_task`, `soft_unblock_task`, `sleep_until`, `scheduler`, `dispatcher`, `task_termination` | unlocked read-modify-write of the counter and of `head`; the lock is taken by one task and released by another | the lock is always handed over; who runs is RUNNING; the counter counts; the list holds every task; every ready task runs |
| Timer (`drivers/pit.c`, `cpu/isr.c`, `cpu/interrupt.asm`) | `tick` | `pit_callback` | switches tasks from the middle of a scan, nests on a task's stack, the scan goes on over a list that has changed; `tick` wraps | no sleeper whose time has come is passed over; pre-emption goes on |
| Task terminator, idle task (`kernel_tasks/`) | local `prev` | the reaping loop; `hlt` | reads `head` before it takes the lock | every terminated task is freed, no other is unlinked |
| Frames received (`kernel_tasks/network_handler_task.c`) | a ring, `nht_recv_push`, `nht_recv_read` | `nht_enqueue_recv_frame` (interrupt), `nht_recv_handler` (task) | an interrupt between the test and the blocking; the full ring | a FIFO queue that drops what does not fit; no lost wake-up |
| Frames to send (same file) | a ring, `nht_send_push`, `nht_send_read` | `nht_enqueue_send_frame` (several tasks), `nht_send_handler` | several producers, no lock | the same |
| TCP, receiving (`network/tcp.c`) | `tcp_port_table[]`: `state`, `recv_window` (`last_acked_byte`, `first_window_byte`, `bitmap`, `buffer`) | `tcp_listen`, `tcp_connect`, `tcp_recv_segment`, `tcp_init_window`, `tcp_read` | loss, repetition, reordering, overlap; reading while segments come; 32-bit sequence numbers | `tcp_read` returns the peer's stream; nothing is acknowledged that has not come; what fits is taken |
| TCP, sending (`kernel_tasks/tcp_sender.c`, echo loop of `kcore/kernel_main.c`) | `segment_queue`, `send_window`, `data_remainder` | `tcp_sender_enqueue`, `tcp_sender_task`, incoming ACKs | repeating against late ACKs, splitting at the window's end, a full queue, waking the sender, sequence numbers and ticks that wrap | a number stands for one byte; never past the window; an entry is freed only when it has arrived; the stream arrives |
| Heap (`libc/kheap.c`) | a bit for each byte | `kmalloc_u`, `kmalloc`, `kfree` | every task and the network interrupt use it unlocked, byte-wise read-modify-write; double frees by full queues | no byte is given out twice, none is lost; the lowest place that fits; alignment |
| UDP, JNP (`network/udp.c`, `network/jnp.c`) | `udp_port_table[]`: `pid`, `data`, `net_addresses` | `udp_port_bind`, `udp_receive`, `udp_forward_segment_to_process`, `udp_port_unbind` | the handler uses a port while its task binds, reads or gives it back | a datagram goes to the owner's live buffer with its own sender's address; the owner is woken |
| Network card (`drivers/rtl8139.c`) | `rx_cur`, `tx_cur`, the DMA buffers, the card's CAPR, CBR, ISR | `rtl8139_handler`, `rtl8139_receive_frame`, `rtl8139_send_frame`, `rtl8139_reset` | the card goes on while the handler looks; two read pointers; a frame wrapped round the ring's end; four descriptors without a check, frames freed while they are sent | driver and card stay in step; a frame comes through as it came; nothing waits unannounced; the wire carries what was given |
| ARP (`network/arp.c`) | `arp_table`, `arp_table_size` (uint8_t) | request, reply, update | the size wraps over entries that stay | the table says of each host what it said last; who asks is answered |
| Ethernet, IPv4, ICMP and the layer interfaces (`network/`) | none but heap blocks | dispatch, encapsulation, checksums | padding; carries; odd lengths | an echo carries its own data back; every packet passes its receiver's checks |
| Screen (`drivers/vga.c`) | text memory, the cursor in the adapter's registers | `kprint_at`, `scroll_screen`, `clear_screen` | tasks and interrupts print without a lock, and the cursor is read at the beginning and written at the end | the screen shows the end of the text; a lost cursor comes back |
| Keyboard (`drivers/keyboard.c`) | the controller's one scan code | `keyboard_init`, `keyboard_callback`, `print_letter` | a key before there is a handler, or before the 8259 is set up | every key that comes later is read |
| Paging (`libc/paging.c`) | frame bitset, directory, tables | `paging_init`, `first_frame`, `get_page`, `alloc_page` | tables in memory that nobody clears, out of the heap they share with the tasks | a page is where it was before paging |
| Boot (`kcore/kernel_main.c`, `cpu/isr.c`, boot sector) | `interrupt_handlers` | `entry`, `isr_install`, `register_interrupt_handler` | interrupts are on before their handlers are there | the order of the calls |
| Library (`libc/`, `network/network_utils.c`) | none | bitmap, header fields by bit, checksum, byte order, `itoa` | offsets, widths, carries | equal to their definitions |
| Serial, ports, PCI | devices | I/O and set-up | nothing that interleaves | - |

`PROJECT.json` lists the hazards one by one, each at its line, with the properties
that would catch it.

## Modules

A step of a model is what the code does between two points where somebody else can
come in between and it makes a difference. Code under `lock_irq` is one step; code
outside is cut at every access to shared state; where the compiler's `++x` is
a load and a store, it is two steps. Names are the source's.

### Multitask - scheduler, timer, terminator

`Multitask.tla` models `multitask.c`, `dispatcher.asm`, `pit.c`, the interrupt stub
and the two kernel tasks. A task is a *stack of frames*: the bottom frame is where
the task's own code is, each further frame is one timer interrupt being handled on
that task's stack, so a nested `pit_callback` is simply one more frame. `dispatcher`
exchanges `current_task` and nothing else, as the assembly does: flags and
`lock_irq_counter` are the processor's, not the task's. `ResumePoints` are the
places where a task that is not running waits.

Actions: `CreateTask`, `CounterLoad`, `CounterStore`, `CreateLink` (`create_task`);
`Sleep`, `SleepUntil`, `BlockTask`, `BlockReturn`; `SoftUnblock`, `SoftState`
(`soft_unblock_task` by a task), `NicInterrupt` (by the network card);
`TaskTermination`, `Resurrected` (a terminated task that is scheduled again runs into
whatever lies behind its code); `ReapHead`, `ReapScan`; `TimerInterrupt`,
`UnblockTask`, `UnblockReturn`, `PitFlag`, `PitEnd`, `SchedReturn`, `IRet`. `halt` says
that the code has gone where nothing more can be said: the endless search of
`scheduler` ("spin"), or a jump through freed memory ("wild").

The stack is bounded by `MaxNested` in the model only; the code has no bound and the
repository's `TODO` says that the stack overflows. `TickMod` and `CounterMod` stand for
2^32; the models wrap.

### RecvQueue, FrameFifo - the ring of received frames

`RecvQueue.tla`: one action, `EnqueueRecvFrame`, for the interrupt's whole
`nht_enqueue_recv_frame` (interrupts are off), and `Check`, `Deliver`, `KFree`, `Advance`
for the handler's loop. `FrameFifo.tla` is what it promises: a queue with a capacity
that drops what does not fit, whose first frame is handled in place. `RecvQueue`
instantiates it with `Capacity <- Size - 1` (the ring keeps one slot free).

### SendQueue - the ring of frames to send

`SendQueue.tla`: the same ring, but a producer is a task, and each *statement* of
`nht_enqueue_send_frame` is an action (`Test`, `Buffer`, `Memcpy`, `FrameSize`, `Push`,
`Wake`). The history variable `overtaken` becomes true when a producer is inside with an
index that somebody else has moved, or is about to use too. Up to then the ring is
`FrameFifo`; after that only liveness is claimed.

### TcpReceive - one port, receiving

`TcpReceive.tla`: opening from either side (`TcpListen`, `TcpConnect`, `SendSyn`,
`RecvSyn`, `RecvSynAck`, `SetState`, `NewWindow`, `InitWindow`, `RecvAck`), data
(`RecvPshAck`, the four ways through `tcp_state_connected_handler`), `TcpRead`, `StrayRead`,
`RecvFinAck`, `RecvClosing`. The peer is external: it sends segments that overlap,
and `wire` is a set that never shrinks, so each may arrive any number of
times, in any order, or never. The stream's byte *i* is the number *i*;
`Seqno` and `ByteAt` convert to sequence numbers, which wrap at `SeqMod`.
The kernel's comparisons do not know of the wrap, in the model as in the code.

`spoiled` records three things after which the stream is not promised: the boot task
opens a port that has already taken a SYN, the window's recycled memory had bits set
(`tcp_init_window` does not clear it), a segment came before one that it follows.
`recycled` remembers the places whose bit came with that memory, until `tcp_read` has passed
them: `FittingByteIsTaken`, which promises without regard to `spoiled` that every byte that
fits is acknowledged *and stored*, excuses the store at these places and no others.

### TcpSender - one connection, sending

`TcpSender.tla`: the boot task (`Build`, `Enqueue`), the sender task's scan entry by entry
(`ScanBegin`, `Skip`, `FreeEntry`, `SendEntry`, `Crash`, `ScanEnd`, `SleepUntil`), the timer
(`Tick`, `StretchEnds`, both `PitCallback`), acknowledgements (`RecvAck`), the peer and the network
(`PeerReceives`, `Lose`). The scan is under `lock_irq`, so nothing but the peer moves while
`pc = "scan"`. Init is the queue after the sender has started: the queue is zeroed memory, so
its start loop with an uninitialised `i` (tcp_sender.c:43) clears what is clear.

Sequence numbers and ticks are `uint32_t`, here `SeqMod` and `TickMod`: `End`, `LastPossibleByte`,
the remainder's number and `DueTime` are computed modulo them and compared as they are, as in
the code. `Starts` are the places in the stream at which the model begins to look, with
everything before acknowledged: 1, where `tcp_init_window` starts, and one from which the
next segments cross the wrap. An entry keeps the tick after which it is due, as
`curr_entry->tick` does. Of the ticks only those near both ends of the range are told apart;
`tick = 1` stands for the long stretch between, in which a timer interrupt moves the stored ticks
nearer (`Nearer`) instead of moving `tick` away from them, which comes to the same for every
comparison the code makes; `StretchEnds` leaves it for the last ticks before the wrap.

`defects` records which of six things have happened: a segment *renumbered*
(kernel_main.c:187 numbers an echo with the last acknowledged byte, also while an
earlier echo is unacknowledged), *dropped* (the queue was full), *overslept* (enqueued
between `unlock_irq` and `sleep_until(0xffffffff)`), *split* (the segment did not fit
into the window: the remainder's data and number are computed from an absolute
sequence number, and `data_remainder` is never reset), *wrapped* (a segment's end reached
2^32: the end is then small, and line 68 frees the segment unsent because `last_acked_byte`
is larger), *tick wrapped* (`tick` went from 2^32 - 1 to 0 while an entry was queued, or an entry
was queued at tick 0: line 57 then finds it not due for as long as its stamp is larger). Each of
the six is needed: without it TLC refutes `StreamArrives`; and without *wrapped* also
`FreedHasArrived`.

### KHeap - the heap

`KHeap.tla`: `Kmalloc`, `SkipByte`, `ScanBit`, `NoRoom`, `KFree`, `KFreeAgain` and `fill` as
`Load`, `SetBit`, `ClearBit`: a bit at a time, a byte loaded and stored. The names
`Bits`, `ByteBits`, `PageSize` are the geometry. `spoiled` becomes true at exactly
three kinds of steps: a bit is set that another search has counted as free, a byte is
stored between another caller's load and store of it, a second `kfree` of a block clears
a bit that somebody else has taken. A spoiled heap is not explored further.

### Udp - ports and their tasks

`Udp.tla`: tasks do as `jnp_recv_message` and the echo loop in `kernel_main.c` do (`Bind`,
`SetData`, `SetPid`, `Receive`, `Read`, `Unbind`, `KFree`); the handler's
`udp_forward_segment_to_process` is `RecvSegment`, `Copy`, `Address`, `Wake`. `defects`
records *two binds* of one port at once, a datagram that comes *early* (before the
last was read or before the task waits), a port *unbound* while the handler is inside.

### NicReceive, NicSend - the network card

`NicReceive.tla` EXTENDS `RecvQueue`: the frames that `EnqueueRecvFrame` is given no longer come
from nowhere but out of the card's ring, as `rtl8139_receive_frame` copies them. The card
(`CardReceives`, with `Place` for the bytes, and the wrap of a frame round the ring's end)
moves between any two steps, of the interrupt too; `NicInterrupt`, `ReceiveFrame` (one turn
of the loop), `Reset`, `LoopEnds` and `Acknowledge` are the handler; tasks stand still
meanwhile. CAPR keeps its 16 bits and its offset of 0x10. A byte of the ring knows of which
frame it is and which byte of it, so that `Copy` can tell a whole frame from a torn one.
`CardFaults` is the case the driver provides for (a header that reads as 0xffff), and what
`Reset` leaves is the code's own arithmetic behind `rx_error`.

`NicSend.tla` EXTENDS `SendQueue`: `SendFrame` is `Send` and what it writes to the card, `FreeFrame` is
`KFree` and a note of what the card has still to read, `CardSends` reads the *memory* when it
comes to the descriptor. `damaged` records that a frame which the card still wanted was freed before
it was read, lost its descriptor to a fifth, or was *overwritten*: a producer that was overtaken copies
into the buffer of the last slot (network_handler_task.c:38), which the handler may have handed
over already (`CardWaits`). TLC finds the third with four frames, and not with three.

### Layers - ARP, IPv4, ICMP, checksums

`Layers.tla`: `RecvEthernetFrame` with `RecvArp`, `RecvIpv4` and `RecvIcmp4` below it, to the end in one
step, since all of it happens in `nht_recv_handler` and nobody else touches what it touches;
and `Send`, a UDP or TCP segment on its way down. `internet_checksum` is computed as the code does, on
words of two bytes below `Base`. What other hosts send are well-formed packets, padded to the
shortest frame. `heard` records what each host said since the table was last full.
Its specification is `LayersSpec`, so that a module may extend it together with `Udp`.

### Screen, Paging, Boot - the kernel before it has tasks, and its screen

`Screen.tla`: the adapter's index register, which selects one of the cursor's two halves, is shared;
`KPrint` and `KPrintStep` go through `kprint_at` access by access, `PrintAtOnce` is an interrupt's
print, with nobody in between. `Roll` lays all text out on an endless roll, and `ShowsText` says
that the screen is its lower end. `Paging.tla`: `AllocateDirectory`, `MapPage` (with `GetPage` and
`AllocPage`), `EnablePaging` over a memory of words that keep what they held; `Translated`
is what the processor makes of an address. `Boot.tla` EXTENDS both with the calls of `entry` in
their order, the keyboard, and a `Restart` that keeps the memory (and perhaps the handlers, which
nothing clears either). `InstallIsr` starts the 8259 anew, and with that an interrupt of the keyboard
that was latched before is forgotten (isr.c:46). `early` remembers of the waiting key that it came
before entry had called `keyboard_init`, whatever has become of it since.

### MC modules

`MCMultitask`, `MCNicReceive`, `MCNicSend`, `MCTcpReceive`, `MCKHeap`, `MCUdp`, `MCLayers` and `MCBoot` give the
constants their values, and `MCKHeap`, `MCUdp`, `MCLayers` and `MCBoot` the symmetry of tasks or hosts
that do the same things (no liveness property is checked there, so it is sound).
`TcpSender` is checked directly.

Definitions in the modules that no action uses (`FollowingUnwrapped`,
`SequenceNumberLate`, ...) are *mutants*: what the definition below them would be with
a plausible mistake. `PROJECT.json` says which property each one breaks.

## Runs

Each takes at most about three minutes with two workers. Where a system may really be at
rest the model says so with a step (`Halted`, `Quiet`), and deadlock is checked; only `boot`
does not check it, since there the bounds on prints and keys end the behaviour.

| Run | Question | Instance |
|---|---|---|
| `multitask` | Under nested timer interrupts, sleeping, blocking, both wakers and termination: is the interrupt lock always handed over, is the current task RUNNING, does the counter drift only through named races? | boot task, terminator, one task; one nested interrupt |
| `multitask_live` | Is no sleeper whose time has come passed over by a scan, does every ready task run, is every terminated one freed, is the list damaged only through a stale head? | the same and one task more that is created; no nesting |
| `multitask_search` (violation) | Does `scheduler`'s search for the next task end? | two sleepers, one nested interrupt |
| `nic_receive` | Are card and driver in step, does every frame come through whole and get its turn, is the queue a FIFO queue with drops? | ring of 12 bytes with words of 2, frames of two lengths, queue of 3 slots |
| `nic_send` | Does the wire carry what tasks send without a lock, until a frame is freed, overrun or overwritten too soon? Is it a queue, which turns nothing away while there is room, until a producer is overtaken, and does it drain? | queue of three slots, two producers, four frames, two descriptors |
| `tcp_receive` | Is what `tcp_read` returns the stream, is nothing acknowledged too soon, is what fits acknowledged and stored, does all of it arrive? | window of 2, segments of 1 or 2, sequence numbers up to the last before the wrap, both openings |
| `tcp_gap` (violation) | Is what is acknowledged there? | stream of 2 |
| `kheap` | Is a byte given out once, is none lost, is the first fit found? | 8 bits, bytes of 2, pages of 4, sizes 2 and 3, two tasks that may free twice |
| `tcp_sender` | Is a number one byte, is nothing sent past the window or given up too soon, does the stream arrive, and what do the two wraps do to that? | queue of 2, window of 2, stream of 3 in segments of 1 and 3, from its beginning and from 3 before the wrap of 8 sequence numbers; 4 ticks, sent again after 1 |
| `udp` | Does a datagram reach its port's live owner whole, and wake it? | two tasks, one fixed and two ephemeral ports, three datagrams |
| `layers` | Does the ARP table say what each host said last, is who asks answered, does what is sent pass its receiver's checks? | table of three, three hosts, bytes of three bits, data of 0 to 3 bytes |
| `boot` | Does the screen show the text, does a lost cursor come back, does a page translate to itself, is a key heard that comes when there is a handler? | screen of two rows of two, tables of three entries and eight pages, two prints, two keys, a restart |

Why the bounds are enough to be interesting:

* *Multitask*: every role has a task; one level of nesting lets a second tick come
  between any two steps of the first; both `tick` and the counter wrap.
  Interleavings of nesting with every role at once are left to the proofs, which
  hold for any nesting. `OverdueIsNotPassed` and the liveness properties are checked without
  nesting and with nobody whom `soft_unblock_task` wakes (`Targets = {}`): with `Targets = {c1}` the graph
  is too large for liveness. `OverdueIsNotPassed` alone holds there too (that line of the .cfg changed
  and the property alone: 145564 states), and in `multitask.cfg` with `Sleepers = {c1}` and
  `MaxNested = 0` (304581 states), where `soft_unblock_task` wakes a task that sleeps.
* *NicReceive, NicSend*: both rings wrap and get full; a frame is wrapped round the end of the
  card's ring; producers are more than one; there are more frames than descriptors.
* *TcpReceive*: the stream is longer than the window, segments overlap each other and the
  window's end, `tcp_read` takes less than there is, `SeqMod = 8` with a first number of
  4 puts the stream's end at the last number before the wrap.
* *KHeap*: a block covers part of a byte, a whole one and more than one; a page has
  two bytes of the bitset; three blocks do not fit.
* *TcpSender*: the queue gets full, a segment is larger than the window, a
  segment is due again before its acknowledgement comes; the window's end wraps, then a
  segment's; `tick` wraps under a queued entry and under a sleeping task. `Never` is the last
  tick, which a due time reaches too.
* *Layers*: as many hosts as the table has entries, so that it gets full; sums that carry
  twice; data of odd length and shorter than the shortest frame.
* *Boot*: text longer than the screen, a newline in the last row, a cursor that needs both
  registers; more than one table; two tasks, `entry` and the keyboard that print.
* *Udp*: more datagrams than a task waits for; both tasks may ask for one port.

What the runs show beyond "no error":

* The *passing* runs name the races instead of hiding them. `CounterDriftsOnlyByRace`,
  `ListDamagedOnlyByStaleHead`, `WorksUntilOvertaken`, `spoiled` and
  `defects` say that these steps, and no others, do the damage. A reader who wants to repair
  the kernel has the list: lock `create_task`, `soft_unblock_task`, the heap,
  `nht_enqueue_send_frame`, `udp_port_bind` and `kprint_at`; acknowledge ROK before the ring is
  emptied; keep a frame until its descriptor is free; copy a wrapped frame in two parts; leave
  `rtl8139_receive_frame` after a reset; clear the page directory; register the keyboard before `sti` and read its
  port once; read `head` under the lock in `task_terminator`; compare ticks and sequence numbers by their
  difference; call `sleep_until` under the lock in `tcp_sender`; reset
  `data_remainder`; number an echo by what was sent; clear the window's bitmap.
* `multitask_search`: an update of `ready_to_run_counter` is lost when `create_task`'s
  `++` is interrupted between load and store. `scheduler` then believes that there is a
  ready task, and searches the list for ever with interrupts off, under its comment
  "search for next available task" (multitask.c:131).
* `tcp_gap`: "send the higher ack byte possible" (tcp.c:248) acknowledges the end of the
  segment just stored, also when the bytes in front of it have not come.

## Fairness

* `Multitask!FairSpec`: the processor executes the code it is in (weak fairness of
  `KernelStep`); a timer interrupt that the PIC has latched is taken when
  interrupts are on (strong, since `cli` disables it again and again); a tick is
  long enough for the task that gets the processor to advance (strong, per task). No
  fairness for what a task may call, nor for the network card.
* Modules above it assume what `ReadyRuns` shows: a runnable task gets the
  processor. `NicReceive`: weak fairness of the interrupt, strong fairness of
  the handler task, which interrupts stop again and again. `NicSend`: only that the processor does not
  stand still while some task can run; which one is the timer's choice. `TcpReceive`: of both tasks.
* The peer in `TcpReceive` repeats the byte it waits for, and what is repeated for ever
  arrives: TCP's own assumption about a network. In `TcpSender` strong fairness says the
  same of segments and acknowledgements that are new. The timer ticks (weak), but that `tick` comes
  to its wrap while somebody waits is not assumed (`StretchEnds` has no fairness).

## Proofs

TLAPS checks these for every value of the constants allowed by the modules'
assumptions: any set of tasks and roles, any nesting, any width of the counters; any
size of the rings, registers, windows, pages and words; any frames, datagrams,
texts and streams; any size of screen, heap, page and ARP table; any number of descriptors, producers, ports and callers of the heap.

* `MultitaskProofs`: `TypeCorrect`, `LockIsHandedOver`, `TheCurrentTaskRuns`. None of the three
  invariants is inductive: they speak of the top frame of every stack, and `IRet` uncovers
  the frame below. `Inv` adds `GoodStacks`: of *every* frame of every stack what its
  point relies on (`FrameOK`), that only the top one may wait in `dispatcher`, and that only
  a task's own frame is at the bottom. Three lemmas say that replacing the top, pushing
  a handler and popping one keep that; one lemma for each context switch (`Dispatch`)
  says that lock and `current_task` change hands; then there is a lemma for each action.
  `CurrentRuns` needs `FrameOK`'s clause that `soft_unblock_task` never has its own caller as
  its target between the test and the store.
  `CounterKeepsAccount`: an update that is half done is known by the point of the frame that
  does it, so `CountInv` adds that such a frame is at the bottom of its stack only
  (`BottomOK`). Every step changes `Cardinality`s by one element, and what the counter counts with
  them (`Balance`); `Turn` does the same modulo the counter's width, so that it may wrap.
  `OnlyStaleHeadsDamageTheList`: `ListInv` adds which tasks are not on the list yet, which
  frames know them (`OwnFramesKnown`) and that nothing on the list points to them
  (`OutsideUnknown`). `Reached` walks the list by a recursive function; `IsTrail` says what such a
  walk is, and that two walks agree, end for good, meet no task twice and have room in any
  bound above the number of tasks is shown by induction on their length (`Inductive`, from
  `Least`: a set of naturals has a first member). An edit of the list leaves the trail alone
  (`TrailUntouched`), puts a task before it (`TrailLed`) or takes one out (`TrailWithoutFirst`,
  `TrailWithoutLater`), or it is one of the excused.
* `NicReceiveProofs`, the queue alone: `TypeCorrect`, `WakeUpsArrive`, `ImplementsFifo`. The invariant adds what the
  handler holds (`HandlerOK`) and that every waiting slot holds a frame (`FramesWait`). The ring's
  remainder is replaced by a case distinction once (`FollowingFact`), and the
  refinement is by cases on the actions: an enqueue is `FrameFifo`'s enqueue or its drop,
  `Deliver` starts the first frame, `Advance` removes it, the rest stutters.
* `NicReceiveProofs`, the queue and the card: `DriverInStep`, `FramesAreAnnounced`, `FramesComeThrough`, and
  `ImplementsRecvQueue`: the card and its driver do nothing to the queue but what `RecvQueue`
  allows, so the theorems about `RecvQueue` hold there too (`CardLosesNoWakeUp`,
  `CardFeedsFifo`). The invariant `NicInv`: CAPR says where the driver is (`Told`); the frames lie
  one behind another between driver and card, at distances `start` that are multiples of a
  word, each with all its bytes (`LaidOut`); after a reset driver and card never meet again
  (`StuckAfterReset`); a frame that waits is announced (`Announced`). `LaidOut` is needed since
  `InStep` speaks of the *next* header only, and the one behind it must be right when that is
  taken. The provers know nothing of remainders by a variable, so `Remainder`, `Quotient`,
  `RoundUpShift`, `OffsetFact` and `CaprFact` turn each into cases first.
* `NicSendProofs`: `WakeUpsArrive` (`NoLostWakeUp`, with any number of unlocked producers) and
  `WireIsWhole` (`WireCarriesFrames`, with any number of descriptors). The first adds that the
  handler is at its test when it sleeps (`SleepsAtTest`). The second adds, until `damaged`, that
  the descriptors under way begin at the card's, end at `tx_cur`, and hold the frames
  handed over last, in their order (`InTurn`). `QueueIsOrderly` (`WorksUntilOvertaken`) is a
  refinement up to a point: until `overtaken`, one producer at most is between its
  test and its store (`Alone`), and it fills a slot that nobody reads (`SlotFills`); what
  lies between the two indices is what was queued (`QueuedWhole`), in buffers of its own
  (`OwnBuffers`); then each action is a step of `FrameFifo` or none. That a drop is a stutter of it would
  allow any drop; `TurnedAwayWhenFull` shows that a producer which the test sends back has found
  `Size - 1` frames waiting.
* `KHeapProofs`: `NoByteTwice`, `NoByteLost`, `SearchFindsFirstFit`. Between the test of a bit and its
  store the bits have no owner that `blocks` would show. The invariant says of each caller
  which bits it still wants and that they are free (`WantedAreFree`), that a byte that
  it holds in a register is still the one in memory (`LoadedIsFresh`), and which it has already
  set (`OwnedAreUsed`, `OwnedApart`, `UsedAreOwned`), until `spoiled`. `SearchOK` says that no place
  below the one where an undisturbed search stands would do; a whole byte may be
  skipped, and a page's beginning gone on from, since `Multiple` places are only those.
* `NetworkProofs`, the ports: `PortsHaveTheirBuffers`, `HandlerServesOwner`, `ReadersAreWoken`,
  `DatagramsAreWhole`. Port and owner know each other (`OwnersOK`) and a task that binds is alone
  at its port (`BindersOK`), until *two binds*; the handler's port keeps its owner (`HandlerOK`);
  the reader sleeps from the copy of a datagram to its wake-up (`DatagramsOK`).
* `NetworkProofs`, the layers: `TableIsUpToDate`, `AnswersAreAccepted`. The table's invariant adds that no
  host has two entries, of which only the first would be corrected (`EntriesOK`). What `Folded` ends with exists
  and differs from the sum by a multiple of all ones (`FoldedIs`, since `FoldedOnce` makes a sum smaller and
  keeps the rest); `Total` adds as one expects (`TotalAppend`, `TotalConcat`), and data of even or odd length
  weighs the same by words and by bytes (`WordsWeighTheSame`). `ChecksumPasses` follows, and each kind of
  packet is a case of it.
* `TcpReceiveProofs`: `ReadsTheStream`, `WindowKeepsBytes`, `AcksStayBehind`,
  `AwaitedByteIsTaken`. There is one window, made when the connection opens (`OpeningOK`); a bit is set
  just where a byte has come that is not read, and the byte is there (`WindowOK`); what
  was returned is the stream up to the window (`ReadOK`), what was acknowledged has come
  (`AnswersOK`). Where the numbers do not wrap, positions in the stream and in the window
  are the same up to a constant. `AwaitedByteIsTaken` needs none of that, and holds of a spoiled
  connection too: `PlaceInv` says that every bit is of a byte that was acknowledged and not read, or
  came with the memory, so that a place a new byte goes to has no other bit (`PlaceIsFree`), and a
  segment is stored whole (`StoredWhole`).
* `TcpSenderProofs`: `SentFitsWindow`, `StreamIsSent`, `GivenUpHasArrived`, for any width of sequence
  numbers and ticks. No acknowledgement, however old, is ahead of what the peer awaits (`NetworkOK`);
  until *wrapped* no segment and nothing the peer has reaches the wrap (`BelowOK`), so that a segment's
  end is its own although the window's may wrap; and until the boot task renumbers or a segment
  is split, the bytes of a segment are where their number says, from the boot task to the
  peer (`StreamOK`). Remainders become cases first (`ModBelow`, `ModAtMost`, `ModWraps`, `NewPart`).
* `BootProofs`: `PagesStay`, `KeysAreHeard`, `ScreenShowsText`, `LostCursorComesBack`. `PagingOK` says
  of every word of the directory and the tables what it is while `paging_init` maps page after page:
  the tables lie one behind the other behind the directory (`MappedOK`), everything the heap has not
  given out is still clear (`MappingOK`), and the tasks keep away from what is allocated.
  `TranslationHolds` speaks of the end of that loop only. `HeardOK` adds to `KeyIsHeard` where entry
  is: a key that is not early has come past `keyboard_init`, where the handler stays registered and
  `isr_install` does not come again. `ScreenOK` says
  of every point of a print that is alone what registers and locals hold (`AloneOK`, `PointOK`), and
  which part of the text the screen shows (`ShownOK`, `IdleOK`), for the property speaks of a screen at rest
  only. `Shows` relates the memory to a roll of text without end, of which the screen is the lower
  part; `ShowsNext` says that one more character keeps that, newline, wrapping and scrolling included.
  Texts of any length are the folds `Shown` and `Roll`; what they do to one character more
  (`ShownAppend`, `RollAppend`) is shown by induction over positions from the order of the naturals.

Assumptions: the ASSUMEs of the modules. `Multitask`: a finite set of tasks; Boot and
Terminator are tasks and differ; only clients block and terminate; widths. The queues: at
least two slots, and junk is no frame. `NicReceive`: the ring is longer than two words and a
multiple of one, CAPR counts a multiple of the ring (64 KiB against 8 KiB in the driver), and no
frame is nothing but its CRC. `NicSend`: there is a descriptor. `KHeap`: bytes and pages are whole (8 bits,
4096 bytes), nobody allocates nothing. `Udp`: ports are not 0, the values that stand for no task and
for no datagram are none. `TcpReceive`: a window is smaller than the number of
sequence numbers, and the peer's segments lie in its stream. `TcpSender`: the queue has an entry,
segments are not empty, a segment is sent again before a round of the ticks is over. `Paging`: the heap is one area, with room for the frames'
bitmap, the directory and the tables (225 pages in the kernel, which needs 7), below the last page that is
mapped. `Boot`: texts are sequences, and nothing prints an empty one. `Layers`: a byte has two values
or more, addresses are words, data are bytes. TLC evaluates each in the passing runs.

## Only model-checked

Liveness (`ReadyRuns`, `TerminatedIsReaped`, `EveryFrameHandled`, `Drains`, both
`StreamArrives`): the prover does not reason about fairness.

`OverdueIsNotPassed`: that a scan keeps every overdue sleeper ahead of it while lists of tasks change under
it is an invariant of the list and of every scan at once, which is not proved yet.

Every other invariant and action property of the passing runs is also a theorem. The two runs that
show a violation are of properties that do not hold.

## Not modelled

* `TcpReceive` leaves out `send_window` (that is `TcpSender`'s), checksums and header layout;
  `tcp_bind` has no effect on either.
* In `TcpReceive` nothing is claimed of a connection whose SYN-ACK, or whose third ACK, is
  lost: the port then stays in WAITING_THREEWAY_ACK, for there is no timer.
* Whether a datagram fits into its reader's buffer (udp.c:73 does not look) and other
  arithmetic on lengths from packets.
* What happens after memory is corrupted: `halt`, `spoiled`, `defects` end the claims.
* A frame that comes between `rtl8139_reset` and the registration of its handler
  (rtl8139.c:100-104): what follows depends on how the firmware has set the interrupt line.
* Received IP options and fragments, which the code takes for data, and `send_arp_request`,
  `tcp_bind`, `free_page` and `switch_page_directory`, which nobody calls.
* Exceptions: `isr_handler` and the page-fault handler print, and the machine halts.
* `kprintf`'s formatting and `kprint_debug`'s colours; copying, byte order and header
  fields by bit are abstracted to what they do.
* Serial line, ports, PCI, boot sector, descriptor tables: straight-line I/O and set-up
  without state that anything else depends on.
* A heap that is full, in composition with the callers that do not look (`tcp_send_segment`
  leaks a segment with every acknowledgement, so it will be).

## Plan

Done: all modules above, and a theorem for every safety property of a passing run but one. Next:

1. The refinement of `FrameFifo` by `SendQueue`, and of `RecvQueue` by `NicReceive`, are proved; an
   abstract specification of `TcpReceive` together with `TcpSender` (a stream from one end to the other) is not
   stated yet.
2. A proof of `OverdueIsNotPassed`.
3. Shared lemmas: the order of the naturals (`Least`, `Inductive`) is shown in each module that counts.

## Running it

    tlc -workers 2 -config multitask.cfg MCMultitask
    tlapm MultitaskProofs.tla

The eight modules whose names end in `Proofs` hold the theorems.

A run's module is in `PROJECT.json` under "runs".
