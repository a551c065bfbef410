-------------------------------- MODULE Boot --------------------------------
(* entry of kernel_main.c, from the cleared screen to paging, with the     *)
(* keyboard's interrupt under way as soon as interrupts are on, and what   *)
(* the kernel goes on with: tasks that print (Screen) and that take memory *)
(* from the heap (Paging).  What starts the tasks is Multitask's.          *)
EXTENDS Screen, Paging

CONSTANTS Entry0,      \* entry itself, as a printer
          Welcome,     \* what it prints
          Texts,       \* what a task prints
          Keys,        \* the scan codes that come
  Names,       \* what print_letter prints for 0..0x39
  Break,       \* 0x80, the difference between releasing and pressing
  Unknown, Released,
          MaxPrints, MaxKeys, NoKey

ASSUME BootAssumption ==
  /\ Entry0 \in Printers /\ NoKey \notin Keys /\ Keys \subseteq 0..255
  /\ Break \in Nat /\ \A k \in DOMAIN Names : k \in 0..(Break - 1)
(* Nothing prints an empty text; a scan code's name has a newline behind.  *)
ASSUME TextAssumption ==
  /\ \A m \in Texts \cup {Welcome} : m \in Seq(Range(m)) \ {<<>>}
  /\ \A m \in {Unknown, Released} \cup {Names[k] : k \in DOMAIN Names} :
       m \in Seq(Range(m))

VARIABLES
  step,       \* where entry is
  handlers,   \* interrupt_handlers: the interrupts that have one
  on,         \* the interrupt flag
  waiting,    \* the scan code in the keyboard controller, which holds one
  irq1,       \* its interrupt is latched
  early,      \* history: the waiting key came before keyboard_init
  prints, keys \* how many there have been

keyboard == <<waiting, irq1, early, keys>>
vars == <<screen, paging, keyboard, step, handlers, on, prints>>

Init == /\ ScreenInit /\ PagingInit
        /\ step = "clear_screen" /\ handlers = {} /\ on = FALSE
        /\ waiting = NoKey /\ irq1 = FALSE /\ early = FALSE
        /\ prints = 0 /\ keys = 0

(* register_interrupt_handler.                                             *)
Register(irq) == handlers' = handlers \cup {irq}

At(from, to) == step = from /\ step' = to

(* entry, one call after the other.                                        *)
EntryClears ==
  /\ At("clear_screen", "welcome")
  /\ ClearScreen
  /\ UNCHANGED <<paging, keyboard, handlers, on, prints>>
EntryPrints ==
  /\ At("welcome", "isr_install")
  /\ KPrint(Entry0, Welcome)
  /\ UNCHANGED <<paging, keyboard, handlers, on, prints>>
(* isr_install initialises the 8259 anew, which forgets what it had        *)
(* latched: its inputs must rise again.                                    *)
InstallIsr ==
  /\ At("isr_install", "sti") /\ Entry0 \notin Busy
  /\ irq1' = FALSE
  /\ UNCHANGED <<screen, paging, waiting, early, keys, handlers, on, prints>>
EnableInterrupts ==
  /\ At("sti", "pit_init")
  /\ on' = TRUE
  /\ UNCHANGED <<screen, paging, keyboard, handlers, prints>>
PitInit ==
  /\ At("pit_init", "keyboard_init")
  /\ Register("IRQ0")
  /\ UNCHANGED <<screen, paging, keyboard, on, prints>>
KeyboardInitForgotten ==
  /\ At("keyboard_init", "kheap_init")
  /\ UNCHANGED <<screen, paging, keyboard, handlers, on, prints>>
KeyboardInit ==
  /\ At("keyboard_init", "kheap_init")
  /\ Register("IRQ1")
  /\ UNCHANGED <<screen, paging, keyboard, on, prints>>
KheapInit ==
  /\ At("kheap_init", "paging_init")
  /\ ClearHeap
  /\ UNCHANGED <<screen, keyboard, handlers, on, prints>>
PagingInits ==
  /\ \/ At("paging_init", "map") /\ AllocateDirectory /\ UNCHANGED handlers
     \/ At("map", "map") /\ MapPage /\ UNCHANGED handlers
     \/ At("map", "up") /\ EnablePaging /\ Register("page fault")
  /\ UNCHANGED <<screen, keyboard, on, prints>>

-----------------------------------------------------------------------------
(* The calls of entry up to the one that gives the keyboard its handler.   *)
BeforeKeyboard ==
  {"clear_screen", "welcome", "isr_install", "sti", "pit_init", "keyboard_init"}

(* The keyboard controller gives out one scan code, and raises IRQ1 when   *)
(* it begins to wait.                                                      *)
KeyPressed(k) ==
  /\ keys < MaxKeys /\ keys' = keys + 1
  /\ waiting = NoKey
  /\ waiting' = k /\ irq1' = TRUE /\ early' = (step \in BeforeKeyboard)
  /\ UNCHANGED <<screen, paging, step, handlers, on, prints>>

(* print_letter: releasing a key that has a name prints the name again,    *)
(* which is as far as it calls itself.                                     *)
PrintLetter(k) ==
  IF k \in DOMAIN Names THEN Names[k]
  ELSE IF k < Break THEN Unknown
  ELSE IF k - Break \in DOMAIN Names THEN Names[k - Break] \o Released
  ELSE Unknown \o Released

(* keyboard_callback: the scan code is read, and a line printed.           *)
KeyboardCallback(k) ==
  waiting' = NoKey /\ PrintAtOnce(Append(PrintLetter(k), NewLine))

(* irq_handler: the interrupt is over before its handler is called, if it  *)
(* has one.                                                                *)
IrqHandler ==
  /\ on /\ irq1
  /\ irq1' = FALSE
  /\ IF "IRQ1" \in handlers THEN KeyboardCallback(waiting)
     ELSE UNCHANGED <<screen, waiting>>
  /\ UNCHANGED <<paging, early, keys, step, handlers, on, prints>>

TaskPrints(t, message) ==
  /\ step = "up" /\ ~restarted
  /\ prints < MaxPrints /\ prints' = prints + 1
  /\ KPrint(t, message)
  /\ UNCHANGED <<paging, keyboard, step, handlers, on>>

Continues(t) ==
  /\ KPrintStep(t)
  /\ UNCHANGED <<paging, keyboard, step, handlers, on, prints>>

TaskTakesPage ==
  /\ step = "up" /\ TaskWrites
  /\ UNCHANGED <<screen, keyboard, step, handlers, on, prints>>

(* A restart: the memory stays, and with it perhaps interrupt_handlers,    *)
(* which nothing clears; the text memory is cleared, no interrupt is       *)
(* pending.  Tasks print before it only.                                   *)
Restart ==
  /\ step = "up" /\ ~restarted /\ Busy = {}
  /\ KeepMemory
  /\ step' = "clear_screen" /\ handlers' \in {{}, handlers} /\ on' = FALSE
  /\ cells' = [i \in Memory |-> Blank] /\ index' = 0 /\ high' = 0 /\ low' = 0
  /\ offset' = [t \in Printers |-> 0] /\ goal' = [t \in Printers |-> 0]
  /\ printed' = <<>> /\ overlapped' = FALSE /\ alone' = {}
  /\ waiting' = NoKey /\ irq1' = FALSE /\ early' = FALSE
  /\ UNCHANGED <<pc, text, prints, keys>>

Next ==
  \/ EntryClears \/ EntryPrints \/ InstallIsr \/ EnableInterrupts
  \/ PitInit \/ KeyboardInit \/ KheapInit \/ PagingInits
  \/ \E k \in Keys : KeyPressed(k)
  \/ IrqHandler
  \/ \E t \in Printers \ {Entry0}, message \in Texts : TaskPrints(t, message)
  \/ \E t \in Printers : Continues(t)
  \/ TaskTakesPage
  \/ Restart

Spec == Init /\ [][Next]_vars

-----------------------------------------------------------------------------
(* A scan code that comes once entry has called keyboard_init is not lost: *)
(* as long as it waits its interrupt is still to come, and finds the       *)
(* handler.  The interrupt of an earlier one may be forgotten by           *)
(* isr_install, or come before the handler is there; nobody reads that     *)
(* scan code, and no other key can raise the interrupt again.              *)
KeyIsHeard == waiting # NoKey /\ ~early => irq1 /\ "IRQ1" \in handlers
=============================================================================
