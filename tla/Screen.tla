------------------------------ MODULE Screen ------------------------------
(* vga.c: text memory, the cursor in two registers of the display adapter, *)
(* and the tasks that print.  The cursor is nowhere else: kprint_at reads  *)
(* it at its beginning and writes it at its end, through an index register *)
(* that all share, and nothing locks it.  An interrupt handler prints as a *)
(* whole, between any two steps of a task.  Colours are left out, and a    *)
(* scroll's copying is one step: who prints meanwhile is an overlap in any *)
(* case.                                                                   *)
EXTENDS Integers, Sequences, SequencesExt

CONSTANTS Rows, Cols,  \* MAX_ROWS, MAX_COLS
          Base,        \* the values of a cursor register (256)
          Printers,    \* the tasks that print
          Blank, NewLine

ASSUME ScreenAssumption ==
  /\ {Rows, Cols, Base} \subseteq Nat \ {0}
  /\ Rows * Cols < Base * Base
  /\ Blank # NewLine

VARIABLES
  cells,            \* text memory, one row more than is shown
  index, high, low, \* registers: the selected one, and the cursor's halves
  pc, offset, text, \* kprint_at of every printer; what it has still to print
  goal,             \* the cursor that a set_cursor_offset is writing
  printed,          \* history: all that was printed, in the order of the calls
  overlapped,       \* history: two prints have overlapped
  alone             \* history: whose current print overlaps no other

registers == <<index, high, low>>
printers  == <<pc, offset, text, goal>>
screen    == <<cells, registers, printers, printed, overlapped, alone>>

Area == Rows * Cols
Memory == 0..(Area + Cols - 1)
Cursor == high * Base + low

ScreenInit ==
  /\ cells = [i \in Memory |-> Blank]
  /\ index = 0 /\ high = 0 /\ low = 0
  /\ pc = [t \in Printers |-> "idle"] /\ offset = [t \in Printers |-> 0]
  /\ text = [t \in Printers |-> <<>>] /\ goal = [t \in Printers |-> 0]
  /\ printed = <<>> /\ overlapped = FALSE /\ alone = {}

-----------------------------------------------------------------------------
(* What the functions do when nobody is in between.  Offsets count cells.  *)

(* print_char: where it goes on, and what it writes; memory behind the     *)
(* extra row shows nowhere.                                                *)
After(char, at) == IF char = NewLine THEN (at \div Cols + 1) * Cols ELSE at + 1
Put(memory, char, at) ==
  IF char = NewLine \/ at \notin Memory THEN memory
  ELSE [memory EXCEPT ![at] = char]

(* kprint_at's test, and scroll_screen: every row moves up, the one behind *)
(* the screen included, and the cursor goes to the last one.               *)
BeyondNext(at) == at > Area
Beyond(at) == at > Area - 1
ScrolledButLast(memory) ==
  [i \in Memory |-> IF i < Area - Cols THEN memory[i + Cols] ELSE memory[i]]
Scrolled(memory) ==
  [i \in Memory |-> IF i < Area THEN memory[i + Cols] ELSE memory[i]]
LastRow == Area - Cols

(* kprint, as a whole, from a state [m, at].                               *)
Shown(message, memory, from) ==
  FoldLeft(LAMBDA s, char :
             LET next == [m |-> Put(s.m, char, s.at), at |-> After(char, s.at)]
             IN  IF Beyond(next.at)
                 THEN [m |-> Scrolled(next.m), at |-> LastRow]
                 ELSE next,
           [m |-> memory, at |-> from], message)

SetCursor(at) == high' = (at \div Base) % Base /\ low' = at % Base /\ index' = 15

-----------------------------------------------------------------------------
Busy == {t \in Printers : pc[t] # "idle"}

(* Somebody begins to print message: whoever prints is no longer alone.    *)
Begins(message, who) ==
  /\ overlapped' = (overlapped \/ Busy # {})
  /\ alone' = IF Busy = {} THEN who ELSE {}
  /\ printed' = IF overlapped' THEN <<>> ELSE printed \o message

(* An interrupt handler, and clear_screen, with nobody in between.         *)
PrintAtOnce(message) ==
  LET after == Shown(message, cells, Cursor)
  IN  /\ Begins(message, {})
      /\ cells' = after.m /\ SetCursor(after.at)
      /\ UNCHANGED printers

ClearScreen ==
  /\ cells' = [i \in Memory |-> IF i < Area THEN Blank ELSE cells[i]]
  /\ SetCursor(0)
  /\ UNCHANGED <<printers, printed, overlapped, alone>>

(* kprint: from here on statement by statement.                            *)
KPrint(t, message) ==
  /\ pc[t] = "idle"
  /\ Begins(message, {t})
  /\ pc' = [pc EXCEPT ![t] = "select_high"]
  /\ text' = [text EXCEPT ![t] = message]
  /\ UNCHANGED <<cells, registers, offset, goal>>

Goes(t, from, to) == pc[t] = from /\ pc' = [pc EXCEPT ![t] = to]
History == <<printed, overlapped, alone>>

(* Only the data register that is selected is read or written.             *)
Data == IF index = 14 THEN high ELSE low
Select(t, from, to, register) ==
  /\ Goes(t, from, to) /\ index' = register
  /\ UNCHANGED <<cells, high, low, offset, text, goal, History>>
Write(t, from, to, byte) ==
  /\ Goes(t, from, to)
  /\ IF index = 14 THEN high' = byte /\ UNCHANGED low
     ELSE low' = byte /\ UNCHANGED high
  /\ UNCHANGED <<cells, index, offset, text, goal, History>>

(* get_cursor_offset.                                                      *)
ReadHigh(t) == /\ Goes(t, "read_high", "select_low")
               /\ offset' = [offset EXCEPT ![t] = Data * Base]
               /\ UNCHANGED <<cells, registers, text, goal, History>>
ReadLow(t) == /\ Goes(t, "read_low", "print")
              /\ offset' = [offset EXCEPT ![t] = @ + Data]
              /\ UNCHANGED <<cells, registers, text, goal, History>>
GetCursorOffset(t) ==
  \/ Select(t, "select_high", "read_high", 14) \/ ReadHigh(t)
  \/ Select(t, "select_low", "read_low", 15) \/ ReadLow(t)

(* set_cursor_offset: at the end, or in a scroll, which reads it again.    *)
SetCursorOffset(t) ==
  \/ Select(t, "set_high", "write_high", 14)
  \/ Write(t, "write_high", "set_low", (goal[t] \div Base) % Base)
  \/ Select(t, "set_low", "write_low", 15)
  \/ Write(t, "write_low", IF goal[t] = offset[t] THEN "idle" ELSE "select_high",
           goal[t] % Base)

(* The loop of kprint_at.                                                  *)
PrintChar(t) ==
  /\ text[t] # <<>>
  /\ LET next == After(Head(text[t]), offset[t])
         shown == Put(cells, Head(text[t]), offset[t])
     IN  /\ offset' = [offset EXCEPT ![t] = next]
         /\ IF Beyond(next)
            THEN /\ Goes(t, "print", "set_high")
                 /\ cells' = Scrolled(shown)
                 /\ goal' = [goal EXCEPT ![t] = LastRow]
            ELSE /\ Goes(t, "print", "print")
                 /\ cells' = shown
                 /\ UNCHANGED goal
  /\ text' = [text EXCEPT ![t] = Tail(@)]
  /\ UNCHANGED <<registers, History>>
EndOfText(t) ==
  /\ text[t] = <<>>
  /\ Goes(t, "print", "set_high")
  /\ goal' = [goal EXCEPT ![t] = offset[t]]
  /\ UNCHANGED <<cells, registers, offset, text, History>>

KPrintStep(t) ==
  GetCursorOffset(t) \/ PrintChar(t) \/ EndOfText(t) \/ SetCursorOffset(t)

-----------------------------------------------------------------------------
(* All text on one endless roll: its cells, and where the next one comes.  *)
Roll(message) ==
  FoldLeft(LAMBDA r, char :
             [cell |-> [i \in DOMAIN r.cell \cup {r.at} |->
                          IF i = r.at /\ char # NewLine THEN char
                          ELSE IF i \in DOMAIN r.cell THEN r.cell[i] ELSE Blank],
              at |-> After(char, r.at)],
           [cell |-> <<>>, at |-> 0], message)

(* While no two prints have overlapped, and none is under way, the screen  *)
(* shows the end of all text, down to the row the cursor is in.            *)
ShowsText ==
  ~overlapped /\ Busy = {} =>
    LET roll == Roll(printed)
        row == roll.at \div Cols
        top == (IF row < Rows THEN 0 ELSE row - Rows + 1) * Cols
    IN  /\ Cursor = roll.at - top
        /\ \A i \in 0..(Area - 1) :
             cells[i] = IF top + i \in DOMAIN roll.cell THEN roll.cell[top + i]
                        ELSE Blank

(* Whatever overlapping prints have made of the cursor, one print that     *)
(* overlaps no other, a task's or an interrupt's, leaves it on the screen. *)
AlonePrintHeals ==
  [][/\ \A t \in alone : pc[t] # "idle" /\ pc'[t] = "idle" => Cursor' < Area
     /\ Busy \cup Busy' = {} /\ cells' # cells => Cursor' < Area]_screen
=============================================================================
