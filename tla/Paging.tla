------------------------------ MODULE Paging ------------------------------
(* paging.c: paging_init maps the low memory, address by address, with     *)
(* frames in the order first_frame finds them and tables from the heap,    *)
(* and turns the translation on.  Nothing clears the directory and the     *)
(* tables: they are what the heap's memory happens to hold, zero when the  *)
(* machine is switched on, and what was left there when it is restarted.   *)
(* Memory is counted in pages; kmalloc and kmalloc_u are KHeap's, for      *)
(* blocks of whole pages.  free_page and switch_page_directory have no     *)
(* callers.                                                                *)
EXTENDS Integers, FiniteSets, FiniteSetsExt

CONSTANTS PageEntries, \* entries of a table, and of the directory (1024)
          LastPage,    \* the last page that is mapped (0xf00000)
          HeapPages,   \* the pages of the heap
          NFrames,     \* nframes
          Junk         \* a word that a task may write

ASSUME PagingAssumption ==
  /\ {PageEntries, LastPage, NFrames, Junk} \subseteq Nat \ {0}
  /\ LastPage < PageEntries * PageEntries /\ LastPage < NFrames
  /\ HeapPages \subseteq 1..LastPage
(* The heap is one area, with room for the frames' bitmap, the two pages   *)
(* of the directory and a table for every PageEntries pages.               *)
ASSUME HeapAssumption ==
  \E first, last \in HeapPages :
    HeapPages = first..last /\ last - first >= 3 + LastPage \div PageEntries

VARIABLES
  mem,          \* the words of the pages: 0, or 1 more than a frame's number
                \* in an entry, or the number of a table's page
  heap,         \* the pages of the heap that are allocated
  frames,       \* bitmap: the frames that are taken
  dir,          \* kernel_directory: page of tables_physical, tables follow
  page,         \* the next page paging_init maps
  page_enabled,
  restarted     \* history: the machine was restarted with its memory kept

paging == <<mem, heap, frames, dir, page, page_enabled, restarted>>

Empty == [i \in 0..(PageEntries - 1) |-> 0]
PagingInit ==
  /\ mem = [p \in HeapPages |-> Empty]
  /\ heap = {} /\ frames = {} /\ dir = 0 /\ page = 0
  /\ page_enabled = FALSE /\ restarted = FALSE

-----------------------------------------------------------------------------
(* kmalloc: the first n pages in a row that are free.                      *)
Room(n) == {p \in HeapPages : p..(p + n - 1) \subseteq HeapPages \ heap}
Kmalloc(n) == Min(Room(n))

Table(v) == v \div PageEntries
Entry(v) == v % PageEntries

(* first_frame.                                                            *)
FirstFrameButZero == Min(1..(NFrames - 1) \ frames)
FirstFrame == Min(0..(NFrames - 1) \ frames)

(* paging_init up to its loop: the frames' bitmap, cleared, and the        *)
(* directory, which is not.                                                *)
AllocateDirectory ==
  LET bits == Kmalloc(1)
      directory == Min({p \in Room(2) : p # bits /\ p + 1 # bits})
  IN  /\ heap' = heap \cup {bits, directory, directory + 1}
      /\ mem' = [mem EXCEPT ![bits] = Empty]
      /\ dir' = directory
      /\ frames' = {} /\ page' = 0
      /\ UNCHANGED <<page_enabled, restarted>>

(* get_page (v, 1, kernel_directory): the table of a page, and what memory *)
(* and heap are with it.  One that the directory does not point to is      *)
(* allocated.                                                              *)
GetPage(v) ==
  LET known == mem[dir + 1][Table(v)]
      new == Kmalloc(1)
  IN  IF known # 0 THEN [table |-> known, mem |-> mem, heap |-> heap]
      ELSE [table |-> new, heap |-> heap \cup {new},
            mem |-> [mem EXCEPT ![dir + 1][Table(v)] = new,
                                ![dir][Table(v)] = new + 1]]

(* alloc_page: an entry that is not present gets the first frame.          *)
AllocPage(got, v) ==
  IF got.mem[got.table][Entry(v)] # 0
  THEN mem' = got.mem /\ UNCHANGED frames
  ELSE /\ mem' = [got.mem EXCEPT ![got.table][Entry(v)] = FirstFrame + 1]
       /\ frames' = frames \cup {FirstFrame}

(* The loop of paging_init.                                                *)
MapPage ==
  /\ page <= LastPage
  /\ AllocPage(GetPage(page), page)
  /\ heap' = GetPage(page).heap
  /\ page' = page + 1
  /\ UNCHANGED <<dir, page_enabled, restarted>>

EnablePaging ==
  /\ page > LastPage
  /\ page_enabled' = TRUE
  /\ UNCHANGED <<mem, heap, frames, dir, page, restarted>>

(* A task gets a page from the heap and writes what it likes.              *)
TaskWrites ==
  /\ page_enabled /\ Room(1) # {}
  /\ heap' = heap \cup {Kmalloc(1)}
  /\ mem' = [mem EXCEPT ![Kmalloc(1)] = [i \in DOMAIN Empty |-> Junk]]
  /\ UNCHANGED <<frames, dir, page, page_enabled, restarted>>

(* kheap_init clears the heap's bitset, nothing else.                      *)
ClearHeap == heap' = {} /\ UNCHANGED <<mem, frames, dir, page, page_enabled, restarted>>

(* The machine is restarted without being switched off.                    *)
KeepMemory ==
  /\ page_enabled' = FALSE /\ restarted' = TRUE
  /\ UNCHANGED <<mem, heap, frames, dir, page>>

-----------------------------------------------------------------------------
(* What the processor makes of a page's address: through the directory's   *)
(* physical half, not through the pointers that the code follows.          *)
Unmapped == -1
Translated(v) ==
  LET table == mem[dir][Table(v)] - 1
  IN  IF table \notin HeapPages \/ mem[table][Entry(v)] = 0 THEN Unmapped
      ELSE mem[table][Entry(v)] - 1

(* Once paging is on, every page up to the last is where it was before, to *)
(* the processor and to virtual2phys: all pointers taken so far hold, and  *)
(* what tasks allocate and write cannot change it.  It holds from a cold   *)
(* start only: after a restart the tables of the last run are taken over,  *)
(* but not the heap's pages that they are in.                              *)
TranslationHolds ==
  page_enabled /\ ~restarted => \A v \in 0..LastPage : Translated(v) = v
=============================================================================
