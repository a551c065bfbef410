----------------------------- MODULE BootProofs -----------------------------
(***************************************************************************)
(* Proofs about Boot, for a screen, a heap and page tables of any size,    *)
(* any texts and any printers: once paging is on every page is where it    *)
(* was; a scan code that waits is heard; the screen shows the end of all   *)
(* text until two prints overlap, and a print that overlaps no other       *)
(* brings the cursor back.                                                 *)
(*                                                                         *)
(* Three invariants, each of its own part: PagingOK says of every word of  *)
(* the directory and the tables what it is; HeardOK where entry is;        *)
(* ScreenOK says of every point of a print that is alone what registers    *)
(* and locals hold, and which part of the text the screen shows.  A text   *)
(* is taken character by character: Shown and Roll are folds, and what     *)
(* they do to one more character (ShownAppend, RollAppend) is shown by     *)
(* induction over positions, from the order of the naturals.               *)
(***************************************************************************)
EXTENDS Boot, SequenceTheorems, WellFoundedInduction, TLAPS

(* The order of the naturals, and Min and Max.                             *)
LEMMA Least ==
  ASSUME NEW S \in SUBSET Nat, S # {}
  PROVE  \E m \in S : \A k \in S : m <= k
<1> DEFINE R == OpToRel(<, Nat)
<1>1. IsWellFoundedOn(R, Nat)
  BY NatLessThanWellFounded
<1>2. \A a, b \in Nat : a < b => <<a, b>> \in R
  BY DEF OpToRel
<1> HIDE DEF R
<1>3. PICK m \in S : \A k \in S : ~(<<k, m>> \in R)
  BY <1>1, WFMin
<1>4. \A k \in S : ~(k < m)
  BY <1>2, <1>3
<1> QED BY <1>4

LEMMA Inductive ==
  ASSUME NEW S, 0 \in S, \A n \in Nat : n \in S => n + 1 \in S
  PROVE  \A n \in Nat : n \in S
<1> SUFFICES ASSUME NEW n \in Nat, n \notin S PROVE FALSE
  OBVIOUS
<1> DEFINE T == {k \in Nat : k \notin S}
<1>1. PICK m \in T : \A k \in T : m <= k
  BY Least
<1>2. m # 0 /\ m - 1 \in Nat
  OBVIOUS
<1>3. m - 1 \in S
  BY <1>1, <1>2
<1> QED BY <1>2, <1>3

(* Min and Max are what they say.                                          *)
LEMMA MinIs ==
  ASSUME NEW S \in SUBSET Nat, NEW m \in S, \A k \in S : m <= k
  PROVE  Min(S) = m
<1>1. \A k \in S : Min(S) <= k /\ Min(S) \in S
  BY DEF Min
<1>2. Min(S) <= m /\ m <= Min(S) /\ Min(S) \in Nat
  BY <1>1
<1> QED BY <1>2

LEMMA MinIn ==
  ASSUME NEW S \in SUBSET Nat, S # {}
  PROVE  Min(S) \in S
BY Least, MinIs

LEMMA MaxIs ==
  ASSUME NEW S \in SUBSET Nat, NEW m \in S, \A k \in S : k <= m
  PROVE  Max(S) = m
<1>1. \A k \in S : Max(S) >= k /\ Max(S) \in S
  BY DEF Max
<1>2. Max(S) <= m /\ m <= Max(S) /\ Max(S) \in Nat
  BY <1>1
<1> QED BY <1>2

-----------------------------------------------------------------------------
(* Division by any divisor.                                                *)
LEMMA Division ==
  ASSUME NEW M \in Nat \ {0}, NEW n \in Nat
  PROVE  /\ n \div M \in Nat /\ n % M \in 0..(M - 1)
         /\ n = M * (n \div M) + (n % M)
OBVIOUS

LEMMA ProductOrdered ==
  ASSUME NEW M \in Nat, NEW a \in Nat, NEW b \in Nat, a > b
  PROVE  M * a >= M * b + M /\ M * a \in Nat /\ M * b \in Nat
<1>1. PICK d \in Nat : a = b + 1 + d
  <2>1. a - b - 1 \in Nat /\ a = b + 1 + (a - b - 1)
    OBVIOUS
  <2> QED BY <2>1
<1>2. M * a = M * b + M + M * d
  BY <1>1
<1>3. M * d \in Nat /\ M * b \in Nat
  OBVIOUS
<1> QED BY <1>2, <1>3

LEMMA OneQuotient ==
  ASSUME NEW M \in Nat \ {0}, NEW a \in Nat, NEW q \in Nat,
         NEW b \in 0..(M - 1), NEW r \in 0..(M - 1), M * a + b = M * q + r
  PROVE  a = q /\ b = r
<1>1. M * a \in Nat /\ M * q \in Nat
  OBVIOUS
<1>2. ~(a > q)
  <2> SUFFICES ASSUME a > q PROVE FALSE
    OBVIOUS
  <2>1. M * a >= M * q + M
    BY ProductOrdered
  <2> QED BY <1>1, <2>1
<1>3. ~(q > a)
  <2> SUFFICES ASSUME q > a PROVE FALSE
    OBVIOUS
  <2>1. M * q >= M * a + M
    BY ProductOrdered
  <2> QED BY <1>1, <2>1
<1>4. a = q
  BY <1>2, <1>3
<1> QED BY <1>1, <1>4

LEMMA QuotientIs ==
  ASSUME NEW M \in Nat \ {0}, NEW q \in Nat, NEW r \in 0..(M - 1), NEW n \in Nat,
         n = M * q + r
  PROVE  n \div M = q /\ n % M = r
<1> DEFINE a == n \div M  b == n % M
<1>1. a \in Nat /\ b \in 0..(M - 1) /\ n = M * a + b
  BY Division
<1> HIDE DEF a, b
<1>2. a = q /\ b = r
  BY <1>1, OneQuotient
<1> QED BY <1>2 DEF a, b

LEMMA QuotientBelow ==
  ASSUME NEW M \in Nat \ {0}, NEW P \in Nat, NEW n \in Nat, n < M * P
  PROVE  n \div M < P
<1> DEFINE a == n \div M
<1>1. a \in Nat /\ n = M * a + (n % M) /\ n % M \in Nat
  BY Division
<1> HIDE DEF a
<1>2. M * a \in Nat /\ M * P \in Nat
  BY <1>1
<1>3. ~(a > P)
  <2> SUFFICES ASSUME a > P PROVE FALSE
    OBVIOUS
  <2>1. M * a >= M * P + M
    BY <1>1, ProductOrdered
  <2> QED BY <1>1, <1>2, <2>1
<1>4. a # P
  BY <1>1, <1>2
<1> QED BY <1>1, <1>3, <1>4 DEF a

-----------------------------------------------------------------------------
(* A page has its entry in one table only, and pages that follow each      *)
(* other have theirs in one table or in two that do.                       *)
LEMMA Halves ==
  \A v \in Nat : /\ Table(v) \in Nat /\ Entry(v) \in 0..(PageEntries - 1)
                 /\ v = PageEntries * Table(v) + Entry(v)
<1> TAKE v \in Nat
<1>1. PageEntries \in Nat \ {0}
  BY PagingAssumption
<1> QED BY <1>1, Division DEF Table, Entry

LEMMA OneEntry ==
  \A v, w \in Nat : Table(v) = Table(w) /\ Entry(v) = Entry(w) => v = w
BY Halves

LEMMA TablesOrdered ==
  ASSUME NEW v \in Nat, NEW w \in Nat, v <= w
  PROVE  Table(v) <= Table(w)
<1>1. PageEntries \in Nat \ {0}
  BY PagingAssumption
<1> DEFINE a == Table(v)  b == Table(w)
<1>2. /\ a \in Nat /\ v = PageEntries * a + Entry(v) /\ Entry(v) \in 0..(PageEntries - 1)
      /\ b \in Nat /\ w = PageEntries * b + Entry(w) /\ Entry(w) \in 0..(PageEntries - 1)
  BY Halves
<1> HIDE DEF a, b
<1>3. a > b => PageEntries * a >= PageEntries * b + PageEntries
  BY <1>1, <1>2, ProductOrdered
<1>4. PageEntries * b \in Nat /\ PageEntries * a \in Nat
  BY <1>1, <1>2
<1>5. a <= b
  BY <1>1, <1>2, <1>3, <1>4
<1> QED BY <1>5 DEF a, b

LEMMA NextTable ==
  ASSUME NEW v \in Nat
  PROVE  Table(v + 1) \in {Table(v), Table(v) + 1}
<1>1. PageEntries \in Nat \ {0}
  BY PagingAssumption
<1> DEFINE a == Table(v)  b == Table(v + 1)
<1>2. /\ a \in Nat /\ v = PageEntries * a + Entry(v) /\ Entry(v) \in 0..(PageEntries - 1)
      /\ b \in Nat /\ v + 1 = PageEntries * b + Entry(v + 1)
      /\ Entry(v + 1) \in 0..(PageEntries - 1)
  BY Halves
<1>3. a <= b
  BY TablesOrdered
<1> HIDE DEF a, b
<1>4. b > a + 1 => PageEntries * b >= PageEntries * a + PageEntries + PageEntries
  <2> SUFFICES ASSUME b > a + 1
               PROVE PageEntries * b >= PageEntries * a + PageEntries + PageEntries
    OBVIOUS
  <2>1. PageEntries * b >= PageEntries * (a + 1) + PageEntries
    BY <1>1, <1>2, ProductOrdered
  <2>2. PageEntries * (a + 1) = PageEntries * a + PageEntries
    BY <1>1, <1>2
  <2> QED BY <2>1, <2>2
<1>5. PageEntries * b \in Nat /\ PageEntries * a \in Nat
  BY <1>1, <1>2
<1>6. b <= a + 1
  BY <1>1, <1>2, <1>4, <1>5
<1> QED BY <1>2, <1>3, <1>6 DEF a, b

First == Min(HeapPages)

(* The tables that paging_init has made, and where: behind the bitmap and  *)
(* the directory, one after the other.                                     *)
Tables == IF page = 0 THEN 0 ELSE Table(page - 1) + 1
TableAt(k) == First + 3 + k

MemoryOK == mem \in [HeapPages -> [0..(PageEntries - 1) -> Nat]]

Cold == heap = {} /\ mem = [p \in HeapPages |-> Empty]

(* The pages below "page" are mapped to themselves.                        *)
MappedOK ==
  /\ page \in 0..(LastPage + 1) /\ dir = First + 1
  /\ First..(First + 2 + Tables) \subseteq heap
  /\ \A v \in 0..LastPage :
       IF Table(v) < Tables
       THEN /\ mem[dir + 1][Table(v)] = TableAt(Table(v))
            /\ mem[dir][Table(v)] = TableAt(Table(v)) + 1
            /\ mem[TableAt(Table(v))][Entry(v)] = IF v < page THEN v + 1 ELSE 0
       ELSE mem[dir + 1][Table(v)] = 0

MappingOK ==
  /\ MappedOK
  /\ heap = First..(First + 2 + Tables) /\ frames = 0..(page - 1)
  /\ \A p \in HeapPages \ heap : mem[p] = Empty

LEMMA HeapArea ==
  \E last \in Nat : /\ HeapPages = First..last /\ First \in Nat \ {0}
                    /\ last - First >= 3 + Table(LastPage)
<1>1. PICK f, l \in HeapPages : HeapPages = f..l /\ l - f >= 3 + Table(LastPage)
  BY HeapAssumption DEF Table
<1>2. f \in Nat \ {0} /\ l \in Nat /\ HeapPages \subseteq Nat
  BY PagingAssumption
<1>3. First = f
  BY <1>1, <1>2, MinIs DEF First
<1> QED BY <1>1, <1>2, <1>3

LEMMA TableFits ==
  \A v \in 0..LastPage : Table(v) \in 0..(PageEntries - 1) /\ Table(v) <= Table(LastPage)
<1> TAKE v \in 0..LastPage
<1>1. PageEntries \in Nat \ {0} /\ LastPage \in Nat /\ LastPage < PageEntries * PageEntries
  BY PagingAssumption
<1>2. Table(v) <= Table(LastPage)
  BY <1>1, TablesOrdered
<1>3. v < PageEntries * PageEntries
  <2>1. PageEntries * PageEntries \in Nat
    BY <1>1
  <2> QED BY <1>1, <2>1
<1>4. v \div PageEntries < PageEntries
  BY <1>1, <1>3, QuotientBelow
<1>5. Table(v) < PageEntries
  BY <1>4 DEF Table
<1>6. Table(v) \in Nat
  <2>1. v \in Nat
    BY <1>1
  <2> QED BY <2>1, Halves
<1>7. Table(v) \in 0..(PageEntries - 1)
  BY <1>1, <1>5, <1>6
<1> QED BY <1>2, <1>7

LEMMA PagesAreNumbers == HeapPages \in SUBSET Nat /\ 0 \notin HeapPages
BY PagingAssumption

(* kmalloc of one page.                                                    *)
LEMMA RoomForOne == Room(1) = HeapPages \ heap
<1>1. \A p \in HeapPages : p..(p + 1 - 1) = {p}
  <2> TAKE p \in HeapPages
  <2>1. p \in Nat
    BY PagingAssumption
  <2> QED BY <2>1
<1> QED BY <1>1 DEF Room

LEMMA KmallocGives ==
  ASSUME NEW m \in HeapPages \ heap, \A p \in HeapPages \ heap : m <= p
  PROVE  Kmalloc(1) = m
<1>1. Room(1) \in SUBSET Nat /\ m \in Room(1) /\ \A p \in Room(1) : m <= p
  BY RoomForOne, PagesAreNumbers
<1> QED BY <1>1, MinIs DEF Kmalloc

LEMMA KmallocIsFree ==
  ASSUME HeapPages \ heap # {}
  PROVE  Kmalloc(1) \in HeapPages \ heap
<1>1. Room(1) \in SUBSET Nat /\ Room(1) # {}
  BY RoomForOne, PagesAreNumbers
<1> QED BY <1>1, MinIn, RoomForOne DEF Kmalloc

-----------------------------------------------------------------------------
LEMMA DirectoryIsMade ==
  ASSUME Cold, AllocateDirectory
  PROVE  MemoryOK' /\ MappingOK'
<1>1. PICK last \in Nat : /\ HeapPages = First..last /\ First \in Nat \ {0}
                          /\ last - First >= 3 + Table(LastPage)
  BY HeapArea
<1>2. Table(LastPage) \in Nat /\ PageEntries \in Nat \ {0} /\ LastPage \in Nat
  BY Halves, PagingAssumption
<1>3. Kmalloc(1) = First
  BY <1>1, <1>2, KmallocGives DEF Cold
<1> DEFINE P == {p \in Room(2) : p # First /\ p + 1 # First}
<1>4. P \in SUBSET Nat /\ First + 1 \in P /\ \A p \in P : First + 1 <= p
  <2>1. P \subseteq First..last /\ P \in SUBSET Nat
    BY <1>1 DEF Room
  <2>2. \A p \in P : First + 1 <= p
    BY <1>1, <2>1
  <2>3. First + 1 \in Room(2)
    <3>1. (First + 1)..(First + 1 + 2 - 1) \subseteq HeapPages
      BY <1>1, <1>2
    <3> QED BY <1>1, <1>2, <3>1 DEF Room, Cold
  <2>4. First + 1 \in P
    BY <1>1, <2>3
  <2> QED BY <2>1, <2>2, <2>4
<1>5. Min(P) = First + 1
  <2> HIDE DEF P
  <2>1. \A S \in SUBSET Nat : \A m \in S : (\A k \in S : m <= k) => Min(S) = m
    BY MinIs
  <2> QED BY <1>4, <2>1
<1>6. /\ heap' = {First, First + 1, First + 1 + 1}
      /\ mem' = [mem EXCEPT ![First] = Empty]
      /\ dir' = First + 1 /\ frames' = {} /\ page' = 0
  BY <1>3, <1>5 DEF AllocateDirectory, Cold
<1>7. mem' = [p \in HeapPages |-> Empty]
  BY <1>1, <1>6 DEF Cold
<1>8. MemoryOK'
  BY <1>2, <1>7 DEF MemoryOK, Empty
<1>9. Tables' = 0
  BY <1>6 DEF Tables
<1>10. heap' = First..(First + 2 + Tables')
  BY <1>1, <1>6, <1>9
<1>11. ASSUME NEW v \in 0..LastPage
       PROVE  ~(Table(v) < Tables') /\ mem'[dir' + 1][Table(v)] = 0
  <2>1. Table(v) \in 0..(PageEntries - 1)
    BY TableFits
  <2>2. dir' + 1 \in HeapPages
    BY <1>1, <1>2, <1>6
  <2> QED BY <1>2, <1>7, <1>9, <2>1, <2>2 DEF Empty
<1>12. MappedOK'
  BY <1>2, <1>6, <1>9, <1>10, <1>11 DEF MappedOK
<1>13. frames' = 0..(page' - 1)
  BY <1>6
<1> QED BY <1>7, <1>8, <1>10, <1>12, <1>13 DEF MappingOK

LEMMA PageIsMapped ==
  ASSUME MemoryOK, MappingOK, MapPage
  PROVE  MemoryOK' /\ MappingOK'
<1> DEFINE T == Table(page)
           n == Tables
           new == TableAt(T)
<1>1. PICK last \in Nat : /\ HeapPages = First..last /\ First \in Nat \ {0}
                          /\ last - First >= 3 + Table(LastPage)
  BY HeapArea
<1>2. /\ page \in 0..LastPage /\ page' = page + 1 /\ dir' = dir /\ dir = First + 1
      /\ LastPage \in Nat /\ NFrames \in Nat /\ LastPage < NFrames
      /\ PageEntries \in Nat \ {0} /\ Table(LastPage) \in Nat
  <2>1. /\ LastPage \in Nat /\ NFrames \in Nat /\ LastPage < NFrames
        /\ PageEntries \in Nat \ {0}
    BY PagingAssumption
  <2>2. Table(LastPage) \in Nat
    BY <2>1, Halves
  <2>3. page <= LastPage /\ page' = page + 1 /\ dir' = dir
    BY DEF MapPage
  <2>4. page \in 0..(LastPage + 1) /\ dir = First + 1
    BY DEF MappingOK, MappedOK
  <2>5. page \in 0..LastPage
    BY <2>1, <2>3, <2>4
  <2> QED BY <2>1, <2>2, <2>3, <2>4, <2>5
<1>3. T \in 0..(PageEntries - 1) /\ T <= Table(LastPage) /\ T \in Nat
  BY <1>2, TableFits
<1>4. FirstFrame = page
  <2> DEFINE S == 0..(NFrames - 1) \ frames
  <2>1. S \in SUBSET Nat /\ page \in S /\ \A k \in S : page <= k
    BY <1>2 DEF MappingOK
  <2> QED BY <2>1, MinIs DEF FirstFrame
<1>5. Tables' = T + 1
  <2>1. page' # 0 /\ page' - 1 = page
    BY <1>2
  <2> QED BY <2>1 DEF Tables
<1>6. n \in Nat /\ T \in {n - 1, n}
  <2>1. CASE page = 0
    <3>1. Table(0) = 0
      BY <1>2 DEF Table
    <3> QED BY <2>1, <3>1 DEF Tables
  <2>2. CASE page # 0
    <3>1. page - 1 \in Nat /\ (page - 1) + 1 = page
      BY <1>2, <2>2
    <3>2. Table(page - 1) \in Nat /\ T \in {Table(page - 1), Table(page - 1) + 1}
      BY <3>1, NextTable, Halves
    <3> QED BY <2>2, <3>2 DEF Tables
  <2> QED BY <2>1, <2>2
<1>7. ASSUME NEW w \in 0..LastPage
      PROVE  /\ Table(w) \in 0..(PageEntries - 1) /\ Entry(w) \in 0..(PageEntries - 1)
             /\ w < page => Table(w) < n
  <2>1. Table(w) \in 0..(PageEntries - 1) /\ Entry(w) \in 0..(PageEntries - 1)
    BY <1>2, TableFits, Halves
  <2>2. ASSUME w < page PROVE Table(w) < n
    <3>1. w \in Nat /\ page - 1 \in Nat /\ w <= page - 1 /\ page # 0
      BY <1>2, <2>2
    <3>2. Table(w) <= Table(page - 1) /\ Table(w) \in Nat /\ Table(page - 1) \in Nat
      BY <3>1, TablesOrdered, Halves
    <3> QED BY <3>1, <3>2 DEF Tables
  <2> QED BY <2>1, <2>2
<1>8. /\ new \in HeapPages /\ dir \in HeapPages /\ dir + 1 \in HeapPages
      /\ new \notin {dir, dir + 1} /\ dir # dir + 1 /\ new \in Nat \ {0}
      /\ heap = First..(First + 2 + n)
  BY <1>1, <1>2, <1>3 DEF TableAt, MappingOK
<1> HIDE DEF T, n
<1> DEFINE Becomes(p, i) ==
             IF p = new /\ i = Entry(page) THEN page + 1
             ELSE IF p = dir + 1 /\ i = T THEN new
             ELSE IF p = dir /\ i = T THEN new + 1
             ELSE mem[p][i]
<1>9. /\ mem' \in [HeapPages -> [0..(PageEntries - 1) -> Nat]]
      /\ \A p \in HeapPages, i \in 0..(PageEntries - 1) : mem'[p][i] = Becomes(p, i)
      /\ heap' = First..(First + 2 + (T + 1))
      /\ frames' = frames \cup {page}
  <2>0. /\ Entry(page) \in 0..(PageEntries - 1) /\ page + 1 \in Nat /\ new + 1 \in Nat
        /\ mem \in [HeapPages -> [0..(PageEntries - 1) -> Nat]]
        /\ new = TableAt(T) /\ PageEntries \in Nat \ {0}
    <3>1. page + 1 \in Nat /\ new + 1 \in Nat
      BY <1>2, <1>8
    <3> QED BY <1>2, <1>7, <3>1 DEF MemoryOK
  <2> HIDE DEF new
  <2>1. CASE T < n
    <3>1. /\ mem[dir + 1][T] = new /\ mem[dir][T] = new + 1
          /\ mem[new][Entry(page)] = 0
      <4>1. Table(page) < Tables /\ page \in 0..LastPage /\ ~(page < page)
        BY <1>2, <2>1 DEF T, n
      <4>2. /\ mem[dir + 1][Table(page)] = TableAt(Table(page))
            /\ mem[dir][Table(page)] = TableAt(Table(page)) + 1
            /\ mem[TableAt(Table(page))][Entry(page)] = IF page < page THEN page + 1 ELSE 0
        BY <4>1 DEF MappingOK, MappedOK
      <4> QED BY <4>1, <4>2, <2>0 DEF T
    <3>2. GetPage(page) = [table |-> new, mem |-> mem, heap |-> heap]
      BY <1>8, <3>1 DEF GetPage, T
    <3>3. /\ mem' = [mem EXCEPT ![new][Entry(page)] = page + 1]
          /\ frames' = frames \cup {page} /\ heap' = heap
      BY <1>4, <3>1, <3>2 DEF MapPage, AllocPage
    <3>4. heap' = First..(First + 2 + (T + 1))
      BY <1>3, <1>6, <1>8, <2>1, <3>3
    <3>5. mem' \in [HeapPages -> [0..(PageEntries - 1) -> Nat]]
      BY <1>8, <2>0, <3>3
    <3>6. ASSUME NEW p \in HeapPages, NEW i \in 0..(PageEntries - 1)
          PROVE  mem'[p][i] = Becomes(p, i)
      BY <1>8, <2>0, <3>1, <3>3
    <3> QED BY <3>3, <3>4, <3>5, <3>6
  <2>2. CASE T = n
    <3>1. mem[dir + 1][T] = 0
      <4>1. ~(T < n)
        BY <1>6, <2>2
      <4> QED BY <1>2, <4>1 DEF MappingOK, MappedOK, T, n
    <3>2. new \in HeapPages \ heap /\ \A p \in HeapPages \ heap : new <= p
      <4>1. n \in Nat /\ new = First + 3 + n
        BY <1>6, <2>0, <2>2 DEF TableAt
      <4>2. \A p \in HeapPages \ heap : p \in Nat /\ p > First + 2 + n
        BY <1>1, <1>8, <4>1
      <4> QED BY <1>1, <1>8, <4>1, <4>2
    <3>3. Kmalloc(1) = new
      BY <3>2, KmallocGives
    <3> DEFINE got == [mem EXCEPT ![dir + 1][T] = new, ![dir][T] = new + 1]
    <3>4. GetPage(page) = [table |-> new, heap |-> heap \cup {new}, mem |-> got]
      BY <3>1, <3>3 DEF GetPage, T
    <3>5. mem[new] = Empty
      BY <3>2 DEF MappingOK
    <3>6. /\ got \in [HeapPages -> [0..(PageEntries - 1) -> Nat]]
          /\ got[new] = mem[new]
      BY <1>3, <1>8, <2>0
    <3>7. got[new][Entry(page)] = 0
      BY <2>0, <3>5, <3>6 DEF Empty
    <3>8. ASSUME NEW p \in HeapPages, NEW i \in 0..(PageEntries - 1)
          PROVE  got[p][i] = IF p = dir + 1 /\ i = T THEN new
                             ELSE IF p = dir /\ i = T THEN new + 1
                             ELSE mem[p][i]
      BY <1>3, <1>8, <2>0
    <3> HIDE DEF got
    <3>9. /\ mem' = [got EXCEPT ![new][Entry(page)] = page + 1]
          /\ frames' = frames \cup {page} /\ heap' = heap \cup {new}
      BY <1>4, <3>4, <3>7 DEF MapPage, AllocPage
    <3>10. heap' = First..(First + 2 + (T + 1))
      <4>1. n \in Nat /\ First \in Nat /\ new = First + 3 + n
        BY <1>1, <1>6, <2>0, <2>2 DEF TableAt
      <4> QED BY <1>8, <2>2, <3>9, <4>1
    <3>11. mem' \in [HeapPages -> [0..(PageEntries - 1) -> Nat]]
      BY <1>8, <2>0, <3>6, <3>9
    <3>12. ASSUME NEW p \in HeapPages, NEW i \in 0..(PageEntries - 1)
           PROVE  mem'[p][i] = Becomes(p, i)
      <4>1. mem'[p][i] = IF p = new /\ i = Entry(page) THEN page + 1 ELSE got[p][i]
        BY <1>8, <2>0, <3>6, <3>9
      <4> QED BY <3>8, <4>1
    <3> QED BY <3>9, <3>10, <3>11, <3>12
  <2> QED BY <1>3, <1>6, <2>1, <2>2
<1>10. ASSUME NEW w \in 0..LastPage
       PROVE  IF Table(w) < T + 1
              THEN /\ mem'[dir + 1][Table(w)] = TableAt(Table(w))
                   /\ mem'[dir][Table(w)] = TableAt(Table(w)) + 1
                   /\ mem'[TableAt(Table(w))][Entry(w)] =
                         IF w < page' THEN w + 1 ELSE 0
              ELSE mem'[dir + 1][Table(w)] = 0
  <2> DEFINE A == Table(w)
  <2>1. /\ A \in 0..(PageEntries - 1) /\ Entry(w) \in 0..(PageEntries - 1) /\ A \in Nat
        /\ w < page => A < n
        /\ A = T /\ Entry(w) = Entry(page) => w = page
    <3>1. A = T /\ Entry(w) = Entry(page) => w = page
      BY <1>2, OneEntry DEF T
    <3> QED BY <1>2, <1>7, <3>1
  <2>2. /\ A < n => /\ mem[dir + 1][A] = TableAt(A) /\ mem[dir][A] = TableAt(A) + 1
                    /\ mem[TableAt(A)][Entry(w)] = IF w < page THEN w + 1 ELSE 0
        /\ ~(A < n) => mem[dir + 1][A] = 0
    BY DEF MappingOK, MappedOK, n
  <2> HIDE DEF A
  <2>3. CASE A < T + 1
    <3>1. /\ TableAt(A) \in HeapPages /\ TableAt(A) \notin {dir, dir + 1}
          /\ TableAt(A) = new <=> A = T
      BY <1>1, <1>2, <1>3, <2>1, <2>3 DEF TableAt
    <3>2. mem'[dir + 1][A] = TableAt(A) /\ mem'[dir][A] = TableAt(A) + 1
      BY <1>3, <1>6, <1>8, <1>9, <2>1, <2>2, <2>3
    <3>3. mem'[TableAt(A)][Entry(w)] =
            IF TableAt(A) = new /\ Entry(w) = Entry(page) THEN page + 1
            ELSE mem[TableAt(A)][Entry(w)]
      BY <1>9, <2>1, <3>1
    <3>4. CASE w = page
      BY <1>2, <3>2, <3>3, <2>3, <3>4 DEF A, T
    <3>5. CASE w # page
      <4>1. mem'[TableAt(A)][Entry(w)] = mem[TableAt(A)][Entry(w)]
        BY <2>1, <3>1, <3>3, <3>5
      <4>2. w < page' <=> w < page
        BY <1>2, <3>5
      <4>3. CASE A < n
        BY <2>2, <2>3, <3>2, <4>1, <4>2, <4>3 DEF A
      <4>4. CASE ~(A < n)
        <5>1. A = T /\ T = n
          BY <1>3, <1>6, <2>1, <2>3, <4>4
        <5>2. new \in HeapPages \ heap
          <6>1. First \in Nat /\ T \in Nat /\ new = First + 3 + T
            BY <1>1, <1>3 DEF TableAt
          <6> QED BY <1>8, <5>1, <6>1
        <5>3. mem[TableAt(A)][Entry(w)] = 0
          BY <2>1, <5>1, <5>2 DEF MappingOK, Empty
        <5> QED BY <2>1, <2>3, <3>2, <4>1, <4>2, <4>4, <5>3 DEF A
      <4> QED BY <4>3, <4>4
    <3> QED BY <3>4, <3>5
  <2>4. CASE ~(A < T + 1)
    <3>1. ~(A < n) /\ A # T
      BY <1>3, <1>6, <2>1, <2>4
    <3>2. mem'[dir + 1][A] = mem[dir + 1][A]
      BY <1>8, <1>9, <2>1, <3>1
    <3> QED BY <2>2, <2>4, <3>1, <3>2 DEF A
  <2> QED BY <2>3, <2>4 DEF A
<1>11. \A p \in HeapPages \ heap' : mem'[p] = Empty
  <2> TAKE p \in HeapPages \ heap'
  <2>1. p \notin heap /\ p \notin {new, dir, dir + 1}
    <3>1. First \in Nat /\ T \in Nat /\ n \in Nat /\ new = First + 3 + T /\ p \in Nat
      BY <1>1, <1>3, <1>6, PagesAreNumbers DEF TableAt
    <3>2. heap' = First..(First + 2 + (T + 1)) /\ dir = First + 1
      BY <1>2, <1>9
    <3>3. p \notin First..(First + 2 + (T + 1))
      BY <3>2
    <3>4. p \notin First..(First + 2 + n) /\ n <= T + 1
      BY <1>6, <3>1, <3>3
    <3>5. p \notin {new, dir, dir + 1}
      <4> HIDE DEF new
      <4> QED BY <3>1, <3>2, <3>3
    <3> QED BY <1>8, <3>4, <3>5
  <2>2. mem[p] = Empty
    BY <2>1 DEF MappingOK
  <2> HIDE DEF new
  <2>3. \A i \in 0..(PageEntries - 1) : mem'[p][i] = Empty[i]
    BY <1>9, <2>1, <2>2
  <2>4. mem'[p] \in [0..(PageEntries - 1) -> Nat]
    BY <1>9
  <2> QED BY <2>3, <2>4 DEF Empty
<1>12. MemoryOK'
  BY <1>9 DEF MemoryOK
<1>13. MappedOK'
  BY <1>2, <1>5, <1>9, <1>10 DEF MappedOK
<1>14. frames' = 0..(page' - 1)
  BY <1>2, <1>9 DEF MappingOK
<1> QED BY <1>5, <1>9, <1>11, <1>12, <1>13, <1>14 DEF MappingOK

(* A task's page is none of the tables.                                    *)
LEMMA TasksKeepAway ==
  ASSUME MemoryOK, MappedOK, page = LastPage + 1, TaskWrites
  PROVE  MemoryOK' /\ MappedOK' /\ page' = LastPage + 1
<1> DEFINE got == Kmalloc(1)
<1>1. PICK last \in Nat : /\ HeapPages = First..last /\ First \in Nat \ {0}
                          /\ last - First >= 3 + Table(LastPage)
  BY HeapArea
<1>2. /\ got \in HeapPages \ heap
      /\ heap' = heap \cup {got}
      /\ mem' = [mem EXCEPT ![got] = [i \in DOMAIN Empty |-> Junk]]
      /\ UNCHANGED <<dir, page>>
  BY RoomForOne, KmallocIsFree DEF TaskWrites
<1> HIDE DEF got
<1>3. MemoryOK'
  BY <1>2, PagingAssumption DEF MemoryOK, Empty
<1>4. \A p \in heap : p \in HeapPages => mem'[p] = mem[p]
  BY <1>2 DEF MemoryOK
<1>5. Tables' = Tables /\ Tables = Table(LastPage) + 1 /\ Table(LastPage) \in Nat
  <2>1. LastPage \in Nat /\ page # 0 /\ page - 1 = LastPage
    BY PagingAssumption
  <2> QED BY <1>2, <2>1, Halves DEF Tables
<1>6. /\ dir \in heap \cap HeapPages /\ dir + 1 \in heap \cap HeapPages
      /\ \A v \in 0..LastPage : TableAt(Table(v)) \in heap \cap HeapPages
  <2>1. \A v \in 0..LastPage : Table(v) \in Nat /\ Table(v) <= Table(LastPage)
    BY TableFits
  <2>2. First..(First + 3 + Table(LastPage)) \subseteq heap \cap HeapPages
    <3>1. First + 2 + Tables = First + 3 + Table(LastPage)
      BY <1>1, <1>5
    <3> QED BY <1>1, <1>5, <3>1 DEF MappedOK
  <2>3. /\ dir = First + 1
        /\ {First + 1, First + 1 + 1} \subseteq First..(First + 3 + Table(LastPage))
    BY <1>1, <1>5 DEF MappedOK
  <2>4. \A v \in 0..LastPage :
          First + 3 + Table(v) \in First..(First + 3 + Table(LastPage))
    BY <1>1, <1>5, <2>1
  <2> QED BY <2>2, <2>3, <2>4 DEF TableAt
<1>7. MappedOK'
  BY <1>2, <1>4, <1>5, <1>6 DEF MappedOK
<1> QED BY <1>2, <1>3, <1>7

LEMMA MappedTranslates ==
  ASSUME MappedOK, page = LastPage + 1
  PROVE  \A v \in 0..LastPage : Translated(v) = v
<1> TAKE v \in 0..LastPage
<1>1. PICK last \in Nat : /\ HeapPages = First..last /\ First \in Nat \ {0}
                          /\ last - First >= 3 + Table(LastPage)
  BY HeapArea
<1>2. /\ Tables = Table(LastPage) + 1 /\ Table(LastPage) \in Nat
      /\ Table(v) \in Nat /\ Table(v) <= Table(LastPage)
  <2>1. LastPage \in Nat /\ page # 0 /\ page - 1 = LastPage
    BY PagingAssumption
  <2>2. Table(LastPage) \in Nat /\ Table(v) \in Nat /\ Table(v) <= Table(LastPage)
    BY <2>1, Halves, TableFits
  <2> QED BY <2>1, <2>2 DEF Tables
<1>3. TableAt(Table(v)) \in HeapPages /\ TableAt(Table(v)) \in Nat
  BY <1>1, <1>2 DEF TableAt
<1>4. /\ mem[dir][Table(v)] = TableAt(Table(v)) + 1
      /\ mem[TableAt(Table(v))][Entry(v)] = v + 1
  BY <1>2, PagingAssumption DEF MappedOK
<1>5. mem[dir][Table(v)] - 1 = TableAt(Table(v))
  BY <1>3, <1>4
<1> QED BY <1>3, <1>4, <1>5 DEF Translated

-----------------------------------------------------------------------------
(* From a cold start on: the heap's memory is clear until paging_init.     *)
PagingOK ==
  ~restarted =>
    /\ MemoryOK
    /\ step \notin {"map", "up"} => Cold /\ ~page_enabled
    /\ step = "map" => MappingOK /\ ~page_enabled
    /\ step = "up" => MappedOK /\ page = LastPage + 1

LEMMA InitPaging == Init => PagingOK
<1> SUFFICES ASSUME Init PROVE PagingOK
  OBVIOUS
<1>1. Empty \in [0..(PageEntries - 1) -> Nat]
  BY DEF Empty
<1>2. MemoryOK /\ Cold /\ ~page_enabled
  BY <1>1 DEF Init, PagingInit, MemoryOK, Cold
<1>3. step \notin {"map", "up"}
  BY DEF Init
<1> QED BY <1>2, <1>3 DEF PagingOK

LEMMA PagingSame ==
  ASSUME PagingOK, UNCHANGED paging,
         step' = step \/ {step, step'} \cap {"map", "up"} = {}
  PROVE  PagingOK'
<1>1. MemoryOK' <=> MemoryOK
  BY DEF paging, MemoryOK
<1>2. MappedOK' <=> MappedOK
  BY DEF paging, MappedOK, Tables
<1>3. MappingOK' <=> MappingOK
  BY <1>2 DEF paging, MappingOK, Tables
<1>4. Cold' <=> Cold
  BY DEF paging, Cold
<1> QED BY <1>1, <1>2, <1>3, <1>4 DEF PagingOK, paging

LEMMA PagingStep == PagingOK /\ [Next]_vars => PagingOK'
<1> SUFFICES ASSUME PagingOK, [Next]_vars PROVE PagingOK'
  OBVIOUS
<1>1. CASE EntryClears \/ EntryPrints \/ InstallIsr \/ EnableInterrupts \/ PitInit \/ KeyboardInit
  BY <1>1, PagingSame
     DEF EntryClears, EntryPrints, InstallIsr, EnableInterrupts, PitInit, KeyboardInit,
         At
<1>2. CASE KheapInit
  <2>1. /\ step = "kheap_init" /\ step' = "paging_init" /\ heap' = {}
        /\ UNCHANGED <<mem, frames, dir, page, page_enabled, restarted>>
    BY <1>2 DEF KheapInit, ClearHeap, At
  <2>2. ~restarted => MemoryOK' /\ Cold' /\ ~page_enabled'
    BY <2>1 DEF PagingOK, MemoryOK, Cold
  <2> QED BY <2>1, <2>2 DEF PagingOK
<1>3. CASE PagingInits
  <2>1. CASE At("paging_init", "map") /\ AllocateDirectory
    <3>1. /\ step = "paging_init" /\ step' = "map"
          /\ UNCHANGED <<page_enabled, restarted>>
      BY <2>1 DEF At, AllocateDirectory
    <3>2. ~restarted => MemoryOK' /\ MappingOK'
      BY <2>1, <3>1, DirectoryIsMade DEF PagingOK
    <3> QED BY <3>1, <3>2 DEF PagingOK
  <2>2. CASE At("map", "map") /\ MapPage
    <3>1. step = "map" /\ step' = "map" /\ UNCHANGED <<page_enabled, restarted>>
      BY <2>2 DEF At, MapPage
    <3>2. ~restarted => MemoryOK' /\ MappingOK'
      BY <2>2, <3>1, PageIsMapped DEF PagingOK
    <3> QED BY <3>1, <3>2 DEF PagingOK
  <2>3. CASE At("map", "up") /\ EnablePaging
    <3>1. /\ step = "map" /\ step' = "up" /\ page > LastPage
          /\ UNCHANGED <<mem, heap, frames, dir, page, restarted>>
      BY <2>3 DEF At, EnablePaging
    <3>2. ~restarted => MemoryOK' /\ MappedOK'
      BY <3>1 DEF PagingOK, MemoryOK, MappingOK, MappedOK, Tables
    <3>3. ~restarted => page = LastPage + 1
      BY <3>1, PagingAssumption DEF PagingOK, MappingOK, MappedOK
    <3> QED BY <3>1, <3>2, <3>3 DEF PagingOK
  <2> QED BY <1>3, <2>1, <2>2, <2>3 DEF PagingInits
<1>4. CASE \/ \E k \in Keys : KeyPressed(k)
           \/ IrqHandler
           \/ \E t \in Printers \ {Entry0}, message \in Texts : TaskPrints(t, message)
           \/ \E t \in Printers : Continues(t)
  BY <1>4, PagingSame DEF KeyPressed, IrqHandler, TaskPrints, Continues
<1>5. CASE TaskTakesPage
  <2>1. step = "up" /\ step' = step /\ TaskWrites /\ restarted' = restarted
    BY <1>5 DEF TaskTakesPage, TaskWrites
  <2>2. ~restarted => MemoryOK' /\ MappedOK' /\ page' = LastPage + 1
    BY <2>1, TasksKeepAway DEF PagingOK
  <2> QED BY <2>1, <2>2 DEF PagingOK
<1>6. CASE Restart
  BY <1>6 DEF Restart, KeepMemory, PagingOK
<1>7. CASE UNCHANGED vars
  BY <1>7, PagingSame DEF vars
<1> QED BY <1>1, <1>2, <1>3, <1>4, <1>5, <1>6, <1>7 DEF Next

(* Once paging is on, and until a restart, every page is where it was.     *)
THEOREM PagesStay == Spec => []TranslationHolds
<1>1. PagingOK => TranslationHolds
  BY MappedTranslates DEF PagingOK, TranslationHolds
<1> QED BY InitPaging, PagingStep, <1>1, PTL DEF Spec

-----------------------------------------------------------------------------
(* Past keyboard_init the keyboard has its handler and keeps it, and a     *)
(* scan code that has come since has its interrupt latched: isr_install,   *)
(* which would forget it, lies before.                                     *)
HeardOK ==
  /\ step \notin BeforeKeyboard => "IRQ1" \in handlers
  /\ waiting # NoKey /\ ~early => irq1 /\ step \notin BeforeKeyboard

LEMMA HeardStep == HeardOK /\ [Next]_vars => HeardOK'
<1> SUFFICES ASSUME HeardOK, [Next]_vars PROVE HeardOK'
  OBVIOUS
<1>1. CASE EntryClears \/ EntryPrints \/ InstallIsr \/ EnableInterrupts \/ PitInit
  <2>1. /\ step \in BeforeKeyboard /\ step' \in BeforeKeyboard
        /\ UNCHANGED <<waiting, early>>
    BY <1>1 DEF EntryClears, EntryPrints, InstallIsr, EnableInterrupts, PitInit, At,
                keyboard, BeforeKeyboard
  <2> QED BY <2>1 DEF HeardOK, BeforeKeyboard
<1>2. CASE KeyboardInit
  <2>1. /\ step \in BeforeKeyboard /\ "IRQ1" \in handlers'
        /\ UNCHANGED <<waiting, early, irq1>>
    BY <1>2 DEF KeyboardInit, At, Register, keyboard, BeforeKeyboard
  <2> QED BY <2>1 DEF HeardOK
<1>3. CASE KheapInit \/ PagingInits
  <2>1. /\ step \notin BeforeKeyboard /\ step' \notin BeforeKeyboard
        /\ handlers \subseteq handlers' /\ UNCHANGED <<waiting, early, irq1>>
    BY <1>3 DEF KheapInit, PagingInits, At, Register, keyboard, BeforeKeyboard
  <2> QED BY <2>1 DEF HeardOK
<1>4. CASE \E k \in Keys : KeyPressed(k)
  BY <1>4 DEF KeyPressed, HeardOK, BeforeKeyboard
<1>5. CASE IrqHandler
  <2>1. /\ UNCHANGED <<step, handlers, early>>
        /\ \/ waiting' = NoKey
           \/ "IRQ1" \notin handlers /\ waiting' = waiting
    <3>1. CASE "IRQ1" \in handlers
      BY <1>5, <3>1 DEF IrqHandler, KeyboardCallback
    <3>2. CASE "IRQ1" \notin handlers
      BY <1>5, <3>2 DEF IrqHandler, screen
    <3> QED BY <3>1, <3>2
  <2> QED BY <2>1 DEF HeardOK, BeforeKeyboard
<1>6. CASE \E t \in Printers, message \in Texts : TaskPrints(t, message)
  BY <1>6 DEF TaskPrints, keyboard, HeardOK, BeforeKeyboard
<1>7. CASE (\E t \in Printers : Continues(t)) \/ TaskTakesPage \/ UNCHANGED vars
  BY <1>7 DEF Continues, TaskTakesPage, vars, keyboard, HeardOK, BeforeKeyboard
<1>8. CASE Restart
  BY <1>8 DEF Restart, HeardOK, BeforeKeyboard
<1> QED BY <1>1, <1>2, <1>3, <1>4, <1>5, <1>6, <1>7, <1>8 DEF Next

(* A scan code that comes past keyboard_init is read: until it is, its     *)
(* interrupt is to come and there is a handler for it.                     *)
THEOREM KeysAreHeard == Spec => []KeyIsHeard
<1>1. Init => HeardOK
  BY DEF Init, HeardOK, BeforeKeyboard
<1>2. HeardOK => KeyIsHeard
  BY DEF HeardOK, KeyIsHeard
<1> QED BY <1>1, <1>2, HeardStep, PTL DEF Spec

-----------------------------------------------------------------------------
(* One character, on the screen and on the roll.                           *)
ShowChar(s, char) ==
  LET next == [m |-> Put(s.m, char, s.at), at |-> After(char, s.at)]
  IN  IF Beyond(next.at) THEN [m |-> Scrolled(next.m), at |-> LastRow] ELSE next
RollChar(r, char) ==
  [cell |-> [i \in DOMAIN r.cell \cup {r.at} |->
               IF i = r.at /\ char # NewLine THEN char
               ELSE IF i \in DOMAIN r.cell THEN r.cell[i] ELSE Blank],
   at |-> After(char, r.at)]

(* Shown and Roll are folds: what FoldLeft makes of a text is defined by a *)
(* function on the sets of its positions that takes the last one away.     *)
Char(what, s, char) == IF what = "show" THEN ShowChar(s, char) ELSE RollChar(s, char)

IsFold(g, what, base, message, n) ==
  g = [s \in SUBSET (1..n) |->
         IF s = {} THEN base ELSE Char(what, g[s \ {Max(s)}], message[Max(s)])]

LEMMA FoldExists ==
  ASSUME NEW what, NEW base, NEW message
  PROVE  \A n \in Nat : \E g : IsFold(g, what, base, message, n)
<1> DEFINE S == {n \in Nat : \E g : IsFold(g, what, base, message, n)}
<1>1. 0 \in S
  <2> DEFINE g == [s \in SUBSET (1..0) |-> base]
  <2>1. SUBSET (1..0) = {{}}
    OBVIOUS
  <2>2. IsFold(g, what, base, message, 0)
    BY <2>1 DEF IsFold
  <2> QED BY <2>2
<1>2. ASSUME NEW n \in Nat, n \in S PROVE n + 1 \in S
  <2>1. PICK g : IsFold(g, what, base, message, n)
    BY <1>2
  <2> DEFINE h == [s \in SUBSET (1..(n + 1)) |->
                     IF n + 1 \in s THEN Char(what, g[s \ {n + 1}], message[n + 1])
                     ELSE g[s]]
             G(s) == IF s = {} THEN base
                     ELSE Char(what, g[s \ {Max(s)}], message[Max(s)])
             H(s) == IF s = {} THEN base
                     ELSE Char(what, h[s \ {Max(s)}], message[Max(s)])
  <2>2. \A s \in SUBSET (1..n) : g[s] = G(s)
    BY <2>1 DEF IsFold
  <2>3. ASSUME NEW s \in SUBSET (1..(n + 1)) PROVE h[s] = H(s)
    <3>1. CASE n + 1 \in s
      <4>1. s \in SUBSET Nat /\ \A k \in s : k <= n + 1
        OBVIOUS
      <4>2. Max(s) = n + 1
        BY <3>1, <4>1, MaxIs
      <4>3. s \ {n + 1} \in SUBSET (1..(n + 1)) /\ n + 1 \notin s \ {n + 1}
        OBVIOUS
      <4>4. h[s \ {n + 1}] = g[s \ {n + 1}]
        BY <4>3
      <4>5. h[s] = Char(what, g[s \ {n + 1}], message[n + 1])
        BY <3>1
      <4> HIDE DEF h
      <4> QED BY <3>1, <4>2, <4>4, <4>5
    <3>2. CASE n + 1 \notin s
      <4>1. s \in SUBSET (1..n)
        BY <3>2
      <4>2. h[s] = g[s] /\ g[s] = G(s)
        BY <2>2, <3>2, <4>1
      <4>3. h[s \ {Max(s)}] = g[s \ {Max(s)}]
        BY <3>2
      <4> HIDE DEF h
      <4> QED BY <4>2, <4>3
    <3> QED BY <3>1, <3>2
  <2>4. h = [s \in SUBSET (1..(n + 1)) |-> H(s)]
    BY <2>3
  <2>5. IsFold(h, what, base, message, n + 1)
    <3> HIDE DEF h
    <3> QED BY <2>4 DEF IsFold
  <2> QED BY <2>5
<1> HIDE DEF S
<1>3. \A n \in Nat : n \in S
  BY <1>1, <1>2, Inductive
<1> QED BY <1>3 DEF S

(* What it is at first, and after k characters.                            *)
LEMMA FoldBegins ==
  ASSUME NEW what, NEW base, NEW message, NEW n \in Nat, NEW g,
         IsFold(g, what, base, message, n)
  PROVE  g[{}] = base
<1>1. {} \in SUBSET (1..n)
  OBVIOUS
<1> QED BY <1>1 DEF IsFold

GoesOn(g, what, message, n) ==
  \A k \in 1..n : g[1..k] = Char(what, g[1..(k - 1)], message[k])

LEMMA FoldGoesOn ==
  ASSUME NEW what, NEW base, NEW message, NEW n \in Nat, NEW g,
         IsFold(g, what, base, message, n)
  PROVE  GoesOn(g, what, message, n)
<1> SUFFICES ASSUME NEW k \in 1..n
             PROVE  g[1..k] = Char(what, g[1..(k - 1)], message[k])
  BY DEF GoesOn
<1>1. /\ 1..k \in SUBSET (1..n) /\ 1..k \in SUBSET Nat /\ k \in 1..k
      /\ \A i \in 1..k : i <= k
      /\ (1..k) \ {k} = 1..(k - 1)
  OBVIOUS
<1>2. Max(1..k) = k
  <2> DEFINE s == 1..k
  <2> HIDE DEF s
  <2>1. s \in SUBSET Nat /\ k \in s /\ \A i \in s : i <= k
    BY <1>1 DEF s
  <2>2. Max(s) = k
    BY <2>1, MaxIs
  <2> QED BY <2>2 DEF s
<1>3. 1..k # {}
  BY <1>1
<1>4. g[1..k] = Char(what, g[(1..k) \ {Max(1..k)}], message[Max(1..k)])
  BY <1>1, <1>3 DEF IsFold
<1> QED BY <1>1, <1>2, <1>4

LEMMA NoPositions == 1..0 = {}
OBVIOUS

LEMMA FoldsAgree ==
  ASSUME NEW what, NEW base, NEW message, NEW longer, NEW n \in Nat, NEW m \in Nat,
         n <= m, \A i \in 1..n : message[i] = longer[i],
         NEW g, IsFold(g, what, base, message, n),
         NEW h, IsFold(h, what, base, longer, m)
  PROVE  g[1..n] = h[1..n]
<1> DEFINE S == {k \in Nat : k <= n => g[1..k] = h[1..k]}
<1>3. GoesOn(g, what, message, n)
  BY FoldGoesOn
<1>4. GoesOn(h, what, longer, m)
  BY FoldGoesOn
<1>1. 0 \in S
  <2>1. g[{}] = base
    BY FoldBegins
  <2>2. h[{}] = base
    BY FoldBegins
  <2> QED BY <2>1, <2>2, NoPositions
<1>2. ASSUME NEW k \in Nat, k \in S PROVE k + 1 \in S
  <2> SUFFICES ASSUME k + 1 <= n PROVE g[1..(k + 1)] = h[1..(k + 1)]
    OBVIOUS
  <2> DEFINE j == k + 1
  <2>1. j \in 1..n /\ j \in 1..m /\ j - 1 = k /\ g[1..k] = h[1..k]
    BY <1>2
  <2> HIDE DEF j
  <2>2. g[1..j] = Char(what, g[1..(j - 1)], message[j])
    BY <1>3, <2>1 DEF GoesOn
  <2>3. h[1..j] = Char(what, h[1..(j - 1)], longer[j])
    BY <1>4, <2>1 DEF GoesOn
  <2>4. g[1..j] = h[1..j]
    BY <2>1, <2>2, <2>3
  <2> QED BY <2>4 DEF j
<1> HIDE DEF S
<1>5. \A k \in Nat : k \in S
  BY <1>1, <1>2, Inductive
<1> QED BY <1>5 DEF S

LEMMA ShownIs ==
  ASSUME NEW C, NEW message \in Seq(C), NEW memory, NEW from
  PROVE  \E g : /\ IsFold(g, "show", [m |-> memory, at |-> from], message, Len(message))
                /\ Shown(message, memory, from) = g[1..Len(message)]
<1> DEFINE base == [m |-> memory, at |-> from]
           Step(g) == [s \in SUBSET (1..Len(message)) |->
                         IF s = {} THEN base
                         ELSE ShowChar(g[s \ {Max(s)}], message[Max(s)])]
           iter == CHOOSE g : g = Step(g)
<1>1. DOMAIN message = 1..Len(message) /\ Len(message) \in Nat
  OBVIOUS
<1>2. Shown(message, memory, from) = iter[1..Len(message)]
  BY <1>1 DEF Shown, FoldLeft, MapThenFoldSet, ShowChar
<1>3. PICK g : IsFold(g, "show", base, message, Len(message))
  BY <1>1, FoldExists
<1>4. g = Step(g)
  BY <1>3 DEF IsFold, Char
<1>5. iter = Step(iter)
  BY <1>4
<1>6. IsFold(iter, "show", base, message, Len(message))
  BY <1>5 DEF IsFold, Char
<1> QED BY <1>2, <1>6

LEMMA RollIs ==
  ASSUME NEW C, NEW message \in Seq(C)
  PROVE  \E g : /\ IsFold(g, "roll", [cell |-> <<>>, at |-> 0], message, Len(message))
                /\ Roll(message) = g[1..Len(message)]
<1> DEFINE base == [cell |-> <<>>, at |-> 0]
           Step(g) == [s \in SUBSET (1..Len(message)) |->
                         IF s = {} THEN base
                         ELSE RollChar(g[s \ {Max(s)}], message[Max(s)])]
           iter == CHOOSE g : g = Step(g)
<1>1. DOMAIN message = 1..Len(message) /\ Len(message) \in Nat
  OBVIOUS
<1>2. Roll(message) = iter[1..Len(message)]
  BY <1>1 DEF Roll, FoldLeft, MapThenFoldSet, RollChar
<1>3. PICK g : IsFold(g, "roll", base, message, Len(message))
  BY <1>1, FoldExists
<1>4. g = Step(g)
  BY <1>3 DEF IsFold, Char
<1>5. iter = Step(iter)
  BY <1>4
<1>6. IsFold(iter, "roll", base, message, Len(message))
  BY <1>5 DEF IsFold, Char
<1> QED BY <1>2, <1>6

LEMMA FoldGrows ==
  ASSUME NEW what, NEW base, NEW C, NEW message \in Seq(C), NEW char \in C,
         NEW g, IsFold(g, what, base, message, Len(message)),
         NEW h, IsFold(h, what, base, Append(message, char), Len(message) + 1)
  PROVE  h[1..(Len(message) + 1)] = Char(what, g[1..Len(message)], char)
<1> DEFINE n == Len(message)  k == n + 1  longer == Append(message, char)
<1>0. IsFold(h, what, base, longer, k) /\ IsFold(g, what, base, message, n)
  OBVIOUS
<1>1. /\ n \in Nat /\ k \in Nat /\ n <= k /\ k \in 1..k /\ k - 1 = n
      /\ \A i \in 1..n : message[i] = longer[i]
      /\ longer[k] = char
  OBVIOUS
<1> HIDE DEF n, k, longer
<1>2. g[1..n] = h[1..n]
  BY <1>1, <1>0, FoldsAgree
<1>3. GoesOn(h, what, longer, k)
  BY <1>1, <1>0, FoldGoesOn
<1>4. h[1..k] = Char(what, h[1..(k - 1)], longer[k])
  BY <1>1, <1>3 DEF GoesOn
<1> QED BY <1>1, <1>2, <1>4 DEF n, k

LEMMA ShownNothing ==
  ASSUME NEW memory, NEW from
  PROVE  Shown(<<>>, memory, from) = [m |-> memory, at |-> from]
<1>1. <<>> \in Seq({}) /\ Len(<<>>) = 0
  OBVIOUS
<1>2. PICK g : /\ IsFold(g, "show", [m |-> memory, at |-> from], <<>>, 0)
               /\ Shown(<<>>, memory, from) = g[1..0]
  BY <1>1, ShownIs
<1>3. g[{}] = [m |-> memory, at |-> from]
  BY <1>2, FoldBegins
<1> QED BY <1>2, <1>3, NoPositions

LEMMA ShownAppend ==
  ASSUME NEW C, NEW message \in Seq(C), NEW char \in C, NEW memory, NEW from
  PROVE  Shown(Append(message, char), memory, from)
           = ShowChar(Shown(message, memory, from), char)
<1> DEFINE base == [m |-> memory, at |-> from]
<1>1. /\ Append(message, char) \in Seq(C)
      /\ Len(Append(message, char)) = Len(message) + 1
  OBVIOUS
<1>2. PICK g : /\ IsFold(g, "show", base, message, Len(message))
               /\ Shown(message, memory, from) = g[1..Len(message)]
  BY ShownIs
<1>3. PICK h : /\ IsFold(h, "show", base, Append(message, char), Len(message) + 1)
               /\ Shown(Append(message, char), memory, from) = h[1..(Len(message) + 1)]
  BY <1>1, ShownIs
<1>4. h[1..(Len(message) + 1)] = Char("show", g[1..Len(message)], char)
  BY <1>2, <1>3, FoldGrows
<1> QED BY <1>2, <1>3, <1>4 DEF Char

LEMMA RollNothing == Roll(<<>>) = [cell |-> <<>>, at |-> 0]
<1>1. <<>> \in Seq({}) /\ Len(<<>>) = 0
  OBVIOUS
<1>2. PICK g : /\ IsFold(g, "roll", [cell |-> <<>>, at |-> 0], <<>>, 0)
               /\ Roll(<<>>) = g[1..0]
  BY <1>1, RollIs
<1>3. g[{}] = [cell |-> <<>>, at |-> 0]
  BY <1>2, FoldBegins
<1> QED BY <1>2, <1>3, NoPositions

LEMMA RollAppend ==
  ASSUME NEW C, NEW message \in Seq(C), NEW char \in C
  PROVE  Roll(Append(message, char)) = RollChar(Roll(message), char)
<1> DEFINE base == [cell |-> <<>>, at |-> 0]
<1>1. /\ Append(message, char) \in Seq(C)
      /\ Len(Append(message, char)) = Len(message) + 1
  OBVIOUS
<1>2. PICK g : /\ IsFold(g, "roll", base, message, Len(message))
               /\ Roll(message) = g[1..Len(message)]
  BY RollIs
<1>3. PICK h : /\ IsFold(h, "roll", base, Append(message, char), Len(message) + 1)
               /\ Roll(Append(message, char)) = h[1..(Len(message) + 1)]
  BY <1>1, RollIs
<1>4. h[1..(Len(message) + 1)] = Char("roll", g[1..Len(message)], char)
  BY <1>2, <1>3, FoldGrows
<1> QED BY <1>2, <1>3, <1>4 DEF Char

-----------------------------------------------------------------------------
LEMMA Geometry ==
  /\ Cols \in Nat \ {0} /\ Rows \in Nat \ {0} /\ Base \in Nat \ {0}
  /\ Area \in Nat /\ Area >= Cols /\ LastRow \in Nat /\ LastRow = Cols * (Rows - 1)
  /\ Area = LastRow + Cols /\ Area < Base * Base
<1>1. Cols \in Nat \ {0} /\ Rows \in Nat \ {0} /\ Base \in Nat \ {0} /\ Rows * Cols < Base * Base
  BY ScreenAssumption
<1>2. PICK r \in Nat : Rows = r + 1
  <2>1. Rows - 1 \in Nat /\ Rows = (Rows - 1) + 1
    BY <1>1
  <2> QED BY <2>1
<1>3. Rows * Cols = Cols * r + Cols /\ Cols * r \in Nat /\ Rows - 1 = r
  BY <1>1, <1>2
<1> QED BY <1>1, <1>3 DEF Area, LastRow

(* Where a character leaves the cursor: further on, at the same place of   *)
(* the screen and of the roll.                                             *)
LEMMA AfterMoves ==
  ASSUME NEW k \in Nat, NEW at \in 0..(Area - 1), NEW char
  PROVE  /\ After(char, at) \in (at + 1)..Area
         /\ After(char, Cols * k + at) = Cols * k + After(char, at)
<1> DEFINE q == at \div Cols
           K == Cols * k
<1>1. /\ Cols \in Nat \ {0} /\ Rows \in Nat \ {0} /\ Area \in Nat /\ at \in Nat
      /\ Area = Cols * Rows /\ K \in Nat
  BY Geometry DEF Area
<1>2. q \in Nat /\ at % Cols \in 0..(Cols - 1) /\ at = Cols * q + (at % Cols)
  BY <1>1, Division
<1>3. q < Rows
  BY <1>1, QuotientBelow
<1>4. (K + at) \div Cols = k + q
  <2> HIDE DEF q
  <2> DEFINE n == K + at  a == k + q  r == at % Cols
  <2>1. n = Cols * a + r /\ a \in Nat /\ n \in Nat /\ r \in 0..(Cols - 1)
    BY <1>1, <1>2
  <2> HIDE DEF n, a, r
  <2>2. n \div Cols = a
    BY <1>1, <2>1, QuotientIs
  <2> QED BY <2>2 DEF n, a
<1> HIDE DEF q
<1>5. (q + 1) * Cols = Cols * q + Cols /\ Cols * q \in Nat
  BY <1>1, <1>2
<1>6. (k + q + 1) * Cols = K + (q + 1) * Cols
  BY <1>1, <1>2
<1>7. (q + 1) * Cols <= Area
  <2>1. CASE q + 1 = Rows
    BY <1>1, <2>1
  <2>2. CASE q + 1 # Rows
    <3>1. Rows > q + 1 /\ q + 1 \in Nat
      BY <1>1, <1>2, <1>3, <2>2
    <3>2. Cols * Rows >= Cols * (q + 1) + Cols
      BY <1>1, <3>1, ProductOrdered
    <3> QED BY <1>1, <1>2, <3>2
  <2> QED BY <2>1, <2>2
<1>8. CASE char = NewLine
  <2>1. After(char, at) = (q + 1) * Cols /\ After(char, K + at) = (k + q + 1) * Cols
    BY <1>4, <1>8 DEF After, q
  <2> HIDE DEF K
  <2> QED BY <1>1, <1>2, <1>5, <1>6, <1>7, <2>1 DEF K
<1>9. CASE char # NewLine
  <2>1. After(char, at) = at + 1 /\ After(char, K + at) = K + at + 1
    BY <1>9 DEF After
  <2> HIDE DEF K
  <2> QED BY <1>1, <2>1 DEF K
<1> QED BY <1>8, <1>9

-----------------------------------------------------------------------------
(* The screen shows the roll from its row k on, and the cursor is where    *)
(* the roll's next character comes.                                        *)
CellOf(roll, j) == IF j \in DOMAIN roll.cell THEN roll.cell[j] ELSE Blank

Shows(roll, k, memory, at) ==
  /\ k \in Nat /\ at \in 0..(Area - 1) /\ roll.at = Cols * k + at
  /\ k = 0 \/ at >= LastRow
  /\ \A j \in DOMAIN roll.cell : j \in 0..(roll.at - 1)
  /\ memory = [i \in Memory |-> CellOf(roll, Cols * k + i)]

LEMMA ShowsNext ==
  ASSUME NEW roll, NEW k, NEW memory, NEW at, NEW char,
         Shows(roll, k, memory, at)
  PROVE  LET s == ShowChar([m |-> memory, at |-> at], char)
         IN  \E k2 \in {k, k + 1} : Shows(RollChar(roll, char), k2, s.m, s.at)
<1> DEFINE K == Cols * k
           s == ShowChar([m |-> memory, at |-> at], char)
           next == After(char, at)
           m1 == Put(memory, char, at)
           rolled == RollChar(roll, char)
<1>1. /\ k \in Nat /\ at \in 0..(Area - 1) /\ roll.at = K + at
      /\ k = 0 \/ at >= LastRow
      /\ \A j \in DOMAIN roll.cell : j \in 0..(roll.at - 1)
      /\ memory = [i \in Memory |-> CellOf(roll, K + i)]
  BY DEF Shows
<1>2. /\ Cols \in Nat \ {0} /\ K \in Nat /\ Area \in Nat /\ LastRow \in Nat
      /\ Area = LastRow + Cols /\ Cols * (k + 1) = K + Cols
  BY <1>1, Geometry
<1>3. /\ next \in (at + 1)..Area
      /\ After(char, roll.at) = K + next
  BY <1>1, AfterMoves
<1>4. /\ rolled.at = K + next
      /\ rolled.cell = [i \in DOMAIN roll.cell \cup {roll.at} |->
                          IF i = roll.at /\ char # NewLine THEN char
                          ELSE CellOf(roll, i)]
  BY <1>3 DEF RollChar, CellOf
<1> HIDE DEF K, next, rolled
<1>5. \A j \in DOMAIN rolled.cell : j \in 0..(rolled.at - 1)
  BY <1>1, <1>2, <1>3, <1>4
<1>6. \A j : CellOf(rolled, j) = IF j = roll.at /\ char # NewLine THEN char
                                ELSE CellOf(roll, j)
  <2> TAKE j
  <2>1. roll.at \notin DOMAIN roll.cell
    BY <1>1, <1>2
  <2>2. CASE j \in DOMAIN rolled.cell
    <3>1. CellOf(rolled, j) = rolled.cell[j]
      BY <2>2 DEF CellOf
    <3> QED BY <1>4, <2>2, <3>1
  <2>3. CASE j \notin DOMAIN rolled.cell
    BY <1>4, <2>3 DEF CellOf
  <2> QED BY <2>2, <2>3
<1>7. m1 = [i \in Memory |-> CellOf(rolled, K + i)]
  <2>1. at \in Memory
    BY <1>1, <1>2 DEF Memory
  <2>2. \A i \in Memory : K + i = roll.at <=> i = at
    BY <1>1, <1>2 DEF Memory
  <2>3. CASE char = NewLine
    BY <1>1, <1>6, <2>3 DEF Put
  <2>4. CASE char # NewLine
    <3>1. m1 = [memory EXCEPT ![at] = char]
      BY <2>1, <2>4 DEF Put
    <3> QED BY <1>1, <1>6, <2>1, <2>2, <2>4, <3>1
  <2> QED BY <2>3, <2>4
<1>8. \A j \in Nat : j >= rolled.at => CellOf(rolled, j) = Blank
  <2>1. rolled.at \in Nat
    BY <1>1, <1>2, <1>3, <1>4
  <2>2. \A j \in Nat : j >= rolled.at => j \notin 0..(rolled.at - 1)
    BY <2>1
  <2> QED BY <1>5, <2>2 DEF CellOf
<1> HIDE DEF m1
<1>9. CASE Beyond(next)
  <2>1. s = [m |-> Scrolled(m1), at |-> LastRow]
    BY <1>9 DEF ShowChar, next, m1
  <2>2. next = Area
    BY <1>1, <1>2, <1>3, <1>9 DEF Beyond
  <2>3. rolled.at = K + Cols + LastRow
    BY <1>2, <1>4, <2>2
  <2>4. ASSUME NEW i \in Memory
        PROVE  Scrolled(m1)[i] = CellOf(rolled, K + Cols + i)
    <3>1. i \in Nat
      BY DEF Memory
    <3>2. CASE i < Area
      <4>1. i + Cols \in Memory /\ K + (i + Cols) = K + Cols + i
        BY <1>2, <3>1, <3>2 DEF Memory
      <4> QED BY <1>7, <3>2, <4>1 DEF Scrolled
    <3>3. CASE ~(i < Area)
      <4>1. Scrolled(m1)[i] = CellOf(rolled, K + i)
        BY <1>7, <3>3 DEF Scrolled
      <4>2. /\ K + i \in Nat /\ K + i >= rolled.at
            /\ K + Cols + i \in Nat /\ K + Cols + i >= rolled.at
        BY <1>2, <2>3, <3>1, <3>3
      <4> QED BY <1>8, <4>1, <4>2
    <3> QED BY <3>2, <3>3
  <2>5. s.m = [i \in Memory |-> CellOf(rolled, K + Cols + i)]
    <3>1. s.m = [i \in Memory |-> IF i < Area THEN m1[i + Cols] ELSE m1[i]]
      BY <2>1 DEF Scrolled
    <3>2. \A i \in Memory : s.m[i] = CellOf(rolled, K + Cols + i)
      BY <2>1, <2>4
    <3> QED BY <3>1, <3>2
  <2>6. s.at = LastRow /\ LastRow \in 0..(Area - 1)
    BY <1>2, <2>1
  <2> HIDE DEF s
  <2>7. Shows(rolled, k + 1, s.m, s.at)
    BY <1>1, <1>2, <1>5, <2>3, <2>5, <2>6 DEF Shows
  <2> QED BY <2>7 DEF s, rolled
<1>10. CASE ~Beyond(next)
  <2>1. s = [m |-> m1, at |-> next]
    BY <1>10 DEF ShowChar, next, m1
  <2>2. next \in 0..(Area - 1) /\ next >= at
    BY <1>1, <1>2, <1>3, <1>10 DEF Beyond
  <2>3. k = 0 \/ next >= LastRow
    BY <1>1, <1>2, <2>2
  <2> HIDE DEF s
  <2>4. Shows(rolled, k, s.m, s.at)
    BY <1>1, <1>4, <1>5, <1>7, <2>1, <2>2, <2>3 DEF Shows, K
  <2> QED BY <2>4 DEF s, rolled
<1> QED BY <1>9, <1>10

LEMMA LastCharacter ==
  ASSUME NEW C, NEW message \in Seq(C), message # <<>>
  PROVE  \E m \in Seq(C), char \in C : /\ message = Append(m, char)
                                     /\ Len(m) = Len(message) - 1
<1>1. PICK m \in Seq(C), char \in C : message = Append(m, char)
  BY SequenceEmptyOrAppend
<1>2. Len(m) = Len(message) - 1
  BY <1>1
<1> QED BY <1>1, <1>2

(* The cursor after a character is on the screen, wherever it was.         *)
LEMMA CharHeals ==
  ASSUME NEW s, s.at \in Nat, NEW char
  PROVE  ShowChar(s, char).at \in 0..(Area - 1)
<1>1. After(char, s.at) \in Nat
  <2>1. s.at \div Cols \in Nat /\ Cols \in Nat
    BY Geometry, Division
  <2>2. (s.at \div Cols + 1) * Cols \in Nat
    BY <2>1
  <2> QED BY <2>2 DEF After
<1>2. ShowChar(s, char).at = IF Beyond(After(char, s.at)) THEN LastRow
                             ELSE After(char, s.at)
  BY DEF ShowChar
<1>3. LastRow \in 0..(Area - 1) /\ Area \in Nat
  BY Geometry
<1> QED BY <1>1, <1>2, <1>3 DEF Beyond

LEMMA ShownHeals ==
  ASSUME NEW C, NEW memory, NEW from \in Nat
  PROVE  \A message \in Seq(C) :
           /\ Shown(message, memory, from).at \in Nat
           /\ message # <<>> => Shown(message, memory, from).at \in 0..(Area - 1)
<1> DEFINE Good(message) ==
             /\ Shown(message, memory, from).at \in Nat
             /\ message # <<>> => Shown(message, memory, from).at \in 0..(Area - 1)
           S == {n \in Nat : \A message \in Seq(C) : Len(message) = n => Good(message)}
<1>1. 0 \in S
  <2>1. ASSUME NEW message \in Seq(C), Len(message) = 0 PROVE Good(message)
    <3>1. message = <<>>
      BY <2>1, EmptySeq
    <3>2. Shown(<<>>, memory, from).at = from
      BY ShownNothing
    <3> QED BY <3>1, <3>2
  <2> QED BY <2>1
<1>2. ASSUME NEW n \in Nat, n \in S PROVE n + 1 \in S
  <2>1. ASSUME NEW message \in Seq(C), Len(message) = n + 1 PROVE Good(message)
    <3>1. message # <<>>
      BY <2>1
    <3>2. PICK m \in Seq(C), char \in C : message = Append(m, char) /\ Len(m) = n
      BY <2>1, <3>1, LastCharacter
    <3>3. Shown(m, memory, from).at \in Nat
      BY <1>2, <3>2
    <3>4. Shown(message, memory, from) = ShowChar(Shown(m, memory, from), char)
      BY <3>2, ShownAppend
    <3>5. Shown(message, memory, from).at \in 0..(Area - 1)
      BY <3>3, <3>4, CharHeals
    <3> QED BY <3>5
  <2> QED BY <2>1
<1> HIDE DEF S
<1>3. \A n \in Nat : n \in S
  BY <1>1, <1>2, Inductive
<1>4. ASSUME NEW message \in Seq(C) PROVE Good(message)
  <2>1. Len(message) \in Nat
    OBVIOUS
  <2> QED BY <1>3, <2>1 DEF S
<1> QED BY <1>4

LEMMA ConcatAppend ==
  ASSUME NEW C, NEW p \in Seq(C), NEW m \in Seq(C), NEW char \in C
  PROVE  p \o Append(m, char) = Append(p \o m, char)
OBVIOUS

(* A text that is shown at once.                                           *)
LEMMA ShownShows ==
  ASSUME NEW C, NEW p \in Seq(C), NEW k, NEW memory, NEW from,
         Shows(Roll(p), k, memory, from)
  PROVE  \A message \in Seq(C) : \E k2 :
           Shows(Roll(p \o message), k2, Shown(message, memory, from).m,
                 Shown(message, memory, from).at)
<1> DEFINE Good(message) ==
             \E k2 : Shows(Roll(p \o message), k2, Shown(message, memory, from).m,
                           Shown(message, memory, from).at)
           S == {n \in Nat : \A message \in Seq(C) : Len(message) = n => Good(message)}
<1>1. 0 \in S
  <2>1. ASSUME NEW message \in Seq(C), Len(message) = 0 PROVE Good(message)
    <3>1. message = <<>> /\ p \o <<>> = p
      BY <2>1, EmptySeq
    <3>2. Shown(<<>>, memory, from).at = from /\ Shown(<<>>, memory, from).m = memory
      BY ShownNothing
    <3> QED BY <3>1, <3>2
  <2> QED BY <2>1
<1>2. ASSUME NEW n \in Nat, n \in S PROVE n + 1 \in S
  <2>1. ASSUME NEW message \in Seq(C), Len(message) = n + 1 PROVE Good(message)
    <3>1. message # <<>>
      BY <2>1
    <3>2. PICK m \in Seq(C), char \in C : message = Append(m, char) /\ Len(m) = n
      <4>1. Len(message) - 1 = n
        BY <2>1
      <4> QED BY <3>1, <4>1, LastCharacter
    <3> DEFINE s == Shown(m, memory, from)
    <3>3. PICK k1 : Shows(Roll(p \o m), k1, s.m, s.at)
      BY <1>2, <3>2
    <3>4. Shown(message, memory, from) = ShowChar(s, char)
      BY <3>2, ShownAppend
    <3>5. Roll(p \o message) = RollChar(Roll(p \o m), char)
      <4>1. p \o m \in Seq(C) /\ p \o message = Append(p \o m, char)
        BY <3>2, ConcatAppend
      <4> QED BY <4>1, RollAppend
    <3>6. ShowChar([m |-> s.m, at |-> s.at], char) = ShowChar(s, char)
      BY DEF ShowChar
    <3> HIDE DEF s
    <3>7. \E k2 : Shows(RollChar(Roll(p \o m), char), k2,
                        ShowChar([m |-> s.m, at |-> s.at], char).m,
                        ShowChar([m |-> s.m, at |-> s.at], char).at)
      BY <3>3, ShowsNext
    <3> QED BY <3>4, <3>5, <3>6, <3>7
  <2> QED BY <2>1
<1> HIDE DEF S
<1>3. \A n \in Nat : n \in S
  BY <1>1, <1>2, Inductive
<1>4. ASSUME NEW message \in Seq(C) PROVE Good(message)
  <2>1. Len(message) \in Nat
    OBVIOUS
  <2> QED BY <1>3, <2>1 DEF S
<1> QED BY <1>4

(* What ShowsText says of such a screen.                                   *)
LEMMA ShowsIsRollsEnd ==
  ASSUME NEW roll, NEW k, NEW memory, NEW at, Shows(roll, k, memory, at)
  PROVE  LET row == roll.at \div Cols
             top == (IF row < Rows THEN 0 ELSE row - Rows + 1) * Cols
         IN  /\ at = roll.at - top
             /\ \A i \in 0..(Area - 1) :
                  memory[i] = IF top + i \in DOMAIN roll.cell THEN roll.cell[top + i]
                              ELSE Blank
<1> DEFINE row == roll.at \div Cols
           top == (IF row < Rows THEN 0 ELSE row - Rows + 1) * Cols
           q == at \div Cols  r == at % Cols
<1>1. /\ k \in Nat /\ at \in 0..(Area - 1) /\ roll.at = Cols * k + at
      /\ k = 0 \/ at >= LastRow
      /\ memory = [i \in Memory |-> CellOf(roll, Cols * k + i)]
  BY DEF Shows
<1>2. /\ Cols \in Nat \ {0} /\ Rows \in Nat \ {0} /\ Area \in Nat /\ LastRow \in Nat
      /\ LastRow = Cols * (Rows - 1) /\ Area = Cols * Rows /\ Cols * k \in Nat
      /\ at \in Nat /\ Area = LastRow + Cols
  BY <1>1, Geometry DEF Area
<1>3. q \in Nat /\ r \in 0..(Cols - 1) /\ at = Cols * q + r /\ q < Rows
  <2>1. q \in Nat /\ r \in 0..(Cols - 1) /\ at = Cols * q + r
    BY <1>2, Division
  <2>2. at < Cols * Rows
    BY <1>1, <1>2
  <2>3. q < Rows
    BY <1>2, <2>2, QuotientBelow
  <2> QED BY <2>1, <2>3
<1> HIDE DEF q, r
<1>4. row = k + q
  <2> DEFINE n == roll.at  a == k + q
  <2>1. n = Cols * a + r /\ a \in Nat /\ n \in Nat
    BY <1>1, <1>2, <1>3
  <2> HIDE DEF n, a
  <2>2. n \div Cols = a
    BY <1>2, <1>3, <2>1, QuotientIs
  <2> QED BY <2>2 DEF n, a
<1>5. k # 0 => q = Rows - 1
  <2> SUFFICES ASSUME k # 0, q # Rows - 1 PROVE FALSE
    OBVIOUS
  <2>1. Rows - 1 > q /\ Rows - 1 \in Nat
    BY <1>2, <1>3
  <2>2. Cols * (Rows - 1) >= Cols * q + Cols /\ Cols * q \in Nat
    BY <1>2, <1>3, <2>1, ProductOrdered
  <2> QED BY <1>1, <1>2, <1>3, <2>2
<1>6. top = Cols * k
  <2>1. CASE k = 0
    BY <1>2, <1>3, <1>4, <2>1
  <2>2. CASE k # 0
    <3>1. ~(row < Rows) /\ row - Rows + 1 = k
      BY <1>1, <1>2, <1>3, <1>4, <1>5, <2>2
    <3> QED BY <1>1, <1>2, <3>1
  <2> QED BY <2>1, <2>2
<1> HIDE DEF top
<1>7. at = roll.at - top
  BY <1>1, <1>2, <1>6
<1>8. ASSUME NEW i \in 0..(Area - 1)
      PROVE  memory[i] = IF top + i \in DOMAIN roll.cell THEN roll.cell[top + i] ELSE Blank
  <2>1. i \in Memory
    BY <1>2 DEF Memory
  <2> QED BY <1>1, <1>6, <2>1 DEF CellOf
<1> QED BY <1>7, <1>8 DEF top

-----------------------------------------------------------------------------
(* What is printed, by anybody.                                            *)
Spoken == Texts \cup {Welcome, Unknown, Released} \cup {Names[k] : k \in DOMAIN Names}
Chars == {NewLine} \cup UNION {Range(m) : m \in Spoken}
Messages == Seq(Chars) \ {<<>>}

Reading == {"select_high", "read_high", "select_low", "read_low"}
Setting == {"set_high", "write_high", "set_low", "write_low"}

ScreenTypes ==
  /\ index \in Nat /\ high \in 0..(Base - 1) /\ low \in 0..(Base - 1)
  /\ pc \in [Printers -> {"idle", "print"} \cup Reading \cup Setting]
  /\ offset \in [Printers -> Nat] /\ goal \in [Printers -> Nat]
  /\ text \in [Printers -> Seq(Chars)]
  /\ printed \in Seq(Chars) /\ alone \in SUBSET Printers

(* Whoever is alone prints alone; as long as no two prints have            *)
(* overlapped, whoever prints is alone.                                    *)
AloneOK == /\ \A t \in alone : Busy \subseteq {t} /\ alone = {t}
           /\ ~overlapped => Busy \subseteq alone

(* The registers while t prints alone: it will leave the cursor on the     *)
(* screen.                                                                 *)
PointOK(t) ==
  /\ pc[t] \in Reading => text[t] # <<>> \/ Cursor < Area
  /\ pc[t] \in {"read_high", "write_high"} => index = 14
  /\ pc[t] \in {"read_low", "write_low"} => index = 15
  /\ pc[t] \in {"select_low", "read_low"} => offset[t] = high * Base
  /\ pc[t] = "print" => text[t] # <<>> \/ offset[t] < Area
  /\ pc[t] \in Setting => goal[t] < Area /\ (goal[t] = offset[t] => text[t] = <<>>)
  /\ pc[t] \in {"set_low", "write_low"} => high = goal[t] \div Base

(* Where the cursor is, wherever that is kept at t's point.                *)
Where(t) == IF pc[t] = "print" THEN offset[t]
            ELSE IF pc[t] \in Setting THEN goal[t] ELSE Cursor

(* While t prints, the screen shows what it has printed so far.            *)
ShownOK(t) ==
  \E s \in Seq(Chars), k \in Nat :
    printed = s \o text[t] /\ Shows(Roll(s), k, cells, Where(t))

IdleOK == Busy = {} => \E k \in Nat : Shows(Roll(printed), k, cells, Cursor)

ScreenOK ==
  /\ ScreenTypes /\ AloneOK
  /\ \A t \in alone \cap Busy : PointOK(t) /\ (~overlapped => ShownOK(t))
  /\ ~overlapped => IdleOK

LEMMA SpokenAreTexts == /\ \A m \in Spoken : m \in Seq(Chars)
                        /\ Texts \cup {Welcome} \subseteq Messages
<1>1. \A m \in Spoken : m \in Seq(Range(m))
  BY TextAssumption DEF Spoken
<1>2. \A m \in Spoken : Range(m) \subseteq Chars
  BY DEF Chars
<1>3. ASSUME NEW m \in Spoken PROVE m \in Seq(Chars)
  <2>1. \A i \in 1..Len(m) : m[i] \in Chars
    <3>1. \A i \in 1..Len(m) : m[i] \in Range(m)
      BY <1>1, ElementOfSeq
    <3> QED BY <1>2, <3>1
  <2>2. Len(m) \in Nat /\ m = [i \in 1..Len(m) |-> m[i]]
    <3> DEFINE R == Range(m)
    <3>1. m \in Seq(R)
      BY <1>1
    <3> HIDE DEF R
    <3> QED BY <3>1, LenProperties
  <2>3. [i \in 1..Len(m) |-> m[i]] \in Seq(Chars)
    BY <2>1, <2>2, IsASeq
  <2> QED BY <2>2, <2>3
<1>4. \A m \in Texts \cup {Welcome} : m # <<>> /\ m \in Spoken
  BY TextAssumption DEF Spoken
<1> QED BY <1>3, <1>4 DEF Messages

(* The registers hold what set_cursor_offset writes.                       *)
LEMMA CursorHalves ==
  ASSUME NEW at \in Nat
  PROVE  /\ (at \div Base) % Base \in 0..(Base - 1) /\ at % Base \in 0..(Base - 1)
         /\ at < Area => /\ (at \div Base) % Base = at \div Base
                         /\ (at \div Base) * Base + (at % Base) = at
<1> DEFINE h == at \div Base  l == at % Base
<1>1. Base \in Nat \ {0} /\ Area < Base * Base /\ Area \in Nat
  BY Geometry
<1>2. h \in Nat /\ l \in 0..(Base - 1) /\ at = Base * h + l
  BY <1>1, Division
<1>3. at < Area => h < Base
  <2> SUFFICES ASSUME at < Area PROVE h < Base
    OBVIOUS
  <2>1. at < Base * Base
    <3>1. Base * Base \in Nat
      BY <1>1
    <3> QED BY <1>1, <3>1
  <2> QED BY <1>1, <2>1, QuotientBelow
<1> HIDE DEF h, l
<1>4. h % Base \in 0..(Base - 1)
  BY <1>1, <1>2, Division
<1>5. h < Base => h % Base = h
  BY <1>1, <1>2
<1>6. h * Base + l = at
  BY <1>1, <1>2
<1> QED BY <1>2, <1>3, <1>4, <1>5, <1>6 DEF h, l

LEMMA CursorIsSet ==
  ASSUME NEW at \in Nat, SetCursor(at)
  PROVE  /\ index' \in Nat /\ high' \in 0..(Base - 1) /\ low' \in 0..(Base - 1)
         /\ at < Area => Cursor' = at
BY CursorHalves DEF SetCursor, Cursor

LEMMA CursorIsNumber == ScreenTypes => Cursor \in Nat
<1> SUFFICES ASSUME ScreenTypes PROVE Cursor \in Nat
  OBVIOUS
<1>1. high \in Nat /\ low \in Nat /\ Base \in Nat
  BY Geometry DEF ScreenTypes
<1>2. high * Base \in Nat
  BY <1>1
<1> QED BY <1>1, <1>2 DEF Cursor

-----------------------------------------------------------------------------
LEMMA KPrintKeeps ==
  ASSUME ScreenOK, NEW t \in Printers, NEW message \in Messages, KPrint(t, message)
  PROVE  ScreenOK'
<1>1. /\ pc[t] = "idle" /\ pc' = [pc EXCEPT ![t] = "select_high"]
      /\ text' = [text EXCEPT ![t] = message]
      /\ overlapped' = (overlapped \/ Busy # {})
      /\ alone' = IF Busy = {} THEN {t} ELSE {}
      /\ printed' = IF overlapped' THEN <<>> ELSE printed \o message
      /\ UNCHANGED <<cells, index, high, low, offset, goal>>
  BY DEF KPrint, Begins, registers
<1>2. message \in Seq(Chars) /\ message # <<>>
  BY DEF Messages
<1>3. ScreenTypes'
  <2>1. printed \o message \in Seq(Chars) /\ <<>> \in Seq(Chars)
    BY <1>2 DEF ScreenOK, ScreenTypes
  <2>2. printed' \in Seq(Chars)
    BY <1>1, <2>1
  <2> QED BY <1>1, <1>2, <2>2 DEF ScreenOK, ScreenTypes, Reading
<1>4. Busy' = Busy \cup {t} /\ pc'[t] = "select_high" /\ text'[t] = message
      /\ Cursor' = Cursor
  BY <1>1 DEF ScreenOK, ScreenTypes, Busy, Cursor
<1>5. AloneOK'
  BY <1>1, <1>4 DEF AloneOK
<1>6. ASSUME NEW u \in alone' \cap Busy' PROVE PointOK(u)' /\ (~overlapped' => ShownOK(u)')
  <2>1. u = t /\ Busy = {} /\ alone' = {t}
    BY <1>1
  <2>2. PointOK(t)'
    BY <1>2, <1>4 DEF PointOK, Reading, Setting
  <2>3. ASSUME ~overlapped' PROVE ShownOK(t)'
    <3>1. PICK k \in Nat : Shows(Roll(printed), k, cells, Cursor)
      BY <1>1, <2>1, <2>3 DEF ScreenOK, IdleOK
    <3>2. Where(t)' = Cursor
      BY <1>4 DEF Where, Setting
    <3>3. printed \in Seq(Chars) /\ printed' = printed \o text'[t]
      BY <1>1, <1>4, <2>3 DEF ScreenOK, ScreenTypes
    <3> QED BY <1>1, <3>1, <3>2, <3>3 DEF ShownOK
  <2> QED BY <2>1, <2>2, <2>3
<1>7. IdleOK'
  BY <1>4 DEF IdleOK
<1> QED BY <1>3, <1>5, <1>6, <1>7 DEF ScreenOK

LEMMA PrintAtOnceKeeps ==
  ASSUME ScreenOK, NEW message \in Messages, PrintAtOnce(message)
  PROVE  ScreenOK' /\ Cursor' < Area
<1> DEFINE after == Shown(message, cells, Cursor)
<1>1. /\ overlapped' = (overlapped \/ Busy # {})
      /\ alone' = {}
      /\ printed' = IF overlapped' THEN <<>> ELSE printed \o message
      /\ cells' = after.m /\ SetCursor(after.at)
      /\ UNCHANGED <<pc, offset, text, goal>>
  BY DEF PrintAtOnce, Begins, printers
<1>2. message \in Seq(Chars) /\ message # <<>> /\ Cursor \in Nat /\ Area \in Nat
  BY CursorIsNumber, Geometry DEF Messages, ScreenOK
<1>3. after.at \in 0..(Area - 1)
  BY <1>2, ShownHeals
<1> HIDE DEF after
<1>4. /\ index' \in Nat /\ high' \in 0..(Base - 1) /\ low' \in 0..(Base - 1)
      /\ Cursor' = after.at /\ Cursor' < Area
  BY <1>1, <1>2, <1>3, CursorIsSet
<1>5. ScreenTypes'
  <2>1. printed \o message \in Seq(Chars) /\ <<>> \in Seq(Chars)
    BY <1>2 DEF ScreenOK, ScreenTypes
  <2>2. printed' \in Seq(Chars)
    BY <1>1, <2>1
  <2> QED BY <1>1, <1>4, <2>2 DEF ScreenOK, ScreenTypes
<1>6. Busy' = Busy
  BY <1>1 DEF Busy
<1>7. AloneOK'
  BY <1>1, <1>6 DEF AloneOK
<1>8. ASSUME ~overlapped', Busy' = {}
      PROVE  \E k \in Nat : Shows(Roll(printed'), k, cells', Cursor')
  <2>1. PICK k \in Nat : Shows(Roll(printed), k, cells, Cursor)
    BY <1>1, <1>6, <1>8 DEF ScreenOK, IdleOK
  <2>2. printed \in Seq(Chars) /\ printed' = printed \o message
    BY <1>1, <1>8 DEF ScreenOK, ScreenTypes
  <2>3. PICK k2 : Shows(Roll(printed \o message), k2, after.m, after.at)
    BY <1>2, <2>1, <2>2, ShownShows DEF after
  <2>4. k2 \in Nat
    BY <2>3 DEF Shows
  <2> QED BY <1>1, <1>4, <2>2, <2>3, <2>4
<1> QED BY <1>1, <1>4, <1>5, <1>7, <1>8 DEF ScreenOK, IdleOK

(* A printer that is not alone has nothing to keep but the types.          *)
LEMMA NotAlone ==
  ASSUME ScreenOK, NEW t \in Printers, pc[t] # "idle", t \notin alone
  PROVE  alone = {} /\ overlapped
BY DEF ScreenOK, AloneOK, Busy

(* The steps of a print that is alone.                                     *)
AloneAt(t) == /\ ScreenTypes /\ t \in Printers /\ PointOK(t)
              /\ ~overlapped => ShownOK(t)

Continued(t) == PointOK(t)' /\ (~overlapped => ShownOK(t)')

LEMMA ShownCarries ==
  ASSUME NEW t, cells' = cells, printed' = printed, text'[t] = text[t],
         Where(t)' = Where(t)
  PROVE  ShownOK(t) => ShownOK(t)'
BY DEF ShownOK

LEMMA AloneReads ==
  ASSUME NEW t, AloneAt(t), GetCursorOffset(t)
  PROVE  pc'[t] # "idle" /\ Continued(t)
<1> USE DEF AloneAt
<1>1. pc \in [Printers -> {"idle", "print"} \cup Reading \cup Setting]
      /\ offset \in [Printers -> Nat] /\ t \in Printers
  BY DEF ScreenTypes
<1>2. CASE Select(t, "select_high", "read_high", 14)
  <2>1. /\ pc[t] = "select_high" /\ pc'[t] = "read_high" /\ index' = 14
        /\ UNCHANGED <<cells, high, low, offset, text, goal, printed, overlapped>>
    BY <1>1, <1>2 DEF Select, Goes, History
  <2>2. Cursor' = Cursor
    BY <2>1 DEF Cursor
  <2>3. Where(t)' = Where(t)
    BY <2>1, <2>2 DEF Where, Setting
  <2>4. PointOK(t)'
    BY <2>1, <2>2 DEF PointOK, Reading, Setting
  <2> QED BY <2>1, <2>3, <2>4, ShownCarries DEF Continued
<1>3. CASE ReadHigh(t)
  <2>1. /\ pc[t] = "read_high" /\ pc'[t] = "select_low"
        /\ offset' = [offset EXCEPT ![t] = Data * Base]
        /\ UNCHANGED <<cells, index, high, low, text, goal, printed, overlapped>>
    BY <1>1, <1>3 DEF ReadHigh, Goes, History, registers
  <2>2. Cursor' = Cursor /\ index = 14 /\ (text[t] # <<>> \/ Cursor < Area)
    BY <2>1 DEF Cursor, PointOK, Reading
  <2>3. offset'[t] = high * Base
    BY <1>1, <2>1, <2>2 DEF Data
  <2>4. Where(t)' = Where(t)
    BY <2>1, <2>2 DEF Where, Setting
  <2>5. PointOK(t)'
    BY <2>1, <2>2, <2>3 DEF PointOK, Reading, Setting
  <2> QED BY <2>1, <2>4, <2>5, ShownCarries DEF Continued
<1>4. CASE Select(t, "select_low", "read_low", 15)
  <2>1. /\ pc[t] = "select_low" /\ pc'[t] = "read_low" /\ index' = 15
        /\ UNCHANGED <<cells, high, low, offset, text, goal, printed, overlapped>>
    BY <1>1, <1>4 DEF Select, Goes, History
  <2>2. Cursor' = Cursor
    BY <2>1 DEF Cursor
  <2>3. Where(t)' = Where(t)
    BY <2>1, <2>2 DEF Where, Setting
  <2>4. PointOK(t)'
    BY <2>1, <2>2 DEF PointOK, Reading, Setting
  <2> QED BY <2>1, <2>3, <2>4, ShownCarries DEF Continued
<1>5. CASE ReadLow(t)
  <2>1. /\ pc[t] = "read_low" /\ pc'[t] = "print"
        /\ offset' = [offset EXCEPT ![t] = offset[t] + Data]
        /\ UNCHANGED <<cells, index, high, low, text, goal, printed, overlapped>>
    BY <1>1, <1>5 DEF ReadLow, Goes, History, registers
  <2>2. /\ index = 15 /\ (text[t] # <<>> \/ Cursor < Area)
        /\ offset[t] = high * Base
    BY <2>1 DEF PointOK, Reading
  <2>3. offset'[t] = Cursor
    BY <1>1, <2>1, <2>2 DEF Data, Cursor
  <2>4. Where(t)' = Where(t)
    BY <2>1, <2>3 DEF Where, Setting
  <2>5. PointOK(t)'
    BY <2>1, <2>2, <2>3 DEF PointOK, Reading, Setting
  <2> QED BY <2>1, <2>4, <2>5, ShownCarries DEF Continued
<1> QED BY <1>2, <1>3, <1>4, <1>5 DEF GetCursorOffset

LEMMA AlonePrintsChar ==
  ASSUME NEW t, AloneAt(t), PrintChar(t)
  PROVE  pc'[t] # "idle" /\ Continued(t)
<1> USE DEF AloneAt
<1> DEFINE char == Head(text[t])  rest == Tail(text[t])  at == offset[t]
           next == After(char, at)
           s1 == ShowChar([m |-> cells, at |-> at], char)
<1>1. /\ pc \in [Printers -> {"idle", "print"} \cup Reading \cup Setting]
      /\ offset \in [Printers -> Nat] /\ goal \in [Printers -> Nat] /\ t \in Printers
      /\ text \in [Printers -> Seq(Chars)] /\ text[t] \in Seq(Chars)
  BY DEF ScreenTypes
<1>2. /\ text[t] # <<>> /\ pc[t] = "print" /\ printed' = printed /\ overlapped' = overlapped
      /\ offset'[t] = next /\ text'[t] = rest
      /\ cells' = s1.m
      /\ s1.at = IF Beyond(next) THEN LastRow ELSE next
      /\ IF Beyond(next) THEN pc'[t] = "set_high" /\ goal'[t] = LastRow
         ELSE pc'[t] = "print"
  BY <1>1 DEF PrintChar, Goes, History, ShowChar
<1>3. Area \in Nat /\ LastRow \in 0..(Area - 1)
  BY Geometry
<1>4. char \in Chars /\ rest \in Seq(Chars) /\ text[t] = <<char>> \o rest
  BY <1>1, <1>2
<1>5. Where(t)' = s1.at
  BY <1>2 DEF Where, Setting
<1>6. next \in Nat
  <2>1. at \in Nat /\ Cols \in Nat \ {0}
    BY <1>1, Geometry
  <2>2. (at \div Cols + 1) * Cols \in Nat
    <3>1. at \div Cols \in Nat
      BY <2>1, Division
    <3> QED BY <2>1, <3>1
  <2> QED BY <2>1, <2>2 DEF After
<1> HIDE DEF next, s1
<1>7. PointOK(t)'
  <2>1. CASE Beyond(next)
    <3>1. next # LastRow
      BY <1>3, <1>6, <2>1 DEF Beyond
    <3> QED BY <1>2, <1>3, <2>1, <3>1 DEF PointOK, Reading, Setting
  <2>2. CASE ~Beyond(next)
    <3>1. next < Area
      BY <1>3, <1>6, <2>2 DEF Beyond
    <3> QED BY <1>2, <2>2, <3>1 DEF PointOK, Reading, Setting
  <2> QED BY <2>1, <2>2
<1>8. ASSUME ~overlapped PROVE ShownOK(t)'
  <2>1. PICK s \in Seq(Chars), k \in Nat :
          printed = s \o text[t] /\ Shows(Roll(s), k, cells, at)
    BY <1>2, <1>8 DEF ShownOK, Where
  <2>2. /\ Append(s, char) \in Seq(Chars)
        /\ printed = Append(s, char) \o rest
    <3> HIDE DEF char, rest
    <3>1. /\ Append(s, char) \in Seq(Chars)
          /\ Append(s, char) = s \o <<char>> /\ <<char>> \in Seq(Chars)
      BY <1>4, AppendIsConcat
    <3>2. (s \o <<char>>) \o rest = s \o (<<char>> \o rest)
      BY <1>4, <3>1, ConcatAssociative
    <3> QED BY <1>4, <2>1, <3>1, <3>2
  <2>3. Roll(Append(s, char)) = RollChar(Roll(s), char)
    BY <1>4, RollAppend
  <2>4. PICK k2 \in {k, k + 1} : Shows(RollChar(Roll(s), char), k2, s1.m, s1.at)
    BY <2>1, ShowsNext DEF s1
  <2>5. Shows(Roll(Append(s, char)), k2, cells', Where(t)')
    BY <1>2, <1>5, <2>3, <2>4
  <2>6. k2 \in Nat /\ printed' = Append(s, char) \o text'[t]
    BY <1>2, <2>2
  <2> QED BY <2>2, <2>5, <2>6 DEF ShownOK
<1> QED BY <1>2, <1>7, <1>8 DEF Continued

LEMMA AloneEnds ==
  ASSUME NEW t, AloneAt(t), EndOfText(t)
  PROVE  pc'[t] # "idle" /\ Continued(t)
<1> USE DEF AloneAt
<1>1. /\ text[t] = <<>> /\ pc[t] = "print" /\ pc'[t] = "set_high"
      /\ goal'[t] = offset[t]
      /\ UNCHANGED <<cells, offset, text, printed, overlapped>>
  BY DEF EndOfText, Goes, History, ScreenTypes
<1>2. offset[t] < Area
  BY <1>1 DEF PointOK
<1>3. PointOK(t)'
  BY <1>1, <1>2 DEF PointOK, Reading, Setting
<1>4. Where(t)' = Where(t)
  BY <1>1 DEF Where, Setting
<1> QED BY <1>1, <1>3, <1>4, ShownCarries DEF Continued

LEMMA AloneSets ==
  ASSUME NEW t, AloneAt(t), SetCursorOffset(t), Busy = {t}
  PROVE  /\ pc'[t] # "idle" => Continued(t)
         /\ pc'[t] = "idle" => Cursor' < Area /\ (~overlapped => IdleOK')
<1> USE DEF AloneAt
<1>1. /\ pc \in [Printers -> {"idle", "print"} \cup Reading \cup Setting]
      /\ t \in Printers /\ goal[t] \in Nat
  BY DEF ScreenTypes
<1>2. /\ pc[t] \in Setting /\ goal[t] < Area /\ (goal[t] = offset[t] => text[t] = <<>>)
      /\ UNCHANGED <<cells, offset, text, goal, printed, overlapped>>
  BY DEF SetCursorOffset, Select, Write, Goes, History, PointOK, Setting
<1>3. Where(t) = goal[t]
  BY <1>2 DEF Where, Setting
<1>4. CASE Select(t, "set_high", "write_high", 14)
  <2>1. pc'[t] = "write_high" /\ index' = 14
    BY <1>1, <1>4 DEF Select, Goes
  <2>2. PointOK(t)' /\ Where(t)' = Where(t)
    BY <1>2, <1>3, <2>1 DEF PointOK, Where, Reading, Setting
  <2> QED BY <1>2, <2>1, <2>2, ShownCarries DEF Continued
<1>5. CASE Write(t, "write_high", "set_low", (goal[t] \div Base) % Base)
  <2>1. /\ pc[t] = "write_high" /\ pc'[t] = "set_low"
        /\ index = 14 => high' = (goal[t] \div Base) % Base
    BY <1>1, <1>5 DEF Write, Goes
  <2>2. high' = goal[t] \div Base
    BY <1>1, <1>2, <2>1, CursorHalves DEF PointOK
  <2>3. PointOK(t)' /\ Where(t)' = Where(t)
    BY <1>2, <1>3, <2>1, <2>2 DEF PointOK, Where, Reading, Setting
  <2> QED BY <1>2, <2>1, <2>3, ShownCarries DEF Continued
<1>6. CASE Select(t, "set_low", "write_low", 15)
  <2>1. pc[t] = "set_low" /\ pc'[t] = "write_low" /\ index' = 15 /\ high' = high
    BY <1>1, <1>6 DEF Select, Goes
  <2>2. PointOK(t)' /\ Where(t)' = Where(t)
    BY <1>2, <1>3, <2>1 DEF PointOK, Where, Reading, Setting
  <2> QED BY <1>2, <2>1, <2>2, ShownCarries DEF Continued
<1>7. CASE Write(t, "write_low", IF goal[t] = offset[t] THEN "idle" ELSE "select_high",
                 goal[t] % Base)
  <2>1. /\ pc[t] = "write_low"
        /\ pc' = [pc EXCEPT ![t] = IF goal[t] = offset[t] THEN "idle" ELSE "select_high"]
        /\ index # 14 => low' = goal[t] % Base /\ high' = high
    BY <1>1, <1>7 DEF Write, Goes
  <2>2. index = 15 /\ high = goal[t] \div Base
    BY <2>1 DEF PointOK
  <2>3. Cursor' = goal[t]
    BY <1>1, <1>2, <2>1, <2>2, CursorHalves DEF Cursor
  <2>4. CASE goal[t] # offset[t]
    <3>1. pc'[t] = "select_high"
      BY <1>1, <2>1, <2>4
    <3>2. PointOK(t)' /\ Where(t)' = Where(t)
      BY <1>2, <1>3, <2>3, <3>1 DEF PointOK, Where, Reading, Setting
    <3> QED BY <1>2, <3>1, <3>2, ShownCarries DEF Continued
  <2>5. CASE goal[t] = offset[t]
    <3>1. pc'[t] = "idle" /\ Cursor' < Area
      BY <1>1, <1>2, <2>1, <2>3, <2>5
    <3>2. ASSUME ~overlapped PROVE IdleOK'
      <4>1. PICK s \in Seq(Chars), k \in Nat :
              printed = s \o text[t] /\ Shows(Roll(s), k, cells, goal[t])
        BY <1>3, <3>2 DEF ShownOK
      <4>2. printed = s
        BY <1>2, <2>5, <4>1
      <4> QED BY <1>2, <2>3, <4>1, <4>2 DEF IdleOK
    <3> QED BY <3>1, <3>2
  <2> QED BY <2>4, <2>5
<1> QED BY <1>4, <1>5, <1>6, <1>7 DEF SetCursorOffset

LEMMA KPrintStepKeeps ==
  ASSUME ScreenOK, NEW t \in Printers, KPrintStep(t)
  PROVE  /\ ScreenOK'
         /\ t \in alone /\ pc'[t] = "idle" => Cursor' < Area
<1> DEFINE Half(n) == (n \div Base) % Base
<1>1. /\ ScreenTypes /\ AloneOK /\ printed' = printed
      /\ overlapped' = overlapped /\ alone' = alone /\ pc[t] # "idle"
      /\ Base \in Nat \ {0} /\ Cursor \in Nat
  BY CursorIsNumber, Geometry
     DEF ScreenOK, KPrintStep, GetCursorOffset, SetCursorOffset, Select, ReadHigh, ReadLow,
         PrintChar, EndOfText, Write, Goes, History
<1>2. PICK to \in {"idle", "print"} \cup Reading \cup Setting :
        pc' = [pc EXCEPT ![t] = to]
  <2> DEFINE P == {"idle", "print"} \cup Reading \cup Setting
  <2>1. \E to \in P : pc' = [pc EXCEPT ![t] = to]
    BY DEF KPrintStep, GetCursorOffset, SetCursorOffset, Select, ReadHigh, ReadLow,
         PrintChar, EndOfText, Write, Goes, Reading, Setting
  <2> QED BY <2>1
<1>3. ScreenTypes'
  <2>1. Data \in 0..(Base - 1)
    BY <1>1 DEF ScreenTypes, Data
  <2>2. pc' \in [Printers -> {"idle", "print"} \cup Reading \cup Setting]
    BY <1>1, <1>2 DEF ScreenTypes
  <2>3. ASSUME NEW from, NEW p, NEW r \in {14, 15}, Select(t, from, p, r)
        PROVE  ScreenTypes'
    BY <1>1, <2>2, <2>3 DEF Select, ScreenTypes
  <2>4. CASE ReadHigh(t)
    <3>1. Data * Base \in Nat
      BY <1>1, <2>1
    <3> QED BY <1>1, <2>2, <2>4, <3>1 DEF ReadHigh, ScreenTypes, registers
  <2>5. CASE ReadLow(t)
    <3>1. offset[t] + Data \in Nat
      BY <1>1, <2>1 DEF ScreenTypes
    <3> QED BY <1>1, <2>2, <2>5, <3>1 DEF ReadLow, ScreenTypes, registers
  <2>6. ASSUME NEW from, NEW p, NEW byte \in 0..(Base - 1), Write(t, from, p, byte)
        PROVE  ScreenTypes'
    BY <1>1, <2>2, <2>6 DEF Write, ScreenTypes
  <2>7. CASE PrintChar(t)
    <3>1. After(Head(text[t]), offset[t]) \in Nat
      <4>1. offset[t] \in Nat /\ Cols \in Nat \ {0}
        BY <1>1, Geometry DEF ScreenTypes
      <4>2. offset[t] \div Cols \in Nat
        BY <4>1, Division
      <4>3. (offset[t] \div Cols + 1) * Cols \in Nat
        BY <4>1, <4>2
      <4> QED BY <4>1, <4>3 DEF After
    <3>2. Tail(text[t]) \in Seq(Chars) /\ LastRow \in Nat
      BY <1>1, <2>7, Geometry DEF PrintChar, ScreenTypes
    <3>3. /\ offset' = [offset EXCEPT ![t] = After(Head(text[t]), offset[t])]
          /\ goal' = [goal EXCEPT ![t] = LastRow] \/ UNCHANGED goal
          /\ text' = [text EXCEPT ![t] = Tail(text[t])]
          /\ UNCHANGED <<index, high, low>>
      BY <2>7 DEF PrintChar, registers
    <3> QED BY <1>1, <2>2, <3>1, <3>2, <3>3 DEF ScreenTypes
  <2>8. CASE EndOfText(t)
    BY <1>1, <2>2, <2>8 DEF EndOfText, ScreenTypes, registers
  <2>9. goal[t] \in Nat
    BY <1>1 DEF ScreenTypes
  <2>10. CASE GetCursorOffset(t)
    BY <2>3, <2>4, <2>5, <2>10 DEF GetCursorOffset
  <2>11. CASE SetCursorOffset(t)
    BY <2>3, <2>6, <2>9, <2>11, CursorHalves DEF SetCursorOffset
  <2> QED BY <2>7, <2>8, <2>10, <2>11 DEF KPrintStep
<1>4. /\ pc'[t] = to /\ Busy' \subseteq Busy /\ t \in Busy
      /\ Busy' = IF to = "idle" THEN Busy \ {t} ELSE Busy
  BY <1>1, <1>2 DEF Busy, ScreenTypes
<1>5. AloneOK'
  BY <1>1, <1>4 DEF AloneOK
<1>6. CASE t \notin alone
  <2>1. alone' = {} /\ overlapped'
    BY <1>1, <1>6, NotAlone
  <2> QED BY <1>3, <1>5, <1>6, <2>1 DEF ScreenOK
<1>7. CASE t \in alone
  <2>1. /\ alone = {t} /\ Busy = {t} /\ PointOK(t) /\ (~overlapped => ShownOK(t))
    BY <1>1, <1>4, <1>7 DEF ScreenOK, AloneOK
  <2>2. /\ to # "idle" => PointOK(t)' /\ (~overlapped => ShownOK(t)')
        /\ to = "idle" => Cursor' < Area /\ (~overlapped => IdleOK')
    <3>1. AloneAt(t)
      BY <1>1, <2>1 DEF AloneAt
    <3>2. CASE GetCursorOffset(t)
      BY <1>4, <3>1, <3>2, AloneReads DEF Continued
    <3>3. CASE PrintChar(t)
      BY <1>4, <3>1, <3>3, AlonePrintsChar DEF Continued
    <3>4. CASE EndOfText(t)
      BY <1>4, <3>1, <3>4, AloneEnds DEF Continued
    <3>5. CASE SetCursorOffset(t)
      BY <1>4, <2>1, <3>1, <3>5, AloneSets DEF Continued
    <3> QED BY <3>2, <3>3, <3>4, <3>5 DEF KPrintStep
  <2>3. \A u \in alone' \cap Busy' : PointOK(u)' /\ (~overlapped' => ShownOK(u)')
    <3> SUFFICES ASSUME t \in Busy' PROVE PointOK(t)' /\ (~overlapped' => ShownOK(t)')
      BY <1>1, <2>1
    <3> QED BY <1>1, <1>4, <2>2
  <2>4. ~overlapped' => IdleOK'
    <3>1. CASE to = "idle"
      BY <1>1, <2>2, <3>1
    <3>2. CASE to # "idle"
      BY <1>4, <3>2 DEF IdleOK
    <3> QED BY <3>1, <3>2
  <2> QED BY <1>3, <1>4, <1>5, <2>2, <2>3, <2>4 DEF ScreenOK
<1> QED BY <1>6, <1>7

-----------------------------------------------------------------------------
(* entry begins with a clear screen, and with interrupts off.              *)
StartOK ==
  step = "clear_screen" =>
    /\ ~on /\ Busy = {} /\ printed = <<>> /\ ~overlapped /\ alone = {}
    /\ cells = [i \in Memory |-> Blank]

ScreenInv == ScreenOK /\ StartOK

HealsStep ==
  /\ \A t \in alone : pc[t] # "idle" /\ pc'[t] = "idle" => Cursor' < Area
  /\ Busy \cup Busy' = {} /\ cells' # cells => Cursor' < Area

LEMMA BlankShows == Shows(Roll(<<>>), 0, [i \in Memory |-> Blank], 0)
<1>1. Roll(<<>>) = [cell |-> <<>>, at |-> 0]
  BY RollNothing
<1>2. DOMAIN <<>> = {}
  OBVIOUS
<1>3. /\ Cols * 0 = 0 /\ Area \in Nat \ {0} /\ Roll(<<>>).at = 0
      /\ \A j : j \notin DOMAIN Roll(<<>>).cell
  BY <1>1, <1>2, Geometry
<1> HIDE DEF Shows
<1> QED BY <1>3 DEF Shows, CellOf

LEMMA InitScreen == Init => ScreenInv
<1> SUFFICES ASSUME Init PROVE ScreenInv
  OBVIOUS
<1>1. /\ cells = [i \in Memory |-> Blank] /\ index = 0 /\ high = 0 /\ low = 0
      /\ pc = [t \in Printers |-> "idle"] /\ offset = [t \in Printers |-> 0]
      /\ text = [t \in Printers |-> <<>>] /\ goal = [t \in Printers |-> 0]
      /\ printed = <<>> /\ overlapped = FALSE /\ alone = {} /\ ~on
  BY DEF Init, ScreenInit
<1>2. Busy = {}
  BY <1>1 DEF Busy
<1>3. ScreenTypes
  <2>1. <<>> \in Seq(Chars) /\ 0 \in 0..(Base - 1)
    BY Geometry
  <2> QED BY <1>1, <2>1 DEF ScreenTypes
<1>4. IdleOK
  <2>1. Cursor = 0
    BY <1>1, Geometry DEF Cursor
  <2> QED BY <1>1, <2>1, BlankShows DEF IdleOK
<1> QED BY <1>1, <1>2, <1>3, <1>4 DEF ScreenInv, ScreenOK, AloneOK, StartOK

LEMMA ScreenSame ==
  ASSUME ScreenOK, UNCHANGED screen
  PROVE  ScreenOK' /\ HealsStep
<1>1. UNCHANGED <<cells, index, high, low, pc, offset, text, goal, printed, overlapped,
                  alone>>
  BY DEF screen, registers, printers
<1>2. ScreenTypes' /\ AloneOK' /\ Cursor' = Cursor /\ Busy' = Busy
  BY <1>1 DEF ScreenOK, ScreenTypes, AloneOK, Cursor, Busy
<1>3. \A t : PointOK(t)' <=> PointOK(t)
  BY <1>1, <1>2 DEF PointOK
<1>4. \A t : ShownOK(t)' <=> ShownOK(t)
  BY <1>1, <1>2 DEF ShownOK, Where
<1>5. IdleOK' <=> IdleOK
  BY <1>1, <1>2 DEF IdleOK
<1>6. ScreenOK'
  BY <1>1, <1>2, <1>3, <1>4, <1>5 DEF ScreenOK
<1> QED BY <1>1, <1>6 DEF HealsStep

(* A step of Continues may end the print that is alone.                    *)
LEMMA StepHeals ==
  ASSUME ScreenOK, NEW t \in Printers, KPrintStep(t)
  PROVE  ScreenOK' /\ HealsStep
<1>1. ScreenOK' /\ (t \in alone /\ pc'[t] = "idle" => Cursor' < Area)
  BY KPrintStepKeeps
<1>2. pc[t] # "idle" /\ \A u \in alone : u # t => pc'[u] = pc[u]
  BY DEF ScreenOK, ScreenTypes, KPrintStep, GetCursorOffset, SetCursorOffset, Select,
     ReadHigh, ReadLow, PrintChar, EndOfText, Write, Goes
<1>3. t \in Busy
  BY <1>2 DEF Busy
<1> QED BY <1>1, <1>2, <1>3 DEF HealsStep

LEMMA ScreenStep == ScreenInv /\ [Next]_vars => ScreenInv' /\ HealsStep
<1> SUFFICES ASSUME ScreenInv, [Next]_vars PROVE ScreenInv' /\ HealsStep
  OBVIOUS
<1>1. ScreenOK /\ StartOK
  BY DEF ScreenInv
<1>2. CASE EntryClears
  <2>1. /\ step = "clear_screen" /\ step' = "welcome" /\ ClearScreen
    BY <1>2 DEF EntryClears, At
  <2>2. /\ Busy = {} /\ printed = <<>> /\ alone = {} /\ ~overlapped
        /\ cells = [i \in Memory |-> Blank]
    BY <1>1, <2>1 DEF StartOK
  <2>3. /\ cells' = [i \in Memory |-> IF i < Area THEN Blank ELSE cells[i]]
        /\ SetCursor(0)
        /\ UNCHANGED <<pc, offset, text, goal, printed, overlapped, alone>>
    BY <2>1 DEF ClearScreen, printers
  <2>4. cells' = cells
    BY <2>2, <2>3
  <2>5. /\ index' \in Nat /\ high' \in 0..(Base - 1) /\ low' \in 0..(Base - 1)
        /\ Cursor' = 0
    BY <2>3, CursorIsSet, Geometry
  <2>6. ScreenTypes'
    BY <1>1, <2>3, <2>5 DEF ScreenOK, ScreenTypes
  <2>7. Busy' = {}
    BY <2>2, <2>3 DEF Busy
  <2>8. IdleOK'
    BY <2>2, <2>3, <2>4, <2>5, BlankShows DEF IdleOK
  <2>9. ScreenOK'
    BY <2>2, <2>3, <2>6, <2>7, <2>8 DEF ScreenOK, AloneOK
  <2> QED BY <2>1, <2>2, <2>4, <2>9 DEF ScreenInv, StartOK, HealsStep
<1>3. CASE EntryPrints
  <2>1. /\ step' = "isr_install" /\ KPrint(Entry0, Welcome)
        /\ Entry0 \in Printers /\ Welcome \in Messages
    BY <1>3, BootAssumption, SpokenAreTexts DEF EntryPrints, At
  <2>2. ScreenOK'
    BY <1>1, <2>1, KPrintKeeps
  <2>3. HealsStep
    BY <1>1, <2>1 DEF KPrint, HealsStep, ScreenOK, ScreenTypes
  <2> QED BY <2>1, <2>2, <2>3 DEF ScreenInv, StartOK
<1>4. CASE InstallIsr \/ EnableInterrupts \/ PitInit \/ KeyboardInit \/ KheapInit \/ PagingInits
  <2>1. UNCHANGED screen /\ step' # "clear_screen"
    BY <1>4 DEF InstallIsr, EnableInterrupts, PitInit, KeyboardInit, KheapInit, PagingInits,
        At
  <2> QED BY <1>1, <2>1, ScreenSame DEF ScreenInv, StartOK
<1>5. CASE \E k \in Keys : KeyPressed(k)
  <2>1. UNCHANGED <<screen, step, on>>
    BY <1>5 DEF KeyPressed
  <2>2. Busy' = Busy
    BY <2>1 DEF Busy, screen, printers
  <2>3. StartOK'
    BY <1>1, <2>1, <2>2 DEF StartOK, screen
  <2> QED BY <1>1, <2>1, <2>3, ScreenSame DEF ScreenInv
<1>6. CASE IrqHandler
  <2>1. on /\ UNCHANGED <<step, on>>
    BY <1>6 DEF IrqHandler
  <2>2. StartOK'
    BY <1>1, <2>1 DEF StartOK
  <2>3. CASE UNCHANGED screen
    BY <1>1, <2>2, <2>3, ScreenSame DEF ScreenInv
  <2>4. CASE KeyboardCallback(waiting)
    <3> DEFINE message == Append(PrintLetter(waiting), NewLine)
    <3>1. message \in Messages
      <4>1. PrintLetter(waiting) \in Seq(Chars)
        <5>1. /\ Unknown \in Seq(Chars) /\ Released \in Seq(Chars)
              /\ \A k \in DOMAIN Names : Names[k] \in Seq(Chars)
          BY SpokenAreTexts DEF Spoken
        <5> QED BY <5>1 DEF PrintLetter
      <4>2. NewLine \in Chars
        BY DEF Chars
      <4> QED BY <4>1, <4>2, AppendProperties DEF Messages
    <3>2. PrintAtOnce(message)
      BY <2>4 DEF KeyboardCallback
    <3> HIDE DEF message
    <3>3. ScreenOK' /\ Cursor' < Area
      BY <1>1, <3>1, <3>2, PrintAtOnceKeeps
    <3>4. pc' = pc
      BY <3>2 DEF PrintAtOnce, printers
    <3> QED BY <2>2, <3>3, <3>4 DEF ScreenInv, HealsStep
  <2> QED BY <1>6, <2>3, <2>4 DEF IrqHandler
<1>7. CASE \E t \in Printers \ {Entry0}, message \in Texts : TaskPrints(t, message)
  <2>1. PICK t \in Printers, message \in Messages : KPrint(t, message) /\ step' = "up"
    BY <1>7, SpokenAreTexts DEF TaskPrints
  <2>2. ScreenOK'
    BY <1>1, <2>1, KPrintKeeps
  <2>3. HealsStep
    BY <1>1, <2>1 DEF KPrint, HealsStep, ScreenOK, ScreenTypes
  <2> QED BY <2>1, <2>2, <2>3 DEF ScreenInv, StartOK
<1>8. CASE \E t \in Printers : Continues(t)
  <2>1. PICK t \in Printers : KPrintStep(t) /\ UNCHANGED <<step, on>>
    BY <1>8 DEF Continues
  <2>2. t \in Busy
    BY <2>1 DEF KPrintStep, GetCursorOffset, SetCursorOffset, Select, ReadHigh, ReadLow,
     PrintChar, EndOfText, Write, Goes, Busy
  <2>3. StartOK'
    BY <1>1, <2>1, <2>2 DEF StartOK
  <2> QED BY <1>1, <2>1, <2>3, StepHeals DEF ScreenInv
<1>9. CASE TaskTakesPage
  <2>1. UNCHANGED screen /\ step' = "up"
    BY <1>9 DEF TaskTakesPage
  <2> QED BY <1>1, <2>1, ScreenSame DEF ScreenInv, StartOK
<1>10. CASE Restart
  <2>1. /\ Busy = {} /\ pc' = pc /\ text' = text /\ ~on'
        /\ cells' = [i \in Memory |-> Blank] /\ index' = 0 /\ high' = 0 /\ low' = 0
        /\ offset' = [t \in Printers |-> 0] /\ goal' = [t \in Printers |-> 0]
        /\ printed' = <<>> /\ overlapped' = FALSE /\ alone' = {}
    BY <1>10 DEF Restart
  <2>2. Busy' = {}
    BY <2>1 DEF Busy
  <2>3. Cursor' = 0 /\ 0 < Area
    BY <2>1, Geometry DEF Cursor
  <2>4. ScreenTypes'
    <3>1. <<>> \in Seq(Chars) /\ 0 \in 0..(Base - 1)
      BY Geometry
    <3> QED BY <1>1, <2>1, <3>1 DEF ScreenOK, ScreenTypes
  <2>5. IdleOK'
    BY <2>1, <2>3, BlankShows DEF IdleOK
  <2> QED BY <2>1, <2>2, <2>3, <2>4, <2>5
          DEF ScreenInv, ScreenOK, AloneOK, StartOK, HealsStep
<1>11. CASE UNCHANGED vars
  <2>1. UNCHANGED <<screen, step, on>>
    BY <1>11 DEF vars
  <2>2. Busy' = Busy
    BY <2>1 DEF Busy, screen, printers
  <2>3. StartOK'
    BY <1>1, <2>1, <2>2 DEF StartOK, screen
  <2> QED BY <1>1, <2>1, <2>3, ScreenSame DEF ScreenInv
<1> QED BY <1>2, <1>3, <1>4, <1>5, <1>6, <1>7, <1>8, <1>9, <1>10, <1>11 DEF Next

LEMMA ScreenHolds == Spec => []ScreenInv
<1> QED BY InitScreen, ScreenStep, PTL DEF Spec

(* While no prints have overlapped and none is under way, the screen shows *)
(* the end of everything printed, down to the row the cursor is in.        *)
THEOREM ScreenShowsText == Spec => []ShowsText
<1>1. ScreenInv => ShowsText
  <2> SUFFICES ASSUME ScreenInv, ~overlapped, Busy = {} PROVE ShowsText
    BY DEF ShowsText
  <2>1. PICK k \in Nat : Shows(Roll(printed), k, cells, Cursor)
    BY DEF ScreenInv, ScreenOK, IdleOK
  <2> QED BY <2>1, ShowsIsRollsEnd DEF ShowsText
<1> QED BY ScreenHolds, <1>1, PTL

(* A print that overlaps no other leaves the cursor on the screen, wherever *)
(* overlapping prints have left it.                                        *)
THEOREM LostCursorComesBack == Spec => AlonePrintHeals
<1>1. ScreenInv /\ [Next]_vars => [HealsStep]_screen
  BY ScreenStep
<1> QED BY ScreenHolds, <1>1, PTL DEF Spec, AlonePrintHeals, HealsStep
=============================================================================
