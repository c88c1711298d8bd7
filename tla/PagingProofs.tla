---------------------------- MODULE PagingProofs ----------------------------
(***************************************************************************)
(* Proofs about paging.c, for every amount of memory, every shape of the   *)
(* tables, every heap and stack and any number of address spaces: frames   *)
(* are exclusive, the kernel's tables are shared and all others private,   *)
(* and initialize_paging maps everything placed in front of the heap to    *)
(* the frames of its own addresses, although it places tables while it     *)
(* maps.                                                                   *)
(***************************************************************************)
EXTENDS Paging, WellFoundedInduction, TLAPS

(* Every nonempty set of naturals has a least element. *)
LEMMA LeastElement ==
    ASSUME NEW S \in SUBSET Nat, S # {}
    PROVE  \E f \in S : \A g \in S : f <= g
<1> DEFINE R == OpToRel(<, Nat)
<1>1. IsWellFoundedOn(R, Nat)
    BY NatLessThanWellFounded
<1>2. \A x, y \in Nat : <<x, y>> \in R <=> x < y
    BY DEF OpToRel
<1> HIDE DEF R
<1>3. \E f \in S : \A g \in S : ~ (<<g, f>> \in R)
    BY <1>1, WFMin
<1>4. PICK f \in S : \A g \in S : ~ (<<g, f>> \in R)
    BY <1>3
<1>5. ASSUME NEW g \in S PROVE f <= g
    <2>1. ~ (<<g, f>> \in R)
        BY <1>4
    <2>2. ~ (g < f) /\ f \in Nat /\ g \in Nat
        BY <1>2, <2>1
    <2> QED
        BY <2>2
<1> QED
    BY <1>5

(* first_frame returns a frame whose bit is clear, or 0 if there is none.   *)
LEMMA FirstFrame ==
    ASSUME frames \subseteq Frames
    PROVE  first_frame \in Frames /\ (first_frame = 0 \/ first_frame \notin frames)
<1>1. CASE Frames \subseteq frames
    BY <1>1, FramesAssumption DEF first_frame, Frames
<1>2. CASE ~ (Frames \subseteq frames)
    <2> DEFINE S == Frames \ frames
    <2>1. S \in SUBSET Nat /\ S # {}
        BY <1>2 DEF Frames
    <2>2. \E f \in S : \A g \in S : f <= g
        <3> HIDE DEF S
        <3> QED
            BY <2>1, LeastElement
    <2>3. first_frame \in S
        BY <1>2, <2>2 DEF first_frame
    <2> QED
        BY <2>3
<1> QED
    BY <1>1, <1>2

(* Every virtual page has a place in a table of a directory.                *)
LEMMA PlaceOfPage ==
    ASSUME NEW v \in Vpns
    PROVE  TableOf(v) \in Tables /\ v % ENTRIES \in Entries
<1>1. v \in Nat /\ v < NTABLES * ENTRIES /\ ENTRIES \in Nat /\ ENTRIES > 0 /\ NTABLES \in Nat /\ NTABLES > 0
    BY TablesAssumption DEF Vpns
<1> DEFINE q == v \div ENTRIES
           r == v % ENTRIES
<1>2. v = ENTRIES * q + r /\ r \in 0 .. ENTRIES - 1 /\ q \in Int
    BY <1>1
<1> HIDE DEF q, r
<1>3. q >= 0
    BY <1>1, <1>2
<1>4. q < NTABLES
    <2> SUFFICES ASSUME q >= NTABLES PROVE FALSE
        BY <1>1, <1>2
    <2>1. ENTRIES * q >= ENTRIES * NTABLES
        BY <1>1, <1>2
    <2> QED
        BY <1>1, <1>2, <2>1
<1> QED
    BY <1>1, <1>2, <1>3, <1>4 DEF q, r, TableOf, Tables, Entries

-----------------------------------------------------------------------------
(* Pages and their tables *)

LEMMA TimesMonotonic ==
    ASSUME NEW a \in Nat, NEW b \in Nat, NEW c \in Nat, a <= b
    PROVE  c * a <= c * b
OBVIOUS

LEMMA DivMod ==
    ASSUME NEW v \in Nat
    PROVE  /\ TableOf(v) \in Nat /\ v % ENTRIES \in 0 .. ENTRIES - 1
           /\ v = ENTRIES * TableOf(v) + (v % ENTRIES)
<1>1. ENTRIES \in Nat /\ ENTRIES > 0
    BY TablesAssumption
<1> DEFINE q == v \div ENTRIES
           r == v % ENTRIES
<1>2. v = ENTRIES * q + r /\ r \in 0 .. ENTRIES - 1 /\ q \in Int
    BY <1>1
<1> HIDE DEF q, r
<1>3. q >= 0
    BY <1>1, <1>2
<1> QED BY <1>2, <1>3 DEF q, r, TableOf

LEMMA DivUnique ==
    ASSUME NEW v \in Nat, NEW q \in Nat, ENTRIES * q <= v, v < ENTRIES * (q + 1)
    PROVE  TableOf(v) = q
<1> DEFINE p == TableOf(v)
           r == v % ENTRIES
<1>1. p \in Nat /\ r \in 0 .. ENTRIES - 1 /\ v = ENTRIES * p + r
    BY DivMod
<1>2. ENTRIES \in Nat /\ ENTRIES > 0
    BY TablesAssumption
<1> HIDE DEF p, r
<1>3. ~ (p + 1 <= q)
    <2> SUFFICES ASSUME p + 1 <= q PROVE FALSE
        OBVIOUS
    <2>1. ENTRIES * (p + 1) <= ENTRIES * q
        BY <1>1, <1>2, TimesMonotonic
    <2>2. ENTRIES * (p + 1) = ENTRIES * p + ENTRIES
        BY <1>1, <1>2
    <2> QED BY <1>1, <1>2, <2>1, <2>2
<1>4. ~ (q + 1 <= p)
    <2> SUFFICES ASSUME q + 1 <= p PROVE FALSE
        OBVIOUS
    <2>1. ENTRIES * (q + 1) <= ENTRIES * p
        BY <1>1, <1>2, TimesMonotonic
    <2> QED BY <1>1, <1>2, <2>1
<1>5. p = q
    BY <1>1, <1>3, <1>4
<1> QED BY <1>5 DEF p

LEMMA TableMonotonic ==
    ASSUME NEW v \in Nat, NEW w \in Nat, v <= w
    PROVE  TableOf(v) <= TableOf(w)
<1> DEFINE p == TableOf(v)
           q == TableOf(w)
<1>1. /\ p \in Nat /\ q \in Nat /\ ENTRIES \in Nat /\ ENTRIES > 0
      /\ ENTRIES * p <= v /\ w < ENTRIES * q + ENTRIES
    <2>1. ENTRIES \in Nat /\ ENTRIES > 0
        BY TablesAssumption
    <2>2. p \in Nat /\ v % ENTRIES \in 0 .. ENTRIES - 1 /\ v = ENTRIES * p + (v % ENTRIES)
        BY DivMod
    <2>3. q \in Nat /\ w % ENTRIES \in 0 .. ENTRIES - 1 /\ w = ENTRIES * q + (w % ENTRIES)
        BY DivMod
    <2> HIDE DEF p, q
    <2> QED BY <2>1, <2>2, <2>3
<1> HIDE DEF p, q
<1>2. ~ (q + 1 <= p)
    <2> SUFFICES ASSUME q + 1 <= p PROVE FALSE
        OBVIOUS
    <2>1. ENTRIES * (q + 1) <= ENTRIES * p
        BY <1>1, TimesMonotonic
    <2>2. ENTRIES * (q + 1) = ENTRIES * q + ENTRIES
        BY <1>1
    <2> QED BY <1>1, <2>1, <2>2
<1>3. p <= q
    BY <1>1, <1>2
<1> QED BY <1>3 DEF p, q

(* The places of the tables the heap may come to need. *)
HEAP_PAGES  == HEAP_FIRST .. HEAP_FIRST + HEAP_MAX - 1
HEAP_PLACES == {TableOf(v) : v \in HEAP_PAGES}

LEMMA HeapPlaces ==
    /\ \A v \in HEAP_PAGES : v \in Nat /\ v \in Vpns /\ TableOf(v) \in Tables
    /\ HEAP_PLACES \subseteq Tables /\ GrownTables = HEAP_PLACES \ BootTables
    /\ \A v \in HEAP_FIRST .. HEAP_FIRST + HEAP_INITIAL - 1 : v \in HEAP_PAGES /\ TableOf(v) \in BootTables
    /\ \A v \in HEAP_PAGES : TableOf(v) \in HEAP_PLACES
<1>1. \A v \in HEAP_PAGES : v \in Nat /\ v \in Vpns
    BY HeapAssumption, TablesAssumption DEF Vpns, HEAP_PAGES
<1>2. \A v \in HEAP_PAGES : TableOf(v) \in Tables
    BY <1>1, PlaceOfPage
<1>3. HEAP_PLACES \subseteq Tables /\ \A v \in HEAP_PAGES : TableOf(v) \in HEAP_PLACES
    BY <1>2 DEF HEAP_PLACES
<1>4. \A v \in HEAP_FIRST .. HEAP_FIRST + HEAP_INITIAL - 1 : v \in HEAP_PAGES /\ TableOf(v) \in BootTables
    BY HeapAssumption DEF HEAP_PAGES, BootTables
<1>5. GrownTables = HEAP_PLACES \ BootTables
    BY DEF GrownTables, HEAP_PLACES, HEAP_PAGES
<1> QED BY <1>1, <1>2, <1>3, <1>4, <1>5

(* The stack is in none of them. *)
LEMMA StackApart ==
    ASSUME NEW w \in STACK_TOP - STACK_PAGES .. STACK_TOP
    PROVE  w \in Nat /\ w > 0 /\ w \in Vpns /\ TableOf(w) \notin HEAP_PLACES
<1> DEFINE l == HEAP_FIRST + HEAP_MAX - 1
           b == STACK_TOP - STACK_PAGES
<1>1. /\ w \in Nat /\ w > 0 /\ w \in Vpns /\ b \in Nat /\ b <= w /\ l \in Nat
    BY StackAssumption, HeapAssumption, TablesAssumption DEF Vpns
<1>2. TableOf(l) < TableOf(b)
    BY StackAssumption DEF TableOf
<1> SUFFICES ASSUME NEW v \in HEAP_PAGES, TableOf(v) = TableOf(w) PROVE FALSE
    BY <1>1 DEF HEAP_PLACES
<1>3. v \in Nat /\ v <= l
    BY HeapPlaces, HeapAssumption DEF HEAP_PAGES
<1> HIDE DEF l, b
<1>4. TableOf(v) <= TableOf(l) /\ TableOf(b) <= TableOf(w)
    BY <1>1, <1>3, TableMonotonic
<1>5. TableOf(v) \in Nat /\ TableOf(l) \in Nat /\ TableOf(b) \in Nat /\ TableOf(w) \in Nat
    BY <1>1, <1>3, DivMod
<1> QED BY <1>2, <1>4, <1>5

-----------------------------------------------------------------------------
(* The inductive invariant *)

PageTs == Dirs \X Tables \X Entries

FrameInv ==
    /\ frames \subseteq Frames
    /\ pages \in [PageTs -> Page]
    /\ FramesMarked
    /\ FrameExclusive

Booting == pc \in {"tables", "identity", "heap"}
Cloning == pc \in {"clone", "clone_table"}

(* Where the loop variables are. *)
LoopBounds ==
    /\ pc \in {"tables", "heap"} => i \in HEAP_FIRST .. HEAP_FIRST + HEAP_INITIAL
    /\ pc \in {"tables", "identity"} => heap_pages = 0
    /\ pc = "heap" => heap_pages = i - HEAP_FIRST
    /\ Cloning => i \in 0 .. NTABLES
    /\ pc = "clone_table" => i < NTABLES
    /\ pc = "stack" => i \in STACK_TOP - STACK_PAGES - 1 .. STACK_TOP

(* The kernel directory has a table for every page of the heap, and no      *)
(* other directory has one of its own in a place the heap may grow into.    *)
HeapTables ==
    /\ pc = "tables" => \A v \in HEAP_FIRST .. i - 1 : tables[kernel_directory][TableOf(v)] # NONE
    /\ pc # "tables" => \A t \in BootTables : tables[kernel_directory][t] # NONE
    /\ \A v \in HEAP_FIRST .. HEAP_FIRST + heap_pages - 1 : tables[kernel_directory][TableOf(v)] # NONE
    /\ \A d \in Dirs, t \in HEAP_PLACES :
          d # kernel_directory => tables[d][t] \in {NONE, tables[kernel_directory][t]}

(* Until the first clone there is the kernel directory only, and afterwards *)
(* it is never the current one: only the heap adds a table to it.           *)
DirsInv ==
    /\ Booting => /\ ndirs = 1 /\ current = kernel_directory
                  /\ \A d \in Dirs, t \in Tables : d # kernel_directory => tables[d][t] = NONE
    /\ Cloning => /\ src < ndirs
                  /\ current < ndirs
                  /\ current = kernel_directory => src = kernel_directory
                  /\ src = kernel_directory => ndirs = 2
    /\ ~ Booting /\ ~ Cloning => current # kernel_directory /\ current <= ndirs

(* A clone under way has the kernel's tables up to where it has come.       *)
CloneInv ==
    /\ Cloning => \A t \in 0 .. i - 1 : tables[kernel_directory][t] # NONE
                        => tables[ndirs][t] = tables[kernel_directory][t] \/ Unseen(t)
    /\ pc = "clone_table" => tables[src][i] # NONE /\ tables[kernel_directory][i] = NONE

IInv ==
    /\ TypeOK
    /\ FrameInv
    /\ LoopBounds
    /\ HeapTables
    /\ DirsInv
    /\ CloneInv
    /\ KernelShared
    /\ PrivateTables

-----------------------------------------------------------------------------
(* Frames *)

(* alloc_frame gives a page that has no frame one that no page has.         *)
LEMMA AllocFrameKeeps ==
    ASSUME FrameInv, NEW p \in PageTs, NEW k \in BOOLEAN, NEW w \in BOOLEAN,
           alloc_frame(p, k, w)
    PROVE  FrameInv'
<1>1. CASE pages[p].frame # 0
    BY <1>1 DEF alloc_frame, FrameInv, FramesMarked, FrameExclusive
<1>2. CASE pages[p].frame = 0
    <2> DEFINE f == first_frame
               new == [present |-> TRUE, rw |-> w, user |-> ~ k, frame |-> f]
    <2>1. f \in Frames /\ (f = 0 \/ f \notin frames)
        BY FirstFrame DEF FrameInv
    <2>2. frames' = frames \cup {f} /\ pages' = [pages EXCEPT ![p] = new]
        BY <1>2 DEF alloc_frame
    <2> HIDE DEF f
    <2>3. new \in Page /\ new.frame = f
        BY <2>1 DEF Page
    <2> HIDE DEF new
    <2>4. frames' \subseteq Frames /\ pages' \in [PageTs -> Page]
        BY <2>1, <2>2, <2>3 DEF FrameInv
    <2>5. \A q \in PageTs : pages'[q] = IF q = p THEN new ELSE pages[q]
        BY <2>2 DEF FrameInv
    <2>6. DOMAIN pages = PageTs /\ DOMAIN pages' = PageTs
        BY <2>4 DEF FrameInv
    <2>7. FramesMarked'
        BY <2>2, <2>3, <2>5, <2>6 DEF FramesMarked, FrameInv
    <2>8. FrameExclusive'
        <3> SUFFICES ASSUME NEW a \in PageTs, NEW b \in PageTs,
                            pages'[a].frame # 0, pages'[b].frame = pages'[a].frame
                     PROVE  b = a
            BY <2>6 DEF FrameExclusive
        <3>1. CASE a # p /\ b # p
            BY <2>5, <2>6, <3>1 DEF FrameInv, FrameExclusive
        <3>2. CASE a = p /\ b # p
            BY <2>1, <2>3, <2>5, <2>6, <3>2 DEF FrameInv, FramesMarked
        <3>3. CASE a # p /\ b = p
            BY <2>1, <2>3, <2>5, <2>6, <3>3 DEF FrameInv, FramesMarked
        <3> QED
            BY <3>1, <3>2, <3>3
    <2> QED
        BY <2>4, <2>7, <2>8 DEF FrameInv
<1> QED
    BY <1>1, <1>2

(* free_frame clears the bit of frame 0, which no page counts as its own.   *)
LEMMA FreeFrameKeeps ==
    ASSUME FrameInv, NEW p \in PageTs, free_frame(p)
    PROVE  FrameInv'
<1>1. CASE pages[p].frame = 0
    BY <1>1 DEF free_frame, FrameInv, FramesMarked, FrameExclusive
<1>2. CASE pages[p].frame # 0
    <2> DEFINE new == [pages[p] EXCEPT !.frame = 0]
    <2>1. pages[p] \in Page
        BY DEF FrameInv
    <2>2. new \in Page /\ new.frame = 0
        BY <2>1, FramesAssumption DEF Page, Frames
    <2>3. pages[p].frame \div PAGE_SIZE = 0
        <3>1. pages[p].frame \in 0 .. PAGE_SIZE - 1 /\ PAGE_SIZE \in Nat /\ PAGE_SIZE > 0
            BY <2>1, FramesAssumption DEF Page, Frames
        <3>2. \A x \in 0 .. PAGE_SIZE - 1 : x \div PAGE_SIZE = 0
            BY <3>1
        <3> QED
            BY <3>1, <3>2
    <2>4. frames' = frames \ {0}
        BY <1>2, <2>3 DEF free_frame, clear_frame
    <2>5. pages' = [pages EXCEPT ![p] = new]
        BY <1>2 DEF free_frame
    <2> HIDE DEF new
    <2>6. frames' \subseteq Frames /\ pages' \in [PageTs -> Page]
        BY <2>2, <2>4, <2>5 DEF FrameInv
    <2>7. \A q \in PageTs : pages'[q] = IF q = p THEN new ELSE pages[q]
        BY <2>5 DEF FrameInv
    <2>8. DOMAIN pages = PageTs /\ DOMAIN pages' = PageTs
        BY <2>6 DEF FrameInv
    <2>9. FramesMarked'
        BY <2>2, <2>4, <2>7, <2>8 DEF FramesMarked, FrameInv
    <2>10. FrameExclusive'
        BY <2>2, <2>7, <2>8 DEF FrameExclusive, FrameInv
    <2> QED
        BY <2>6, <2>9, <2>10 DEF FrameInv
<1> QED
    BY <1>1, <1>2

-----------------------------------------------------------------------------
(* Tables *)

(* get_page returns a page_t of a table that exists.                        *)
LEMMA PageInType ==
    ASSUME NEW tbls \in [Dirs -> [Tables -> Dirs \cup {NONE}]], NEW d \in Dirs,
           NEW v \in Vpns, tbls[d][TableOf(v)] # NONE
    PROVE  PageIn(tbls, d, v) \in PageTs
BY PlaceOfPage DEF PageIn, PageTs

(* get_page makes the table that is missing and touches no other.           *)
LEMMA WithTableMakes ==
    ASSUME tables \in [Dirs -> [Tables -> Dirs \cup {NONE}]],
           NEW d \in Dirs, NEW v \in Vpns
    PROVE  /\ WithTable(d, v) \in [Dirs -> [Tables -> Dirs \cup {NONE}]]
           /\ WithTable(d, v)[d][TableOf(v)] # NONE
           /\ \A c \in Dirs, t \in Tables :
                WithTable(d, v)[c][t] =
                    IF c = d /\ t = TableOf(v) /\ tables[c][t] = NONE THEN d ELSE tables[c][t]
<1>1. TableOf(v) \in Tables
    BY PlaceOfPage
<1>2. d # NONE
    BY DEF NONE, Dirs
<1> HIDE DEF TableOf
<1>3. CASE tables[d][TableOf(v)] = NONE
    <2>1. WithTable(d, v) = [tables EXCEPT ![d] = [tables[d] EXCEPT ![TableOf(v)] = d]]
        BY <1>3 DEF WithTable
    <2> QED
        BY <1>1, <1>2, <1>3, <2>1
<1>4. CASE tables[d][TableOf(v)] # NONE
    <2>1. WithTable(d, v) = tables
        BY <1>4 DEF WithTable
    <2> QED
        BY <1>4, <2>1
<1> QED
    BY <1>3, <1>4

(* The boot loop and contract find a page_t for every page of the heap.     *)
LEMMA HeapPageMapped ==
    ASSUME IInv, NEW v \in HEAP_PAGES,
           \/ pc # "tables" /\ v \in HEAP_FIRST .. HEAP_FIRST + HEAP_INITIAL - 1
           \/ v \in HEAP_FIRST .. HEAP_FIRST + heap_pages - 1
    PROVE  PageIn(tables, kernel_directory, v) \in PageTs
<1>1. v \in Vpns
    BY HeapPlaces
<1>2. tables[kernel_directory][TableOf(v)] # NONE
    BY HeapPlaces DEF IInv, HeapTables
<1>3. kernel_directory \in Dirs
    BY DirsAssumption DEF kernel_directory, Dirs
<1> QED
    BY <1>1, <1>2, <1>3, PageInType DEF IInv, TypeOK

(* expand makes the table it needs, and no other directory has anything in  *)
(* its place.                                                               *)
LEMMA ExpandMakes ==
    ASSUME IInv, HeapExpand
    PROVE  LET v == HEAP_FIRST + heap_pages
           IN  /\ v \in HEAP_PAGES /\ pc # "tables"
               /\ tables' \in [Dirs -> [Tables -> Dirs \cup {NONE}]]
               /\ tables'[kernel_directory][TableOf(v)] # NONE
               /\ \A c \in Dirs, t \in Tables :
                     tables'[c][t] = IF c = kernel_directory /\ t = TableOf(v) /\ tables[c][t] = NONE
                                     THEN kernel_directory ELSE tables[c][t]
               /\ PageIn(tables', kernel_directory, v) \in PageTs
               /\ alloc_frame(PageIn(tables', kernel_directory, v), FALSE, TRUE)
               /\ tables[kernel_directory][TableOf(v)] = NONE => TableOf(v) \in GrownTables
<1> DEFINE v == HEAP_FIRST + heap_pages
<1>1. /\ tables' = WithTable(kernel_directory, v) /\ pc # "tables"
      /\ alloc_frame(PageIn(tables', kernel_directory, v), FALSE, TRUE)
    BY DEF HeapExpand, Allocates
<1>2. v \in HEAP_PAGES
    BY HeapAssumption DEF HeapExpand, IInv, TypeOK, HEAP_PAGES
<1> HIDE DEF v
<1>3. v \in Vpns /\ TableOf(v) \in HEAP_PLACES /\ GrownTables = HEAP_PLACES \ BootTables
    BY <1>2, HeapPlaces
<1>4. kernel_directory \in Dirs /\ tables \in [Dirs -> [Tables -> Dirs \cup {NONE}]]
    BY DirsAssumption DEF kernel_directory, Dirs, IInv, TypeOK
<1>5. /\ tables' \in [Dirs -> [Tables -> Dirs \cup {NONE}]]
      /\ tables'[kernel_directory][TableOf(v)] # NONE
      /\ \A c \in Dirs, t \in Tables :
            tables'[c][t] = IF c = kernel_directory /\ t = TableOf(v) /\ tables[c][t] = NONE
                            THEN kernel_directory ELSE tables[c][t]
    BY <1>1, <1>3, <1>4, WithTableMakes
<1>6. PageIn(tables', kernel_directory, v) \in PageTs
    BY <1>3, <1>4, <1>5, PageInType
<1>7. tables[kernel_directory][TableOf(v)] = NONE => TableOf(v) \in GrownTables
    BY <1>1, <1>3 DEF IInv, HeapTables
<1> QED BY <1>1, <1>2, <1>5, <1>6, <1>7 DEF v

(* Every step that asks for a frame or gives one back asks for a page that  *)
(* has a page_t.                                                            *)
LEMMA FramesNext ==
    ASSUME IInv, Next
    PROVE  FrameInv'
<1>1. CASE UNCHANGED <<frames, pages>>
    BY <1>1 DEF IInv, FrameInv, FramesMarked, FrameExclusive
<1>2. CASE IdentityMap
    <2>1. i \in Vpns /\ kernel_directory \in Dirs
        BY <1>2, DirsAssumption DEF IdentityMap, kernel_directory, Dirs
    <2>2. PageIn(tables', kernel_directory, i) \in PageTs
        BY <1>2, <2>1, WithTableMakes, PageInType DEF IdentityMap, IInv, TypeOK
    <2> QED
        BY <1>2, <2>2, AllocFrameKeeps DEF IdentityMap, IInv
<1>3. CASE MapHeap
    <2>1. i \in HEAP_FIRST .. HEAP_FIRST + HEAP_INITIAL - 1 /\ i \in HEAP_PAGES /\ pc # "tables"
        BY <1>3, HeapAssumption DEF MapHeap, IInv, LoopBounds, HEAP_PAGES
    <2> QED
        BY <1>3, <2>1, HeapPageMapped, AllocFrameKeeps DEF MapHeap, IInv
<1>4. CASE CloneEntry
    <2>1. /\ i \in Tables /\ e \in Entries /\ ndirs \in Dirs
          /\ tables[src][i] \in Dirs
        BY <1>4, TablesAssumption
           DEF CloneEntry, IInv, TypeOK, LoopBounds, CloneInv, Cloning, Tables, Entries
    <2>2. <<ndirs, i, e>> \in PageTs /\ <<tables[src][i], i, e>> \in PageTs
        BY <2>1 DEF PageTs
    <2>3. pages[<<tables[src][i], i, e>>].rw \in BOOLEAN
        BY <2>2 DEF IInv, FrameInv, Page
    <2> QED
        BY <1>1, <1>4, <2>2, <2>3, AllocFrameKeeps DEF CloneEntry, IInv
<1>5. CASE HeapExpand
    <2>1. PICK p \in PageTs : alloc_frame(p, FALSE, TRUE)
        BY <1>5, ExpandMakes
    <2> QED
        BY <2>1, AllocFrameKeeps DEF IInv
<1>6. CASE HeapContract
    <2>1. /\ HEAP_FIRST + heap_pages - 1 \in HEAP_PAGES
          /\ HEAP_FIRST + heap_pages - 1 \in HEAP_FIRST .. HEAP_FIRST + heap_pages - 1
        BY <1>6, HeapAssumption DEF HeapContract, IInv, TypeOK, HEAP_PAGES
    <2> QED
        BY <1>6, <2>1, HeapPageMapped, FreeFrameKeeps DEF HeapContract, IInv
<1>7. CASE MoveStackPage
    <2>1. i \in Vpns /\ current \in Dirs
        BY <1>7, StackAssumption, TablesAssumption
           DEF MoveStackPage, IInv, TypeOK, LoopBounds, Vpns
    <2>2. PageIn(tables', current, i) \in PageTs
        BY <1>7, <2>1, WithTableMakes, PageInType DEF MoveStackPage, IInv, TypeOK
    <2> QED
        BY <1>7, <2>2, AllocFrameKeeps DEF MoveStackPage, IInv
<1> QED
    BY <1>1, <1>2, <1>3, <1>4, <1>5, <1>6, <1>7
       DEF Next, Loop, MakeHeapTables, MakeHeapTablesDone, IdentityMapDone, MapHeapDone,
           CloneSkip, CloneShare, CloneTable, CloneTableDone, CloneDone, MoveStackDone,
           MoveStack, Fork, SwitchTask

-----------------------------------------------------------------------------
(* Control *)

(* kmalloc_ap rounds an address to an address.                              *)
LEMMA AlignedType ==
    ASSUME NEW a \in Nat
    PROVE  Aligned(a) \in Nat
<1>1. PAGE_SIZE \in Nat /\ PAGE_SIZE > 0
    BY FramesAssumption
<1>2. a % PAGE_SIZE \in 0 .. PAGE_SIZE - 1
    BY <1>1
<1> QED
    BY <1>1, <1>2 DEF Aligned

(* The state at the call of initialize_paging satisfies the invariant.      *)
LEMMA InitInv == Init => IInv
<1> SUFFICES ASSUME Init PROVE IInv
    OBVIOUS
<1>1. frames \subseteq Frames
    <2>1. NFRAMES \div 4 \in Nat
        BY FramesAssumption
    <2> QED
        BY <2>1, StaleAssumption, FramesAssumption DEF Init, Frames
<1>2. placement \in Nat
    <2>1. PLACEMENT + BITSET \in Nat /\ DIR \in Nat
        BY PlacementAssumption, FramesAssumption DEF BITSET, DIR
    <2> QED
        BY <2>1, AlignedType DEF Init, FIRST
<1>3. Blank \in Page /\ Blank.frame = 0
    BY FramesAssumption DEF Blank, Page, Frames
<1>4. pages \in [PageTs -> Page] /\ \A p \in PageTs : pages[p].frame = 0
    BY <1>3 DEF Init, PageTs
<1>5. FrameInv
    BY <1>1, <1>4 DEF FrameInv, FramesMarked, FrameExclusive
<1>6. /\ tables \in [Dirs -> [Tables -> Dirs \cup {NONE}]]
      /\ \A d \in Dirs, t \in Tables : tables[d][t] = NONE
    BY DEF Init
<1>7. TypeOK
    <2>1. ndirs \in Dirs /\ current \in Dirs /\ src \in Dirs
        BY DirsAssumption DEF Init, kernel_directory, Dirs
    <2>2. heap_pages \in 0 .. HEAP_MAX /\ i \in Nat /\ e \in 0 .. ENTRIES
        BY HeapAssumption, TablesAssumption DEF Init
    <2>3. moved \in BOOLEAN /\ pc = "tables"
        BY DEF Init
    <2> QED
        BY <1>1, <1>2, <1>4, <1>6, <2>1, <2>2, <2>3 DEF TypeOK, PageTs
<1>8. LoopBounds /\ HeapTables /\ CloneInv
    <2>1. LoopBounds /\ CloneInv
        BY HeapAssumption DEF Init, LoopBounds, CloneInv, Cloning
    <2>2. pc = "tables" /\ i = HEAP_FIRST /\ heap_pages = 0 /\ HEAP_FIRST \in Nat
        BY HeapAssumption DEF Init
    <2>3. \A v \in HEAP_FIRST .. HEAP_FIRST - 1 : FALSE
        BY <2>2
    <2> QED
        BY <1>6, <2>1, <2>2, <2>3, HeapPlaces DEF HeapTables
<1>9. DirsInv /\ KernelShared /\ PrivateTables
    <2>1. kernel_directory \in Dirs
        BY DirsAssumption DEF kernel_directory, Dirs
    <2> QED
        BY <1>6, <2>1
           DEF Init, DirsInv, KernelShared, PrivateTables, Booting, Cloning
<1> QED
    BY <1>5, <1>7, <1>8, <1>9 DEF IInv

(* Every step keeps the types.                                              *)
LEMMA TypeNext ==
    ASSUME IInv, Next, FrameInv'
    PROVE  TypeOK'
<1> USE DEF IInv
<1>1. frames' \subseteq Frames /\ pages' \in [Dirs \X Tables \X Entries -> Page]
    BY DEF FrameInv, PageTs
<1>2. kernel_directory \in Dirs
    BY DirsAssumption DEF kernel_directory, Dirs
<1>3. ASSUME NEW d \in Dirs, NEW v \in Vpns
      PROVE  Placed(d, v) \in Nat
    BY AlignedType, FramesAssumption DEF Placed, TypeOK
<1>4. CASE MakeHeapTables
    <2>1. i \in Vpns
        <3>1. i \in HEAP_FIRST .. HEAP_FIRST + HEAP_INITIAL - 1
            BY <1>4, HeapAssumption DEF MakeHeapTables, LoopBounds
        <3> QED
            BY <3>1, HeapAssumption, TablesAssumption DEF Vpns
    <2>2. tables' \in [Dirs -> [Tables -> Dirs \cup {NONE}]] /\ placement' \in Nat
        BY <1>2, <1>3, <1>4, <2>1, WithTableMakes DEF MakeHeapTables, TypeOK
    <2> QED
        BY <1>1, <1>4, <2>2 DEF MakeHeapTables, TypeOK
<1>5. CASE IdentityMap
    <2>1. tables' \in [Dirs -> [Tables -> Dirs \cup {NONE}]] /\ placement' \in Nat
        BY <1>2, <1>3, <1>5, WithTableMakes DEF IdentityMap, TypeOK
    <2> QED
        BY <1>1, <1>5, <2>1 DEF IdentityMap, TypeOK
<1>6. CASE MakeHeapTablesDone \/ IdentityMapDone
    BY <1>1, <1>6, HeapAssumption DEF MakeHeapTablesDone, IdentityMapDone, TypeOK
<1>7. CASE MapHeap
    BY <1>1, <1>7, HeapAssumption DEF MapHeap, TypeOK, LoopBounds
<1>8. CASE MapHeapDone
    <2>1. ndirs' \in Dirs
        BY <1>8, DirsAssumption DEF MapHeapDone, DirsInv, Booting, Dirs
    <2> QED
        BY <1>1, <1>2, <1>8, <2>1 DEF MapHeapDone, TypeOK, HEAP_T
<1>9. CASE CloneSkip \/ CloneTableDone \/ CloneDone
    BY <1>1, <1>9 DEF CloneSkip, CloneTableDone, CloneDone, TypeOK
<1>10. CASE CloneShare \/ CloneTable
    <2>1. i \in Tables
        BY <1>10, TablesAssumption DEF CloneShare, CloneTable, LoopBounds, Cloning, Tables
    <2>2. tables' \in [Dirs -> [Tables -> Dirs \cup {NONE}]]
        BY <1>10, <2>1 DEF CloneShare, CloneTable, TypeOK
    <2> QED
        BY <1>1, <1>10, <2>2, TablesAssumption DEF CloneShare, CloneTable, TypeOK
<1>11. CASE CloneEntry
    BY <1>1, <1>11, TablesAssumption DEF CloneEntry, TypeOK
<1>12. CASE HeapExpand \/ HeapContract
    <2>1. heap_pages' \in 0 .. HEAP_MAX
        <3>1. heap_pages \in 0 .. HEAP_MAX /\ HEAP_MAX \in Nat /\ HEAP_MIN \in Nat
            BY HeapAssumption DEF TypeOK
        <3>2. \/ heap_pages < HEAP_MAX /\ heap_pages' = heap_pages + 1
              \/ heap_pages > HEAP_MIN /\ heap_pages' = heap_pages - 1
            BY <1>12 DEF HeapExpand, HeapContract
        <3> HIDE DEF IInv
        <3> QED
            BY <3>1, <3>2
    <2>2. tables' \in [Dirs -> [Tables -> Dirs \cup {NONE}]]
        BY <1>12, ExpandMakes DEF HeapContract, TypeOK
    <2> QED
        BY <1>1, <1>12, <2>1, <2>2 DEF HeapExpand, HeapContract, TypeOK
<1>13. CASE MoveStack \/ MoveStackDone
    <2>1. i' \in Nat
        BY <1>13, StackAssumption DEF MoveStack, MoveStackDone
    <2>2. moved' \in BOOLEAN
        BY <1>13 DEF MoveStack, MoveStackDone, TypeOK
    <2> QED
        BY <1>1, <1>13, <2>1, <2>2 DEF MoveStack, MoveStackDone, TypeOK
<1>14. CASE MoveStackPage
    <2>1. i \in Vpns /\ i - 1 \in Nat
        BY <1>14, StackAssumption, TablesAssumption
           DEF MoveStackPage, TypeOK, LoopBounds, Vpns
    <2>2. tables' \in [Dirs -> [Tables -> Dirs \cup {NONE}]]
        BY <1>14, <2>1, WithTableMakes DEF MoveStackPage, TypeOK
    <2> QED
        BY <1>1, <1>14, <2>1, <2>2 DEF MoveStackPage, TypeOK
<1>15. CASE Fork
    <2>1. ndirs' \in Dirs
        BY <1>15, DirsAssumption DEF Fork, TypeOK, Dirs
    <2> QED
        BY <1>1, <1>15, <2>1 DEF Fork, TypeOK
<1>16. ASSUME NEW d \in Dirs, SwitchTask(d) PROVE TypeOK'
    BY <1>1, <1>16 DEF SwitchTask, TypeOK
<1> QED
    BY <1>4, <1>5, <1>6, <1>7, <1>8, <1>9, <1>10, <1>11, <1>12, <1>13, <1>14, <1>15, <1>16
       DEF Next, Loop

(* While the kernel boots, tables are added to the kernel directory only.   *)
LEMMA BootTable ==
    ASSUME IInv, Booting, Booting', NEW v \in Vpns,
           tables' = WithTable(kernel_directory, v), UNCHANGED <<ndirs, current>>
    PROVE  /\ DirsInv' /\ CloneInv' /\ KernelShared' /\ PrivateTables'
           /\ \A d \in Dirs, t \in HEAP_PLACES : d # kernel_directory => tables'[d][t] = NONE
           /\ tables'[kernel_directory][TableOf(v)] # NONE
           /\ \A t \in Tables : tables[kernel_directory][t] # NONE
                                  => tables'[kernel_directory][t] # NONE
<1>1. kernel_directory \in Dirs /\ kernel_directory = 1 /\ NONE \notin Dirs
    BY DirsAssumption DEF kernel_directory, Dirs, NONE
<1>2. /\ tables'[kernel_directory][TableOf(v)] # NONE
      /\ \A c \in Dirs, t \in Tables :
            tables'[c][t] = IF c = kernel_directory /\ t = TableOf(v) /\ tables[c][t] = NONE
                            THEN kernel_directory ELSE tables[c][t]
    BY <1>1, WithTableMakes DEF IInv, TypeOK
<1>3. ndirs = 1 /\ ndirs' = 1 /\ current' = kernel_directory /\ ~ Cloning'
    BY DEF IInv, DirsInv, Booting, Cloning
<1>4. \A d \in Dirs, t \in Tables : d # kernel_directory => tables'[d][t] = NONE
    BY <1>2 DEF IInv, DirsInv
<1>5. DirsInv' /\ CloneInv'
    BY <1>3, <1>4 DEF DirsInv, CloneInv, Booting, Cloning
<1>6. KernelShared'
    <2>1. \A d \in Dirs : Finished(d)' => d = kernel_directory
        BY <1>1, <1>3 DEF Finished, Dirs
    <2> QED
        BY <2>1 DEF KernelShared
<1>7. PrivateTables'
    BY <1>4 DEF PrivateTables
<1>8. HEAP_PLACES \subseteq Tables
    BY HeapPlaces
<1> QED
    BY <1>1, <1>2, <1>4, <1>5, <1>6, <1>7, <1>8

(* The tables and the directories that hold them, action by action.         *)
LEMMA ControlNext ==
    ASSUME IInv, Next
    PROVE  LoopBounds' /\ HeapTables' /\ DirsInv' /\ CloneInv' /\ KernelShared' /\ PrivateTables'
<1> DEFINE Control == LoopBounds /\ HeapTables /\ DirsInv /\ CloneInv
                      /\ KernelShared /\ PrivateTables
<1> SUFFICES Control'
    OBVIOUS
<1>1. /\ kernel_directory \in Dirs /\ kernel_directory = 1 /\ NONE \notin Dirs
      /\ tables \in [Dirs -> [Tables -> Dirs \cup {NONE}]]
      /\ ndirs \in Nat /\ ndirs \in Dirs /\ current \in Nat /\ current \in Dirs
      /\ src \in Nat /\ src \in Dirs /\ i \in Nat /\ heap_pages \in Nat
    BY DirsAssumption, HeapAssumption DEF IInv, TypeOK, kernel_directory, Dirs, NONE
<1>2. /\ \A v \in HEAP_PAGES : v \in Vpns /\ TableOf(v) \in Tables /\ TableOf(v) \in HEAP_PLACES
      /\ HEAP_PLACES \subseteq Tables /\ BootTables \subseteq Tables /\ GrownTables \subseteq HEAP_PLACES
      /\ \A v \in HEAP_FIRST .. HEAP_FIRST + heap_pages - 1 : v \in HEAP_PAGES
    <2>1. \A v \in HEAP_FIRST .. HEAP_FIRST + heap_pages - 1 : v \in HEAP_PAGES
        BY <1>1, HeapAssumption DEF IInv, TypeOK, HEAP_PAGES
    <2>2. BootTables \subseteq Tables
        BY HeapPlaces DEF BootTables
    <2> QED
        BY <2>1, <2>2, HeapPlaces
<1>3. CASE MakeHeapTables
    <2>1. /\ pc = "tables" /\ pc' = "tables" /\ i' = i + 1 /\ heap_pages' = heap_pages
          /\ tables' = WithTable(kernel_directory, i) /\ UNCHANGED <<ndirs, current>>
          /\ i < HEAP_FIRST + HEAP_INITIAL
        BY <1>3 DEF MakeHeapTables
    <2>2. i \in HEAP_FIRST .. HEAP_FIRST + HEAP_INITIAL - 1 /\ heap_pages = 0
        BY <2>1, HeapAssumption DEF IInv, LoopBounds
    <2>3. i \in HEAP_PAGES
        BY <2>2, HeapPlaces
    <2>4. /\ DirsInv' /\ CloneInv' /\ KernelShared' /\ PrivateTables'
          /\ \A d \in Dirs, t \in HEAP_PLACES : d # kernel_directory => tables'[d][t] = NONE
          /\ tables'[kernel_directory][TableOf(i)] # NONE
          /\ \A t \in Tables : tables[kernel_directory][t] # NONE
                                 => tables'[kernel_directory][t] # NONE
        BY <1>2, <2>1, <2>3, BootTable DEF Booting
    <2>5. LoopBounds'
        BY <2>1, <2>2, HeapAssumption DEF LoopBounds, Cloning
    <2>6. ASSUME NEW v \in HEAP_FIRST .. i' - 1
          PROVE  tables'[kernel_directory][TableOf(v)] # NONE
        <3>1. CASE v = i
            BY <2>4, <3>1
        <3>2. CASE v # i
            <4>1. v \in HEAP_FIRST .. i - 1 /\ v \in HEAP_PAGES
                BY <2>1, <2>2, <2>3, <3>2, HeapAssumption DEF HEAP_PAGES
            <4> QED
                BY <1>2, <2>1, <2>4, <4>1 DEF IInv, HeapTables
        <3> QED
            BY <3>1, <3>2
    <2>7. HeapTables'
        <3>1. \A v \in HEAP_FIRST .. HEAP_FIRST + heap_pages' - 1 : FALSE
            BY <2>1, <2>2, HeapAssumption
        <3> QED
            BY <2>1, <2>4, <2>6, <3>1 DEF HeapTables
    <2> QED
        BY <2>4, <2>5, <2>7
<1>4. CASE MakeHeapTablesDone
    <2>1. /\ pc = "tables" /\ pc' = "identity" /\ i >= HEAP_FIRST + HEAP_INITIAL
          /\ UNCHANGED <<tables, ndirs, current, heap_pages>>
        BY <1>4 DEF MakeHeapTablesDone
    <2>2. i = HEAP_FIRST + HEAP_INITIAL
        BY <2>1, HeapAssumption DEF IInv, LoopBounds
    <2>3. HeapTables'
        <3>1. ASSUME NEW t \in BootTables PROVE tables[kernel_directory][t] # NONE
            <4>1. PICK u \in HEAP_FIRST .. HEAP_FIRST + HEAP_INITIAL - 1 : t = TableOf(u)
                BY DEF BootTables
            <4>2. u \in HEAP_FIRST .. i - 1
                BY <2>2, <4>1, HeapAssumption
            <4> QED
                BY <2>1, <4>1, <4>2 DEF IInv, HeapTables
        <3> QED
            BY <2>1, <3>1 DEF IInv, HeapTables
    <2> QED
        BY <1>1, <2>1, <2>3
           DEF IInv, LoopBounds, DirsInv, CloneInv, KernelShared, PrivateTables,
               Booting, Cloning, Finished, Unseen
<1>5. CASE IdentityMap
    <2>1. /\ pc = "identity" /\ pc' = "identity" /\ heap_pages' = heap_pages /\ i \in Vpns
          /\ tables' = WithTable(kernel_directory, i) /\ UNCHANGED <<ndirs, current>>
        BY <1>5 DEF IdentityMap
    <2>2. /\ DirsInv' /\ CloneInv' /\ KernelShared' /\ PrivateTables'
          /\ \A d \in Dirs, t \in HEAP_PLACES : d # kernel_directory => tables'[d][t] = NONE
          /\ \A t \in Tables : tables[kernel_directory][t] # NONE
                                 => tables'[kernel_directory][t] # NONE
        BY <2>1, BootTable DEF Booting
    <2>3. LoopBounds'
        BY <2>1 DEF IInv, LoopBounds, Cloning
    <2>4. HeapTables'
        BY <1>2, <2>1, <2>2 DEF IInv, HeapTables
    <2> QED
        BY <2>2, <2>3, <2>4
<1>6. CASE IdentityMapDone
    BY <1>1, <1>6, HeapAssumption
       DEF IdentityMapDone, IInv, LoopBounds, HeapTables, DirsInv, CloneInv, KernelShared,
           PrivateTables, Booting, Cloning, Unseen, Finished
<1>7. CASE MapHeap
    <2>1. /\ pc = "heap" /\ pc' = "heap" /\ i' = i + 1 /\ heap_pages' = heap_pages + 1
          /\ i < HEAP_FIRST + HEAP_INITIAL /\ UNCHANGED <<tables, ndirs, current, src>>
        BY <1>7 DEF MapHeap
    <2>2. heap_pages = i - HEAP_FIRST /\ i \in HEAP_FIRST .. HEAP_FIRST + HEAP_INITIAL
        BY <2>1 DEF IInv, LoopBounds
    <2>3. \A v \in HEAP_FIRST .. HEAP_FIRST + heap_pages' - 1 : TableOf(v) \in BootTables
        <3>1. \A v \in HEAP_FIRST .. HEAP_FIRST + heap_pages' - 1 : v \in HEAP_FIRST .. HEAP_FIRST + HEAP_INITIAL - 1
            BY <1>1, <2>1, <2>2, HeapAssumption
        <3> QED BY <3>1, HeapPlaces
    <2>4. HeapTables'
        BY <2>1, <2>3 DEF IInv, HeapTables
    <2>5. LoopBounds'
        BY <1>1, <2>1, <2>2, HeapAssumption DEF LoopBounds, Cloning
    <2> QED
        BY <2>1, <2>4, <2>5
           DEF IInv, DirsInv, CloneInv, KernelShared, PrivateTables, Booting, Cloning, Unseen, Finished
<1>8. CASE MapHeapDone
    <2>1. /\ pc = "heap" /\ pc' = "clone" /\ i' = 0 /\ ndirs' = ndirs + 1
          /\ src' = kernel_directory /\ UNCHANGED <<tables, current>>
        BY <1>8 DEF MapHeapDone
    <2>2. ndirs = 1 /\ current <= 1
        BY <1>1, <2>1 DEF IInv, DirsInv, Booting
    <2>3. LoopBounds' /\ HeapTables' /\ PrivateTables'
        <3>1. heap_pages' = heap_pages /\ heap_pages \in Nat
            BY <1>1, <1>8 DEF MapHeapDone
        <3> QED
            BY <1>1, <2>1, <3>1, TablesAssumption
               DEF IInv, LoopBounds, HeapTables, PrivateTables, Cloning
    <2>4. DirsInv' /\ CloneInv'
        BY <1>1, <2>1, <2>2 DEF DirsInv, CloneInv, Booting, Cloning
    <2>5. KernelShared'
        BY <1>1, <2>1, <2>2 DEF KernelShared, Finished, Dirs
    <2> QED
        BY <2>3, <2>4, <2>5
<1>9. CASE CloneSkip
    <2>1. /\ pc = "clone" /\ pc' = "clone" /\ i < NTABLES /\ i' = i + 1 /\ tables[src][i] = NONE
          /\ UNCHANGED <<tables, ndirs, current, src, heap_pages>>
        BY <1>9 DEF CloneSkip
    <2>2. i \in Tables /\ src < ndirs
        BY <1>1, <2>1, TablesAssumption DEF IInv, DirsInv, Cloning, Tables
    <2>3. tables[kernel_directory][i] # NONE => Unseen(i)
        BY <1>1, <2>1, <2>2 DEF IInv, KernelShared, Finished
    <2>4. CloneInv'
        BY <1>1, <2>1, <2>3 DEF IInv, CloneInv, Cloning, Unseen
    <2>5. LoopBounds'
        BY <1>1, <2>1, TablesAssumption DEF IInv, LoopBounds, Cloning
    <2> QED
        BY <2>1, <2>4, <2>5
           DEF IInv, HeapTables, DirsInv, KernelShared, PrivateTables, Booting, Cloning, Unseen, Finished
<1>10. CASE CloneShare
    <2>1. /\ pc = "clone" /\ pc' = "clone" /\ i < NTABLES /\ i' = i + 1
          /\ tables[src][i] # NONE /\ tables[src][i] = tables[kernel_directory][i]
          /\ tables' = [tables EXCEPT ![ndirs][i] = tables[src][i]]
          /\ UNCHANGED <<ndirs, current, src, heap_pages>>
        BY <1>10 DEF CloneShare
    <2>2. i \in Tables /\ src < ndirs /\ ndirs # kernel_directory
        BY <1>1, <2>1, TablesAssumption DEF IInv, DirsInv, Cloning, Tables, Dirs
    <2>3. \A c \in Dirs, t \in Tables :
             tables'[c][t] = IF c = ndirs /\ t = i THEN tables[kernel_directory][i]
                             ELSE tables[c][t]
        BY <1>1, <2>1, <2>2
    <2>4. LoopBounds' /\ DirsInv'
        BY <1>1, <2>1, TablesAssumption DEF IInv, LoopBounds, DirsInv, Booting, Cloning
    <2>5. HeapTables'
        BY <1>1, <1>2, <2>1, <2>2, <2>3 DEF IInv, HeapTables
    <2>10. \A t \in Tables : t # i /\ Unseen(t) => Unseen(t)'
        BY <1>1, <2>2, <2>3 DEF Unseen
    <2>6. CloneInv'
        <3> SUFFICES ASSUME NEW t \in 0 .. i, tables[kernel_directory][t] # NONE
                     PROVE  tables'[ndirs][t] = tables[kernel_directory][t] \/ Unseen(t)'
            <4>1. /\ pc' # "clone_table" /\ i' - 1 = i /\ 0 .. i \subseteq Tables
                  /\ \A t \in 0 .. i : tables'[kernel_directory][t] = tables[kernel_directory][t]
                BY <1>1, <2>1, <2>2, <2>3, TablesAssumption DEF Tables
            <4> QED BY <2>1, <4>1 DEF CloneInv
        <3>1. t \in Tables /\ (t = i \/ t \in 0 .. i - 1)
            BY <2>2, TablesAssumption DEF Tables
        <3>2. CASE t = i
            BY <1>1, <2>3, <3>1, <3>2
        <3>3. CASE t # i
            <4>1. tables[ndirs][t] = tables[kernel_directory][t] \/ Unseen(t)
                BY <2>1, <3>1, <3>3 DEF IInv, CloneInv, Cloning
            <4> QED BY <1>1, <2>3, <2>10, <3>1, <3>3, <4>1
        <3> QED BY <3>2, <3>3
    <2>7. KernelShared'
        <3> SUFFICES ASSUME NEW d \in Dirs, NEW t \in Tables, Finished(d), tables[kernel_directory][t] # NONE
                     PROVE  tables'[d][t] = tables[kernel_directory][t] \/ Unseen(t)'
            BY <1>1, <2>1, <2>2, <2>3 DEF KernelShared, Finished
        <3>1. d # ndirs /\ d \in Nat /\ d < ndirs
            BY <1>1, <2>1 DEF Finished, Dirs
        <3>2. tables'[d][t] = tables[d][t]
            BY <2>3, <3>1
        <3>3. tables[d][t] = tables[kernel_directory][t] \/ Unseen(t)
            BY DEF IInv, KernelShared
        <3>4. CASE t # i
            BY <2>10, <3>2, <3>3, <3>4
        <3>5. CASE t = i /\ src # kernel_directory
            <4>1. ~ Unseen(i)
                BY <1>1, <2>1, <3>5 DEF Unseen
            <4> QED BY <3>2, <3>3, <3>5, <4>1
        <3>6. CASE src = kernel_directory
            <4>1. ndirs = 2
                BY <2>1, <3>6 DEF IInv, DirsInv, Cloning
            <4>2. d = kernel_directory
                BY <1>1, <3>1, <4>1 DEF Dirs
            <4> QED BY <3>2, <4>2
        <3> QED BY <3>4, <3>5, <3>6
    <2>8. PrivateTables'
        <3> SUFFICES ASSUME NEW d \in Dirs, NEW t \in Tables
                     PROVE  tables'[d][t] \in {NONE, d, tables'[kernel_directory][t]}
            BY DEF PrivateTables
        <3>1. tables[d][t] \in {NONE, d, tables[kernel_directory][t]}
            BY DEF IInv, PrivateTables
        <3>2. tables'[kernel_directory][t] = tables[kernel_directory][t]
            BY <1>1, <2>2, <2>3
        <3> QED
            BY <1>1, <2>2, <2>3, <3>1, <3>2
    <2> QED
        BY <2>4, <2>5, <2>6, <2>7, <2>8
<1>11. CASE CloneTable
    <2>1. /\ pc = "clone" /\ pc' = "clone_table" /\ i < NTABLES /\ i' = i
          /\ tables[src][i] # NONE /\ tables[src][i] # tables[kernel_directory][i]
          /\ tables' = [tables EXCEPT ![ndirs][i] = ndirs]
          /\ UNCHANGED <<ndirs, current, src, heap_pages>>
        BY <1>11 DEF CloneTable
    <2>2. i \in Tables /\ src < ndirs /\ ndirs # kernel_directory
        BY <1>1, <2>1, TablesAssumption DEF IInv, DirsInv, Cloning, Tables, Dirs
    <2>3. \A c \in Dirs, t \in Tables :
             tables'[c][t] = IF c = ndirs /\ t = i THEN ndirs ELSE tables[c][t]
        BY <1>1, <2>1, <2>2
    <2>4. tables[kernel_directory][i] = NONE /\ src # kernel_directory
        BY <1>1, <2>1, <2>2 DEF IInv, KernelShared, Finished, Unseen
    <2>10. i \notin HEAP_PLACES
        BY <1>1, <2>1, <2>4 DEF IInv, HeapTables
    <2>11. \A t \in Tables : Unseen(t) => Unseen(t)'
        BY <1>1, <1>2, <2>2, <2>3, <2>10 DEF Unseen
    <2>5. LoopBounds' /\ DirsInv'
        BY <1>1, <2>1, TablesAssumption DEF IInv, LoopBounds, DirsInv, Booting, Cloning
    <2>6. HeapTables'
        BY <1>1, <1>2, <2>1, <2>2, <2>3, <2>10 DEF IInv, HeapTables
    <2>7. CloneInv'
        <3>1. /\ tables'[src][i] # NONE /\ tables'[kernel_directory][i] = NONE
              /\ 0 .. i - 1 \subseteq Tables /\ \A t \in 0 .. i - 1 : t # i
            BY <1>1, <2>1, <2>2, <2>3, <2>4, TablesAssumption DEF Tables, Dirs
        <3>2. ASSUME NEW t \in 0 .. i - 1, tables'[kernel_directory][t] # NONE
              PROVE  tables'[ndirs][t] = tables'[kernel_directory][t] \/ Unseen(t)'
            <4>1. t \in Tables /\ t # i
                BY <3>1
            <4>2. tables'[kernel_directory][t] = tables[kernel_directory][t] /\ tables'[ndirs][t] = tables[ndirs][t]
                BY <1>1, <2>3, <4>1
            <4>3. tables[ndirs][t] = tables[kernel_directory][t] \/ Unseen(t)
                BY <2>1, <3>2, <4>2 DEF IInv, CloneInv, Cloning
            <4> QED BY <2>11, <4>1, <4>2, <4>3
        <3> QED BY <2>1, <3>1, <3>2 DEF CloneInv
    <2>8. KernelShared'
        BY <1>1, <2>1, <2>2, <2>3, <2>11 DEF IInv, KernelShared, Finished
    <2>9. PrivateTables'
        <3> SUFFICES ASSUME NEW d \in Dirs, NEW t \in Tables
                     PROVE  tables'[d][t] \in {NONE, d, tables'[kernel_directory][t]}
            BY DEF PrivateTables
        <3>1. tables[d][t] \in {NONE, d, tables[kernel_directory][t]}
            BY DEF IInv, PrivateTables
        <3>2. tables'[kernel_directory][t] = tables[kernel_directory][t]
            BY <1>1, <2>2, <2>3
        <3> QED
            BY <1>1, <2>2, <2>3, <3>1, <3>2
    <2> QED
        BY <2>5, <2>6, <2>7, <2>8, <2>9
<1>12. CASE CloneEntry
    BY <1>1, <1>12
       DEF CloneEntry, IInv, LoopBounds, HeapTables, DirsInv, CloneInv, KernelShared,
           PrivateTables, Booting, Cloning, Unseen, Finished
<1>13. CASE CloneTableDone
    BY <1>1, <1>13, TablesAssumption
       DEF CloneTableDone, IInv, LoopBounds, HeapTables, DirsInv, CloneInv, KernelShared,
           PrivateTables, Booting, Cloning, Unseen, Finished
<1>14. CASE CloneDone
    BY <1>1, <1>14, TablesAssumption
       DEF CloneDone, IInv, LoopBounds, HeapTables, DirsInv, CloneInv, KernelShared,
           PrivateTables, Booting, Cloning, Unseen, Finished, Tables
<1>15. CASE HeapContract
    <2>1. /\ pc = "run" /\ UNCHANGED <<tables, ndirs, current, pc, i, src>>
          /\ heap_pages' = heap_pages - 1
        BY <1>15 DEF HeapContract
    <2>2. \A v \in HEAP_FIRST .. HEAP_FIRST + heap_pages' - 1 : v \in HEAP_FIRST .. HEAP_FIRST + heap_pages - 1
        BY <1>1, <2>1, HeapAssumption
    <2>3. HeapTables'
        BY <2>1, <2>2 DEF IInv, HeapTables
    <2> QED
        BY <2>1, <2>3
           DEF IInv, LoopBounds, DirsInv, CloneInv, KernelShared, PrivateTables,
               Booting, Cloning, Unseen, Finished
<1>20. CASE HeapExpand
    <2> DEFINE v == HEAP_FIRST + heap_pages
               t0 == TableOf(v)
    <2>1. /\ pc \in {"run", "clone", "stack"} /\ heap_pages' = heap_pages + 1
          /\ UNCHANGED <<ndirs, current, pc, i, src>>
        BY <1>20 DEF HeapExpand, Allocates
    <2>2. /\ v \in HEAP_PAGES /\ tables'[kernel_directory][t0] # NONE
          /\ \A c \in Dirs, t \in Tables :
                tables'[c][t] = IF c = kernel_directory /\ t = t0 /\ tables[c][t] = NONE
                                THEN kernel_directory ELSE tables[c][t]
          /\ tables[kernel_directory][t0] = NONE => t0 \in GrownTables
        BY <1>20, ExpandMakes
    <2>3. t0 \in Tables /\ t0 \in HEAP_PLACES
        BY <1>2, <2>2
    <2>4. \A u \in HEAP_FIRST .. HEAP_FIRST + heap_pages' - 1 :
              u = v \/ u \in HEAP_FIRST .. HEAP_FIRST + heap_pages - 1
        BY <1>1, <2>1, HeapAssumption
    <2> HIDE DEF t0
    <2>5. \A c \in Dirs, t \in Tables : c # kernel_directory => tables'[c][t] = tables[c][t]
        BY <2>2
    <2>6. \A t \in Tables : tables[kernel_directory][t] # NONE
                              => tables'[kernel_directory][t] = tables[kernel_directory][t]
        BY <1>1, <2>2
    <2>7. \A t \in Tables : Unseen(t) => Unseen(t)'
        BY <2>5 DEF Unseen
    <2>8. \A t \in Tables : tables[kernel_directory][t] = NONE /\ tables'[kernel_directory][t] # NONE
                              => Unseen(t)'
        <3> SUFFICES ASSUME NEW t \in Tables, tables[kernel_directory][t] = NONE,
                            tables'[kernel_directory][t] # NONE
                     PROVE  Unseen(t)'
            OBVIOUS
        <3>1. t = t0 /\ t \in GrownTables
            BY <1>1, <2>2
        <3>2. \A c \in Dirs : c # kernel_directory => tables[c][t] = NONE
            BY <2>3, <3>1 DEF IInv, HeapTables
        <3> QED BY <2>5, <3>1, <3>2 DEF Unseen
    <2>9. HeapTables'
        <3>1. \A u \in HEAP_FIRST .. HEAP_FIRST + heap_pages' - 1 : tables'[kernel_directory][TableOf(u)] # NONE
            <4> SUFFICES ASSUME NEW u \in HEAP_FIRST .. HEAP_FIRST + heap_pages' - 1
                         PROVE  tables'[kernel_directory][TableOf(u)] # NONE
                OBVIOUS
            <4>1. CASE u = v
                BY <2>2, <4>1 DEF t0
            <4>2. CASE u \in HEAP_FIRST .. HEAP_FIRST + heap_pages - 1
                <5>1. tables[kernel_directory][TableOf(u)] # NONE /\ TableOf(u) \in Tables
                    BY <1>2, <4>2 DEF IInv, HeapTables
                <5> QED BY <2>6, <5>1
            <4> QED BY <2>4, <4>1, <4>2
        <3>2. \A t \in BootTables : tables'[kernel_directory][t] # NONE
            BY <1>2, <2>1, <2>6 DEF IInv, HeapTables
        <3>3. \A d \in Dirs, t \in HEAP_PLACES :
                 d # kernel_directory => tables'[d][t] \in {NONE, tables'[kernel_directory][t]}
            BY <1>1, <1>2, <2>5, <2>6 DEF IInv, HeapTables
        <3> QED BY <2>1, <3>1, <3>2, <3>3 DEF HeapTables
    <2>10. LoopBounds' /\ DirsInv'
        BY <2>1 DEF IInv, LoopBounds, DirsInv, Booting, Cloning
    <2>11. CloneInv'
        <3> SUFFICES ASSUME pc = "clone", NEW t \in 0 .. i - 1, tables'[kernel_directory][t] # NONE
                     PROVE  tables'[ndirs][t] = tables'[kernel_directory][t] \/ Unseen(t)'
            BY <2>1 DEF CloneInv, Cloning
        <3>1. t \in Tables /\ ndirs # kernel_directory
            BY <1>1, TablesAssumption DEF IInv, LoopBounds, DirsInv, Cloning, Tables, Dirs
        <3>2. CASE tables[kernel_directory][t] = NONE
            BY <2>8, <3>1, <3>2
        <3>3. CASE tables[kernel_directory][t] # NONE
            <4>1. tables[ndirs][t] = tables[kernel_directory][t] \/ Unseen(t)
                BY <3>3 DEF IInv, CloneInv, Cloning
            <4> QED BY <1>1, <2>5, <2>6, <2>7, <3>1, <3>3, <4>1
        <3> QED BY <3>2, <3>3
    <2>12. KernelShared'
        <3> SUFFICES ASSUME NEW d \in Dirs, NEW t \in Tables, Finished(d), tables'[kernel_directory][t] # NONE
                     PROVE  tables'[d][t] = tables'[kernel_directory][t] \/ Unseen(t)'
            BY <2>1 DEF KernelShared, Finished
        <3>1. CASE d = kernel_directory \/ tables[kernel_directory][t] = NONE
            BY <2>8, <3>1
        <3>2. CASE d # kernel_directory /\ tables[kernel_directory][t] # NONE
            <4>1. tables[d][t] = tables[kernel_directory][t] \/ Unseen(t)
                BY <3>2 DEF IInv, KernelShared
            <4> QED BY <2>5, <2>6, <2>7, <3>2, <4>1
        <3> QED BY <3>1, <3>2
    <2>13. PrivateTables'
        <3> SUFFICES ASSUME NEW d \in Dirs, NEW t \in Tables
                     PROVE  tables'[d][t] \in {NONE, d, tables'[kernel_directory][t]}
            BY DEF PrivateTables
        <3>1. tables[d][t] \in {NONE, d, tables[kernel_directory][t]}
            BY DEF IInv, PrivateTables
        <3> QED BY <1>1, <2>5, <2>6, <3>1
    <2> QED
        BY <2>9, <2>10, <2>11, <2>12, <2>13
<1>16. CASE MoveStack \/ MoveStackDone
    BY <1>1, <1>16, StackAssumption
       DEF MoveStack, MoveStackDone, IInv, LoopBounds, HeapTables, DirsInv, CloneInv, KernelShared,
           PrivateTables, Booting, Cloning, Unseen, Finished
<1>17. CASE MoveStackPage
    <2>1. /\ pc = "stack" /\ pc' = "stack" /\ i' = i - 1 /\ i >= STACK_TOP - STACK_PAGES
          /\ tables' = WithTable(current, i)
          /\ UNCHANGED <<ndirs, current, src, heap_pages>>
        BY <1>17 DEF MoveStackPage
    <2>2. i \in STACK_TOP - STACK_PAGES .. STACK_TOP
        BY <1>1, <2>1, StackAssumption DEF IInv, LoopBounds
    <2>3. i \in Vpns /\ TableOf(i) \notin HEAP_PLACES
        BY <2>2, StackApart
    <2>4. current # kernel_directory
        BY <2>1 DEF IInv, DirsInv, Booting, Cloning
    <2>5. \A c \in Dirs, t \in Tables :
             tables'[c][t] = IF c = current /\ t = TableOf(i) /\ tables[c][t] = NONE
                             THEN current ELSE tables[c][t]
        BY <1>1, <2>1, <2>3, WithTableMakes
    <2>6. LoopBounds'
        BY <1>1, <2>1, <2>2, StackAssumption DEF LoopBounds, Cloning
    <2>7. DirsInv' /\ CloneInv'
        BY <2>1 DEF IInv, DirsInv, CloneInv, Booting, Cloning
    <2>8. HeapTables'
        BY <1>1, <1>2, <2>1, <2>3, <2>4, <2>5 DEF IInv, HeapTables
    <2>11. \A t \in Tables : Unseen(t) => Unseen(t)'
        BY <1>1, <1>2, <2>3, <2>5 DEF Unseen
    <2>12. ~ Unseen(TableOf(i))
        BY <1>2, <2>3 DEF Unseen
    <2>9. KernelShared'
        BY <1>1, <2>1, <2>4, <2>5, <2>11, <2>12 DEF IInv, KernelShared, Finished
    <2>10. PrivateTables'
        <3> SUFFICES ASSUME NEW d \in Dirs, NEW t \in Tables
                     PROVE  tables'[d][t] \in {NONE, d, tables'[kernel_directory][t]}
            BY DEF PrivateTables
        <3>1. tables[d][t] \in {NONE, d, tables[kernel_directory][t]}
            BY DEF IInv, PrivateTables
        <3>2. tables'[kernel_directory][t] = tables[kernel_directory][t]
            BY <1>1, <2>4, <2>5
        <3> QED
            BY <1>1, <2>4, <2>5, <3>1, <3>2
    <2> QED
        BY <2>6, <2>7, <2>8, <2>9, <2>10
<1>18. CASE Fork
    BY <1>1, <1>18, TablesAssumption
       DEF Fork, IInv, LoopBounds, HeapTables, DirsInv, CloneInv, KernelShared,
           PrivateTables, Booting, Cloning, Unseen, Finished
<1>19. ASSUME NEW d \in Dirs, SwitchTask(d) PROVE Control'
    BY <1>1, <1>19
       DEF SwitchTask, IInv, LoopBounds, HeapTables, DirsInv, CloneInv, KernelShared,
           PrivateTables, Booting, Cloning, Unseen, Finished
<1> HIDE DEF Control
<1> QED
    BY <1>3, <1>4, <1>5, <1>6, <1>7, <1>8, <1>9, <1>10, <1>11, <1>12, <1>13, <1>14, <1>15,
       <1>16, <1>17, <1>18, <1>19, <1>20 DEF Next, Loop

-----------------------------------------------------------------------------
(* The invariant is inductive.                                              *)
LEMMA NextInv == IInv /\ [Next]_vars => IInv'
<1> SUFFICES ASSUME IInv, [Next]_vars PROVE IInv'
    OBVIOUS
<1>1. CASE Next
    BY <1>1, FramesNext, TypeNext, ControlNext DEF IInv
<1>2. CASE UNCHANGED vars
    BY <1>2
       DEF vars, IInv, TypeOK, FrameInv, FramesMarked, FrameExclusive, LoopBounds, HeapTables,
           DirsInv, CloneInv, KernelShared, PrivateTables, Booting, Cloning, Unseen, Finished
<1> QED
    BY <1>1, <1>2

(* Hence it holds throughout.                                               *)
LEMMA Invariance == Spec => []IInv
BY InitInv, NextInv, PTL DEF Spec

(* The bitset, every page_t and every directory keep their types, whatever  *)
(* the sizes of memory, heap and stack, and clone_table's loop stays within *)
(* its table.                                                               *)
THEOREM TypeCorrect == Spec => []TypeOK
<1>1. IInv => TypeOK
    BY DEF IInv
<1> QED
    BY <1>1, Invariance, PTL

(* Every frame that backs a page is marked, although free_frame passes      *)
(* clear_frame a number where it takes an address: the bit it clears is     *)
(* that of frame 0, which no page counts as its own.                        *)
THEOREM FramesAreMarked == Spec => []FramesMarked
<1>1. IInv => FramesMarked
    BY DEF IInv, FrameInv
<1> QED
    BY <1>1, Invariance, PTL

(* No frame backs two pages of any address spaces, although first_frame has *)
(* no way to say that memory is exhausted.                                  *)
THEOREM FramesExclusive == Spec => []FrameExclusive
<1>1. IInv => FrameExclusive
    BY DEF IInv, FrameInv
<1> QED
    BY <1>1, Invariance, PTL

(* Every address space clone_directory has finished holds the kernel's own  *)
(* tables, for any number of forks, in any order of forks and switches, and *)
(* however far the heap grows; only a table the heap grew into after the    *)
(* first clone is missing, and nothing else is in its place.                *)
THEOREM KernelIsShared == Spec => []KernelShared
<1>1. IInv => KernelShared
    BY DEF IInv
<1> QED
    BY <1>1, Invariance, PTL

(* Any other table belongs to one address space only.                       *)
THEOREM TablesArePrivate == Spec => []PrivateTables
<1>1. IInv => PrivateTables
    BY DEF IInv
<1> QED
    BY <1>1, Invariance, PTL

-----------------------------------------------------------------------------
(* The pages in front of the heap                                           *)

(* The tables that map what is placed, and a bound on the pages they map.   *)
IDENT == CHOOSE t \in Tables : Fits(t)
BASE  == FIRST \div PAGE_SIZE
LIMIT == BASE + 2 * (HEAP_TABLES + IDENT) + 1
CLEAR == NFRAMES \div 4

PlaceOf(v) == <<kernel_directory, TableOf(v), v % ENTRIES>>
Mapped(v) == /\ tables[kernel_directory][TableOf(v)] = kernel_directory
             /\ pages[PlaceOf(v)].present /\ pages[PlaceOf(v)].frame = v

(* The first loop: tables for the heap are placed, and no frame is given.   *)
TablesPhase ==
    /\ \A f \in 0 .. CLEAR - 1 : f \notin frames
    /\ \A v \in 0 .. LIMIT - 1 : pages[PlaceOf(v)].frame = 0
    /\ \A t \in Tables : tables[kernel_directory][t] =
          IF i > HEAP_FIRST /\ TableOf(HEAP_FIRST) <= t /\ t <= TableOf(i - 1)
          THEN kernel_directory ELSE NONE
    /\ placement = IF i = HEAP_FIRST THEN FIRST
                   ELSE PAGE_SIZE * (BASE + 2 * (TableOf(i - 1) - TableOf(HEAP_FIRST) + 1))

(* The second loop has mapped the pages below i, with c tables more.        *)
WithTables(c) ==
    /\ i <= ENTRIES * c /\ (c > 0 => ENTRIES * (c - 1) < i)
    /\ placement = PAGE_SIZE * (BASE + 2 * (HEAP_TABLES + c))
    /\ \A t \in 0 .. IDENT - 1 : tables[kernel_directory][t] = IF t < c THEN kernel_directory ELSE NONE

IdentityPhase ==
    /\ i \in 0 .. LIMIT
    /\ \A f \in 0 .. CLEAR - 1 : f \in frames <=> f < i
    /\ \A v \in i .. LIMIT - 1 : pages[PlaceOf(v)].frame = 0
    /\ \A v \in 0 .. i - 1 : Mapped(v)
    /\ \E c \in 0 .. IDENT : WithTables(c)

(* From then on: there is room for the heap_t that is placed last.          *)
Room(at) == IF at = "heap" THEN PAGE_SIZE ELSE 0
MappedPhase == \A v \in Nat : v * PAGE_SIZE < placement + Room(pc) => v < LIMIT /\ Mapped(v)

IdInv ==
    /\ pc = "tables" => TablesPhase
    /\ pc = "identity" => IdentityPhase
    /\ pc \notin {"tables", "identity"} => MappedPhase
-----------------------------------------------------------------------------
(* Arithmetic of tables and pages *)

(* The next page is in the same table or in the next one.                   *)
LEMMA TableStep ==
    ASSUME NEW v \in Nat
    PROVE  TableOf(v + 1) = TableOf(v) \/ TableOf(v + 1) = TableOf(v) + 1
<1> DEFINE q == TableOf(v)
           r == v % ENTRIES
<1>1. q \in Nat /\ r \in 0 .. ENTRIES - 1 /\ v = ENTRIES * q + r
    BY DivMod
<1>2. ENTRIES \in Nat /\ ENTRIES > 0
    BY TablesAssumption
<1> HIDE DEF q, r
<1>3. ENTRIES * (q + 1) = ENTRIES * q + ENTRIES /\ ENTRIES * (q + 1 + 1) = ENTRIES * q + ENTRIES + ENTRIES
    BY <1>1, <1>2
<1>4. CASE r < ENTRIES - 1
    <2>1. TableOf(v + 1) = q
        BY <1>1, <1>2, <1>3, <1>4, DivUnique
    <2> QED BY <2>1 DEF q
<1>5. CASE r = ENTRIES - 1
    <2>1. TableOf(v + 1) = q + 1
        BY <1>1, <1>2, <1>3, <1>5, DivUnique
    <2> QED BY <2>1 DEF q
<1> QED BY <1>1, <1>2, <1>4, <1>5

(* Different pages have different places.                                   *)
LEMMA PlaceInjective ==
    ASSUME NEW v \in Nat, NEW w \in Nat, TableOf(v) = TableOf(w), v % ENTRIES = w % ENTRIES
    PROVE  v = w
BY DivMod

LEMMA ProductLess ==
    ASSUME NEW a \in Nat, NEW b \in Nat, NEW c \in Nat, a * c < b * c PROVE a < b
<1> SUFFICES ASSUME b <= a PROVE FALSE
    OBVIOUS
<1>1. c * b <= c * a
    BY TimesMonotonic
<1> QED BY <1>1

LEMMA LessThrough ==
    ASSUME NEW a \in Nat, NEW b \in Nat, NEW c \in Nat, a < b, b <= c PROVE a < c
OBVIOUS

(* kmalloc_ap of a page: the address is rounded up, an aligned one by a     *)
(* whole page.                                                              *)
LEMMA AlignedValue ==
    ASSUME NEW a \in Nat, a >= PAGE_SIZE
    PROVE  Aligned(a) + PAGE_SIZE = PAGE_SIZE * (a \div PAGE_SIZE + 2)
<1>1. PAGE_SIZE \in Nat /\ PAGE_SIZE > 0
    BY FramesAssumption
<1> DEFINE q == a \div PAGE_SIZE
           r == a % PAGE_SIZE
<1>2. a = PAGE_SIZE * q + r /\ q \in Int /\ r \in Int
    BY <1>1
<1>3. Aligned(a) = (a - r) + PAGE_SIZE
    BY DEF Aligned
<1> HIDE DEF q, r
<1>4. PAGE_SIZE * (q + 2) = PAGE_SIZE * q + PAGE_SIZE + PAGE_SIZE
    BY <1>1, <1>2
<1>5. Aligned(a) + PAGE_SIZE = PAGE_SIZE * (q + 2)
    BY <1>1, <1>2, <1>3, <1>4
<1> QED BY <1>5 DEF q

LEMMA AlignedPages ==
    ASSUME NEW n \in Nat, n > 0
    PROVE  Aligned(PAGE_SIZE * n) + PAGE_SIZE = PAGE_SIZE * (n + 2)
<1>1. PAGE_SIZE \in Nat /\ PAGE_SIZE > 0
    BY FramesAssumption
<1> DEFINE a == PAGE_SIZE * n
<1>2. a \in Nat /\ a >= PAGE_SIZE
    <2>1. PAGE_SIZE * 1 <= PAGE_SIZE * n
        BY <1>1, TimesMonotonic
    <2> QED BY <1>1, <2>1
<1> DEFINE q == a \div PAGE_SIZE
           r == a % PAGE_SIZE
<1>3. a = PAGE_SIZE * q + r /\ q \in Int /\ r \in 0 .. PAGE_SIZE - 1
    <2> HIDE DEF a
    <2> QED BY <1>1, <1>2
<1>4. PAGE_SIZE * n = PAGE_SIZE * q + r
    BY <1>3
<1>5. Aligned(a) + PAGE_SIZE = PAGE_SIZE * (q + 2)
    <2> HIDE DEF a
    <2> QED BY <1>2, AlignedValue DEF q
<1> HIDE DEF q, r, a
<1>6. q = n
    <2>1. ~ (q + 1 <= n)
        <3> SUFFICES ASSUME q + 1 <= n PROVE FALSE
            OBVIOUS
        <3>1. PAGE_SIZE * (n - q) = r /\ n - q >= 1
            BY <1>1, <1>3, <1>4
        <3>2. PAGE_SIZE * 1 <= PAGE_SIZE * (n - q)
            BY <1>1, <1>3, <3>1, TimesMonotonic
        <3> QED BY <1>1, <1>3, <3>1, <3>2
    <2>2. ~ (n + 1 <= q)
        <3> SUFFICES ASSUME n + 1 <= q PROVE FALSE
            OBVIOUS
        <3>1. PAGE_SIZE * n <= PAGE_SIZE * q /\ PAGE_SIZE * (n + 1) <= PAGE_SIZE * q
            BY <1>1, <1>3, TimesMonotonic
        <3>2. PAGE_SIZE * (n + 1) = PAGE_SIZE * n + PAGE_SIZE
            BY <1>1
        <3> QED BY <1>1, <1>3, <1>4, <3>1, <3>2
    <2> QED BY <1>3, <2>1, <2>2
<1> QED BY <1>5, <1>6 DEF a

(* What the assumptions say of the pages that are mapped.                   *)
LEMMA Bounds ==
    /\ IDENT \in Nat /\ IDENT <= NTABLES /\ LIMIT \in Nat /\ CLEAR \in Nat /\ CLEAR <= NFRAMES
    /\ BASE \in Nat /\ FIRST \in Nat /\ FIRST >= PAGE_SIZE
    /\ HEAP_TABLES \in Nat /\ HEAP_TABLES > 0
    /\ LIMIT = BASE + 2 * (HEAP_TABLES + IDENT) + 1
    /\ LIMIT <= ENTRIES * IDENT /\ LIMIT <= CLEAR /\ LIMIT <= HEAP_FIRST /\ LIMIT <= NTABLES * ENTRIES
    /\ IDENT <= TableOf(HEAP_FIRST) /\ HEAP_T <= PAGE_SIZE
<1>1. IDENT \in Tables /\ Fits(IDENT)
    BY MemoryAssumption DEF IDENT
<1>2. IDENT \in Nat /\ IDENT <= NTABLES /\ ENTRIES \in Nat /\ NTABLES \in Nat /\ HEAP_FIRST \in Nat
    BY <1>1, TablesAssumption, HeapAssumption DEF Tables
<1>3. FIRST \in Nat /\ FIRST >= PAGE_SIZE /\ PAGE_SIZE \in Nat /\ PAGE_SIZE > 0
    <2>1. BITSET \in Nat
        BY FramesAssumption DEF BITSET
    <2>2. PLACEMENT + BITSET \in Nat
        BY <2>1, PlacementAssumption
    <2>3. Aligned(PLACEMENT + BITSET) \in Nat
        BY <2>2, AlignedType
    <2> QED BY <2>3, FramesAssumption DEF FIRST, DIR
<1>4. BASE \in Nat
    <2> DEFINE q == FIRST \div PAGE_SIZE
               r == FIRST % PAGE_SIZE
    <2>1. FIRST = PAGE_SIZE * q + r /\ q \in Int /\ r \in 0 .. PAGE_SIZE - 1
        BY <1>3
    <2> HIDE DEF q, r
    <2>2. q >= 0
        BY <1>3, <2>1
    <2> QED BY <2>1, <2>2 DEF BASE, q
<1>5. HEAP_TABLES \in Nat /\ HEAP_TABLES > 0
    <2>1. HEAP_FIRST \in Nat /\ HEAP_FIRST + HEAP_INITIAL - 1 \in Nat
          /\ HEAP_FIRST <= HEAP_FIRST + HEAP_INITIAL - 1
        BY HeapAssumption
    <2>2. TableOf(HEAP_FIRST) \in Nat /\ TableOf(HEAP_FIRST + HEAP_INITIAL - 1) \in Nat
        BY <2>1, DivMod
    <2>3. TableOf(HEAP_FIRST) <= TableOf(HEAP_FIRST + HEAP_INITIAL - 1)
        BY <2>1, TableMonotonic
    <2> QED BY <2>2, <2>3 DEF HEAP_TABLES
<1>6. /\ LIMIT = BASE + 2 * (HEAP_TABLES + IDENT) + 1 /\ LIMIT \in Nat
      /\ LIMIT <= ENTRIES * IDENT /\ LIMIT <= CLEAR /\ IDENT <= TableOf(HEAP_FIRST)
    BY <1>1, <1>2, <1>4, <1>5 DEF Fits, LIMIT, BASE, CLEAR
<1>7. CLEAR \in Nat /\ CLEAR <= NFRAMES
    BY FramesAssumption DEF CLEAR
<1>8. LIMIT <= HEAP_FIRST
    <2> DEFINE h == TableOf(HEAP_FIRST)
    <2>1. h \in Nat /\ ENTRIES * h <= HEAP_FIRST
        BY <1>2, DivMod
    <2>2. IDENT <= h
        BY <1>6
    <2> HIDE DEF h
    <2>3. ENTRIES * IDENT <= ENTRIES * h
        BY <1>2, <2>1, <2>2, TimesMonotonic
    <2> QED BY <1>2, <1>6, <2>1, <2>3
<1>9. LIMIT <= NTABLES * ENTRIES
    <2>1. ENTRIES * IDENT <= ENTRIES * NTABLES
        BY <1>2, TimesMonotonic
    <2> QED BY <1>2, <1>6, <2>1
<1> QED BY <1>2, <1>3, <1>4, <1>5, <1>6, <1>7, <1>8, <1>9, MemoryAssumption

LEMMA PlaceType ==
    ASSUME NEW v \in 0 .. LIMIT - 1
    PROVE  /\ v \in Nat /\ v \in Vpns /\ PlaceOf(v) \in PageTs
           /\ TableOf(v) \in Tables /\ TableOf(v) \in 0 .. IDENT - 1
<1>1. v \in Nat /\ v \in Vpns
    BY Bounds, TablesAssumption DEF Vpns
<1>2. TableOf(v) \in Tables /\ v % ENTRIES \in Entries
    BY <1>1, PlaceOfPage
<1>3. kernel_directory \in Dirs
    BY DirsAssumption DEF kernel_directory, Dirs
<1>4. PlaceOf(v) \in PageTs
    BY <1>2, <1>3 DEF PlaceOf, PageTs
<1>5. TableOf(v) < IDENT
    <2> DEFINE q == TableOf(v)
               r == v % ENTRIES
    <2>0. q \in Nat /\ r \in 0 .. ENTRIES - 1 /\ v = ENTRIES * q + r
        BY <1>1, DivMod
    <2> HIDE DEF q, r
    <2>1. q \in Nat /\ ENTRIES * q <= v
        BY <2>0, TablesAssumption
    <2>2. ~ (IDENT <= q)
        <3> SUFFICES ASSUME IDENT <= q PROVE FALSE
            OBVIOUS
        <3>1. ENTRIES * IDENT <= ENTRIES * q
            BY <2>1, Bounds, TimesMonotonic, TablesAssumption
        <3>2. ENTRIES * IDENT \in Nat /\ ENTRIES * q \in Nat
            BY <2>1, Bounds, TablesAssumption
        <3> QED BY <1>1, <2>1, <3>1, <3>2, Bounds
    <2>3. q < IDENT
        BY <2>1, <2>2, Bounds
    <2> QED BY <2>3 DEF q
<1>6. TableOf(v) \in Nat
    BY <1>1, DivMod
<1> QED BY <1>1, <1>2, <1>4, <1>5, <1>6, Bounds

(* first_frame goes up through memory. *)
LEMMA NextFrame ==
    ASSUME frames \subseteq Frames, NEW n \in 0 .. CLEAR - 1,
           \A f \in 0 .. CLEAR - 1 : f \in frames <=> f < n
    PROVE  first_frame = n
<1>1. n \in Frames /\ n \notin frames
    BY Bounds, FramesAssumption DEF Frames
<1>2. \A f \in Frames \ frames : n <= f
    <2> SUFFICES ASSUME NEW f \in Frames \ frames, f < n PROVE FALSE
        BY <1>1 DEF Frames
    <2>1. f \in 0 .. CLEAR - 1
        BY Bounds DEF Frames
    <2> QED BY <2>1
<1>3. \A f \in Frames \ frames : (\A g \in Frames \ frames : f <= g) => f = n
    BY <1>1, <1>2 DEF Frames
<1> QED BY <1>1, <1>2, <1>3 DEF first_frame

-----------------------------------------------------------------------------
(* Once mapped, a page stays where it is *)

(* alloc_frame touches the page it is called for and only if that has no    *)
(* frame.                                                                   *)
LEMMA AllocTouches ==
    ASSUME NEW p \in PageTs, NEW q \in PageTs, NEW k \in BOOLEAN, NEW w \in BOOLEAN,
           pages \in [PageTs -> Page], alloc_frame(p, k, w), p = q => pages[q].frame # 0
    PROVE  pages'[q] = pages[q]
BY DEF alloc_frame

(* After the boot loops the kernel directory loses no table.                *)
LEMMA KernelTablesStay ==
    ASSUME IInv, Next, pc \notin {"tables", "identity"}
    PROVE  \A t \in Tables : tables[kernel_directory][t] # NONE
                => tables'[kernel_directory][t] = tables[kernel_directory][t]
<1>1. /\ kernel_directory \in Dirs /\ tables \in [Dirs -> [Tables -> Dirs \cup {NONE}]]
      /\ ndirs \in Dirs /\ current \in Dirs
    BY DirsAssumption DEF kernel_directory, Dirs, IInv, TypeOK
<1>2. CASE UNCHANGED tables
    BY <1>2
<1>3. CASE CloneShare \/ CloneTable
    <2>1. ndirs # kernel_directory /\ i \in Tables
        BY <1>3, TablesAssumption
           DEF CloneShare, CloneTable, IInv, DirsInv, Cloning, LoopBounds, kernel_directory, TypeOK, Dirs, Tables
    <2>2. PICK x \in Dirs \cup {NONE} : tables' = [tables EXCEPT ![ndirs][i] = x]
        <3>1. src \in Dirs /\ tables[src][i] \in Dirs \cup {NONE}
            BY <1>1, <2>1 DEF IInv, TypeOK
        <3> QED BY <1>1, <1>3, <3>1 DEF CloneShare, CloneTable
    <2> QED BY <1>1, <2>1, <2>2
<1>4. CASE MoveStackPage
    <2>1. current # kernel_directory
        BY <1>4 DEF MoveStackPage, IInv, DirsInv, Booting, Cloning
    <2>2. i \in Vpns
        BY <1>4, StackAssumption, TablesAssumption DEF MoveStackPage, IInv, TypeOK, LoopBounds, Vpns
    <2>3. tables' = WithTable(current, i)
        BY <1>4 DEF MoveStackPage
    <2> QED BY <1>1, <2>1, <2>2, <2>3, WithTableMakes
<1>5. CASE HeapExpand
    BY <1>1, <1>5, ExpandMakes
<1> QED
    BY <1>2, <1>3, <1>4, <1>5
       DEF Next, Loop, MakeHeapTables, IdentityMap, MakeHeapTablesDone, IdentityMapDone, MapHeap,
           MapHeapDone, CloneSkip, CloneEntry, CloneTableDone, CloneDone, MoveStackDone,
           MoveStack, Fork, SwitchTask, HeapContract

LEMMA OtherPlace ==
    ASSUME NEW v \in Nat, NEW w \in Nat, v # w, NEW tbls, NEW d
    PROVE  PageIn(tbls, d, w) # PlaceOf(v)
BY PlaceInjective DEF PageIn, PlaceOf

LEMMA MappedStays ==
    ASSUME IInv, Next, pc \notin {"tables", "identity"}, NEW v \in 0 .. LIMIT - 1, Mapped(v)
    PROVE  Mapped(v)'
<1>1. /\ v \in Nat /\ TableOf(v) \in Tables /\ PlaceOf(v) \in PageTs /\ v < HEAP_FIRST
      /\ HEAP_FIRST \in Nat
    BY PlaceType, Bounds, HeapAssumption
<1>2. pages \in [PageTs -> Page]
    BY DEF IInv, FrameInv
<1>3. SUFFICES pages'[PlaceOf(v)] = pages[PlaceOf(v)]
    <2>1. tables'[kernel_directory][TableOf(v)] = tables[kernel_directory][TableOf(v)]
        BY <1>1, KernelTablesStay DEF Mapped, kernel_directory, NONE
    <2> QED BY <1>3, <2>1 DEF Mapped
<1>4. CASE UNCHANGED pages
    BY <1>4
<1>5. CASE MapHeap
    <2>1. i \in HEAP_FIRST .. HEAP_FIRST + HEAP_INITIAL - 1 /\ i \in HEAP_PAGES /\ pc # "tables"
        BY <1>5, HeapAssumption DEF MapHeap, IInv, LoopBounds, HEAP_PAGES
    <2>2. PageIn(tables, kernel_directory, i) \in PageTs
        BY <2>1, HeapPageMapped
    <2>3. i \in Nat /\ v # i
        BY <1>1, <2>1
    <2>4. PageIn(tables, kernel_directory, i) # PlaceOf(v)
        BY <1>1, <2>3, OtherPlace
    <2>5. alloc_frame(PageIn(tables, kernel_directory, i), FALSE, FALSE)
        BY <1>5 DEF MapHeap
    <2> QED BY <1>1, <1>2, <2>2, <2>4, <2>5, AllocTouches
<1>6. CASE HeapExpand
    <2> DEFINE w == HEAP_FIRST + heap_pages
    <2>1. /\ w \in HEAP_PAGES /\ PageIn(tables', kernel_directory, w) \in PageTs
          /\ alloc_frame(PageIn(tables', kernel_directory, w), FALSE, TRUE)
        BY <1>6, ExpandMakes
    <2> HIDE DEF w
    <2>2. w \in Nat /\ v # w
        BY <1>1, <2>1 DEF HEAP_PAGES
    <2>3. PageIn(tables', kernel_directory, w) # PlaceOf(v)
        BY <1>1, <2>2, OtherPlace
    <2> QED BY <1>1, <1>2, <2>1, <2>3, AllocTouches
<1>7. CASE HeapContract
    <2> DEFINE w == HEAP_FIRST + heap_pages - 1
    <2>1. w \in HEAP_FIRST .. HEAP_FIRST + HEAP_MAX - 1 /\ pc # "tables"
        BY <1>7, HeapAssumption DEF HeapContract, IInv, TypeOK
    <2>2. free_frame(PageIn(tables, kernel_directory, w))
        BY <1>7 DEF HeapContract
    <2> HIDE DEF w
    <2>3. w \in Nat /\ v # w
        BY <1>1, <2>1
    <2>4. PageIn(tables, kernel_directory, w) # PlaceOf(v)
        BY <1>1, <2>3, OtherPlace
    <2> QED BY <1>1, <1>2, <2>2, <2>4 DEF free_frame
<1>8. CASE MoveStackPage
    <2>0. pc = "stack" /\ i >= STACK_TOP - STACK_PAGES /\ i \in Nat /\ current \in Dirs
        BY <1>8 DEF MoveStackPage, IInv, TypeOK
    <2>1. /\ i \in Nat /\ i > 0 /\ i \in Vpns /\ current \in Dirs
          /\ alloc_frame(PageIn(tables', current, i), FALSE, TRUE)
        <3>1. i <= STACK_TOP
            BY <2>0, StackAssumption DEF IInv, LoopBounds
        <3>2. i > 0 /\ i \in Vpns
            BY <2>0, <3>1, StackAssumption, TablesAssumption DEF Vpns
        <3> QED BY <1>8, <2>0, <3>2 DEF MoveStackPage
    <2>2. PageIn(tables', current, i) \in PageTs
        BY <1>8, <2>1, WithTableMakes, PageInType DEF MoveStackPage, IInv, TypeOK
    <2>3. PageIn(tables', current, i) = PlaceOf(v) => pages[PlaceOf(v)].frame # 0
        <3>1. PageIn(tables', current, i) = PlaceOf(v) => v = i
            BY <1>1, <2>1, OtherPlace
        <3> QED BY <2>1, <3>1 DEF Mapped
    <2> QED BY <1>1, <1>2, <2>1, <2>2, <2>3, AllocTouches
<1>9. CASE CloneEntry
    <2>1. /\ i \in Tables /\ e \in Entries /\ ndirs \in Dirs /\ ndirs # kernel_directory
          /\ tables[src][i] \in Dirs
        <3>1. /\ pc = "clone_table" /\ e < ENTRIES /\ e \in 0 .. ENTRIES /\ i \in Nat
              /\ ndirs \in Dirs /\ src \in Dirs
              /\ tables \in [Dirs -> [Tables -> Dirs \cup {NONE}]]
            BY <1>9 DEF CloneEntry, IInv, TypeOK
        <3>2. i < NTABLES /\ src < ndirs /\ tables[src][i] # NONE
            BY <3>1 DEF IInv, LoopBounds, DirsInv, CloneInv, Cloning
        <3>3. i \in Tables /\ e \in Entries
            BY <3>1, <3>2, TablesAssumption DEF Tables, Entries
        <3>4. ndirs # kernel_directory
            BY <3>1, <3>2 DEF Dirs, kernel_directory
        <3> QED BY <3>1, <3>2, <3>3, <3>4
    <2>2. <<ndirs, i, e>> \in PageTs /\ <<tables[src][i], i, e>> \in PageTs
        BY <2>1 DEF PageTs
    <2>3. pages[<<tables[src][i], i, e>>].rw \in BOOLEAN
        BY <2>2 DEF IInv, FrameInv, Page
    <2>4. <<ndirs, i, e>> # PlaceOf(v)
        BY <2>1 DEF PlaceOf
    <2> QED BY <1>1, <1>2, <1>4, <1>9, <2>2, <2>3, <2>4, AllocTouches DEF CloneEntry
<1> QED
    BY <1>4, <1>5, <1>6, <1>7, <1>8, <1>9
       DEF Next, Loop, MakeHeapTables, MakeHeapTablesDone, IdentityMap, IdentityMapDone, MapHeapDone,
           CloneSkip, CloneShare, CloneTable, CloneTableDone, CloneDone, MoveStackDone,
           MoveStack, Fork, SwitchTask

(* Every step after the boot loops. *)
LEMMA MappedPhaseStep ==
    ASSUME IInv, Next, pc \notin {"tables", "identity"}, MappedPhase
    PROVE  pc' \notin {"tables", "identity"} /\ MappedPhase'
<1>1. PAGE_SIZE \in Nat /\ placement \in Nat
    BY FramesAssumption DEF IInv, TypeOK
<1>2. pc' \notin {"tables", "identity"}
    BY DEF Next, Loop, MakeHeapTables, MakeHeapTablesDone, IdentityMap, IdentityMapDone, MapHeap,
           MapHeapDone, CloneSkip, CloneShare, CloneTable, CloneEntry, CloneTableDone, CloneDone,
           MoveStackPage, MoveStackDone, MoveStack, Fork, SwitchTask, HeapExpand, HeapContract
<1>3. /\ placement' \in Nat /\ Room(pc') \in Nat /\ Room(pc) \in Nat
      /\ placement' + Room(pc') <= placement + Room(pc)
    <2>1. CASE MapHeapDone
        BY <1>1, <2>1, Bounds DEF MapHeapDone, Room, HEAP_T
    <2>2. CASE placement' = placement /\ (pc' = "heap" => pc = "heap")
        BY <1>1, <2>2 DEF Room
    <2> QED
        BY <2>1, <2>2
           DEF Next, Loop, MakeHeapTables, MakeHeapTablesDone, IdentityMap, IdentityMapDone, MapHeap,
               CloneSkip, CloneShare, CloneTable, CloneEntry, CloneTableDone, CloneDone,
               MoveStackPage, MoveStackDone, MoveStack, Fork, SwitchTask, HeapExpand, HeapContract
<1>4. MappedPhase'
    <2> SUFFICES ASSUME NEW v \in Nat, v * PAGE_SIZE < placement' + Room(pc')
                 PROVE  v < LIMIT /\ Mapped(v)'
        BY DEF MappedPhase
    <2>1. v * PAGE_SIZE < placement + Room(pc)
        <3>1. v * PAGE_SIZE \in Nat
            BY <1>1
        <3>2. placement' + Room(pc') \in Nat
            BY <1>3
        <3>3. placement + Room(pc) \in Nat
            BY <1>1, <1>3
        <3>4. placement' + Room(pc') <= placement + Room(pc)
            BY <1>3
        <3> QED BY <3>1, <3>2, <3>3, <3>4, LessThrough
    <2>2. v < LIMIT /\ Mapped(v)
        BY <2>1 DEF MappedPhase
    <2>3. v \in 0 .. LIMIT - 1
        BY <2>2, Bounds
    <2> QED BY <2>2, <2>3, MappedStays
<1> QED BY <1>2, <1>4

-----------------------------------------------------------------------------
(* The boot loops *)

LEMMA InitIdentity == Init => IdInv
<1> SUFFICES ASSUME Init PROVE IdInv
    OBVIOUS
<1>1. \A f \in 0 .. CLEAR - 1 : f \notin frames
    <2>1. frames \subseteq CLEAR .. NFRAMES - 1
        BY StaleAssumption DEF Init, CLEAR
    <2> QED BY <2>1, Bounds, FramesAssumption
<1>2. \A v \in 0 .. LIMIT - 1 : pages[PlaceOf(v)].frame = 0
    <2>1. \A p \in PageTs : pages[p].frame = 0
        BY DEF Init, PageTs, Blank
    <2> QED BY <2>1, PlaceType
<1>3. \A t \in Tables : tables[kernel_directory][t] = NONE
    BY DirsAssumption DEF Init, kernel_directory, Dirs
<1>4. i = HEAP_FIRST /\ HEAP_FIRST \in Nat /\ placement = FIRST /\ pc = "tables"
    BY HeapAssumption DEF Init
<1>5. TablesPhase
    BY <1>1, <1>2, <1>3, <1>4 DEF TablesPhase
<1> QED BY <1>4, <1>5 DEF IdInv

(* The tables of the heap are made one after the other. *)
LEMMA HeapTablesGrow ==
    ASSUME IInv, TablesPhase, MakeHeapTables
    PROVE  TablesPhase'
<1> DEFINE h == TableOf(HEAP_FIRST)
           q == TableOf(i)
           k == kernel_directory
<1>1. /\ pc = "tables" /\ i < HEAP_FIRST + HEAP_INITIAL /\ tables' = WithTable(k, i)
      /\ placement' = Placed(k, i) /\ i' = i + 1 /\ frames' = frames /\ pages' = pages
    BY DEF MakeHeapTables
<1>2. i \in Nat /\ HEAP_FIRST \in Nat /\ HEAP_FIRST <= i /\ i \in Vpns
    <2>1. i \in HEAP_FIRST .. HEAP_FIRST + HEAP_INITIAL
        BY <1>1 DEF IInv, LoopBounds
    <2> QED BY <1>1, <2>1, HeapAssumption, TablesAssumption DEF Vpns
<1>3. h \in Nat /\ q \in Nat /\ h <= q /\ q \in Tables /\ k \in Dirs /\ k # NONE /\ Tables \subseteq Nat
    <2>1. k \in Dirs /\ k # NONE
        BY DirsAssumption DEF kernel_directory, Dirs, NONE
    <2>2. Tables \subseteq Nat
        BY TablesAssumption DEF Tables
    <2> QED BY <1>2, <2>1, <2>2, DivMod, TableMonotonic, PlaceOfPage
<1>4. \A t \in Tables : tables'[k][t] = IF t = q /\ tables[k][t] = NONE THEN k ELSE tables[k][t]
    <2>1. tables \in [Dirs -> [Tables -> Dirs \cup {NONE}]]
        BY DEF IInv, TypeOK
    <2> QED BY <1>1, <1>2, <1>3, <2>1, WithTableMakes
<1>5. BASE \in Nat /\ FIRST \in Nat /\ FIRST >= PAGE_SIZE
    BY Bounds
<1>6. /\ \A t \in Tables : tables'[k][t] = IF h <= t /\ t <= q THEN k ELSE NONE
      /\ placement' = PAGE_SIZE * (BASE + 2 * (q - h + 1))
    <2>1. CASE i = HEAP_FIRST
        <3>1. q = h /\ placement = FIRST /\ \A t \in Tables : tables[k][t] = NONE
            BY <2>1, <1>2 DEF TablesPhase
        <3>2. placement' = Aligned(FIRST) + PAGE_SIZE
            BY <1>1, <1>3, <3>1 DEF Placed
        <3>3. placement' = PAGE_SIZE * (BASE + 2)
            BY <3>2, <1>5, AlignedValue DEF BASE
        <3> HIDE DEF h, q, k
        <3>4. 2 * (q - h + 1) = 2
            BY <1>3, <3>1
        <3> QED BY <1>3, <1>4, <3>1, <3>3, <3>4
    <2>2. CASE i > HEAP_FIRST
        <3> DEFINE p == TableOf(i - 1)
                   n == BASE + 2 * (p - h + 1)
        <3>1. i - 1 \in Nat /\ HEAP_FIRST <= i - 1 /\ (i - 1) + 1 = i
            BY <1>2, <2>2
        <3>2. p \in Nat /\ h <= p /\ (q = p \/ q = p + 1)
            BY <1>2, <3>1, DivMod, TableMonotonic, TableStep
        <3>3. /\ placement = PAGE_SIZE * n
              /\ \A t \in Tables : tables[k][t] = IF h <= t /\ t <= p THEN k ELSE NONE
            BY <1>2, <2>2 DEF TablesPhase
        <3>4. placement' = IF tables[k][q] = NONE THEN Aligned(placement) + PAGE_SIZE ELSE placement
            BY <1>1 DEF Placed
        <3> HIDE DEF h, q, k, p
        <3>5. CASE q = p
            <4>1. tables[k][q] = k
                BY <1>3, <3>2, <3>3, <3>5
            <4>2. \A t \in Tables : tables'[k][t] = tables[k][t]
                BY <1>3, <1>4, <4>1
            <4>3. placement' = placement
                BY <1>3, <3>4, <4>1
            <4> QED BY <3>3, <3>5, <4>2, <4>3
        <3>6. CASE q = p + 1
            <4>1. tables[k][q] = NONE
                BY <1>3, <3>2, <3>3, <3>6
            <4>2. n \in Nat /\ n > 0 /\ n + 2 = BASE + 2 * (q - h + 1)
                BY <1>3, <1>5, <3>2, <3>6
            <4> HIDE DEF n
            <4>3. placement' = PAGE_SIZE * (n + 2)
                BY <3>3, <3>4, <4>1, <4>2, AlignedPages
            <4>4. \A t \in Tables : tables'[k][t] = IF h <= t /\ t <= q THEN k ELSE NONE
                <5> TAKE t \in Tables
                <5>1. CASE t = q
                    BY <1>3, <1>4, <4>1, <5>1
                <5>2. CASE t # q
                    <6>1. t \in Nat /\ (t <= q <=> t <= p)
                        BY <1>3, <3>2, <3>6, <5>2
                    <6> QED BY <1>4, <3>3, <5>2, <6>1
                <5> QED BY <5>1, <5>2
            <4> QED BY <4>2, <4>3, <4>4
        <3> QED BY <3>2, <3>5, <3>6
    <2> QED BY <1>2, <2>1, <2>2
<1>7. i' > HEAP_FIRST /\ i' # HEAP_FIRST /\ i' - 1 = i
    BY <1>1, <1>2
<1>8. /\ \A f \in 0 .. CLEAR - 1 : f \notin frames'
      /\ \A v \in 0 .. LIMIT - 1 : pages'[PlaceOf(v)].frame = 0
    BY <1>1 DEF TablesPhase
<1> QED BY <1>6, <1>7, <1>8 DEF TablesPhase

(* The identity mapping begins with no table below those of the heap. *)
LEMMA IdentityBegins ==
    ASSUME IInv, TablesPhase, MakeHeapTablesDone
    PROVE  IdentityPhase'
<1> DEFINE h == TableOf(HEAP_FIRST)
<1>1. /\ pc = "tables" /\ i >= HEAP_FIRST + HEAP_INITIAL /\ i' = 0 /\ placement' = placement
      /\ frames' = frames /\ pages' = pages /\ tables' = tables
    BY DEF MakeHeapTablesDone
<1>2. i = HEAP_FIRST + HEAP_INITIAL /\ HEAP_FIRST \in Nat /\ HEAP_INITIAL \in Nat \ {0}
    BY <1>1, HeapAssumption DEF IInv, LoopBounds
<1>3. i # HEAP_FIRST /\ i - 1 = HEAP_FIRST + HEAP_INITIAL - 1
    BY <1>2
<1>4. placement' = PAGE_SIZE * (BASE + 2 * (HEAP_TABLES + 0))
    <2>1. placement' = PAGE_SIZE * (BASE + 2 * HEAP_TABLES)
        BY <1>1, <1>3 DEF TablesPhase, HEAP_TABLES
    <2>2. HEAP_TABLES + 0 = HEAP_TABLES
        BY Bounds
    <2> QED BY <2>1, <2>2
<1>5. \A t \in 0 .. IDENT - 1 : tables'[kernel_directory][t] = NONE
    <2> SUFFICES ASSUME NEW t \in 0 .. IDENT - 1 PROVE tables[kernel_directory][t] = NONE
        BY <1>1
    <2>1. h \in Nat /\ IDENT <= h
        BY <1>2, DivMod, Bounds
    <2>2. t \in Tables
        BY Bounds, TablesAssumption DEF Tables
    <2> HIDE DEF h
    <2>3. ~ (h <= t)
        BY <2>1, Bounds
    <2> QED BY <2>2, <2>3 DEF TablesPhase, h
<1>6. WithTables(0)'
    <2>1. i' <= ENTRIES * 0 /\ ~ (0 > 0) /\ \A t \in 0 .. IDENT - 1 : ~ (t < 0)
        BY <1>1, TablesAssumption, Bounds
    <2> QED BY <1>4, <1>5, <2>1 DEF WithTables
<1>7. 0 \in 0 .. LIMIT /\ 0 \in 0 .. IDENT
    BY Bounds
<1>8. \A f \in 0 .. CLEAR - 1 : f \in frames' <=> f < 0
    BY <1>1 DEF TablesPhase
<1>9. \A v \in 0 .. LIMIT - 1 : pages'[PlaceOf(v)].frame = 0
    BY <1>1 DEF TablesPhase
<1>10. \A v \in 0 .. 0 - 1 : FALSE
    OBVIOUS
<1> QED BY <1>1, <1>6, <1>7, <1>8, <1>9, <1>10 DEF IdentityPhase

(* The bound of the loop, placement_address, stays below LIMIT pages. *)
LEMMA BoundHolds ==
    ASSUME NEW c \in 0 .. IDENT, WithTables(c), i \in Nat, IdentityBound(placement)
    PROVE  i < LIMIT
<1> DEFINE n == BASE + 2 * (HEAP_TABLES + c)
<1>1. n \in Nat /\ n + 1 <= LIMIT /\ c \in Nat
    BY Bounds
<1>2. placement = PAGE_SIZE * n /\ PAGE_SIZE \in Nat
    BY FramesAssumption DEF WithTables
<1> HIDE DEF n
<1>3. PAGE_SIZE * n + PAGE_SIZE = (n + 1) * PAGE_SIZE
    BY <1>1, <1>2
<1>4. i * PAGE_SIZE < (n + 1) * PAGE_SIZE
    BY <1>2, <1>3 DEF IdentityBound
<1>5. i < n + 1
    BY <1>1, <1>2, <1>4, ProductLess
<1> QED BY <1>1, <1>5, Bounds

(* One page: a table is placed for it if it is the first of its table.      *)
LEMMA TablesFollow ==
    ASSUME IInv, NEW c \in 0 .. IDENT, WithTables(c), i \in 0 .. LIMIT - 1, IdentityMap
    PROVE  /\ \E d \in 0 .. IDENT : WithTables(d)'
           /\ tables'[kernel_directory][TableOf(i)] = kernel_directory
<1> DEFINE k == kernel_directory
           q == TableOf(i)
           r == i % ENTRIES
<1>1. /\ tables' = WithTable(k, i) /\ placement' = Placed(k, i) /\ i' = i + 1
    BY DEF IdentityMap
<1>2. i \in Nat /\ i \in Vpns /\ q \in Tables /\ q \in 0 .. IDENT - 1 /\ c \in Nat
    BY PlaceType, Bounds
<1>3. /\ ENTRIES \in Nat /\ ENTRIES > 0 /\ IDENT \in Nat /\ IDENT <= NTABLES
      /\ BASE \in Nat /\ HEAP_TABLES \in Nat /\ HEAP_TABLES > 0
    BY TablesAssumption, Bounds
<1>4. k \in Dirs /\ k # NONE
    BY DirsAssumption DEF kernel_directory, Dirs, NONE
<1>5. q \in Nat /\ r \in 0 .. ENTRIES - 1 /\ i = ENTRIES * q + r
    BY <1>2, DivMod
<1>6. \A t \in Tables : tables'[k][t] = IF t = q /\ tables[k][t] = NONE THEN k ELSE tables[k][t]
    <2>1. tables \in [Dirs -> [Tables -> Dirs \cup {NONE}]]
        BY DEF IInv, TypeOK
    <2> QED BY <1>1, <1>2, <1>4, <2>1, WithTableMakes
<1>7. /\ i <= ENTRIES * c /\ (c > 0 => ENTRIES * (c - 1) < i)
      /\ placement = PAGE_SIZE * (BASE + 2 * (HEAP_TABLES + c))
      /\ \A t \in 0 .. IDENT - 1 : tables[k][t] = IF t < c THEN k ELSE NONE
    BY DEF WithTables
<1>8. \A t \in 0 .. IDENT - 1 : t \in Tables /\ t \in Nat
    BY <1>3, TablesAssumption DEF Tables
<1>9. placement' = IF tables[k][q] = NONE THEN Aligned(placement) + PAGE_SIZE ELSE placement
    BY <1>1 DEF Placed
<1> HIDE DEF q, r, k
<1>10. CASE q < c
    <2>1. tables[k][q] = k
        BY <1>2, <1>7, <1>10
    <2>2. ENTRIES * (q + 1) <= ENTRIES * c
        BY <1>2, <1>3, <1>5, <1>10, TimesMonotonic
    <2>3. ENTRIES * (q + 1) = ENTRIES * q + ENTRIES /\ ENTRIES * c \in Nat /\ ENTRIES * q \in Nat
        BY <1>2, <1>3, <1>5
    <2>4. i' <= ENTRIES * c
        BY <1>1, <1>2, <1>3, <1>5, <2>2, <2>3
    <2>5. ENTRIES * (c - 1) < i'
        <3>1. c - 1 \in Nat /\ c > 0
            BY <1>2, <1>5, <1>10
        <3>2. ENTRIES * (c - 1) \in Nat /\ ENTRIES * (c - 1) < i
            BY <1>3, <1>7, <3>1
        <3> QED BY <1>1, <1>2, <3>2
    <2>6. \A t \in 0 .. IDENT - 1 : tables'[k][t] = tables[k][t]
        BY <1>4, <1>6, <1>8, <2>1
    <2>7. placement' = placement
        BY <1>4, <1>9, <2>1
    <2>8. WithTables(c)'
        BY <1>7, <2>4, <2>5, <2>6, <2>7 DEF WithTables, k
    <2>9. tables'[k][q] = k
        BY <1>2, <1>4, <1>6, <2>1
    <2> QED BY <2>8, <2>9 DEF k, q
<1>11. CASE ~ (q < c)
    <2>1. ENTRIES * c <= ENTRIES * q
        BY <1>2, <1>3, <1>5, <1>11, TimesMonotonic
    <2>2. ENTRIES * c \in Nat /\ ENTRIES * q \in Nat /\ ENTRIES * (c + 1) = ENTRIES * c + ENTRIES
        BY <1>2, <1>3, <1>5
    <2>3. i = ENTRIES * c
        BY <1>2, <1>3, <1>5, <1>7, <2>1, <2>2
    <2>4. q = c
        <3>1. TableOf(i) = c
            BY <1>2, <1>3, <2>2, <2>3, DivUnique
        <3> QED BY <3>1 DEF q
    <2>5. tables[k][q] = NONE
        BY <1>2, <1>7, <1>11
    <2>6. tables'[k][q] = k
        BY <1>2, <1>6, <2>5
    <2>7. placement' = PAGE_SIZE * (BASE + 2 * (HEAP_TABLES + (c + 1)))
        <3> DEFINE n == BASE + 2 * (HEAP_TABLES + c)
        <3>1. n \in Nat /\ n > 0 /\ n + 2 = BASE + 2 * (HEAP_TABLES + (c + 1))
            BY <1>2, <1>3
        <3>2. placement = PAGE_SIZE * n
            BY <1>7
        <3> HIDE DEF n
        <3>3. placement' = PAGE_SIZE * (n + 2)
            BY <1>9, <2>5, <3>1, <3>2, AlignedPages
        <3> QED BY <3>1, <3>3
    <2>8. \A t \in 0 .. IDENT - 1 : tables'[k][t] = IF t < c + 1 THEN k ELSE NONE
        <3> TAKE t \in 0 .. IDENT - 1
        <3>1. CASE t = q
            BY <1>2, <2>4, <2>6, <3>1
        <3>2. CASE t # q
            <4>1. t \in Tables /\ (t < c + 1 <=> t < c)
                BY <1>2, <1>8, <2>4, <3>2
            <4> QED BY <1>6, <1>7, <3>2, <4>1
        <3> QED BY <3>1, <3>2
    <2>9. i' <= ENTRIES * (c + 1) /\ ENTRIES * ((c + 1) - 1) < i'
        <3>1. (c + 1) - 1 = c
            BY <1>2
        <3> QED BY <1>1, <1>2, <1>3, <2>2, <2>3, <3>1
    <2>10. WithTables(c + 1)'
        BY <2>7, <2>8, <2>9 DEF WithTables, k
    <2>11. c + 1 \in 0 .. IDENT
        BY <1>2, <1>3, <2>4
    <2> QED BY <2>6, <2>10, <2>11 DEF k, q
<1> QED BY <1>10, <1>11

LEMMA IdentityGoesOn ==
    ASSUME IInv, IdentityPhase, IdentityMap
    PROVE  IdentityPhase'
<1> DEFINE k == kernel_directory
<1>1. PICK c \in 0 .. IDENT : WithTables(c)
    BY DEF IdentityPhase
<1>2. i \in Nat /\ LIMIT \in Nat
    BY Bounds DEF IdentityPhase
<1>3. i < LIMIT
    <2>1. IdentityBound(placement)
        BY DEF IdentityMap
    <2> QED BY <1>1, <1>2, <2>1, BoundHolds
<1>4. i \in 0 .. LIMIT - 1 /\ i' = i + 1
    BY <1>2, <1>3 DEF IdentityMap
<1>5. PlaceOf(i) \in PageTs /\ pages \in [PageTs -> Page] /\ frames \subseteq Frames
    BY <1>4, PlaceType DEF IInv, FrameInv
<1>6. /\ \E d \in 0 .. IDENT : WithTables(d)'
      /\ tables'[k][TableOf(i)] = k
    BY <1>1, <1>4, TablesFollow
<1>7. first_frame = i
    <2>1. i \in 0 .. CLEAR - 1
        BY <1>2, <1>3, Bounds
    <2> QED BY <1>5, <2>1, NextFrame DEF IdentityPhase
<1>8. /\ frames' = frames \cup {i}
      /\ pages' = [pages EXCEPT ![PlaceOf(i)] = [present |-> TRUE, rw |-> FALSE, user |-> TRUE, frame |-> i]]
    <2>1. PageIn(tables', k, i) = PlaceOf(i)
        BY <1>6 DEF PageIn, PlaceOf
    <2>2. pages[PlaceOf(i)].frame = 0
        <3>1. i \in i .. LIMIT - 1
            BY <1>2, <1>3
        <3> QED BY <3>1 DEF IdentityPhase
    <2>3. alloc_frame(PlaceOf(i), FALSE, FALSE)
        BY <2>1 DEF IdentityMap
    <2> QED BY <1>7, <2>2, <2>3 DEF alloc_frame
<1>9. pages'[PlaceOf(i)].present /\ pages'[PlaceOf(i)].frame = i
    BY <1>5, <1>8
<1>10. \A v \in 0 .. LIMIT - 1 : v # i => pages'[PlaceOf(v)] = pages[PlaceOf(v)]
    <2> SUFFICES ASSUME NEW v \in 0 .. LIMIT - 1, v # i PROVE pages'[PlaceOf(v)] = pages[PlaceOf(v)]
        OBVIOUS
    <2>1. PlaceOf(v) \in PageTs /\ v \in Nat
        BY PlaceType
    <2>2. PlaceOf(v) # PlaceOf(i)
        BY <1>2, <2>1, PlaceInjective DEF PlaceOf
    <2> QED BY <1>5, <1>8, <2>1, <2>2
<1>11. \A v \in 0 .. i' - 1 : Mapped(v)'
    <2> SUFFICES ASSUME NEW v \in 0 .. i' - 1 PROVE Mapped(v)'
        OBVIOUS
    <2>1. CASE v = i
        BY <1>6, <1>9, <2>1 DEF Mapped
    <2>2. CASE v # i
        <3>1. v \in 0 .. i - 1 /\ v \in 0 .. LIMIT - 1
            BY <1>2, <1>3, <1>4, <2>2
        <3>2. Mapped(v)
            BY <3>1 DEF IdentityPhase
        <3>3. TableOf(v) \in Tables /\ k \in Dirs /\ k # NONE /\ i \in Vpns
            BY <1>4, <3>1, PlaceType, DirsAssumption DEF kernel_directory, Dirs, NONE
        <3>4. tables'[k][TableOf(v)] = tables[k][TableOf(v)]
            <4>1. tables \in [Dirs -> [Tables -> Dirs \cup {NONE}]] /\ tables' = WithTable(k, i)
                BY DEF IInv, TypeOK, IdentityMap
            <4>2. tables[k][TableOf(v)] # NONE
                BY <3>2, <3>3 DEF Mapped
            <4> QED BY <3>3, <4>1, <4>2, WithTableMakes
        <3> QED BY <1>10, <2>2, <3>1, <3>2, <3>4 DEF Mapped
    <2> QED BY <2>1, <2>2
<1>12. \A v \in i' .. LIMIT - 1 : pages'[PlaceOf(v)].frame = 0
    <2> SUFFICES ASSUME NEW v \in i' .. LIMIT - 1 PROVE pages'[PlaceOf(v)].frame = 0
        OBVIOUS
    <2>1. v \in i .. LIMIT - 1 /\ v \in 0 .. LIMIT - 1 /\ v # i
        BY <1>2, <1>4
    <2> QED BY <1>10, <2>1 DEF IdentityPhase
<1>13. \A f \in 0 .. CLEAR - 1 : f \in frames' <=> f < i'
    <2> SUFFICES ASSUME NEW f \in 0 .. CLEAR - 1 PROVE f \in frames' <=> f < i'
        OBVIOUS
    <2>1. f \in frames <=> f < i
        BY DEF IdentityPhase
    <2>2. f < i' <=> f < i \/ f = i
        BY <1>2, <1>4, Bounds
    <2> QED BY <1>8, <2>1, <2>2
<1>14. i' \in 0 .. LIMIT
    BY <1>2, <1>3, <1>4
<1> QED BY <1>6, <1>11, <1>12, <1>13, <1>14 DEF IdentityPhase

(* The loop ends one page above placement_address, which leaves room for    *)
(* the heap_t.                                                              *)
LEMMA IdentityEnds ==
    ASSUME IInv, IdentityPhase, IdentityMapDone
    PROVE  MappedPhase'
<1>1. /\ ~ IdentityBound(placement) /\ pc' = "heap" /\ placement' = placement
      /\ tables' = tables /\ pages' = pages
    BY DEF IdentityMapDone
<1>2. i \in Nat /\ i <= LIMIT /\ LIMIT \in Nat /\ PAGE_SIZE \in Nat /\ placement \in Nat
    BY Bounds, FramesAssumption DEF IdentityPhase, IInv, TypeOK
<1> SUFFICES ASSUME NEW v \in Nat, v * PAGE_SIZE < placement + PAGE_SIZE
             PROVE  v < LIMIT /\ Mapped(v)
    BY <1>1 DEF MappedPhase, Room, Mapped
<1>3. placement + PAGE_SIZE <= i * PAGE_SIZE
    <2>1. i * PAGE_SIZE \in Nat /\ placement + PAGE_SIZE \in Nat
        BY <1>2
    <2>2. ~ (i * PAGE_SIZE < placement + PAGE_SIZE)
        BY <1>1 DEF IdentityBound
    <2> QED BY <2>1, <2>2
<1>4. v * PAGE_SIZE < i * PAGE_SIZE
    <2>1. v * PAGE_SIZE \in Nat /\ i * PAGE_SIZE \in Nat /\ placement + PAGE_SIZE \in Nat
        BY <1>2
    <2> QED BY <1>3, <2>1, LessThrough
<1>5. v < i
    BY <1>2, <1>4, ProductLess
<1>6. v \in 0 .. i - 1
    BY <1>2, <1>5
<1> QED BY <1>2, <1>5, <1>6 DEF IdentityPhase

-----------------------------------------------------------------------------
LEMMA NextIdentity == IInv /\ IdInv /\ [Next]_vars => IdInv'
<1> SUFFICES ASSUME IInv, IdInv, [Next]_vars PROVE IdInv'
    OBVIOUS
<1>1. CASE UNCHANGED vars
    BY <1>1 DEF vars, IdInv, TablesPhase, IdentityPhase, WithTables, MappedPhase, Mapped
<1>2. CASE Next /\ pc = "tables"
    <2>1. CASE MakeHeapTables
        <3>1. TablesPhase' /\ pc' = "tables"
            BY <1>2, <2>1, HeapTablesGrow DEF IdInv, MakeHeapTables
        <3> QED BY <3>1 DEF IdInv
    <2>2. CASE MakeHeapTablesDone
        <3>1. IdentityPhase' /\ pc' = "identity"
            BY <1>2, <2>2, IdentityBegins DEF IdInv, MakeHeapTablesDone
        <3> QED BY <3>1 DEF IdInv
    <2> QED
        BY <1>2, <2>1, <2>2
           DEF Next, Loop, IdentityMap, IdentityMapDone, MapHeap, MapHeapDone, CloneSkip, CloneShare,
               CloneTable, CloneEntry, CloneTableDone, CloneDone, MoveStackPage, MoveStackDone,
               MoveStack, Fork, SwitchTask, HeapExpand, HeapContract, Allocates
<1>3. CASE Next /\ pc = "identity"
    <2>1. CASE IdentityMap
        <3>1. IdentityPhase' /\ pc' = "identity"
            BY <1>3, <2>1, IdentityGoesOn DEF IdInv, IdentityMap
        <3> QED BY <3>1 DEF IdInv
    <2>2. CASE IdentityMapDone
        <3>1. MappedPhase' /\ pc' = "heap"
            BY <1>3, <2>2, IdentityEnds DEF IdInv, IdentityMapDone
        <3> QED BY <3>1 DEF IdInv
    <2> QED
        BY <1>3, <2>1, <2>2
           DEF Next, Loop, MakeHeapTables, MakeHeapTablesDone, MapHeap, MapHeapDone, CloneSkip,
               CloneShare, CloneTable, CloneEntry, CloneTableDone, CloneDone, MoveStackPage,
               MoveStackDone, MoveStack, Fork, SwitchTask, HeapExpand, HeapContract, Allocates
<1>4. CASE Next /\ pc \notin {"tables", "identity"}
    <2>1. pc' \notin {"tables", "identity"} /\ MappedPhase'
        BY <1>4, MappedPhaseStep DEF IdInv
    <2> QED BY <2>1 DEF IdInv
<1> QED BY <1>1, <1>2, <1>3, <1>4

LEMMA IdentityInvariance == Spec => []IdInv
BY InitIdentity, NextIdentity, Invariance, PTL DEF Spec

(* Once paging is on, every page below placement_address is present at the  *)
(* frame of its own number, the tables placed while the loop was running    *)
(* included, and no fork, no stack and no growth or shrinking of the heap   *)
(* takes it away: whatever the sizes of the tables, of the kernel and of    *)
(* the heap, as long as what is placed fits in front of the heap and below  *)
(* the bits memset leaves alone.                                            *)
THEOREM PlacedIsMapped == Spec => []IdentityMapped
<1>1. IInv /\ IdInv => IdentityMapped
    <2> SUFFICES ASSUME IInv, IdInv, pc \notin {"tables", "identity"}, NEW v \in Vpns, Covers(v)
                 PROVE  LET p == PageIn(tables, kernel_directory, v)
                        IN  p \in DOMAIN pages /\ pages[p].present /\ pages[p].frame = v
        BY DEF IdentityMapped
    <2>1. v \in Nat /\ v * PAGE_SIZE < placement
        BY DEF Vpns, Covers
    <2>2. v * PAGE_SIZE < placement + Room(pc)
        <3>1. PAGE_SIZE \in Nat /\ placement \in Nat
            BY FramesAssumption DEF IInv, TypeOK
        <3>2. v * PAGE_SIZE \in Nat
            BY <2>1, <3>1
        <3>3. placement + Room(pc) \in Nat /\ placement <= placement + Room(pc)
            BY <3>1 DEF Room
        <3> QED BY <2>1, <3>1, <3>2, <3>3, LessThrough
    <2>3. v < LIMIT /\ Mapped(v)
        BY <2>1, <2>2 DEF IdInv, MappedPhase
    <2>4. PlaceOf(v) \in PageTs
        BY <2>1, <2>3, PlaceType, Bounds
    <2>5. PlaceOf(v) \in DOMAIN pages
        BY <2>4 DEF IInv, FrameInv
    <2>6. PageIn(tables, kernel_directory, v) = PlaceOf(v)
        BY <2>3 DEF Mapped, PageIn, PlaceOf
    <2> QED BY <2>3, <2>5, <2>6 DEF Mapped
<1> QED BY <1>1, Invariance, IdentityInvariance, PTL
=============================================================================
