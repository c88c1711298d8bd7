------------------------------- MODULE Paging -------------------------------
(***************************************************************************)
(* paging.c and the calls task.c and kheap.c make into it: the bitset of   *)
(* physical frames, the page tables, and the page directories that share   *)
(* them.                                                                   *)
(*                                                                         *)
(* Virtual pages are numbered; page v is entry v % ENTRIES of table        *)
(* v \div ENTRIES.  A page table is made at most once for a place in a     *)
(* directory, so it is named by the directory it was made for:             *)
(* tables[d][t] is that directory, or NONE, and <<o, t, e>> is entry e of  *)
(* the table made for place t of directory o.  Directory 1 is              *)
(* kernel_directory.                                                       *)
(* Loops that allocate frames take one step per iteration; the kernel runs *)
(* them on its only thread, so nothing else happens in between, except     *)
(* that a kmalloc in such a loop may have to grow the heap.                *)
(***************************************************************************)
EXTENDS Integers, Sequences, FiniteSets

CONSTANTS NFRAMES,       \* physical frames, nframes
          PAGE_SIZE,     \* 0x1000
          ENTRIES,       \* page_t's in a table
          NTABLES,       \* tables in a directory
          HEAP_FIRST,    \* the page at KHEAP_START
          HEAP_INITIAL,  \* pages in KHEAP_INITIAL_SIZE
          HEAP_MIN,      \* fewest and
          HEAP_MAX,      \* most pages the heap may come to
          STACK_TOP,     \* the page at the new stack's start
          STACK_PAGES,   \* the new stack's size in pages
          PLACEMENT,     \* placement_address when initialize_paging is called
          STALE,         \* sets of bits memset did not clear
          MAX_DIRS       \* bound on the directories ever made

ASSUME FramesAssumption == /\ NFRAMES \in Nat /\ NFRAMES > 0
                           /\ PAGE_SIZE \in Nat /\ NFRAMES <= PAGE_SIZE
ASSUME TablesAssumption == ENTRIES \in Nat \ {0} /\ NTABLES \in Nat \ {0}
ASSUME DirsAssumption == MAX_DIRS \in Nat /\ MAX_DIRS >= 2
ASSUME HeapAssumption ==
    /\ HEAP_FIRST \in Nat /\ HEAP_INITIAL \in Nat \ {0} /\ HEAP_MIN \in Nat \ {0} /\ HEAP_MAX \in Nat
    /\ HEAP_MIN <= HEAP_INITIAL /\ HEAP_INITIAL <= HEAP_MAX
    /\ HEAP_FIRST + HEAP_MAX <= NTABLES * ENTRIES
(* The new stack is in tables behind those the heap may ever need: the heap *)
(* ends at 0xCFFFF000, the stack at 0xDFFFE000.                             *)
ASSUME StackAssumption ==
    /\ STACK_TOP \in Nat /\ STACK_PAGES \in Nat
    /\ STACK_PAGES < STACK_TOP /\ STACK_TOP < NTABLES * ENTRIES
    /\ (HEAP_FIRST + HEAP_MAX - 1) \div ENTRIES < (STACK_TOP - STACK_PAGES) \div ENTRIES
ASSUME PlacementAssumption == PLACEMENT \in Nat
ASSUME StaleAssumption == STALE \subseteq SUBSET (NFRAMES \div 4 .. NFRAMES - 1)

Frames == 0 .. NFRAMES - 1
Vpns   == 0 .. NTABLES * ENTRIES - 1
Dirs   == 1 .. MAX_DIRS
Tables == 0 .. NTABLES - 1
Entries == 0 .. ENTRIES - 1
NONE   == 0
kernel_directory == 1

VARIABLES frames,     \* frames whose bit is set
          pages,      \* every page_t
          tables,     \* the tables of every directory
          ndirs,      \* directories made so far
          current,    \* current_directory
          placement,  \* placement_address
          heap_pages, \* pages the heap has asked frames for
          pc,         \* the loop in progress, "run" if none
          i,          \* its loop variable: a page or a table
          e,          \* the entry clone_table is at
          src,        \* argument of the clone_directory in progress
          moved       \* move_stack has been called

vars == <<frames, pages, tables, ndirs, current, placement, heap_pages, pc, i, e, src, moved>>

Page == [present : BOOLEAN, rw : BOOLEAN, user : BOOLEAN, frame : Frames]
Blank == [present |-> FALSE, rw |-> FALSE, user |-> FALSE, frame |-> 0]

-----------------------------------------------------------------------------
(* Frames *)

(* Slip: one past the last frame when there is none. *)
first_frame_past ==
    IF Frames \subseteq frames THEN NFRAMES
    ELSE CHOOSE f \in Frames \ frames : \A g \in Frames \ frames : f <= g

(* The lowest clear bit, 0 if there is none: the caller tests for -1.       *)
first_frame ==
    IF Frames \subseteq frames THEN 0
    ELSE CHOOSE f \in Frames \ frames : \A g \in Frames \ frames : f <= g

(* Slip: set_frame is given the number of the frame, not its address. *)
alloc_frame_unscaled(p, is_kernel, is_writeable) ==
    IF pages[p].frame # 0 THEN UNCHANGED <<frames, pages>>
    ELSE /\ frames' = frames \cup {first_frame \div PAGE_SIZE}
         /\ pages' = [pages EXCEPT ![p] = [present |-> TRUE, rw |-> is_writeable,
                                          user |-> ~ is_kernel, frame |-> first_frame]]

alloc_frame(p, is_kernel, is_writeable) ==
    IF pages[p].frame # 0 THEN UNCHANGED <<frames, pages>>
    ELSE /\ frames' = frames \cup {first_frame}
         /\ pages' = [pages EXCEPT ![p] = [present |-> TRUE, rw |-> is_writeable,
                                          user |-> ~ is_kernel, frame |-> first_frame]]

(* clear_frame takes an address and divides it by the page size; free_frame *)
(* passes the frame's number.                                               *)
clear_frame(frame_addr) == frames' = frames \ {frame_addr \div PAGE_SIZE}

(* Slip: the frame is given back, the page keeps it. *)
free_frame_keeps(p) ==
    /\ clear_frame(pages[p].frame * PAGE_SIZE)
    /\ UNCHANGED pages

free_frame(p) ==
    IF pages[p].frame = 0 THEN UNCHANGED <<frames, pages>>
    ELSE /\ clear_frame(pages[p].frame)
         /\ pages' = [pages EXCEPT ![p].frame = 0]

-----------------------------------------------------------------------------
(* Tables *)

TableOf(v) == v \div ENTRIES

(* The page_t of page v in directory d, given the tables that directory has.*)
PageIn(tbls, d, v) == <<tbls[d][TableOf(v)], TableOf(v), v % ENTRIES>>

(* get_page with make set: the directory's tables afterwards.               *)
WithTable(d, v) ==
    IF tables[d][TableOf(v)] = NONE
    THEN [tables EXCEPT ![d][TableOf(v)] = d] ELSE tables

(* kmalloc_ap before there is a heap: the mask test is true even of an      *)
(* aligned address.                                                         *)
Aligned(a) == IF a >= PAGE_SIZE THEN (a - (a % PAGE_SIZE)) + PAGE_SIZE ELSE a
Placed(d, v) == IF tables[d][TableOf(v)] = NONE THEN Aligned(placement) + PAGE_SIZE
                ELSE placement

-----------------------------------------------------------------------------
(* initialize_paging *)

BITSET == NFRAMES \div 32         \* bytes kmalloc'ed for the bitset
DIR    == 2 * PAGE_SIZE + 4       \* sizeof(page_directory_t)
HEAP_T == 36                      \* sizeof(heap_t)
FIRST  == Aligned(PLACEMENT + BITSET) + DIR   \* placement_address after these two

(* Memory is large enough for the kernel: with the heap's tables and t more *)
(* that map it, what is placed ends in front of the heap, in the part of    *)
(* memory whose bits memset clears.                                         *)
HEAP_TABLES == TableOf(HEAP_FIRST + HEAP_INITIAL - 1) - TableOf(HEAP_FIRST) + 1
Fits(t) == LET n == FIRST \div PAGE_SIZE + 2 * (HEAP_TABLES + t) + 1
           IN  n <= ENTRIES * t /\ n <= NFRAMES \div 4 /\ t <= TableOf(HEAP_FIRST)
ASSUME MemoryAssumption == HEAP_T <= PAGE_SIZE /\ \E t \in Tables : Fits(t)

(* The bitset and kernel_directory are placed; memset clears a quarter of   *)
(* the bits.                                                                *)
Init ==
    /\ frames \in STALE
    /\ pages = [p \in Dirs \X Tables \X Entries |-> Blank]
    /\ tables = [d \in Dirs |-> [t \in Tables |-> NONE]]
    /\ ndirs = 1
    /\ current = kernel_directory
    /\ placement = FIRST
    /\ heap_pages = 0
    /\ pc = "tables"
    /\ i = HEAP_FIRST
    /\ e = 0
    /\ src = kernel_directory
    /\ moved = FALSE

(* "Map some pages in the kernel heap area": the tables only.               *)
MakeHeapTables ==
    /\ pc = "tables"
    /\ i < HEAP_FIRST + HEAP_INITIAL
    /\ tables' = WithTable(kernel_directory, i)
    /\ placement' = Placed(kernel_directory, i)
    /\ i' = i + 1
    /\ UNCHANGED <<frames, pages, ndirs, current, heap_pages, pc, e, src, moved>>

MakeHeapTablesDone ==
    /\ pc = "tables"
    /\ i >= HEAP_FIRST + HEAP_INITIAL
    /\ pc' = "identity" /\ i' = 0
    /\ UNCHANGED <<frames, pages, tables, ndirs, current, placement, heap_pages, e, src, moved>>

(* Slip: one page less is mapped. *)
IdentityBoundTight(a) == i * PAGE_SIZE < a - PAGE_SIZE

(* placement_address is read afresh in every iteration.                     *)
IdentityBound(a) == i * PAGE_SIZE < a + PAGE_SIZE

IdentityMap ==
    /\ pc = "identity"
    /\ i \in Vpns
    /\ IdentityBound(placement)
    /\ tables' = WithTable(kernel_directory, i)
    /\ placement' = Placed(kernel_directory, i)
    /\ alloc_frame(PageIn(tables', kernel_directory, i), FALSE, FALSE)
    /\ i' = i + 1
    /\ UNCHANGED <<ndirs, current, heap_pages, pc, e, src, moved>>

IdentityMapDone ==
    /\ pc = "identity"
    /\ ~ IdentityBound(placement)
    /\ pc' = "heap" /\ i' = HEAP_FIRST
    /\ UNCHANGED <<frames, pages, tables, ndirs, current, placement, heap_pages, e, src, moved>>

MapHeap ==
    /\ pc = "heap"
    /\ i < HEAP_FIRST + HEAP_INITIAL
    /\ alloc_frame(PageIn(tables, kernel_directory, i), FALSE, FALSE)
    /\ heap_pages' = heap_pages + 1
    /\ i' = i + 1
    /\ UNCHANGED <<tables, ndirs, current, placement, pc, e, src, moved>>

(* Paging goes on, create_heap places its heap_t, and the kernel directory  *)
(* is cloned.                                                               *)
MapHeapDone ==
    /\ pc = "heap"
    /\ i >= HEAP_FIRST + HEAP_INITIAL
    /\ placement' = placement + HEAP_T
    /\ ndirs' = ndirs + 1
    /\ src' = kernel_directory
    /\ pc' = "clone" /\ i' = 0
    /\ UNCHANGED <<frames, pages, tables, current, heap_pages, e, moved>>

-----------------------------------------------------------------------------
(* clone_directory: ndirs is the directory being filled.                    *)

CloneSkip ==
    /\ pc = "clone" /\ i < NTABLES
    /\ tables[src][i] = NONE
    /\ i' = i + 1
    /\ UNCHANGED <<frames, pages, tables, ndirs, current, placement, heap_pages, pc, e, src, moved>>

(* Slip: the kernel's tables are left out. *)
CloneShareSkips ==
    /\ pc = "clone" /\ i < NTABLES
    /\ tables[src][i] # NONE
    /\ tables[src][i] = tables[kernel_directory][i]
    /\ i' = i + 1
    /\ UNCHANGED <<frames, pages, tables, ndirs, current, placement, heap_pages, pc, e, src, moved>>

CloneShare ==
    /\ pc = "clone" /\ i < NTABLES
    /\ tables[src][i] # NONE
    /\ tables[src][i] = tables[kernel_directory][i]
    /\ tables' = [tables EXCEPT ![ndirs][i] = tables[src][i]]
    /\ i' = i + 1
    /\ UNCHANGED <<frames, pages, ndirs, current, placement, heap_pages, pc, e, src, moved>>

(* Slip: the parent's own table is put into the new directory. *)
CloneTableShares ==
    /\ pc = "clone" /\ i < NTABLES
    /\ tables[src][i] # NONE
    /\ tables[src][i] # tables[kernel_directory][i]
    /\ tables' = [tables EXCEPT ![ndirs][i] = tables[src][i]]
    /\ i' = i + 1
    /\ UNCHANGED <<frames, pages, ndirs, current, placement, heap_pages, pc, e, src, moved>>

CloneTable ==
    /\ pc = "clone" /\ i < NTABLES
    /\ tables[src][i] # NONE
    /\ tables[src][i] # tables[kernel_directory][i]
    /\ tables' = [tables EXCEPT ![ndirs][i] = ndirs]
    /\ pc' = "clone_table" /\ e' = 0
    /\ UNCHANGED <<frames, pages, ndirs, current, placement, heap_pages, i, src, moved>>

(* clone_table, one entry: a new frame, with the flags of the source, for   *)
(* every entry that has no frame.                                           *)
CloneEntry ==
    LET from == <<tables[src][i], i, e>>
    IN  /\ pc = "clone_table" /\ e < ENTRIES
        /\ IF pages[from].frame = 0
           THEN alloc_frame(<<ndirs, i, e>>, FALSE, pages[from].rw)
           ELSE UNCHANGED <<frames, pages>>
        /\ e' = e + 1
        /\ UNCHANGED <<tables, ndirs, current, placement, heap_pages, pc, i, src, moved>>

(* Slip: the loop over the tables does not advance. *)
CloneTableAgain ==
    /\ pc = "clone_table" /\ e >= ENTRIES
    /\ pc' = "clone"
    /\ UNCHANGED <<frames, pages, tables, ndirs, current, placement, heap_pages, i, e, src, moved>>

CloneTableDone ==
    /\ pc = "clone_table" /\ e >= ENTRIES
    /\ pc' = "clone" /\ i' = i + 1
    /\ UNCHANGED <<frames, pages, tables, ndirs, current, placement, heap_pages, e, src, moved>>

(* At boot the clone is switched to; a fork gives it to the new task.       *)
CloneDone ==
    /\ pc = "clone" /\ i >= NTABLES
    /\ current' = IF src = kernel_directory THEN ndirs ELSE current
    /\ pc' = "run"
    /\ UNCHANGED <<frames, pages, tables, ndirs, placement, heap_pages, i, e, src, moved>>

-----------------------------------------------------------------------------
(* The kernel is up *)

(* Where kmalloc is called: by the kernel at large, for a new directory,    *)
(* for the copy of a table, and for a table that get_page has to make.      *)
Allocates ==
    \/ pc = "run"
    \/ pc = "clone" /\ i = 0
    \/ pc = "clone" /\ i < NTABLES /\ tables[src][i] \notin {NONE, tables[kernel_directory][i]}
    \/ pc = "stack" /\ i >= STACK_TOP - STACK_PAGES /\ tables[current][TableOf(i)] = NONE

(* expand in kheap.c, one page.  The kmalloc that grows the heap may be one *)
(* of paging.c itself, in the middle of a clone.  A page of a new table has *)
(* get_page make that table, of kernel_directory only; the kmalloc for it   *)
(* is served from a hole.                                                   *)
HeapExpand ==
    /\ Allocates
    /\ heap_pages < HEAP_MAX
    /\ tables' = WithTable(kernel_directory, HEAP_FIRST + heap_pages)
    /\ alloc_frame(PageIn(tables', kernel_directory, HEAP_FIRST + heap_pages), FALSE, TRUE)
    /\ heap_pages' = heap_pages + 1
    /\ UNCHANGED <<ndirs, current, placement, pc, i, e, src, moved>>

(* contract in kheap.c, one page.                                           *)
HeapContract ==
    /\ pc = "run"
    /\ heap_pages > HEAP_MIN
    /\ free_frame(PageIn(tables, kernel_directory, HEAP_FIRST + heap_pages - 1))
    /\ heap_pages' = heap_pages - 1
    /\ UNCHANGED <<tables, ndirs, current, placement, pc, i, e, src, moved>>

(* initialize_tasking calls move_stack once.                                *)
MoveStack ==
    /\ pc = "run" /\ ~ moved
    /\ moved' = TRUE
    /\ pc' = "stack" /\ i' = STACK_TOP
    /\ UNCHANGED <<frames, pages, tables, ndirs, current, placement, heap_pages, e, src>>

MoveStackPage ==
    /\ pc = "stack"
    /\ i >= STACK_TOP - STACK_PAGES
    /\ tables' = WithTable(current, i)
    /\ alloc_frame(PageIn(tables', current, i), FALSE, TRUE)
    /\ i' = i - 1
    /\ UNCHANGED <<ndirs, current, placement, heap_pages, pc, e, src, moved>>

MoveStackDone ==
    /\ pc = "stack"
    /\ i < STACK_TOP - STACK_PAGES
    /\ pc' = "run" /\ i' = 0
    /\ UNCHANGED <<frames, pages, tables, ndirs, current, placement, heap_pages, e, src, moved>>

(* fork clones the address space of the running task.                       *)
Fork ==
    /\ pc = "run" /\ moved
    /\ ndirs < MAX_DIRS
    /\ ndirs' = ndirs + 1
    /\ src' = current
    /\ pc' = "clone" /\ i' = 0
    /\ UNCHANGED <<frames, pages, tables, current, placement, heap_pages, e, moved>>

(* switch_task makes another task's directory current.                      *)
SwitchTask(d) ==
    /\ pc = "run" /\ moved
    /\ d \in 2 .. ndirs
    /\ current' = d
    /\ UNCHANGED <<frames, pages, tables, ndirs, placement, heap_pages, pc, i, e, src, moved>>

Loop ==
    \/ MakeHeapTables \/ MakeHeapTablesDone \/ IdentityMap \/ IdentityMapDone
    \/ MapHeap \/ MapHeapDone
    \/ CloneSkip \/ CloneShare \/ CloneTable \/ CloneEntry \/ CloneTableDone \/ CloneDone
    \/ MoveStackPage \/ MoveStackDone

Next ==
    \/ Loop
    \/ HeapExpand \/ HeapContract \/ MoveStack \/ Fork
    \/ \E d \in Dirs : SwitchTask(d)

Spec == Init /\ [][Next]_vars

(* A loop that was entered goes on: it has no other thread to wait for.     *)
FairSpec == Spec /\ WF_vars(Loop)

-----------------------------------------------------------------------------
(* The types.  In particular alloc_frame never puts a frame number into a   *)
(* page_t that is not one of the machine's frames.                          *)
TypeOK ==
    /\ frames \subseteq Frames
    /\ pages \in [Dirs \X Tables \X Entries -> Page]
    /\ tables \in [Dirs -> [Tables -> Dirs \cup {NONE}]]
    /\ ndirs \in Dirs
    /\ current \in Dirs
    /\ placement \in Nat
    /\ heap_pages \in 0 .. HEAP_MAX
    /\ pc \in {"tables", "identity", "heap", "clone", "clone_table", "stack", "run"}
    /\ i \in Nat
    /\ e \in 0 .. ENTRIES
    /\ src \in Dirs
    /\ moved \in BOOLEAN

(* A frame backs at most one page: no page_t of any table of any address    *)
(* space has the frame of another.  Frame 0 is left out, the code takes it  *)
(* for "no frame".                                                          *)
FrameExclusive ==
    \A p \in DOMAIN pages : pages[p].frame # 0 =>
        \A q \in DOMAIN pages : pages[q].frame = pages[p].frame => q = p

(* A frame that backs a page is marked as used, so that first_frame never   *)
(* hands it out.                                                            *)
FramesMarked == \A p \in DOMAIN pages : pages[p].frame # 0 => pages[p].frame \in frames

(* Once paging is on, everything placed in front of the heap is mapped to   *)
(* the frame of its own address, the directories and tables that were       *)
(* placed while the loop ran and create_heap's heap_t included.             *)
Covers(v) == v * PAGE_SIZE < placement
IdentityMapped ==
    pc \notin {"tables", "identity"} =>
        \A v \in Vpns : Covers(v) =>
            LET p == PageIn(tables, kernel_directory, v)
            IN  p \in DOMAIN pages /\ pages[p].present /\ pages[p].frame = v

(* Every finished address space sees the kernel as it booted: it has the    *)
(* very tables of kernel_directory, so a page the heap gains or loses in    *)
(* them is seen by every task.  The one table that may be missing is one    *)
(* the heap grew into after the first clone, and that one is in no address  *)
(* space but kernel_directory's, nor is anything else in its place.         *)
Finished(d) == d <= ndirs /\ ~ (d = ndirs /\ pc \in {"clone", "clone_table"})
BootTables  == {TableOf(v) : v \in HEAP_FIRST .. HEAP_FIRST + HEAP_INITIAL - 1}
GrownTables == {TableOf(v) : v \in HEAP_FIRST .. HEAP_FIRST + HEAP_MAX - 1} \ BootTables
Unseen(t) == /\ t \in GrownTables
             /\ \A c \in Dirs : c # kernel_directory => tables[c][t] = NONE
KernelShared ==
    \A d \in Dirs, t \in Tables :
        Finished(d) /\ tables[kernel_directory][t] # NONE
            => tables[d][t] = tables[kernel_directory][t] \/ Unseen(t)

(* Address spaces are separate: apart from the kernel's tables, a table     *)
(* belongs to the one directory it was made for.                            *)
PrivateTables ==
    \A d \in Dirs, t \in Tables :
        tables[d][t] \in {NONE, d, tables[kernel_directory][t]}

(* Every call returns, the identity mapping included, although its bound,   *)
(* placement_address, moves while it runs.                                  *)
CallsReturn == (pc # "run") ~> (pc = "run")

(* "Frame is now free again." (paging.c:101)                                *)
FreedFrameIsFree ==
    [][\A p \in DOMAIN pages : pages[p].frame # 0 /\ pages'[p].frame = 0
                                => pages[p].frame \notin frames']_vars

(* "Create a new process in a new address space which is a clone of this."  *)
(* (kmain.c:82): where the parent has a frame, so has the child.            *)
CloneComplete ==
    [][pc = "clone" /\ pc' = "run" =>
          \A t \in Tables, x \in Entries :
             tables[src][t] # NONE /\ pages[<<tables[src][t], t, x>>].frame # 0
                => /\ tables[ndirs][t] # NONE
                   /\ pages[<<tables[ndirs][t], t, x>>].frame # 0]_vars
=============================================================================
