------------------------------- MODULE KHeap --------------------------------
(***************************************************************************)
(* The kernel heap, kheap.c, down to the words of the headers and footers  *)
(* it keeps inside the memory it hands out.                                *)
(*                                                                         *)
(* The unit is the 32-bit word: addresses and sizes count words, a         *)
(* header_t is 3 words (magic, is_hole, size), a footer_t 2 (magic,        *)
(* header).  uint32_t arithmetic wraps at WRAP.  The heap functions are    *)
(* operators on a heap record                                              *)
(*                                                                         *)
(*    [mem, index, end, framed, freed, stop]                               *)
(*                                                                         *)
(* the memory, heap->index, heap->end_address, the pages of the heap that  *)
(* have a frame, those whose frame contract gave back, and how the kernel  *)
(* came to a halt, if it did.  A call is one step, and so is each call of  *)
(* alloc by itself: nothing but the kernel's main thread uses the heap.    *)
(***************************************************************************)
EXTENDS OrderedOps

CONSTANTS PAGE,             \* words in a page (0x1000 bytes)
          KHEAP_START,
          HEAP_INDEX_SIZE,  \* slots, hence words, of the index
          HEAP_MIN_SIZE,
          HEAP_MAGIC,
          WRAP,             \* uint32_t arithmetic is modulo WRAP
          Garbage,          \* what a word of a fresh frame may hold
          Data,             \* what a client may store in its block
          Scenarios         \* what is asked of the heap, see MCKHeap

HDR == 3
FTR == 2

ASSUME PageAssumption == PAGE \in Nat /\ PAGE > HDR + FTR
ASSUME StartAssumption == KHEAP_START \in Nat /\ KHEAP_START >= PAGE
                          /\ KHEAP_START % PAGE = 0 /\ HEAP_INDEX_SIZE \in Nat \ {0}
ASSUME MinAssumption == HEAP_MIN_SIZE \in Nat /\ HEAP_MIN_SIZE % PAGE = 0
(* RAM that nobody has written does not hold the magic number. *)
ASSUME GarbageAssumption == Garbage # {} /\ HEAP_MAGIC \notin Garbage
ASSUME WordAssumption == WRAP \in Nat /\ Garbage \cup Data \cup {HEAP_MAGIC} \subseteq 0 .. WRAP - 1

VARIABLES h,          \* the heap record
          live,       \* blocks the client holds, oldest first
          calling,    \* the request for which alloc has grown the heap, if any
          scenario    \* the element of Scenarios that is played

vars == <<h, live, calling, scenario>>

-----------------------------------------------------------------------------
(* Machine level *)

Wrap(n) == n % WRAP
Signed(n) == IF n >= WRAP \div 2 THEN n - WRAP ELSE n

(* x & 0xFFFFF000, + 0x1000 unless that was zero: also moves an address     *)
(* that is already on a page boundary.                                      *)
RoundUp(x) == IF x >= PAGE THEN (x - (x % PAGE)) + PAGE ELSE x

Stop(heap, why) == IF heap.stop = "no" THEN [heap EXCEPT !.stop = why] ELSE heap

(* Pages that are present: contract clears the frame, not the present bit.  *)
Present(heap, a) == a \div PAGE \in heap.framed \cup heap.freed

Word(heap, a) == IF a \in DOMAIN heap.mem THEN heap.mem[a] ELSE 0

(* One to three words at a; a page that is not present stops the kernel.    *)
Store(heap, a, w) ==
    IF \A x \in a .. a + Len(w) - 1 : Present(heap, x)
    THEN [heap EXCEPT !.mem = [heap.mem EXCEPT
              ![a]     = w[1],
              ![a + 1] = IF Len(w) > 1 THEN w[2] ELSE Word(heap, a + 1),
              ![a + 2] = IF Len(w) > 2 THEN w[3] ELSE Word(heap, a + 2)]]
    ELSE Stop(heap, "fault")

Magic(heap, a)  == Word(heap, a)
IsHole(heap, a) == Word(heap, a + 1)
Size(heap, a)   == Word(heap, a + 2)
Header(heap, f) == Word(heap, f + 1)     \* footer->header

StoreHeader(heap, a, hole, size) == Store(heap, a, <<HEAP_MAGIC, hole, size>>)
(* Slip: a footer that points to itself. *)
StoreFooterSelf(heap, f, header) == Store(heap, f, <<HEAP_MAGIC, f>>)

StoreFooter(heap, f, header) == Store(heap, f, <<HEAP_MAGIC, header>>)
SetSize(heap, a, size) == Store(heap, a + 2, <<size>>)

(* header_t_less_than compares the sizes in the headers as they are now.    *)
header_t_less_than(heap) == [a \in DOMAIN heap.mem |-> Size(heap, a)]

InsertHole(heap, a) ==
    [heap EXCEPT !.index = insert_ordered_array(a, @, header_t_less_than(heap))]
-----------------------------------------------------------------------------
start_address == RoundUp(KHEAP_START + HEAP_INDEX_SIZE)

(* create_heap: one hole over everything behind the index; it gets a header *)
(* and no footer.  All pages up to end are framed by initialize_paging.     *)
create_heap(end, max, junk) ==
    LET blank == [mem    |-> [a \in start_address - PAGE .. max - 1 |-> junk],
                  index  |-> << >>,
                  end    |-> end,
                  framed |-> start_address \div PAGE - 1 .. end \div PAGE - 1,
                  freed  |-> {},
                  stop   |-> "no"]
    IN  InsertHole(StoreHeader(blank, start_address, 1, end - start_address), start_address)

length(heap) == heap.end - start_address

(* The space a hole at a can offer a page aligned block.                    *)
AlignedSpace(heap, a) == Signed(Size(heap, a)) - (PAGE - ((a + HDR) % PAGE))

(* Slip: the overhead of header and footer is forgotten. *)
find_bare_hole(size, page_align, heap) ==
    SelectInSeq(heap.index, LAMBDA a :
        IF page_align THEN AlignedSpace(heap, a) >= Signed(size - HDR - FTR)
                      ELSE Size(heap, a) >= size - HDR - FTR)

(* First hole of the index that fits; 0 stands for -1.                      *)
find_smallest_hole(size, page_align, heap) ==
    SelectInSeq(heap.index, LAMBDA a : IF page_align THEN AlignedSpace(heap, a) >= Signed(size)
                                                      ELSE Size(heap, a) >= size)

(* Slip: the first new page gets no frame. *)
expand_skips(new_size, max, heap) ==
    LET target == RoundUp(new_size)
        fresh  == {start_address + i : i \in {j \in length(heap) + 1 .. target - 1 :
                                                  (j - length(heap)) % PAGE = 0}}
    IN  IF start_address + target > max
        THEN Stop(heap, "oom")
        ELSE [heap EXCEPT !.framed = @ \cup {a \div PAGE : a \in fresh},
                          !.freed  = @ \ {a \div PAGE : a \in fresh},
                          !.end    = start_address + target]

expand(new_size, max, heap) ==
    LET target == RoundUp(new_size)
        fresh  == {start_address + i : i \in {j \in length(heap) .. target - 1 :
                                                  (j - length(heap)) % PAGE = 0}}
    IN  IF start_address + target > max
        THEN Stop(heap, "oom")
        ELSE [heap EXCEPT !.framed = @ \cup {a \div PAGE : a \in fresh},
                          !.freed  = @ \ {a \div PAGE : a \in fresh},
                          !.end    = start_address + target]

(* The growing half of alloc: the hole of the index with the highest        *)
(* address, or a new one if the index is empty, receives the new space.     *)
Grow(new_size, max, heap) ==
    LET bigger == expand(length(heap) + new_size, max, heap)
        gain   == bigger.end - heap.end
        last   == Max(ToSet(heap.index))
        first  == heap.index = << >>
        at     == IF first THEN heap.end ELSE last
        size   == IF first THEN gain ELSE Wrap(Size(heap, last) + gain)
        headed == IF first THEN StoreHeader(bigger, at, 1, size) ELSE SetSize(bigger, at, size)
        footed == StoreFooter(headed, Wrap(at + size - FTR), at)
    IN  IF bigger.stop # "no" THEN bigger
        ELSE IF first THEN InsertHole(footed, at) ELSE footed

(* The carving half of alloc: a block of size words out of hole number i.   *)
(* The result is the heap and the address alloc returns.                    *)
Carve(size, page_align, i, heap) ==
    LET hole     == lookup_ordered_array(i, heap.index)
        asked    == size + HDR + FTR
        over     == Wrap(Size(heap, hole) - asked)
        absorb   == over < HDR + FTR      \* too little to be a hole of its own
        size1    == IF absorb THEN Wrap(size + over) ELSE size
        new_size == IF absorb THEN Size(heap, hole) ELSE asked
        front    == Wrap(PAGE - (hole % PAGE) - HDR)
        pos      == IF page_align THEN hole + PAGE - (hole % PAGE) - HDR ELSE hole
        \* the hole in front of an aligned block keeps its place in the index
        h1 == IF page_align
              THEN StoreFooter(StoreHeader(heap, hole, 1, front), pos - FTR, hole)
              ELSE [heap EXCEPT !.index = remove_ordered_array(i, @)]
        hole_size == IF page_align THEN Wrap(Size(heap, hole) - Size(h1, hole))
                                   ELSE Size(heap, hole)
        h2 == StoreHeader(h1, pos, 0, new_size)
        h3 == StoreFooter(h2, pos + HDR + size1, pos)
        rest   == Wrap(hole_size - new_size)
        after  == pos + HDR + size1 + FTR
        footer == Wrap(after + rest - FTR)
        h4 == StoreHeader(h3, after, 1, rest)
        h5 == IF footer < h4.end THEN StoreFooter(h4, footer, after) ELSE h4
    IN  [heap |-> IF rest > 0 THEN InsertHole(h5, after) ELSE h3, ptr |-> pos + HDR]

-----------------------------------------------------------------------------
(* contract: "new_size & 0x1000" tests one bit of the length and keeps      *)
(* nothing but that bit.                                                    *)
ContractedLength(new_size) ==
    LET rounded == IF (new_size \div PAGE) % 2 = 1 THEN 2 * PAGE ELSE new_size
    IN  IF rounded < HEAP_MIN_SIZE THEN HEAP_MIN_SIZE ELSE rounded

(* Slip: the loop runs one page too far. *)
PagesLostTooMany(target, heap) ==
    {(start_address + i) \div PAGE : i \in {j \in target - PAGE .. length(heap) - PAGE :
                                               (length(heap) - j) % PAGE = 0}}

(* The loop of contract: from the last page down while new_size < i.        *)
PagesLost(target, heap) ==
    {(start_address + i) \div PAGE : i \in {j \in target + 1 .. length(heap) - PAGE :
                                               (length(heap) - j) % PAGE = 0}}

(* The pages behind the new end lose their frame; until the TLB forgets     *)
(* them they read as before, then as physical frame 0 (junk).               *)
contract(new_size, junk, heap) ==
    LET target == ContractedLength(new_size)
        lost   == PagesLost(target, heap)
    IN  [heap EXCEPT !.framed = @ \ lost,
                     !.freed  = @ \cup (lost \cap heap.framed),
                     !.end    = start_address + target,
                     !.mem    = [a \in DOMAIN @ |->
                                   IF a \div PAGE \in lost /\ ~ junk.old
                                   THEN junk.word ELSE @[a]]]

(* Slip: whatever is to the left is taken for a hole. *)
LeftAny(heap, header) ==
    LET test_footer == header - FTR
    IN  IF Magic(heap, test_footer) = HEAP_MAGIC
        THEN {Header(heap, test_footer)} ELSE {}

(* The hole to the left, if the two words before the header look like the   *)
(* footer of one.                                                           *)
LeftHole(heap, header) ==
    LET test_footer == header - FTR
    IN  IF Magic(heap, test_footer) = HEAP_MAGIC
           /\ IsHole(heap, Header(heap, test_footer)) = 1
        THEN {Header(heap, test_footer)} ELSE {}

(* What that test reads is there to be read. *)
Readable(heap, header) ==
    Magic(heap, header - FTR) = HEAP_MAGIC => Present(heap, Header(heap, header - FTR) + 1)

(* Slip: the test of the right neighbour wants a block. *)
IsBlockHeader(heap, a) == Magic(heap, a) = HEAP_MAGIC /\ IsHole(heap, a) = 0

IsHoleHeader(heap, a) == Magic(heap, a) = HEAP_MAGIC /\ IsHole(heap, a) # 0

(* Slip: the swallowed hole stays in the index. *)
UnifyRightKeeps(heap, header, test_header) ==
    SetSize(heap, header, Wrap(Size(heap, header) + Size(heap, test_header)))

(* unify right: the hole behind is swallowed; its footer keeps pointing to  *)
(* its own header.                                                          *)
UnifyRight(heap, header, test_header) ==
    LET grown == SetSize(heap, header, Wrap(Size(heap, header) + Size(heap, test_header)))
    IN  IF Contains(heap.index, test_header)
        THEN [grown EXCEPT !.index = RemoveFirst(@, test_header)]
        ELSE Stop(grown, "assert")

(* The block ends the heap: shrink the heap, then the hole.                 *)
Shrink(heap, header, test_header, junk) ==
    LET smaller == contract(header - start_address, junk, heap)
        cut     == heap.end - smaller.end
        size    == Wrap(Size(heap, header) - cut)
    IN  IF Wrap(header - start_address) >= length(heap) THEN Stop(heap, "assert")
        ELSE IF size > 0
        THEN StoreFooter(SetSize(smaller, header, size), Wrap(header + size - FTR), header)
        ELSE [smaller EXCEPT !.index = RemoveFirst(@, test_header)]

free(p, junk, heap) ==
    LET own     == p - HDR
        footer0 == Wrap(own + Size(heap, own) - FTR)
        h1      == Store(heap, own + 1, <<1>>)
        left    == LeftHole(h1, own)
        header  == IF left = {} THEN own ELSE Header(h1, own - FTR)
        h2 == IF left = {} THEN h1
              ELSE LET repointed == Store(h1, footer0 + 1, <<header>>)
                   IN  SetSize(repointed, header,
                               Wrap(Size(repointed, header) + Size(heap, own)))
        test_header == footer0 + FTR
        right  == IsHoleHeader(h2, test_header)
        h3     == IF right THEN UnifyRight(h2, header, test_header) ELSE h2
        footer == IF right THEN Wrap(test_header + Size(h3, test_header) - FTR) ELSE footer0
        h4 == IF footer + FTR = h3.end THEN Shrink(h3, header, test_header, junk) ELSE h3
        h5 == IF left = {} THEN InsertHole(h4, header) ELSE h4
    IN  IF Magic(heap, own) # HEAP_MAGIC \/ Magic(heap, footer0) # HEAP_MAGIC
        THEN Stop(heap, IF Present(heap, footer0) THEN "assert" ELSE "fault")
        ELSE IF ~ Readable(h1, own) \/ ~ Present(h2, test_header) THEN Stop(h1, "fault")
        ELSE IF h3.stop # "no" THEN h3
        ELSE IF h4.stop # "no" THEN h4 ELSE h5

-----------------------------------------------------------------------------
(* The kernel as a client: a scenario says how large the heap is, what is   *)
(* asked for (first by script, then at will), how many blocks are held at   *)
(* once and in which order they are given back.                             *)
Request == [size : Nat, align : BOOLEAN, clear : Nat]
Scenario == [end : Nat, max : Nat, script : Seq(SUBSET Request), requests : SUBSET Request, holds : Nat,
             frees : {"never", "lifo", "any"}, stores : BOOLEAN]

(* All that is asked for in scenario s. *)
Of(s) == s.requests \cup UNION {s.script[k] : k \in DOMAIN s.script}

ASSUME ScenariosAssumption == Scenarios \subseteq Scenario

Init ==
    /\ scenario \in Scenarios
    /\ live = << >> /\ calling = {}
    /\ \E junk \in Garbage : h = create_heap(scenario.end, scenario.max, junk)

(* The caller's memset over the first words of what it was given: clone_table*)
(* clears the size of a directory, twice that of its table and a word.      *)
Clear(heap, p, words) ==
    IF heap.stop # "no" THEN heap
    ELSE IF \A a \in p .. p + words - 1 : Present(heap, a)
    THEN [heap EXCEPT !.mem = [a \in DOMAIN @ |-> IF a \in p .. p + words - 1 THEN 0 ELSE @[a]]]
    ELSE Stop(heap, "fault")

(* kmalloc and kmalloc_a once the heap exists: alloc is called with a new   *)
(* request, or calls itself with the same one after growing.                *)
Asked == IF Len(live) < Len(scenario.script) THEN scenario.script[Len(live) + 1]
         ELSE scenario.requests
Requested == IF calling # {} THEN calling
             ELSE IF Len(live) < scenario.holds THEN Asked ELSE {}

Fitting(r) == find_smallest_hole(r.size + HDR + FTR, r.align, h)

AllocGrows(r) ==
    /\ h.stop = "no" /\ Fitting(r) = 0
    /\ h' = Grow(r.size + HDR + FTR, scenario.max, h)
    /\ calling' = {r}
    /\ UNCHANGED <<live, scenario>>

Alloc(r) ==
    LET got == Carve(r.size, r.align, Fitting(r), h)
    IN  /\ h.stop = "no" /\ Fitting(r) # 0
        /\ h' = Clear(got.heap, got.ptr, r.clear)
        /\ live' = IF h'.stop = "no"
                   THEN Append(live, [ptr |-> got.ptr, size |-> r.size, align |-> r.align,
                                      clear |-> r.clear])
                   ELSE live
        /\ calling' = {}
        /\ UNCHANGED scenario

(* Blocks a client of this kind gives back next.  "lifo" is what kmain      *)
(* does: the most recent unaligned block; page tables and directories,      *)
(* which are the page aligned blocks, are never given back.                 *)
MayFree ==
    CASE scenario.frees = "never" -> {}
      [] scenario.frees = "any"   -> DOMAIN live
      [] scenario.frees = "lifo"  ->
            LET own == {i \in DOMAIN live : ~ live[i].align}
            IN  IF own = {} THEN {} ELSE {Max(own)}

(* kfree *)
Free(i, junk) ==
    LET after == free(live[i].ptr, junk, h)
    IN  /\ h.stop = "no" /\ calling = {}
        /\ h' = after
        /\ live' = IF after.stop = "no" THEN RemoveAt(live, i) ELSE live
        /\ UNCHANGED <<calling, scenario>>

(* The client fills a block it holds. *)
ClientStore(i, d) ==
    LET b == live[i]
    IN  /\ h.stop = "no" /\ calling = {}
        /\ scenario.stores
        /\ h' = [h EXCEPT !.mem = [a \in DOMAIN @ |->
                    IF a \in b.ptr .. b.ptr + b.size - 1 THEN d ELSE @[a]]]
        /\ UNCHANGED <<live, calling, scenario>>

Junk == [old : {TRUE}, word : {CHOOSE g \in Garbage : TRUE}] \cup [old : {FALSE}, word : Garbage]

Next ==
    \/ \E r \in Requested : Alloc(r) \/ AllocGrows(r)
    \/ \E i \in MayFree, junk \in Junk : Free(i, junk)
    \/ \E i \in DOMAIN live, d \in Data : ClientStore(i, d)

Spec == Init /\ [][Next]_vars

-----------------------------------------------------------------------------
Running == h.stop = "no"

(* No caller has cleared more than it asked for. *)
Intact == Running /\ \A i \in DOMAIN live : live[i].clear <= live[i].size

Holes  == ToSet(h.index)
Blocks == {live[i].ptr - HDR : i \in DOMAIN live}
End(a) == a + Size(h, a)

(* Clients with which the heap is used as a stack: nothing is page aligned, *)
(* and either nothing is given back or the latest block first, from a heap  *)
(* whose minimum has room for all that is ever held.                        *)
Plain(s) ==
    /\ s.end % PAGE = 0 /\ start_address < s.end /\ s.end <= s.max /\ s.max < WRAP
    /\ \A r \in Of(s) : ~ r.align /\ r.clear <= r.size
    /\ \/ s.frees = "never"
       \/ /\ s.frees = "lifo"
          /\ 2 * PAGE <= HEAP_MIN_SIZE /\ start_address + HEAP_MIN_SIZE <= s.end
          /\ \E b \in 0 .. HEAP_MIN_SIZE :
                /\ \A r \in Of(s) : r.size + HDR + FTR <= b
                /\ s.holds * b + HDR + FTR <= HEAP_MIN_SIZE

(* Blocks and holes tile the heap: no word of it is in two of them, none is *)
(* lost, and each is large enough for its header, its footer and what the   *)
(* client asked for.  Every head but the first is where another one ends,   *)
(* so following the sizes from start_address meets them all.                *)
HeapTiled ==
    Intact =>
        /\ Holes \cap Blocks = {}
        /\ Len(h.index) = Cardinality(Holes)
        /\ start_address \in Holes \cup Blocks
        /\ \A a \in Holes \cup Blocks :
              /\ Size(h, a) >= HDR + FTR
              /\ End(a) \in Holes \cup Blocks \cup {h.end}
              /\ a = start_address \/ \E b \in Holes \cup Blocks : End(b) = a
        /\ \A i \in DOMAIN live : Size(h, live[i].ptr - HDR) >= live[i].size + HDR + FTR

(* The headers and footers agree with the index: a head is marked as a hole *)
(* exactly if the index lists it, and a block's footer leads back to it.    *)
MarkersAgree ==
    Intact =>
        /\ \A a \in Holes \cup Blocks : Magic(h, a) = HEAP_MAGIC
        /\ \A a \in Holes : IsHole(h, a) = 1
        /\ \A a \in Blocks : /\ IsHole(h, a) = 0
                             /\ Magic(h, End(a) - FTR) = HEAP_MAGIC
                             /\ Header(h, End(a) - FTR) = a

(* Unify trusts the words on either side of a block.  For any block that   *)
(* may be given back, those in front say "hole" only if a hole of the index *)
(* ends here; those behind are words of the heap, not what a page cut off   *)
(* by contract has kept, and say "hole" only if one of the index is there.  *)
NeighboursReal ==
    Intact => \A i \in MayFree :
        LET own == live[i].ptr - HDR
        IN  /\ LeftHole(h, own) \subseteq {a \in Holes : End(a) = own}
            /\ End(own) < h.end
            /\ IsHoleHeader(h, End(own)) => End(own) \in Holes

(* Whatever is asked for next, the hole alloc picks has room for it: if the *)
(* block is aligned the gap in front can hold a header and a footer, the    *)
(* sizes alloc subtracts (kheap.c:237, 263) do not wrap, and what is left   *)
(* behind the block is too little for a hole only where alloc adds it to    *)
(* the block, a test made before it is known how large the gap is.          *)
CarveFits ==
    Intact => \A r \in {q \in Requested : Fitting(q) # 0} :
        LET hole == lookup_ordered_array(Fitting(r), h.index)
            gap  == IF r.align THEN PAGE - (hole % PAGE) - HDR ELSE 0
            rest == Size(h, hole) - gap - (r.size + HDR + FTR)
        IN  /\ rest >= 0
            /\ r.align => gap >= HDR + FTR /\ (rest = 0 \/ rest >= HDR + FTR)

(* Freed space is unified: no hole ends where another begins, because free  *)
(* looks at the block on either side and alloc never leaves two holes.      *)
HolesUnified == Intact => \A a \in Holes : End(a) \notin Holes

(* Everything in front of end_address is backed by a frame: expand asks for *)
(* one for each page it adds, contract gives back only what it cuts off.    *)
HeapFramed ==
    Running => (start_address \div PAGE .. (h.end - 1) \div PAGE) \subseteq h.framed

(* "Rewrite it's footer to point to our header." (kheap.c:317): every hole  *)
(* but the one at the end, which create_heap leaves without a footer, has   *)
(* a footer that leads back to it.                                          *)
HoleFootersPointHome ==
    Running => \A a \in Holes : End(a) < h.end => Header(h, End(a) - FTR) = a

(* "Allocates a contiguous region of memory 'size' in size." (kheap.h:42):  *)
(* the region is the caller's alone.                                        *)
BlocksDisjoint ==
    Running => \A i, j \in DOMAIN live :
        i # j => live[i].ptr + live[i].size <= live[j].ptr
                 \/ live[j].ptr + live[j].size <= live[i].ptr

(* "Don't contract too far!" (kheap.c:154): what the client holds stays     *)
(* in front of end_address.                                                 *)
LiveBelowEnd ==
    Running => \A i \in DOMAIN live : live[i].ptr + live[i].size <= h.end

(* The words a client may store to, by block. *)
DataOf(b, mem) == [k \in 0 .. b.size - 1 |-> mem[b.ptr + k]]

(* alloc and free leave the contents of every block the client keeps alone. *)
DataKept ==
    [][live' # live \/ calling' # {} => \A i \in DOMAIN live, j \in DOMAIN live' :
          live[i] = live'[j] => DataOf(live[i], h.mem) = DataOf(live[i], h'.mem)]_vars

(* The heap implements the allocator kheap.h promises; it gives up for want *)
(* of memory, never by a failed assertion or a page fault.                  *)
Allocator == INSTANCE Allocator
    WITH Base <- start_address, top <- h.end, stop <- h.stop
ImplementsAllocator == Allocator!Spec
=============================================================================
