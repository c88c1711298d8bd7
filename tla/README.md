# IcarusOS: models, checks and proofs

IcarusOS (`src/IcarusOS`) is a small 32-bit x86 kernel in C and assembly. It boots
through multiboot, sets up segments, interrupts and the timer, turns paging on, creates
a kernel heap, moves its stack, forks one task and starts a loaded program. This
directory holds TLA+ models of the parts with state worth reasoning about, TLC
configurations that check them on small instances, and TLAPS proofs for all sizes.

## 1. Inventory

| part | state | operations | talks to |
|---|---|---|---|
| ordered array (`ordered_array.c`) | `array`, `size`, `max_size`, `less_than` | place, insert, lookup, remove | the heap is its only owner and changes keys behind its back |
| kernel heap (`kheap.c`) | headers and footers in the heap's own memory, the index of holes, `end_address`, `placement_address` before it exists | `kmalloc*`, `kfree`, `alloc`, `free`, `expand`, `contract` | ordered array; `get_page`, `alloc_frame`, `free_frame` |
| paging (`paging.c`) | frame bitset, page tables, directories, `current_directory` | `initialize_paging`, `get_page`, `alloc_frame`, `free_frame`, `clone_directory`, `switch_page_directory` | `kmalloc` for every table and directory |
| tasking (`task.c`, `process.s`) | ready queue, `current_task`, saved registers | `initialize_tasking`, `move_stack`, `fork`, `switch_task` | paging, heap, interrupt flag |
| screen (`screen.c`) | frame buffer, `cursorPosition`, the cursor's two registers and the index that selects them | `fb_write`, `fb_clock_write`, `fb_move_cursor`, `clear_screen` | called by the main thread and by interrupt handlers |
| keyboard (`keyboard.c`) | `CapLocks`, `ShiftL`, `ShiftR` | `convertToAscii`, `echo_keyboard` | screen |
| interrupts (`gdt_idt.c`, `idt.s`, `pic.c`, `timer.c`) | lines requested and in service, interrupt flag, `ticks` | `interrupt_handler`, `pic_init`, `pic_acknowledge`, `timer_callback` | screen, keyboard |
| printf (`printf.c`) | the place in the format, `bf` | `tfp_format` through `printf` and `sprintf` | screen (`putc`), the clock's text |
| serial port (`serial.c`) | the port's registers | configure, polled write | called once by `kmain`, before interrupts |
| vfs and ramdisk (`fs.c`, `initrd.c`) | node table, file headers, one `dirent` | open, close, read, write, readdir, finddir | `util.c`; `initrd.c` is not linked into the kernel |
| utilities (`util.c`, `io.s`) | none | strings, memory, panic, ports | all |
| boot (`loader.s`, `kmain.c`, `gdt_idt.c` segments) | constants | the order of initialisation | all |

There is one thread. What is hard is: state kept inside the memory that is handed out
(heap); loops whose bounds move while they run (paging); one component calling another
back in the middle of an operation (a clone that grows the heap); counters and sizes at
their limits; one function that returns twice and a stack that moves under the calls in
progress (tasking); a device that is polled (serial port); and interrupts between any two
instructions of the main thread (console).
Nothing is persisted and no messages are exchanged, so there is no recovery or loss.

What makes the parts correct: a call of the ordered array acts on a sequence and keeps it
sorted; the heap is tiled by blocks and holes, and blocks are disjoint and keep their
data; a frame backs one page, everything placed before the heap stays addressable,
kernel tables are shared and all others private; calls in progress survive the move of the
stack and the switch of tasks, and the ready queue stays whole; a print is not disturbed by
the timer, every key is read and the shift state is the keyboard's; a format is read to its
end and no further and its conversions are exact; what a directory lists is found and read
in full.

## 2. Plan

Done, in this order:

1. `OrderedOps`, `OrderedArray` (loops) refining `OrderedArraySpec` (atomic calls), proofs.
2. `KHeap` on top of `OrderedOps`, refining `Allocator`.
3. `Paging` with the calls `task.c` and `kheap.c` make into it, proofs.
4. `Keyboard` and `Console`: the main thread's prints against the two interrupt handlers.

5. `Tasking`: frames on the stack, the ready queue, `read_eip`'s two returns.
6. In `KHeap`, what callers clear of the blocks they get, and the requests of forks.
7. `Numerals`, `Printf`; `Serial`, composed with `Console`; `FileSystem`.
8. Proofs of the safety properties of `FileSystem`, `Tasking`, `Paging` (the identity mapping
   included), of the console's cursor, keyboard and serial port, and of printf's reading of
   its format.
9. The recursion of `alloc` one step per call, and proofs of the heap's properties for clients
   that use it as a stack.
10. `NumeralsProofs`: what `ui2a` computes, for every number. With it the rest of printf's properties
   and of the console's safety properties are proved.

Left, in this order:

1. The heap's proofs for clients with page aligned blocks that are never given back.
2. Heap addresses and frames in one model, so that `clone_directory`'s assumption of
   contiguous frames (`paging.c:216`) and the re-entry of `alloc` through `expand`
   (`kheap.c:140`) can be stated.

## 3. Modules

**OrderedOps** says what one call of `ordered_array.c` computes on a sequence.
Position `p` is C index `p - 1`.

**OrderedArray** models the loops of `insert_ordered_array` and `remove_ordered_array`,
one iteration per step, on an array of `MaxSize` slots and the word behind it. `Rekey` is
the owner changing what a stored pointer points to, as `kheap.c` does with sizes.
`Contents` is the sequence the array stands for in the middle of a loop; with it,
`Abs == INSTANCE OrderedArraySpec` is the refinement. `RemoveItem` is called with a valid index
and `InsertItem` with a free slot: the C code checks neither, its only caller ensures the
first and has 0x20000 slots for the second.

**KHeap** keeps the heap as a record: memory by word, the index, `end_address`, the pages
that have a frame, those whose frame was taken, and whether the kernel has stopped
(`oom` for the assertion in `expand`, `assert` for any other, `fault` for a page fault).
`create_heap`, `find_smallest_hole`, `expand`, `contract`, `alloc` (`Grow` and `Carve`) and
`free` (`LeftHole`, `UnifyRight`, `Shrink`) are operators on it; `AllocGrows`, `Alloc`, `Free` and
`ClientStore` are the actions. `alloc` finds no hole, grows the heap and calls itself: each call is a
step, `AllocGrows` the ones that grow, `Alloc` the one that carves, and `calling` holds the request in
between, when nothing else happens. `Alloc` includes the caller's `memset` (`Clear`), as far as the
caller really clears: `get_page` a table, `clone_directory` a directory, and `clone_table` the
size of a directory although it asked for a table. A scenario is a script of requests
followed by requests at will. Unsigned arithmetic wraps at `WRAP`. `Plain` describes the
clients that use the heap as a stack, about which the proofs are.

**Allocator** is the promise of `kheap.h`: blocks lie inside the heap, are disjoint and aligned
when asked, the heap may grow before it gives one out, and the only way to give up is for want of
memory.

**Paging** numbers pages and names a table by the directory it was made for. The loops of
`initialize_paging`, `clone_directory`, `clone_table` and `move_stack` take one step per
iteration. `HeapExpand` is also possible inside a clone or a stack move, at the places
where these call `kmalloc` (`Allocates`); when the heap grows into a page that has no table yet,
it makes one in `kernel_directory`, as `get_page` does for `expand`. `Init` leaves the bits `memset` did not clear
to `STALE`. Contents of frames are left out. `SwitchTask` may choose any task, which allows
more than the round robin of `switch_task`.

**Tasking** has the words of the stack in use, `esp`, `ebp`, the tasks and the two pointers to
them. The program calls functions at will, among them those of `task.c`; a call pushes its
return address, the caller's `ebp` and a local variable, which may be a number, the stack's
top (`kmain`'s second argument, which must not be remapped) or a pointer into the stack
(which must). `calls` records the calls in progress, against which the frames are compared.
`move_stack` is one step, with its own frame left out; fork's search for the end of the queue
takes one step per task. `HasStack` is what `Paging` shows of a fork (run `paging_clone`): the
child's directory lacks the pages of the stack, so a switch to it ends in a reset.
`fork`'s second return is therefore never reached, and is not an action.

**Numerals** is `ui2a` and `i2a`, as functions that recurse the way the two loops run; the
console's clock and `Printf` use it. **Printf** reads a format character by character, with
`a2i` one digit per step and one action per conversion. A width is an `int`: it wraps at a word, and
one that comes out negative pads nothing. Arguments are taken from all
values of a word. `shown` records what each conversion was given and what it put. What a format
asks for is said by `Scan`, which reads it from the left with a state of its own and knows nothing of
`tfp_format`'s look-ahead; `Powers` only serves to say how many digits a word has.

**Serial** is `serial_write`, one port access per step, and the port: the divisor latch
behind the data port, the holding register, the wire. `Console` composes it with the rest:
`kmain` greets before interrupts are on, first on the screen and then on the port; a print may
happen before or after the greeting on the port, not in the middle of it.

**FileSystem** is `fs.c` on `initrd.c`, with a client that lists a directory entry by entry, looks up
what was listed and reads it piece by piece. It may ask any node for an entry or a name: a node that is
no directory answers null. A node has the set of its non-null callbacks.
The byte at an address is the address itself, so a read shows where it read. `strcmp`
compares four bytes: `initrd_finddir` is the set of nodes it may return, since for names of
less than three characters those bytes reach beyond the terminator.

**Keyboard** has the scan codes: a key and whether it was released. One key stands for each
kind of entry of the tables: letters, digits, Enter, Backspace, space, shifts and caps lock.

**Console** has the main thread in `fb_write`, one memory or port access per step, as the
Makefile compiles it (no `-O`: `cursorPosition++` is a load and a store). The IDT uses
interrupt gates (0x8E), so a handler is one step. The PIC keeps lines requested and lines in
service, so that a missing acknowledgement has its effect. `down` and `capsOn` are the
keyboard itself; `expect` and `echoed` record what a call should do and whether a key was
echoed during it. Keys and clock pulses before `pic_init` are left out.

Definitions called *Slip* are deliberately wrong variants; each shows that some property
notices the mistake. The `MC` modules only give constants their values.

## 4. Runs

| run | result | shows |
|---|---|---|
| `ordered_array` | passes | the loops implement atomic calls, keep order, stay inside the array, and end |
| `heap` | passes | under the kernel's own use up to the first fork, and in a heap that only grows, tiling, markers, neighbours that are what they seem, carving within the hole, unified holes, frames, data, and the allocator's promise |
| `paging` | passes | exclusive and marked frames, identity mapping, kernel tables shared but for those made after the first clone, private others; every loop ends |
| `console` | passes | see the properties of `Console.tla` and `SerialInOrder` of `Serial.tla` |
| `tasking` | passes | frames of the calls in progress, the queue, saved registers; every call returns, but a switch to a forked task |
| `printf` | passes | the format is read to its end only, `bf` is large enough, conversions are exact and in order |
| `fs` | passes | listings are complete, what is listed is found, pieces make up the file, no null pointer is called |
| `heap_footers` | violated | `kheap.c:317`: the swallowed hole's footer is not rewritten |
| `heap_growth` | violated | `kheap.h:42`: in the second fork the new directory overlaps the first child's page table |
| `heap_contract` | violated | `kheap.c:154`: the heap is contracted below live blocks |
| `paging_leak` | violated | `paging.c:101`: a freed frame stays marked |
| `paging_clone` | violated | `kmain.c:82`: a fork does not clone the pages that have frames |

The passing heap run and the violated ones do not contradict each other: they differ in
the client. `Kernel` and `Filling` do what `kmain`, `paging.c` and `task.c` do: tables and
directories are never freed, small blocks are freed in reverse order, and the heap stays
near its minimum. `Stacked` asks for small blocks only, `Growing` frees nothing; these two are `Plain`. `Forks(1)` is the boot and one fork, with all that is
cleared. `AnyOrder` and `AboveMinimum` each leave that discipline in one respect. `ForkTwice`
does not: it is the kernel with one more fork than `kmain` makes. `clone_table` clears one page and a
word beyond its table, and with it the header of the hole behind, whose size in the index is
then 0. The next table makes the heap grow, however much space there was; the growth becomes
that hole's size, the table takes all of it but a gap in front, and what lies behind is no
longer known to the index. When the second fork asks for its directory the heap grows again, and
`alloc` adds the growth to the hole with the highest address, the gap in front of a live table.
Within the first fork the growth still lands where nothing lives: `DataKept` and
`ImplementsAllocator` hold in `Forks(1)` as well, while `HeapTiled`, `MarkersAgree`,
`NeighboursReal`, `CarveFits` and `HolesUnified` are stated for heaps whose callers kept to their blocks (`Intact`).

**Bounds.** *ordered_array*: three items, keys 0..2 (equal keys happen), an array that three
items fill; an item may be stored twice. *heap*: a page of 32 words, so that a table is a
page and a directory two pages and a word as in the kernel; 8 pages, at most 4 blocks of every kind the
kernel asks for (3 of the client that asks for small blocks only, in a heap of 10 pages; 10 of
the growing client, which has to grow three times and then gives up; 9 and 13 of the clients that
fork, in a heap of 12 pages that may grow to 24). `HEAP_MIN_SIZE` is 7
pages, so that freeing contracts, by one page from 8 and by three from 10. The bound of 4 blocks matters:
a fifth can fill the heap to `end_address`, and `free` then reads the header of a right neighbour
behind the end (`kheap.c:314`), where `NeighboursReal` fails; the kernel's heap of 1 MB never is that full. *paging*: 44 frames, 6 tables of 6 entries: the identity
mapping crosses a table, the heap fills one at boot and may grow into one more, the stack reaches down into a second one;
four directories, that is two forks after the boot clone; frames run out on one of the two
initial bitsets. The byte counts of the bitset, a directory and `heap_t` are the code's
formulas. *console*: a line of 5 columns, cursor registers of two bits (so both bytes
change), two prints of two characters or new lines, two key events of six kinds, one
clock pulse; two key events are a shift and a letter, a press and a release, or two
echoes inside one print. `LIMIT` has room for the lines, one more that a new line reaches before it is
reset, and every character written, so that a cursor which is never reset leaves it. The greeting has three
bytes: one may be sent, one in the register and one to come. *tasking*: stacks of 13
words, which is four frames, so that a move finds up to two callers besides `kmain` and itself;
three tasks, so that fork walks the queue; two return addresses, so that frames are not all alike.
*printf*: words of 8 bits, all 256 of them, and a buffer of 5, which -128 fills as -2147483648
fills 12; each conversion with no width, a width below, at and above the length, with and
without padding, alone, inside text, cut off, and two in a row; a width with an `a` in it, a letter in
plain text, a letter that is no conversion, and `%%`; the widths 127, 128 and 260, the greatest, one that
comes out negative, and one that comes out as 4. *fs*: all disks of up to three files
with six names: two that can be told from all others, two with the same four bytes, one of one character,
and `dev`; a file of three bytes, an empty one and one of two that follows at once; pieces
of 1, 2 and 5 bytes, below and above every length.

**Deadlock** is checked except in the heap runs, where a panic ends in `for(;;)`, in `tasking`, where
the machine may reset, and in `printf`, where the one call ends.

**Fairness.** In `OrderedArray` and `Paging`: weak fairness of the loop in progress; there
is one thread and nothing in the loops waits. In `Console`: weak fairness of the main
thread, `sti` included (each `cli` of `task.c` is followed by an `sti` in straight code), and
strong fairness of the two handlers, because the CPU looks for a request after every
instruction while interrupts are enabled, and they are enabled again and again; and weak
fairness of the serial port's sending, which is a clock's work. In `Tasking`: weak fairness of
the functions of `task.c`, which wait for nothing. No fairness is assumed of keys, the timer,
bytes received, new calls and returns of the program, or `cli`. The heap has no liveness property.

**What the console shows, and does not.** A print without an echo inside it ends exactly as
it would undisturbed. With an echo inside, the code can lose a character (load and store
of `cursorPosition`) and leave the cursor at a position nobody asked for (the index register
is shared): `CursorShown` says that the next call or echo repairs the latter. The serial port's
status is tested with `&&` where `&` is meant (`serial.c:43`), so any bit of it ends the wait: no
byte of the greeting is lost while nothing is received. After that bytes are lost; `SerialInOrder` says
that those which arrive are in order, none twice, and that the last one put is among them. Text runs past the
frame buffer, since only a new line resets the cursor (`screen.c:67`): `TypeOK` says no more than that
it stays within the characters written.

**Other things a reader of the code should know**, seen while modelling and not runs of their own:
- the index of holes does not stay sorted (`ordered_array.h:9` says it does): `alloc` and `free`
  rewrite sizes of holes it lists. `OnlyRekeyUnsorts` says that nothing else unsorts it.
- `first_frame` returns 0 when no frame is left, `alloc_frame` tests for -1: pages are then
  mapped to frame 0. `FrameExclusive` and `FramesMarked` are about the frames other than 0.
- a table the heap grows into after the first clone is in `kernel_directory` only, which is never the
  current directory by then. `KernelShared` names it as the one exception.
- nothing calls `switch_task`, though `task.h:23` says the timer does.
- `strcmp` sees four bytes; `ListedIsFound` is stated for disks whose names differ in them (`Tellable`).
- `panic` and `panic_assert` print a line number with `%s`.

## 5. Proofs

TLAPS checks every obligation; nothing is assumed but the named assumptions on constants.
Each theorem `Spec => []P` is proved from an inductive invariant that is stronger than `P`;
what it adds, and why, is said below.

**`OrderedArrayProofs`**, from `SizeAssumption` and `KeysAssumption`, for every set of items,
keys and size:
- `TypeCorrect`: `LoopInv` is inductive. It adds to the types that the scan has passed only
  smaller elements, that a shifting array had a free slot, and that the sequence in
  transit consists of items.
- `LoopsImplementCalls`: the refinement. `InsertAtElements` and `RemoveAtElements` say what
  the sequence operators return, element by element; `InsertElements` that the scan has
  only one place to stop; `LoopsKeepContents` that shifting does not change the sequence;
  `ScanEndInserts` and `RemoveCallRemoves` that the remaining two kinds of step are the calls.
- `NothingPastTheEnd` and `CallsKeepAscending`: the two action properties.

**`KHeapProofs`**, for every size of page, heap, index and request, whatever fresh memory holds and
whatever the client stores: all eight properties of the `heap` run, for the clients `Plain`
describes (of `CarveFits` that leaves what it says of requests that are not aligned). They ask for nothing page aligned, clear no more than they asked for, and either give nothing
back, in a heap that may grow up to its limit and then give up, or give back the latest block
first and never hold more than fits in the minimum to which `contract` cuts. `MCKHeap` assumes
`Plain(Stacked)` and `Plain(Growing)`, so TLC confirms that there are such clients. Beyond them the claims
are false or need another argument: the violated runs break them by freeing in another order and by
holding more than the minimum, and a page aligned block leaves a hole in the middle.
- `HInv` (theorem `HeapIsAStack`) says what no property says alone: `Stack`, each block begins where
  the one before it ends and carries its markers; `Hole`, behind the last there is nothing or exactly
  one hole, the only one in the index; `Ground`, end_address is a page boundary, every page has its frame
  and the word in front of the first block is not the magic number; `Called`, a request in
  progress is one of the client's; `Room`, the blocks of a client that frees stay in front of the least end.
  Tiling alone is not inductive: what `free` reads to the left and to the right of a block are words, and only
  the layout says whose they are.
- `CarveMeans`, `GrowMeans`, `ExpandMeans`, `ContractMeans`, `ShrinkMeans` and `FreeMeans` say what the operators compute
  on such a heap, word by word; `CarveLaid`, `GrowLaid`, `GiveBackLaid` and `FillMeans` that the layout is
  kept and that nothing in front of the top changes. `StepMeans` gathers them per step; the properties, `DataKept` and
  the refinement follow from it.
- `NeighboursHold` and `CarvesHold` draw the two properties of what `free` and `alloc` are about to trust from the
  layout. That a block to be freed never reaches `end_address` needs `Room` once more.
- `Room` is why a contraction is harmless: `contract` tests one bit of the length, but below the minimum
  the result is always the minimum (`ContractMeans`).

**`PagingProofs`**, for every size of memory, tables, heap, stack and any number of directories,
and whatever bits `memset` left. The inductive invariant `IInv` joins the types; `FrameInv`
(frames in use are marked and exclusive; both are needed, a frame is exclusive
because `first_frame` returns an unmarked one); `LoopBounds`; `HeapTables` (every page the heap has
is in a table of `kernel_directory`, and where the heap may still grow no other directory has a table of its own); `DirsInv` (directories not yet made are
empty, and only the kernel directory has tables during boot); `CloneInv` (how far a clone
has come); `KernelShared` and `PrivateTables`. From it: `TypeCorrect`, `FramesExclusive`,
`FramesAreMarked`, `KernelIsShared`, `TablesArePrivate`. The heap may grow into tables made long after the first
clone; these are missing from the other address spaces, and `KernelShared` says that nothing is in
their place. For this `StackAssumption` keeps the tables of the new stack apart from the heap's, as
0xCFFFF000 and 0xDFFFE000 are in the kernel.

Its second part is `PlacedIsMapped`: what `initialize_paging` has placed when its loop ends
is mapped to the frames of its own addresses, although each new table moves
`placement_address`, the loop's bound. `IdInv` has a part for each phase: `TablesPhase` (the
first loop gives no frame, so the low bits of the bitset are still clear), `IdentityPhase` (the pages
below `i` are mapped, frame `f` is marked exactly if `f < i`, and `placement` is what `c` tables
cost), `MappedPhase` (from then on nothing unmaps them). That frame `i` goes to page `i` follows from
`first_frame` and the marks alone. `MemoryAssumption` says that for some number `t` of tables
everything placed, with these tables, lies in pages which `t` tables map, in front of the heap and in
the quarter of the bitset that `memset` cleared. In the kernel one table of 4 MB is enough for
some 1.1 MB, and the heap is at 0xC0000000; without it the loop could run into
frames that `memset` left marked, and would skip them.

**`FileSystemProofs`**, for all disks, from `DiskAssumption` and `NoWrap` (an offset, a length and a
size of a read add up to less than 2^32): `FileSystemType`, `ListingIsComplete`,
`WhatIsListedIsFound`, `PiecesAreTheFile`. `FInv` adds how far `initialize_initrd` has edited
the headers in place (`DiskInv`), which entries were listed so far (`ListInv`), that the
node in hand is the root, `dev` or the file of its inode (`NodeInv`), and that what was read is the file's
bytes so far (`ReadInv`).

**`TaskingProofs`**, for stacks of every size and place and calls of any depth, from
`StackAssumption` (the two stacks are apart, and no return address looks like an address of the
old one): `TaskingType`, `FramesStayIntact`, `QueueStaysWhole`, `TasksAreReady`. `FramesIntact` alone
is not inductive: `move_stack` copies and remaps every word between `esp` and the top, so
`StackInv` says that the stack is frames of three words and nothing else. `PhaseInv`
ties the interrupt flag, the queue and the moved stack to the place in the code, `RunsInv` says that only the
first task ever runs (the switch to another ends in a reset), `QueueInv` and `ReadyInv`
leave out the task that fork is still making.

**`ConsoleProofs`**, for every screen, text, and order of keys, ticks and calls:
- `GreetingInOrder`, from `SInv`: the latch is open exactly while the divisor is written, and
  `serial_write` is about to put a byte only where none waits, unless one was received. `PutInOrder` says
  that a byte which replaces a waiting one keeps the order.
- `FlagsFollowKeyboard`, from `KInv`: what makes it inductive is already in `KeyboardTracks`, which
  counts the scan codes not read yet; the proof is about the last code of a key in the port.
- `CursorFollowsText`, from `CInv`: between the four port accesses of `fb_move_cursor` the part
  written so far agrees with `pos` and the index register is the one that was selected, as long as no key
  is echoed. The two registers hold the position modulo what two bytes hold.
- `ScreenContained`, from `TInv`, `LimitAssumption` and `ClockAssumption`. `TypeOK` bounds the cursor by
  `LIMIT`, but no step knows how much of it is left: `Reach` bounds it by the last line and what was used
  so far (`Used`: the texts of the calls before this one, the characters of this one, the keys echoed),
  one line further between a new line and the test for it, and `Counts` keeps `Used` below the
  limit. The main thread's register and the argument of `fb_move_cursor` have their own bounds, since an echo may
  move the cursor in between. `Clocked` bounds `ticks`, and by `i2aLength` the clock's text then begins
  inside the first line; `Intact` says that every function of `screen.c` leaves what lies in front of
  the frame buffer alone.
- `ClockDoesNotDisturb`, from `HInv`, which compares the interrupted call with the consoles `W` that the
  undisturbed one goes through, one per character: `Follows(W)` says for each place in the code which of
  them the screen agrees with, outside the clock's cells, and what the register, the argument and the
  cursor's bytes are. `fb_writeDef` says that there are such consoles; `FollowsStep` and `StepFollows`
  that each access of the main thread keeps in step, `ReturnHarmless` that the last one is `expect`.

**`NumeralsProofs`**, from `WordAssumption` (a word has an even number of values), for every word size,
every number and every base: `ui2aExact`, that the digits `ui2a` puts are of the base, begin with no
zero unless the number is 0, and read back from the left are the number. The two loops are
recursive functions, so this is induction over data. The library's induction theorems take an operator,
which the provers cannot instantiate, but its least number principle is about sets (`WFMin`): `Least` and `NatInd` are
drawn from it, and each induction is over a set `T` of naturals. A recursive function is a `CHOOSE`, so it is
first shown that one with its equation exists, again by induction; then `TopPower` is the greatest power of the base
not above the number, and the rests the second loop goes through are what is left of the number. `ui2aLength` and
`i2aLength` bound the digits by those of the greatest word. That the least number
is its own negative is `i2aShape`.

**`PrintfProofs`**, for every format, argument and width, from `FormatsAssumption` (a format ends at its first
NUL), `ArgsAssumption` (arguments fit the conversions) and `BufAssumption` (`bf` has room for the digits of a
word, a sign and the terminator: 12 for 10 digits):
- `FormatStaysInside`. `FormatInv` says that the character in
  hand is the one in front of the place read next, so that a conversion cut off by the
  terminator is noticed before anything behind it is read.
- `BufferHolds` and `ConversionsExact`, from `DataInv`, by `ui2aExact`: `Spells` says that a text is digits
  which read back are a number, and `PutchwShape` that padding goes up to the width and no further,
  and that there is none for a width that wrapped to a negative one.
- `FormatFollowed`. `OrderInv` says that the characters dealt with (`Dealt`) were read as `Scan` reads them: so many
  conversions are done, what was put is what `Scan` makes of them, and inside a conversion `Scan` is in the
  state that belongs to the place in the code. It has to look at the digit in hand as well, since
  `tfp_format` decides on a width before it reads the first digit of it. `ScanMore` says that what was read does not
  depend on conversions still to come.

**Only model-checked.** All liveness (`ENABLED` is out of the prover's reach): `CallsReturn`
in the four modules that have it, and `KeysServed`. The heap for
clients that are not `Plain`, the kernel's own with its page aligned tables among them.
Every property was checked by TLC on its run's instance before it was proved.

## 6. Not modelled

Segments, the bytes of the IDT, the timer's divisor and the multiboot information are constants
written or read once at boot. The loaded program is not part of the kernel. Colours
never change. `strcpy` and `strlen` on terminated strings are exact and disappear in the sequences that
stand for them. printf's functions for long numbers are not compiled. Contents of frames and
the physical addresses of tables are left out of `Paging`. When `expand` needs a new table, `Paging` makes
it, but the call of `alloc` inside `expand` is not modelled: `KHeap` has one call at a time. It is served
from a hole if there is one; if not, `expand` enters itself again without end. A number on the stack that looks like an address
is changed by `move_stack`, as its comment says; no number in `Tasking` looks like one. PROJECT.json
lists each part with its status, and the hazards no property covers yet.
