------------------------------- MODULE MCKHeap ------------------------------
(***************************************************************************)
(* Instances of the heap.  A page has 32 words, so a page table (Table) is *)
(* one page and a page directory (Dir) two pages and a word, as in the     *)
(* kernel; Small and Task stand for the small structures kmain allocates.  *)
(***************************************************************************)
EXTENDS KHeap

Small == [size |-> 2,  align |-> FALSE, clear |-> 0]
Task  == [size |-> 6,  align |-> FALSE, clear |-> 0]
Table == [size |-> 32, align |-> TRUE, clear |-> 0]
Large == [size |-> 146, align |-> FALSE, clear |-> 0]
Dir   == [size |-> 65, align |-> TRUE, clear |-> 0]

Made   == [Table EXCEPT !.clear = 32]   \* get_page
Cloned == [Table EXCEPT !.clear = 65]   \* clone_table
Child  == [Dir EXCEPT !.clear = 65]     \* clone_directory

Start == start_address

(* The kernel's own use: the first block is the directory that              *)
(* initialize_paging clones, tables and directories stay, small blocks are  *)
(* given back in reverse order.                                             *)
Kernel == [end |-> Start + 8 * PAGE, max |-> Start + 8 * PAGE, script |-> <<{Dir}>>,
           requests |-> {Small, Task, Table, Dir}, holds |-> 4, frees |-> "lifo",
           stores |-> FALSE]

(* The same with a client that fills its blocks. *)
Filling == [Kernel EXCEPT !.requests = {Task, Table}, !.stores = TRUE]

(* Small blocks only: a heap used as a stack, from a heap three pages above *)
(* the minimum, which the first free cuts off.                              *)
Stacked == [Kernel EXCEPT !.end = Start + 10 * PAGE, !.max = Start + 10 * PAGE,
                          !.script = <<{Small}>>, !.requests = {Small, Task}, !.holds = 3]

(* A heap that has to grow. *)
Growing == [end |-> Start + PAGE, max |-> Start + 4 * PAGE,
            script |-> <<{Small, Task}>>, requests |-> {Small, Task}, holds |-> 10, frees |-> "never",
            stores |-> FALSE]

(* A block of kmain's; two tables for the moved stack and the first task;   *)
(* then forks: a directory, a copy of each of the two tables, a task.       *)
Forks(n) ==
    [Kernel EXCEPT !.end = Start + 12 * PAGE, !.max = Start + 24 * PAGE,
                   !.requests = {}, !.holds = 5 + 4 * n, !.frees = "never", !.stores = TRUE,
                   !.script = <<{Child}, {Small, Task}, {Made}, {Made}, {Task}>>
                      \o FlattenSeq([i \in 1 .. n |-> <<{Child}, {Cloned}, {Cloned}, {Task}>>])]

ASSUME PlainClients == Plain(Stacked) /\ Plain(Growing)

MCScenarios == {Kernel, Filling, Stacked, Growing, Forks(1)}
-----------------------------------------------------------------------------
(* Clients outside that discipline, one for each thing the comments of      *)
(* kheap.c say and the code does not do.                                    *)

(* Small blocks given back in any order. *)
AnyOrder == {[Kernel EXCEPT !.script = <<{Small}>>, !.requests = {Small}, !.frees = "any"]}

(* A second fork. *)
ForkTwice == {[Forks(2) EXCEPT !.stores = FALSE]}

(* Reverse order, with more than HEAP_MIN_SIZE in use. *)
AboveMinimum == {[Kernel EXCEPT !.end = Start + 10 * PAGE, !.max = Start + 10 * PAGE,
                                !.script = <<{Large}>>, !.requests = {Large, Small}]}

MCWrap == 65536
=============================================================================
