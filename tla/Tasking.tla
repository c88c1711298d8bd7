------------------------------ MODULE Tasking -------------------------------
(***************************************************************************)
(* task.c: the stack that initialize_tasking moves, the queue that fork    *)
(* extends, and the registers that switch_task saves and loads.  What the  *)
(* three do to page tables and frames is in module Paging.                 *)
(*                                                                         *)
(* Memory is the words in use of the stack in use: those from esp up.  The *)
(* others hold what interrupts left there.  The program calls functions    *)
(* and returns from them; a call pushes its return address, the caller's   *)
(* ebp and one local variable.                                             *)
(***************************************************************************)
EXTENDS Integers, Sequences, Functions

CONSTANTS initial_esp,   \* the top of the stack the boot loader gave
          NEW_START,     \* 0xE0000000, the top of the new one
          SIZE,          \* 0x2000, in words
          Labels,        \* return addresses
          MAX_TASKS      \* bound on the tasks made

ASSUME StackAssumption ==
    /\ {initial_esp, NEW_START, SIZE} \subseteq Nat
    /\ 3 < SIZE /\ SIZE < initial_esp /\ initial_esp < NEW_START - SIZE
    /\ Labels \subseteq Nat \ (initial_esp - SIZE + 1 .. initial_esp - 1)

OldStack == initial_esp - SIZE + 1 .. initial_esp - 1
NewStack == NEW_START - SIZE .. NEW_START

VARIABLES
    mem, esp, ebp,    \* the stack and the registers
    IF_,              \* the interrupt flag
    tasks,            \* the task_t made so far; a pointer is a place in it
    ready_queue, current_task,   \* pointers, 0 is null
    next_pid,
    pc,               \* "run" is the program, else a place in task.c
    ptr,              \* tmp_task of fork
    calls,            \* the calls in progress, the innermost first
    moved

regs  == <<esp, ebp>>
sched == <<tasks, ready_queue, current_task, next_pid>>
vars  == <<mem, regs, IF_, sched, pc, ptr, calls, moved>>

Null == 0
NoTask == [id |-> 0, esp |-> 0, ebp |-> 0, eip |-> "none", page_directory |-> 0, next |-> Null]

(* kmain has been called by loader.s, which keeps no frame.                 *)
Init ==
    /\ esp = initial_esp - 3 /\ ebp = initial_esp - 2
    /\ \E l \in Labels :
         /\ mem = [a \in initial_esp - 3 .. initial_esp - 1 |-> IF a = initial_esp - 1 THEN l ELSE 0]
         /\ calls = <<[ret |-> l, var |-> "number"]>>
    /\ IF_ = "on"
    /\ tasks = << >> /\ ready_queue = Null /\ current_task = Null /\ next_pid = 1
    /\ pc = "run" /\ ptr = Null /\ moved = FALSE

-----------------------------------------------------------------------------
(* The program *)

(* What a local variable holds: a number that is no address of the stack,   *)
(* the stack's own top (kmain's second parameter), or the address of the    *)
(* frame of the caller.                                                     *)
Variable(var, caller) ==
    CASE var = "number" -> 0 [] var = "top" -> initial_esp [] var = "pointer" -> caller

Bottom == (IF moved THEN NEW_START ELSE initial_esp) - SIZE

(* A call of f, which is a function of the program or one of task.c.        *)
Call(f, l, var) ==
    /\ pc = "run" /\ esp - 3 > Bottom
    /\ f = "initialize_tasking" => current_task = Null
    /\ f = "fork" => current_task # Null /\ Len(tasks) < MAX_TASKS
    /\ mem' = [a \in (esp - 3 .. esp - 1) \cup DOMAIN mem |->
                 CASE a = esp - 1 -> l [] a = esp - 2 -> ebp [] a = esp - 3 -> Variable(var, ebp)
                   [] OTHER -> mem[a]]
    /\ ebp' = esp - 2 /\ esp' = esp - 3
    /\ calls' = <<[ret |-> l, var |-> var]>> \o calls
    /\ pc' = f
    /\ UNCHANGED <<IF_, sched, ptr, moved>>

(* leave; ret *)
Leave ==
    /\ esp' = ebp + 2 /\ ebp' = mem[ebp]
    /\ calls' = Tail(calls)
    /\ mem' = Restrict(mem, {a \in DOMAIN mem : a >= ebp + 2})
    /\ pc' = "run"

Return ==
    /\ pc = "run" /\ Len(calls) > 1
    /\ Leave
    /\ UNCHANGED <<IF_, sched, ptr, moved>>

-----------------------------------------------------------------------------
(* initialize_tasking *)

offset == NEW_START - initial_esp

(* memcpy of the words from old_stack_pointer up.                           *)
Copied(old_stack_pointer) == [a \in old_stack_pointer + offset .. NEW_START - 1 |-> mem[a - offset]]

(* Slip: only the frame pointer of the caller is taken for one. *)
RemapsOne(tmp, old_stack_pointer) == old_stack_pointer < tmp /\ tmp <= ebp

(* Which words of the copy are taken for pointers into the old stack.       *)
Remaps(tmp, old_stack_pointer) == old_stack_pointer < tmp /\ tmp < initial_esp

Remapped(m, old_stack_pointer) ==
    [a \in DOMAIN m |->
        IF a \in NEW_START - SIZE + 1 .. NEW_START /\ Remaps(m[a], old_stack_pointer)
        THEN m[a] + offset ELSE m[a]]

(* move_stack, with interrupts shut out.                                    *)
MoveStack ==
    /\ pc = "initialize_tasking"
    /\ IF_' = "off"
    /\ mem' = Remapped(Copied(esp), esp)
    /\ esp' = esp + offset /\ ebp' = ebp + offset
    /\ moved' = TRUE
    /\ pc' = "first"
    /\ UNCHANGED <<sched, ptr, calls>>

NewTask(directory) == [NoTask EXCEPT !.id = next_pid, !.page_directory = directory]

(* The kernel's task; then sti.                                             *)
FirstTask ==
    /\ pc = "first"
    /\ tasks' = <<NewTask(1)>>
    /\ ready_queue' = 1 /\ current_task' = 1 /\ next_pid' = next_pid + 1
    /\ IF_' = "on"
    /\ Leave
    /\ UNCHANGED <<ptr, moved>>

-----------------------------------------------------------------------------
(* fork *)

ForkCli ==
    /\ pc = "fork"
    /\ IF_' = "off" /\ pc' = "clone"
    /\ UNCHANGED <<mem, regs, sched, ptr, calls, moved>>

(* Slip: next_pid is read but not counted on. *)
ForkTaskSamePid ==
    /\ pc = "clone"
    /\ tasks' = Append(tasks, NewTask(Len(tasks) + 1))
    /\ next_pid' = next_pid
    /\ ptr' = ready_queue
    /\ pc' = "walk"
    /\ UNCHANGED <<mem, regs, IF_, ready_queue, current_task, calls, moved>>

(* The new directory and the new task.                                      *)
ForkTask ==
    /\ pc = "clone"
    /\ tasks' = Append(tasks, NewTask(Len(tasks) + 1))
    /\ next_pid' = next_pid + 1
    /\ ptr' = ready_queue
    /\ pc' = "walk"
    /\ UNCHANGED <<mem, regs, IF_, ready_queue, current_task, calls, moved>>

ForkWalk ==
    /\ pc = "walk" /\ tasks[ptr].next # Null
    /\ ptr' = tasks[ptr].next
    /\ UNCHANGED <<mem, regs, IF_, sched, pc, calls, moved>>

(* Slip: the queue's end is not looked for. *)
ForkAppendAnywhere ==
    /\ pc = "walk"
    /\ tasks' = [tasks EXCEPT ![ptr].next = Len(tasks)]
    /\ pc' = "parent"
    /\ UNCHANGED <<mem, regs, IF_, ready_queue, current_task, next_pid, ptr, calls, moved>>

ForkAppend ==
    /\ pc = "walk" /\ tasks[ptr].next = Null
    /\ tasks' = [tasks EXCEPT ![ptr].next = Len(tasks)]
    /\ pc' = "parent"
    /\ UNCHANGED <<mem, regs, IF_, ready_queue, current_task, next_pid, ptr, calls, moved>>

(* Saves the registers of task t. *)
Saved(t, eip) == [tasks EXCEPT ![t].esp = esp, ![t].ebp = ebp, ![t].eip = eip]

(* Slip: the registers are stored in the parent. *)
ForkParentOwn ==
    /\ pc = "parent"
    /\ tasks' = Saved(current_task, "fork")
    /\ IF_' = "on" /\ ptr' = Null
    /\ Leave
    /\ UNCHANGED <<ready_queue, current_task, next_pid, moved>>

(* read_eip has returned and current_task is still the parent: the child's  *)
(* registers are stored, sti.                                               *)
ForkParent ==
    /\ pc = "parent"
    /\ tasks' = Saved(Len(tasks), "fork")
    /\ IF_' = "on" /\ ptr' = Null
    /\ Leave
    /\ UNCHANGED <<ready_queue, current_task, next_pid, moved>>

-----------------------------------------------------------------------------
(* switch_task *)

SwitchNone ==
    /\ pc = "switch_task" /\ current_task = Null
    /\ Leave
    /\ UNCHANGED <<IF_, sched, ptr, moved>>

SwitchSave ==
    /\ pc = "switch_task" /\ current_task # Null
    /\ tasks' = Saved(current_task, "switch")
    /\ pc' = "pick"
    /\ UNCHANGED <<mem, regs, IF_, ready_queue, current_task, next_pid, ptr, calls, moved>>

NextTask(t) == IF tasks[t].next = Null THEN ready_queue ELSE tasks[t].next

SwitchPick ==
    /\ pc = "pick"
    /\ current_task' = NextTask(current_task)
    /\ pc' = "load"
    /\ UNCHANGED <<mem, regs, IF_, tasks, ready_queue, next_pid, ptr, calls, moved>>

(* clone_table leaves out the pages that have a frame (module Paging), so   *)
(* only the directory the stack was moved in has it.                        *)
HasStack(t) == tasks[t].page_directory = 1

(* cli to jmp *ecx: the registers of the task, and a return from read_eip   *)
(* with 0x12345, upon which switch_task returns.                            *)
SwitchLoad ==
    /\ pc = "load" /\ HasStack(current_task)
    /\ esp' = tasks[current_task].esp /\ ebp' = tasks[current_task].ebp
    /\ pc' = "back"
    /\ UNCHANGED <<mem, IF_, sched, ptr, calls, moved>>

(* Slip: no dummy value in eax, so switch_task saves and switches again. *)
SwitchBackAgain ==
    /\ pc = "back"
    /\ pc' = "switch_task"
    /\ UNCHANGED <<mem, regs, IF_, sched, ptr, calls, moved>>

SwitchBack ==
    /\ pc = "back"
    /\ Leave
    /\ UNCHANGED <<IF_, sched, ptr, moved>>

(* With cr3 loaded there is no stack, not even for the page fault: the      *)
(* machine resets.                                                          *)
SwitchReset ==
    /\ pc = "load" /\ ~ HasStack(current_task)
    /\ pc' = "reset"
    /\ UNCHANGED <<mem, regs, IF_, sched, ptr, calls, moved>>

Kernel == \/ MoveStack \/ FirstTask \/ ForkCli \/ ForkTask \/ ForkWalk \/ ForkAppend \/ ForkParent
          \/ SwitchNone \/ SwitchSave \/ SwitchPick \/ SwitchLoad \/ SwitchBack \/ SwitchReset

Next ==
    \/ \E f \in {"run", "initialize_tasking", "fork", "switch_task"}, l \in Labels,
          var \in {"number", "top", "pointer"} : Call(f, l, var)
    \/ Return \/ Kernel

(* A function of task.c goes on: handlers of interrupts end.                *)
Spec == Init /\ [][Next]_vars /\ WF_vars(Kernel)

-----------------------------------------------------------------------------
(* Properties *)

PCs == {"run", "initialize_tasking", "first", "fork", "clone", "walk", "parent",
        "switch_task", "pick", "load", "back", "reset"}

(* The types; pointers to tasks are null or point to a task_t that was made,*)
(* and process ids are not given twice (next_pid).                          *)
TypeOK ==
    /\ esp \in DOMAIN mem /\ ebp \in DOMAIN mem
    /\ IF_ \in {"on", "off"} /\ pc \in PCs /\ moved \in BOOLEAN
    /\ {ready_queue, current_task, ptr} \subseteq 0 .. Len(tasks)
    /\ next_pid = Len(tasks) + 1
    /\ \A t \in 1 .. Len(tasks) : tasks[t].id = t /\ tasks[t].next \in 0 .. Len(tasks)

(* The frames of the calls in progress; each is of three words.            *)
Frame(k) == ebp + 3 * (k - 1)

(* Whatever moves or switches the stack (move_stack, switch_task, fork), the*)
(* chain of frames from ebp leads through all the calls in progress, each   *)
(* with its return address, and a local variable that points into the stack *)
(* points to the same frame as before; all of it in the new stack once there*)
(* is one.                                                                  *)
FramesIntact ==
    \A k \in 1 .. Len(calls) :
      LET f == Frame(k)
      IN  /\ f \in (IF moved THEN NewStack ELSE OldStack)
          /\ {f - 1, f, f + 1} \subseteq DOMAIN mem
          /\ mem[f] = IF k < Len(calls) THEN Frame(k + 1) ELSE 0
          /\ mem[f + 1] = calls[k].ret
          /\ mem[f - 1] = Variable(calls[k].var, mem[f])

(* Whenever an interrupt may come, the queue leads from ready_queue to its  *)
(* end through every task made, each once and in the order they were made   *)
(* (fork).                                                                  *)
QueueWhole ==
    IF_ = "on" /\ ready_queue # Null =>
      /\ ready_queue = 1
      /\ \A k \in 1 .. Len(tasks) : tasks[k].next = IF k < Len(tasks) THEN k + 1 ELSE Null

(* A task that switch_task may come to has registers to load: fork or the   *)
(* switch away from it has stored an esp and an ebp in the new stack.       *)
ReadyToRun ==
    IF_ = "on" => \A t \in 1 .. Len(tasks) \ {IF pc \in {"load", "back"} THEN Null ELSE current_task} :
        /\ tasks[t].eip # "none"
        /\ tasks[t].esp \in NewStack /\ tasks[t].ebp \in NewStack

(* Every call of a function of task.c comes back to its caller, with        *)
(* interrupts on and as the task it was, but for a switch_task to a forked  *)
(* task, with which the machine resets.                                     *)
CallsReturn ==
    (pc # "run") ~> \/ pc = "run" /\ IF_ = "on" /\ current_task = ready_queue
                    \/ pc = "reset" /\ tasks[current_task].id > 1
=============================================================================
