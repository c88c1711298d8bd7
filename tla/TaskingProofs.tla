--------------------------- MODULE TaskingProofs ----------------------------
(***************************************************************************)
(* Proofs about Tasking, for stacks of every size and place, any number of *)
(* tasks and calls nested to any depth the stack has room for.             *)
(***************************************************************************)
EXTENDS Tasking, SequenceTheorems, TLAPS

Vars  == {"number", "top", "pointer"}
CallT == [ret : Labels, var : Vars]
TaskT == [id : Nat, esp : Int, ebp : Int, eip : {"none", "fork", "switch"},
          page_directory : Nat, next : Nat]

Top == IF moved THEN NEW_START ELSE initial_esp

(* The stack in use is frames of three words and nothing else.              *)
StackInv ==
    /\ moved \in BOOLEAN
    /\ calls \in Seq(CallT) /\ Len(calls) >= 1 /\ (pc # "run" => Len(calls) >= 2)
    /\ esp = Top - 3 * Len(calls) /\ ebp = esp + 1 /\ esp > Top - SIZE
    /\ mem = [a \in esp .. Top - 1 |-> mem[a]]
    /\ \A k \in 1 .. Len(calls) :
         /\ mem[Frame(k)] = IF k < Len(calls) THEN Frame(k + 1) ELSE 0
         /\ mem[Frame(k) + 1] = calls[k].ret
         /\ mem[Frame(k) - 1] = Variable(calls[k].var, mem[Frame(k)])

(* There are tasks once the stack has moved, and interrupts are off while   *)
(* the two are not in step or a task is being made.                         *)
PhaseInv ==
    /\ pc \in PCs
    /\ IF_ = IF pc \in {"first", "clone", "walk", "parent"} THEN "off" ELSE "on"
    /\ moved <=> pc = "first" \/ current_task # Null
    /\ pc \in {"fork", "clone", "walk", "parent", "pick", "load", "back", "reset"} => current_task # Null
    /\ pc \in {"initialize_tasking", "first"} => current_task = Null
    /\ current_task = Null => Len(tasks) = 0 /\ ready_queue = Null
    /\ current_task # Null => Len(tasks) >= 1 /\ ready_queue = 1

(* Only the first task ever runs: the switch to another one does not end.   *)
RunsInv ==
    /\ current_task \in 0 .. Len(tasks)
    /\ current_task # Null /\ pc \notin {"load", "reset"} => current_task = 1
    /\ pc \in {"pick", "load"} => tasks[1].esp = esp /\ tasks[1].ebp = ebp

(* The tasks that are in the queue; the last one is not while fork looks    *)
(* for the queue's end.                                                     *)
Queued == IF pc = "walk" THEN Len(tasks) - 1 ELSE Len(tasks)

QueueInv ==
    /\ tasks \in Seq(TaskT) /\ next_pid = Len(tasks) + 1
    /\ \A t \in 1 .. Len(tasks) : /\ tasks[t].id = t /\ tasks[t].page_directory = t
                                  /\ tasks[t].next = IF t < Queued THEN t + 1 ELSE Null
    /\ pc \in {"walk", "parent"} => Len(tasks) >= 2
    /\ pc = "walk" => ptr \in 1 .. Queued
    /\ ptr \in 0 .. Len(tasks)

(* A task that has registers to load. *)
Ready(t) == tasks[t].eip # "none" /\ tasks[t].esp \in NewStack /\ tasks[t].ebp \in NewStack

ReadyInv ==
    \A t \in 1 .. Len(tasks) :
      /\ t = 1 /\ pc \in {"pick", "load", "back", "reset"} => Ready(t)
      /\ t > 1 /\ ~ (pc \in {"walk", "parent"} /\ t = Len(tasks)) => Ready(t)

TInv == StackInv /\ PhaseInv /\ RunsInv /\ QueueInv /\ ReadyInv
-----------------------------------------------------------------------------
(* The stack *)

LEMMA ConstantTypes ==
    /\ initial_esp \in Nat /\ NEW_START \in Nat /\ SIZE \in Nat
    /\ 3 < SIZE /\ SIZE < initial_esp /\ initial_esp < NEW_START - SIZE
    /\ \A l \in Labels : l \in Nat /\ ~ (initial_esp - SIZE < l /\ l < initial_esp)
BY StackAssumption

LEMMA StackTypes ==
    ASSUME StackInv
    PROVE  /\ Len(calls) \in Nat /\ Top \in Nat /\ esp \in Int /\ ebp \in Int
           /\ \A k \in 1 .. Len(calls) : /\ Frame(k) \in esp + 1 .. Top - 2
                                         /\ Frame(k + 1) = Frame(k) + 3
                                         /\ calls[k] \in CallT
           /\ Frame(1) = ebp
           /\ DOMAIN mem = esp .. Top - 1
<1>1. Len(calls) \in Nat /\ Top \in Nat
    BY ConstantTypes, LenProperties DEF StackInv, Top
<1>2. esp \in Int /\ ebp = esp + 1 /\ esp = Top - 3 * Len(calls)
    BY <1>1 DEF StackInv
<1>3. \A k \in 1 .. Len(calls) : Frame(k) \in esp + 1 .. Top - 2 /\ Frame(k + 1) = Frame(k) + 3
    BY <1>1, <1>2 DEF Frame
<1>4. \A k \in 1 .. Len(calls) : calls[k] \in CallT
    BY ElementOfSeq DEF StackInv
<1>5. DOMAIN mem = esp .. Top - 1
    BY DEF StackInv
<1>6. Frame(1) = ebp
    BY <1>2 DEF Frame
<1> QED BY <1>1, <1>2, <1>3, <1>4, <1>5, <1>6

(* Variable is one of the three values. *)
LEMMA VariableValue ==
    ASSUME NEW var \in Vars, NEW caller
    PROVE  /\ var = "number" => Variable(var, caller) = 0
           /\ var = "top" => Variable(var, caller) = initial_esp
           /\ var = "pointer" => Variable(var, caller) = caller
BY DEF Variable, Vars

LEMMA InitStack == Init => StackInv
<1> SUFFICES ASSUME Init PROVE StackInv
    OBVIOUS
<1>1. PICK l \in Labels :
         /\ mem = [a \in initial_esp - 3 .. initial_esp - 1 |-> IF a = initial_esp - 1 THEN l ELSE 0]
         /\ calls = <<[ret |-> l, var |-> "number"]>>
    BY DEF Init
<1>2. /\ esp = initial_esp - 3 /\ ebp = initial_esp - 2 /\ pc = "run" /\ moved = FALSE
      /\ Top = initial_esp
    BY DEF Init, Top
<1>3. calls \in Seq(CallT) /\ Len(calls) = 1 /\ calls[1] = [ret |-> l, var |-> "number"]
    <2>1. [ret |-> l, var |-> "number"] \in CallT
        BY DEF CallT, Vars
    <2> QED BY <1>1, <2>1
<1>4. mem = [a \in esp .. Top - 1 |-> mem[a]]
    BY <1>1, <1>2
<1>5. Frame(1) = initial_esp - 2
    BY <1>2, ConstantTypes DEF Frame
<1>6. mem[Frame(1)] = 0 /\ mem[Frame(1) + 1] = l /\ mem[Frame(1) - 1] = 0
    BY <1>1, <1>5, ConstantTypes
<1>7. Variable("number", mem[Frame(1)]) = 0
    BY DEF Variable
<1>8. \A k \in 1 .. Len(calls) :
         /\ mem[Frame(k)] = IF k < Len(calls) THEN Frame(k + 1) ELSE 0
         /\ mem[Frame(k) + 1] = calls[k].ret
         /\ mem[Frame(k) - 1] = Variable(calls[k].var, mem[Frame(k)])
    BY <1>3, <1>6, <1>7
<1>9. /\ Len(calls) >= 1 /\ esp = Top - 3 * Len(calls) /\ ebp = esp + 1 /\ esp > Top - SIZE
    BY <1>2, <1>3, ConstantTypes
<1> QED BY <1>2, <1>3, <1>4, <1>8, <1>9 DEF StackInv

(* A call lays a frame below the others. *)
LEMMA CallStack ==
    ASSUME StackInv, NEW f, NEW l \in Labels, NEW var \in Vars, Call(f, l, var)
    PROVE  StackInv'
<1> DEFINE new == [ret |-> l, var |-> var]
           n == Len(calls)
<1>1. /\ esp - 3 > Bottom /\ ebp' = esp - 2 /\ esp' = esp - 3 /\ moved' = moved
      /\ calls' = <<new>> \o calls
      /\ mem' = [a \in (esp - 3 .. esp - 1) \cup DOMAIN mem |->
                   CASE a = esp - 1 -> l [] a = esp - 2 -> ebp [] a = esp - 3 -> Variable(var, ebp)
                     [] OTHER -> mem[a]]
    BY DEF Call
<1>2. /\ n \in Nat /\ Top \in Nat /\ esp \in Int /\ ebp = esp + 1 /\ ebp \in Int
      /\ esp = Top - 3 * n /\ n >= 1 /\ esp > Top - SIZE
      /\ \A k \in 1 .. n : Frame(k) \in esp + 1 .. Top - 2
      /\ DOMAIN mem = esp .. Top - 1
    BY StackTypes DEF StackInv
<1>3. Top' = Top /\ moved' \in BOOLEAN
    BY <1>1 DEF Top, StackInv
<1>4. calls' \in Seq(CallT) /\ Len(calls') = n + 1 /\ calls'[1] = new
      /\ \A k \in 2 .. n + 1 : calls'[k] = calls[k - 1]
    <2>1. new \in CallT
        BY DEF CallT
    <2>2. <<new>> \in Seq(CallT) /\ Len(<<new>>) = 1 /\ <<new>>[1] = new
        BY <2>1
    <2>3. calls \in Seq(CallT)
        BY DEF StackInv
    <2> HIDE DEF new
    <2> QED BY <1>1, <1>2, <2>2, <2>3, ConcatProperties
<1>5. DOMAIN mem' = esp' .. Top - 1 /\ mem' = [a \in esp' .. Top - 1 |-> mem'[a]]
    <2>1. (esp - 3 .. esp - 1) \cup DOMAIN mem = esp - 3 .. Top - 1
        BY <1>2
    <2> QED BY <1>1, <2>1
<1>6. /\ mem'[esp - 1] = l /\ mem'[esp - 2] = ebp /\ mem'[esp - 3] = Variable(var, ebp)
      /\ \A a \in esp .. Top - 1 : mem'[a] = mem[a]
    <2>1. \A a \in (esp - 3 .. esp - 1) \cup DOMAIN mem : mem'[a] =
             CASE a = esp - 1 -> l [] a = esp - 2 -> ebp [] a = esp - 3 -> Variable(var, ebp)
               [] OTHER -> mem[a]
        BY <1>1
    <2>2. /\ {esp - 1, esp - 2, esp - 3} \subseteq (esp - 3 .. esp - 1) \cup DOMAIN mem
          /\ esp - 1 # esp - 2 /\ esp - 1 # esp - 3 /\ esp - 2 # esp - 3
        BY <1>2
    <2>3. \A a \in esp .. Top - 1 : /\ a \in (esp - 3 .. esp - 1) \cup DOMAIN mem
                                    /\ a # esp - 1 /\ a # esp - 2 /\ a # esp - 3
        BY <1>2
    <2>4. mem'[esp - 1] = l
        BY <2>1, <2>2
    <2>5. mem'[esp - 2] = ebp
        BY <2>1, <2>2
    <2>6. mem'[esp - 3] = Variable(var, ebp)
        BY <2>1, <2>2
    <2>7. ASSUME NEW a \in esp .. Top - 1 PROVE mem'[a] = mem[a]
        BY <2>1, <2>3
    <2> QED BY <2>4, <2>5, <2>6, <2>7
<1>7. esp' > Top' - SIZE
    BY <1>1, <1>2, <1>3, ConstantTypes DEF Bottom, Top
<1>8. Frame(1)' = esp - 2 /\ \A k \in 2 .. n + 2 : Frame(k)' = Frame(k - 1)
    BY <1>1, <1>2, SMTT(30) DEF Frame
<1>9. \A k \in 1 .. n + 1 :
         /\ mem'[Frame(k)'] = IF k < n + 1 THEN Frame(k + 1)' ELSE 0
         /\ mem'[Frame(k)' + 1] = calls'[k].ret
         /\ mem'[Frame(k)' - 1] = Variable(calls'[k].var, mem'[Frame(k)'])
    <2> TAKE k \in 1 .. n + 1
    <2>1. CASE k = 1
        <3>1. mem'[Frame(k)'] = ebp /\ mem'[Frame(k)' + 1] = l /\ mem'[Frame(k)' - 1] = Variable(var, ebp)
            BY <1>2, <1>6, <1>8, <2>1
        <3>2. Frame(k + 1)' = ebp /\ k < n + 1
            <4>1. Frame(2)' = Frame(1)
                BY <1>2, <1>8
            <4>2. Frame(1) = ebp
                BY StackTypes
            <4>3. k + 1 = 2 /\ k < n + 1
                BY <1>2, <2>1
            <4> QED BY <4>1, <4>2, <4>3
        <3> QED BY <1>4, <2>1, <3>1, <3>2
    <2>2. CASE k > 1
        <3>1. k - 1 \in 1 .. n /\ Frame(k)' = Frame(k - 1) /\ Frame(k + 1)' = Frame(k)
              /\ calls'[k] = calls[k - 1]
            BY <1>2, <1>4, <1>8, <2>2
        <3>2. /\ mem'[Frame(k)'] = mem[Frame(k - 1)] /\ mem'[Frame(k)' + 1] = mem[Frame(k - 1) + 1]
              /\ mem'[Frame(k)' - 1] = mem[Frame(k - 1) - 1]
            <4>1. Frame(k - 1) \in esp + 1 .. Top - 2
                BY <1>2, <3>1
            <4>2. {Frame(k - 1), Frame(k - 1) + 1, Frame(k - 1) - 1} \subseteq esp .. Top - 1
                BY <1>2, <4>1
            <4> QED BY <1>6, <3>1, <4>2
        <3>3. /\ mem[Frame(k - 1)] = IF k - 1 < n THEN Frame(k - 1 + 1) ELSE 0
              /\ mem[Frame(k - 1) + 1] = calls[k - 1].ret
              /\ mem[Frame(k - 1) - 1] = Variable(calls[k - 1].var, mem[Frame(k - 1)])
            BY <3>1 DEF StackInv
        <3>4. k - 1 + 1 = k /\ (k - 1 < n <=> k < n + 1)
            BY <1>2
        <3> QED BY <3>1, <3>2, <3>3, <3>4
    <2> QED BY <1>2, <2>1, <2>2
<1>10. \A v, c : Variable(v, c)' = Variable(v, c)
    BY DEF Variable
<1>11. esp' = Top' - 3 * Len(calls') /\ ebp' = esp' + 1 /\ Len(calls') >= 2
    BY <1>1, <1>2, <1>3, <1>4
<1>12. \A k \in 1 .. Len(calls') :
         /\ mem'[Frame(k)'] = IF k < Len(calls') THEN Frame(k + 1)' ELSE 0
         /\ mem'[Frame(k)' + 1] = calls'[k].ret
         /\ mem'[Frame(k)' - 1] = Variable(calls'[k].var, mem'[Frame(k)'])
    BY <1>4, <1>9
<1> QED BY <1>3, <1>4, <1>5, <1>7, <1>11, <1>12 DEF StackInv

(* leave and ret take the lowest one away. *)
LEMMA LeaveStack ==
    ASSUME StackInv, Len(calls) >= 2, Leave, moved' = moved
    PROVE  StackInv'
<1> DEFINE n == Len(calls)
<1>1. /\ esp' = ebp + 2 /\ ebp' = mem[ebp] /\ calls' = Tail(calls) /\ pc' = "run"
      /\ mem' = [a \in {a \in DOMAIN mem : a >= ebp + 2} |-> mem[a]]
    BY DEF Leave, Restrict
<1>2. /\ n \in Nat /\ Top \in Nat /\ esp \in Int /\ ebp = esp + 1 /\ ebp \in Int
      /\ esp = Top - 3 * n /\ n >= 2 /\ esp > Top - SIZE
      /\ \A k \in 1 .. n : Frame(k) \in esp + 1 .. Top - 2
      /\ DOMAIN mem = esp .. Top - 1
    BY StackTypes DEF StackInv
<1>3. Top' = Top /\ moved' \in BOOLEAN
    BY DEF Top, StackInv
<1>4. ebp' = ebp + 3
    <2>1. 1 \in 1 .. n /\ 1 < n /\ Frame(1) = ebp /\ Frame(1 + 1) = ebp + 3
        BY <1>2 DEF Frame
    <2>2. mem[Frame(1)] = Frame(1 + 1)
        BY <2>1 DEF StackInv
    <2> QED BY <1>1, <2>1, <2>2
<1>5. calls' \in Seq(CallT) /\ Len(calls') = n - 1 /\ \A k \in 1 .. n - 1 : calls'[k] = calls[k + 1]
    <2>1. calls \in Seq(CallT) /\ calls # << >>
        BY <1>2 DEF StackInv
    <2> QED BY <1>1, <1>2, <2>1, HeadTailProperties
<1>6. mem' = [a \in esp' .. Top - 1 |-> mem[a]]
    <2>1. {a \in DOMAIN mem : a >= ebp + 2} = esp' .. Top - 1
        BY <1>1, <1>2
    <2> QED BY <1>1, <2>1
<1>7. \A k \in 1 .. n : Frame(k)' = Frame(k + 1)
    <2>1. ebp \in Int /\ ebp' = ebp + 3
        BY <1>2, <1>4
    <2> QED BY <2>1 DEF Frame
<1>8. \A k \in 1 .. n - 1 :
         /\ mem'[Frame(k)'] = IF k < n - 1 THEN Frame(k + 1)' ELSE 0
         /\ mem'[Frame(k)' + 1] = calls'[k].ret
         /\ mem'[Frame(k)' - 1] = Variable(calls'[k].var, mem'[Frame(k)'])
    <2> TAKE k \in 1 .. n - 1
    <2>1. /\ k + 1 \in 1 .. n /\ Frame(k)' = Frame(k + 1) /\ Frame(k + 1)' = Frame(k + 1 + 1)
          /\ calls'[k] = calls[k + 1] /\ (k < n - 1 <=> k + 1 < n)
        BY <1>2, <1>5, <1>7
    <2>2. Frame(k + 1) \in ebp + 3 .. Top - 2
        <3>1. Frame(k + 1) \in Int /\ Frame(k + 1) <= Top - 2
            BY <1>2, <2>1
        <3>2. Frame(k + 1) >= ebp + 3
            <4>1. ebp \in Int
                BY <1>2
            <4> QED BY <1>2, <4>1 DEF Frame
        <3>3. Top \in Nat /\ ebp \in Int
            BY <1>2
        <3> QED BY <3>1, <3>2, <3>3
    <2>3. /\ mem'[Frame(k)'] = mem[Frame(k + 1)] /\ mem'[Frame(k)' + 1] = mem[Frame(k + 1) + 1]
          /\ mem'[Frame(k)' - 1] = mem[Frame(k + 1) - 1]
        <3>1. \A f \in ebp + 3 .. Top - 2 : {f, f + 1, f - 1} \subseteq ebp + 2 .. Top - 1
            <4>1. ebp \in Int /\ Top \in Nat
                BY <1>2
            <4> QED BY <4>1
        <3>2. {Frame(k + 1), Frame(k + 1) + 1, Frame(k + 1) - 1} \subseteq esp' .. Top - 1
            BY <1>1, <2>2, <3>1
        <3> QED BY <1>6, <2>1, <3>2
    <2>4. /\ mem[Frame(k + 1)] = IF k + 1 < n THEN Frame(k + 1 + 1) ELSE 0
          /\ mem[Frame(k + 1) + 1] = calls[k + 1].ret
          /\ mem[Frame(k + 1) - 1] = Variable(calls[k + 1].var, mem[Frame(k + 1)])
        BY <2>1 DEF StackInv
    <2> QED BY <2>1, <2>3, <2>4
<1>9. esp' = Top' - 3 * Len(calls') /\ ebp' = esp' + 1 /\ Len(calls') >= 1 /\ esp' > Top' - SIZE
    <2>1. esp' = ebp + 2
        BY <1>1
    <2> QED BY <1>2, <1>3, <1>4, <1>5, <2>1, ConstantTypes
<1>10. mem' = [a \in esp' .. Top' - 1 |-> mem'[a]]
    BY <1>3, <1>6
<1>11. \A k \in 1 .. Len(calls') :
         /\ mem'[Frame(k)'] = IF k < Len(calls') THEN Frame(k + 1)' ELSE 0
         /\ mem'[Frame(k)' + 1] = calls'[k].ret
         /\ mem'[Frame(k)' - 1] = Variable(calls'[k].var, mem'[Frame(k)'])
    BY <1>5, <1>8
<1>12. pc' = "run"
    BY <1>1
<1> QED BY <1>3, <1>5, <1>9, <1>10, <1>11, <1>12 DEF StackInv

(* move_stack: exactly the saved frame pointers and the local variables that*)
(* hold one of them lie strictly between esp and initial_esp.               *)
LEMMA MoveStackStack ==
    ASSUME StackInv, ~ moved, MoveStack
    PROVE  StackInv'
<1> DEFINE n == Len(calls)
           new(v) == IF Remaps(v, esp) THEN v + offset ELSE v
<1>1. /\ esp' = esp + offset /\ ebp' = ebp + offset /\ moved' = TRUE
      /\ calls' = calls /\ pc = "initialize_tasking"
    BY DEF MoveStack
<1>2. mem' = Remapped(Copied(esp), esp)
    BY DEF MoveStack
<1>3. /\ n \in Nat /\ esp \in Int /\ ebp = esp + 1 /\ ebp \in Int
      /\ esp = initial_esp - 3 * n /\ n >= 2 /\ esp > initial_esp - SIZE
      /\ \A k \in 1 .. n : /\ Frame(k) \in esp + 1 .. initial_esp - 2
                           /\ Frame(k + 1) = Frame(k) + 3
                           /\ calls[k] \in CallT
      /\ DOMAIN mem = esp .. initial_esp - 1
    BY <1>1, StackTypes DEF StackInv, Top
<1>4. offset = NEW_START - initial_esp /\ offset \in Int
    BY ConstantTypes DEF offset
<1>5. Top' = NEW_START
    BY <1>1 DEF Top
<1>6. mem' = [a \in esp + offset .. NEW_START - 1 |-> new(mem[a - offset])]
    <2>1. Copied(esp) = [a \in esp + offset .. NEW_START - 1 |-> mem[a - offset]]
        BY DEF Copied
    <2>2. \A a \in esp + offset .. NEW_START - 1 : a \in NEW_START - SIZE + 1 .. NEW_START
        BY <1>3, <1>4, ConstantTypes
    <2> QED BY <1>2, <2>1, <2>2 DEF Remapped
<1>7. \A a \in esp .. initial_esp - 1 : mem'[a + offset] = new(mem[a])
    <2> TAKE a \in esp .. initial_esp - 1
    <2>1. a + offset \in esp + offset .. NEW_START - 1 /\ (a + offset) - offset = a
        BY <1>3, <1>4, ConstantTypes
    <2> QED BY <1>6, <2>1
<1>8. \A k \in 1 .. n + 1 : Frame(k)' = Frame(k) + offset
    BY <1>1, <1>3, <1>4 DEF Frame
<1>9. new(0) = 0 /\ new(initial_esp) = initial_esp /\ \A l \in Labels : new(l) = l
    BY <1>3, ConstantTypes DEF Remaps
<1>10. \A k \in 1 .. n : new(Frame(k)) = Frame(k) + offset
    BY <1>3, ConstantTypes DEF Remaps
<1>11. ASSUME NEW k \in 1 .. n
       PROVE  /\ mem'[Frame(k)'] = IF k < n THEN Frame(k + 1)' ELSE 0
              /\ mem'[Frame(k)' + 1] = calls[k].ret
              /\ mem'[Frame(k)' - 1] = Variable(calls[k].var, mem'[Frame(k)'])
    <2>1. /\ mem[Frame(k)] = IF k < n THEN Frame(k + 1) ELSE 0
          /\ mem[Frame(k) + 1] = calls[k].ret
          /\ mem[Frame(k) - 1] = Variable(calls[k].var, mem[Frame(k)])
        BY <1>11 DEF StackInv
    <2>2. Frame(k) \in esp + 1 .. initial_esp - 2 /\ calls[k] \in CallT
        BY <1>3
    <2>3. /\ calls[k].ret \in Labels /\ calls[k].var \in Vars
        BY <2>2 DEF CallT
    <2>4. /\ {Frame(k), Frame(k) + 1, Frame(k) - 1} \subseteq esp .. initial_esp - 1
          /\ Frame(k)' = Frame(k) + offset
          /\ Frame(k)' + 1 = (Frame(k) + 1) + offset
          /\ Frame(k)' - 1 = (Frame(k) - 1) + offset
        <3>1. Frame(k)' = Frame(k) + offset
            BY <1>3, <1>8
        <3>2. {Frame(k), Frame(k) + 1, Frame(k) - 1} \subseteq esp .. initial_esp - 1
            <4>1. \A f \in esp + 1 .. initial_esp - 2 : {f, f + 1, f - 1} \subseteq esp .. initial_esp - 1
                BY <1>3, ConstantTypes
            <4> QED BY <2>2, <4>1
        <3>3. Frame(k) \in Int
            BY <1>3, <2>2
        <3>4. Frame(k)' + 1 = (Frame(k) + 1) + offset /\ Frame(k)' - 1 = (Frame(k) - 1) + offset
            BY <1>4, <3>1, <3>3
        <3> QED BY <3>1, <3>2, <3>4
    <2> HIDE DEF new
    <2>5. /\ mem'[Frame(k)'] = new(mem[Frame(k)])
          /\ mem'[Frame(k)' + 1] = new(mem[Frame(k) + 1])
          /\ mem'[Frame(k)' - 1] = new(mem[Frame(k) - 1])
        BY <1>7, <2>4
    <2>6. mem'[Frame(k)'] = IF k < n THEN Frame(k + 1)' ELSE 0
        <3>1. k < n => k + 1 \in 1 .. n
            BY <1>3
        <3>2. k < n => new(Frame(k + 1)) = Frame(k + 1)'
            BY <1>8, <1>10, <3>1, <1>3
        <3> QED BY <1>9, <2>1, <2>5, <3>2
    <2>7. mem'[Frame(k)' + 1] = calls[k].ret
        BY <1>9, <2>1, <2>3, <2>5
    <2>8. mem'[Frame(k)' - 1] = Variable(calls[k].var, mem'[Frame(k)'])
        <3>1. \A c : /\ calls[k].var = "number" => Variable(calls[k].var, c) = 0
                     /\ calls[k].var = "top" => Variable(calls[k].var, c) = initial_esp
                     /\ calls[k].var = "pointer" => Variable(calls[k].var, c) = c
            BY <2>3, VariableValue
        <3>2. calls[k].var = "number" \/ calls[k].var = "top" \/ calls[k].var = "pointer"
            BY <2>3 DEF Vars
        <3>3. \/ mem[Frame(k) - 1] = 0 /\ calls[k].var = "number"
              \/ mem[Frame(k) - 1] = initial_esp /\ calls[k].var = "top"
              \/ mem[Frame(k) - 1] = mem[Frame(k)] /\ calls[k].var = "pointer"
            BY <2>1, <3>1, <3>2
        <3> QED BY <1>9, <2>5, <3>1, <3>3
    <2> QED BY <2>6, <2>7, <2>8
<1>12. /\ esp' = Top' - 3 * Len(calls') /\ ebp' = esp' + 1 /\ esp' > Top' - SIZE
       /\ Len(calls') >= 2
    BY <1>1, <1>3, <1>4, <1>5, ConstantTypes
<1>13. mem' = [a \in esp' .. Top' - 1 |-> mem'[a]]
    <2> HIDE DEF new
    <2> QED BY <1>1, <1>5, <1>6
<1>14. calls' \in Seq(CallT) /\ moved' \in BOOLEAN
    BY <1>1 DEF StackInv
<1>15. \A k \in 1 .. Len(calls') :
         /\ mem'[Frame(k)'] = IF k < Len(calls') THEN Frame(k + 1)' ELSE 0
         /\ mem'[Frame(k)' + 1] = calls'[k].ret
         /\ mem'[Frame(k)' - 1] = Variable(calls'[k].var, mem'[Frame(k)'])
    BY <1>1, <1>11
<1> QED BY <1>12, <1>13, <1>14, <1>15 DEF StackInv

(* Steps that do not touch the stack. *)
LEMMA SameStack ==
    ASSUME StackInv, pc # "run", UNCHANGED <<mem, esp, ebp, calls, moved>>
    PROVE  StackInv'
BY DEF StackInv, Top, Frame
-----------------------------------------------------------------------------
(* The tasks: one lemma for each action *)

LEMMA InitTasks == Init => PhaseInv /\ RunsInv /\ QueueInv /\ ReadyInv
<1> SUFFICES ASSUME Init PROVE PhaseInv /\ RunsInv /\ QueueInv /\ ReadyInv
    OBVIOUS
<1>1. /\ tasks = << >> /\ tasks \in Seq(TaskT) /\ Len(tasks) = 0
      /\ ready_queue = Null /\ current_task = Null /\ next_pid = 1 /\ ptr = Null
      /\ pc = "run" /\ moved = FALSE /\ IF_ = "on"
    BY DEF Init
<1>2. PhaseInv
    BY <1>1 DEF PhaseInv, PCs
<1>3. RunsInv /\ QueueInv /\ ReadyInv
    BY <1>1 DEF RunsInv, QueueInv, ReadyInv, Null
<1> QED BY <1>2, <1>3

LEMMA TaskTypes ==
    ASSUME QueueInv
    PROVE  /\ Len(tasks) \in Nat /\ DOMAIN tasks = 1 .. Len(tasks)
           /\ \A t \in 1 .. Len(tasks) : tasks[t] \in TaskT
BY LenProperties, ElementOfSeq DEF QueueInv

(* Steps that leave the tasks alone and neither begin nor end a fork or a   *)
(* switch that has saved registers.                                         *)
LEMMA SameTasks ==
    ASSUME TInv, UNCHANGED <<sched, ptr>>, pc # "walk", pc' # "walk", pc # "parent",
           pc' \in {"pick", "load", "back", "reset"} => pc \in {"pick", "load", "back", "reset"},
           pc' # "parent"
    PROVE  QueueInv' /\ ReadyInv'
<1>1. /\ tasks' = tasks /\ next_pid' = next_pid /\ ptr' = ptr
    BY DEF sched
<1>2. Queued' = Queued
    BY <1>1 DEF Queued
<1>3. QueueInv'
    BY <1>1, <1>2 DEF TInv, QueueInv
<1>4. ReadyInv'
    BY <1>1 DEF TInv, ReadyInv, Ready
<1> QED BY <1>3, <1>4

LEMMA CallStep ==
    ASSUME TInv, NEW f \in {"run", "initialize_tasking", "fork", "switch_task"},
           NEW l \in Labels, NEW var \in Vars, Call(f, l, var)
    PROVE  TInv'
<1>1. /\ pc = "run" /\ pc' = f /\ UNCHANGED <<IF_, sched, ptr, moved>>
      /\ f = "initialize_tasking" => current_task = Null
      /\ f = "fork" => current_task # Null
    BY DEF Call
<1>2. StackInv'
    BY CallStack DEF TInv
<1>3. PhaseInv'
    BY <1>1 DEF TInv, PhaseInv, PCs, sched
<1>4. RunsInv'
    BY <1>1 DEF TInv, RunsInv, sched
<1>5. QueueInv' /\ ReadyInv'
    BY <1>1, SameTasks
<1> QED BY <1>2, <1>3, <1>4, <1>5 DEF TInv

(* A function that has not touched the tasks returns. *)
LEMMA ReturnStep ==
    ASSUME TInv, Return \/ SwitchNone \/ SwitchBack
    PROVE  TInv'
<1>1. /\ pc \in {"run", "switch_task", "back"} /\ pc' = "run" /\ Leave
      /\ UNCHANGED <<IF_, sched, ptr, moved>>
    BY DEF Return, SwitchNone, SwitchBack, Leave
<1>2. Len(calls) >= 2
    <2>1. Len(calls) \in Nat
        BY StackTypes DEF TInv
    <2> QED BY <2>1 DEF TInv, StackInv, Return, SwitchNone, SwitchBack
<1>3. StackInv'
    BY <1>1, <1>2, LeaveStack DEF TInv
<1>4. PhaseInv'
    BY <1>1 DEF TInv, PhaseInv, PCs, sched
<1>5. RunsInv'
    BY <1>1 DEF TInv, RunsInv, sched
<1>6. QueueInv' /\ ReadyInv'
    BY <1>1, SameTasks
<1> QED BY <1>3, <1>4, <1>5, <1>6 DEF TInv

LEMMA MoveStackStep ==
    ASSUME TInv, MoveStack PROVE TInv'
<1>1. /\ pc = "initialize_tasking" /\ pc' = "first" /\ IF_' = "off" /\ moved' = TRUE
      /\ UNCHANGED <<sched, ptr>>
    BY DEF MoveStack
<1>2. ~ moved
    BY <1>1 DEF TInv, PhaseInv
<1>3. StackInv'
    BY <1>2, MoveStackStack DEF TInv
<1>4. PhaseInv'
    BY <1>1 DEF TInv, PhaseInv, PCs, sched
<1>5. RunsInv'
    BY <1>1 DEF TInv, RunsInv, PhaseInv, sched, Null
<1>6. QueueInv' /\ ReadyInv'
    BY <1>1, SameTasks
<1> QED BY <1>3, <1>4, <1>5, <1>6 DEF TInv

LEMMA NewTaskType ==
    ASSUME NEW d \in Nat, next_pid \in Nat
    PROVE  /\ NewTask(d) \in TaskT
           /\ NewTask(d).id = next_pid /\ NewTask(d).page_directory = d /\ NewTask(d).next = Null
<1>1. NoTask \in TaskT /\ NoTask.next = Null
    BY DEF NoTask, TaskT, Null
<1> QED BY <1>1 DEF NewTask, TaskT

LEMMA FirstTaskStep ==
    ASSUME TInv, FirstTask PROVE TInv'
<1>1. /\ pc = "first" /\ pc' = "run" /\ IF_' = "on" /\ moved' = moved /\ ptr' = ptr
      /\ tasks' = <<NewTask(1)>> /\ ready_queue' = 1 /\ current_task' = 1
      /\ next_pid' = next_pid + 1
      /\ Leave
    BY DEF FirstTask, Leave
<1>2. Len(tasks) = 0 /\ next_pid = 1 /\ ptr = 0 /\ moved
    BY <1>1 DEF TInv, PhaseInv, QueueInv
<1>3. StackInv'
    BY <1>1, LeaveStack DEF TInv, StackInv
<1>4. /\ tasks' \in Seq(TaskT) /\ Len(tasks') = 1 /\ tasks'[1] = NewTask(1)
      /\ NewTask(1).id = 1 /\ NewTask(1).page_directory = 1 /\ NewTask(1).next = Null
    BY <1>1, <1>2, NewTaskType
<1>5. PhaseInv'
    BY <1>1, <1>2, <1>4 DEF PhaseInv, PCs, Null
<1>6. RunsInv'
    BY <1>1, <1>4 DEF RunsInv
<1>7. QueueInv'
    BY <1>1, <1>2, <1>4 DEF QueueInv, Queued
<1>8. ReadyInv'
    BY <1>1, <1>4 DEF ReadyInv
<1> QED BY <1>3, <1>5, <1>6, <1>7, <1>8 DEF TInv

LEMMA ForkCliStep ==
    ASSUME TInv, ForkCli PROVE TInv'
<1>1. /\ pc = "fork" /\ pc' = "clone" /\ IF_' = "off"
      /\ UNCHANGED <<mem, regs, sched, ptr, calls, moved>>
    BY DEF ForkCli
<1>2. StackInv'
    BY <1>1, SameStack DEF TInv, regs
<1>3. PhaseInv'
    BY <1>1 DEF TInv, PhaseInv, PCs, sched
<1>4. RunsInv'
    BY <1>1 DEF TInv, RunsInv, sched
<1>5. QueueInv' /\ ReadyInv'
    BY <1>1, SameTasks
<1> QED BY <1>2, <1>3, <1>4, <1>5 DEF TInv

LEMMA ForkTaskStep ==
    ASSUME TInv, ForkTask PROVE TInv'
<1> DEFINE n == Len(tasks)
<1>1. /\ pc = "clone" /\ pc' = "walk" /\ tasks' = Append(tasks, NewTask(n + 1))
      /\ next_pid' = next_pid + 1 /\ ptr' = ready_queue
      /\ UNCHANGED <<mem, regs, IF_, ready_queue, current_task, calls, moved>>
    BY DEF ForkTask
<1>2. n \in Nat /\ n >= 1 /\ ready_queue = 1 /\ current_task = 1 /\ next_pid = n + 1
    BY <1>1, TaskTypes DEF TInv, PhaseInv, RunsInv, QueueInv
<1>3. /\ NewTask(n + 1) \in TaskT /\ NewTask(n + 1).id = n + 1
      /\ NewTask(n + 1).page_directory = n + 1 /\ NewTask(n + 1).next = Null
    BY <1>2, NewTaskType
<1>4. /\ tasks' \in Seq(TaskT) /\ Len(tasks') = n + 1 /\ tasks'[n + 1] = NewTask(n + 1)
      /\ \A t \in 1 .. n : tasks'[t] = tasks[t]
    BY <1>1, <1>3, AppendProperties DEF TInv, QueueInv
<1>5. Queued = n /\ Queued' = n
    BY <1>1, <1>2, <1>4 DEF Queued
<1>6. StackInv'
    BY <1>1, SameStack DEF TInv, regs
<1>7. PhaseInv'
    BY <1>1, <1>2, <1>4 DEF TInv, PhaseInv, PCs, Null
<1>8. RunsInv'
    BY <1>1, <1>2, <1>4 DEF RunsInv
<1>9. QueueInv'
    <2>1. \A t \in 1 .. n + 1 : /\ tasks'[t].id = t /\ tasks'[t].page_directory = t
                                /\ tasks'[t].next = IF t < n THEN t + 1 ELSE Null
        <3> TAKE t \in 1 .. n + 1
        <3>1. CASE t = n + 1
            BY <1>2, <1>3, <1>4, <3>1
        <3>2. CASE t \in 1 .. n
            BY <1>4, <1>5, <3>2 DEF TInv, QueueInv
        <3> QED BY <1>2, <3>1, <3>2
    <2> QED BY <1>1, <1>2, <1>4, <1>5, <2>1 DEF QueueInv
<1>10. ReadyInv'
    BY <1>1, <1>2, <1>4 DEF TInv, ReadyInv, Ready
<1> QED BY <1>6, <1>7, <1>8, <1>9, <1>10 DEF TInv

LEMMA ForkWalkStep ==
    ASSUME TInv, ForkWalk PROVE TInv'
<1>1. /\ pc = "walk" /\ pc' = pc /\ tasks[ptr].next # Null /\ ptr' = tasks[ptr].next
      /\ UNCHANGED <<mem, regs, IF_, sched, calls, moved>>
    BY DEF ForkWalk
<1>2. Len(tasks) \in Nat /\ Queued = Len(tasks) - 1 /\ ptr \in 1 .. Queued
    BY <1>1, TaskTypes DEF TInv, QueueInv, Queued
<1>3. ptr' = ptr + 1 /\ ptr < Queued
    BY <1>1, <1>2 DEF TInv, QueueInv
<1>4. StackInv'
    BY <1>1, SameStack DEF TInv, regs
<1>5. PhaseInv' /\ RunsInv'
    BY <1>1 DEF TInv, PhaseInv, RunsInv, sched
<1>6. QueueInv'
    BY <1>1, <1>2, <1>3 DEF TInv, QueueInv, Queued, sched
<1>7. ReadyInv'
    BY <1>1 DEF TInv, ReadyInv, Ready, sched
<1> QED BY <1>4, <1>5, <1>6, <1>7 DEF TInv

LEMMA ForkAppendStep ==
    ASSUME TInv, ForkAppend PROVE TInv'
<1> DEFINE n == Len(tasks)
<1>1. /\ pc = "walk" /\ pc' = "parent" /\ tasks[ptr].next = Null
      /\ tasks' = [tasks EXCEPT ![ptr].next = n]
      /\ UNCHANGED <<mem, regs, IF_, ready_queue, current_task, next_pid, ptr, calls, moved>>
    BY DEF ForkAppend
<1>2. n \in Nat /\ n >= 2 /\ Queued = n - 1 /\ Queued' = Len(tasks') /\ ptr \in 1 .. n - 1
    BY <1>1, TaskTypes DEF TInv, QueueInv, Queued
<1>3. ptr = n - 1
    BY <1>1, <1>2 DEF TInv, QueueInv, Null
<1> DEFINE last == [tasks[ptr] EXCEPT !.next = n]
<1>4. /\ tasks[ptr] \in TaskT /\ last \in TaskT /\ last.next = n
      /\ last.id = tasks[ptr].id /\ last.page_directory = tasks[ptr].page_directory
      /\ last.esp = tasks[ptr].esp /\ last.ebp = tasks[ptr].ebp /\ last.eip = tasks[ptr].eip
    <2>1. tasks[ptr] \in TaskT
        BY <1>2, TaskTypes DEF TInv
    <2> QED BY <1>2, <2>1 DEF TaskT
<1>5. tasks' = [tasks EXCEPT ![ptr] = last] /\ tasks \in Seq(TaskT)
    BY <1>1 DEF TInv, QueueInv
<1> HIDE DEF last
<1>6. /\ tasks' \in Seq(TaskT) /\ Len(tasks') = n
      /\ \A t \in 1 .. n : tasks'[t] = IF t = ptr THEN last ELSE tasks[t]
    BY <1>2, <1>4, <1>5, ExceptSeq
<1>7. StackInv'
    BY <1>1, SameStack DEF TInv, regs
<1>8. PhaseInv'
    BY <1>1, <1>6 DEF TInv, PhaseInv, PCs
<1>9. RunsInv'
    BY <1>1, <1>6 DEF TInv, RunsInv
<1>10. QueueInv'
    <2>1. \A t \in 1 .. n : /\ tasks'[t].id = t /\ tasks'[t].page_directory = t
                            /\ tasks'[t].next = IF t < n THEN t + 1 ELSE Null
        <3> TAKE t \in 1 .. n
        <3>1. CASE t = ptr
            BY <1>2, <1>3, <1>4, <1>6, <3>1 DEF TInv, QueueInv
        <3>2. CASE t # ptr
            BY <1>2, <1>3, <1>6, <3>2 DEF TInv, QueueInv
        <3> QED BY <3>1, <3>2
    <2> QED BY <1>1, <1>2, <1>6, <2>1 DEF TInv, QueueInv
<1>11. ReadyInv'
    BY <1>1, <1>2, <1>4, <1>6 DEF TInv, ReadyInv, Ready
<1> QED BY <1>7, <1>8, <1>9, <1>10, <1>11 DEF TInv

(* Registers are stored in a task, and the rest of the tasks stays.         *)
LEMMA SavedTasks ==
    ASSUME TInv, NEW t \in 1 .. Len(tasks), NEW eip \in {"fork", "switch"}
    PROVE  /\ Saved(t, eip) \in Seq(TaskT) /\ Len(Saved(t, eip)) = Len(tasks)
           /\ \A u \in 1 .. Len(tasks) :
                /\ Saved(t, eip)[u].id = tasks[u].id /\ Saved(t, eip)[u].next = tasks[u].next
                /\ Saved(t, eip)[u].page_directory = tasks[u].page_directory
                /\ u # t => Saved(t, eip)[u] = tasks[u]
           /\ Saved(t, eip)[t].eip = eip /\ Saved(t, eip)[t].esp = esp /\ Saved(t, eip)[t].ebp = ebp
<1> DEFINE new == [tasks[t] EXCEPT !.esp = esp, !.ebp = ebp, !.eip = eip]
<1>1. /\ tasks \in Seq(TaskT) /\ tasks[t] \in TaskT /\ DOMAIN tasks = 1 .. Len(tasks)
    BY TaskTypes DEF TInv, QueueInv
<1>2. esp \in Int /\ ebp \in Int
    BY StackTypes DEF TInv
<1>3. /\ new \in TaskT /\ new.eip = eip /\ new.esp = esp /\ new.ebp = ebp
      /\ new.id = tasks[t].id /\ new.next = tasks[t].next
      /\ new.page_directory = tasks[t].page_directory
    BY <1>1, <1>2 DEF TaskT
<1>4. Saved(t, eip) = [tasks EXCEPT ![t] = new]
    BY <1>1, <1>3 DEF Saved, TaskT
<1> HIDE DEF new
<1>5. /\ Saved(t, eip) \in Seq(TaskT) /\ Len(Saved(t, eip)) = Len(tasks)
      /\ \A u \in 1 .. Len(tasks) : Saved(t, eip)[u] = IF u = t THEN new ELSE tasks[u]
    BY <1>1, <1>3, <1>4, ExceptSeq
<1> QED BY <1>3, <1>5

(* The registers are in the new stack once it is there. *)
LEMMA RegistersInside ==
    ASSUME StackInv, moved PROVE esp \in NewStack /\ ebp \in NewStack
BY ConstantTypes, StackTypes DEF StackInv, Top, NewStack

LEMMA ForkParentStep ==
    ASSUME TInv, ForkParent PROVE TInv'
<1> DEFINE n == Len(tasks)
<1>1. /\ pc = "parent" /\ pc' = "run" /\ tasks' = Saved(n, "fork") /\ IF_' = "on" /\ ptr' = Null
      /\ Leave /\ UNCHANGED <<ready_queue, current_task, next_pid, moved>>
    BY DEF ForkParent, Leave
<1>2. n \in Nat /\ n >= 2 /\ moved /\ current_task = 1 /\ ready_queue = 1
    BY <1>1, TaskTypes DEF TInv, PhaseInv, QueueInv, RunsInv
<1>3. /\ tasks' \in Seq(TaskT) /\ Len(tasks') = n
      /\ \A u \in 1 .. n :
           /\ tasks'[u].id = tasks[u].id /\ tasks'[u].next = tasks[u].next
           /\ tasks'[u].page_directory = tasks[u].page_directory
           /\ u # n => tasks'[u] = tasks[u]
      /\ tasks'[n].eip = "fork" /\ tasks'[n].esp = esp /\ tasks'[n].ebp = ebp
    BY <1>1, <1>2, SavedTasks
<1>4. StackInv'
    BY <1>1, LeaveStack DEF TInv, StackInv
<1>5. PhaseInv'
    BY <1>1, <1>2, <1>3 DEF TInv, PhaseInv, PCs
<1>6. RunsInv'
    BY <1>1, <1>2, <1>3 DEF RunsInv
<1>7. Queued = n /\ Queued' = n
    BY <1>1, <1>3 DEF Queued
<1>8. QueueInv'
    BY <1>1, <1>2, <1>3, <1>7 DEF TInv, QueueInv, Null
<1>9. ReadyInv'
    <2>1. esp \in NewStack /\ ebp \in NewStack
        BY <1>2, RegistersInside DEF TInv
    <2>2. ASSUME NEW t \in 1 .. n, t > 1 PROVE Ready(t)'
        <3>1. CASE t = n
            BY <1>3, <2>1, <3>1 DEF Ready
        <3>2. CASE t # n
            BY <1>1, <1>3, <2>2, <3>2 DEF TInv, ReadyInv, Ready
        <3> QED BY <3>1, <3>2
    <2> QED BY <1>1, <1>3, <2>2 DEF ReadyInv
<1> QED BY <1>4, <1>5, <1>6, <1>8, <1>9 DEF TInv

LEMMA SwitchSaveStep ==
    ASSUME TInv, SwitchSave PROVE TInv'
<1> DEFINE n == Len(tasks)
<1>1. /\ pc = "switch_task" /\ pc' = "pick" /\ current_task # Null
      /\ tasks' = Saved(current_task, "switch")
      /\ UNCHANGED <<mem, regs, IF_, ready_queue, current_task, next_pid, ptr, calls, moved>>
    BY DEF SwitchSave
<1>2. n \in Nat /\ n >= 1 /\ moved /\ current_task = 1 /\ ready_queue = 1
    BY <1>1, TaskTypes DEF TInv, PhaseInv, RunsInv
<1>3. /\ tasks' \in Seq(TaskT) /\ Len(tasks') = n
      /\ \A u \in 1 .. n :
           /\ tasks'[u].id = tasks[u].id /\ tasks'[u].next = tasks[u].next
           /\ tasks'[u].page_directory = tasks[u].page_directory
           /\ u # 1 => tasks'[u] = tasks[u]
      /\ tasks'[1].eip = "switch" /\ tasks'[1].esp = esp /\ tasks'[1].ebp = ebp
    BY <1>1, <1>2, SavedTasks
<1>4. StackInv'
    BY <1>1, SameStack DEF TInv, regs
<1>5. PhaseInv'
    BY <1>1, <1>2, <1>3 DEF TInv, PhaseInv, PCs
<1>6. RunsInv'
    BY <1>1, <1>2, <1>3 DEF RunsInv, regs
<1>7. Queued = n /\ Queued' = n
    BY <1>1, <1>3 DEF Queued
<1>8. QueueInv'
    BY <1>1, <1>2, <1>3, <1>7 DEF TInv, QueueInv
<1>9. ReadyInv'
    <2>1. Ready(1)'
        BY <1>2, <1>3, RegistersInside DEF TInv, Ready
    <2>2. ASSUME NEW t \in 1 .. n, t > 1 PROVE Ready(t)'
        BY <1>1, <1>3, <2>2 DEF TInv, ReadyInv, Ready
    <2> QED BY <1>3, <2>1, <2>2 DEF ReadyInv
<1> QED BY <1>4, <1>5, <1>6, <1>8, <1>9 DEF TInv

LEMMA SwitchPickStep ==
    ASSUME TInv, SwitchPick PROVE TInv'
<1>1. /\ pc = "pick" /\ pc' = "load" /\ current_task' = NextTask(current_task)
      /\ UNCHANGED <<mem, regs, IF_, tasks, ready_queue, next_pid, ptr, calls, moved>>
    BY DEF SwitchPick
<1>2. Len(tasks) \in Nat /\ Len(tasks) >= 1 /\ current_task = 1 /\ ready_queue = 1 /\ moved
    BY <1>1, TaskTypes DEF TInv, PhaseInv, RunsInv
<1>3. current_task' \in 1 .. Len(tasks)
    <2>1. tasks[1].next = IF 1 < Len(tasks) THEN 1 + 1 ELSE Null
        BY <1>1, <1>2 DEF TInv, QueueInv, Queued
    <2> QED BY <1>1, <1>2, <2>1 DEF NextTask, Null
<1>4. StackInv'
    BY <1>1, SameStack DEF TInv, regs
<1>5. PhaseInv'
    BY <1>1, <1>2, <1>3 DEF TInv, PhaseInv, PCs, Null
<1>6. RunsInv'
    BY <1>1, <1>2, <1>3 DEF TInv, RunsInv, regs
<1>7. QueueInv'
    BY <1>1 DEF TInv, QueueInv, Queued
<1>8. ReadyInv'
    BY <1>1 DEF TInv, ReadyInv, Ready
<1> QED BY <1>4, <1>5, <1>6, <1>7, <1>8 DEF TInv

(* The registers loaded are the ones just saved: only the first task has a  *)
(* stack.                                                                   *)
LEMMA SwitchLoadStep ==
    ASSUME TInv, SwitchLoad PROVE TInv'
<1>1. /\ pc = "load" /\ pc' = "back" /\ tasks[current_task].page_directory = 1
      /\ esp' = tasks[current_task].esp /\ ebp' = tasks[current_task].ebp
      /\ UNCHANGED <<mem, IF_, sched, ptr, calls, moved>>
    BY DEF SwitchLoad, HasStack
<1>2. current_task = 1
    BY <1>1 DEF TInv, PhaseInv, RunsInv, QueueInv, Null
<1>3. esp' = esp /\ ebp' = ebp
    BY <1>1, <1>2 DEF TInv, RunsInv
<1>4. StackInv'
    BY <1>1, <1>3, SameStack DEF TInv
<1>5. PhaseInv'
    BY <1>1 DEF TInv, PhaseInv, PCs, sched
<1>6. RunsInv'
    BY <1>1, <1>2 DEF TInv, RunsInv, sched
<1>7. QueueInv' /\ ReadyInv'
    BY <1>1, SameTasks
<1> QED BY <1>4, <1>5, <1>6, <1>7 DEF TInv

LEMMA SwitchResetStep ==
    ASSUME TInv, SwitchReset PROVE TInv'
<1>1. /\ pc = "load" /\ pc' = "reset" /\ UNCHANGED <<mem, regs, IF_, sched, ptr, calls, moved>>
    BY DEF SwitchReset
<1>2. StackInv'
    BY <1>1, SameStack DEF TInv, regs
<1>3. PhaseInv'
    BY <1>1 DEF TInv, PhaseInv, PCs, sched
<1>4. RunsInv'
    BY <1>1 DEF TInv, RunsInv, sched
<1>5. QueueInv' /\ ReadyInv'
    BY <1>1, SameTasks
<1> QED BY <1>2, <1>3, <1>4, <1>5 DEF TInv

LEMMA TInvStep == TInv /\ [Next]_vars => TInv'
<1> SUFFICES ASSUME TInv, [Next]_vars PROVE TInv'
    OBVIOUS
<1>1. CASE UNCHANGED vars
    BY <1>1 DEF vars, regs, sched, TInv, StackInv, Top, Frame, PhaseInv, RunsInv, QueueInv, Queued,
                ReadyInv, Ready
<1>2. CASE Next
    BY <1>2, CallStep, ReturnStep, MoveStackStep, FirstTaskStep, ForkCliStep, ForkTaskStep,
       ForkWalkStep, ForkAppendStep, ForkParentStep, SwitchSaveStep, SwitchPickStep,
       SwitchLoadStep, SwitchResetStep DEF Next, Kernel, Vars
<1> QED BY <1>1, <1>2

-----------------------------------------------------------------------------
(* Theorems *)

LEMMA TaskingInvariant == Spec => []TInv
<1>1. Init => TInv
    BY InitStack, InitTasks DEF TInv
<1> QED BY <1>1, TInvStep, PTL DEF Spec

(* The registers point into the stack in use, pointers to tasks are null or *)
(* point to a task, and no process id is given twice.                       *)
THEOREM TaskingType == Spec => []TypeOK
<1>1. TInv => TypeOK
    <2> SUFFICES ASSUME TInv PROVE TypeOK
        OBVIOUS
    <2>1. esp \in DOMAIN mem /\ ebp \in DOMAIN mem
        <3>1. /\ esp = Top - 3 * Len(calls) /\ ebp = esp + 1 /\ Len(calls) >= 1
              /\ Len(calls) \in Nat /\ Top \in Nat
            BY StackTypes DEF TInv, StackInv
        <3>2. DOMAIN mem = esp .. Top - 1
            BY StackTypes DEF TInv
        <3> QED BY <3>1, <3>2
    <2>2. IF_ \in {"on", "off"} /\ pc \in PCs /\ moved \in BOOLEAN
        BY DEF TInv, PhaseInv, StackInv
    <2>3. Len(tasks) \in Nat
        BY TaskTypes DEF TInv
    <2>4. {ready_queue, current_task, ptr} \subseteq 0 .. Len(tasks)
        BY <2>3 DEF TInv, PhaseInv, RunsInv, QueueInv, Null
    <2>5. \A t \in 1 .. Len(tasks) : tasks[t].next \in 0 .. Len(tasks)
        BY <2>3 DEF TInv, QueueInv, Queued, Null
    <2> QED BY <2>1, <2>2, <2>4, <2>5 DEF TypeOK, TInv, QueueInv
<1> QED BY <1>1, TaskingInvariant, PTL

(* The frames of all calls in progress survive the move of the stack, forks *)
(* and switches.                                                            *)
THEOREM FramesStayIntact == Spec => []FramesIntact
<1>1. TInv => FramesIntact
    <2> SUFFICES ASSUME TInv, NEW k \in 1 .. Len(calls)
                 PROVE  /\ Frame(k) \in (IF moved THEN NewStack ELSE OldStack)
                        /\ {Frame(k) - 1, Frame(k), Frame(k) + 1} \subseteq DOMAIN mem
                        /\ mem[Frame(k)] = IF k < Len(calls) THEN Frame(k + 1) ELSE 0
                        /\ mem[Frame(k) + 1] = calls[k].ret
                        /\ mem[Frame(k) - 1] = Variable(calls[k].var, mem[Frame(k)])
        BY DEF FramesIntact
    <2>1. /\ Frame(k) \in esp + 1 .. Top - 2 /\ DOMAIN mem = esp .. Top - 1
          /\ esp \in Int /\ Top \in Nat /\ esp > Top - SIZE
        BY StackTypes DEF TInv, StackInv
    <2>2. {Frame(k) - 1, Frame(k), Frame(k) + 1} \subseteq DOMAIN mem
        BY <2>1
    <2>3. Frame(k) \in (IF moved THEN NewStack ELSE OldStack)
        BY <2>1, ConstantTypes DEF NewStack, OldStack, Top
    <2> QED BY <2>2, <2>3 DEF TInv, StackInv
<1> QED BY <1>1, TaskingInvariant, PTL

(* While interrupts are on, the ready queue is all tasks in order.          *)
THEOREM QueueStaysWhole == Spec => []QueueWhole
<1>1. TInv => QueueWhole
    BY DEF TInv, PhaseInv, QueueInv, Queued, QueueWhole
<1> QED BY <1>1, TaskingInvariant, PTL

(* Whatever task switch_task comes to, its registers have been stored.      *)
THEOREM TasksAreReady == Spec => []ReadyToRun
<1>1. TInv => ReadyToRun
    <2> SUFFICES ASSUME TInv, IF_ = "on",
                        NEW t \in 1 .. Len(tasks) \ {IF pc \in {"load", "back"} THEN Null ELSE current_task}
                 PROVE  Ready(t)
        BY DEF ReadyToRun, Ready
    <2>1. pc \notin {"walk", "parent"} /\ Len(tasks) \in Nat
        BY TaskTypes DEF TInv, PhaseInv
    <2>2. CASE t > 1
        BY <2>1, <2>2 DEF TInv, ReadyInv
    <2>3. CASE t = 1
        <3>1. pc \in {"load", "back", "reset"}
            BY <2>1, <2>3 DEF TInv, PhaseInv, RunsInv, Null
        <3> QED BY <2>1, <2>3, <3>1 DEF TInv, ReadyInv
    <2> QED BY <2>1, <2>2, <2>3
<1> QED BY <1>1, TaskingInvariant, PTL
=============================================================================
