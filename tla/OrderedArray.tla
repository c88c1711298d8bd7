---------------------------- MODULE OrderedArray ----------------------------
(***************************************************************************)
(* ordered_array.c, one loop iteration per step.  The C array has MaxSize  *)
(* slots; slot MaxSize is the word behind it, which remove_ordered_array   *)
(* reads when the array is full.  Nothing in the code compares size with   *)
(* max_size: keeping the array from overflowing is up to the owner, so the *)
(* guard size < MaxSize of InsertItem is the owner's obligation.               *)
(***************************************************************************)
EXTENDS OrderedOps

CONSTANTS Items, Keys, MaxSize,
          NULL       \* the zero word memset leaves in a slot

ASSUME SizeAssumption == MaxSize \in Nat \ {0}
ASSUME KeysAssumption == Keys \subseteq Int

VARIABLES array,     \* the slots
          size,      \* array->size
          key,       \* what less_than reads through each pointer
          pc,        \* the loop in progress, or "idle" between calls
          iterator,  \* loop variable of the call in progress (i of remove)
          item,      \* argument of the insertion in progress
          tmp        \* the displaced item the shift loop carries

vars == <<array, size, key, pc, iterator, item, tmp>>

Slots == 0 .. MaxSize
Words == Items \cup {NULL}

(* place_ordered_array: the array is zeroed, what lies behind it is not.    *)
Init ==
    /\ array \in {a \in [Slots -> Words] : \A s \in 0 .. MaxSize - 1 : a[s] = NULL}
    /\ size = 0
    /\ key \in [Items -> Keys]
    /\ pc = "idle"
    /\ iterator = 0
    /\ item = NULL
    /\ tmp = NULL

-----------------------------------------------------------------------------
(* insert_ordered_array *)

InsertItem(it) ==
    /\ pc = "idle"
    /\ size < MaxSize
    /\ pc' = "scan" /\ item' = it /\ iterator' = 0
    /\ UNCHANGED <<array, size, key, tmp>>

Scan ==
    /\ pc = "scan"
    /\ iterator < size
    /\ less_than(key, array[iterator], item)
    /\ iterator' = iterator + 1
    /\ UNCHANGED <<array, size, key, pc, item, tmp>>

PutLast ==
    /\ pc = "scan"
    /\ iterator = size
    /\ array' = [array EXCEPT ![size] = item]
    /\ size' = size + 1
    /\ pc' = "idle"
    /\ UNCHANGED <<key, iterator, item, tmp>>

(* Slip: the displaced item is not saved. *)
DisplaceLoses ==
    /\ pc = "scan"
    /\ iterator < size
    /\ ~ less_than(key, array[iterator], item)
    /\ array' = [array EXCEPT ![iterator] = item]
    /\ pc' = "shift"
    /\ UNCHANGED <<size, key, iterator, item, tmp>>

Displace ==
    /\ pc = "scan"
    /\ iterator < size
    /\ ~ less_than(key, array[iterator], item)
    /\ tmp' = array[iterator]
    /\ array' = [array EXCEPT ![iterator] = item]
    /\ pc' = "shift"
    /\ UNCHANGED <<size, key, iterator, item>>

(* Slip: the loop condition lets the shift run one slot too far. *)
ShiftTooFar ==
    /\ pc = "shift"
    /\ iterator <= size
    /\ iterator < MaxSize
    /\ iterator' = iterator + 1
    /\ tmp' = array[iterator + 1]
    /\ array' = [array EXCEPT ![iterator + 1] = tmp]
    /\ UNCHANGED <<size, key, pc, item>>

Shift ==
    /\ pc = "shift"
    /\ iterator < size
    /\ iterator' = iterator + 1
    /\ tmp' = array[iterator + 1]
    /\ array' = [array EXCEPT ![iterator + 1] = tmp]
    /\ UNCHANGED <<size, key, pc, item>>

ShiftDone ==
    /\ pc = "shift"
    /\ iterator >= size
    /\ size' = size + 1
    /\ pc' = "idle"
    /\ UNCHANGED <<array, key, iterator, item, tmp>>

-----------------------------------------------------------------------------
(* remove_ordered_array *)

(* Slip: a position past the end is accepted. *)
RemoveItemPast(i) ==
    /\ pc = "idle"
    /\ pc' = "remove" /\ iterator' = i
    /\ UNCHANGED <<array, size, key, item, tmp>>

RemoveItem(i) ==
    /\ pc = "idle"
    /\ i < size
    /\ pc' = "remove" /\ iterator' = i
    /\ UNCHANGED <<array, size, key, item, tmp>>

(* Slip: the loop variable is not advanced. *)
CloseStuck ==
    /\ pc = "remove"
    /\ iterator < size
    /\ array' = [array EXCEPT ![iterator] = array[iterator + 1]]
    /\ UNCHANGED <<size, key, pc, iterator, item, tmp>>

Close ==
    /\ pc = "remove"
    /\ iterator < size
    /\ array' = [array EXCEPT ![iterator] = array[iterator + 1]]
    /\ iterator' = iterator + 1
    /\ UNCHANGED <<size, key, pc, item, tmp>>

CloseDone ==
    /\ pc = "remove"
    /\ iterator >= size
    /\ size' = size - 1
    /\ pc' = "idle"
    /\ UNCHANGED <<array, key, iterator, item, tmp>>

-----------------------------------------------------------------------------
(* Between calls the owner writes through the pointers: expand, split and   *)
(* unify in kheap.c assign header->size of headers the index holds.         *)
Rekey(it, k) ==
    /\ pc = "idle"
    /\ key' = [key EXCEPT ![it] = k]
    /\ UNCHANGED <<array, size, pc, iterator, item, tmp>>

Loop == Scan \/ PutLast \/ Displace \/ Shift \/ ShiftDone \/ Close \/ CloseDone

Next ==
    \/ \E it \in Items : InsertItem(it)
    \/ \E i \in 0 .. MaxSize - 1 : RemoveItem(i)
    \/ \E it \in Items, k \in Keys : Rekey(it, k)
    \/ Loop

Spec == Init /\ [][Next]_vars

(* A call that has begun runs on: the kernel is single threaded and nothing *)
(* in the loops blocks.                                                     *)
FairSpec == Spec /\ WF_vars(Loop)

-----------------------------------------------------------------------------
(* The types.  The size stays within max_size and the loops' index within   *)
(* the array.                                                               *)
TypeOK ==
    /\ array \in [Slots -> Words]
    /\ size \in 0 .. MaxSize
    /\ key \in [Items -> Keys]
    /\ pc \in {"idle", "scan", "shift", "remove"}
    /\ iterator \in 0 .. MaxSize
    /\ item \in Words
    /\ tmp \in Words

(* The sequence the array stands for.  An insertion takes effect when the   *)
(* scan loop has found its place, a removal when it is called; until the    *)
(* loop has moved the rest, the carried item and the gap are accounted for. *)
Held(j) ==
    IF pc = "shift"
    THEN IF j <= iterator THEN array[j] ELSE IF j = iterator + 1 THEN tmp ELSE array[j - 1]
    ELSE IF pc = "remove"
    THEN IF j < iterator THEN array[j] ELSE array[j + 1]
    ELSE array[j]

HeldSize ==
    IF pc = "shift" THEN size + 1 ELSE IF pc = "remove" THEN size - 1 ELSE size

Contents == [p \in 1 .. HeldSize |-> Held(p - 1)]

(* What the loops keep: the scan has passed only smaller elements, a call   *)
(* never runs past the end it started with, and the array loses no item     *)
(* and gains none while it is being shifted.                                *)
LoopInv ==
    /\ TypeOK
    /\ pc = "scan" => /\ item \in Items /\ size < MaxSize /\ iterator <= size
                      /\ \A j \in 0 .. iterator - 1 : less_than(key, array[j], item)
    /\ pc = "shift" => size < MaxSize /\ iterator <= size
    /\ pc = "remove" => 0 < size /\ iterator <= size
    /\ \A j \in 0 .. HeldSize - 1 : Held(j) \in Items

Abs == INSTANCE OrderedArraySpec WITH seq <- Contents

(* The loops implement the calls: every insertion puts the item in front of *)
(* the first element that is not less than it and keeps all the others,     *)
(* every removal drops exactly the element asked for.                       *)
ImplementsCalls == Abs!Spec

(* No step of the code unsorts the array (ordered_array.h:9): only the      *)
(* owner, by changing a key behind the array's back, can.                   *)
OnlyRekeyUnsorts ==
    [][key' = key /\ Ascending(Contents, key) => Ascending(Contents, key)']_vars

(* The shifts of insert and remove never write the word behind the array,   *)
(* although both loops touch array[size].                                   *)
StaysInside == [][array'[MaxSize] = array[MaxSize]]_vars

(* Every call of insert_ordered_array and remove_ordered_array returns: each*)
(* of their loops gets to its end.                                          *)
CallsReturn == (pc # "idle") ~> (pc = "idle")
=============================================================================
