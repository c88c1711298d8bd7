-------------------------- MODULE OrderedArraySpec --------------------------
(***************************************************************************)
(* What an ordered array promises its owner: the calls act atomically on a *)
(* sequence of items.  The owner may change the key of an item in between  *)
(* (kheap.c rewrites the size in the headers its index points to).         *)
(***************************************************************************)
EXTENDS OrderedOps

CONSTANTS Items,     \* the pointers that may be stored
          Keys,      \* what less_than compares
          MaxSize    \* max_size of the ordered_array_t

VARIABLES seq,       \* array[0 .. size-1]
          key        \* the key each item has now

vars == <<seq, key>>

Init == seq = << >> /\ key \in [Items -> Keys]

InsertItem(item) ==
    /\ Len(seq) < MaxSize
    /\ seq' = insert_ordered_array(item, seq, key)
    /\ UNCHANGED key

RemoveItem(p) ==
    /\ p \in 1 .. Len(seq)
    /\ seq' = remove_ordered_array(p, seq)
    /\ UNCHANGED key

Rekey(item, k) ==
    /\ key' = [key EXCEPT ![item] = k]
    /\ UNCHANGED seq

Next ==
    \/ \E item \in Items : InsertItem(item)
    \/ \E p \in 1 .. MaxSize : RemoveItem(p)
    \/ \E item \in Items, k \in Keys : Rekey(item, k)

Spec == Init /\ [][Next]_vars
=============================================================================
