----------------------------- MODULE OrderedOps -----------------------------
(***************************************************************************)
(* What one call of ordered_array.c computes, as operators on sequences.   *)
(* An ordered_array_t holds pointers; less_than compares what they point   *)
(* to, so the order is a parameter `key' and is read at the time of the    *)
(* call.  The sequence position p stands for the C index p - 1.            *)
(*                                                                         *)
(* OrderedArray.tla models the C loops one iteration at a time and is      *)
(* proved to compute these operators; KHeap.tla uses them for its index.   *)
(***************************************************************************)
EXTENDS Integers, Sequences, SequencesExt

(* Slip: the predicate's arguments are swapped. *)
greater_than(key, a, b) == key[b] < key[a]

(* The predicate the kernel passes in (header_t_less_than): strict order of *)
(* the keys.                                                                *)
less_than(key, a, b) == key[a] < key[b]

(* p is where the scan loop of insert_ordered_array stops: the first        *)
(* element that is not less than the item, or one past the last.            *)
StopsAt(p, item, array, key) ==
    /\ p \in 1 .. Len(array) + 1
    /\ \A q \in 1 .. p - 1 : less_than(key, array[q], item)
    /\ p <= Len(array) => ~ less_than(key, array[p], item)

insert_ordered_array(item, array, key) ==
    InsertAt(array, CHOOSE p \in 1 .. Len(array) + 1 : StopsAt(p, item, array, key), item)

remove_ordered_array(p, array) == RemoveAt(array, p)

lookup_ordered_array(p, array) == array[p]

(* "This array is insertion sorted - it always remains in a sorted state    *)
(* (between calls)." (ordered_array.h:9)                                    *)
Ascending(array, key) ==
    \A p, q \in 1 .. Len(array) : p < q => key[array[p]] <= key[array[q]]
=============================================================================
