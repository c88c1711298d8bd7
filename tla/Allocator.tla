----------------------------- MODULE Allocator ------------------------------
(***************************************************************************)
(* What kheap.h promises the kernel: alloc gives out "a contiguous region  *)
(* of memory 'size' in size", page aligned when asked, that no other       *)
(* region the client still holds shares; free "releases a block allocated  *)
(* with 'alloc'".  The heap may give up for want of memory.                *)
(***************************************************************************)
EXTENDS Integers, Sequences, SequencesExt

CONSTANTS Base,      \* the first address of the heap
          PAGE       \* words in a page

VARIABLES live,      \* the blocks the client holds, oldest first
          top,       \* the heap occupies Base .. top - 1
          stop       \* "no", "oom" (refused to grow), "assert" or "fault"

vars == <<live, top, stop>>

Region(b) == b.ptr .. b.ptr + b.size - 1

Disjoint(b, c) == Region(b) \cap Region(c) = {}

Init == live = << >> /\ stop = "no"

(* The heap may grow first, and must if no free region is large enough.     *)
Extend == top' > top /\ UNCHANGED <<live, stop>>

Alloc ==
    /\ live' # << >>
    /\ LET b == Last(live') IN
        /\ live' = Append(live, b)
        /\ Region(b) \subseteq Base .. top - 1
        /\ b.align => b.ptr % PAGE = 0
        /\ \A i \in DOMAIN live : Disjoint(b, live[i])
        /\ UNCHANGED <<top, stop>>

(* The heap may shrink, never below what is still held.                     *)
Free ==
    /\ \E i \in DOMAIN live : live' = RemoveAt(live, i)
    /\ top' <= top
    /\ \A i \in DOMAIN live' : Region(live'[i]) \subseteq Base .. top' - 1
    /\ UNCHANGED stop

GiveUp == stop' = "oom" /\ UNCHANGED live

Next == stop = "no" /\ (Extend \/ Alloc \/ Free \/ GiveUp)

Spec == Init /\ [][Next]_vars
=============================================================================
