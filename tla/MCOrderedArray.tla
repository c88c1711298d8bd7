--------------------------- MODULE MCOrderedArray ---------------------------
(* Three items with keys 0..2 and an array of three slots: full, empty,     *)
(* equal keys and every insertion point occur.                              *)
EXTENDS OrderedArray

MCKeys == 0 .. 2
=============================================================================
