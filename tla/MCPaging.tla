------------------------------ MODULE MCPaging ------------------------------
(***************************************************************************)
(* 6 entries in a table and 6 tables: the identity mapping needs two of    *)
(* them, so it makes a table while it runs; the heap starts in the third   *)
(* and may grow into the fourth; the new stack starts a table and reaches  *)
(* down into the one before, as it does at 0xE0000000.                     *)
(***************************************************************************)
EXTENDS Paging

(* Frames memset did not mark free, more or fewer than the forks need. *)
MCStale == {12 .. 31, 11 .. 34}
NoStale == {{}}
=============================================================================
