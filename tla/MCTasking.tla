----------------------------- MODULE MCTasking ------------------------------
(***************************************************************************)
(* Stacks of thirteen words: kmain and three more calls, or two and one of *)
(* task.c.                                                                 *)
(***************************************************************************)
EXTENDS Tasking

MCLabels == {5, 101}
=============================================================================
