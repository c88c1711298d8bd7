---------------------------- MODULE MCFileSystem ----------------------------
(***************************************************************************)
(* All ramdisks of up to three files with these names: two can be told     *)
(* apart from all others, two have the same four bytes, one is too short   *)
(* for strcmp and one is dev.  The second file is empty.                   *)
(***************************************************************************)
EXTENDS FileSystem

Names == {<<"a", "b", "c">>, <<"x", "y", "z", "z">>, <<"a", "b", "c", "d", "e">>,
          <<"a", "b", "c", "d", "f">>, <<"a">>, Dev}
Lengths == <<3, 0, 2>>
Offsets == <<1, 4, 4>>
MCDisks == UNION {[1 .. n -> Names] : n \in 0 .. 3}
Disk(names) == [i \in DOMAIN names |-> [name |-> names[i], offset |-> Offsets[i], length |-> Lengths[i]]]
MCAllDisks == {Disk(names) : names \in MCDisks}
=============================================================================
