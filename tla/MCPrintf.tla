------------------------------ MODULE MCPrintf ------------------------------
(***************************************************************************)
(* Words of eight bits: -128 with its terminator fills a buffer of five as *)
(* -2147483648 fills one of twelve.  Of the widths one is the largest, one *)
(* wraps to a negative number and one to a small one.                      *)
(***************************************************************************)
EXTENDS Printf

MCArgs == 0 .. WORD - 1
MCStrings == {<< >>, <<"o", "k">>, <<"p", "a", "n", "i", "c">>}
MCChar(code) == IF code = 0 THEN NUL ELSE "ch"

Flags == {<< >>, <<"0">>, <<"1">>, <<"3">>, <<"0", "4">>, <<"1", "0">>, <<"0", "1", "1">>}
One == {<<"%">> \o f \o <<c>> : f \in Flags, c \in {"u", "d", "x", "X", "c", "s", "%", "q"}}
Cut == {<<"%">> \o f : f \in Flags}
MCFormats == One \cup Cut \cup {<<"z">> \o f \o <<"z">> : f \in One \cup {<< >>}}
    \cup {<<"%", "1", "a", "s">>, <<"%", "s", "%", "s">>, <<"%", "s", " ", "%", "4">>, <<"%", "0">> \o <<"s", "%", "%">>}
    \cup {<<"%", "1", "2", "7", "s">>, <<"%", "1", "2", "8", "d">>, <<"%", "0", "2", "6", "0", "u">>}
    \cup {<<"d", "1", "0", "%", "s">>, <<"%", "%", "d">>, <<"%", "A", "s">>, <<"%", "0", "0", "A", "s", "x">>}
=============================================================================
