----------------------------- MODULE MCConsole ------------------------------
(***************************************************************************)
(* A screen of one line of five characters, its cursor's registers two     *)
(* bits wide, a print of two characters and one of two new lines.          *)
(***************************************************************************)
EXTENDS Console

MCTexts == {<<"x", "y">>, <<NL, NL>>}
MCWelcome == <<"W", "e", "l">>
MCPressable == {"shiftL", "shiftR", "caps", "letter", "backspace", "enter"}

(* Two characters for each call, and one for each key. *)
MCLimit == (ROWS + 2) * COLUMNS + 2 * MAX_CALLS + MAX_KEYS
=============================================================================
