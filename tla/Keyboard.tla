------------------------------ MODULE Keyboard ------------------------------
(***************************************************************************)
(* keyboard.c: what a scan code does to the shift and caps lock flags and  *)
(* which character it stands for.  A scan code is a key and whether it was *)
(* released (bit 7); one key stands for each kind of entry of the two      *)
(* tables kbdus1 and kbdus2.                                               *)
(***************************************************************************)
EXTENDS Integers, Sequences

Keys  == {"shiftL", "shiftR", "caps", "letter", "digit", "enter", "backspace", "space"}
Codes == [key : Keys, up : BOOLEAN]

NUL  == "NUL"
NL   == "NL"
BS   == "BS"
JUNK == "JUNK"     \* 32 below a character that is no lower case letter

Flags == [CapLocks : BOOLEAN, ShiftL : BOOLEAN, ShiftR : BOOLEAN]
Shifted(f) == f.ShiftL \/ f.ShiftR

kbdus1 == [k \in Keys |-> CASE k = "letter" -> "a" [] k = "digit" -> "1" [] k = "enter" -> NL
                            [] k = "backspace" -> BS [] k = "space" -> " " [] OTHER -> NUL]

kbdus2 == [kbdus1 EXCEPT !["letter"] = "A", !["digit"] = "!"]

(* character - 32, whatever the character is: a space becomes 0. *)
toUpperCase(c) == IF c = "a" THEN "A" ELSE IF c \in {" ", NUL} THEN NUL ELSE JUNK

(* Slip: a released left shift is taken for the right one. *)
FlagsAfterSwapped(code, f) ==
    CASE code.key = "caps" /\ code.up -> [f EXCEPT !.CapLocks = ~ @]
      [] code.key = "shiftL" -> IF code.up THEN [f EXCEPT !.ShiftR = FALSE]
                                ELSE [f EXCEPT !.ShiftL = TRUE]
      [] code.key = "shiftR" -> [f EXCEPT !.ShiftR = ~ code.up]
      [] OTHER -> f

(* convertToAscii, the flags: caps lock toggles when its key is released.   *)
FlagsAfter(code, f) ==
    CASE code.key = "caps" /\ code.up -> [f EXCEPT !.CapLocks = ~ @]
      [] code.key = "shiftL" -> [f EXCEPT !.ShiftL = ~ code.up]
      [] code.key = "shiftR" -> [f EXCEPT !.ShiftR = ~ code.up]
      [] OTHER -> f

(* convertToAscii, the character returned. *)
convertToAscii(code, f) ==
    IF code.up THEN NUL
    ELSE IF Shifted(f) THEN kbdus2[code.key]
    ELSE IF f.CapLocks THEN toUpperCase(kbdus1[code.key])
    ELSE kbdus1[code.key]
=============================================================================
