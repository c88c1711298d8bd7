------------------------------ MODULE Numerals ------------------------------
(***************************************************************************)
(* Numbers as text: ui2a and i2a of printf.c.  A word has WORD values, its *)
(* upper half the negative ones.                                           *)
(***************************************************************************)
EXTENDS Integers, Sequences

CONSTANT WORD   \* 2^32

ASSUME WordAssumption == WORD \in Nat \ {0} /\ WORD % 2 = 0

Lower == <<"0", "1", "2", "3", "4", "5", "6", "7", "8", "9", "a", "b", "c", "d", "e", "f">>
Upper == <<"0", "1", "2", "3", "4", "5", "6", "7", "8", "9", "A", "B", "C", "D", "E", "F">>

(* The first loop: the power of base the first digit counts.                *)
TopPower(num, base) ==
    LET Power[d \in 1 .. WORD] == IF num \div d >= base THEN Power[d * base] ELSE d
    IN  Power[1]

(* The second loop: a digit for every power from there down, but for zeros  *)
(* in front.  n says that a digit was put.                                  *)
ui2a(num, base, digits) ==
    LET From[s \in [rest : 0 .. WORD - 1, d : 1 .. WORD, n : BOOLEAN]] ==
            LET dgt == s.rest \div s.d
                put == s.n \/ dgt > 0 \/ s.d \div base = 0
            IN  (IF put THEN <<digits[dgt + 1]>> ELSE << >>)
                \o IF s.d \div base = 0 THEN << >>
                   ELSE From[[rest |-> s.rest % s.d, d |-> s.d \div base, n |-> put]]
    IN  From[[rest |-> num, d |-> TopPower(num, base), n |-> FALSE]]

Negative(num) == num >= WORD \div 2

(* -num of the least number is that number again, which as an unsigned one  *)
(* is what it should be.                                                    *)
i2a(num) ==
    IF Negative(num) THEN <<"-">> \o ui2a((WORD - num) % WORD, 10, Lower) ELSE ui2a(num, 10, Lower)

(* The powers of base, to say how many digits a word has.                   *)
Powers(base) ==
    LET P[i \in 0 .. WORD] == IF i = 0 THEN 1 ELSE base * P[i - 1]
    IN  P
=============================================================================
