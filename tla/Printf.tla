------------------------------- MODULE Printf -------------------------------
(***************************************************************************)
(* tfp_format of printf.c: a format is read character by character, its    *)
(* conversions take an argument each.  PRINTF_LONG_SUPPORT is not defined. *)
(* The arguments fit the conversions; what they are is open.               *)
(***************************************************************************)
EXTENDS Numerals

NUL == "nul"

CONSTANTS BUF,        \* the size of bf: 12
          Formats,    \* what is passed to printf and sprintf
          Args,       \* arguments of %d, %u, %x, %X and %c (a character's code)
          Strings,    \* arguments of %s
          Char(_)     \* the character with a code

(* A format ends at its first NUL. *)
ASSUME FormatsAssumption ==
    Formats \subseteq Seq(STRING) /\ \A f \in Formats : \A i \in 1 .. Len(f) : f[i] # NUL
ASSUME ArgsAssumption == Args \subseteq 0 .. WORD - 1 /\ Strings \subseteq Seq(STRING)
(* bf has room for the digits of a word, a sign and the terminator.         *)
ASSUME BufAssumption == BUF \in Nat /\ BUF - 2 \in 1 .. WORD /\ WORD <= Powers(10)[BUF - 2]

VARIABLES
    fmt, at,     \* the format, and the place read next
    sprintf,     \* called through sprintf, which ends the text with a NUL
    pc, ch,      \* where in tfp_format, and its local ch
    lz, w,       \* its locals: zero padding, width
    bf,          \* the text of the number converted last
    out,         \* what putf was given
    shown        \* the conversions done: their argument and what was put for it

vars == <<fmt, at, sprintf, pc, ch, lz, w, bf, out, shown>>

Init ==
    /\ fmt \in Formats /\ at = 1 /\ sprintf \in BOOLEAN
    /\ pc = "text" /\ ch = NUL
    /\ lz = FALSE /\ w = 0 /\ bf = << >>
    /\ out = << >> /\ shown = << >>

(* *fmt, with whatever lies behind the terminator.                          *)
At(i) == IF i \in 1 .. Len(fmt) THEN fmt[i] ELSE NUL

-----------------------------------------------------------------------------
(* The outer loop *)

Plain ==
    /\ pc = "text" /\ At(at) \notin {NUL, "%"}
    /\ at' = at + 1 /\ out' = Append(out, At(at))
    /\ UNCHANGED <<fmt, sprintf, pc, ch, lz, w, bf, shown>>

(* After the %: a 0 asks for zero padding.                                  *)
Percent ==
    LET zero == At(at + 1) = "0"
        last == IF zero THEN at + 2 ELSE at + 1
    IN  /\ pc = "text" /\ At(at) = "%"
        /\ lz' = zero /\ w' = 0
        /\ ch' = At(last) /\ at' = last + 1
        /\ pc' = IF At(last) \in {Lower[d] : d \in 1 .. 10} THEN "width" ELSE "convert"
        /\ UNCHANGED <<fmt, sprintf, bf, out, shown>>

(* -1 for what is no digit *)
a2d(c) ==
    IF \E d \in 1 .. 16 : c \in {Lower[d], Upper[d]}
    THEN (CHOOSE d \in 1 .. 16 : c \in {Lower[d], Upper[d]}) - 1 ELSE -1

(* Slip: hexadecimal digits are taken for part of the width. *)
InWidthHex(digit) == digit >= 0

(* Goes on with a2i's loop: digit > base leaves it.                         *)
InWidth(digit) == digit >= 0 /\ ~ digit > 10

(* a2i.  num is an int: too long a width wraps, as compiled without         *)
(* optimisation.                                                            *)
Width ==
    /\ pc = "width" /\ InWidth(a2d(ch))
    /\ w' = (w * 10 + a2d(ch)) % WORD
    /\ ch' = At(at) /\ at' = at + 1
    /\ UNCHANGED <<fmt, sprintf, pc, lz, bf, out, shown>>

WidthDone ==
    /\ pc = "width" /\ ~ InWidth(a2d(ch))
    /\ pc' = "convert"
    /\ UNCHANGED <<fmt, at, sprintf, ch, lz, w, bf, out, shown>>

-----------------------------------------------------------------------------
(* The switch *)

(* Slip: the width is what is put in front. *)
putchwAll(n, z, text) == [i \in 1 .. n |-> IF z THEN "0" ELSE " "] \o text

(* What putchw puts: text behind as much padding as there is room for.      *)
(* A negative width has none.                                               *)
Pads(n, text) == IF ~ Negative(n) /\ n > Len(text) THEN n - Len(text) ELSE 0
putchw(n, z, text) == [i \in 1 .. Pads(n, text) |-> IF z THEN "0" ELSE " "] \o text

Puts(text, arg) ==
    /\ out' = out \o text
    /\ shown' = Append(shown, [conv |-> ch, arg |-> arg, w |-> w, lz |-> lz, text |-> text])
    /\ pc' = "text"
    /\ UNCHANGED <<fmt, at, sprintf, ch, lz, w>>

(* Slip: the padding is put in bf. *)
NumberPadded(conv, text, num) ==
    /\ pc = "convert" /\ ch = conv
    /\ bf' = putchw(w, lz, text)
    /\ Puts(putchw(w, lz, text), num)

Number(conv, text, num) ==
    /\ pc = "convert" /\ ch = conv
    /\ bf' = text
    /\ Puts(putchw(w, lz, text), num)

ConvertU == \E num \in Args : Number("u", ui2a(num, 10, Lower), num)
ConvertD == \E num \in Args : Number("d", i2a(num), num)
ConvertX == \E num \in Args : Number("x", ui2a(num, 16, Lower), num) \/ Number("X", ui2a(num, 16, Upper), num)
ConvertC == \E code \in Args : pc = "convert" /\ ch = "c" /\ Puts(<<Char(code)>>, code) /\ bf' = bf
ConvertS == \E s \in Strings : pc = "convert" /\ ch = "s" /\ Puts(putchw(w, FALSE, s), s) /\ bf' = bf

(* %% puts a %, what is no conversion is left out.                          *)
ConvertOther ==
    /\ pc = "convert" /\ ch \notin {NUL, "u", "d", "x", "X", "c", "s"}
    /\ out' = IF ch = "%" THEN Append(out, ch) ELSE out
    /\ pc' = "text"
    /\ UNCHANGED <<fmt, at, sprintf, ch, lz, w, bf, shown>>

(* Both ways out: the terminator, and the terminator after a %.  putcp(&s,0)*)
Returns ==
    /\ out' = IF sprintf THEN Append(out, NUL) ELSE out
    /\ pc' = "done"
    /\ UNCHANGED <<fmt, sprintf, ch, lz, w, bf, shown>>

End == pc = "text" /\ At(at) = NUL /\ at' = at + 1 /\ Returns

(* Slip: the terminator is a conversion like any other. *)
AbortNot ==
    /\ pc = "convert" /\ ch = NUL
    /\ pc' = "text"
    /\ UNCHANGED <<fmt, at, sprintf, ch, lz, w, bf, out, shown>>

Abort == pc = "convert" /\ ch = NUL /\ at' = at /\ Returns

Next == \/ Plain \/ Percent \/ Width \/ WidthDone
        \/ ConvertU \/ ConvertD \/ ConvertX \/ ConvertC \/ ConvertS \/ ConvertOther
        \/ End \/ Abort

Spec == Init /\ [][Next]_vars

-----------------------------------------------------------------------------
(* Properties *)

(* The types.  The text of any number fits bf with its terminator (i2a: the *)
(* least number fills it).                                                  *)
TypeOK ==
    /\ pc \in {"text", "width", "convert", "done"}
    /\ w \in 0 .. WORD - 1 /\ lz \in BOOLEAN
    /\ Len(bf) + 1 <= BUF

(* tfp_format reads the format up to its terminator and not a character     *)
(* further, also where the terminator follows a %, a 0 or a width.          *)
FormatInside == at <= Len(fmt) + 2 /\ (at = Len(fmt) + 2 => pc # "text")

(* A text of digits read back, without reference to how ui2a makes them.    *)
Value(text, base) ==
    LET V[i \in 0 .. Len(text)] == IF i = 0 THEN 0 ELSE V[i - 1] * base + a2d(text[i])
    IN  V[Len(text)]

(* What follows the padding p of s.text. *)
Rest(s, p) == SubSeq(s.text, p + 1, Len(s.text))
Padding(s, p) == \A i \in 1 .. p : s.text[i] = IF s.lz /\ s.conv # "s" THEN "0" ELSE " "

(* t is the argument of s in full, and in its shortest form.                *)
Denotes(s, t) ==
    LET neg == s.conv = "d" /\ Negative(s.arg)
        num == IF neg THEN Tail(t) ELSE t
        base == IF s.conv \in {"x", "X"} THEN 16 ELSE 10
    IN  CASE s.conv = "s" -> t = s.arg
          [] s.conv = "c" -> t = <<Char(s.arg)>>
          [] OTHER ->
               /\ t # << >> /\ (neg <=> t[1] = "-") /\ num # << >>
               /\ \A i \in 1 .. Len(num) : a2d(num[i]) \in 0 .. base - 1
               /\ num[1] = "0" => Len(num) = 1
               /\ Value(num, base) = IF neg THEN WORD - s.arg ELSE s.arg

(* Padding up to the width and no further (%c knows no width, and a width   *)
(* that has wrapped below 0 is none), and then the argument.                *)
FieldExact(s) ==
    \E p \in 0 .. Len(s.text) :
      /\ Padding(s, p) /\ Denotes(s, Rest(s, p))
      /\ p > 0 => ~ Negative(s.w) /\ Len(s.text) = s.w
      /\ s.conv # "c" /\ ~ Negative(s.w) => Len(s.text) >= s.w

(* Every conversion puts its argument in full: read back, the text is the   *)
(* number, for the least and the greatest word too, behind the padding that *)
(* brings it to the width (ui2a, i2a, putchw).                              *)
FieldsExact == \A k \in 1 .. Len(shown) : FieldExact(shown[k])

(* The formats, without reference to how tfp_format reads them: a %, a 0 or *)
(* none, a width or none, and a letter.  An a is part of a width, since a2i *)
(* takes the digit 10.                                                      *)
Goes(in, c) ==
    CASE in = "text"                  -> IF c = "%" THEN "percent" ELSE "text"
      [] in = "percent" /\ c = "0"    -> "zero"
      [] in \in {"percent", "zero"} /\ ~ (in = "percent" /\ c = "0") ->
            IF c \in {Lower[d] : d \in 1 .. 10} THEN "width" ELSE "text"
      [] in = "width"                 -> IF c \in {Lower[d] : d \in 1 .. 11} \cup {"A"} THEN "width" ELSE "text"

(* One more character of the format: n conversions are done, and r is put.  *)
Scanned(s, c, done) ==
    LET converts == s.in # "text" /\ c \in {"u", "d", "x", "X", "c", "s"}
    IN  [in |-> Goes(s.in, c),
         n  |-> IF converts THEN s.n + 1 ELSE s.n,
         r  |-> IF converts THEN IF s.n < Len(done) THEN s.r \o done[s.n + 1].text ELSE s.r
                ELSE IF s.in = "text" <=> c # "%" THEN Append(s.r, c) ELSE s.r]

Scan(f, done) ==
    LET R[i \in 0 .. Len(f)] ==
            IF i = 0 THEN [in |-> "text", n |-> 0, r |-> << >>] ELSE Scanned(R[i - 1], f[i], done)
    IN  R

(* When it returns, what was put is the format with each conversion replaced*)
(* by its own text, in order: no letter that asks for one is taken for part *)
(* of a width (a2i), none is left out and no other is converted.            *)
TextsInOrder ==
    pc = "done" =>
      LET R == Scan(fmt, shown)
          L == Len(fmt)
      IN  /\ Len(shown) = R[L].n
          /\ \A i \in 1 .. L : R[i].n > R[i - 1].n => shown[R[i].n].conv = fmt[i]
          /\ out = IF sprintf THEN Append(R[L].r, NUL) ELSE R[L].r
=============================================================================
