---------------------------- MODULE PrintfProofs ----------------------------
(***************************************************************************)
(* Proofs about tfp_format, for every format and every argument: although  *)
(* it looks ahead at up to three places and reads on where a2i stopped it  *)
(* never reads past the end of its format, every number fits bf, every     *)
(* conversion puts its argument in full, and what is put is the format     *)
(* with each conversion replaced by its text.                              *)
(***************************************************************************)
EXTENDS Printf, NumeralsProofs

(* Between conversions the place read next is in the format or at its       *)
(* terminator; inside one, ch is the character in front of it.              *)
FormatInv ==
    /\ Len(fmt) \in Nat
    /\ pc \in {"text", "width", "convert", "done"}
    /\ pc = "text" => at \in 1 .. Len(fmt) + 1
    /\ pc # "text" => at \in 1 .. Len(fmt) + 2
    /\ pc \in {"width", "convert"} => ch = At(at - 1)

(* The terminator is no digit. *)
LEMMA NulIsNoDigit == ~ InWidth(a2d(NUL))
<1>1. \A d \in 1 .. 16 : Lower[d] # NUL /\ Upper[d] # NUL
    <2> TAKE d \in 1 .. 16
    <2>1. d \in {1, 2, 3, 4, 5, 6, 7, 8, 9, 10, 11, 12, 13, 14, 15, 16}
        OBVIOUS
    <2> QED BY <2>1 DEF Lower, Upper, NUL
<1>2. a2d(NUL) = -1
    BY <1>1 DEF a2d
<1> QED BY <1>2 DEF InWidth

(* What is not the terminator is in the format. *)
LEMMA NotNul ==
    ASSUME Len(fmt) \in Nat, NEW i \in Int, At(i) # NUL
    PROVE  i \in 1 .. Len(fmt)
BY DEF At

LEMMA InitFormat == Init => FormatInv
<1> SUFFICES ASSUME Init PROVE FormatInv
    OBVIOUS
<1>1. Len(fmt) \in Nat
    BY FormatsAssumption DEF Init
<1> QED BY <1>1 DEF Init, FormatInv

LEMMA NextFormat == FormatInv /\ [Next]_vars => FormatInv'
<1> SUFFICES ASSUME FormatInv, [Next]_vars PROVE FormatInv'
    OBVIOUS
<1>0. Len(fmt) \in Nat /\ at \in Int /\ at >= 1 /\ at <= Len(fmt) + 2
    BY DEF FormatInv
<1>1. fmt' = fmt /\ \A n : At(n)' = At(n)
    BY DEF Next, Plain, Percent, Width, WidthDone, ConvertU, ConvertD, ConvertX, ConvertC, ConvertS,
           ConvertOther, End, Abort, Number, Puts, Returns, vars, At
<1>2. CASE Plain
    <2>1. pc = "text" /\ pc' = pc /\ at' = at + 1 /\ At(at) # NUL
        BY <1>2 DEF Plain
    <2>2. at \in 1 .. Len(fmt)
        BY <1>0, <2>1, NotNul
    <2> QED BY <1>0, <1>1, <2>1, <2>2 DEF FormatInv
<1>3. CASE Percent
    <2> DEFINE last == IF At(at + 1) = "0" THEN at + 2 ELSE at + 1
    <2>1. /\ At(at) = "%" /\ ch' = At(last) /\ at' = last + 1
          /\ pc' \in {"width", "convert"}
        BY <1>3 DEF Percent
    <2>2. at \in 1 .. Len(fmt)
        BY <1>0, <2>1, NotNul DEF NUL
    <2>3. At(at + 1) = "0" => at + 1 \in 1 .. Len(fmt)
        BY <1>0, NotNul DEF NUL
    <2>4. last \in Int /\ last >= 2 /\ last <= Len(fmt) + 1
        BY <1>0, <2>2, <2>3
    <2> HIDE DEF last
    <2>5. at' - 1 = last /\ at' \in 1 .. Len(fmt) + 2
        BY <1>0, <2>1, <2>4
    <2> QED BY <1>0, <1>1, <2>1, <2>5 DEF FormatInv
<1>4. CASE Width
    <2>1. /\ pc = "width" /\ pc' = "width" /\ InWidth(a2d(ch)) /\ ch' = At(at) /\ at' = at + 1
        BY <1>4 DEF Width
    <2>2. At(at - 1) # NUL
        BY <2>1, NulIsNoDigit DEF FormatInv
    <2>3. at - 1 \in 1 .. Len(fmt)
        BY <1>0, <2>2, NotNul
    <2>4. at' - 1 = at /\ at' \in 1 .. Len(fmt) + 2
        BY <1>0, <2>1, <2>3
    <2> QED BY <1>0, <1>1, <2>1, <2>4 DEF FormatInv
<1>5. CASE WidthDone
    BY <1>0, <1>1, <1>5 DEF WidthDone, FormatInv
<1>6. CASE ConvertU \/ ConvertD \/ ConvertX \/ ConvertC \/ ConvertS \/ ConvertOther
    <2>1. pc = "convert" /\ pc' = "text" /\ at' = at /\ ch # NUL
        BY <1>6 DEF ConvertU, ConvertD, ConvertX, ConvertC, ConvertS, ConvertOther, Number, Puts, NUL
    <2>2. At(at - 1) # NUL
        BY <2>1 DEF FormatInv
    <2>3. at - 1 \in 1 .. Len(fmt)
        BY <1>0, <2>2, NotNul
    <2> QED BY <1>0, <1>1, <2>1, <2>3 DEF FormatInv
<1>7. CASE End
    <2>1. pc = "text" /\ pc' = "done" /\ at' = at + 1
        BY <1>7 DEF End, Returns
    <2> QED BY <1>0, <1>1, <2>1 DEF FormatInv
<1>8. CASE Abort
    <2>1. pc = "convert" /\ pc' = "done" /\ at' = at
        BY <1>8 DEF Abort, Returns
    <2> QED BY <1>0, <1>1, <2>1 DEF FormatInv
<1>9. CASE UNCHANGED vars
    BY <1>9 DEF vars, FormatInv, At
<1> QED BY <1>2, <1>3, <1>4, <1>5, <1>6, <1>7, <1>8, <1>9 DEF Next

(* tfp_format reads every format up to its terminator and not past it,      *)
(* whatever the format is, the ones that end after a %, a 0 or a width      *)
(* included.                                                                *)
THEOREM FormatStaysInside == Spec => []FormatInside
<1>1. FormatInv => FormatInside
    BY DEF FormatInv, FormatInside
<1> QED BY <1>1, InitFormat, NextFormat, PTL DEF Spec

-----------------------------------------------------------------------------
(* What is put for a conversion *)

Digits == {Lower[k] : k \in 1 .. 16} \cup {Upper[k] : k \in 1 .. 16}

LEMMA DigitValue ==
    ASSUME NEW d \in 0 .. 15
    PROVE  /\ a2d(Lower[d + 1]) = d /\ a2d(Upper[d + 1]) = d
           /\ Lower[d + 1] # "-" /\ Upper[d + 1] # "-"
           /\ Lower[d + 1] = "0" => d = 0
           /\ Upper[d + 1] = "0" => d = 0
           /\ Lower[d + 1] \in Digits /\ Upper[d + 1] \in Digits
<1> DEFINE e == d + 1
<1>0. e \in 1 .. 16 /\ e - 1 = d
    OBVIOUS
<1>1. \A k \in 1 .. 16 : k \in {1, 2, 3, 4, 5, 6, 7, 8, 9, 10, 11, 12, 13, 14, 15, 16}
    OBVIOUS
<1> HIDE DEF e
<1>2. \A k \in 1 .. 16 : (Lower[e] \in {Lower[k], Upper[k]} => k = e) /\ (Upper[e] \in {Lower[k], Upper[k]} => k = e)
    <2> TAKE k \in 1 .. 16
    <2> QED BY <1>0, <1>1 DEF Lower, Upper
<1>3. a2d(Lower[e]) = e - 1 /\ a2d(Upper[e]) = e - 1
    <2>1. (CHOOSE k \in 1 .. 16 : Lower[e] \in {Lower[k], Upper[k]}) = e
        BY <1>0, <1>2
    <2>2. (CHOOSE k \in 1 .. 16 : Upper[e] \in {Lower[k], Upper[k]}) = e
        BY <1>0, <1>2
    <2> QED BY <1>0, <2>1, <2>2 DEF a2d
<1>4. /\ Lower[e] # "-" /\ Upper[e] # "-"
      /\ Lower[e] = "0" => e = 1
      /\ Upper[e] = "0" => e = 1
    <2>1. e \in {1, 2, 3, 4, 5, 6, 7, 8, 9, 10, 11, 12, 13, 14, 15, 16}
        BY <1>0, <1>1
    <2> QED BY <2>1 DEF Lower, Upper
<1>5. Lower[e] \in Digits /\ Upper[e] \in Digits
    BY <1>0 DEF Digits
<1> QED BY <1>0, <1>3, <1>4, <1>5 DEF e

(* V reads text from the left. *)
ReadsText(V, text, base) ==
    /\ V[0] = 0 /\ \A k \in 1 .. Len(text) : V[k] = V[k - 1] * base + a2d(text[k])
    /\ Value(text, base) = V[Len(text)]

(* Value's function is what its equation says. *)
LEMMA ValueDef ==
    ASSUME NEW text, Len(text) \in Nat, NEW base
    PROVE  \E V : ReadsText(V, text, base)
<1> DEFINE n == Len(text)
<1>0. n \in Nat
    OBVIOUS
<1> HIDE DEF n
<1> DEFINE e(f, i) == IF i = 0 THEN 0 ELSE f[i - 1] * base + a2d(text[i])
           good(f, k) == \A i \in 0 .. n : i <= k => f[i] = e(f, i)
           T == {k \in Nat : \E f : good(f, k)}
<1>1. 0 \in T
    <2>1. good([i \in 0 .. n |-> 0], 0)
        BY <1>0
    <2> QED BY <2>1
<1>2. \A k \in T : k + 1 \in T
    <2> SUFFICES ASSUME NEW k \in T PROVE k + 1 \in T
        OBVIOUS
    <2>1. PICK f : good(f, k)
        OBVIOUS
    <2> DEFINE g == [i \in 0 .. n |-> e(f, i)]
    <2>2. ASSUME NEW i \in 0 .. n, i <= k + 1 PROVE g[i] = e(g, i)
        <3>1. CASE i = 0
            BY <3>1
        <3>2. CASE i # 0
            <4>1. i - 1 \in 0 .. n /\ i - 1 <= k
                BY <1>0, <2>2, <3>2
            <4>2. g[i - 1] = f[i - 1]
                BY <2>1, <4>1
            <4> QED BY <3>2, <4>2
        <3> QED BY <3>1, <3>2
    <2>3. good(g, k + 1)
        BY <2>2
    <2> HIDE DEF g
    <2>4. \E f_ : good(f_, k + 1)
        BY <2>3
    <2> QED BY <2>4
<1>3. T = Nat
    <2> HIDE DEF T
    <2>1. T \in SUBSET Nat
        BY DEF T
    <2> QED BY <1>1, <1>2, <2>1, NatInd
<1>4. PICK f : good(f, n)
    BY <1>0, <1>3
<1> DEFINE h == [i \in 0 .. n |-> e(f, i)]
<1>5. \A i \in 0 .. n : h[i] = f[i]
    BY <1>0, <1>4
<1>6. \A i \in 0 .. n : e(f, i) = e(h, i)
    BY <1>0, <1>5
<1>7. h = [i \in 0 .. n |-> e(h, i)]
    BY <1>6
<1> HIDE DEF h
<1> DEFINE V == CHOOSE V : V = [i \in 0 .. n |-> IF i = 0 THEN 0 ELSE V[i - 1] * base + a2d(text[i])]
<1>8. V = [i \in 0 .. n |-> IF i = 0 THEN 0 ELSE V[i - 1] * base + a2d(text[i])]
    BY <1>7, Zenon
<1>9. Value(text, base) = V[n]
    BY Zenon DEF Value, n
<1> HIDE DEF V
<1>10. \A i \in 0 .. n : V[i] = IF i = 0 THEN 0 ELSE V[i - 1] * base + a2d(text[i])
    BY <1>8, Zenon
<1>11. 0 \in 0 .. n /\ \A i \in 1 .. n : i \in 0 .. n /\ i # 0
    BY <1>0
<1>12. V[0] = 0 /\ \A i \in 1 .. n : V[i] = V[i - 1] * base + a2d(text[i])
    BY <1>10, <1>11, Zenon
<1> QED BY <1>9, <1>12 DEF ReadsText, n

(* Digits for text, in full and in the shortest form. *)
Spells(text, base, num) ==
    /\ text \in Seq(Digits) /\ Len(text) >= 1
    /\ \A i \in 1 .. Len(text) : a2d(text[i]) \in 0 .. base - 1 /\ text[i] # "-"
    /\ text[1] = "0" => Len(text) = 1
    /\ Value(text, base) = num

LEMMA ui2aSpells ==
    ASSUME NEW num \in 0 .. WORD - 1, NEW base \in {10, 16}, NEW digits \in {Lower, Upper}
    PROVE  Spells(ui2a(num, base, digits), base, num)
<1>0. base \in Nat /\ base >= 2 /\ base <= 16 /\ WORD \in Nat
    BY WordPositive
<1>a. Numeral(ui2a(num, base, digits), num, base, digits)
    BY <1>0, ui2aExact
<1>1. PICK n, D : n \in 1 .. WORD /\ Exact(D, n, num, base) /\ ui2a(num, base, digits) = [k \in 1 .. n |-> digits[D[k] + 1]]
    BY <1>a DEF Numeral
<1> DEFINE t == ui2a(num, base, digits)
<1>2. n \in Nat /\ n >= 1 /\ t = [k \in 1 .. n |-> digits[D[k] + 1]] /\ D \in [1 .. n -> 0 .. base - 1]
    BY <1>0, <1>1 DEF Exact
<1>3. \A k \in 1 .. n : D[k] \in 0 .. 15 /\ D[k] \in 0 .. base - 1
    <2> TAKE k \in 1 .. n
    <2>1. D[k] \in 0 .. base - 1
        BY <1>2
    <2> QED BY <1>0, <2>1
<1>4. \A d \in 0 .. 15 : a2d(digits[d + 1]) = d /\ digits[d + 1] # "-" /\ (digits[d + 1] = "0" => d = 0) /\ digits[d + 1] \in Digits
    BY DigitValue
<1> HIDE DEF t
<1>5. \A k \in 1 .. n : a2d(t[k]) = D[k] /\ t[k] # "-" /\ (t[k] = "0" => D[k] = 0) /\ t[k] \in Digits
    BY <1>2, <1>3, <1>4
<1>6. t \in Seq(Digits) /\ Len(t) = n
    BY <1>2, <1>5
<1>7. t[1] = "0" => n = 1
    <2>1. n > 1 => D[1] # 0
        BY <1>1 DEF Exact
    <2>2. 1 \in 1 .. n
        BY <1>2
    <2> QED BY <1>2, <1>5, <2>1, <2>2
<1>8. Value(t, base) = num
    <2>1. PICK V : ReadsText(V, t, base)
        BY <1>2, <1>6, ValueDef
    <2>2. Reads(V, D, n, base) /\ Value(t, base) = V[n]
        BY <1>5, <1>6, <2>1 DEF Reads, ReadsText
    <2>3. V[n] = num
        BY <1>1, <2>2 DEF Exact
    <2> QED BY <2>2, <2>3
<1> QED BY <1>2, <1>3, <1>5, <1>6, <1>7, <1>8 DEF Spells, t

(* t is text behind p places of padding. *)
Padded(t, p, n, z, text) ==
    /\ p \in Nat /\ Len(t) = p + Len(text)
    /\ \A i \in 1 .. p : t[i] = IF z THEN "0" ELSE " "
    /\ SubSeq(t, p + 1, p + Len(text)) = text
    /\ ~ Negative(n) => p + Len(text) >= n
    /\ p > 0 => ~ Negative(n) /\ p + Len(text) = n

LEMMA PutchwShape ==
    ASSUME NEW n \in Nat, NEW z, NEW S, NEW text \in Seq(S)
    PROVE  \E p : Padded(putchw(n, z, text), p, n, z, text)
<1> DEFINE l == Len(text)
           c == IF z THEN "0" ELSE " "
           p == IF ~ Negative(n) /\ n > l THEN n - l ELSE 0
           pad == [i \in 1 .. p |-> c]
           t == putchw(n, z, text)
<1>1. l \in Nat /\ text = [i \in 1 .. l |-> text[i]] /\ \A i \in 1 .. l : text[i] \in S
    OBVIOUS
<1>2. /\ p \in Nat /\ (~ Negative(n) => p + l >= n)
      /\ p > 0 => ~ Negative(n) /\ p + l = n
    BY <1>1
<1>3. t = pad \o text
    BY DEF putchw, Pads
<1> HIDE DEF c, l, t
<1> HIDE DEF p
<1>4. pad \in Seq({c}) /\ Len(pad) = p
    BY <1>2
<1> HIDE DEF pad
<1>5. /\ Len(t) = p + l
      /\ \A i \in 1 .. p + l : t[i] = IF i <= p THEN pad[i] ELSE text[i - p]
    <2>1. pad \in Seq(S \cup {c}) /\ text \in Seq(S \cup {c})
        BY <1>1, <1>2 DEF pad
    <2> QED BY <1>2, <1>3, <1>4, <2>1 DEF l
<1>6. \A i \in 1 .. p : t[i] = c
    <2> TAKE i \in 1 .. p
    <2>1. i \in 1 .. p + l /\ i <= p
        BY <1>1, <1>2
    <2> QED BY <1>5, <2>1 DEF pad
<1>7. SubSeq(t, p + 1, p + l) = text
    <2>1. SubSeq(t, p + 1, p + l) = [i \in 1 .. l |-> t[(p + i)]]
        <3>1. t \in Seq(S \cup {c})
            <4>1. pad \in Seq(S \cup {c}) /\ text \in Seq(S \cup {c})
                <5>1. \A i \in 1 .. p : pad[i] = c
                    BY DEF pad
                <5> QED BY <1>1, <1>2 DEF pad
            <4> QED BY <1>3, <4>1
        <3> QED BY <1>1, <1>2, <1>5, <3>1
    <2>2. \A i \in 1 .. l : t[p + i] = text[i]
        <3> TAKE i \in 1 .. l
        <3>1. p + i \in 1 .. p + l /\ ~ p + i <= p /\ (p + i) - p = i
            BY <1>1, <1>2
        <3> QED BY <1>5, <3>1
    <2> QED BY <1>1, <2>1, <2>2
<1>8. Padded(t, p, n, z, text)
    BY <1>2, <1>5, <1>6, <1>7 DEF Padded, l, c
<1> QED BY <1>8 DEF t

(* What Number puts for num, and leaves in bf. *)
Texts(conv, num) ==
    CASE conv = "u" -> ui2a(num, 10, Lower)
      [] conv = "d" -> i2a(num)
      [] conv = "x" -> ui2a(num, 16, Lower)
      [] conv = "X" -> ui2a(num, 16, Upper)

Field(conv, arg, n, z, text) == [conv |-> conv, arg |-> arg, w |-> n, lz |-> z, text |-> text]

LEMMA SpellsDenotes ==
    ASSUME NEW s, NEW t, s.conv \in {"u", "d", "x", "X"}, ~ (s.conv = "d" /\ Negative(s.arg)),
           Spells(t, IF s.conv \in {"x", "X"} THEN 16 ELSE 10, s.arg)
    PROVE  Denotes(s, t)
<1> DEFINE base == IF s.conv \in {"x", "X"} THEN 16 ELSE 10
<1>1. /\ t \in Seq(Digits) /\ Len(t) >= 1
      /\ \A i \in 1 .. Len(t) : a2d(t[i]) \in 0 .. base - 1 /\ t[i] # "-"
      /\ t[1] = "0" => Len(t) = 1
      /\ Value(t, base) = s.arg
    BY DEF Spells
<1>2. t # << >> /\ t[1] # "-"
    BY <1>1
<1> HIDE DEF base
<1> QED BY <1>1, <1>2 DEF Denotes, base

LEMMA SignedDenotes ==
    ASSUME NEW s, NEW u, s.conv = "d", Negative(s.arg), Spells(u, 10, WORD - s.arg)
    PROVE  Denotes(s, <<"-">> \o u)
<1> DEFINE t == <<"-">> \o u
<1>1. /\ u \in Seq(Digits) /\ Len(u) >= 1
      /\ \A i \in 1 .. Len(u) : a2d(u[i]) \in 0 .. 10 - 1
      /\ u[1] = "0" => Len(u) = 1
      /\ Value(u, 10) = WORD - s.arg
    BY DEF Spells
<1>2. u \in Seq(Digits \cup {"-"}) /\ <<"-">> \in Seq(Digits \cup {"-"})
    BY <1>1
<1>3. t # << >> /\ t[1] = "-" /\ Tail(t) = u /\ u # << >>
    BY <1>1, <1>2
<1> HIDE DEF t
<1>4. Denotes(s, t)
    BY <1>1, <1>3 DEF Denotes
<1> QED BY <1>4 DEF t

LEMMA TextsExact ==
    ASSUME NEW conv \in {"u", "d", "x", "X"}, NEW num \in 0 .. WORD - 1, NEW n, NEW z, NEW put
    PROVE  /\ Texts(conv, num) \in Seq(Digits \cup {"-"})
           /\ Len(Texts(conv, num)) + 1 <= BUF
           /\ Denotes(Field(conv, num, n, z, put), Texts(conv, num))
<1> DEFINE s == Field(conv, num, n, z, put)
           N == BUF - 2
<1>0. s.conv = conv /\ s.arg = num
    BY DEF Field
<1>1. Fits(N)
    BY BufAssumption DEF Fits
<1>2. N \in Nat /\ N + 2 = BUF
    <2>1. N \in 1 .. WORD /\ WORD \in Nat
        BY <1>1, WordPositive DEF Fits
    <2> QED BY <2>1, BufAssumption
<1> HIDE DEF s, N
<1>3. ASSUME NEW base \in {10, 16}, NEW digits \in {Lower, Upper}
      PROVE  /\ Spells(ui2a(num, base, digits), base, num)
             /\ ui2a(num, base, digits) \in Seq(Digits \cup {"-"})
             /\ Len(ui2a(num, base, digits)) + 1 <= BUF
    <2>1. Spells(ui2a(num, base, digits), base, num)
        BY ui2aSpells
    <2>2. base \in Nat /\ base >= 10
        OBVIOUS
    <2>3. Len(ui2a(num, base, digits)) \in 1 .. N
        BY <1>1, <2>2, ui2aLength
    <2> QED BY <1>2, <2>1, <2>3 DEF Spells
<1>4. CASE conv # "d"
    <2>1. \E base \in {10, 16}, digits \in {Lower, Upper} :
             Texts(conv, num) = ui2a(num, base, digits) /\ base = IF conv \in {"x", "X"} THEN 16 ELSE 10
        BY <1>4 DEF Texts
    <2>2. PICK base \in {10, 16}, digits \in {Lower, Upper} :
             Texts(conv, num) = ui2a(num, base, digits) /\ base = IF conv \in {"x", "X"} THEN 16 ELSE 10
        BY <2>1
    <2>3. Denotes(s, ui2a(num, base, digits))
        BY <1>0, <1>3, <1>4, <2>2, SpellsDenotes
    <2> QED BY <1>3, <2>2, <2>3 DEF s
<1>5. CASE conv = "d" /\ ~ Negative(num)
    <2>1. Texts(conv, num) = ui2a(num, 10, Lower)
        BY <1>5 DEF Texts, i2a
    <2>2. Denotes(s, ui2a(num, 10, Lower))
        <3>1. 10 = IF s.conv \in {"x", "X"} THEN 16 ELSE 10
            BY <1>0, <1>5
        <3>2. Spells(ui2a(num, 10, Lower), IF s.conv \in {"x", "X"} THEN 16 ELSE 10, s.arg)
            BY <1>0, <1>3, <3>1
        <3> QED BY <1>0, <1>5, <3>2, SpellsDenotes
    <2> QED BY <1>3, <2>1, <2>2 DEF s
<1>6. CASE conv = "d" /\ Negative(num)
    <2> DEFINE m == WORD - num
               u == ui2a(m, 10, Lower)
    <2>1. m \in 0 .. WORD - 1 /\ i2a(num) = <<"-">> \o u
        BY <1>6, i2aShape
    <2>2. Texts(conv, num) = <<"-">> \o u
        BY <1>6, <2>1 DEF Texts
    <2>3. Spells(u, 10, m)
        <3> HIDE DEF m
        <3> QED BY <2>1, ui2aSpells
    <2>4. Denotes(s, <<"-">> \o u)
        <3> HIDE DEF u
        <3> QED BY <1>0, <1>6, <2>3, SignedDenotes
    <2>5. Len(i2a(num)) \in 1 .. N + 1
        BY <1>1, i2aLength
    <2> HIDE DEF u
    <2>6. <<"-">> \o u \in Seq(Digits \cup {"-"})
        <3>1. u \in Seq(Digits)
            BY <2>3 DEF Spells
        <3>2. u \in Seq(Digits \cup {"-"}) /\ <<"-">> \in Seq(Digits \cup {"-"})
            BY <3>1
        <3> QED BY <3>2
    <2>7. Len(i2a(num)) + 1 <= BUF
        BY <1>2, <2>5
    <2> QED BY <2>1, <2>2, <2>4, <2>6, <2>7 DEF s
<1> QED BY <1>4, <1>5, <1>6

(* Padding leaves what a text denotes. *)
LEMMA PaddedExact ==
    ASSUME NEW conv, conv # "c", NEW arg, NEW n \in Nat, NEW lz_ \in BOOLEAN, NEW z \in BOOLEAN,
           z <=> (lz_ /\ conv # "s"), NEW S, NEW text \in Seq(S),
           Denotes(Field(conv, arg, n, lz_, putchw(n, z, text)), text)
    PROVE  FieldExact(Field(conv, arg, n, lz_, putchw(n, z, text)))
<1> DEFINE t == putchw(n, z, text)
           s == Field(conv, arg, n, lz_, t)
<1>0. PICK p : Padded(t, p, n, z, text)
    BY PutchwShape
<1>3. Denotes(s, text)
    OBVIOUS
<1>2. s.conv = conv /\ s.lz = lz_ /\ s.text = t /\ s.w = n
    BY DEF Field
<1> HIDE DEF t, s
<1> DEFINE l == Len(text)
<1>a. l \in Nat
    OBVIOUS
<1>1. /\ p \in Nat /\ Len(t) = p + l
      /\ \A i \in 1 .. p : t[i] = IF z THEN "0" ELSE " "
      /\ SubSeq(t, p + 1, p + l) = text
      /\ ~ Negative(n) => p + l >= n
      /\ p > 0 => ~ Negative(n) /\ p + l = n
    BY <1>0, Zenon DEF Padded
<1> HIDE DEF l
<1>4. p \in 0 .. Len(s.text) /\ Rest(s, p) = text
    <2>1. Len(s.text) = p + l /\ s.text = t
        BY <1>1, <1>2
    <2>2. Rest(s, p) = SubSeq(t, p + 1, p + l)
        BY <2>1, Zenon DEF Rest
    <2>3. Rest(s, p) = text
        BY <1>1, <2>2, Zenon
    <2>4. p \in Nat
        BY <1>1, Zenon
    <2>5. p \in 0 .. Len(s.text)
        BY <1>a, <2>1, <2>4
    <2> QED BY <2>3, <2>5, Zenon
<1>5. Padding(s, p)
    BY <1>1, <1>2 DEF Padding
<1>6. /\ p > 0 => ~ Negative(s.w) /\ Len(s.text) = s.w
      /\ ~ Negative(s.w) => Len(s.text) >= s.w
    BY <1>1, <1>2, <1>a
<1>7. FieldExact(s)
    BY <1>3, <1>4, <1>5, <1>6 DEF FieldExact
<1> QED BY <1>7 DEF s, t

-----------------------------------------------------------------------------
(* The data of tfp_format *)

DataInv ==
    /\ pc \in {"text", "width", "convert", "done"}
    /\ w \in 0 .. WORD - 1 /\ lz \in BOOLEAN
    /\ Len(bf) + 1 <= BUF
    /\ \E S : shown \in Seq(S)
    /\ FieldsExact

LEMMA InitData == Init => DataInv
<1> SUFFICES ASSUME Init PROVE DataInv
    OBVIOUS
<1>1. BUF \in Nat /\ BUF - 2 >= 1
    BY BufAssumption, WordPositive
<1>2. Len(bf) = 0 /\ Len(shown) = 0 /\ shown \in Seq({})
    BY DEF Init
<1>3. FieldsExact
    <2>1. 1 .. Len(shown) = {}
        BY <1>2
    <2> QED BY <2>1 DEF FieldsExact
<1>4. Len(bf) + 1 <= BUF
    BY <1>1, <1>2
<1>5. \E S : shown \in Seq(S)
    BY <1>2
<1>6. pc = "text" /\ w \in 0 .. WORD - 1 /\ lz \in BOOLEAN
    <2>1. 0 \in 0 .. WORD - 1
        BY WordPositive
    <2> QED BY <2>1 DEF Init
<1> QED BY <1>3, <1>4, <1>5, <1>6 DEF DataInv

(* A conversion that puts its argument adds a field to those put. *)
LEMMA PutsExact ==
    ASSUME DataInv, NEW text, NEW arg, Puts(text, arg), FieldExact(Field(ch, arg, w, lz, text)),
           Len(bf') + 1 <= BUF
    PROVE  DataInv'
<1> DEFINE s == Field(ch, arg, w, lz, text)
<1>1. shown' = Append(shown, s) /\ pc' = "text" /\ w' = w /\ lz' = lz
    BY DEF Puts, Field
<1>2. PICK S : shown \in Seq(S)
    BY DEF DataInv
<1>3. FieldExact(s) /\ \A k \in 1 .. Len(shown) : FieldExact(shown[k])
    BY DEF DataInv, FieldsExact
<1> HIDE DEF s
<1>4. shown \in Seq(S \cup {s})
    BY <1>2
<1>5. /\ shown' \in Seq(S \cup {s}) /\ Len(shown') = Len(shown) + 1 /\ Len(shown) \in Nat
      /\ \A k \in 1 .. Len(shown) : shown'[k] = shown[k]
      /\ shown'[Len(shown) + 1] = s
    BY <1>1, <1>4
<1>6. ASSUME NEW k \in 1 .. Len(shown') PROVE FieldExact(shown'[k])
    <2>1. k \in 1 .. Len(shown) \/ k = Len(shown) + 1
        BY <1>5
    <2> QED BY <1>3, <1>5, <2>1
<1>7. FieldsExact'
    BY <1>6 DEF FieldsExact
<1> QED BY <1>1, <1>5, <1>7 DEF DataInv

LEMMA NumberExact ==
    ASSUME DataInv, NEW conv \in {"u", "d", "x", "X"}, NEW num \in Args, Number(conv, Texts(conv, num), num)
    PROVE  DataInv'
<1> DEFINE text == Texts(conv, num)
           put == putchw(w, lz, text)
<1>1. num \in 0 .. WORD - 1
    BY ArgsAssumption
<1>2. text \in Seq(Digits \cup {"-"}) /\ Len(text) + 1 <= BUF /\ Denotes(Field(conv, num, w, lz, put), text)
    BY <1>1, TextsExact
<1>3. bf' = text /\ Puts(put, num) /\ ch = conv
    BY DEF Number
<1>4. w \in 0 .. WORD - 1 /\ lz \in BOOLEAN
    BY DEF DataInv
<1>5. conv # "c" /\ (lz <=> (lz /\ conv # "s"))
    OBVIOUS
<1> HIDE DEF text
<1>6. FieldExact(Field(conv, num, w, lz, put))
    BY <1>2, <1>4, <1>5, PaddedExact
<1> HIDE DEF put
<1>7. Len(bf') + 1 <= BUF
    BY <1>2, <1>3
<1> QED BY <1>3, <1>6, <1>7, PutsExact

LEMMA StringExact ==
    ASSUME DataInv, NEW s \in Strings, ch = "s", Puts(putchw(w, FALSE, s), s), bf' = bf
    PROVE  DataInv'
<1> DEFINE put == putchw(w, FALSE, s)
<1>1. s \in Seq(STRING)
    BY ArgsAssumption
<1>2. w \in 0 .. WORD - 1 /\ lz \in BOOLEAN /\ Len(bf') + 1 <= BUF
    BY DEF DataInv
<1>3. Denotes(Field("s", s, w, lz, put), s)
    BY DEF Denotes, Field
<1>4. FALSE \in BOOLEAN /\ (FALSE <=> (lz /\ "s" # "s")) /\ "s" # "c"
    OBVIOUS
<1>5. FieldExact(Field("s", s, w, lz, put))
    <2>1. w \in Nat /\ lz \in BOOLEAN
        BY <1>2, WordPositive
    <2> QED BY <1>1, <1>3, <1>4, <2>1, PaddedExact
<1> HIDE DEF put
<1>6. Puts(put, s)
    BY DEF put
<1> QED BY <1>2, <1>5, <1>6, PutsExact

LEMMA SubSeqAll == ASSUME NEW S, NEW t \in Seq(S) PROVE SubSeq(t, 1, Len(t)) = t
<1> DEFINE l == Len(t)
<1>1. l \in Nat /\ t = [i \in 1 .. l |-> t[i]]
    OBVIOUS
<1>2. SubSeq(t, 1, l) = [i \in 1 .. l |-> t[(1 + i) - 1]]
    BY <1>1
<1>3. \A i \in 1 .. l : t[(1 + i) - 1] = t[i]
    BY <1>1
<1> QED BY <1>1, <1>2, <1>3

LEMMA CharExact ==
    ASSUME DataInv, NEW code, ch = "c", Puts(<<Char(code)>>, code), bf' = bf
    PROVE  DataInv'
<1> DEFINE c == Char(code)
           s == Field(ch, code, w, lz, <<c>>)
<1>1. s.conv = "c" /\ s.arg = code /\ s.text = <<c>>
    BY DEF Field
<1>2. Len(bf') + 1 <= BUF
    BY DEF DataInv
<1>3. Len(<<c>>) = 1 /\ SubSeq(<<c>>, 1, 1) = <<c>>
    <2> HIDE DEF c
    <2>1. <<c>> \in Seq({c}) /\ Len(<<c>>) = 1
        OBVIOUS
    <2> QED BY <2>1, SubSeqAll
<1>4. Denotes(s, <<c>>)
    BY <1>1 DEF Denotes
<1> HIDE DEF s
<1>5. Rest(s, 0) = <<c>> /\ Len(s.text) = 1
    BY <1>1, <1>3 DEF Rest
<1>6. Padding(s, 0)
    <2>1. 1 .. 0 = {}
        OBVIOUS
    <2> QED BY <2>1 DEF Padding
<1>7. FieldExact(s)
    BY <1>1, <1>4, <1>5, <1>6 DEF FieldExact
<1> QED BY <1>2, <1>7, PutsExact DEF s

LEMMA WidthIsNat == ASSUME NEW c, InWidth(a2d(c)) PROVE a2d(c) \in Nat
<1>1. CASE \E d \in 1 .. 16 : c \in {Lower[d], Upper[d]}
    <2> DEFINE e == CHOOSE d \in 1 .. 16 : c \in {Lower[d], Upper[d]}
    <2>1. e \in 1 .. 16
        BY <1>1
    <2>2. a2d(c) = e - 1
        BY <1>1 DEF a2d
    <2> HIDE DEF e
    <2> QED BY <2>1, <2>2
<1>2. CASE ~ \E d \in 1 .. 16 : c \in {Lower[d], Upper[d]}
    <2>1. a2d(c) = -1
        BY <1>2 DEF a2d
    <2> QED BY <2>1 DEF InWidth
<1> QED BY <1>1, <1>2

LEMMA NextData == DataInv /\ [Next]_vars => DataInv'
<1> SUFFICES ASSUME DataInv, [Next]_vars PROVE DataInv'
    OBVIOUS
<1>1. CASE UNCHANGED <<bf, shown>> /\ pc' \in {"text", "width", "convert", "done"} /\ w' \in 0 .. WORD - 1 /\ lz' \in BOOLEAN
    <2>1. FieldsExact'
        BY <1>1 DEF DataInv, FieldsExact
    <2>2. Len(bf') + 1 <= BUF /\ \E S : shown' \in Seq(S)
        BY <1>1 DEF DataInv
    <2> QED BY <1>1, <2>1, <2>2 DEF DataInv
<1>2. CASE Plain \/ Percent \/ WidthDone \/ ConvertOther \/ End \/ Abort \/ UNCHANGED vars
    <2>1. w \in 0 .. WORD - 1 /\ lz \in BOOLEAN /\ pc \in {"text", "width", "convert", "done"}
        BY DEF DataInv
    <2>2. /\ UNCHANGED <<bf, shown>> /\ w' \in {w, 0} /\ (lz' = lz \/ lz' = (At(at + 1) = "0"))
          /\ pc' \in {pc, "text", "width", "convert", "done"}
        BY <1>2 DEF Plain, Percent, WidthDone, ConvertOther, End, Abort, Returns, vars
    <2>3. w' \in 0 .. WORD - 1
        <3>1. 0 \in 0 .. WORD - 1
            BY WordPositive
        <3> QED BY <2>1, <2>2, <3>1
    <2>4. lz' \in BOOLEAN
        BY <2>1, <2>2, Zenon
    <2>5. pc' \in {"text", "width", "convert", "done"} /\ UNCHANGED <<bf, shown>>
        BY <2>1, <2>2
    <2> QED BY <1>1, <2>3, <2>4, <2>5
<1>3. CASE Width
    <2>1. a2d(ch) \in Nat
        BY <1>3, WidthIsNat DEF Width
    <2>2. w' = (w * 10 + a2d(ch)) % WORD /\ UNCHANGED <<bf, shown>> /\ pc' = "width" /\ lz' = lz
        BY <1>3 DEF Width
    <2>3. w \in 0 .. WORD - 1 /\ lz \in BOOLEAN
        BY DEF DataInv
    <2> DEFINE a == a2d(ch)
    <2> HIDE DEF a
    <2>4. (w * 10 + a) % WORD \in 0 .. WORD - 1
        <3>1. w * 10 + a \in Nat /\ WORD \in Nat \ {0}
            BY <2>1, <2>3, WordAssumption DEF a
        <3> DEFINE x == w * 10 + a
        <3> HIDE DEF x
        <3>2. x % WORD \in 0 .. WORD - 1
            BY <3>1 DEF x
        <3> QED BY <3>2 DEF x
    <2> QED BY <1>1, <2>2, <2>3, <2>4 DEF a
<1>4. CASE ConvertU \/ ConvertD \/ ConvertX
    <2>1. PICK conv \in {"u", "d", "x", "X"}, num \in Args : Number(conv, Texts(conv, num), num)
        BY <1>4 DEF ConvertU, ConvertD, ConvertX, Texts
    <2> QED BY <2>1, NumberExact
<1>5. CASE ConvertC
    <2>1. PICK code \in Args : pc = "convert" /\ ch = "c" /\ Puts(<<Char(code)>>, code) /\ bf' = bf
        BY <1>5 DEF ConvertC
    <2> QED BY <2>1, CharExact
<1>6. CASE ConvertS
    <2>1. PICK s \in Strings : pc = "convert" /\ ch = "s" /\ Puts(putchw(w, FALSE, s), s) /\ bf' = bf
        BY <1>6 DEF ConvertS
    <2> QED BY <2>1, StringExact
<1> QED BY <1>2, <1>3, <1>4, <1>5, <1>6 DEF Next

(* The variables keep their types; above all, the text of no number is too  *)
(* long for bf, whatever the word size, if bf has room for the digits of a  *)
(* word, a sign and the terminator.                                         *)
THEOREM BufferHolds == Spec => []TypeOK
<1>1. DataInv => TypeOK
    BY DEF DataInv, TypeOK
<1> QED BY <1>1, InitData, NextData, PTL DEF Spec

(* Every conversion of every format puts its argument in full, padded to    *)
(* the width and no more, whatever the word size: ui2a's two loops write    *)
(* digits that read back as the number, the most negative one included.     *)
THEOREM ConversionsExact == Spec => []FieldsExact
<1>1. DataInv => FieldsExact
    BY DEF DataInv
<1> QED BY <1>1, InitData, NextData, PTL DEF Spec

-----------------------------------------------------------------------------
(* The reference reading of a format                                        *)

Fresh == [in |-> "text", n |-> 0, r |-> << >>]

(* R reads f.                                                               *)
Scans(R, f, done) == R[0] = Fresh /\ \A i \in 1 .. Len(f) : R[i] = Scanned(R[i - 1], f[i], done)

(* Scan's function is what its equation says.                               *)
LEMMA ScanDef ==
    ASSUME NEW f, Len(f) \in Nat, NEW done
    PROVE  Scans(Scan(f, done), f, done)
<1> DEFINE n == Len(f)
<1>0. n \in Nat
    OBVIOUS
<1> HIDE DEF n
<1> DEFINE e(g, i) == IF i = 0 THEN Fresh ELSE Scanned(g[i - 1], f[i], done)
           good(g, k) == \A i \in 0 .. n : i <= k => g[i] = e(g, i)
           T == {k \in Nat : \E g : good(g, k)}
<1>1. 0 \in T
    <2>1. good([i \in 0 .. n |-> Fresh], 0)
        BY <1>0
    <2> QED BY <2>1
<1>2. \A k \in T : k + 1 \in T
    <2> SUFFICES ASSUME NEW k \in T PROVE k + 1 \in T
        OBVIOUS
    <2>1. PICK g : good(g, k)
        OBVIOUS
    <2> DEFINE h == [i \in 0 .. n |-> e(g, i)]
    <2>2. ASSUME NEW i \in 0 .. n, i <= k + 1 PROVE h[i] = e(h, i)
        <3>1. CASE i = 0
            BY <3>1
        <3>2. CASE i # 0
            <4>1. i - 1 \in 0 .. n /\ i - 1 <= k
                BY <1>0, <2>2, <3>2
            <4>2. h[i - 1] = g[i - 1]
                BY <2>1, <4>1
            <4> QED BY <3>2, <4>2
        <3> QED BY <3>1, <3>2
    <2>3. good(h, k + 1)
        BY <2>2
    <2> HIDE DEF h
    <2>4. \E g_ : good(g_, k + 1)
        BY <2>3
    <2> QED BY <2>4
<1>3. T = Nat
    <2> HIDE DEF T
    <2>1. T \in SUBSET Nat
        BY DEF T
    <2> QED BY <1>1, <1>2, <2>1, NatInd
<1>4. PICK g : good(g, n)
    BY <1>0, <1>3
<1> DEFINE h == [i \in 0 .. n |-> e(g, i)]
<1>5. \A i \in 0 .. n : h[i] = g[i]
    BY <1>0, <1>4
<1>6. \A i \in 0 .. n : e(g, i) = e(h, i)
    BY <1>0, <1>5
<1>7. h = [i \in 0 .. n |-> e(h, i)]
    BY <1>6
<1> HIDE DEF h
<1> DEFINE R == Scan(f, done)
<1>8. R = CHOOSE R_ : R_ = [i \in 0 .. n |-> IF i = 0 THEN Fresh ELSE Scanned(R_[i - 1], f[i], done)]
    BY Zenon DEF Scan, n, Fresh
<1>9. R = [i \in 0 .. n |-> IF i = 0 THEN Fresh ELSE Scanned(R[i - 1], f[i], done)]
    BY <1>7, <1>8, Zenon
<1> HIDE DEF R
<1>10. \A i \in 0 .. n : R[i] = IF i = 0 THEN Fresh ELSE Scanned(R[i - 1], f[i], done)
    BY <1>9, Zenon
<1>11. 0 \in 0 .. n /\ \A i \in 1 .. n : i \in 0 .. n /\ i # 0
    BY <1>0
<1>12. R[0] = Fresh /\ \A i \in 1 .. n : R[i] = Scanned(R[i - 1], f[i], done)
    BY <1>10, <1>11, Zenon
<1> QED BY <1>12 DEF Scans, R, n

Letters == {"u", "d", "x", "X", "c", "s"}

Asks(s, c) == s.in # "text" /\ c \in Letters
Kept(s, c) == IF s.in = "text" <=> c # "%" THEN Append(s.r, c) ELSE s.r

LEMMA ScannedAsks ==
    ASSUME NEW s, NEW c, NEW done, Asks(s, c)
    PROVE  /\ Scanned(s, c, done).in = Goes(s.in, c) /\ Scanned(s, c, done).n = s.n + 1
           /\ s.n < Len(done) => Scanned(s, c, done).r = s.r \o done[s.n + 1].text
BY DEF Scanned, Letters, Asks

LEMMA ScannedKeeps ==
    ASSUME NEW s, NEW c, NEW done, ~ Asks(s, c)
    PROVE  /\ Scanned(s, c, done).in = Goes(s.in, c) /\ Scanned(s, c, done).n = s.n
           /\ Scanned(s, c, done).r = Kept(s, c)
BY DEF Scanned, Letters, Asks, Kept

(* One more conversion changes nothing for those before it.                 *)
LEMMA ScannedMore ==
    ASSUME NEW s, NEW c, NEW S, NEW done \in Seq(S), NEW x \in S,
           s.n \in Nat, Scanned(s, c, done).n <= Len(done)
    PROVE  Scanned(s, c, Append(done, x)) = Scanned(s, c, done)
<1> DEFINE more == Append(done, x)
           L == Len(done)
<1>1. L \in Nat /\ Len(more) = L + 1 /\ \A k \in 1 .. L : more[k] = done[k]
    OBVIOUS
<1>2. CASE Asks(s, c)
    <2>0. Scanned(s, c, done).n = s.n + 1
        BY <1>2, ScannedAsks
    <2>1. s.n + 1 <= L
        BY <2>0
    <2>2. s.n < L /\ s.n < L + 1 /\ s.n + 1 \in 1 .. L
        BY <1>1, <2>1
    <2>3. more[s.n + 1] = done[s.n + 1]
        BY <1>1, <2>2
    <2> DEFINE m == s.n + 1
    <2>4. more[m] = done[m] /\ s.n < Len(more) /\ s.n < Len(done)
        BY <1>1, <2>2, <2>3
    <2>5. Scanned(s, c, done) = [in |-> Goes(s.in, c), n |-> m, r |-> s.r \o done[m].text]
        <3> HIDE DEF L
        <3> QED BY <1>2, <2>4, Zenon DEF Scanned, Letters, Asks
    <2>6. Scanned(s, c, more) = [in |-> Goes(s.in, c), n |-> m, r |-> s.r \o more[m].text]
        <3> HIDE DEF more
        <3> QED BY <1>2, <2>4, Zenon DEF Scanned, Letters, Asks
    <2> HIDE DEF m, more
    <2> QED BY <2>4, <2>5, <2>6 DEF more
<1>3. CASE ~ Asks(s, c)
    BY <1>3, Zenon DEF Scanned, Letters, Asks
<1> QED BY <1>2, <1>3

Counted(f, done, k) == \A i \in 0 .. k : Scan(f, done)[i].n \in 0 .. Len(done)
Alike(f, done, more, k) == \A i \in 0 .. k : Scan(f, more)[i] = Scan(f, done)[i]

LEMMA ScanMore ==
    ASSUME NEW f, Len(f) \in Nat, NEW S, NEW done \in Seq(S), NEW x \in S, NEW k \in 0 .. Len(f),
           Counted(f, done, k)
    PROVE  Alike(f, done, Append(done, x), k)
<1> DEFINE R == Scan(f, done)
           Q == Scan(f, Append(done, x))
           L == Len(f)
           T == {i \in Nat : i <= k => Q[i] = R[i]}
<1>0. L \in Nat /\ Len(done) \in Nat
    OBVIOUS
<1>1. R[0] = Fresh /\ \A i \in 1 .. L : R[i] = Scanned(R[i - 1], f[i], done)
    BY ScanDef DEF Scans
<1>2. Q[0] = Fresh /\ \A i \in 1 .. L : Q[i] = Scanned(Q[i - 1], f[i], Append(done, x))
    BY ScanDef DEF Scans
<1>3. \A i \in 0 .. k : R[i].n \in 0 .. Len(done)
    BY DEF Counted
<1>k. k \in 0 .. L
    OBVIOUS
<1> HIDE DEF R, Q, L
<1>4. 0 \in T
    BY <1>1, <1>2
<1>5. \A i \in T : i + 1 \in T
    <2> SUFFICES ASSUME NEW i \in T, i + 1 <= k PROVE Q[i + 1] = R[i + 1]
        OBVIOUS
    <2>1. i + 1 \in 1 .. L /\ (i + 1) - 1 = i /\ i \in 0 .. k /\ i + 1 \in 0 .. k
        BY <1>0, <1>k
    <2>2. R[i + 1] = Scanned(R[i], f[i + 1], done) /\ Q[i + 1] = Scanned(Q[i], f[i + 1], Append(done, x)) /\ Q[i] = R[i]
        BY <1>1, <1>2, <2>1
    <2>3. R[i].n \in Nat /\ Scanned(R[i], f[i + 1], done).n <= Len(done)
        <3>1. R[i].n \in 0 .. Len(done) /\ R[i + 1].n \in 0 .. Len(done)
            BY <1>3, <2>1
        <3>2. R[i].n \in Nat /\ R[i + 1].n <= Len(done)
            BY <1>0, <3>1
        <3> QED BY <2>2, <3>2
    <2>4. Scanned(R[i], f[i + 1], Append(done, x)) = Scanned(R[i], f[i + 1], done)
        BY <2>3, ScannedMore
    <2> QED BY <2>2, <2>4
<1>6. T = Nat
    <2> HIDE DEF T
    <2>1. T \in SUBSET Nat
        BY DEF T
    <2> QED BY <1>4, <1>5, <2>1, NatInd
<1>7. \A i \in 0 .. k : Q[i] = R[i]
    BY <1>k, <1>0, <1>6
<1> QED BY <1>7 DEF Q, R, Alike

-----------------------------------------------------------------------------
(* Where in the format *)

Decimal == {Lower[d] : d \in 1 .. 10}
Wide == {Lower[d] : d \in 1 .. 11} \cup {"A"}

LEMMA DecimalIs ==
    /\ Decimal = {"0", "1", "2", "3", "4", "5", "6", "7", "8", "9"}
    /\ Wide = {"0", "1", "2", "3", "4", "5", "6", "7", "8", "9", "a", "A"}
<1>1. /\ \A d \in 1 .. 10 : d \in {1, 2, 3, 4, 5, 6, 7, 8, 9, 10}
      /\ \A d \in 1 .. 11 : d \in {1, 2, 3, 4, 5, 6, 7, 8, 9, 10, 11}
    OBVIOUS
<1>2. {1, 2, 3, 4, 5, 6, 7, 8, 9, 10} \subseteq 1 .. 10 /\ {1, 2, 3, 4, 5, 6, 7, 8, 9, 10, 11} \subseteq 1 .. 11
    OBVIOUS
<1>3. Decimal = {Lower[d] : d \in {1, 2, 3, 4, 5, 6, 7, 8, 9, 10}} /\ Wide = {Lower[d] : d \in {1, 2, 3, 4, 5, 6, 7, 8, 9, 10, 11}} \cup {"A"}
    BY <1>1, <1>2 DEF Decimal, Wide
<1> QED BY <1>3 DEF Lower

(* a2i goes on with a digit, an a or an A.                                  *)
LEMMA WidthCharacters ==
    ASSUME NEW c
    PROVE  InWidth(a2d(c)) <=> c \in Wide
<1>1. CASE \E d \in 1 .. 16 : c \in {Lower[d], Upper[d]}
    <2> DEFINE d == CHOOSE d \in 1 .. 16 : c \in {Lower[d], Upper[d]}
    <2>1. d \in 1 .. 16 /\ c \in {Lower[d], Upper[d]}
        BY <1>1
    <2>2. a2d(c) = d - 1
        BY <1>1 DEF a2d
    <2> HIDE DEF d
    <2>3. InWidth(a2d(c)) <=> d <= 11
        BY <2>1, <2>2 DEF InWidth
    <2>4. d \in {1, 2, 3, 4, 5, 6, 7, 8, 9, 10, 11, 12, 13, 14, 15, 16}
        BY <2>1
    <2>5. d <= 11 <=> c \in Wide
        BY <2>1, <2>4, DecimalIs DEF Lower, Upper
    <2> QED BY <2>3, <2>5
<1>2. CASE ~ \E d \in 1 .. 16 : c \in {Lower[d], Upper[d]}
    <2>1. ~ InWidth(a2d(c))
        BY <1>2 DEF a2d, InWidth
    <2>2. ASSUME c \in Wide PROVE FALSE
        <3>1. c = Lower[1] \/ c = Lower[2] \/ c = Lower[3] \/ c = Lower[4] \/ c = Lower[5] \/ c = Lower[6]
              \/ c = Lower[7] \/ c = Lower[8] \/ c = Lower[9] \/ c = Lower[10] \/ c = Lower[11] \/ c = Upper[11]
            BY <2>2, DecimalIs DEF Lower, Upper
        <3> QED BY <1>2, <3>1
    <2> QED BY <2>1, <2>2
<1> QED BY <1>1, <1>2

-----------------------------------------------------------------------------
(* tfp_format reads as the reference does: OrderInv is inductive            *)

Seen == Scan(fmt, shown)

(* The first k characters are dealt with: every conversion they ask for is  *)
(* done, in order, and no other.                                            *)
Upto(k) ==
    /\ k \in 0 .. Len(fmt)
    /\ \A i \in 0 .. k : Seen[i].n \in 0 .. Len(shown)
    /\ Seen[k].n = Len(shown)
    /\ \A i \in 1 .. k : Seen[i].n > Seen[i - 1].n => shown[Seen[i].n].conv = fmt[i]

(* The characters dealt with.                                               *)
Dealt == IF pc = "text" THEN at - 1 ELSE IF pc = "done" THEN Len(fmt) ELSE at - 2

OrderInv ==
    /\ \A i \in 1 .. Len(fmt) : fmt[i] # NUL
    /\ Upto(Dealt)
    /\ pc # "done" => out = Seen[Dealt].r
    /\ pc = "done" => out = IF sprintf THEN Append(Seen[Dealt].r, NUL) ELSE Seen[Dealt].r
    /\ pc = "text" => Seen[Dealt].in = "text"
    /\ pc \in {"width", "convert"} => Seen[Dealt].in \in {"percent", "zero", "width"} /\ ch = At(Dealt + 1)
    /\ pc = "width" => Seen[Dealt].in = "width" \/ (ch \in Decimal /\ (ch # "0" \/ Seen[Dealt].in = "zero"))
    /\ pc = "convert" => Goes(Seen[Dealt].in, ch) = "text"

LEMMA NextSeen ==
    ASSUME Len(fmt) \in Nat, NEW k \in 0 .. Len(fmt), k + 1 <= Len(fmt)
    PROVE  Seen[k + 1] = Scanned(Seen[k], fmt[k + 1], shown) /\ k + 1 \in 1 .. Len(fmt)
<1>1. k + 1 \in 1 .. Len(fmt) /\ (k + 1) - 1 = k
    OBVIOUS
<1> DEFINE R == Seen
<1>2. \A i \in 1 .. Len(fmt) : R[i] = Scanned(R[i - 1], fmt[i], shown)
    BY ScanDef DEF Scans, Seen
<1> HIDE DEF R
<1>3. R[k + 1] = Scanned(R[k], fmt[k + 1], shown)
    BY <1>1, <1>2
<1> QED BY <1>1, <1>3 DEF R

(* A character that asks for no conversion.                                 *)
LEMMA NoConversion ==
    ASSUME Len(fmt) \in Nat, Len(shown) \in Nat, NEW k \in Int, Upto(k), k + 1 <= Len(fmt),
           ~ Asks(Seen[k], fmt[k + 1])
    PROVE  /\ Upto(k + 1) /\ Seen[k + 1].in = Goes(Seen[k].in, fmt[k + 1])
           /\ Seen[k + 1].r = Kept(Seen[k], fmt[k + 1])
<1> DEFINE R == Seen
           c == fmt[k + 1]
           L == Len(fmt)
           N == Len(shown)
<1>0. /\ k \in 0 .. L /\ L \in Nat /\ N \in Nat /\ k + 1 <= L
      /\ \A i \in 0 .. k : R[i].n \in 0 .. N
      /\ R[k].n = N
      /\ \A i \in 1 .. k : R[i].n > R[i - 1].n => shown[R[i].n].conv = fmt[i]
    BY DEF Upto
<1>1. R[k + 1] = Scanned(R[k], c, shown) /\ k + 1 \in 1 .. L
    BY <1>0, NextSeen
<1>2. ~ Asks(R[k], c)
    OBVIOUS
<1> HIDE DEF R, c, L, N
<1>3. /\ Scanned(R[k], c, shown).in = Goes(R[k].in, c) /\ Scanned(R[k], c, shown).n = R[k].n
      /\ Scanned(R[k], c, shown).r = Kept(R[k], c)
    BY <1>2, ScannedKeeps
<1>4. R[k + 1].n = N /\ N \in 0 .. N
    BY <1>0, <1>1, <1>3
<1>5. k + 1 \in 0 .. L /\ \A i \in 0 .. k + 1 : i = k + 1 \/ i \in 0 .. k
    BY <1>0
<1>6. \A i \in 0 .. k + 1 : R[i].n \in 0 .. N
    BY <1>0, <1>4, <1>5
<1>7. \A i \in 1 .. k + 1 : R[i].n > R[i - 1].n => shown[R[i].n].conv = fmt[i]
    <2> SUFFICES ASSUME NEW i \in 1 .. k + 1, R[i].n > R[i - 1].n PROVE shown[R[i].n].conv = fmt[i]
        OBVIOUS
    <2>1. CASE i = k + 1
        <3>1. i - 1 = k
            BY <1>0, <2>1
        <3>2. R[i].n = N /\ R[i - 1].n = N
            BY <1>0, <1>4, <2>1, <3>1
        <3> QED BY <1>0, <3>2
    <2>2. CASE i # k + 1
        <3>1. i \in 1 .. k
            BY <1>0, <2>2
        <3> QED BY <1>0, <3>1
    <2> QED BY <2>1, <2>2
<1>8. Upto(k + 1)
    BY <1>4, <1>5, <1>6, <1>7 DEF Upto, R, L, N
<1>9. R[k + 1].in = Goes(R[k].in, c) /\ R[k + 1].r = Kept(R[k], c)
    BY <1>1, <1>3
<1> QED BY <1>8, <1>9 DEF R, c

(* A character that asks for one, which is done.                            *)
LEMMA OneConversion ==
    ASSUME Len(fmt) \in Nat, NEW S, shown \in Seq(S), NEW k \in Int, Upto(k), k + 1 <= Len(fmt),
           Asks(Seen[k], fmt[k + 1]), Goes(Seen[k].in, fmt[k + 1]) = "text",
           NEW x, x.conv = fmt[k + 1], shown' = Append(shown, x), fmt' = fmt
    PROVE  /\ Upto(k + 1)' /\ Seen'[k + 1].in = "text" /\ Seen'[k + 1].r = Seen[k].r \o x.text
<1> DEFINE R == Seen
           Q == Scan(fmt, Append(shown, x))
           c == fmt[k + 1]
           L == Len(fmt)
           N == Len(shown)
           more == Append(shown, x)
<1>0. /\ k \in 0 .. L /\ L \in Nat /\ N \in Nat /\ k + 1 <= L /\ k + 1 \in 1 .. L
      /\ \A i \in 0 .. k : R[i].n \in 0 .. N
      /\ R[k].n = N
      /\ \A i \in 1 .. k : R[i].n > R[i - 1].n => shown[R[i].n].conv = fmt[i]
    BY DEF Upto
<1>1. shown \in Seq(S \cup {x}) /\ x \in S \cup {x}
    OBVIOUS
<1>2. \A i \in 0 .. k : Q[i] = R[i]
    <2>1. Counted(fmt, shown, k)
        BY <1>0 DEF Counted, Seen
    <2>2. Alike(fmt, shown, Append(shown, x), k)
        BY <1>0, <1>1, <2>1, ScanMore
    <2> QED BY <2>2 DEF Alike, Seen
<1>3. Len(more) = N + 1 /\ more[N + 1] = x /\ \A i \in 1 .. N : more[i] = shown[i]
    BY <1>1
<1>4. Q[k + 1] = Scanned(Q[k], c, more)
    <2>1. (k + 1) - 1 = k
        BY <1>0
    <2>2. \A i \in 1 .. L : Q[i] = Scanned(Q[i - 1], fmt[i], more)
        BY <1>0, ScanDef DEF Scans
    <2> HIDE DEF Q, more, L
    <2>3. Q[k + 1] = Scanned(Q[(k + 1) - 1], fmt[k + 1], more)
        BY <1>0, <2>2
    <2> QED BY <2>1, <2>3
<1>4a. Asks(R[k], c)
    OBVIOUS
<1>5. Goes(R[k].in, c) = "text" /\ x.conv = c
    OBVIOUS
<1>6. Seen' = Q /\ shown' = more /\ fmt' = fmt
    BY DEF Seen
<1> HIDE DEF R, Q, c, L, N, more
<1>7. Q[k] = R[k] /\ N < Len(more) /\ N + 1 \in 0 .. N + 1
    BY <1>0, <1>2, <1>3
<1>8. Q[k + 1].n = N + 1 /\ Q[k + 1].in = "text"
    <2>1. Scanned(R[k], c, more).n = R[k].n + 1 /\ Scanned(R[k], c, more).in = Goes(R[k].in, c)
        BY <1>4a DEF Scanned, Asks, Letters
    <2> QED BY <1>0, <1>4, <1>5, <1>7, <2>1
<1>9. Q[k + 1].r = R[k].r \o x.text
    <2>1. R[k].n < Len(more) /\ more[R[k].n + 1] = x
        BY <1>0, <1>3, <1>7
    <2>2. Scanned(R[k], c, more).r = R[k].r \o more[R[k].n + 1].text
        BY <1>4a, <2>1 DEF Scanned, Asks, Letters
    <2> QED BY <1>4, <1>7, <2>1, <2>2
<1>10. k + 1 \in 0 .. L /\ \A i \in 0 .. k + 1 : i = k + 1 \/ i \in 0 .. k
    BY <1>0
<1>11. \A i \in 0 .. k + 1 : Q[i].n \in 0 .. N + 1
    <2>1. \A i \in 0 .. k : Q[i].n \in 0 .. N + 1
        <3> TAKE i \in 0 .. k
        <3>1. Q[i].n \in 0 .. N
            BY <1>0, <1>2
        <3> QED BY <1>0, <3>1
    <2> QED BY <1>7, <1>8, <1>10, <2>1
<1>12. \A i \in 1 .. k + 1 : Q[i].n > Q[i - 1].n => more[Q[i].n].conv = fmt[i]
    <2> SUFFICES ASSUME NEW i \in 1 .. k + 1, Q[i].n > Q[i - 1].n PROVE more[Q[i].n].conv = fmt[i]
        OBVIOUS
    <2>1. CASE i = k + 1
        BY <1>3, <1>5, <1>8, <2>1 DEF c
    <2>2. CASE i # k + 1
        <3>1. i \in 1 .. k /\ i \in 0 .. k /\ i - 1 \in 0 .. k
            BY <1>0, <2>2
        <3>2. Q[i] = R[i] /\ Q[i - 1] = R[i - 1] /\ R[i].n \in 0 .. N /\ R[i - 1].n \in 0 .. N
            BY <1>0, <1>2, <3>1
        <3>3. R[i].n \in 1 .. N
            BY <1>0, <3>2
        <3>4. more[R[i].n] = shown[R[i].n]
            BY <1>3, <3>3
        <3> QED BY <1>0, <3>1, <3>2, <3>4
    <2> QED BY <2>1, <2>2
<1>13. Upto(k + 1)'
    <2>1. /\ k + 1 \in 0 .. Len(fmt') /\ \A i \in 0 .. k + 1 : Seen'[i].n \in 0 .. Len(shown')
          /\ Seen'[k + 1].n = Len(shown')
          /\ \A i \in 1 .. k + 1 : Seen'[i].n > Seen'[i - 1].n => shown'[Seen'[i].n].conv = fmt'[i]
        BY <1>3, <1>6, <1>8, <1>10, <1>11, <1>12 DEF L
    <2> QED BY <2>1 DEF Upto
<1> QED BY <1>6, <1>8, <1>9, <1>13 DEF R

LEMMA GoesMeans ==
    ASSUME NEW c
    PROVE  /\ Goes("text", c) = IF c = "%" THEN "percent" ELSE "text"
           /\ Goes("percent", "0") = "zero"
           /\ c # "0" => Goes("percent", c) = IF c \in Decimal THEN "width" ELSE "text"
           /\ Goes("zero", c) = IF c \in Decimal THEN "width" ELSE "text"
           /\ Goes("width", c) = IF c \in Wide THEN "width" ELSE "text"
<1>1. Goes("text", c) = IF c = "%" THEN "percent" ELSE "text"
    BY DEF Goes
<1>2. Goes("percent", "0") = "zero"
    BY DEF Goes
<1>3. c # "0" => Goes("percent", c) = IF c \in Decimal THEN "width" ELSE "text"
    BY DEF Goes, Decimal
<1>4. Goes("zero", c) = IF c \in Decimal THEN "width" ELSE "text"
    BY DEF Goes, Decimal
<1>5. Goes("width", c) = IF c \in Wide THEN "width" ELSE "text"
    BY DEF Goes, Wide
<1> QED BY <1>1, <1>2, <1>3, <1>4, <1>5

LEMMA InitOrder == Init => OrderInv
<1> SUFFICES ASSUME Init PROVE OrderInv
    OBVIOUS
<1>1. fmt \in Formats /\ at = 1 /\ pc = "text" /\ out = << >> /\ shown = << >> /\ Len(shown) = 0
    BY DEF Init
<1>2. Len(fmt) \in Nat /\ \A i \in 1 .. Len(fmt) : fmt[i] # NUL
    BY <1>1, FormatsAssumption
<1>3. Seen[0] = Fresh
    BY <1>2, ScanDef DEF Scans, Seen
<1>4. Seen[0].in = "text" /\ Seen[0].n = 0 /\ Seen[0].r = << >>
    BY <1>3 DEF Fresh
<1>5. Dealt = 0
    BY <1>1 DEF Dealt
<1>6. Upto(0)
    <2>1. 0 \in 0 .. Len(fmt) /\ 0 \in 0 .. Len(shown) /\ 1 .. 0 = {} /\ \A i \in 0 .. 0 : i = 0
        BY <1>1, <1>2
    <2> QED BY <1>1, <1>4, <2>1 DEF Upto
<1> QED BY <1>1, <1>2, <1>4, <1>5, <1>6 DEF OrderInv

(* A step that converts nothing leaves what was seen.                       *)
LEMMA SeenStays ==
    ASSUME fmt' = fmt, shown' = shown
    PROVE  Seen' = Seen /\ (\A k : Upto(k)' <=> Upto(k)) /\ (\A i : At(i)' = At(i))
BY DEF Seen, Upto, At

LEMMA PlainOrder ==
    ASSUME FormatInv, DataInv, OrderInv, Plain PROVE OrderInv'
<1>a. PICK k : k = at - 1
    OBVIOUS
<1>0. /\ pc = "text" /\ pc' = "text" /\ at' = at + 1 /\ out' = Append(out, At(at)) /\ At(at) \notin {NUL, "%"}
      /\ fmt' = fmt /\ shown' = shown
    BY DEF Plain
<1>1. Len(fmt) \in Nat /\ at \in 1 .. Len(fmt) + 1 /\ Len(shown) \in Nat
    BY <1>0 DEF FormatInv, DataInv
<1>2. at \in 1 .. Len(fmt)
    BY <1>0, <1>1, NotNul
<1>3. k \in Int /\ k + 1 = at /\ k + 1 <= Len(fmt) /\ Dealt = k /\ Dealt' = k + 1
    BY <1>0, <1>a, <1>2 DEF Dealt
<1>4. At(at) = fmt[k + 1]
    BY <1>2, <1>3 DEF At
<1>5. Upto(k) /\ out = Seen[k].r /\ Seen[k].in = "text"
    BY <1>0, <1>3 DEF OrderInv
<1>6. ~ Asks(Seen[k], fmt[k + 1])
    BY <1>5 DEF Asks
<1>7. Upto(k + 1) /\ Seen[k + 1].in = Goes(Seen[k].in, fmt[k + 1]) /\ Seen[k + 1].r = Kept(Seen[k], fmt[k + 1])
    BY <1>1, <1>3, <1>5, <1>6, NoConversion
<1>8. Seen[k + 1].in = "text"
    <2>1. fmt[k + 1] # "%"
        BY <1>0, <1>4
    <2> QED BY <1>5, <1>7, <2>1, GoesMeans
<1>9. Kept(Seen[k], fmt[k + 1]) = Append(Seen[k].r, fmt[k + 1])
    BY <1>0, <1>4, <1>5 DEF Kept
<1>10. Seen' = Seen /\ Upto(k + 1)'
    BY <1>0, <1>7, SeenStays
<1>11. out' = Seen[k + 1].r
    BY <1>0, <1>4, <1>5, <1>7, <1>9
<1>12. \A i \in 1 .. Len(fmt') : fmt'[i] # NUL
    BY <1>0 DEF OrderInv
<1> QED BY <1>0, <1>3, <1>8, <1>10, <1>11, <1>12 DEF OrderInv

LEMMA PercentOrder ==
    ASSUME FormatInv, DataInv, OrderInv, Percent PROVE OrderInv'
<1>a. PICK k : k = at - 1
    OBVIOUS
<1> DEFINE zero == At(at + 1) = "0"
           last == IF zero THEN at + 2 ELSE at + 1
<1>0. /\ pc = "text" /\ At(at) = "%" /\ fmt' = fmt /\ shown' = shown /\ out' = out
      /\ ch' = At(last) /\ at' = last + 1
      /\ pc' = IF At(last) \in Decimal THEN "width" ELSE "convert"
    BY DEF Percent, Decimal
<1>1. Len(fmt) \in Nat /\ at \in 1 .. Len(fmt) + 1 /\ Len(shown) \in Nat
    BY <1>0 DEF FormatInv, DataInv
<1>2. at \in 1 .. Len(fmt)
    BY <1>0, <1>1, NotNul DEF NUL
<1>3. k \in Int /\ k + 1 = at /\ k + 1 <= Len(fmt) /\ Dealt = k
    BY <1>0, <1>a, <1>2 DEF Dealt
<1>4. fmt[at] = "%"
    BY <1>0, <1>2 DEF At
<1>5. Upto(k) /\ out = Seen[k].r /\ Seen[k].in = "text"
    BY <1>0, <1>3 DEF OrderInv
<1>6. ~ Asks(Seen[k], fmt[k + 1])
    BY <1>5 DEF Asks
<1>7. Upto(k + 1) /\ Seen[k + 1].in = Goes(Seen[k].in, fmt[k + 1]) /\ Seen[k + 1].r = Kept(Seen[k], fmt[k + 1])
    BY <1>1, <1>3, <1>5, <1>6, NoConversion
<1>8. Upto(at) /\ Seen[at].in = "percent" /\ Seen[at].r = out
    <2>1. Goes(Seen[k].in, fmt[k + 1]) = "percent"
        BY <1>3, <1>4, <1>5, GoesMeans
    <2>2. Kept(Seen[k], fmt[k + 1]) = Seen[k].r
        BY <1>3, <1>4, <1>5 DEF Kept
    <2> QED BY <1>3, <1>5, <1>7, <2>1, <2>2
<1>9. ASSUME zero PROVE Upto(at + 1) /\ Seen[at + 1].in = "zero" /\ Seen[at + 1].r = out
    <2>1. at + 1 \in 1 .. Len(fmt)
        BY <1>1, <1>9, NotNul DEF NUL
    <2>2. fmt[at + 1] = "0" /\ at + 1 <= Len(fmt) /\ at \in Int
        BY <1>1, <1>9, <2>1 DEF At
    <2>3. ~ Asks(Seen[at], fmt[at + 1])
        BY <2>2 DEF Asks, Letters
    <2>4. Upto(at + 1) /\ Seen[at + 1].in = Goes(Seen[at].in, fmt[at + 1]) /\ Seen[at + 1].r = Kept(Seen[at], fmt[at + 1])
        BY <1>1, <1>8, <2>2, <2>3, NoConversion
    <2>5. Goes(Seen[at].in, fmt[at + 1]) = "zero"
        BY <1>8, <2>2, GoesMeans
    <2>6. Kept(Seen[at], fmt[at + 1]) = Seen[at].r
        BY <1>8, <2>2 DEF Kept
    <2> QED BY <1>8, <2>4, <2>5, <2>6
<1>b. PICK m : m = last - 1
    OBVIOUS
<1>10. m \in Int /\ m + 1 = last /\ at' - 2 = m /\ m = IF zero THEN at + 1 ELSE at
    BY <1>0, <1>b, <1>1
<1>11. /\ Upto(m) /\ Seen[m].r = out /\ Seen[m].in = IF zero THEN "zero" ELSE "percent"
    BY <1>8, <1>9, <1>10
<1>12. ~ zero => At(last) # "0"
    OBVIOUS
<1>13. Seen' = Seen /\ Upto(m)' /\ At(m + 1)' = At(m + 1)
    BY <1>0, <1>11, SeenStays
<1>14. pc' \in {"width", "convert"} /\ Dealt' = m
    BY <1>0, <1>10 DEF Dealt
<1> HIDE DEF last, zero
<1>15. ch' = At(m + 1) /\ ch' = At(last)
    BY <1>0, <1>10
<1>16. pc' = "width" => ch' \in Decimal /\ (ch' # "0" \/ Seen[m].in = "zero")
    BY <1>0, <1>11, <1>12, <1>15
<1>17. pc' = "convert" => Goes(Seen[m].in, ch') = "text"
    <2> SUFFICES ASSUME pc' = "convert" PROVE Goes(Seen[m].in, ch') = "text"
        OBVIOUS
    <2>1. ch' \notin Decimal
        BY <1>0, <1>15
    <2>2. CASE zero
        BY <1>11, <2>1, <2>2, GoesMeans
    <2>3. CASE ~ zero
        BY <1>11, <1>12, <1>15, <2>1, <2>3, GoesMeans
    <2> QED BY <2>2, <2>3
<1>18. \A i \in 1 .. Len(fmt') : fmt'[i] # NUL
    BY <1>0 DEF OrderInv
<1>19. Seen[m].in \in {"percent", "zero", "width"}
    BY <1>11
<1> QED BY <1>0, <1>11, <1>13, <1>14, <1>15, <1>16, <1>17, <1>18, <1>19 DEF OrderInv

LEMMA WidthOrder ==
    ASSUME FormatInv, DataInv, OrderInv, Width \/ WidthDone PROVE OrderInv'
<1>a. PICK k : k = at - 2
    OBVIOUS
<1>0. /\ pc = "width" /\ fmt' = fmt /\ shown' = shown /\ out' = out
    BY DEF Width, WidthDone
<1>1. Len(fmt) \in Nat /\ at \in Int /\ Len(shown) \in Nat /\ k \in Int /\ Dealt = k /\ k + 1 = at - 1
    BY <1>0, <1>a DEF FormatInv, DataInv, Dealt
<1>2. /\ Upto(k) /\ out = Seen[k].r /\ Seen[k].in \in {"percent", "zero", "width"} /\ ch = At(k + 1)
      /\ Seen[k].in = "width" \/ (ch \in Decimal /\ (ch # "0" \/ Seen[k].in = "zero"))
    BY <1>0, <1>1 DEF OrderInv
<1>3. Decimal \subseteq Wide /\ NUL \notin Wide /\ Wide \cap Letters = {} /\ "%" \notin Wide
    BY DecimalIs DEF NUL, Letters
<1>4. \A i \in 1 .. Len(fmt') : fmt'[i] # NUL
    BY <1>0 DEF OrderInv
<1>5. CASE Width
    <2>1. pc' = "width" /\ ch' = At(at) /\ at' = at + 1 /\ ch \in Wide
        BY <1>5, WidthCharacters DEF Width
    <2>2. Dealt' = k + 1 /\ (k + 1) + 1 = at
        BY <1>1, <2>1 DEF Dealt
    <2>3. k + 1 \in 1 .. Len(fmt)
        BY <1>1, <1>2, <1>3, <2>1, NotNul
    <2>4. fmt[k + 1] = ch /\ k + 1 <= Len(fmt)
        BY <1>1, <1>2, <2>3 DEF At
    <2>5. ~ Asks(Seen[k], fmt[k + 1])
        BY <1>3, <2>1, <2>4 DEF Asks
    <2>6. Upto(k + 1) /\ Seen[k + 1].in = Goes(Seen[k].in, fmt[k + 1]) /\ Seen[k + 1].r = Kept(Seen[k], fmt[k + 1])
        BY <1>1, <1>2, <2>4, <2>5, NoConversion
    <2>7. Seen[k + 1].in = "width"
        BY <1>2, <2>1, <2>4, <2>6, GoesMeans
    <2>8. Kept(Seen[k], fmt[k + 1]) = Seen[k].r
        BY <1>2, <1>3, <2>1, <2>4 DEF Kept
    <2>9. Seen' = Seen /\ Upto(k + 1)' /\ At((k + 1) + 1)' = At((k + 1) + 1)
        BY <1>0, <2>6, SeenStays
    <2>10. ch' = At((k + 1) + 1)'
        BY <2>1, <2>2, <2>9
    <2> QED BY <1>0, <1>2, <1>4, <2>1, <2>2, <2>6, <2>7, <2>8, <2>9, <2>10 DEF OrderInv
<1>6. CASE WidthDone
    <2>1. pc' = "convert" /\ ch' = ch /\ at' = at /\ ch \notin Wide
        BY <1>6, WidthCharacters DEF WidthDone
    <2>2. Dealt' = k
        BY <1>a, <2>1 DEF Dealt
    <2>3. Seen[k].in = "width"
        BY <1>2, <1>3, <2>1
    <2>4. Goes(Seen[k].in, ch) = "text"
        BY <2>1, <2>3, GoesMeans
    <2>5. Seen' = Seen /\ Upto(k)' /\ At(k + 1)' = At(k + 1)
        BY <1>0, <1>2, SeenStays
    <2> QED BY <1>0, <1>2, <1>4, <2>1, <2>2, <2>4, <2>5 DEF OrderInv
<1> QED BY <1>5, <1>6

(* The switch: ch is the letter a conversion ends with.                     *)
LEMMA AtLetter ==
    ASSUME FormatInv, DataInv, OrderInv, pc = "convert", NEW k, k = at - 2
    PROVE  /\ Len(fmt) \in Nat /\ at \in Int /\ k \in Int /\ Len(shown) \in Nat /\ k + 1 = at - 1
           /\ Upto(k) /\ out = Seen[k].r /\ Seen[k].in # "text" /\ Goes(Seen[k].in, ch) = "text"
           /\ ch # NUL => k + 1 \in 1 .. Len(fmt) /\ k + 1 <= Len(fmt) /\ fmt[k + 1] = ch
           /\ ch = NUL => k = Len(fmt)
<1>1. Len(fmt) \in Nat /\ at \in Int /\ k \in Int /\ Len(shown) \in Nat /\ k + 1 = at - 1 /\ Dealt = k
    BY DEF FormatInv, DataInv, Dealt
<1>2. /\ Upto(k) /\ out = Seen[k].r /\ Seen[k].in \in {"percent", "zero", "width"} /\ ch = At(k + 1)
      /\ Goes(Seen[k].in, ch) = "text"
    BY <1>1 DEF OrderInv
<1>3. ch # NUL => k + 1 \in 1 .. Len(fmt)
    BY <1>1, <1>2, NotNul
<1>4. ch # NUL => k + 1 <= Len(fmt) /\ fmt[k + 1] = ch
    BY <1>1, <1>2, <1>3 DEF At
<1>5. ASSUME ch = NUL PROVE k = Len(fmt)
    <2>1. k \in 0 .. Len(fmt)
        BY <1>2 DEF Upto
    <2>2. k + 1 \notin 1 .. Len(fmt)
        BY <1>2, <1>5 DEF At, OrderInv
    <2> QED BY <1>1, <2>1, <2>2
<1> QED BY <1>1, <1>2, <1>3, <1>4, <1>5

LEMMA PutsOrder ==
    ASSUME FormatInv, DataInv, OrderInv, NEW text, NEW arg, pc = "convert", ch \in Letters, Puts(text, arg)
    PROVE  OrderInv'
<1>a. PICK k : k = at - 2
    OBVIOUS
<1>b. PICK x : x = [conv |-> ch, arg |-> arg, w |-> w, lz |-> lz, text |-> text]
    OBVIOUS
<1>1. /\ Len(fmt) \in Nat /\ at \in Int /\ k \in Int /\ k + 1 = at - 1
      /\ Upto(k) /\ out = Seen[k].r /\ Seen[k].in # "text" /\ Goes(Seen[k].in, ch) = "text"
      /\ k + 1 <= Len(fmt) /\ fmt[k + 1] = ch
    BY <1>a, AtLetter DEF Letters, NUL
<1>2. out' = out \o text /\ shown' = Append(shown, x) /\ pc' = "text" /\ fmt' = fmt /\ at' = at
    BY <1>b DEF Puts
<1>3. x.conv = ch /\ x.text = text
    BY <1>b
<1>4. Dealt' = k + 1
    BY <1>1, <1>2 DEF Dealt
<1>5. PICK S : shown \in Seq(S)
    BY DEF DataInv
<1>6. Asks(Seen[k], fmt[k + 1]) /\ Goes(Seen[k].in, fmt[k + 1]) = "text" /\ x.conv = fmt[k + 1]
    BY <1>1, <1>3 DEF Asks
<1>7. Upto(k + 1)' /\ Seen'[k + 1].in = "text" /\ Seen'[k + 1].r = Seen[k].r \o x.text
    BY <1>1, <1>2, <1>5, <1>6, OneConversion
<1>8. \A i \in 1 .. Len(fmt') : fmt'[i] # NUL
    BY <1>2 DEF OrderInv
<1> QED BY <1>1, <1>2, <1>3, <1>4, <1>7, <1>8 DEF OrderInv

LEMMA OtherOrder ==
    ASSUME FormatInv, DataInv, OrderInv, ConvertOther PROVE OrderInv'
<1>a. PICK k : k = at - 2
    OBVIOUS
<1>0. /\ pc = "convert" /\ ch # NUL /\ ch \notin Letters /\ pc' = "text" /\ fmt' = fmt /\ shown' = shown /\ at' = at
      /\ out' = IF ch = "%" THEN Append(out, ch) ELSE out
    BY DEF ConvertOther, Letters
<1>1. /\ Len(fmt) \in Nat /\ at \in Int /\ k \in Int /\ k + 1 = at - 1 /\ Len(shown) \in Nat
      /\ Upto(k) /\ out = Seen[k].r /\ Seen[k].in # "text" /\ Goes(Seen[k].in, ch) = "text"
      /\ k + 1 <= Len(fmt) /\ fmt[k + 1] = ch
    BY <1>0, <1>a, AtLetter
<1>2. Dealt' = k + 1
    BY <1>0, <1>1 DEF Dealt
<1>3. ~ Asks(Seen[k], fmt[k + 1])
    BY <1>0, <1>1 DEF Asks
<1>4. Upto(k + 1) /\ Seen[k + 1].in = Goes(Seen[k].in, fmt[k + 1]) /\ Seen[k + 1].r = Kept(Seen[k], fmt[k + 1])
    BY <1>1, <1>3, NoConversion
<1>5. Kept(Seen[k], fmt[k + 1]) = IF ch = "%" THEN Append(out, ch) ELSE out
    BY <1>1 DEF Kept
<1>6. Seen' = Seen /\ Upto(k + 1)'
    BY <1>0, <1>4, SeenStays
<1>7. \A i \in 1 .. Len(fmt') : fmt'[i] # NUL
    BY <1>0 DEF OrderInv
<1>8. out' = Seen[k + 1].r /\ Seen[k + 1].in = "text"
    BY <1>0, <1>1, <1>4, <1>5
<1> QED BY <1>0, <1>2, <1>6, <1>7, <1>8 DEF OrderInv

LEMMA EndOrder ==
    ASSUME FormatInv, DataInv, OrderInv, End \/ Abort PROVE OrderInv'
<1>1. /\ pc' = "done" /\ out' = IF sprintf THEN Append(out, NUL) ELSE out
      /\ fmt' = fmt /\ shown' = shown /\ sprintf' = sprintf /\ pc \in {"text", "convert"}
    BY DEF End, Abort, Returns
<1>2. Dealt = Len(fmt)
    <2>1. CASE End
        <3>1. pc = "text" /\ At(at) = NUL
            BY <2>1 DEF End
        <3>2. Len(fmt) \in Nat /\ at \in 1 .. Len(fmt) + 1
            BY <3>1 DEF FormatInv
        <3>3. at \notin 1 .. Len(fmt)
            BY <3>1 DEF At, OrderInv
        <3>4. at - 1 = Len(fmt)
            BY <3>2, <3>3
        <3> QED BY <3>1, <3>4 DEF Dealt
    <2>2. CASE Abort
        <3>1. pc = "convert" /\ ch = NUL
            BY <2>2 DEF Abort
        <3>2. at - 2 = Len(fmt)
            BY <3>1, AtLetter
        <3> QED BY <3>1, <3>2 DEF Dealt
    <2> QED BY <2>1, <2>2
<1>3. Dealt' = Len(fmt)
    BY <1>1 DEF Dealt
<1>4. Upto(Len(fmt)) /\ out = Seen[Len(fmt)].r
    BY <1>1, <1>2 DEF OrderInv
<1>5. Seen' = Seen /\ Upto(Len(fmt))'
    <2> DEFINE k == Len(fmt)
    <2>1. k' = k /\ Upto(k)
        BY <1>1, <1>4
    <2> HIDE DEF k
    <2>2. Seen' = Seen /\ (Upto(k) => Upto(k)')
        BY <1>1, <2>1 DEF Seen, Upto
    <2> QED BY <2>1, <2>2 DEF k
<1>6. \A i \in 1 .. Len(fmt') : fmt'[i] # NUL
    BY <1>1 DEF OrderInv
<1> QED BY <1>1, <1>3, <1>4, <1>5, <1>6 DEF OrderInv

LEMMA NextOrder == FormatInv /\ DataInv /\ OrderInv /\ [Next]_vars => OrderInv'
<1> SUFFICES ASSUME FormatInv, DataInv, OrderInv, [Next]_vars PROVE OrderInv'
    OBVIOUS
<1>1. CASE ConvertU \/ ConvertD \/ ConvertX \/ ConvertC \/ ConvertS
    <2>1. PICK text, arg : pc = "convert" /\ ch \in Letters /\ Puts(text, arg)
        BY <1>1, Zenon DEF ConvertU, ConvertD, ConvertX, ConvertC, ConvertS, Number, Letters
    <2> QED BY <2>1, PutsOrder
<1>2. CASE UNCHANGED vars
    BY <1>2 DEF vars, OrderInv, Upto, Seen, Dealt, At
<1> QED
    BY <1>1, <1>2, PlainOrder, PercentOrder, WidthOrder, OtherOrder, EndOrder DEF Next

(* When tfp_format returns, every conversion of the format and no other has *)
(* been done, in order, and what was put is the format with each replaced   *)
(* by its text, for every format and whatever the arguments are: a2i leaves *)
(* off in front of the letter.                                              *)
THEOREM FormatFollowed == Spec => []TextsInOrder
<1>1. FormatInv /\ OrderInv => TextsInOrder
    <2> SUFFICES ASSUME FormatInv, OrderInv, pc = "done" PROVE TextsInOrder
        BY DEF TextsInOrder
    <2>1. Dealt = Len(fmt)
        BY DEF Dealt
    <2>2. Upto(Len(fmt)) /\ out = IF sprintf THEN Append(Seen[Len(fmt)].r, NUL) ELSE Seen[Len(fmt)].r
        BY <2>1 DEF OrderInv
    <2> QED BY <2>2 DEF TextsInOrder, Upto, Seen
<1> QED BY <1>1, InitFormat, NextFormat, InitData, NextData, InitOrder, NextOrder, PTL DEF Spec
=============================================================================
